------------------------------ MODULE Publish -------------------------------
(***************************************************************************)
(* How runs publish (orchestrator.py, output/*.py), at the grain of single *)
(* calls to the file system.  A day's playout file appears in one rename.  *)
(* channel.json, the guides, epg.xml, lineup.json and the marker are       *)
(* opened, which empties them, and then filled in place; _gc looks at a    *)
(* file and then unlinks whatever has its name; whether /state can be      *)
(* written to is found out by making a file there and unlinking it.        *)
(*                                                                         *)
(* Each process is one `jfin2etv once`.  Its channels share an event loop: *)
(* from its start to the await on Jellyfin, and from there to the commit,  *)
(* a channel is alone in its process.  Between processes nothing but the   *)
(* write lock of a channel's store keeps order.  Which days are planned    *)
(* and what time does to them is module RollingWindow; here a window is    *)
(* one day, whose file is fresh once it is written.                        *)
(***************************************************************************)
EXTENDS Naturals, Sequences, SequencesExt

CONSTANTS
    Procs,           \* the processes
    Channels,
    Covers,          \* process: the channels its run is about
    Forced,          \* processes started with --force
    Nobody

ASSUME PublishAssumption ==
    /\ Covers \in [Procs -> SUBSET Channels]
    /\ Forced \subseteq Procs
    /\ Nobody \notin Procs

VARIABLES
    doc,             \* files written in place: torn or whole, and by whom
    merged,          \* channel: whose guide of it epg.xml has
    day,             \* channel: its playout file
    probe,           \* is there a /state/.write_probe
    writable,        \* may anything be written to /state
    lock,            \* channel: who holds the write lock of its store
    rows,            \* channel: who has committed to its store, in order
    proc             \* process: where it is

files == <<doc, merged, day, probe, writable>>
stores == <<lock, rows>>
vars == <<files, stores, proc>>

-----------------------------------------------------------------------------
Docs == ({"config", "guide"} \X Channels) \cup ({"marker"} \X Procs)
            \cup {<<"epg">>, <<"lineup">>}

\* The stages of a process at which it writes a file in place; that file.
Writing == {"config", "guide", "epg", "lineup", "marker"}

Target(p) == CASE proc[p].pc \in {"config", "guide"} -> <<proc[p].pc, proc[p].ch>>
               [] proc[p].pc = "marker" -> <<"marker", p>>
               [] OTHER -> <<proc[p].pc>>

\* p is in the file, or was when it died.
HasOpen(p, d) == proc[p].pc \in Writing /\ proc[p].open /\ Target(p) = d

At(p, pc) == proc[p].up /\ proc[p].pc = pc

In(p, pcs) == proc[p].up /\ proc[p].pc \in pcs

Becomes(p, t) == proc' = [proc EXCEPT ![p] = t]

Goto(p, pc) == Becomes(p, [proc[p] EXCEPT !.pc = pc])

Take(p, c, pc) == Becomes(p, [proc[p] EXCEPT !.pc = pc, !.ch = c])

\* The channel at hand is left in this stage; its process is free again.
Leave(p, c, stage) ==
    Becomes(p, [proc[p] EXCEPT !.pc = "loop", !.ch = Nobody,
                               !.stage = [@ EXCEPT ![c] = stage]])

Staged(p, stages) == {c \in Channels : proc[p].stage[c] \in stages}

-----------------------------------------------------------------------------
(* One channel: _run_channel. *)

\* run_once: a task for each channel.
Start(p) ==
    /\ At(p, "idle")
    /\ Becomes(p, [proc[p] EXCEPT !.pc = "loop",
                                  !.stage = [c \in Channels |->
                                      IF c \in Covers[p] THEN "queued" ELSE "none"]])
    /\ UNCHANGED <<files, stores>>

\* invoke_plan fails, or it is the turn of the write probe: touch() ...
Touch(p, c) ==
    /\ At(p, "loop") /\ proc[p].stage[c] = "queued"
    /\ \/ Leave(p, c, "error") /\ UNCHANGED probe
       \/ ~writable /\ Leave(p, c, "refused") /\ UNCHANGED probe
       \/ /\ writable
          /\ probe' = TRUE
          /\ Take(p, c, "probe")
    /\ UNCHANGED <<doc, merged, day, writable, stores>>

\* ... and unlink(), which raises if the file is gone.  Any OSError means:
\* state_dir is not writable.  Then the coroutine awaits Jellyfin's answers.
Unlink(p) ==
    /\ At(p, "probe")
    /\ Leave(p, proc[p].ch, IF probe THEN "resolving" ELSE "refused")
    /\ probe' = FALSE
    /\ UNCHANGED <<doc, merged, day, writable, stores>>

\* _resolve_pools raises, or the playout folder cannot be made.
ResolveFails(p, c) ==
    /\ At(p, "loop") /\ proc[p].stage[c] = "resolving"
    /\ Leave(p, c, "error")
    /\ UNCHANGED <<files, stores>>

\* Slip: the store is opened without taking its write lock.
OpenStore_NoLock(p, c) ==
    /\ At(p, "loop") /\ proc[p].stage[c] = "resolving"
    /\ \/ Take(p, c, "look") /\ UNCHANGED lock
       \/ Leave(p, c, "raised") /\ UNCHANGED lock
    /\ UNCHANGED <<files, rows>>

\* start_run takes the write lock; or the store stays busy, and that raises
\* outside the try.
OpenStore(p, c) ==
    /\ At(p, "loop") /\ proc[p].stage[c] = "resolving"
    /\ \/ /\ lock[c] = Nobody
          /\ lock' = [lock EXCEPT ![c] = p]
          /\ Take(p, c, "look")
       \/ Leave(p, c, "raised") /\ UNCHANGED lock
    /\ UNCHANGED <<files, rows>>

\* _existing_playout lists the folder: --force takes no second look ...
Look(p) ==
    /\ At(p, "look")
    /\ Goto(p, IF day[proc[p].ch] = "absent" \/ p \in Forced THEN "day" ELSE "stat")
    /\ UNCHANGED <<files, stores>>

\* Slip: what was there when the folder was listed is taken to be fresh.
Stat_TrustsTheListing(p) ==
    /\ At(p, "stat")
    /\ Goto(p, "config")
    /\ UNCHANGED <<files, stores>>

\* ... otherwise its modification time is asked for, and it may be gone.
Stat(p) ==
    /\ At(p, "stat")
    /\ Goto(p, CASE day[proc[p].ch] = "fresh"  -> "config"
                 [] day[proc[p].ch] = "old"    -> "day"
                 [] day[proc[p].ch] = "absent" -> "failed")
    /\ UNCHANGED <<files, stores>>

\* expand_day and write_playout: the file is complete before it is renamed.
WriteDay(p) ==
    /\ At(p, "day")
    /\ \/ /\ day' = [day EXCEPT ![proc[p].ch] = "fresh"]
          /\ Goto(p, "config")
       \/ Goto(p, "failed") /\ UNCHANGED day
    /\ UNCHANGED <<doc, merged, probe, writable, stores>>

\* __exit__: the outcome is committed and the lock is free.
Commit(p) ==
    /\ In(p, {"commit", "failed"})
    /\ LET c == proc[p].ch
       IN  /\ Leave(p, c, IF At(p, "commit") THEN "ok" ELSE "error")
           /\ rows' = [rows EXCEPT ![c] = Append(@, p)]
           /\ lock' = [lock EXCEPT ![c] = IF @ = p THEN Nobody ELSE @]
    /\ UNCHANGED files

\* The commit raises, or finish_run did: the row is rolled back, and the
\* exception leaves _run_channel.
CommitFails(p) ==
    /\ In(p, {"commit", "failed"})
    /\ Leave(p, proc[p].ch, "raised")
    /\ lock' = [lock EXCEPT ![proc[p].ch] = IF @ = p THEN Nobody ELSE @]
    /\ UNCHANGED <<files, rows>>

-----------------------------------------------------------------------------
(* A file written in place. *)

\* open("w") and write_bytes empty the file.  Two processes that have it open
\* at once write over one another.
OpenFile(p) ==
    /\ In(p, Writing) /\ ~proc[p].open
    /\ At(p, "marker") => writable
    /\ doc' = [doc EXCEPT ![Target(p)] =
                 [by |-> p, whole |-> FALSE,
                  shared |-> \E q \in Procs \ {p} : proc[q].up /\ HasOpen(q, Target(p))]]
    /\ Becomes(p, [proc[p] EXCEPT !.open = TRUE])
    /\ UNCHANGED <<merged, day, probe, writable, stores>>

\* The stage that follows a write.
After == [config |-> "guide", guide |-> "commit", epg |-> "lineup",
          lineup |-> "gc", marker |-> "done"]

\* Slip: the file is not closed.
FillFile_NotClosed(p) ==
    /\ In(p, Writing) /\ proc[p].open
    /\ doc' = [doc EXCEPT ![Target(p)] = [@ EXCEPT !.by = p, !.whole = TRUE]]
    /\ merged' = IF At(p, "epg") THEN proc[p].got ELSE merged
    /\ Goto(p, After[proc[p].pc])
    /\ UNCHANGED <<day, probe, writable, stores>>

\* Its contents arrive.  A file that two have written to is the one's, or the
\* one's with a tail of the other's.
FillFile(p) ==
    /\ In(p, Writing) /\ proc[p].open
    /\ \E whole \in IF doc[Target(p)].shared THEN BOOLEAN ELSE {TRUE} :
          doc' = [doc EXCEPT ![Target(p)] = [@ EXCEPT !.by = p, !.whole = whole]]
    /\ merged' = IF At(p, "epg") THEN proc[p].got ELSE merged
    /\ Becomes(p, [proc[p] EXCEPT !.pc = After[@], !.open = FALSE,
                                  !.got = [c \in Channels |-> Nobody],
                                  !.left = IF At(p, "lineup") THEN Channels ELSE {}])
    /\ UNCHANGED <<day, probe, writable, stores>>

\* Slip: the path is handed on before the file is written.
WriteFails_ButListed(p) ==
    /\ In(p, Writing)
    /\ Becomes(p, [proc[p] EXCEPT !.open = FALSE,
                                  !.pc = CASE At(p, "config") -> "failed"
                                           [] At(p, "guide") -> "commit"
                                           [] OTHER -> "aborted"])
    /\ UNCHANGED <<files, stores>>

\* The write raises, before or after the file was emptied: the channel has
\* failed, or the run.
WriteFails(p) ==
    /\ In(p, Writing)
    /\ Becomes(p, [proc[p] EXCEPT !.open = FALSE,
                                  !.pc = IF @ \in {"config", "guide"} THEN "failed"
                                                                     ELSE "aborted"])
    /\ UNCHANGED <<files, stores>>

-----------------------------------------------------------------------------
(* The run as a whole. *)

\* `await t` raises what a channel raised.
Abort(p) ==
    /\ At(p, "loop") /\ Staged(p, {"raised"}) # {}
    /\ Goto(p, "aborted")
    /\ UNCHANGED <<files, stores>>

\* Every channel has ended: the guides of those without errors are merged.
\* Without any there is neither merge nor lineup.
EndOfChannels(p) ==
    /\ At(p, "loop")
    /\ Staged(p, {"queued", "resolving", "raised"}) = {}
    /\ LET ok == Staged(p, {"ok"})
       IN  Becomes(p, [proc[p] EXCEPT !.pc = IF ok = {} THEN "gc" ELSE "merge",
                                      !.left = IF ok = {} THEN Channels ELSE ok])
    /\ UNCHANGED <<files, stores>>

\* merge_xmltv_files reads one guide after another, under no lock; one that
\* does not parse raises.
ReadGuide(p) ==
    /\ At(p, "merge")
    /\ \E c \in proc[p].left :
          LET g == doc[<<"guide", c>>]
              rest == proc[p].left \ {c}
          IN  IF g.whole
              THEN Becomes(p, [proc[p] EXCEPT !.got = [@ EXCEPT ![c] = g.by],
                                              !.left = rest,
                                              !.pc = IF rest = {} THEN "epg" ELSE @])
              ELSE Goto(p, "aborted")
    /\ UNCHANGED <<files, stores>>

\* _gc asks for the time of every playout file of every channel ...
GcStat(p) ==
    /\ At(p, "gc")
    /\ \E c \in proc[p].left :
          Becomes(p, [proc[p] EXCEPT !.left = @ \ {c},
                                     !.pc = IF day[c] = "old" THEN "unlink" ELSE @,
                                     !.ch = IF day[c] = "old" THEN c ELSE @])
    /\ UNCHANGED <<files, stores>>

\* ... and removes what has the name of an old one.  One that is gone does
\* not matter.
GcUnlink(p) ==
    /\ At(p, "unlink")
    /\ LET c == proc[p].ch
       IN  /\ day' = [day EXCEPT ![c] = "absent"]
           /\ Becomes(p, [proc[p] EXCEPT !.pc = "gc", !.ch = Nobody,
                             !.swept = @ \cup {d \in {c} : day[d] = "fresh"}])
    /\ UNCHANGED <<doc, merged, probe, writable, stores>>

GcEnds(p) ==
    /\ At(p, "gc") /\ proc[p].left = {}
    /\ Goto(p, "marker")
    /\ UNCHANGED <<files, stores>>

Over == {"done", "aborted"}

\* The process dies: its transaction is rolled back, its files stay.
Crash(p) ==
    /\ proc[p].up /\ proc[p].pc \notin Over \cup {"idle"}
    /\ Becomes(p, [proc[p] EXCEPT !.up = FALSE])
    /\ lock' = [c \in Channels |-> IF lock[c] = p THEN Nobody ELSE lock[c]]
    /\ UNCHANGED <<files, rows>>

-----------------------------------------------------------------------------
\* Files of earlier runs: whole, and at least 48 hours old, or not there.
Init ==
    /\ doc = [d \in Docs |-> [by |-> Nobody, whole |-> TRUE, shared |-> FALSE]]
    /\ merged = [c \in Channels |-> Nobody]
    /\ day \in [Channels -> {"absent", "old"}]
    /\ probe = FALSE /\ writable \in BOOLEAN
    /\ lock = [c \in Channels |-> Nobody]
    /\ rows = [c \in Channels |-> << >>]
    /\ proc = [p \in Procs |->
                 [up |-> TRUE, pc |-> "idle", ch |-> Nobody, open |-> FALSE,
                  stage |-> [c \in Channels |-> "none"],
                  got |-> [c \in Channels |-> Nobody], left |-> {}, swept |-> {}]]

ChannelStep(p) ==
    \/ \E c \in Channels : Touch(p, c) \/ ResolveFails(p, c) \/ OpenStore(p, c)
    \/ Unlink(p) \/ Look(p) \/ Stat(p) \/ WriteDay(p)
    \/ Commit(p) \/ CommitFails(p)

RunStep(p) ==
    \/ Start(p) \/ Abort(p) \/ EndOfChannels(p) \/ ReadGuide(p)
    \/ GcStat(p) \/ GcUnlink(p) \/ GcEnds(p)

FileStep(p) == OpenFile(p) \/ FillFile(p) \/ WriteFails(p)

Next == \E p \in Procs :
           ChannelStep(p) \/ RunStep(p) \/ FileStep(p) \/ Crash(p)

Spec == Init /\ [][Next]_vars

-----------------------------------------------------------------------------
(* Properties. *)

Stages == {"none", "queued", "resolving", "refused", "raised", "ok", "error"}

\* The stages of a process at which it is busy with one channel.
AtChannel == {"probe", "look", "stat", "day", "config", "guide", "commit",
              "failed", "unlink"}

ProcType ==
    [up : BOOLEAN, pc : {"idle", "loop", "merge", "gc"} \cup AtChannel \cup Writing \cup Over,
     ch : Channels \cup {Nobody}, open : BOOLEAN, stage : [Channels -> Stages],
     got : [Channels -> Procs \cup {Nobody}],
     left : SUBSET Channels, swept : SUBSET Channels]

\* Type correctness; a file is open only while one is written, and whoever is
\* busy with a channel is busy with one there is.
TypeOK ==
    /\ doc \in [Docs -> [by : Procs \cup {Nobody}, whole : BOOLEAN, shared : BOOLEAN]]
    /\ merged \in [Channels -> Procs \cup {Nobody}]
    /\ day \in [Channels -> {"absent", "old", "fresh"}]
    /\ probe \in BOOLEAN /\ writable \in BOOLEAN
    /\ lock \in [Channels -> Procs \cup {Nobody}]
    /\ rows \in [Channels -> Seq(Procs)]
    /\ proc \in [Procs -> ProcType]
    /\ \A p \in Procs : /\ proc[p].open => proc[p].pc \in Writing
                        /\ proc[p].pc \in AtChannel => proc[p].ch \in Channels

\* p has written all files of c.
Published(p, c) ==
    proc[p].stage[c] = "ok" \/ (proc[p].ch = c /\ proc[p].pc = "commit")

\* A torn file is one its writer is in now, died in, or failed to write; only
\* epg.xml and lineup.json may also be torn because two processes wrote them
\* at once.  What belongs to a channel is written under its store's lock.
TornHasACause ==
    \A d \in Docs : ~doc[d].whole =>
        LET p == doc[d].by
        IN  \/ HasOpen(p, d)
            \/ d \in {<<"epg">>, <<"lineup">>} /\ doc[d].shared
            \/ d \in Docs \ ({"config", "guide"} \X Channels) /\ At(p, "aborted")
            \/ d \in {"config", "guide"} \X Channels /\ ~Published(p, d[2])

\* A merge trips over a guide only if another process has written to it after
\* this run did: never over what an earlier crash or its own failed write
\* left, since a run reads no guide but those it has just written.
OnlyAnotherTripsTheMerge ==
    [][\A p \in Procs : At(p, "merge") /\ At(p, "aborted")' =>
          \E c \in proc[p].left : /\ ~doc[<<"guide", c>>].whole
                                  /\ doc[<<"guide", c>>].by # p]_vars

\* p has committed to c's store before q, or q has not committed yet.
Later(c, p, q) ==
    \A i, j \in DOMAIN rows[c] : rows[c][i] = p /\ rows[c][j] = q => i < j

\* epg.xml never shows, of a channel its run has planned, a guide older than
\* that run's own: it is that run's, or one of a process that got the store
\* after it.
EpgNotBehindItsRun ==
    LET p == doc[<<"epg">>].by
    IN  p # Nobody /\ doc[<<"epg">>].whole /\ ~doc[<<"epg">>].shared =>
            \A c \in Staged(p, {"ok"}) :
                \/ merged[c] = p
                \/ merged[c] # Nobody /\ Later(c, p, merged[c])

\* A channel that a run reports done has a playout file that is not old:
\* unless some collection had seen an old file there, and removed the new one
\* in its place.
DoneHasItsDay ==
    \A p \in Procs : \A c \in Staged(p, {"ok"}) :
        day[c] = "fresh" \/ (\E q \in Procs : c \in proc[q].swept)

\* README.md "state_dir ... is not writable by uid 1000": the bind-mount
\* source is owned by root.  A channel is refused so only if it is.
RefusedMeansUnwritable ==
    \A p \in Procs : Staged(p, {"refused"}) # {} => ~writable

=============================================================================

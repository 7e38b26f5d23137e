--------------------------- MODULE RollingWindow ----------------------------
(***************************************************************************)
(* Orchestrator.run_once (orchestrator.py): the daily run that writes the  *)
(* playout files of a three-day window for every channel, republishes the  *)
(* guides and the lineup, and removes old files.                           *)
(*                                                                         *)
(* Runs belong to processes: the daemon starts one at a time on one event  *)
(* loop, every `jfin2etv once` is a process of its own.  They share the    *)
(* playout folders, the guides, the lineup and one SQLite file per         *)
(* channel, whose write lock a run holds from start_run to the commit.     *)
(*                                                                         *)
(* Time is counted in ticks; a step of a run takes no time, any number of  *)
(* ticks may pass between two steps.  What is in a day is module DayPlan.  *)
(***************************************************************************)
EXTENDS Integers, FiniteSets

CONSTANTS
    Runs,            \* the runs there may be
    Channels,        \* channel numbers found under /scripts
    Commands,        \* the `once` commands that may be given
    Names,           \* names a day's file may get: see FileType
    WindowDays,      \* days a run plans: 3
    TicksPerDay,
    Behind,          \* window_hours_behind in ticks: 48 h
    Parallel,        \* channels_in_parallel
    LastTick,        \* bound: the clock stops here
    NoRun

\* once without --from: the window starts today.
NoFrom == -1

ASSUME RollingWindowAssumption ==
    /\ IsFiniteSet(Runs) /\ IsFiniteSet(Channels)
    /\ Commands \subseteq [force : BOOLEAN, from : Nat \cup {NoFrom},
                           only : SUBSET Channels]
    /\ Names \subseteq [early : BOOLEAN, tail : STRING]
    /\ WindowDays \in Nat \ {0} /\ TicksPerDay \in Nat \ {0}
    /\ Behind \in Nat /\ Parallel \in Nat \ {0} /\ LastTick \in Nat
    /\ NoRun \notin Runs

VARIABLES
    now,             \* the wall clock
    files,           \* channel: playout files, by name and modification time
    guide,           \* channel: days of its XMLTV, when and by a run of when
    configured,      \* channels with a channel.json
    epg,             \* channels merged into epg.xml
    lineup,          \* channels listed in lineup.json
    lock,            \* channel: run that holds the write lock of its store
    rows,            \* channel: outcomes of the runs its store has committed
    markers,         \* runs with a marker under /state/runs
    run,             \* run: what run_once holds
    task             \* run, channel: what _run_channel holds

published == <<guide, configured, epg, lineup>>
vars == <<now, files, published, lock, rows, markers, run, task>>

-----------------------------------------------------------------------------
Today == now \div TicksPerDay

\* A file is named after the start of its first item and the finish of its
\* last one: `early` when the day's first item starts at midnight.
FileType == [day : Nat, early : BOOLEAN, tail : STRING, mtime : Nat]

SameName(f, g) == f.day = g.day /\ f.early = g.early /\ f.tail = g.tail

Fresh(f) == f.mtime >= now - Behind

NoGuide == [days |-> {}, at |-> -1, since |-> -1]

Window(r) == {run[r].first + k : k \in 0 .. WindowDays - 1}

Day(r, c) == run[r].first + task[r][c].next

At(r, c, stage) == task[r][c].stage = stage

\* Code between two awaits: nothing else of the process runs meanwhile.
Synchronous == {"opening", "days", "expand", "guide", "commit"}
Ended       == {"ok", "error", "failed"}
Lost        == {"raised", "cancelled", "dead"}

SameProcess(r, s) == r = s \/ (run[r].by = "daemon" /\ run[s].by = "daemon")

LoopFree(r, c) ==
    \A s \in Runs : SameProcess(r, s) =>
        /\ s # r => run[s].pc \notin {"lineup", "gc", "marker"}
        /\ \A d \in Channels : <<s, d>> # <<r, c>>
                => task[s][d].stage \notin Synchronous

\* self._sem: shared by the runs of a process.
InWorker(r) ==
    {x \in Runs \X Channels :
        /\ SameProcess(r, x[1])
        /\ task[x[1]][x[2]].stage \in Synchronous \cup {"resolving"}}

Becomes(r, c, t) == task' = [task EXCEPT ![r][c] = t]

Move(r, c, stage) == Becomes(r, c, [task[r][c] EXCEPT !.stage = stage])

\* A channel's coroutine and its locals; what is left of them at its end.
Coroutine(stage) == [stage |-> stage, next |-> 0, existing |-> {}, wrote |-> {},
                     outcome |-> "none"]

NoTask == Coroutine("none")

-----------------------------------------------------------------------------
(* One channel of a run: _run_channel. *)

\* run_once, up to the tasks.  With no channel it goes straight to _finalize.
StartTasks(r, by, force, first, targets) ==
    /\ run[r].pc = "idle"
    /\ run' = [run EXCEPT ![r] =
                 [pc |-> IF targets = {} THEN "marker" ELSE "tasks",
                  by |-> by, force |-> force, first |-> first, start |-> now]]
    /\ task' = [task EXCEPT ![r] = [c \in Channels |->
                 Coroutine(IF c \in targets THEN "queued" ELSE "none")]]
    /\ UNCHANGED <<now, files, published, lock, rows, markers>>

\* daemon.py: the cron job, of which there is one instance at a time.
ScheduledRun(r) ==
    /\ \A s \in Runs : run[s].by = "daemon" =>
          /\ run[s].pc \in {"done", "aborted", "crashed"}
          /\ \A c \in Channels : task[s][c].stage \notin Synchronous
    /\ StartTasks(r, "daemon", FALSE, Today, Channels)

\* cli.py: once [--force] [--channel N] [--from D]; `only` is what
\* discover_channels leaves of the channels.
OnceCommand(r) ==
    \E command \in Commands :
        StartTasks(r, "cli", command.force,
                   IF command.from = NoFrom THEN Today ELSE command.from,
                   command.only)

\* invoke_plan and the write probe, synchronous, up to the first await.
Plan(r, c) ==
    /\ At(r, c, "queued") /\ LoopFree(r, c)
    /\ Cardinality(InWorker(r)) < Parallel
    /\ Move(r, c, "resolving") \/ Move(r, c, "failed")
    /\ UNCHANGED <<now, files, published, lock, rows, markers, run>>

\* _resolve_pools answers or raises; then the playout folder is made, or not.
Resolve(r, c) ==
    /\ At(r, c, "resolving") /\ LoopFree(r, c)
    /\ Move(r, c, "opening") \/ Move(r, c, "failed")
    /\ UNCHANGED <<now, files, published, lock, rows, markers, run>>

\* Slip: the store is opened without taking its write lock.
OpenStore_NoLock(r, c) ==
    /\ At(r, c, "opening")
    /\ Move(r, c, "days")
    /\ UNCHANGED <<now, files, published, lock, rows, markers, run>>

\* StateStore.open and start_run, whose INSERT takes the write lock.
OpenStore(r, c) ==
    /\ At(r, c, "opening") /\ lock[c] = NoRun
    /\ lock' = [lock EXCEPT ![c] = r]
    /\ Move(r, c, "days")
    /\ UNCHANGED <<now, files, published, rows, markers, run>>

\* They raise, outside the try: the store stayed locked for five seconds, or
\* cannot be opened at all (module StateStore).
StoreFails(r, c) ==
    /\ At(r, c, "opening")
    /\ Move(r, c, "raised")
    /\ UNCHANGED <<now, files, published, lock, rows, markers, run>>

\* _existing_playout: any file of the day that starts at midnight.
Existing(r, c) == {f \in files[c] : f.day = Day(r, c) /\ f.early}

\* Slip: a day that is there is always left alone.
Skips_IgnoresForce(r, c, f) == Fresh(f)

\* The immutability rule as the code has it.
Skips(r, c, f) == ~run[r].force /\ Fresh(f)

\* The day is there and fresh: it is left alone.
SkipDay(r, c) ==
    /\ At(r, c, "days") /\ task[r][c].next < WindowDays
    /\ \E f \in Existing(r, c) : Skips(r, c, f)
    /\ Becomes(r, c, [task[r][c] EXCEPT !.next = @ + 1])
    /\ UNCHANGED <<now, files, published, lock, rows, markers, run>>

\* Slip: one day too many.
TakeDay_OneTooMany(r, c) ==
    /\ At(r, c, "days") /\ task[r][c].next <= WindowDays
    /\ \E old \in IF Existing(r, c) = {} THEN {{}} ELSE {{f} : f \in Existing(r, c)} :
          /\ \A f \in old : ~Skips(r, c, f)
          /\ Becomes(r, c, [task[r][c] EXCEPT !.stage = "expand", !.existing = old])
    /\ UNCHANGED <<now, files, published, lock, rows, markers, run>>

\* It is missing, stale or to be forced: it will be planned.
TakeDay(r, c) ==
    /\ At(r, c, "days") /\ task[r][c].next < WindowDays
    /\ \E old \in IF Existing(r, c) = {} THEN {{}} ELSE {{f} : f \in Existing(r, c)} :
          /\ \A f \in old : ~Skips(r, c, f)
          /\ Becomes(r, c, [task[r][c] EXCEPT !.stage = "expand", !.existing = old])
    /\ UNCHANGED <<now, files, published, lock, rows, markers, run>>

\* expand_day and write_playout: the new file appears, or replaces the one of
\* its name, in one rename.
WriteDay(r, c) ==
    /\ At(r, c, "expand")
    /\ \E name \in Names :
          LET new == [day |-> Day(r, c), early |-> name.early,
                      tail |-> name.tail, mtime |-> now]
          IN  files' = [files EXCEPT ![c] =
                          {f \in @ : ~SameName(f, new)} \cup {new}]
    /\ Becomes(r, c, [task[r][c] EXCEPT !.stage = "days", !.next = @ + 1,
                                         !.existing = {},
                                         !.wrote = @ \cup {Day(r, c)}])
    /\ UNCHANGED <<now, published, lock, rows, markers, run>>

\* Slip: finish_run and the commit come before the guide is written.
WriteConfig_CommitsFirst(r, c) ==
    /\ At(r, c, "days") /\ task[r][c].next = WindowDays
    /\ configured' = configured \cup {c}
    /\ rows' = [rows EXCEPT ![c] = @ \cup {[by |-> r, outcome |-> "ok"]}]
    /\ Move(r, c, "guide")
    /\ UNCHANGED <<now, files, guide, epg, lineup, lock, markers, run>>

\* After the last day: prune_recent_plays and channel.json ...
WriteConfig(r, c) ==
    /\ At(r, c, "days") /\ task[r][c].next = WindowDays
    /\ configured' = configured \cup {c}
    /\ Move(r, c, "guide")
    /\ UNCHANGED <<now, files, guide, epg, lineup, lock, rows, markers, run>>

\* ... then the channel's XMLTV: the programmes of the days just planned.
WriteGuide(r, c) ==
    /\ At(r, c, "guide")
    /\ guide' = [guide EXCEPT ![c] = [days |-> task[r][c].wrote, at |-> now,
                                      since |-> run[r].start]]
    /\ Becomes(r, c, [task[r][c] EXCEPT !.stage = "commit", !.outcome = "ok"])
    /\ UNCHANGED <<now, files, configured, epg, lineup, lock, rows, markers, run>>

\* An exception in the try block: finish_run(outcome="error").
ChannelFails(r, c) ==
    /\ task[r][c].stage \in {"days", "expand", "guide"}
    /\ Becomes(r, c, [task[r][c] EXCEPT !.stage = "commit", !.outcome = "error",
                                         !.existing = {}])
    /\ UNCHANGED <<now, files, published, lock, rows, markers, run>>

\* Slip: the connection is closed on success only.
Commit_KeepsOnError(r, c) ==
    /\ At(r, c, "commit")
    /\ rows' = [rows EXCEPT ![c] = @ \cup {[by |-> r, outcome |-> task[r][c].outcome]}]
    /\ lock' = [lock EXCEPT ![c] = IF @ = r /\ task[r][c].outcome = "ok"
                                    THEN NoRun ELSE @]
    /\ Becomes(r, c, Coroutine(task[r][c].outcome))
    /\ UNCHANGED <<now, files, published, markers, run>>

\* __exit__: commit and close, whatever the outcome.
Commit(r, c) ==
    /\ At(r, c, "commit")
    /\ rows' = [rows EXCEPT ![c] = @ \cup {[by |-> r, outcome |-> task[r][c].outcome]}]
    /\ lock' = [lock EXCEPT ![c] = IF @ = r THEN NoRun ELSE @]
    /\ Becomes(r, c, Coroutine(task[r][c].outcome))
    /\ UNCHANGED <<now, files, published, markers, run>>

\* The commit of __exit__ raises, or finish_run did in the handler already:
\* the connection is closed and rolled back, and the exception leaves
\* _run_channel.
CommitFails(r, c) ==
    /\ At(r, c, "commit")
    /\ lock' = [lock EXCEPT ![c] = IF @ = r THEN NoRun ELSE @]
    /\ Becomes(r, c, Coroutine("raised"))
    /\ UNCHANGED <<now, files, published, rows, markers, run>>

-----------------------------------------------------------------------------
(* The run as a whole: the end of run_once, and _finalize. *)

Stages(r) == {task[r][c].stage : c \in Channels}

Targets(r, stages) == {c \in Channels : task[r][c].stage \in stages}

AllEnded(r) == Stages(r) \subseteq Ended \cup {"none"}

Goto(r, pc) == run' = [run EXCEPT ![r].pc = pc]

\* Where a run of its process may take a synchronous step.
Free(r) == \A c \in Channels : LoopFree(r, c)

\* Slip: the exceptions of the daemon's tasks are never retrieved.
Abort_OnlyOnce(r) ==
    /\ run[r].pc = "tasks" /\ Free(r) /\ "raised" \in Stages(r)
    /\ run[r].by = "cli"
    /\ Goto(r, "aborted")
    /\ task' = [task EXCEPT ![r] = [c \in Channels |->
                  IF task[r][c].stage \in {"queued", "resolving"}
                  THEN Coroutine("cancelled") ELSE task[r][c]]]
    /\ UNCHANGED <<now, files, published, lock, rows, markers>>

\* `await t` re-raises what a channel raised.  `once` then ends, and with it
\* the tasks that wait; the daemon's go on without their run.
Abort(r) ==
    /\ run[r].pc = "tasks" /\ Free(r) /\ "raised" \in Stages(r)
    /\ Goto(r, "aborted")
    /\ IF run[r].by = "cli"
       THEN task' = [task EXCEPT ![r] = [c \in Channels |->
                      IF task[r][c].stage \in {"queued", "resolving"}
                      THEN Coroutine("cancelled") ELSE task[r][c]]]
       ELSE UNCHANGED task
    /\ UNCHANGED <<now, files, published, lock, rows, markers>>

\* SIGTERM to the daemon, Ctrl-C to `once`: between two callbacks of the event
\* loop whatever awaits is cancelled, and nothing handles that; code that does
\* not await is finished first.
Stop(r) ==
    /\ run[r].pc \in {"tasks", "aborted"} /\ Free(r)
    /\ Stages(r) \cap Synchronous = {}
    /\ LET ended(s) == SameProcess(r, s) /\ run[s].pc \in {"tasks", "aborted"}
       IN  /\ run' = [s \in Runs |-> IF ended(s) THEN [run[s] EXCEPT !.pc = "aborted"]
                                                 ELSE run[s]]
           /\ task' = [s \in Runs |-> [c \in Channels |->
                         IF ended(s) /\ task[s][c].stage \in {"queued", "resolving"}
                         THEN Coroutine("cancelled") ELSE task[s][c]]]
    /\ UNCHANGED <<now, files, published, lock, rows, markers>>

\* Slip: a channel that raised counts as one that ended.
Merge_IgnoresRaised(r) ==
    /\ run[r].pc = "tasks" /\ Free(r)
    /\ Stages(r) \subseteq Ended \cup {"none", "raised"}
    /\ epg' = IF Targets(r, {"ok"}) = {} THEN epg ELSE Targets(r, {"ok"})
    /\ Goto(r, "lineup")
    /\ UNCHANGED <<now, files, guide, configured, lineup, lock, rows, markers, task>>

\* _merge_xmltvs: the guides of the channels that published one.
Merge(r) ==
    /\ run[r].pc = "tasks" /\ Free(r) /\ AllEnded(r)
    /\ epg' = IF Targets(r, {"ok"}) = {} THEN epg ELSE Targets(r, {"ok"})
    /\ Goto(r, "lineup")
    /\ UNCHANGED <<now, files, guide, configured, lineup, lock, rows, markers, task>>

\* Slip: channels with errors are listed too.
WriteLineup_WithErrors(r) ==
    /\ run[r].pc = "lineup" /\ Free(r)
    /\ lineup' = Targets(r, Ended)
    /\ Goto(r, "gc")
    /\ UNCHANGED <<now, files, guide, configured, epg, lock, rows, markers, task>>

\* _write_lineup: the channels of this run without errors; none, no file.
WriteLineup(r) ==
    /\ run[r].pc = "lineup" /\ Free(r)
    /\ lineup' = IF Targets(r, {"ok"}) = {} THEN lineup ELSE Targets(r, {"ok"})
    /\ Goto(r, "gc")
    /\ UNCHANGED <<now, files, guide, configured, epg, lock, rows, markers, task>>

\* Slip: the comparison is the wrong way round.
Sweep_Newer ==
    files' = [c \in Channels |-> {f \in files[c] : f.mtime <= now - Behind}]

\* _gc looks at every channel's folder and at nothing but modification times.
Sweep == files' = [c \in Channels |-> {f \in files[c] : Fresh(f)}]

Gc(r) ==
    /\ run[r].pc = "gc" /\ Free(r)
    /\ Sweep
    /\ Goto(r, "marker")
    /\ UNCHANGED <<now, published, lock, rows, markers, task>>

\* cli.py: gc.
GcCommand ==
    /\ Sweep
    /\ UNCHANGED <<now, published, lock, rows, markers, run, task>>

\* _finalize.
WriteMarker(r) ==
    /\ run[r].pc = "marker" /\ Free(r)
    /\ markers' = markers \cup {r}
    /\ Goto(r, "done")
    /\ UNCHANGED <<now, files, published, lock, rows, task>>

\* A write of these steps raises: nothing after it happens.
RunFails(r) ==
    /\ Free(r)
    /\ \/ run[r].pc = "tasks" /\ AllEnded(r)
       \/ run[r].pc \in {"lineup", "gc", "marker"}
    /\ Goto(r, "aborted")
    /\ UNCHANGED <<now, files, published, lock, rows, markers, task>>

\* The process of r dies: its transactions are rolled back, its files stay.
Crash(r) ==
    /\ run[r].pc \notin {"idle", "crashed"}
    /\ LET dead == {s \in Runs : SameProcess(r, s)}
           ended == Ended \cup Lost \cup {"none"}
       IN  /\ \E s \in dead : run[s].pc \notin {"done", "aborted"}
                              \/ ~(Stages(s) \subseteq ended)
           /\ run' = [s \in Runs |->
                        IF s \in dead /\ run[s].pc \notin {"done", "aborted"}
                        THEN [run[s] EXCEPT !.pc = "crashed"] ELSE run[s]]
           /\ task' = [s \in Runs |-> [c \in Channels |->
                        IF s \in dead /\ task[s][c].stage \notin ended
                        THEN Coroutine("dead") ELSE task[s][c]]]
           /\ lock' = [c \in Channels |->
                        IF lock[c] \in dead THEN NoRun ELSE lock[c]]
    /\ UNCHANGED <<now, files, published, rows, markers>>

Tick ==
    /\ now < LastTick
    /\ now' = now + 1
    /\ UNCHANGED <<files, published, lock, rows, markers, run, task>>

-----------------------------------------------------------------------------
Init ==
    /\ now = 0
    /\ files = [c \in Channels |-> {}]
    /\ guide = [c \in Channels |-> NoGuide]
    /\ configured = {} /\ epg = {} /\ lineup = {}
    /\ lock = [c \in Channels |-> NoRun]
    /\ rows = [c \in Channels |-> {}]
    /\ markers = {}
    /\ run = [r \in Runs |-> [pc |-> "idle", by |-> "none", force |-> FALSE,
                              first |-> 0, start |-> 0]]
    /\ task = [r \in Runs |-> [c \in Channels |-> NoTask]]

ChannelStep(r, c) ==
    \/ Plan(r, c) \/ Resolve(r, c)
    \/ OpenStore(r, c) \/ StoreFails(r, c)
    \/ SkipDay(r, c) \/ TakeDay(r, c) \/ WriteDay(r, c)
    \/ WriteConfig(r, c) \/ WriteGuide(r, c)
    \/ ChannelFails(r, c) \/ Commit(r, c) \/ CommitFails(r, c)

RunStep(r) ==
    \/ Abort(r) \/ Merge(r) \/ WriteLineup(r) \/ Gc(r) \/ WriteMarker(r)
    \/ RunFails(r)
    \/ \E c \in Channels : ChannelStep(r, c)

Environment ==
    \/ Tick \/ GcCommand
    \/ \E r \in Runs : ScheduledRun(r) \/ OnceCommand(r) \/ Stop(r) \/ Crash(r)

Next == Environment \/ \E r \in Runs : RunStep(r)

Spec == Init /\ [][Next]_vars

\* A process that has started a run goes on with it.
FairSpec == Spec /\ \A r \in Runs : WF_vars(RunStep(r))

-----------------------------------------------------------------------------
(* Properties. *)

RunType == [pc : {"idle", "tasks", "lineup", "gc", "marker", "done", "aborted",
                  "crashed"},
            by : {"none", "daemon", "cli"}, force : BOOLEAN, first : Nat,
            start : Nat]

TaskType == [stage : {"none", "queued", "resolving"} \cup Synchronous \cup Ended
                     \cup Lost,
             next : 0 .. WindowDays, existing : SUBSET FileType,
             wrote : SUBSET Nat, outcome : {"none", "ok", "error"}]

\* Type correctness of the shared files, the stores and the runs.
TypeOK ==
    /\ now \in 0 .. LastTick
    /\ files \in [Channels -> SUBSET FileType]
    /\ guide \in [Channels -> [days : SUBSET Nat, at : Nat \cup {-1},
                               since : Nat \cup {-1}]]
    /\ configured \subseteq Channels
    /\ epg \subseteq Channels /\ lineup \subseteq Channels
    /\ lock \in [Channels -> Runs \cup {NoRun}]
    /\ rows \in [Channels -> SUBSET [by : Runs, outcome : {"ok", "error"}]]
    /\ markers \subseteq Runs
    /\ run \in [Runs -> RunType]
    /\ task \in [Runs -> [Channels -> TaskType]]

\* A day whose file starts at midnight and is not 48 hours old is not planned
\* again: nothing removes, replaces or joins that file, however the daemon,
\* the command line and the clock interleave, but --force or a run that took
\* another file of the same day for it.  The check and the write are far
\* apart: only the write lock of the store keeps a second process out.
FreshDayUntouched ==
    [][\A c \in Channels :
          LET added == files'[c] \ files[c]
          IN  \A f \in files[c] :
                f.early /\ Fresh(f) /\ (f \notin files'[c] \/ f.day \in {g.day : g \in added}) =>
                  \E r \in Runs : /\ At(r, c, "expand") /\ Day(r, c) = f.day
                                 /\ \/ run[r].force
                                    \/ \E g \in task[r][c].existing : ~SameName(f, g)]_vars

\* A channel that --force reports done has a file, written since that run
\* started, for every day of the window (until it is 48 hours old).
ForcedRunRewrites ==
    \A r \in Runs, c \in Channels :
        At(r, c, "ok") /\ run[r].force /\ now - Behind <= run[r].start =>
            \A d \in Window(r) :
                \E f \in files[c] : f.day = d /\ f.mtime >= run[r].start

\* Every channel of lineup.json has a channel.json and every channel of
\* epg.xml a guide, whatever failed or crashed on the way.
ListedIsPublished ==
    /\ lineup \subseteq configured
    /\ \A c \in epg : guide[c] # NoGuide

\* The guide lists no day without a playout file, until collection may have
\* taken what the run that wrote the guide had written.
GuideHasFile ==
    \A c \in Channels : \A d \in guide[c].days :
        \/ \E f \in files[c] : f.day = d
        \/ now - Behind > guide[c].since

\* The store never says "ok" of a run whose guide is not out: a crash
\* between the files and the commit loses the row, not the files.
StoreNeverAhead ==
    \A c \in Channels : \A row \in rows[c] :
        row.outcome = "ok" => guide[c].at >= run[row.by].start

\* A run that left a marker has seen every channel to an end, and the store
\* of every channel it opened has the outcome.
MarkerIsComplete ==
    \A r \in markers : \A c \in Channels :
        /\ task[r][c].stage \in Ended \cup {"none"}
        /\ task[r][c].stage \in {"ok", "error"} =>
              [by |-> r, outcome |-> task[r][c].stage] \in rows[c]

\* Whatever fails, a run that was started ends: it leaves a marker, or an
\* exception or a crash takes it down.
EveryRunEnds ==
    \A r \in Runs :
        run[r].pc # "idle" ~> run[r].pc \in {"done", "aborted", "crashed"}

\* No failure leaves a store locked: the next run of the channel gets in.
LocksAreFreed == \A c \in Channels : lock[c] # NoRun ~> lock[c] = NoRun

\* DESIGN 7.1 step 11: collection removes what finished more than 48 hours
\* ago, so never a day that is on the air or still to come.
CollectsNothingOnAir ==
    [][\A c \in Channels : \A f \in files[c] :
          (\A g \in files'[c] : ~SameName(f, g)) =>
              (f.day + 1) * TicksPerDay <= now]_vars

\* DESIGN 10.6: "runs are idempotent": a run without --force does not take
\* from the guide a day that is still to come and still has its file.
RerunIsHarmless ==
    [][\A c \in Channels : \A d \in guide[c].days \ guide'[c].days :
          \/ d < Today
          \/ \A f \in files[c] : f.day # d
          \/ \E r \in Runs : At(r, c, "guide") /\ run[r].force]_vars

=============================================================================

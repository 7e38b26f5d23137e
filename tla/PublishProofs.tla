---------------------------- MODULE PublishProofs ---------------------------
(***************************************************************************)
(* Any number of processes and channels: what a file written in place may  *)
(* be counted on for, at the grain of single calls to the file system.     *)
(***************************************************************************)
EXTENDS Publish, TLAPS

-----------------------------------------------------------------------------
(* The invariant. *)

\* The stages between start_run and the end of the transaction.
InStore == {"look", "stat", "day", "config", "guide", "commit", "failed"}

\* Whoever is in a channel's store has its write lock.
Locked == \A p \in Procs : In(p, InStore) => lock[proc[p].ch] = p

\* A channel in hand has not ended.
Pending ==
    \A p \in Procs :
        /\ proc[p].pc = "probe" => proc[p].stage[proc[p].ch] = "queued"
        /\ proc[p].pc \in InStore => proc[p].stage[proc[p].ch] = "resolving"

\* A torn file has a writer, and only files no lock is about are shared.
Authors ==
    \A d \in Docs : /\ ~doc[d].whole => doc[d].by \in Procs
                    /\ doc[d].shared => d \in {<<"epg">>, <<"lineup">>}

\* Who writes the guide has not left channel.json torn.
ConfigIsOut ==
    \A p \in Procs : proc[p].pc = "guide" =>
        LET config == doc[<<"config", proc[p].ch>>]
        IN  config.whole \/ config.by # p

\* Past its day a channel has one, or a collection has swept it.
Swept(c) == \E q \in Procs : c \in proc[q].swept

DayIsOut ==
    \A p \in Procs : proc[p].pc \in {"config", "guide", "commit"} =>
        day[proc[p].ch] = "fresh" \/ Swept(proc[p].ch)

\* Only what has ended is logged, and nothing has that has not started.
Logged ==
    /\ \A c \in Channels : \A i \in DOMAIN rows[c] :
          proc[rows[c][i]].stage[c] \in {"ok", "error"}
    /\ \A p \in Procs : proc[p].pc = "idle" => \A c \in Channels : proc[p].stage[c] = "none"

\* As far as p is concerned, a guide of c by q is not out of date.
NotBehind(c, p, q) == q = p \/ (q \in Procs /\ Later(c, p, q))

GuideNotBehind ==
    \A p \in Procs :
        /\ \A c \in Staged(p, {"ok"}) : NotBehind(c, p, doc[<<"guide", c>>].by)
        /\ At(p, "commit") => doc[<<"guide", proc[p].ch>>].by = p

\* What a merge has still to read is what the run has planned, and what it
\* has read is no older than that.
MergeReads ==
    \A p \in Procs :
        /\ proc[p].pc \in {"merge", "epg"} =>
              \A c \in Staged(p, {"ok"}) \ proc[p].left : NotBehind(c, p, proc[p].got[c])
        /\ proc[p].pc = "merge" => proc[p].left \subseteq Staged(p, {"ok"})
        /\ proc[p].pc = "epg" => proc[p].left = {}

\* Who has written epg.xml is past its channels.
EpgWriter ==
    doc[<<"epg">>].by \in Procs =>
        proc[doc[<<"epg">>].by].pc \in {"epg", "lineup", "gc", "unlink", "marker"} \cup Over

-----------------------------------------------------------------------------
(* Types. *)

Pcs == {"idle", "loop", "merge", "gc"} \cup AtChannel \cup Writing \cup Over

\* Process p becomes a record t of its type; the others stay.
LEMMA Frame ==
    ASSUME TypeOK, NEW p \in Procs, NEW t \in ProcType, Becomes(p, t)
    PROVE  /\ proc' \in [Procs -> ProcType]
           /\ proc'[p] = t
           /\ \A q \in Procs \ {p} : proc'[q] = proc[q]
  BY DEF TypeOK, Becomes

LEMMA Going ==
    ASSUME TypeOK, NEW p \in Procs, NEW pc \in Pcs, Goto(p, pc)
    PROVE  /\ proc' \in [Procs -> ProcType]
           /\ \A q \in Procs \ {p} : proc'[q] = proc[q]
           /\ proc'[p] = [proc[p] EXCEPT !.pc = pc]
           /\ proc'[p].pc = pc /\ proc'[p].ch = proc[p].ch
           /\ proc'[p].stage = proc[p].stage /\ proc'[p].open = proc[p].open
           /\ proc'[p].got = proc[p].got /\ proc'[p].left = proc[p].left
           /\ proc'[p].swept = proc[p].swept /\ proc'[p].up = proc[p].up
  <1>1. [proc[p] EXCEPT !.pc = pc] \in ProcType
    BY ZenonT(60) DEF TypeOK, ProcType, Pcs
  <1>2. proc'[p] = [proc[p] EXCEPT !.pc = pc] /\ proc[p] \in ProcType
    BY <1>1, Frame DEF Goto, TypeOK
  <1>. QED  BY <1>1, <1>2, Frame DEF Goto, ProcType

LEMMA Taking ==
    ASSUME TypeOK, NEW p \in Procs, NEW c \in Channels, NEW pc \in Pcs, Take(p, c, pc)
    PROVE  /\ proc' \in [Procs -> ProcType]
           /\ \A q \in Procs \ {p} : proc'[q] = proc[q]
           /\ proc'[p].pc = pc /\ proc'[p].ch = c
           /\ proc'[p].stage = proc[p].stage /\ proc'[p].open = proc[p].open
           /\ proc'[p].got = proc[p].got /\ proc'[p].left = proc[p].left
           /\ proc'[p].swept = proc[p].swept /\ proc'[p].up = proc[p].up
  <1>1. [proc[p] EXCEPT !.pc = pc, !.ch = c] \in ProcType
    BY ZenonT(60) DEF TypeOK, ProcType, Pcs
  <1>2. proc'[p] = [proc[p] EXCEPT !.pc = pc, !.ch = c] /\ proc[p] \in ProcType
    BY <1>1, Frame DEF Take, TypeOK
  <1>. QED  BY <1>1, <1>2, Frame DEF Take, ProcType

LEMMA Leaving ==
    ASSUME TypeOK, NEW p \in Procs, NEW c \in Channels, NEW s \in Stages, Leave(p, c, s)
    PROVE  /\ proc' \in [Procs -> ProcType]
           /\ \A q \in Procs \ {p} : proc'[q] = proc[q]
           /\ proc'[p].pc = "loop" /\ proc'[p].ch = Nobody
           /\ proc'[p].stage = [proc[p].stage EXCEPT ![c] = s]
           /\ proc'[p].open = proc[p].open
           /\ proc'[p].got = proc[p].got /\ proc'[p].left = proc[p].left
           /\ proc'[p].swept = proc[p].swept /\ proc'[p].up = proc[p].up
  <1> DEFINE stage == [proc[p].stage EXCEPT ![c] = s]
  <1> DEFINE t == [proc[p] EXCEPT !.pc = "loop", !.ch = Nobody, !.stage = stage]
  <1>1. proc[p] \in ProcType /\ stage \in [Channels -> Stages]
    BY DEF TypeOK, ProcType
  <1>2. t \in ProcType
    BY <1>1 DEF ProcType
  <1>3. Becomes(p, t)
    BY DEF Leave
  <1>4. proc'[p] = t
    BY <1>2, <1>3, Frame
  <1>5. /\ t.pc = "loop" /\ t.ch = Nobody /\ t.stage = stage /\ t.open = proc[p].open
        /\ t.got = proc[p].got /\ t.left = proc[p].left /\ t.swept = proc[p].swept
        /\ t.up = proc[p].up
    BY <1>1 DEF ProcType
  <1>. QED  BY <1>2, <1>3, <1>4, <1>5, Frame

\* What a step of p leaves alone in the processes.
Alone(p) ==
    /\ proc' \in [Procs -> ProcType]
    /\ \A q \in Procs \ {p} : proc'[q] = proc[q]

Keeps(p) ==
    /\ proc'[p].got = proc[p].got /\ proc'[p].left = proc[p].left
    /\ proc'[p].swept = proc[p].swept /\ proc'[p].up = proc[p].up

LEMMA Starting ==
    ASSUME TypeOK, NEW p \in Procs, Start(p)
    PROVE  /\ Alone(p) /\ Keeps(p)
           /\ proc[p].pc = "idle" /\ proc'[p].pc = "loop" /\ proc'[p].ch = proc[p].ch
           /\ proc'[p].open = proc[p].open
           /\ \A c \in Channels : proc'[p].stage[c] \in {"queued", "none"}
  <1> DEFINE stage == [c \in Channels |-> IF c \in Covers[p] THEN "queued" ELSE "none"]
  <1> DEFINE t == [proc[p] EXCEPT !.pc = "loop", !.stage = stage]
  <1>1. proc[p] \in ProcType /\ stage \in [Channels -> Stages]
    BY DEF TypeOK, Stages
  <1>2. t \in ProcType
    BY <1>1 DEF ProcType
  <1>3. Becomes(p, t) /\ proc[p].pc = "idle"
    BY DEF Start, At
  <1>4. proc'[p] = t
    BY <1>2, <1>3, Frame
  <1>5. /\ t.pc = "loop" /\ t.ch = proc[p].ch /\ t.stage = stage /\ t.open = proc[p].open
        /\ t.got = proc[p].got /\ t.left = proc[p].left /\ t.swept = proc[p].swept
        /\ t.up = proc[p].up
    BY <1>1 DEF ProcType
  <1>. QED  BY <1>2, <1>3, <1>4, <1>5, Frame DEF Alone, Keeps

\* A file is opened, and emptied.
LEMMA Opening ==
    ASSUME TypeOK, NEW p \in Procs, OpenFile(p)
    PROVE  /\ Alone(p) /\ Keeps(p)
           /\ proc[p].pc \in Writing /\ ~proc[p].open
           /\ proc'[p].pc = proc[p].pc /\ proc'[p].ch = proc[p].ch
           /\ proc'[p].stage = proc[p].stage /\ proc'[p].open
  <1>1. proc[p] \in ProcType /\ [proc[p] EXCEPT !.open = TRUE] \in ProcType
    BY DEF TypeOK, ProcType
  <1>2. proc'[p] = [proc[p] EXCEPT !.open = TRUE]
    BY <1>1, Frame DEF OpenFile
  <1>3. proc[p].pc \in Writing /\ ~proc[p].open
    BY DEF OpenFile, In
  <1>. QED  BY <1>1, <1>2, <1>3, Frame DEF OpenFile, ProcType, Alone, Keeps

LEMMA Filling ==
    ASSUME TypeOK, NEW p \in Procs, FillFile(p)
    PROVE  /\ Alone(p)
           /\ proc[p].pc \in Writing /\ proc[p].open
           /\ proc'[p].pc = After[proc[p].pc] /\ proc'[p].ch = proc[p].ch
           /\ proc'[p].stage = proc[p].stage /\ ~proc'[p].open
           /\ proc'[p].swept = proc[p].swept /\ proc'[p].up = proc[p].up
           /\ proc'[p].left = IF proc[p].pc = "lineup" THEN Channels ELSE {}
  <1>1. /\ proc[p] \in ProcType /\ proc[p].pc \in Writing /\ proc[p].open
        /\ proc[p].up
    BY DEF TypeOK, FillFile, In
  <1>2. PICK pc, got, left :
           /\ pc = After[proc[p].pc]
           /\ got = [c \in Channels |-> Nobody]
           /\ left = (IF proc[p].pc = "lineup" THEN Channels ELSE {})
    OBVIOUS
  <1>3. /\ pc \in Pcs /\ got \in [Channels -> Procs \cup {Nobody}]
        /\ left \in SUBSET Channels
    BY <1>1, <1>2 DEF After, Writing, Pcs, AtChannel, Over
  <1> DEFINE t == [proc[p] EXCEPT !.pc = pc, !.open = FALSE, !.got = got, !.left = left]
  <1>4. t \in ProcType
    BY <1>1, <1>3 DEF ProcType, Pcs
  <1>5. Becomes(p, t)
    BY <1>1, <1>2 DEF FillFile, At
  <1>6. proc'[p] = t
    BY <1>4, <1>5, Frame
  <1>7. /\ t.pc = pc /\ t.ch = proc[p].ch /\ t.stage = proc[p].stage /\ ~t.open
        /\ t.left = left /\ t.swept = proc[p].swept /\ t.up = proc[p].up
    BY <1>1 DEF ProcType
  <1>. QED  BY <1>1, <1>2, <1>4, <1>5, <1>6, <1>7, Frame DEF Alone

LEMMA Failing ==
    ASSUME TypeOK, NEW p \in Procs, WriteFails(p)
    PROVE  /\ Alone(p) /\ Keeps(p)
           /\ proc[p].pc \in Writing /\ ~proc'[p].open
           /\ proc'[p].pc = IF proc[p].pc \in {"config", "guide"} THEN "failed" ELSE "aborted"
           /\ proc'[p].ch = proc[p].ch /\ proc'[p].stage = proc[p].stage
           /\ proc[p].up
  <1> DEFINE pc == IF proc[p].pc \in {"config", "guide"} THEN "failed" ELSE "aborted"
  <1> DEFINE t == [proc[p] EXCEPT !.open = FALSE, !.pc = pc]
  <1>1. proc[p] \in ProcType /\ proc[p].pc \in Writing /\ proc[p].up
    BY DEF TypeOK, WriteFails, In
  <1>2. t \in ProcType
    BY <1>1 DEF ProcType, AtChannel, Over
  <1>3. Becomes(p, t)
    BY DEF WriteFails
  <1>4. proc'[p] = t
    BY <1>2, <1>3, Frame
  <1>5. /\ t.pc = pc /\ t.ch = proc[p].ch /\ t.stage = proc[p].stage /\ ~t.open
        /\ t.got = proc[p].got /\ t.left = proc[p].left /\ t.swept = proc[p].swept
        /\ t.up = proc[p].up
    BY <1>1 DEF ProcType
  <1>. QED  BY <1>1, <1>2, <1>3, <1>4, <1>5, Frame DEF Alone, Keeps

LEMMA Ending ==
    ASSUME TypeOK, NEW p \in Procs, EndOfChannels(p)
    PROVE  /\ Alone(p)
           /\ proc[p].pc = "loop" /\ proc'[p].pc \in {"gc", "merge"}
           /\ proc'[p].ch = proc[p].ch /\ proc'[p].stage = proc[p].stage
           /\ proc'[p].open = proc[p].open /\ proc'[p].got = proc[p].got
           /\ proc'[p].swept = proc[p].swept /\ proc'[p].up = proc[p].up
           /\ proc'[p].pc = "merge" => proc'[p].left = Staged(p, {"ok"})
  <1> DEFINE ok == Staged(p, {"ok"})
  <1>1. PICK pc, left : /\ pc = (IF ok = {} THEN "gc" ELSE "merge")
                        /\ left = (IF ok = {} THEN Channels ELSE ok)
    OBVIOUS
  <1>2. proc[p] \in ProcType /\ pc \in Pcs /\ left \in SUBSET Channels /\ proc[p].pc = "loop"
    BY <1>1 DEF TypeOK, Pcs, Staged, EndOfChannels, At
  <1> DEFINE t == [proc[p] EXCEPT !.pc = pc, !.left = left]
  <1>3. t \in ProcType
    BY <1>2 DEF ProcType, Pcs
  <1>4. Becomes(p, t)
    BY <1>1 DEF EndOfChannels
  <1>5. proc'[p] = t
    BY <1>3, <1>4, Frame
  <1>6. /\ t.pc = pc /\ t.ch = proc[p].ch /\ t.stage = proc[p].stage /\ t.open = proc[p].open
        /\ t.got = proc[p].got /\ t.left = left /\ t.swept = proc[p].swept
        /\ t.up = proc[p].up
    BY <1>2 DEF ProcType
  <1>. QED  BY <1>1, <1>2, <1>3, <1>4, <1>5, <1>6, Frame DEF Alone

\* A guide is read, or does not parse.
LEMMA Reading ==
    ASSUME TypeOK, NEW p \in Procs, ReadGuide(p)
    PROVE  /\ Alone(p)
           /\ proc[p].pc = "merge" /\ proc'[p].ch = proc[p].ch
           /\ proc'[p].stage = proc[p].stage /\ proc'[p].open = proc[p].open
           /\ proc'[p].swept = proc[p].swept /\ proc'[p].up = proc[p].up
           /\ \E c \in proc[p].left :
                 \/ /\ doc[<<"guide", c>>].whole
                    /\ proc'[p].left = proc[p].left \ {c}
                    /\ proc'[p].got = [proc[p].got EXCEPT ![c] = doc[<<"guide", c>>].by]
                    /\ proc'[p].pc = IF proc'[p].left = {} THEN "epg" ELSE "merge"
                 \/ /\ ~doc[<<"guide", c>>].whole
                    /\ proc'[p].left = proc[p].left /\ proc'[p].got = proc[p].got
                    /\ proc'[p].pc = "aborted"
  <1>1. proc[p] \in ProcType /\ proc[p].pc = "merge" /\ proc[p].left \subseteq Channels
    BY DEF TypeOK, ReadGuide, At, ProcType
  <1>2. PICK c \in proc[p].left :
           IF doc[<<"guide", c>>].whole
           THEN Becomes(p, [proc[p] EXCEPT
                   !.got = [@ EXCEPT ![c] = doc[<<"guide", c>>].by],
                   !.left = proc[p].left \ {c},
                   !.pc = IF proc[p].left \ {c} = {} THEN "epg" ELSE @])
           ELSE Goto(p, "aborted")
    BY DEF ReadGuide
  <1>3. CASE doc[<<"guide", c>>].whole
    <2>1. PICK got, left, pc :
             /\ got = [proc[p].got EXCEPT ![c] = doc[<<"guide", c>>].by]
             /\ left = proc[p].left \ {c}
             /\ pc = (IF left = {} THEN "epg" ELSE proc[p].pc)
      OBVIOUS
    <2>2. <<"guide", c>> \in Docs
      BY <1>1 DEF Docs
    <2>3. /\ got \in [Channels -> Procs \cup {Nobody}] /\ left \in SUBSET Channels
          /\ pc \in Pcs
      BY <1>1, <2>1, <2>2 DEF TypeOK, ProcType, Pcs, Writing
    <2> DEFINE t == [proc[p] EXCEPT !.got = got, !.left = left, !.pc = pc]
    <2>4. t \in ProcType
      BY <1>1, <2>3 DEF ProcType, Pcs
    <2>5. Becomes(p, t)
      BY <1>2, <1>3, <2>1
    <2>6. proc'[p] = t
      BY <2>4, <2>5, Frame
    <2>7. /\ t.pc = pc /\ t.ch = proc[p].ch /\ t.stage = proc[p].stage
          /\ t.open = proc[p].open /\ t.got = got /\ t.left = left
          /\ t.swept = proc[p].swept /\ t.up = proc[p].up
      BY <1>1 DEF ProcType
    <2>. QED  BY <1>1, <1>3, <2>1, <2>4, <2>5, <2>6, <2>7, Frame DEF Alone
  <1>4. CASE ~doc[<<"guide", c>>].whole
    BY <1>1, <1>2, <1>4, Going DEF Alone, Pcs, Over
  <1>. QED  BY <1>3, <1>4

LEMMA Looking ==
    ASSUME TypeOK, NEW p \in Procs, GcStat(p)
    PROVE  /\ Alone(p)
           /\ proc[p].pc = "gc" /\ proc'[p].pc \in {"gc", "unlink"}
           /\ proc'[p].stage = proc[p].stage /\ proc'[p].open = proc[p].open
           /\ proc'[p].got = proc[p].got
           /\ proc'[p].swept = proc[p].swept /\ proc'[p].up = proc[p].up
           /\ proc'[p].pc = "unlink" => proc'[p].ch \in Channels
  <1>1. proc[p] \in ProcType /\ proc[p].pc = "gc" /\ proc[p].left \subseteq Channels
    BY DEF TypeOK, GcStat, At, ProcType
  <1>2. PICK c \in proc[p].left :
           Becomes(p, [proc[p] EXCEPT !.left = @ \ {c},
                                      !.pc = IF day[c] = "old" THEN "unlink" ELSE @,
                                      !.ch = IF day[c] = "old" THEN c ELSE @])
    BY DEF GcStat
  <1>3. PICK left, pc, ch : /\ left = proc[p].left \ {c}
                            /\ pc = (IF day[c] = "old" THEN "unlink" ELSE proc[p].pc)
                            /\ ch = (IF day[c] = "old" THEN c ELSE proc[p].ch)
    OBVIOUS
  <1> DEFINE t == [proc[p] EXCEPT !.left = left, !.pc = pc, !.ch = ch]
  <1>4. /\ left \in SUBSET Channels /\ pc \in Pcs /\ ch \in Channels \cup {Nobody}
        /\ pc = "unlink" => ch \in Channels
    BY <1>1, <1>3 DEF ProcType, Pcs, AtChannel
  <1>5. t \in ProcType
    BY <1>1, <1>4 DEF ProcType, Pcs
  <1>6. Becomes(p, t)
    BY <1>2, <1>3
  <1>7. proc'[p] = t
    BY <1>5, <1>6, Frame
  <1>8. /\ t.pc = pc /\ t.ch = ch /\ t.stage = proc[p].stage
        /\ t.open = proc[p].open /\ t.got = proc[p].got /\ t.left = left
        /\ t.swept = proc[p].swept /\ t.up = proc[p].up
    BY <1>1 DEF ProcType
  <1>. QED  BY <1>1, <1>3, <1>4, <1>5, <1>6, <1>7, <1>8, Frame DEF Alone

LEMMA Sweeping ==
    ASSUME TypeOK, NEW p \in Procs, GcUnlink(p)
    PROVE  /\ Alone(p)
           /\ proc[p].pc = "unlink" /\ proc'[p].pc = "gc" /\ proc'[p].ch = Nobody
           /\ proc'[p].stage = proc[p].stage /\ proc'[p].open = proc[p].open
           /\ proc'[p].got = proc[p].got /\ proc'[p].up = proc[p].up
           /\ proc'[p].swept = proc[p].swept
                                  \cup {d \in {proc[p].ch} : day[d] = "fresh"}
           /\ day' = [day EXCEPT ![proc[p].ch] = "absent"]
  <1>1. proc[p] \in ProcType /\ proc[p].pc = "unlink" /\ proc[p].ch \in Channels
    BY DEF TypeOK, GcUnlink, At, AtChannel
  <1>2. PICK swept : swept = proc[p].swept \cup {d \in {proc[p].ch} : day[d] = "fresh"}
    OBVIOUS
  <1>3. swept \in SUBSET Channels
    BY <1>1, <1>2 DEF ProcType
  <1> DEFINE t == [proc[p] EXCEPT !.pc = "gc", !.ch = Nobody, !.swept = swept]
  <1>4. t \in ProcType
    BY <1>1, <1>3 DEF ProcType
  <1>5. Becomes(p, t)
    BY <1>2 DEF GcUnlink
  <1>6. proc'[p] = t
    BY <1>4, <1>5, Frame
  <1>7. /\ t.pc = "gc" /\ t.ch = Nobody /\ t.stage = proc[p].stage
        /\ t.open = proc[p].open /\ t.got = proc[p].got
        /\ t.swept = swept /\ t.up = proc[p].up
    BY <1>1 DEF ProcType
  <1>. QED  BY <1>1, <1>2, <1>4, <1>5, <1>6, <1>7, Frame DEF Alone, GcUnlink

LEMMA Dying ==
    ASSUME TypeOK, NEW p \in Procs, Crash(p)
    PROVE  /\ Alone(p)
           /\ proc[p].up /\ ~proc'[p].up
           /\ proc'[p].pc = proc[p].pc /\ proc'[p].ch = proc[p].ch
           /\ proc'[p].stage = proc[p].stage /\ proc'[p].open = proc[p].open
           /\ proc'[p].got = proc[p].got /\ proc'[p].left = proc[p].left
           /\ proc'[p].swept = proc[p].swept
           /\ proc[p].pc \notin Over
  <1>1. proc[p] \in ProcType /\ [proc[p] EXCEPT !.up = FALSE] \in ProcType
    BY DEF TypeOK, ProcType
  <1>2. proc'[p] = [proc[p] EXCEPT !.up = FALSE]
    BY <1>1, Frame DEF Crash
  <1>. QED  BY <1>1, <1>2, Frame DEF Crash, ProcType, Alone

\* Type correctness is what a step does to its process and to what it writes.
LEMMA Typed ==
    ASSUME TypeOK, NEW p \in Procs, Alone(p),
           proc'[p].open => proc'[p].pc \in Writing,
           proc'[p].pc \in AtChannel => proc'[p].ch \in Channels
    PROVE  /\ proc' \in [Procs -> ProcType]
           /\ \A q \in Procs : /\ proc'[q].open => proc'[q].pc \in Writing
                               /\ proc'[q].pc \in AtChannel => proc'[q].ch \in Channels
  BY DEF TypeOK, Alone

\* The file a process writes is one there is.
LEMMA TargetIsDoc ==
    ASSUME TypeOK, NEW p \in Procs, proc[p].pc \in Writing
    PROVE  Target(p) \in Docs
  <1>1. proc[p].pc \in {"config", "guide"} => proc[p].ch \in Channels
    BY DEF TypeOK, AtChannel
  <1>. QED  BY <1>1 DEF Target, Docs, Writing

LEMMA ChannelTypes ==
    ASSUME TypeOK, NEW p \in Procs, ChannelStep(p)
    PROVE  TypeOK'
  <1> USE DEF files, stores
  <1>1. ASSUME NEW c \in Channels, Touch(p, c) PROVE TypeOK'
    <2>1. /\ Alone(p) /\ ~proc'[p].open
          /\ proc'[p].pc \in AtChannel => proc'[p].ch \in Channels
      <3>1. ~proc[p].open
        BY <1>1 DEF Touch, At, TypeOK, Writing
      <3>2. CASE Leave(p, c, "error")
        BY <3>1, <3>2, Leaving DEF Alone, Stages, AtChannel
      <3>3. CASE Leave(p, c, "refused")
        BY <3>1, <3>3, Leaving DEF Alone, Stages, AtChannel
      <3>4. CASE Take(p, c, "probe")
        BY <3>1, <3>4, Taking DEF Alone, Pcs, AtChannel
      <3>. QED  BY <1>1, <3>2, <3>3, <3>4 DEF Touch
    <2>2. probe' \in BOOLEAN
      BY <1>1 DEF Touch, TypeOK
    <2>. QED  BY <1>1, <2>1, <2>2, Typed DEF Touch, TypeOK
  <1>2. ASSUME NEW c \in Channels, ResolveFails(p, c) PROVE TypeOK'
    <2>1. Alone(p) /\ ~proc'[p].open /\ proc'[p].pc \notin AtChannel
      BY <1>2, Leaving DEF ResolveFails, Alone, Stages, AtChannel, At, TypeOK, Writing
    <2>. QED  BY <1>2, <2>1, Typed DEF ResolveFails, TypeOK
  <1>3. ASSUME NEW c \in Channels, OpenStore(p, c) PROVE TypeOK'
    <2>1. ~proc[p].open
      BY <1>3 DEF OpenStore, At, TypeOK, Writing
    <2>2. CASE Take(p, c, "look") /\ lock' = [lock EXCEPT ![c] = p]
      <3>1. Alone(p) /\ ~proc'[p].open /\ proc'[p].ch \in Channels
        BY <2>1, <2>2, Taking DEF Alone, Pcs, AtChannel
      <3>. QED  BY <1>3, <2>2, <3>1, Typed DEF OpenStore, TypeOK
    <2>3. CASE Leave(p, c, "raised") /\ UNCHANGED lock
      <3>1. Alone(p) /\ ~proc'[p].open /\ proc'[p].pc \notin AtChannel
        BY <2>1, <2>3, Leaving DEF Alone, Stages, AtChannel
      <3>. QED  BY <1>3, <2>3, <3>1, Typed DEF OpenStore, TypeOK
    <2>. QED  BY <1>3, <2>2, <2>3 DEF OpenStore
  <1>4. CASE Unlink(p)
    <2>1. ~proc[p].open /\ proc[p].ch \in Channels
      BY <1>4 DEF Unlink, At, TypeOK, Writing, AtChannel
    <2>2. PICK s \in Stages : Leave(p, proc[p].ch, s)
      BY <1>4 DEF Unlink, Stages
    <2>3. Alone(p) /\ ~proc'[p].open /\ proc'[p].pc \notin AtChannel
      BY <2>1, <2>2, Leaving DEF Alone, AtChannel
    <2>. QED  BY <1>4, <2>3, Typed DEF Unlink, TypeOK
  <1>5. CASE Look(p) \/ Stat(p)
    <2>1. ~proc[p].open /\ proc[p].ch \in Channels
      BY <1>5 DEF Look, Stat, At, TypeOK, Writing, AtChannel
    <2>2. PICK pc \in {"day", "stat", "config", "failed"} : Goto(p, pc)
      BY <1>5, <2>1 DEF Look, Stat, TypeOK
    <2>3. Alone(p) /\ ~proc'[p].open /\ proc'[p].ch \in Channels
      BY <2>1, <2>2, Going DEF Alone, Pcs, AtChannel, Writing
    <2>. QED  BY <1>5, <2>3, Typed DEF Look, Stat, TypeOK
  <1>6. CASE WriteDay(p)
    <2>1. ~proc[p].open /\ proc[p].ch \in Channels
      BY <1>6 DEF WriteDay, At, TypeOK, Writing, AtChannel
    <2>2. PICK pc \in {"config", "failed"} : Goto(p, pc)
      BY <1>6 DEF WriteDay
    <2>3. Alone(p) /\ ~proc'[p].open /\ proc'[p].ch \in Channels
      BY <2>1, <2>2, Going DEF Alone, Pcs, AtChannel, Writing
    <2>4. day' \in [Channels -> {"absent", "old", "fresh"}]
      BY <1>6 DEF WriteDay, TypeOK
    <2>. QED  BY <1>6, <2>3, <2>4, Typed DEF WriteDay, TypeOK
  <1>7. CASE Commit(p)
    <2>1. ~proc[p].open /\ proc[p].ch \in Channels
      BY <1>7 DEF Commit, In, TypeOK, Writing, AtChannel
    <2>2. PICK s \in Stages : Leave(p, proc[p].ch, s)
      BY <1>7 DEF Commit, Stages
    <2>3. Alone(p) /\ ~proc'[p].open /\ proc'[p].pc \notin AtChannel
      BY <2>1, <2>2, Leaving DEF Alone, AtChannel
    <2>4. lock' \in [Channels -> Procs \cup {Nobody}]
      BY <1>7, <2>1 DEF Commit, TypeOK
    <2>5. rows' \in [Channels -> Seq(Procs)]
      <3>1. Append(rows[proc[p].ch], p) \in Seq(Procs)
        BY <2>1 DEF TypeOK
      <3>. QED  BY <1>7, <2>1, <3>1 DEF Commit, TypeOK
    <2>. QED  BY <1>7, <2>3, <2>4, <2>5, Typed DEF Commit, TypeOK
  <1>8. CASE CommitFails(p)
    <2>1. ~proc[p].open /\ proc[p].ch \in Channels
      BY <1>8 DEF CommitFails, In, TypeOK, Writing, AtChannel
    <2>2. Leave(p, proc[p].ch, "raised") /\ "raised" \in Stages
      BY <1>8 DEF CommitFails, Stages
    <2>3. Alone(p) /\ ~proc'[p].open /\ proc'[p].pc \notin AtChannel
      BY <2>1, <2>2, Leaving DEF Alone, AtChannel
    <2>4. lock' \in [Channels -> Procs \cup {Nobody}]
      BY <1>8, <2>1 DEF CommitFails, TypeOK
    <2>. QED  BY <1>8, <2>3, <2>4, Typed DEF CommitFails, TypeOK
  <1>. QED
    BY <1>1, <1>2, <1>3, <1>4, <1>5, <1>6, <1>7, <1>8 DEF ChannelStep

LEMMA RunTypes ==
    ASSUME TypeOK, NEW p \in Procs, RunStep(p) \/ FileStep(p) \/ Crash(p)
    PROVE  TypeOK'
  <1> USE DEF files, stores
  <1>1. CASE Start(p)
    <2>1. Alone(p) /\ ~proc'[p].open /\ proc'[p].pc \notin AtChannel
      BY <1>1, Starting DEF TypeOK, Writing, AtChannel
    <2>. QED  BY <1>1, <2>1, Typed DEF Start, TypeOK
  <1>2. CASE Abort(p) \/ GcEnds(p)
    <2>1. ~proc[p].open
      BY <1>2 DEF Abort, GcEnds, At, TypeOK, Writing
    <2>2. PICK pc \in {"aborted", "marker"} : Goto(p, pc)
      BY <1>2 DEF Abort, GcEnds
    <2>3. Alone(p) /\ ~proc'[p].open /\ proc'[p].pc \notin AtChannel
      BY <2>1, <2>2, Going DEF Alone, Pcs, AtChannel, Over, Writing
    <2>. QED  BY <1>2, <2>3, Typed DEF Abort, GcEnds, TypeOK
  <1>3. CASE EndOfChannels(p)
    <2>1. Alone(p) /\ ~proc'[p].open /\ proc'[p].pc \notin AtChannel
      BY <1>3, Ending DEF TypeOK, Writing, AtChannel
    <2>. QED  BY <1>3, <2>1, Typed DEF EndOfChannels, TypeOK
  <1>4. CASE ReadGuide(p)
    <2>1. Alone(p) /\ ~proc'[p].open /\ proc'[p].pc \notin AtChannel
      BY <1>4, Reading DEF TypeOK, Writing, AtChannel
    <2>. QED  BY <1>4, <2>1, Typed DEF ReadGuide, TypeOK
  <1>5. CASE GcStat(p)
    <2>1. /\ Alone(p) /\ ~proc'[p].open
          /\ proc'[p].pc \in AtChannel => proc'[p].ch \in Channels
      BY <1>5, Looking DEF TypeOK, Writing, AtChannel
    <2>. QED  BY <1>5, <2>1, Typed DEF GcStat, TypeOK
  <1>6. CASE GcUnlink(p)
    <2>1. Alone(p) /\ ~proc'[p].open /\ proc'[p].pc \notin AtChannel
      BY <1>6, Sweeping DEF TypeOK, Writing, AtChannel
    <2>2. day' \in [Channels -> {"absent", "old", "fresh"}]
      BY <1>6, Sweeping DEF TypeOK
    <2>. QED  BY <1>6, <2>1, <2>2, Typed DEF GcUnlink, TypeOK
  <1>7. CASE OpenFile(p)
    <2>1. /\ Alone(p) /\ proc'[p].pc \in Writing
          /\ proc'[p].pc \in AtChannel => proc'[p].ch \in Channels
      BY <1>7, Opening DEF TypeOK
    <2>2. PICK shared \in BOOLEAN :
             doc' = [doc EXCEPT ![Target(p)] =
                        [by |-> p, whole |-> FALSE, shared |-> shared]]
      BY <1>7 DEF OpenFile
    <2>3. doc' \in [Docs -> [by : Procs \cup {Nobody}, whole : BOOLEAN, shared : BOOLEAN]]
      BY <2>2 DEF TypeOK
    <2>. QED  BY <1>7, <2>1, <2>3, Typed DEF OpenFile, TypeOK
  <1>8. CASE FillFile(p)
    <2>1. Target(p) \in Docs
      BY <1>8, TargetIsDoc, Filling
    <2>2. /\ Alone(p) /\ ~proc'[p].open
          /\ proc'[p].pc \in AtChannel => proc'[p].ch \in Channels
      <3>1. proc[p].pc \in AtChannel \/ After[proc[p].pc] \notin AtChannel
        BY <1>8, Filling DEF Writing, After, AtChannel
      <3>. QED  BY <1>8, <3>1, Filling DEF TypeOK
    <2>3. PICK whole \in BOOLEAN :
             doc' = [doc EXCEPT ![Target(p)] = [@ EXCEPT !.by = p, !.whole = whole]]
      BY <1>8 DEF FillFile
    <2>4. [doc[Target(p)] EXCEPT !.by = p, !.whole = whole]
             \in [by : Procs \cup {Nobody}, whole : BOOLEAN, shared : BOOLEAN]
      BY <2>1 DEF TypeOK
    <2>5. doc' \in [Docs -> [by : Procs \cup {Nobody}, whole : BOOLEAN, shared : BOOLEAN]]
      BY <2>3, <2>4 DEF TypeOK
    <2>6. merged' \in [Channels -> Procs \cup {Nobody}]
      BY <1>8 DEF FillFile, TypeOK, ProcType
    <2>. QED  BY <1>8, <2>2, <2>5, <2>6, Typed DEF FillFile, TypeOK
  <1>9. CASE WriteFails(p)
    <2>1. /\ Alone(p) /\ ~proc'[p].open
          /\ proc'[p].pc \in AtChannel => proc'[p].ch \in Channels
      BY <1>9, Failing DEF TypeOK, Writing, AtChannel, Over
    <2>. QED  BY <1>9, <2>1, Typed DEF WriteFails, TypeOK
  <1>10. CASE Crash(p)
    <2>1. /\ Alone(p)
          /\ proc'[p].open => proc'[p].pc \in Writing
          /\ proc'[p].pc \in AtChannel => proc'[p].ch \in Channels
      BY <1>10, Dying DEF TypeOK
    <2>2. lock' \in [Channels -> Procs \cup {Nobody}]
      BY <1>10 DEF Crash, TypeOK
    <2>. QED  BY <1>10, <2>1, <2>2, Typed DEF Crash, TypeOK
  <1>. QED
    BY <1>1, <1>2, <1>3, <1>4, <1>5, <1>6, <1>7, <1>8, <1>9, <1>10
       DEF RunStep, FileStep

LEMMA InitTypes == Init => TypeOK
  <1> SUFFICES ASSUME Init PROVE TypeOK
    OBVIOUS
  <1>1. doc \in [Docs -> [by : Procs \cup {Nobody}, whole : BOOLEAN, shared : BOOLEAN]]
    BY DEF Init
  <1>2. rows \in [Channels -> Seq(Procs)]
    BY DEF Init
  <1>3. ASSUME NEW p \in Procs
        PROVE  proc[p] \in ProcType /\ proc[p].pc = "idle" /\ ~proc[p].open
    BY DEF Init, ProcType, Stages
  <1>4. proc \in [Procs -> ProcType]
    BY <1>3 DEF Init
  <1>. QED
    BY <1>1, <1>2, <1>3, <1>4 DEF Init, TypeOK, AtChannel

LEMMA StillTypes == TypeOK /\ UNCHANGED vars => TypeOK'
  BY DEF TypeOK, vars, files, stores

\* Every variable keeps its type; a file is open only while one is written.
THEOREM TypeCorrect == Spec => []TypeOK
  <1>1. TypeOK /\ [Next]_vars => TypeOK'
    BY ChannelTypes, RunTypes, StillTypes DEF Next
  <1>. QED  BY InitTypes, <1>1, PTL DEF Spec

-----------------------------------------------------------------------------
(* What the steps do. *)

Step(p) == ChannelStep(p) \/ RunStep(p) \/ FileStep(p) \/ Crash(p)

\* Look, Stat and WriteDay go on inside the store.
LEMMA Within ==
    ASSUME TypeOK, NEW p \in Procs, Look(p) \/ Stat(p) \/ WriteDay(p)
    PROVE  /\ Alone(p) /\ Keeps(p)
           /\ proc[p].up /\ proc[p].pc \in {"look", "stat", "day"}
           /\ proc'[p].pc \in {"stat", "day", "config", "failed"}
           /\ proc'[p].ch = proc[p].ch /\ proc'[p].stage = proc[p].stage
           /\ proc'[p].open = proc[p].open
           /\ UNCHANGED <<doc, merged, lock, rows>>
  <1>1. proc[p].up /\ proc[p].pc \in {"look", "stat", "day"}
    BY DEF Look, Stat, WriteDay, At
  <1>2. proc[p].ch \in Channels
    BY <1>1 DEF TypeOK, AtChannel
  <1>3. PICK pc \in {"stat", "day", "config", "failed"} : Goto(p, pc)
    BY <1>2 DEF Look, Stat, WriteDay, TypeOK
  <1>. QED
    BY <1>1, <1>3, Going DEF Alone, Keeps, Pcs, AtChannel, Writing, Look, Stat, WriteDay,
       files, stores

\* A channel in hand is left, in another stage.
LEMMA LeavesIt ==
    ASSUME TypeOK, NEW p \in Procs, Unlink(p) \/ Commit(p) \/ CommitFails(p)
    PROVE  /\ Alone(p) /\ Keeps(p)
           /\ proc[p].ch \in Channels /\ proc'[p].pc = "loop"
           /\ proc'[p].ch = Nobody /\ proc'[p].open = proc[p].open
           /\ proc[p].pc \in {"probe", "commit", "failed"}
           /\ \E s \in {"resolving", "refused", "ok", "error", "raised"} :
                 /\ proc'[p].stage = [proc[p].stage EXCEPT ![proc[p].ch] = s]
                 /\ ~Commit(p) => s \in {"resolving", "refused", "raised"}
                 /\ Commit(p) => s = IF At(p, "commit") THEN "ok" ELSE "error"
           /\ UNCHANGED <<doc, merged, day>>
           /\ Unlink(p) \/ CommitFails(p) => UNCHANGED rows
  <1>1. proc[p].ch \in Channels /\ proc[p].pc \in {"probe", "commit", "failed"}
    BY DEF Unlink, Commit, CommitFails, At, In, TypeOK, AtChannel
  <1>2. PICK s \in {"resolving", "refused", "ok", "error", "raised"} :
           /\ Leave(p, proc[p].ch, s)
           /\ ~Commit(p) => s \in {"resolving", "refused", "raised"}
           /\ Commit(p) => s = IF At(p, "commit") THEN "ok" ELSE "error"
    <2>1. CASE Commit(p)
      BY <2>1 DEF Commit
    <2>2. CASE Unlink(p) /\ ~Commit(p)
      BY <2>2 DEF Unlink
    <2>3. CASE CommitFails(p) /\ ~Commit(p)
      BY <2>3 DEF CommitFails
    <2>. QED  BY <2>1, <2>2, <2>3
  <1>3. UNCHANGED <<doc, merged, day>> /\ (Unlink(p) \/ CommitFails(p) => UNCHANGED rows)
    BY DEF Unlink, Commit, CommitFails, files, stores
  <1>. QED
    BY ZenonT(60), <1>1, <1>2, <1>3, Leaving DEF Alone, Keeps, Stages

\* A channel is taken up, or given up at once.
LEMMA TakesUp ==
    ASSUME TypeOK, NEW p \in Procs, NEW c \in Channels,
           Touch(p, c) \/ ResolveFails(p, c) \/ OpenStore(p, c)
    PROVE  /\ Alone(p) /\ Keeps(p)
           /\ proc[p].pc = "loop" /\ proc[p].up /\ proc'[p].open = proc[p].open
           /\ proc[p].stage[c] \in {"queued", "resolving"}
           /\ \/ /\ proc'[p].pc = "loop"
                 /\ \E s \in {"error", "refused", "raised"} :
                       proc'[p].stage = [proc[p].stage EXCEPT ![c] = s]
                 /\ UNCHANGED lock
              \/ /\ proc'[p].pc = "probe" /\ proc'[p].ch = c
                 /\ proc[p].stage[c] = "queued" /\ proc'[p].stage = proc[p].stage
                 /\ UNCHANGED lock
              \/ /\ proc'[p].pc = "look" /\ proc'[p].ch = c
                 /\ proc[p].stage[c] = "resolving" /\ proc'[p].stage = proc[p].stage
                 /\ lock[c] = Nobody /\ lock' = [lock EXCEPT ![c] = p]
           /\ UNCHANGED <<doc, merged, day, rows>>
  <1>1. /\ proc[p].pc = "loop" /\ proc[p].up /\ proc[p].stage[c] \in {"queued", "resolving"}
        /\ UNCHANGED <<doc, merged, day, rows>>
    BY DEF Touch, ResolveFails, OpenStore, At, files, stores
  <1>2. CASE \E s \in {"error", "refused", "raised"} : Leave(p, c, s) /\ UNCHANGED lock
    <2>1. PICK s \in {"error", "refused", "raised"} : Leave(p, c, s) /\ UNCHANGED lock
      BY <1>2
    <2>2. s \in Stages
      BY DEF Stages
    <2>3. /\ Alone(p) /\ Keeps(p) /\ proc'[p].pc = "loop" /\ proc'[p].open = proc[p].open
          /\ proc'[p].stage = [proc[p].stage EXCEPT ![c] = s]
      BY <2>1, <2>2, Leaving DEF Alone, Keeps
    <2>. QED  BY <1>1, <2>1, <2>3
  <1>3. CASE Touch(p, c) /\ Take(p, c, "probe")
    <2>1. "probe" \in Pcs
      BY DEF Pcs, AtChannel
    <2>2. /\ Alone(p) /\ Keeps(p) /\ proc'[p].pc = "probe" /\ proc'[p].ch = c
          /\ proc'[p].open = proc[p].open /\ proc'[p].stage = proc[p].stage
      BY <1>3, <2>1, Taking DEF Alone, Keeps
    <2>3. proc[p].stage[c] = "queued" /\ UNCHANGED lock
      BY <1>3 DEF Touch, stores
    <2>. QED  BY <1>1, <2>2, <2>3
  <1>4. CASE /\ OpenStore(p, c) /\ Take(p, c, "look") /\ lock[c] = Nobody
             /\ lock' = [lock EXCEPT ![c] = p]
    <2>1. "look" \in Pcs
      BY DEF Pcs, AtChannel
    <2>2. /\ Alone(p) /\ Keeps(p) /\ proc'[p].pc = "look" /\ proc'[p].ch = c
          /\ proc'[p].open = proc[p].open /\ proc'[p].stage = proc[p].stage
      BY <1>4, <2>1, Taking DEF Alone, Keeps
    <2>3. proc[p].stage[c] = "resolving"
      BY <1>4 DEF OpenStore
    <2>. QED  BY <1>1, <1>4, <2>2, <2>3
  <1>. QED
    BY <1>2, <1>3, <1>4 DEF Touch, ResolveFails, OpenStore, stores

\* Between its channels a run goes on, or the end of it.
LEMMA Between ==
    ASSUME TypeOK, NEW p \in Procs, Abort(p) \/ EndOfChannels(p) \/ GcStat(p) \/ GcEnds(p)
    PROVE  /\ Alone(p)
           /\ proc[p].pc \in {"loop", "gc"}
           /\ \/ proc[p].pc = "loop" /\ proc'[p].pc \in {"aborted", "gc", "merge"}
              \/ proc[p].pc = "gc" /\ proc'[p].pc \in {"gc", "unlink", "marker"}
           /\ proc'[p].stage = proc[p].stage /\ proc'[p].open = proc[p].open
           /\ proc'[p].swept = proc[p].swept /\ proc'[p].up = proc[p].up
           /\ proc'[p].pc = "merge" => proc'[p].left = Staged(p, {"ok"})
           /\ UNCHANGED <<doc, merged, day, lock, rows>>
  <1>1. UNCHANGED <<doc, merged, day, lock, rows>>
    BY DEF Abort, EndOfChannels, GcStat, GcEnds, files, stores
  <1>2. CASE Abort(p)
    <2>1. Goto(p, "aborted") /\ "aborted" \in Pcs /\ proc[p].pc = "loop"
      BY <1>2 DEF Abort, At, Pcs, Over
    <2>2. /\ Alone(p) /\ proc'[p].pc = "aborted"
          /\ proc'[p].stage = proc[p].stage /\ proc'[p].open = proc[p].open
          /\ proc'[p].swept = proc[p].swept /\ proc'[p].up = proc[p].up
      BY <2>1, Going DEF Alone
    <2>. QED  BY <1>1, <2>1, <2>2
  <1>3. CASE GcEnds(p)
    <2>1. Goto(p, "marker") /\ "marker" \in Pcs /\ proc[p].pc = "gc"
      BY <1>3 DEF GcEnds, At, Pcs, Writing
    <2>2. /\ Alone(p) /\ proc'[p].pc = "marker"
          /\ proc'[p].stage = proc[p].stage /\ proc'[p].open = proc[p].open
          /\ proc'[p].swept = proc[p].swept /\ proc'[p].up = proc[p].up
      BY <2>1, Going DEF Alone
    <2>. QED  BY <1>1, <2>1, <2>2
  <1>4. CASE EndOfChannels(p)
    BY <1>1, <1>4, Ending
  <1>5. CASE GcStat(p)
    BY <1>1, <1>5, Looking
  <1>. QED  BY <1>2, <1>3, <1>4, <1>5

LEMMA OneAtATime ==
    ASSUME TypeOK, NEW p \in Procs, Step(p)
    PROVE  Alone(p)
  BY TakesUp, Within, LeavesIt, Between, Starting, Reading, Sweeping, Opening, Filling,
     Failing, Dying DEF Step, ChannelStep, RunStep, FileStep

\* Nobody takes a lock that another has.
LEMMA LocksStay ==
    ASSUME TypeOK, NEW p \in Procs, Step(p), NEW c \in Channels, lock[c] \notin {Nobody, p}
    PROVE  lock'[c] = lock[c]
  <1>1. CASE \E d \in Channels : Touch(p, d) \/ ResolveFails(p, d) \/ OpenStore(p, d)
    BY ZenonT(60), <1>1, TakesUp DEF TypeOK
  <1>2. CASE Commit(p) \/ CommitFails(p)
    BY <1>2 DEF Commit, CommitFails, TypeOK
  <1>3. CASE Crash(p)
    BY <1>3 DEF Crash
  <1>4. CASE UNCHANGED lock
    BY <1>4
  <1>. QED
    BY <1>1, <1>2, <1>3, <1>4, Within, Between
       DEF Step, ChannelStep, RunStep, FileStep, Unlink, Start, ReadGuide, GcUnlink,
           OpenFile, FillFile, WriteFails, files, stores

-----------------------------------------------------------------------------
(* The lock, and the files written under it. *)

LEMMA LockedStays ==
    ASSUME TypeOK, Locked, NEW p \in Procs, Step(p)
    PROVE  Locked'
  <1>1. ASSUME NEW q \in Procs \ {p}, In(q, InStore)' PROVE (lock[proc[q].ch] = q)'
    <2>1. proc'[q] = proc[q]
      BY OneAtATime DEF Alone
    <2>2. In(q, InStore) /\ proc[q].ch \in Channels
      BY <1>1, <2>1 DEF In, TypeOK, InStore, AtChannel, Writing
    <2>3. lock[proc[q].ch] = q /\ q \notin {Nobody, p}
      BY <2>2, PublishAssumption DEF Locked
    <2>. QED  BY <2>1, <2>2, <2>3, LocksStay
  <1>2. ASSUME In(p, InStore)' PROVE (lock[proc[p].ch] = p)'
    <2>1. ASSUME In(p, InStore), proc'[p].ch = proc[p].ch, UNCHANGED lock
          PROVE  (lock[proc[p].ch] = p)'
      BY <2>1 DEF Locked
    <2>2. CASE \E c \in Channels : Touch(p, c) \/ ResolveFails(p, c) \/ OpenStore(p, c)
      <3>1. PICK c \in Channels : Touch(p, c) \/ ResolveFails(p, c) \/ OpenStore(p, c)
        BY <2>2
      <3>2. proc'[p].ch = c /\ lock' = [lock EXCEPT ![c] = p]
        BY <1>2, <3>1, TakesUp DEF In, InStore
      <3>. QED  BY <3>2 DEF TypeOK
    <2>3. CASE Look(p) \/ Stat(p) \/ WriteDay(p)
      BY <2>1, <2>3, Within DEF In, InStore
    <2>4. CASE OpenFile(p) \/ FillFile(p) \/ WriteFails(p)
      <3>1. /\ proc[p].pc \in Writing /\ proc'[p].ch = proc[p].ch /\ UNCHANGED lock
            /\ proc[p].up
        BY <2>4, Opening, Filling, Failing
           DEF OpenFile, FillFile, WriteFails, stores, In
      <3>2. proc[p].pc \in {"config", "guide"}
        <4>1. proc'[p].pc \in InStore
          BY <1>2 DEF In
        <4>2. CASE OpenFile(p)
          BY <4>1, <4>2, Opening DEF InStore, Writing
        <4>3. CASE FillFile(p)
          BY <3>1, <4>1, <4>3, Filling DEF InStore, Writing, After
        <4>4. CASE WriteFails(p)
          BY <4>1, <4>4, Failing DEF InStore
        <4>. QED  BY <2>4, <4>2, <4>3, <4>4
      <3>. QED  BY <2>1, <3>1, <3>2 DEF In, InStore
    <2>5. CASE Unlink(p) \/ Commit(p) \/ CommitFails(p)
      BY <1>2, <2>5, LeavesIt DEF In, InStore
    <2>6. CASE RunStep(p)
      BY <1>2, <2>6, Starting, Between, Reading, Sweeping DEF In, InStore, RunStep
    <2>7. CASE Crash(p)
      BY <1>2, <2>7, Dying DEF In
    <2>. QED
      BY <2>2, <2>3, <2>4, <2>5, <2>6, <2>7 DEF Step, ChannelStep, FileStep
  <1>. QED  BY <1>1, <1>2 DEF Locked

LEMMA PendingStays ==
    ASSUME TypeOK, Pending, NEW p \in Procs, Step(p)
    PROVE  Pending'
  <1> DEFINE Stands(q) ==
        /\ proc[q].pc = "probe" => proc[q].stage[proc[q].ch] = "queued"
        /\ proc[q].pc \in InStore => proc[q].stage[proc[q].ch] = "resolving"
  <1>1. ASSUME NEW q \in Procs \ {p} PROVE Stands(q)'
    BY OneAtATime DEF Alone, Pending
  <1>2. Stands(p)'
    <2>1. CASE \E c \in Channels : Touch(p, c) \/ ResolveFails(p, c) \/ OpenStore(p, c)
      <3>1. PICK c \in Channels : Touch(p, c) \/ ResolveFails(p, c) \/ OpenStore(p, c)
        BY <2>1
      <3>. QED  BY ZenonT(60), <3>1, TakesUp DEF InStore
    <2>2. CASE Look(p) \/ Stat(p) \/ WriteDay(p)
      BY <2>2, Within DEF InStore, Pending
    <2>3. CASE OpenFile(p)
      BY <2>3, Opening DEF Pending
    <2>4. CASE FillFile(p)
      <3>1. proc'[p].pc \in InStore => proc[p].pc \in InStore
        BY <2>4, Filling DEF InStore, Writing, After
      <3>2. proc'[p].pc # "probe"
        BY <2>4, Filling DEF Writing, After
      <3>. QED  BY <2>4, <3>1, <3>2, Filling DEF Pending
    <2>5. CASE WriteFails(p)
      BY <2>5, Failing DEF InStore, Pending
    <2>6. CASE Unlink(p) \/ Commit(p) \/ CommitFails(p)
      BY <2>6, LeavesIt DEF InStore
    <2>7. CASE RunStep(p)
      BY <2>7, Starting, Between, Reading, Sweeping DEF InStore, RunStep
    <2>8. CASE Crash(p)
      BY <2>8, Dying DEF Pending
    <2>. QED
      BY <2>1, <2>2, <2>3, <2>4, <2>5, <2>6, <2>7, <2>8 DEF Step, ChannelStep, FileStep
  <1>. QED  BY <1>1, <1>2 DEF Pending

\* Only a file step writes a document, and only the one it is about.
LEMMA DocsStay ==
    ASSUME TypeOK, NEW p \in Procs, Step(p)
    PROVE  UNCHANGED doc \/ OpenFile(p) \/ FillFile(p)
  BY TakesUp, Within, LeavesIt, Between
     DEF Step, ChannelStep, RunStep, FileStep, Start, ReadGuide, GcUnlink, Crash, WriteFails,
         files

LEMMA Opened ==
    ASSUME TypeOK, NEW p \in Procs, OpenFile(p)
    PROVE  /\ Target(p) \in Docs
           /\ doc'[Target(p)].by = p /\ ~doc'[Target(p)].whole
           /\ doc'[Target(p)].shared =
                 (\E q \in Procs \ {p} : proc[q].up /\ HasOpen(q, Target(p)))
           /\ \A d \in Docs \ {Target(p)} : doc'[d] = doc[d]
  <1>1. Target(p) \in Docs
    BY TargetIsDoc, Opening
  <1>. QED  BY <1>1 DEF TypeOK, OpenFile

LEMMA Filled ==
    ASSUME TypeOK, NEW p \in Procs, FillFile(p)
    PROVE  /\ Target(p) \in Docs
           /\ doc'[Target(p)].by = p
           /\ doc'[Target(p)].shared = doc[Target(p)].shared
           /\ ~doc[Target(p)].shared => doc'[Target(p)].whole
           /\ \A d \in Docs \ {Target(p)} : doc'[d] = doc[d]
  <1>1. Target(p) \in Docs
    BY TargetIsDoc, Filling
  <1>2. PICK whole \in IF doc[Target(p)].shared THEN BOOLEAN ELSE {TRUE} :
           doc' = [doc EXCEPT ![Target(p)] = [@ EXCEPT !.by = p, !.whole = whole]]
    BY DEF FillFile
  <1>3. PICK new : new = [doc[Target(p)] EXCEPT !.by = p, !.whole = whole]
    OBVIOUS
  <1>4. /\ new.by = p /\ new.whole = whole /\ new.shared = doc[Target(p)].shared
    BY <1>1, <1>3 DEF TypeOK
  <1>. QED  BY <1>1, <1>2, <1>3, <1>4 DEF TypeOK

Common == {<<"epg">>, <<"lineup">>}

\* Two processes at one file are at a common one, or at one they have one
\* lock for.
LEMMA OneWriter ==
    ASSUME TypeOK, Locked, NEW p \in Procs, NEW q \in Procs \ {p},
           In(p, Writing), In(q, Writing), Target(p) = Target(q)
    PROVE  Target(p) \in Common
  <1>1. proc[p].pc \in Writing /\ proc[q].pc \in Writing
    BY DEF In
  <1>2. CASE proc[p].pc \in {"config", "guide"}
    <2>1. Target(p) = <<proc[p].pc, proc[p].ch>>
      BY <1>2 DEF Target
    <2>2. proc[q].pc \in {"config", "guide"}
      BY <1>1, <1>2, <2>1 DEF Target, Writing
    <2>3. Target(q) = <<proc[q].pc, proc[q].ch>>
      BY <2>2 DEF Target
    <2>4. proc[p].ch = proc[q].ch
      <3>1. Target(p)[2] = proc[p].ch
        BY <2>1
      <3>2. Target(q)[2] = proc[q].ch
        BY <2>3
      <3>. QED  BY <3>1, <3>2
    <2>5. lock[proc[p].ch] = p /\ lock[proc[q].ch] = q
      BY <1>2, <2>2 DEF Locked, In, InStore
    <2>. QED  BY <2>4, <2>5
  <1>3. CASE proc[p].pc = "marker"
    <2>1. Target(p) = <<"marker", p>>
      BY <1>3 DEF Target
    <2>2. proc[q].pc = "marker"
      BY <1>1, <2>1 DEF Target, Writing
    <2>3. Target(q) = <<"marker", q>>
      BY <2>2 DEF Target
    <2>4. Target(p)[2] = p
      BY <2>1
    <2>5. Target(q)[2] = q
      BY <2>3
    <2>. QED  BY <2>4, <2>5
  <1>4. CASE proc[p].pc \in {"epg", "lineup"}
    BY <1>4 DEF Target, Common
  <1>. QED  BY <1>1, <1>2, <1>3, <1>4 DEF Writing

LEMMA AuthorsStay ==
    ASSUME TypeOK, Locked, Authors, NEW p \in Procs, Step(p)
    PROVE  Authors'
  <1>1. CASE UNCHANGED doc
    BY <1>1 DEF Authors
  <1>2. CASE OpenFile(p)
    <2>1. ASSUME doc'[Target(p)].shared PROVE Target(p) \in Common
      <3>1. PICK q \in Procs \ {p} : proc[q].up /\ HasOpen(q, Target(p))
        BY <1>2, <2>1, Opened
      <3>2. In(p, Writing) /\ In(q, Writing) /\ Target(q) = Target(p)
        BY <1>2, <3>1 DEF OpenFile, In, HasOpen
      <3>. QED  BY <3>2, OneWriter
    <2>2. ASSUME NEW d \in Docs
          PROVE  /\ ~doc'[d].whole => doc'[d].by \in Procs
                 /\ doc'[d].shared => d \in Common
      BY ZenonT(60), <1>2, <2>1, Opened DEF Authors, Common
    <2>. QED  BY <2>2 DEF Authors, Common
  <1>3. CASE FillFile(p)
    <2>1. ASSUME NEW d \in Docs
          PROVE  /\ ~doc'[d].whole => doc'[d].by \in Procs
                 /\ doc'[d].shared => d \in Common
      BY <1>3, Filled DEF Authors, Common
    <2>. QED  BY <2>1 DEF Authors, Common
  <1>. QED  BY <1>1, <1>2, <1>3, DocsStay

\* A target is where a process is, and with which channel.
LEMMA Targets ==
    ASSUME TypeOK, NEW p \in Procs, proc[p].pc \in Writing
    PROVE  /\ proc[p].pc \in {"config", "guide"} =>
                 proc[p].ch \in Channels /\ Target(p) = <<proc[p].pc, proc[p].ch>>
           /\ proc[p].pc \notin {"config", "guide"} =>
                 Target(p) \notin {"config", "guide"} \X Channels
  BY DEF Target, Writing, TypeOK, AtChannel

LEMMA NotCommon ==
    ASSUME NEW c PROVE <<"config", c>> \notin Common /\ <<"guide", c>> \notin Common
  BY DEF Common

LEMMA TargetStays ==
    ASSUME NEW p \in Procs, proc'[p].pc = proc[p].pc, proc'[p].ch = proc[p].ch
    PROVE  Target(p)' = Target(p)
  BY DEF Target

LEMMA OthersStay ==
    ASSUME TypeOK, NEW p \in Procs, Step(p), NEW q \in Procs \ {p}
    PROVE  /\ proc'[q] = proc[q] /\ Target(q)' = Target(q)
           /\ \A d : HasOpen(q, d)' <=> HasOpen(q, d)
           /\ \A pc : At(q, pc)' <=> At(q, pc)
           /\ \A c : Published(q, c)' <=> Published(q, c)
  <1>1. proc'[q] = proc[q]
    BY OneAtATime DEF Alone
  <1>2. Target(q)' = Target(q)
    BY <1>1, TargetStays
  <1>. QED  BY <1>1, <1>2 DEF HasOpen, At, Published

LEMMA ConfigStays ==
    ASSUME TypeOK, Locked, Authors, ConfigIsOut, NEW p \in Procs, Step(p)
    PROVE  ConfigIsOut'
  <1> DEFINE Out(q) == proc[q].pc = "guide" =>
                          \/ doc[<<"config", proc[q].ch>>].whole
                          \/ doc[<<"config", proc[q].ch>>].by # q
  <1>1. ASSUME NEW q \in Procs, proc[q].pc = "guide"
        PROVE  <<"config", proc[q].ch>> \in Docs
    BY <1>1 DEF TypeOK, AtChannel, Docs
  <1>2. ASSUME NEW q \in Procs \ {p} PROVE Out(q)'
    <2>1. proc'[q] = proc[q]
      BY OthersStay
    <2>2. CASE UNCHANGED doc
      BY <2>1, <2>2 DEF ConfigIsOut
    <2>3. CASE OpenFile(p) \/ FillFile(p)
      <3>1. PICK d : d = <<"config", proc[q].ch>>
        OBVIOUS
      <3>2. proc[q].pc = "guide" => d \in Docs /\ (doc'[d] = doc[d] \/ doc'[d].by = p)
        BY ZenonT(60), <1>1, <2>3, <3>1, Opened, Filled
      <3>3. proc[q].pc = "guide" => doc[d].whole \/ doc[d].by # q
        BY <3>1 DEF ConfigIsOut
      <3>. QED  BY <2>1, <3>1, <3>2, <3>3
    <2>. QED  BY <2>2, <2>3, DocsStay
  <1>3. Out(p)'
    <2> SUFFICES ASSUME proc'[p].pc = "guide"
                 PROVE  \/ doc'[<<"config", proc'[p].ch>>].whole
                        \/ doc'[<<"config", proc'[p].ch>>].by # p
      OBVIOUS
    <2>1. CASE OpenFile(p)
      <3>1. proc[p].pc = "guide" /\ proc'[p].ch = proc[p].ch
        BY <2>1, Opening
      <3>2. Target(p) = <<"guide", proc[p].ch>>
        BY <3>1, Targets DEF Writing
      <3>3. doc'[<<"config", proc[p].ch>>] = doc[<<"config", proc[p].ch>>]
        <4>1. <<"config", proc[p].ch>> # <<"guide", proc[p].ch>>
          OBVIOUS
        <4>. QED  BY <1>1, <2>1, <3>1, <3>2, <4>1, Opened
      <3>. QED  BY <3>1, <3>3 DEF ConfigIsOut
    <2>2. CASE FillFile(p)
      <3>1. proc[p].pc = "config" /\ proc'[p].ch = proc[p].ch
        BY <2>2, Filling DEF Writing, After
      <3>2. Target(p) = <<"config", proc[p].ch>>
        BY <3>1, Targets DEF Writing
      <3>3. Target(p) \in Docs /\ ~doc[Target(p)].shared
        BY <2>2, <3>2, Filled, NotCommon DEF Authors, Common
      <3>. QED  BY <2>2, <3>1, <3>2, <3>3, Filled
    <2>3. CASE Crash(p)
      BY <2>3, Dying DEF Crash, files, ConfigIsOut
    <2>4. CASE WriteFails(p)
      BY <2>4, Failing
    <2>5. CASE \E c \in Channels : Touch(p, c) \/ ResolveFails(p, c) \/ OpenStore(p, c)
      BY <2>5, TakesUp
    <2>6. CASE Unlink(p) \/ Commit(p) \/ CommitFails(p) \/ Look(p) \/ Stat(p) \/ WriteDay(p)
      BY <2>6, LeavesIt, Within
    <2>7. CASE RunStep(p)
      BY <2>7, Starting, Between, Reading, Sweeping DEF RunStep
    <2>. QED
      BY <2>1, <2>2, <2>3, <2>4, <2>5, <2>6, <2>7 DEF Step, ChannelStep, FileStep
  <1>. QED  BY <1>2, <1>3 DEF ConfigIsOut

\* What is over takes no steps.
LEMMA OverIsOver ==
    ASSUME TypeOK, NEW p \in Procs, Step(p)
    PROVE  proc[p].pc \notin Over
  BY ZenonT(60), TakesUp, Within, LeavesIt, Between, Starting, Reading, Sweeping, Opening, Filling,
     Failing, Dying DEF Step, ChannelStep, RunStep, FileStep, Over, Writing

\* What is published was before, or channel.json and the guide are now out.
LEMMA Publishing ==
    ASSUME TypeOK, NEW p \in Procs, Step(p), NEW c \in Channels, Published(p, c)'
    PROVE  \/ Published(p, c)
           \/ FillFile(p) /\ proc[p].pc = "guide" /\ proc[p].ch = c
  <1>1. CASE \E d \in Channels : Touch(p, d) \/ ResolveFails(p, d) \/ OpenStore(p, d)
    <2>1. PICK d \in Channels : Touch(p, d) \/ ResolveFails(p, d) \/ OpenStore(p, d)
      BY <1>1
    <2>2. proc[p].stage \in [Channels -> Stages]
      BY DEF TypeOK, ProcType
    <2>. QED  BY ZenonT(60), <2>1, <2>2, TakesUp DEF Published
  <1>2. CASE Look(p) \/ Stat(p) \/ WriteDay(p)
    BY <1>2, Within DEF Published
  <1>3. CASE Unlink(p) \/ Commit(p) \/ CommitFails(p)
    <2>1. PICK s \in {"resolving", "refused", "ok", "error", "raised"} :
             /\ proc'[p].stage = [proc[p].stage EXCEPT ![proc[p].ch] = s]
             /\ ~Commit(p) => s \in {"resolving", "refused", "raised"}
             /\ Commit(p) => s = IF At(p, "commit") THEN "ok" ELSE "error"
      BY <1>3, LeavesIt
    <2>2. proc[p].stage \in [Channels -> Stages] /\ proc'[p].pc = "loop"
      BY <1>3, LeavesIt DEF TypeOK, ProcType
    <2>. QED  BY <1>3, <2>1, <2>2 DEF Published, At
  <1>4. CASE FillFile(p)
    <2>1. proc'[p].pc = "commit" => proc[p].pc = "guide"
      BY <1>4, Filling DEF Writing, After
    <2>. QED  BY <1>4, <2>1, Filling DEF Published
  <1>5. CASE OpenFile(p) \/ WriteFails(p) \/ Crash(p)
    BY <1>5, Opening, Failing, Dying DEF Published
  <1>6. CASE RunStep(p)
    BY <1>6, Starting, Between, Reading, Sweeping DEF RunStep, Published
  <1>. QED
    BY <1>1, <1>2, <1>3, <1>4, <1>5, <1>6 DEF Step, ChannelStep, FileStep

LEMMA TornStays ==
    ASSUME TypeOK, Pending, Authors, ConfigIsOut, TornHasACause, NEW p \in Procs, Step(p)
    PROVE  TornHasACause'
  <1> DEFINE Cause(d, r) ==
        \/ HasOpen(r, d)
        \/ d \in Common /\ doc[d].shared
        \/ d \in Docs \ ({"config", "guide"} \X Channels) /\ At(r, "aborted")
        \/ d \in {"config", "guide"} \X Channels /\ ~Published(r, d[2])
  <1>1. SUFFICES ASSUME NEW d \in Docs, ~doc'[d].whole, NEW r, r = doc'[d].by
                 PROVE  Cause(d, r)'
    BY DEF TornHasACause, Common
  <1>2. CASE OpenFile(p) /\ d = Target(p)
    <2>1. r = p
      BY <1>1, <1>2, Opened
    <2>2. /\ proc'[p].pc \in Writing /\ proc'[p].open
          /\ proc'[p].pc = proc[p].pc /\ proc'[p].ch = proc[p].ch
      BY <1>2, Opening
    <2>3. HasOpen(p, d)'
      BY <1>2, <2>2, TargetStays DEF HasOpen
    <2>. QED  BY <2>1, <2>3
  <1>3. CASE FillFile(p) /\ d = Target(p)
    BY <1>1, <1>3, Filled DEF Authors, Common
  <1>4. CASE doc'[d] = doc[d] /\ ~(FillFile(p) /\ d = Target(p))
    <2>1. r \in Procs /\ Cause(d, r) /\ ~doc[d].whole /\ doc[d].by = r
      BY <1>1, <1>4 DEF Authors, TornHasACause, Common
    <2>2. CASE r # p
      <3>1. r \in Procs \ {p}
        BY <2>1, <2>2
      <3>. QED  BY <1>4, <2>1, <3>1, OthersStay
    <2>3. CASE r = p
      <3>1. CASE HasOpen(p, d)
        <4>1. proc[p].pc \in Writing /\ proc[p].open /\ d = Target(p)
          BY <3>1 DEF HasOpen
        <4>2. CASE Crash(p)
          BY <2>3, <3>1, <4>2, Dying, TargetStays DEF HasOpen
        <4>3. CASE WriteFails(p)
          <5>1. CASE proc[p].pc \in {"config", "guide"}
            <6>1. d = <<proc[p].pc, proc[p].ch>> /\ proc[p].ch \in Channels
              BY <4>1, <5>1, Targets
            <6>2. d \in {"config", "guide"} \X Channels /\ d[2] = proc[p].ch
              BY <5>1, <6>1
            <6>3. proc[p].stage[proc[p].ch] = "resolving"
              BY <5>1 DEF Pending, InStore
            <6>4. ~Published(p, d[2])'
              BY <4>3, <5>1, <6>2, <6>3, Failing DEF Published
            <6>. QED  BY <2>3, <6>2, <6>4
          <5>2. CASE proc[p].pc \notin {"config", "guide"}
            BY <2>3, <4>1, <4>3, <5>2, Targets, Failing DEF At, Keeps
          <5>. QED  BY <5>1, <5>2
        <4>4. CASE OpenFile(p) \/ FillFile(p)
          BY <1>4, <4>1, <4>4, Opening
        <4>5. CASE ChannelStep(p) \/ RunStep(p)
          BY ZenonT(60), <4>1, <4>5, TakesUp, Within, LeavesIt, Starting, Between, Reading, Sweeping
             DEF ChannelStep, RunStep, Writing
        <4>. QED  BY <4>2, <4>3, <4>4, <4>5 DEF Step, FileStep
      <3>2. CASE d \in Common /\ doc[d].shared
        BY <1>4, <3>2
      <3>3. CASE At(p, "aborted")
        BY <3>3, OverIsOver DEF At, Over
      <3>4. CASE d \in {"config", "guide"} \X Channels /\ ~Published(p, d[2])
        <4>1. d[2] \in Channels
          BY <3>4
        <4>2. CASE FillFile(p) /\ proc[p].pc = "guide" /\ proc[p].ch = d[2]
          <5>1. Target(p) = <<"guide", d[2]>>
            BY <4>2, Targets DEF Writing
          <5>2. d = <<"config", d[2]>>
            BY <1>4, <3>4, <4>2, <5>1
          <5>. QED  BY <2>1, <2>3, <4>2, <5>2 DEF ConfigIsOut
        <4>3. CASE ~Published(p, d[2])'
          BY <2>3, <3>4, <4>3
        <4>. QED  BY <3>4, <4>1, <4>2, <4>3, Publishing
      <3>. QED  BY <2>1, <2>3, <3>1, <3>2, <3>3, <3>4
    <2>. QED  BY <2>2, <2>3
  <1>. QED
    BY <1>2, <1>3, <1>4, DocsStay, Opened, Filled

-----------------------------------------------------------------------------
(* The day's file. *)

LEMMA SweptStays ==
    ASSUME TypeOK, NEW p \in Procs, Step(p), NEW q \in Procs
    PROVE  proc[q].swept \subseteq proc'[q].swept
  <1>1. proc[p].swept \subseteq proc'[p].swept
    <2>1. CASE \E c \in Channels : Touch(p, c) \/ ResolveFails(p, c) \/ OpenStore(p, c)
      BY <2>1, TakesUp DEF Keeps
    <2>2. CASE Look(p) \/ Stat(p) \/ WriteDay(p) \/ Unlink(p) \/ Commit(p) \/ CommitFails(p)
      BY <2>2, Within, LeavesIt DEF Keeps
    <2>3. CASE FileStep(p) \/ Crash(p)
      BY <2>3, Opening, Filling, Failing, Dying DEF FileStep, Keeps
    <2>4. CASE RunStep(p)
      BY <2>4, Starting, Between, Reading, Sweeping DEF RunStep, Keeps
    <2>. QED  BY <2>1, <2>2, <2>3, <2>4 DEF Step, ChannelStep
  <1>. QED  BY <1>1, OneAtATime DEF Alone

LEMMA DayStays ==
    ASSUME TypeOK, NEW p \in Procs, Step(p), NEW c \in Channels,
           day[c] = "fresh" \/ Swept(c)
    PROVE  day'[c] = "fresh" \/ Swept(c)'
  <1>1. CASE Swept(c)
    BY <1>1, SweptStays DEF Swept
  <1>2. CASE day[c] = "fresh" /\ UNCHANGED day
    BY <1>2
  <1>3. CASE day[c] = "fresh" /\ WriteDay(p)
    BY <1>3 DEF WriteDay, TypeOK
  <1>4. CASE day[c] = "fresh" /\ GcUnlink(p)
    BY <1>4, Sweeping DEF Swept, TypeOK
  <1>. QED
    BY <1>1, <1>2, <1>3, <1>4, TakesUp, LeavesIt, Between
       DEF Step, ChannelStep, RunStep, FileStep, Look, Stat, Start, ReadGuide, OpenFile,
           FillFile, WriteFails, Crash, files

LEMMA DayIsOutStays ==
    ASSUME TypeOK, DayIsOut, NEW p \in Procs, Step(p)
    PROVE  DayIsOut'
  <1> DEFINE InHand == {"config", "guide", "commit"}
  <1> DEFINE Out(c) == day[c] = "fresh" \/ \E q \in Procs : c \in proc[q].swept
  <1>1. ASSUME NEW q \in Procs, NEW c, c = proc'[q].ch, c = proc[q].ch,
               proc[q].pc \in InHand
        PROVE  Out(c)'
    <2>1. c \in Channels
      BY <1>1 DEF TypeOK, AtChannel, Writing
    <2>2. day[c] = "fresh" \/ Swept(c)
      BY <1>1 DEF DayIsOut
    <2>3. day'[c] = "fresh" \/ Swept(c)'
      BY <2>1, <2>2, DayStays
    <2>. QED  BY <2>3 DEF Swept
  <1>2. ASSUME NEW q \in Procs \ {p}, proc'[q].pc \in InHand, NEW c, c = proc'[q].ch
        PROVE  Out(c)'
    BY <1>1, <1>2, OthersStay
  <1>3. ASSUME proc'[p].pc \in InHand, NEW c, c = proc'[p].ch
        PROVE  Out(c)'
    <2>1. CASE Stat(p)
      <3>1. c = proc[p].ch /\ c \in Channels /\ UNCHANGED day
        BY <1>3, <2>1, Within DEF Stat, At, TypeOK, AtChannel, files
      <3>2. day[c] = "fresh"
        <4>1. CASE day[c] = "old"
          <5>1. Goto(p, "day") /\ "day" \in Pcs
            BY <2>1, <3>1, <4>1 DEF Stat, Pcs, AtChannel
          <5>. QED  BY <1>3, <5>1, Going
        <4>2. CASE day[c] = "absent"
          <5>1. Goto(p, "failed") /\ "failed" \in Pcs
            BY <2>1, <3>1, <4>2 DEF Stat, Pcs, AtChannel
          <5>. QED  BY <1>3, <5>1, Going
        <4>. QED  BY <3>1, <4>1, <4>2 DEF TypeOK
      <3>. QED  BY <3>1, <3>2
    <2>2. CASE WriteDay(p)
      <3>1. c = proc[p].ch /\ c \in Channels
        BY <1>3, <2>2, Within DEF WriteDay, At, TypeOK, AtChannel
      <3>2. ~Goto(p, "failed")
        <4>1. "failed" \in Pcs
          BY DEF Pcs, AtChannel
        <4>. QED  BY <1>3, <4>1, Going
      <3>3. day' = [day EXCEPT ![c] = "fresh"]
        BY <2>2, <3>1, <3>2 DEF WriteDay
      <3>. QED  BY <3>1, <3>3 DEF TypeOK
    <2>3. CASE Look(p)
      <3>1. PICK pc \in {"day", "stat"} : Goto(p, pc)
        BY <2>3 DEF Look
      <3>2. pc \in Pcs
        BY DEF Pcs, AtChannel
      <3>3. proc'[p].pc = pc
        BY <3>1, <3>2, Going
      <3>. QED  BY <1>3, <3>3
    <2>4. CASE OpenFile(p) \/ Crash(p)
      BY <1>1, <1>3, <2>4, Opening, Dying
    <2>5. CASE FillFile(p)
      <3>1. proc[p].pc \in InHand
        BY <1>3, <2>5, Filling DEF Writing, After
      <3>. QED  BY <1>1, <1>3, <2>5, <3>1, Filling
    <2>6. CASE WriteFails(p)
      BY <1>3, <2>6, Failing
    <2>7. CASE RunStep(p)
      BY <1>3, <2>7, Starting, Between, Reading, Sweeping DEF RunStep
    <2>8. CASE \E d \in Channels : Touch(p, d) \/ ResolveFails(p, d) \/ OpenStore(p, d)
      <3>1. PICK d \in Channels : Touch(p, d) \/ ResolveFails(p, d) \/ OpenStore(p, d)
        BY <2>8
      <3>. QED  BY <1>3, <3>1, TakesUp
    <2>9. CASE Unlink(p) \/ Commit(p) \/ CommitFails(p)
      BY <1>3, <2>9, LeavesIt
    <2>. QED
      BY <2>1, <2>2, <2>3, <2>4, <2>5, <2>6, <2>7, <2>8, <2>9
         DEF Step, ChannelStep, FileStep
  <1>4. ASSUME NEW q \in Procs, NEW c, proc'[q].pc \in InHand, c = proc'[q].ch
        PROVE  Out(c)'
    BY <1>2, <1>3, <1>4
  <1>. QED  BY <1>4 DEF DayIsOut, Swept

\* A channel is done if it was, or by this commit.
LEMMA Finishing ==
    ASSUME TypeOK, NEW p \in Procs, Step(p), NEW c \in Channels, proc'[p].stage[c] = "ok"
    PROVE  \/ proc[p].stage[c] = "ok"
           \/ Commit(p) /\ At(p, "commit") /\ proc[p].ch = c
  <1>0. proc[p].stage \in [Channels -> Stages]
    BY DEF TypeOK, ProcType
  <1>1. CASE \E d \in Channels : Touch(p, d) \/ ResolveFails(p, d) \/ OpenStore(p, d)
    <2>1. PICK d \in Channels : Touch(p, d) \/ ResolveFails(p, d) \/ OpenStore(p, d)
      BY <1>1
    <2>. QED  BY ZenonT(60), <1>0, <2>1, TakesUp
  <1>2. CASE Unlink(p) \/ Commit(p) \/ CommitFails(p)
    <2>1. PICK s \in {"resolving", "refused", "ok", "error", "raised"} :
             /\ proc'[p].stage = [proc[p].stage EXCEPT ![proc[p].ch] = s]
             /\ ~Commit(p) => s \in {"resolving", "refused", "raised"}
             /\ Commit(p) => s = IF At(p, "commit") THEN "ok" ELSE "error"
      BY <1>2, LeavesIt
    <2>. QED  BY <1>0, <1>2, <2>1
  <1>3. CASE Look(p) \/ Stat(p) \/ WriteDay(p)
    BY <1>3, Within
  <1>4. CASE FileStep(p) \/ Crash(p)
    BY <1>4, Opening, Filling, Failing, Dying DEF FileStep
  <1>5. CASE RunStep(p)
    BY <1>5, Starting, Between, Reading, Sweeping DEF RunStep
  <1>. QED
    BY <1>1, <1>2, <1>3, <1>4, <1>5 DEF Step, ChannelStep

LEMMA DoneStays ==
    ASSUME TypeOK, DayIsOut, DoneHasItsDay, NEW p \in Procs, Step(p)
    PROVE  DoneHasItsDay'
  <1>1. SUFFICES ASSUME NEW q \in Procs, NEW c \in Channels, proc'[q].stage[c] = "ok"
                 PROVE  day'[c] = "fresh" \/ Swept(c)'
    BY DEF DoneHasItsDay, Staged, Swept
  <1>2. CASE proc[q].stage[c] = "ok"
    BY <1>2, DayStays DEF DoneHasItsDay, Staged, Swept
  <1>3. CASE proc[q].stage[c] # "ok"
    <2>1. q = p
      BY <1>1, <1>3, OthersStay
    <2>2. proc[p].pc = "commit" /\ proc[p].ch = c
      BY <1>1, <1>3, <2>1, Finishing DEF At
    <2>. QED  BY <2>2, DayStays DEF DayIsOut
  <1>. QED  BY <1>2, <1>3

-----------------------------------------------------------------------------
(* The merged guide. *)

LEMMA RowsMove ==
    ASSUME TypeOK, NEW p \in Procs, Step(p), NEW c \in Channels
    PROVE  \/ rows'[c] = rows[c]
           \/ Commit(p) /\ c = proc[p].ch /\ rows'[c] = Append(rows[c], p)
  <1>1. CASE Commit(p)
    BY <1>1 DEF Commit, TypeOK
  <1>2. CASE UNCHANGED rows
    BY <1>2
  <1>3. CASE \E d \in Channels : Touch(p, d) \/ ResolveFails(p, d) \/ OpenStore(p, d)
    BY <1>3, TakesUp
  <1>. QED
    BY <1>1, <1>2, <1>3, Within, LeavesIt, Between
       DEF Step, ChannelStep, RunStep, FileStep, Start, ReadGuide, GcUnlink,
           OpenFile, FillFile, WriteFails, Crash, files, stores

\* What is at hand has not ended.
LEMMA NotEnded ==
    ASSUME TypeOK, Pending, NEW p \in Procs, proc[p].pc \in InStore,
           NEW c \in Channels, c = proc[p].ch
    PROVE  proc[p].stage[c] \notin {"ok", "error"}
  BY DEF Pending

\* An end is one for good.
LEMMA EndStays ==
    ASSUME TypeOK, Pending, Logged, NEW p \in Procs, Step(p),
           NEW q \in Procs, NEW c \in Channels, proc[q].stage[c] \in {"ok", "error"}
    PROVE  proc'[q].stage[c] = proc[q].stage[c]
  <1>1. CASE q # p
    BY <1>1, OthersStay
  <1>2. CASE q = p
    <2>0. proc[p].stage \in [Channels -> Stages]
      BY DEF TypeOK, ProcType
    <2>1. CASE \E d \in Channels : Touch(p, d) \/ ResolveFails(p, d) \/ OpenStore(p, d)
      <3>1. PICK d \in Channels : Touch(p, d) \/ ResolveFails(p, d) \/ OpenStore(p, d)
        BY <2>1
      <3>2. d # c
        BY ZenonT(60), <1>2, <3>1, TakesUp
      <3>3. \/ proc'[p].stage = proc[p].stage
            \/ \E s \in {"error", "refused", "raised"} :
                  proc'[p].stage = [proc[p].stage EXCEPT ![d] = s]
        BY <3>1, TakesUp
      <3>. QED  BY <1>2, <2>0, <3>2, <3>3
    <2>2. CASE Unlink(p) \/ Commit(p) \/ CommitFails(p)
      <3>1. proc[p].ch # c
        BY <1>2, <2>2, LeavesIt DEF Pending, InStore
      <3>2. PICK s : proc'[p].stage = [proc[p].stage EXCEPT ![proc[p].ch] = s]
        BY <2>2, LeavesIt
      <3>. QED  BY <1>2, <2>0, <3>1, <3>2
    <2>3. CASE Look(p) \/ Stat(p) \/ WriteDay(p)
      BY <1>2, <2>3, Within
    <2>4. CASE FileStep(p) \/ Crash(p)
      BY <1>2, <2>4, Opening, Filling, Failing, Dying DEF FileStep
    <2>5. CASE Start(p)
      BY <1>2, <2>5, Starting DEF Logged
    <2>6. CASE RunStep(p) /\ ~Start(p)
      BY <1>2, <2>6, Between, Reading, Sweeping DEF RunStep
    <2>. QED
      BY <2>1, <2>2, <2>3, <2>4, <2>5, <2>6 DEF Step, ChannelStep
  <1>. QED  BY <1>1, <1>2

LEMMA LoggedStays ==
    ASSUME TypeOK, Pending, Logged, NEW p \in Procs, Step(p)
    PROVE  Logged'
  <1>1. ASSUME NEW c \in Channels, NEW i \in DOMAIN rows'[c]
        PROVE  proc'[rows'[c][i]].stage[c] \in {"ok", "error"}
    <2>1. rows[c] \in Seq(Procs)
      BY DEF TypeOK
    <2>2. CASE i \in DOMAIN rows[c] /\ rows'[c][i] = rows[c][i]
      <3>1. rows[c][i] \in Procs /\ proc[rows[c][i]].stage[c] \in {"ok", "error"}
        BY <2>1, <2>2 DEF Logged
      <3>. QED  BY <2>2, <3>1, EndStays
    <2>3. CASE Commit(p) /\ c = proc[p].ch /\ rows'[c][i] = p
      <3>1. PICK s \in {"resolving", "refused", "ok", "error", "raised"} :
               /\ proc'[p].stage = [proc[p].stage EXCEPT ![proc[p].ch] = s]
               /\ Commit(p) => s = IF At(p, "commit") THEN "ok" ELSE "error"
        BY <2>3, LeavesIt
      <3>2. proc[p].stage \in [Channels -> Stages]
        BY DEF TypeOK, ProcType
      <3>. QED  BY <2>3, <3>1, <3>2
    <2>. QED  BY <1>1, <2>1, <2>2, <2>3, RowsMove
  <1>2. ASSUME NEW q \in Procs, proc'[q].pc = "idle", NEW c \in Channels
        PROVE  proc'[q].stage[c] = "none"
    <2>1. CASE q # p
      BY <1>2, <2>1, OthersStay DEF Logged
    <2>2. CASE q = p
      <3>1. CASE \E d \in Channels : Touch(p, d) \/ ResolveFails(p, d) \/ OpenStore(p, d)
        <4>1. PICK d \in Channels : Touch(p, d) \/ ResolveFails(p, d) \/ OpenStore(p, d)
          BY <3>1
        <4>. QED  BY <1>2, <2>2, <4>1, TakesUp
      <3>2. CASE Unlink(p) \/ Commit(p) \/ CommitFails(p) \/ Look(p) \/ Stat(p) \/ WriteDay(p)
        BY <1>2, <2>2, <3>2, LeavesIt, Within
      <3>3. CASE OpenFile(p) \/ Crash(p)
        BY <1>2, <2>2, <3>3, Opening, Dying DEF Logged
      <3>4. CASE FillFile(p)
        BY <1>2, <2>2, <3>4, Filling DEF Writing, After
      <3>5. CASE WriteFails(p)
        BY <1>2, <2>2, <3>5, Failing
      <3>6. CASE RunStep(p)
        BY <1>2, <2>2, <3>6, Starting, Between, Reading, Sweeping DEF RunStep
      <3>. QED
        BY <3>1, <3>2, <3>3, <3>4, <3>5, <3>6 DEF Step, ChannelStep, FileStep
    <2>. QED  BY <2>1, <2>2
  <1>. QED  BY <1>1, <1>2 DEF Logged

\* Who has not ended is later than anyone; and once later, later for good.
LEMMA NotYetLogged ==
    ASSUME TypeOK, Logged, NEW c \in Channels, NEW r \in Procs, NEW q \in Procs,
           proc[q].stage[c] \notin {"ok", "error"}
    PROVE  Later(c, r, q)
  BY DEF Logged, Later

LEMMA LaterStays ==
    ASSUME TypeOK, Pending, Logged, NEW p \in Procs, Step(p), NEW c \in Channels,
           NEW r \in Procs, NEW q \in Procs, proc[r].stage[c] = "ok", Later(c, r, q)
    PROVE  Later(c, r, q)'
  <1>1. CASE rows'[c] = rows[c]
    BY <1>1 DEF Later
  <1>2. CASE Commit(p) /\ c = proc[p].ch /\ rows'[c] = Append(rows[c], p)
    <2>1. proc[p].pc \in InStore
      BY <1>2 DEF Commit, In, InStore
    <2>2. r # p
      BY <1>2, <2>1, NotEnded
    <2>3. rows[c] \in Seq(Procs)
      BY DEF TypeOK
    <2>4. ASSUME NEW i \in DOMAIN rows'[c], NEW j \in DOMAIN rows'[c],
                 rows'[c][i] = r, rows'[c][j] = q
          PROVE  i < j
      <3>1. i \in 1 .. Len(rows[c]) /\ rows[c][i] = r
        BY <1>2, <2>2, <2>3, <2>4
      <3>2. CASE j = Len(rows[c]) + 1
        BY <2>3, <3>1, <3>2
      <3>3. CASE j # Len(rows[c]) + 1
        <4>1. j \in 1 .. Len(rows[c]) /\ rows[c][j] = q
          BY <1>2, <2>3, <2>4, <3>3
        <4>. QED  BY <2>3, <3>1, <4>1 DEF Later
      <3>. QED  BY <3>2, <3>3
    <2>. QED  BY <2>4 DEF Later
  <1>. QED  BY <1>1, <1>2, RowsMove

LEMMA NotBehindStays ==
    ASSUME TypeOK, Pending, Logged, NEW p \in Procs, Step(p), NEW c \in Channels,
           NEW r \in Procs, NEW q, proc[r].stage[c] = "ok", NotBehind(c, r, q)
    PROVE  NotBehind(c, r, q)'
  BY LaterStays DEF NotBehind

\* At the guide of a channel a process has that channel's lock.
LEMMA AtTheGuide ==
    ASSUME TypeOK, Locked, NEW p \in Procs, OpenFile(p) \/ FillFile(p), NEW c \in Channels,
           Target(p) = <<"guide", c>>
    PROVE  proc[p].pc = "guide" /\ proc[p].ch = c /\ lock[c] = p
  <1>1. proc[p].pc \in Writing /\ proc[p].up
    BY DEF OpenFile, FillFile, In
  <1>2. proc[p].pc \in {"config", "guide"}
    BY <1>1, Targets
  <1>3. Target(p) = <<proc[p].pc, proc[p].ch>>
    BY <1>1, <1>2, Targets
  <1>4. Target(p)[1] = proc[p].pc /\ Target(p)[2] = proc[p].ch
    BY <1>3
  <1>5. Target(p)[1] = "guide" /\ Target(p)[2] = c
    OBVIOUS
  <1>. QED  BY <1>1, <1>4, <1>5 DEF Locked, In, InStore

LEMMA GuideStays ==
    ASSUME TypeOK, Locked, Pending, Logged, GuideNotBehind, NEW p \in Procs, Step(p)
    PROVE  GuideNotBehind'
  <1>0. ASSUME NEW c \in Channels
        PROVE  /\ <<"guide", c>> \in Docs
               /\ \/ doc'[<<"guide", c>>] = doc[<<"guide", c>>]
                  \/ /\ OpenFile(p) \/ FillFile(p)
                     /\ Target(p) = <<"guide", c>>
                     /\ doc'[<<"guide", c>>].by = p
    <2>1. PICK d \in Docs : d = <<"guide", c>>
      BY DEF Docs
    <2>. QED  BY ZenonT(60), <2>1, DocsStay, Opened, Filled
  <1>1. ASSUME NEW r \in Procs, NEW c \in Channels, proc'[r].stage[c] = "ok",
               NEW q, q = doc'[<<"guide", c>>].by
        PROVE  NotBehind(c, r, q)'
    <2>1. CASE proc[r].stage[c] = "ok" /\ doc'[<<"guide", c>>] = doc[<<"guide", c>>]
      <3>1. NotBehind(c, r, q)
        BY <1>1, <2>1 DEF GuideNotBehind, Staged
      <3>. QED  BY <2>1, <3>1, NotBehindStays
    <2>2. CASE /\ proc[r].stage[c] = "ok"
               /\ OpenFile(p) \/ FillFile(p)
               /\ Target(p) = <<"guide", c>> /\ q = p
      <3>1. proc[p].pc = "guide" /\ proc[p].ch = c
        BY <2>2, AtTheGuide
      <3>2. proc[p].stage[c] \notin {"ok", "error"}
        BY <3>1, NotEnded DEF InStore
      <3>3. Later(c, r, q)
        BY <2>2, <3>2, NotYetLogged
      <3>. QED  BY <2>2, <3>3, LaterStays DEF NotBehind
    <2>3. CASE proc[r].stage[c] # "ok"
      <3>1. r = p
        BY <1>1, <2>3, OthersStay
      <3>2. Commit(p) /\ At(p, "commit") /\ proc[p].ch = c
        BY <1>1, <2>3, <3>1, Finishing
      <3>3. doc[<<"guide", c>>].by = p
        BY <3>2 DEF GuideNotBehind
      <3>4. UNCHANGED doc
        BY <3>2 DEF Commit, files
      <3>. QED  BY <1>1, <3>1, <3>3, <3>4 DEF NotBehind
    <2>. QED  BY <1>0, <1>1, <2>1, <2>2, <2>3
  <1>2. ASSUME NEW q \in Procs \ {p}, At(q, "commit")', NEW c, c = proc'[q].ch
        PROVE  doc'[<<"guide", c>>].by = q
    <2>1. proc'[q] = proc[q]
      BY OthersStay
    <2>2. At(q, "commit") /\ c = proc[q].ch /\ c \in Channels
      BY <1>2, <2>1 DEF At, TypeOK, AtChannel
    <2>3. lock[c] = q
      BY <2>2 DEF Locked, In, At, InStore
    <2>4. ~((OpenFile(p) \/ FillFile(p)) /\ Target(p) = <<"guide", c>>)
      BY <2>2, <2>3, AtTheGuide
    <2>5. doc'[<<"guide", c>>] = doc[<<"guide", c>>]
      BY <1>0, <2>2, <2>4
    <2>. QED  BY <2>2, <2>5 DEF GuideNotBehind
  <1>3. ASSUME At(p, "commit")', NEW c, c = proc'[p].ch
        PROVE  doc'[<<"guide", c>>].by = p
    <2>1. CASE FillFile(p)
      <3>1. proc[p].pc = "guide" /\ proc[p].ch = c
        BY <1>3, <2>1, Filling DEF At, Writing, After
      <3>2. Target(p) = <<"guide", c>>
        BY <3>1, Targets DEF Writing
      <3>. QED  BY <2>1, <3>2, Filled
    <2>2. CASE OpenFile(p) \/ WriteFails(p) \/ Crash(p)
      BY <1>3, <2>2, Opening, Failing, Dying DEF At, Writing
    <2>3. CASE \E d \in Channels : Touch(p, d) \/ ResolveFails(p, d) \/ OpenStore(p, d)
      <3>1. PICK d \in Channels : Touch(p, d) \/ ResolveFails(p, d) \/ OpenStore(p, d)
        BY <2>3
      <3>. QED  BY <1>3, <3>1, TakesUp DEF At
    <2>4. CASE Unlink(p) \/ Commit(p) \/ CommitFails(p) \/ Look(p) \/ Stat(p) \/ WriteDay(p)
      BY <1>3, <2>4, LeavesIt, Within DEF At
    <2>5. CASE RunStep(p)
      BY <1>3, <2>5, Starting, Between, Reading, Sweeping DEF RunStep, At
    <2>. QED
      BY <2>1, <2>2, <2>3, <2>4, <2>5 DEF Step, ChannelStep, FileStep
  <1>4. ASSUME NEW r \in Procs, NEW c \in Staged(r, {"ok"})'
        PROVE  NotBehind(c, r, doc[<<"guide", c>>].by)'
    <2>1. c \in Channels /\ proc'[r].stage[c] = "ok"
      BY <1>4 DEF Staged
    <2>2. PICK q : q = doc'[<<"guide", c>>].by
      OBVIOUS
    <2>3. NotBehind(c, r, q)'
      BY <1>1, <2>1, <2>2
    <2>. QED  BY <2>2, <2>3 DEF NotBehind, Later
  <1>. QED  BY <1>2, <1>3, <1>4 DEF GuideNotBehind

LEMMA MergeStays ==
    ASSUME TypeOK, Pending, Logged, GuideNotBehind, MergeReads, NEW p \in Procs, Step(p)
    PROVE  MergeReads'
  <1> DEFINE Read(q) ==
        proc[q].pc \in {"merge", "epg"} =>
           \A c \in Staged(q, {"ok"}) \ proc[q].left : NotBehind(c, q, proc[q].got[c])
  <1> DEFINE Left(q) == /\ proc[q].pc = "merge" => proc[q].left \subseteq Staged(q, {"ok"})
                        /\ proc[q].pc = "epg" => proc[q].left = {}
  <1>1. ASSUME NEW q \in Procs, proc'[q].pc \in {"merge", "epg"},
               proc[q].pc \in {"merge", "epg"}, proc'[q].stage = proc[q].stage,
               NEW c \in Channels, proc[q].stage[c] = "ok", c \notin proc[q].left,
               NEW g, g = proc[q].got[c]
        PROVE  NotBehind(c, q, g)'
    <2>1. NotBehind(c, q, g)
      BY <1>1 DEF MergeReads, Staged
    <2>. QED  BY <1>1, <2>1, NotBehindStays
  <1>2. ASSUME NEW q \in Procs, proc'[q].pc \in {"merge", "epg"},
               proc[q].pc \in {"merge", "epg"}, proc'[q].stage = proc[q].stage,
               proc'[q].left = proc[q].left, proc'[q].got = proc[q].got,
               proc'[q].pc = proc[q].pc
        PROVE  Read(q)' /\ Left(q)'
    <2>1. ASSUME NEW c \in Channels, proc'[q].stage[c] = "ok", c \notin proc'[q].left
          PROVE  NotBehind(c, q, proc[q].got[c])'
      <3>1. PICK g : g = proc[q].got[c]
        OBVIOUS
      <3>2. NotBehind(c, q, g)'
        BY <1>1, <1>2, <2>1, <3>1
      <3>. QED  BY <1>2, <3>1, <3>2 DEF NotBehind, Later
    <2>2. Read(q)'
      BY <2>1 DEF Staged
    <2>3. Left(q)'
      BY <1>2 DEF MergeReads, Staged
    <2>. QED  BY <2>2, <2>3
  <1>3. ASSUME NEW q \in Procs \ {p} PROVE Read(q)' /\ Left(q)'
    <2>1. proc'[q] = proc[q]
      BY OthersStay
    <2>2. CASE proc[q].pc \in {"merge", "epg"}
      BY <1>2, <2>1, <2>2
    <2>3. CASE proc[q].pc \notin {"merge", "epg"}
      BY <2>1, <2>3
    <2>. QED  BY <2>2, <2>3
  <1>4. Read(p)' /\ Left(p)'
    <2>1. CASE proc'[p].pc \notin {"merge", "epg"}
      BY <2>1
    <2>2. CASE proc'[p].pc \in {"merge", "epg"} /\ (OpenFile(p) \/ Crash(p))
      <3>1. /\ proc'[p].pc = proc[p].pc /\ proc'[p].stage = proc[p].stage
            /\ proc'[p].left = proc[p].left /\ proc'[p].got = proc[p].got
        BY <2>2, Opening, Dying DEF Keeps
      <3>. QED  BY <1>2, <2>2, <3>1
    <2>3. CASE proc'[p].pc \in {"merge", "epg"} /\ ReadGuide(p)
      <3>1. PICK c \in proc[p].left :
               /\ proc'[p].left = proc[p].left \ {c}
               /\ proc'[p].got = [proc[p].got EXCEPT ![c] = doc[<<"guide", c>>].by]
               /\ proc'[p].pc = IF proc'[p].left = {} THEN "epg" ELSE "merge"
        BY <2>3, Reading
      <3>2. /\ proc[p].pc = "merge" /\ proc'[p].stage = proc[p].stage
            /\ proc[p].left \subseteq Staged(p, {"ok"})
            /\ proc[p].got \in [Channels -> Procs \cup {Nobody}]
        BY <2>3, Reading DEF MergeReads, TypeOK, ProcType
      <3>3. ASSUME NEW d \in Channels, proc'[p].stage[d] = "ok", d \notin proc'[p].left,
                   NEW g, g = proc'[p].got[d]
            PROVE  NotBehind(d, p, g)'
        <4>1. CASE d = c
          <5>1. g = doc[<<"guide", d>>].by
            BY <3>1, <3>2, <3>3, <4>1
          <5>2. NotBehind(d, p, g)
            BY <3>2, <3>3, <5>1 DEF GuideNotBehind, Staged
          <5>. QED  BY <3>2, <3>3, <5>2, NotBehindStays
        <4>2. CASE d # c
          BY <1>1, <2>3, <3>1, <3>2, <3>3, <4>2
        <4>. QED  BY <4>1, <4>2
      <3>4. Read(p)'
        BY <3>3 DEF Staged, NotBehind, Later
      <3>5. Left(p)'
        BY <3>1, <3>2 DEF Staged
      <3>. QED  BY <3>4, <3>5
    <2>4. CASE /\ proc'[p].pc \in {"merge", "epg"}
               /\ Abort(p) \/ EndOfChannels(p) \/ GcStat(p) \/ GcEnds(p)
      <3>1. proc'[p].pc = "merge" /\ proc'[p].left = Staged(p, {"ok"})
            /\ proc'[p].stage = proc[p].stage
        BY <2>4, Between
      <3>. QED  BY <3>1 DEF Staged
    <2>5. CASE Start(p) \/ GcUnlink(p) \/ WriteFails(p)
      BY <2>1, <2>5, Starting, Sweeping, Failing
    <2>6. CASE FillFile(p)
      <3>1. proc'[p].pc \notin {"merge", "epg"}
        BY <2>6, Filling DEF Writing, After
      <3>. QED  BY <2>1, <3>1
    <2>7. CASE ChannelStep(p)
      BY <2>1, <2>7, TakesUp, Within, LeavesIt DEF ChannelStep
    <2>. QED
      BY <2>1, <2>2, <2>3, <2>4, <2>5, <2>6, <2>7 DEF Step, RunStep, FileStep
  <1>. QED  BY <1>3, <1>4 DEF MergeReads

\* At epg.xml, and past it.
LEMMA AtTheEpg ==
    ASSUME TypeOK, NEW p \in Procs, proc[p].pc \in Writing, Target(p) = <<"epg">>
    PROVE  proc[p].pc = "epg"
  <1>1. proc[p].pc \notin {"config", "guide"}
    <2>1. ASSUME proc[p].pc \in {"config", "guide"} PROVE FALSE
      <3>1. Target(p) = <<proc[p].pc, proc[p].ch>>
        BY <2>1, Targets
      <3>2. Len(<<proc[p].pc, proc[p].ch>>) = 2 /\ Len(<<"epg">>) = 1
        OBVIOUS
      <3>. QED  BY <3>1, <3>2
    <2>. QED  BY <2>1
  <1>. QED  BY <1>1 DEF Target, Writing

PastChannels == {"epg", "lineup", "gc", "unlink", "marker"} \cup Over

LEMMA StaysPast ==
    ASSUME TypeOK, NEW p \in Procs, Step(p), proc[p].pc \in PastChannels
    PROVE  proc'[p].pc \in PastChannels /\ proc'[p].stage = proc[p].stage
  <1>1. CASE ChannelStep(p) \/ Start(p) \/ ReadGuide(p)
    BY <1>1, TakesUp, Within, LeavesIt, Starting, Reading DEF ChannelStep, PastChannels, Over
  <1>2. CASE Abort(p) \/ EndOfChannels(p) \/ GcStat(p) \/ GcEnds(p)
    BY <1>2, Between DEF PastChannels, Over
  <1>3. CASE GcUnlink(p) \/ OpenFile(p) \/ Crash(p)
    BY <1>3, Sweeping, Opening, Dying DEF PastChannels
  <1>4. CASE FillFile(p)
    <2>1. After[proc[p].pc] \in PastChannels
      BY <1>4, Filling DEF PastChannels, Writing, After, Over
    <2>. QED  BY <1>4, <2>1, Filling
  <1>5. CASE WriteFails(p)
    BY <1>5, Failing DEF PastChannels, Over
  <1>. QED
    BY <1>1, <1>2, <1>3, <1>4, <1>5 DEF Step, RunStep, FileStep

\* Who fills epg.xml writes what it has read.
LEMMA EpgMoves ==
    ASSUME TypeOK, NEW p \in Procs, Step(p)
    PROVE  /\ <<"epg">> \in Docs
           /\ \/ /\ doc'[<<"epg">>] = doc[<<"epg">>]
                 /\ UNCHANGED merged
              \/ /\ OpenFile(p) /\ proc[p].pc = "epg"
                 /\ doc'[<<"epg">>].by = p /\ ~doc'[<<"epg">>].whole
                 /\ UNCHANGED merged
              \/ /\ FillFile(p) /\ proc[p].pc = "epg"
                 /\ doc'[<<"epg">>].by = p /\ merged' = proc[p].got
  <1>1. <<"epg">> \in Docs
    BY DEF Docs
  <1>2. CASE OpenFile(p)
    <2>1. UNCHANGED merged
      BY <1>2 DEF OpenFile
    <2>2. CASE Target(p) = <<"epg">>
      BY <1>1, <1>2, <2>1, <2>2, AtTheEpg, Opened, Opening
    <2>3. CASE Target(p) # <<"epg">>
      BY <1>1, <1>2, <2>1, <2>3, Opened
    <2>. QED  BY <2>2, <2>3
  <1>3. CASE FillFile(p)
    <2>1. proc[p].up
      BY <1>3 DEF FillFile, In
    <2>2. CASE Target(p) = <<"epg">>
      <3>1. proc[p].pc = "epg"
        BY <1>3, <2>2, AtTheEpg, Filling
      <3>2. merged' = proc[p].got
        BY <1>3, <2>1, <3>1 DEF FillFile, At
      <3>. QED  BY <1>1, <1>3, <2>2, <3>1, <3>2, Filled
    <2>3. CASE Target(p) # <<"epg">>
      <3>1. proc[p].pc # "epg"
        BY <2>3 DEF Target
      <3>2. UNCHANGED merged
        BY <1>3, <3>1 DEF FillFile, At
      <3>. QED  BY <1>1, <1>3, <2>3, <3>2, Filled
    <2>. QED  BY <2>2, <2>3
  <1>4. CASE UNCHANGED <<doc, merged>>
    BY <1>1, <1>4
  <1>5. CASE \E c \in Channels : Touch(p, c) \/ ResolveFails(p, c) \/ OpenStore(p, c)
    BY <1>1, <1>5, TakesUp
  <1>. QED
    BY <1>2, <1>3, <1>4, <1>5, Within, LeavesIt, Between
       DEF Step, ChannelStep, RunStep, FileStep, Start, ReadGuide, GcUnlink, Crash,
           WriteFails, files

LEMMA EpgStays ==
    ASSUME TypeOK, Pending, Logged, MergeReads, EpgWriter, EpgNotBehindItsRun,
           NEW p \in Procs, Step(p)
    PROVE  EpgWriter' /\ EpgNotBehindItsRun'
  <1> DEFINE epg == <<"epg">>
  <1> DEFINE by == doc'[epg].by
  <1>1. EpgWriter'
    <2>1. SUFFICES ASSUME NEW r \in Procs, r = by PROVE proc'[r].pc \in PastChannels
      BY DEF EpgWriter, PastChannels
    <2>2. CASE doc'[epg] = doc[epg]
      <3>1. proc[r].pc \in PastChannels
        BY <2>1, <2>2 DEF EpgWriter, PastChannels
      <3>. QED  BY <3>1, StaysPast, OthersStay
    <2>3. CASE proc[p].pc = "epg" /\ by = p
      BY <2>1, <2>3, StaysPast DEF PastChannels
    <2>. QED  BY <2>2, <2>3, EpgMoves
  <1>2. ASSUME NEW r, r = by, r # Nobody, doc'[epg].whole, ~doc'[epg].shared,
               NEW c \in Channels, proc'[r].stage[c] = "ok", NEW m, m = merged'[c]
        PROVE  m = r \/ (m # Nobody /\ Later(c, r, m)')
    <2>1. CASE doc'[epg] = doc[epg] /\ UNCHANGED merged
      <3>1. r \in Procs /\ proc[r].pc \in PastChannels
        BY <1>2, <2>1, EpgMoves DEF TypeOK, EpgWriter, PastChannels
      <3>2. proc[r].stage[c] = "ok"
        BY <1>2, <3>1, StaysPast, OthersStay
      <3>3. m = r \/ (m # Nobody /\ Later(c, r, m))
        BY <1>2, <2>1, <3>2 DEF EpgNotBehindItsRun, Staged
      <3>4. m \in Procs \cup {Nobody}
        BY <1>2, <2>1 DEF TypeOK
      <3>. QED  BY <3>1, <3>2, <3>3, <3>4, LaterStays
    <2>2. CASE proc[p].pc = "epg" /\ by = p /\ merged' = proc[p].got
      <3>1. r = p /\ proc[p].stage[c] = "ok" /\ proc[p].left = {}
        BY <1>2, <2>2, StaysPast DEF PastChannels, MergeReads
      <3>2. NotBehind(c, p, m)
        BY <1>2, <2>2, <3>1 DEF MergeReads, Staged
      <3>3. NotBehind(c, p, m)'
        BY <3>1, <3>2, NotBehindStays
      <3>. QED  BY <3>1, <3>3, PublishAssumption DEF NotBehind
    <2>. QED  BY <1>2, <2>1, <2>2, EpgMoves
  <1>3. EpgNotBehindItsRun'
    <2>1. SUFFICES ASSUME NEW r, r = by, r # Nobody, doc'[epg].whole, ~doc'[epg].shared,
                          NEW c \in Channels, proc'[r].stage[c] = "ok"
                   PROVE  \/ merged'[c] = r
                          \/ merged'[c] # Nobody /\ Later(c, r, merged[c])'
      BY DEF EpgNotBehindItsRun, Staged, Later
    <2>2. PICK m : m = merged'[c]
      OBVIOUS
    <2>3. m = r \/ (m # Nobody /\ Later(c, r, m)')
      BY <1>2, <2>1, <2>2
    <2>. QED  BY <2>2, <2>3 DEF Later
  <1>. QED  BY <1>1, <1>3

-----------------------------------------------------------------------------
(* The theorems. *)

IInv == /\ Locked /\ Pending /\ Authors /\ ConfigIsOut /\ DayIsOut /\ Logged
        /\ GuideNotBehind /\ MergeReads /\ EpgWriter
        /\ TornHasACause /\ DoneHasItsDay /\ EpgNotBehindItsRun

LEMMA InitIInv == Init => IInv
  <1> SUFFICES ASSUME Init PROVE IInv
    OBVIOUS
  <1>1. ASSUME NEW p \in Procs
        PROVE  proc[p].pc = "idle" /\ ~proc[p].open
               /\ \A c \in Channels : proc[p].stage[c] = "none"
    BY DEF Init
  <1>2. ASSUME NEW d \in Docs
        PROVE  doc[d].whole /\ ~doc[d].shared /\ doc[d].by = Nobody
    BY DEF Init
  <1>3. \A c \in Channels : DOMAIN rows[c] = {}
    BY DEF Init
  <1>4. Locked /\ Pending /\ ConfigIsOut /\ DayIsOut
    BY <1>1 DEF Locked, Pending, ConfigIsOut, DayIsOut, In, InStore
  <1>5. Authors /\ TornHasACause
    BY <1>2 DEF Authors, TornHasACause
  <1>6. Logged
    BY <1>1, <1>3 DEF Logged
  <1>7. GuideNotBehind /\ MergeReads /\ DoneHasItsDay
    BY <1>1 DEF GuideNotBehind, MergeReads, DoneHasItsDay, Staged, At
  <1>8. EpgWriter /\ EpgNotBehindItsRun
    <2>1. <<"epg">> \in Docs
      BY DEF Docs
    <2>. QED  BY <1>2, <2>1, PublishAssumption DEF EpgWriter, EpgNotBehindItsRun
  <1>. QED  BY <1>4, <1>5, <1>6, <1>7, <1>8 DEF IInv

LEMMA StepIInv ==
    ASSUME TypeOK, IInv, NEW p \in Procs, Step(p)
    PROVE  IInv'
  BY LockedStays, PendingStays, AuthorsStay, ConfigStays, DayIsOutStays, LoggedStays,
     GuideStays, MergeStays, EpgStays, TornStays, DoneStays DEF IInv

LEMMA StillIInv == IInv /\ UNCHANGED vars => IInv'
  BY DEF IInv, vars, files, stores, Locked, Pending, Authors, ConfigIsOut, DayIsOut, Logged,
     GuideNotBehind, MergeReads, EpgWriter, TornHasACause, DoneHasItsDay,
     EpgNotBehindItsRun, In, At, Staged, NotBehind, Later, HasOpen, Target, Published, Swept

LEMMA Invariance == Spec => [](TypeOK /\ IInv)
  <1>1. TypeOK /\ IInv /\ [Next]_vars => IInv'
    BY StepIInv, StillIInv DEF Next, Step
  <1>. QED  BY InitIInv, <1>1, TypeCorrect, PTL DEF Spec

\* A torn file is one its writer is in now, died in or failed to write, or a
\* common one that two wrote at once.
THEOREM TornFilesExplained == Spec => []TornHasACause
  <1>1. IInv => TornHasACause
    BY DEF IInv
  <1>. QED  BY <1>1, Invariance, PTL

\* A channel reported done has a file that is not old, but for a collection.
THEOREM DoneDaysAreThere == Spec => []DoneHasItsDay
  <1>1. IInv => DoneHasItsDay
    BY DEF IInv
  <1>. QED  BY <1>1, Invariance, PTL

\* epg.xml shows no guide older than that of the run that wrote it.
THEOREM EpgIsCurrent == Spec => []EpgNotBehindItsRun
  <1>1. IInv => EpgNotBehindItsRun
    BY DEF IInv
  <1>. QED  BY <1>1, Invariance, PTL

\* Only another process's write makes a merge fail.
THEOREM MergesFailByOthers == Spec => OnlyAnotherTripsTheMerge
  <1> DEFINE Trips(p) == At(p, "merge") /\ At(p, "aborted")'
  <1> DEFINE Torn(p) == \E c \in proc[p].left : /\ ~doc[<<"guide", c>>].whole
                                                /\ doc[<<"guide", c>>].by # p
  <1>1. ASSUME TypeOK, IInv, NEW p \in Procs, Step(p), NEW q \in Procs, Trips(q)
        PROVE  Torn(q)
    <2>1. q = p
      <3>1. q # p => proc'[q] = proc[q]
        BY <1>1, OthersStay
      <3>. QED  BY <1>1, <3>1 DEF At
    <2>2. ReadGuide(p)
      BY ZenonT(60), <1>1, <2>1, TakesUp, Within, LeavesIt, Between, Starting, Sweeping, Opening,
         Filling, Failing, Dying
         DEF Step, ChannelStep, RunStep, FileStep, At, Writing
    <2>3. PICK c \in proc[p].left : ~doc[<<"guide", c>>].whole
      BY <1>1, <2>1, <2>2, Reading DEF At
    <2>4. c \in Staged(p, {"ok"}) /\ proc[p].pc = "merge"
      BY <1>1, <2>1, <2>3 DEF IInv, MergeReads, At
    <2>5. PICK d \in Docs : d = <<"guide", c>>
      BY <2>4 DEF Docs, Staged
    <2>6. d \in {"config", "guide"} \X Channels /\ d[2] = c /\ d \notin Common
      BY <2>4, <2>5, NotCommon DEF Staged
    <2>7. ~HasOpen(p, d) /\ Published(p, c)
      BY <2>4 DEF HasOpen, Published, Staged, Writing
    <2>8. doc[d].by # p
      BY <1>1, <2>3, <2>5, <2>6, <2>7 DEF IInv, TornHasACause, Common
    <2>. QED  BY <2>1, <2>3, <2>5, <2>8
  <1>2. TypeOK /\ IInv /\ [Next]_vars => [\A p \in Procs : Trips(p) => Torn(p)]_vars
    BY <1>1 DEF Next, Step
  <1>. QED  BY <1>2, Invariance, PTL DEF Spec, OnlyAnotherTripsTheMerge

=============================================================================

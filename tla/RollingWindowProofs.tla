------------------------ MODULE RollingWindowProofs ------------------------
(***************************************************************************)
(* Any number of runs, processes, channels and days: what a run may count  *)
(* on while others run.                                                    *)
(***************************************************************************)
EXTENDS RollingWindow, TLAPS

-----------------------------------------------------------------------------
(* The invariant. *)

\* The stages between start_run and the commit.
InStore == {"days", "expand", "guide", "commit"}

\* Whoever is in a channel's store has its write lock.
Locked ==
    \A r \in Runs, c \in Channels : task[r][c].stage \in InStore => lock[c] = r

\* A day is taken while one is left, and what is at its place then stays out
\* of date, or missing, until it is written.
DayTaken ==
    \A r \in Runs, c \in Channels :
        At(r, c, "expand") =>
            /\ task[r][c].next < WindowDays
            /\ task[r][c].existing = {} => Existing(r, c) = {}
            /\ run[r].force \/ \A f \in task[r][c].existing : ~Fresh(f)

\* Nothing is known of a run before it starts, or dated later than now.
Dated ==
    /\ \A r \in Runs : run[r].start <= now
    /\ \A c \in Channels : guide[c].at <= now
    /\ \A r \in Runs : run[r].pc = "idle" =>
          /\ \A c \in Channels : task[r][c].stage = "none"
          /\ \A c \in Channels : \A row \in rows[c] : row.by # r

\* Where a channel is past its files, they are out.
Done(r, c) ==
    \/ At(r, c, "ok")
    \/ At(r, c, "commit") /\ task[r][c].outcome = "ok"

FilesOut ==
    \A r \in Runs, c \in Channels :
        /\ At(r, c, "guide") \/ Done(r, c) => c \in configured
        /\ Done(r, c) => guide[c].at >= run[r].start
        /\ At(r, c, "commit") => task[r][c].outcome # "none"

\* What has ended in its store is logged there.
Logged ==
    \A r \in Runs, c \in Channels :
        task[r][c].stage \in {"ok", "error"} =>
            [by |-> r, outcome |-> task[r][c].stage] \in rows[c]

\* The end of a run begins when every channel has come to one.
EndIsLast ==
    /\ \A r \in Runs : run[r].pc \in {"lineup", "gc", "marker", "done"} =>
          \A c \in Channels : task[r][c].stage \in Ended \cup {"none"}
    /\ \A r \in markers : run[r].pc = "done"

IInv == /\ Locked /\ DayTaken /\ Dated /\ FilesOut /\ Logged /\ EndIsLast
        /\ ListedIsPublished /\ StoreNeverAhead

-----------------------------------------------------------------------------
(* Types. *)

StageNames == {"none", "queued", "resolving"} \cup Synchronous \cup Ended \cup Lost

LEMMA Tasks ==
    ASSUME TypeOK, NEW r \in Runs, NEW c \in Channels
    PROVE  /\ task[r][c] \in TaskType
           /\ task[r][c] = [stage |-> task[r][c].stage, next |-> task[r][c].next,
                            existing |-> task[r][c].existing,
                            wrote |-> task[r][c].wrote,
                            outcome |-> task[r][c].outcome]
  BY DEF TypeOK, TaskType

LEMMA Coroutines ==
    ASSUME NEW stage \in StageNames
    PROVE  Coroutine(stage) \in TaskType
  BY RollingWindowAssumption DEF Coroutine, TaskType, StageNames

LEMMA Moves ==
    ASSUME NEW t \in TaskType, NEW stage \in StageNames
    PROVE  [t EXCEPT !.stage = stage] \in TaskType
  BY DEF TaskType, StageNames

LEMMA Takes ==
    ASSUME NEW t \in TaskType, NEW stage \in StageNames, NEW e \in SUBSET FileType
    PROVE  [t EXCEPT !.stage = stage, !.existing = e] \in TaskType
  BY DEF TaskType, StageNames

LEMMA Ends ==
    ASSUME NEW t \in TaskType, NEW o \in {"ok", "error"}
    PROVE  /\ [t EXCEPT !.stage = "commit", !.outcome = o] \in TaskType
           /\ [t EXCEPT !.stage = "commit", !.outcome = o, !.existing = {}] \in TaskType
  BY DEF TaskType, Synchronous

LEMMA Writes ==
    ASSUME NEW t \in TaskType, NEW n \in 0 .. WindowDays, NEW d \in Nat
    PROVE  [t EXCEPT !.stage = "days", !.next = n, !.existing = {},
                     !.wrote = @ \cup {d}] \in TaskType
  BY DEF TaskType, Synchronous

\* One channel of one run changes.
LEMMA TaskFrame ==
    ASSUME TypeOK, NEW r \in Runs, NEW c \in Channels, NEW t \in TaskType,
           Becomes(r, c, t)
    PROVE  /\ task' \in [Runs -> [Channels -> TaskType]]
           /\ task'[r][c] = t
           /\ \A s \in Runs, d \in Channels :
                 s # r \/ d # c => task'[s][d] = task[s][d]
  BY DEF TypeOK, Becomes

LEMMA Days ==
    ASSUME TypeOK
    PROVE  /\ Today \in Nat
           /\ \A r \in Runs, c \in Channels : Day(r, c) \in Nat
  <1>1. now \in Nat /\ TicksPerDay \in Nat \ {0}
    BY RollingWindowAssumption DEF TypeOK
  <1>2. Today \in Nat
    BY <1>1, SMTT(30) DEF Today
  <1>3. ASSUME NEW r \in Runs, NEW c \in Channels PROVE Day(r, c) \in Nat
    <2>1. run[r].first \in Nat /\ task[r][c].next \in Nat
      BY Tasks, RollingWindowAssumption DEF TypeOK, RunType, TaskType
    <2>. QED  BY <2>1 DEF Day
  <1>. QED  BY <1>2, <1>3

LEMMA ChannelTypes ==
    ASSUME TypeOK, DayTaken, FilesOut,
           NEW r \in Runs, NEW c \in Channels, ChannelStep(r, c)
    PROVE  TypeOK'
  <1> DEFINE old == task[r][c]
  <1>1. old \in TaskType
    BY Tasks
  <1>2. ASSUME NEW t \in TaskType, Becomes(r, c, t),
               UNCHANGED <<now, files, published, lock, rows, markers, run>>
        PROVE  TypeOK'
    BY <1>2, TaskFrame DEF TypeOK, published
  <1>3. ASSUME NEW stage \in StageNames PROVE [old EXCEPT !.stage = stage] \in TaskType
    BY <1>1, Moves
  <1>4. CASE Plan(r, c) \/ Resolve(r, c) \/ StoreFails(r, c)
    <2>1. PICK stage \in {"resolving", "failed", "opening", "raised"} : Move(r, c, stage)
      BY <1>4 DEF Plan, Resolve, StoreFails
    <2>2. stage \in StageNames
      BY DEF StageNames, Synchronous, Ended, Lost
    <2>. QED
      BY <1>2, <1>3, <1>4, <2>1, <2>2 DEF Plan, Resolve, StoreFails, Move
  <1>5. CASE SkipDay(r, c)
    <2>1. [old EXCEPT !.next = @ + 1] \in TaskType
      BY <1>1, <1>5, RollingWindowAssumption DEF SkipDay, TaskType
    <2>. QED  BY <1>2, <1>5, <2>1 DEF SkipDay
  <1>6. CASE TakeDay(r, c)
    <2>1. PICK e \in IF Existing(r, c) = {} THEN {{}} ELSE {{f} : f \in Existing(r, c)} :
             Becomes(r, c, [old EXCEPT !.stage = "expand", !.existing = e])
      BY <1>6 DEF TakeDay
    <2>2. Existing(r, c) \subseteq FileType
      BY DEF Existing, TypeOK
    <2>3. e \in SUBSET FileType
      BY <2>1, <2>2
    <2>4. [old EXCEPT !.stage = "expand", !.existing = e] \in TaskType
      BY <1>1, <2>3, Takes DEF StageNames, Synchronous
    <2>. QED  BY <1>2, <1>6, <2>1, <2>4 DEF TakeDay
  <1>7. CASE ChannelFails(r, c)
    <2>1. [old EXCEPT !.stage = "commit", !.outcome = "error", !.existing = {}] \in TaskType
      BY <1>1, Ends
    <2>. QED  BY <1>2, <1>7, <2>1 DEF ChannelFails
  <1>8. CASE OpenStore(r, c)
    <2>1. task' \in [Runs -> [Channels -> TaskType]]
      BY <1>3, <1>8, TaskFrame DEF OpenStore, Move, StageNames, Synchronous
    <2>2. lock' \in [Channels -> Runs \cup {NoRun}]
      BY <1>8 DEF OpenStore, TypeOK
    <2>. QED  BY <1>8, <2>1, <2>2 DEF OpenStore, TypeOK, published
  <1>9. CASE WriteDay(r, c)
    <2>1. old.next + 1 \in 0 .. WindowDays
      BY <1>1, <1>9, RollingWindowAssumption DEF WriteDay, DayTaken, TaskType, At
    <2>2. Day(r, c) \in Nat
      BY Days
    <2>3. task' \in [Runs -> [Channels -> TaskType]]
      <3> DEFINE t == [old EXCEPT !.stage = "days", !.next = old.next + 1,
                                  !.existing = {}, !.wrote = @ \cup {Day(r, c)}]
      <3>1. t \in TaskType
        BY <1>1, <2>1, <2>2, Writes
      <3>2. Becomes(r, c, t)
        BY <1>9 DEF WriteDay
      <3>. QED  BY <3>1, <3>2, TaskFrame
    <2>4. PICK name \in Names :
             LET new == [day |-> Day(r, c), early |-> name.early,
                         tail |-> name.tail, mtime |-> now]
             IN  files' = [files EXCEPT ![c] =
                             {f \in @ : ~SameName(f, new)} \cup {new}]
      BY <1>9 DEF WriteDay
    <2>5. [day |-> Day(r, c), early |-> name.early, tail |-> name.tail,
           mtime |-> now] \in FileType
      <3>1. name \in [early : BOOLEAN, tail : STRING] /\ now \in Nat
        BY RollingWindowAssumption DEF TypeOK
      <3>. QED  BY <2>2, <3>1 DEF FileType
    <2>6. files' \in [Channels -> SUBSET FileType]
      BY <2>4, <2>5 DEF TypeOK
    <2>. QED  BY <1>9, <2>3, <2>6 DEF WriteDay, TypeOK, published
  <1>10. CASE WriteConfig(r, c)
    <2>1. task' \in [Runs -> [Channels -> TaskType]]
      BY <1>3, <1>10, TaskFrame DEF WriteConfig, Move, StageNames, Synchronous
    <2>. QED  BY <1>10, <2>1 DEF WriteConfig, TypeOK
  <1>11. CASE WriteGuide(r, c)
    <2>1. task' \in [Runs -> [Channels -> TaskType]]
      BY <1>1, <1>11, Ends, TaskFrame DEF WriteGuide
    <2>2. guide' \in [Channels -> [days : SUBSET Nat, at : Nat \cup {-1},
                                  since : Nat \cup {-1}]]
      BY <1>1, <1>11, RollingWindowAssumption
         DEF WriteGuide, TypeOK, TaskType, RunType
    <2>. QED  BY <1>11, <2>1, <2>2 DEF WriteGuide, TypeOK
  <1>12. CASE Commit(r, c)
    <2>1. old.outcome \in {"ok", "error"}
      BY <1>1, <1>12 DEF Commit, FilesOut, TaskType
    <2>2. Coroutine(old.outcome) \in TaskType
      BY <2>1, Coroutines DEF StageNames, Ended
    <2>3. task' \in [Runs -> [Channels -> TaskType]]
      BY <1>12, <2>2, TaskFrame DEF Commit
    <2>4. rows' \in [Channels -> SUBSET [by : Runs, outcome : {"ok", "error"}]]
      BY <1>12, <2>1 DEF Commit, TypeOK
    <2>5. lock' \in [Channels -> Runs \cup {NoRun}]
      BY <1>12 DEF Commit, TypeOK
    <2>. QED  BY <1>12, <2>3, <2>4, <2>5 DEF Commit, TypeOK, published
  <1>13. CASE CommitFails(r, c)
    <2>1. Coroutine("raised") \in TaskType
      BY Coroutines DEF StageNames, Lost
    <2>2. task' \in [Runs -> [Channels -> TaskType]]
      BY <1>13, <2>1, TaskFrame DEF CommitFails
    <2>3. lock' \in [Channels -> Runs \cup {NoRun}]
      BY <1>13 DEF CommitFails, TypeOK
    <2>. QED  BY <1>13, <2>2, <2>3 DEF CommitFails, TypeOK, published
  <1>. QED  BY <1>4, <1>5, <1>6, <1>7, <1>8, <1>9, <1>10, <1>11, <1>12, <1>13
            DEF ChannelStep

LEMMA GotoTypes ==
    ASSUME TypeOK, NEW r \in Runs,
           NEW pc \in {"lineup", "gc", "marker", "done", "aborted", "crashed"}, Goto(r, pc)
    PROVE  run' \in [Runs -> RunType]
  BY DEF TypeOK, Goto, RunType

LEMMA StartTypes ==
    ASSUME TypeOK, NEW r \in Runs, NEW by \in {"daemon", "cli"}, NEW force \in BOOLEAN,
           NEW day \in Nat, NEW targets, StartTasks(r, by, force, day, targets)
    PROVE  TypeOK'
  <1>1. now \in Nat
    BY RollingWindowAssumption DEF TypeOK
  <1>2. [pc |-> IF targets = {} THEN "marker" ELSE "tasks", by |-> by,
         force |-> force, first |-> day, start |-> now] \in RunType
    BY <1>1 DEF RunType
  <1>3. run' \in [Runs -> RunType]
    BY <1>2 DEF StartTasks, TypeOK
  <1>4. Coroutine("queued") \in TaskType /\ Coroutine("none") \in TaskType
    BY Coroutines DEF StageNames
  <1>5. task' \in [Runs -> [Channels -> TaskType]]
    BY <1>4 DEF StartTasks, TypeOK
  <1>. QED  BY <1>3, <1>5 DEF StartTasks, TypeOK, published

LEMMA SweepTypes ==
    ASSUME TypeOK, Sweep PROVE files' \in [Channels -> SUBSET FileType]
  BY DEF TypeOK, Sweep

LEMMA RunTypes ==
    ASSUME TypeOK, NEW r \in Runs,
           \/ Abort(r) \/ Merge(r) \/ WriteLineup(r) \/ Gc(r) \/ WriteMarker(r)
           \/ RunFails(r)
    PROVE  TypeOK'
  <1>1. CASE Abort(r)
    <2>1. run' \in [Runs -> RunType]
      BY <1>1, GotoTypes DEF Abort
    <2>2. "cancelled" \in StageNames
      BY DEF StageNames, Lost
    <2>3. task' \in [Runs -> [Channels -> TaskType]]
      <3> DEFINE ended == [c \in Channels |->
                   IF task[r][c].stage \in {"queued", "resolving"}
                   THEN Coroutine("cancelled") ELSE task[r][c]]
      <3>1. ended \in [Channels -> TaskType]
        BY <2>2, Tasks, Coroutines
      <3>2. task' = [task EXCEPT ![r] = ended] \/ task' = task
        BY <1>1 DEF Abort
      <3>. HIDE DEF ended
      <3>. QED  BY <3>1, <3>2 DEF TypeOK
    <2>. QED  BY <1>1, <2>1, <2>3 DEF Abort, TypeOK, published
  <1>2. CASE Merge(r) \/ WriteLineup(r)
    <2>1. run' \in [Runs -> RunType]
      BY <1>2, GotoTypes DEF Merge, WriteLineup
    <2>2. \A stages : Targets(r, stages) \subseteq Channels
      BY DEF Targets
    <2>. QED  BY <1>2, <2>1, <2>2 DEF Merge, WriteLineup, TypeOK
  <1>3. CASE Gc(r)
    <2>1. run' \in [Runs -> RunType]
      BY <1>3, GotoTypes DEF Gc
    <2>. QED  BY <1>3, <2>1, SweepTypes DEF Gc, TypeOK, published
  <1>4. CASE WriteMarker(r) \/ RunFails(r)
    <2>1. run' \in [Runs -> RunType]
      BY <1>4, GotoTypes DEF WriteMarker, RunFails
    <2>. QED  BY <1>4, <2>1 DEF WriteMarker, RunFails, TypeOK, published
  <1>. QED  BY <1>1, <1>2, <1>3, <1>4

LEMMA EnvironmentTypes ==
    ASSUME TypeOK, Environment PROVE TypeOK'
  <1>1. CASE Tick
    BY <1>1, RollingWindowAssumption DEF Tick, TypeOK, published
  <1>2. CASE GcCommand
    BY <1>2, SweepTypes DEF GcCommand, TypeOK, published
  <1>3. ASSUME NEW r \in Runs, ScheduledRun(r) PROVE TypeOK'
    BY <1>3, StartTypes, Days DEF ScheduledRun
  <1>4. ASSUME NEW r \in Runs, OnceCommand(r) PROVE TypeOK'
    <2>1. PICK command \in Commands :
             StartTasks(r, "cli", command.force,
                        IF command.from = NoFrom THEN Today ELSE command.from,
                        command.only)
      BY <1>4 DEF OnceCommand
    <2>2. /\ command.force \in BOOLEAN
          /\ command.from \in Nat \cup {NoFrom}
      BY RollingWindowAssumption
    <2>3. (IF command.from = NoFrom THEN Today ELSE command.from) \in Nat
      BY <2>2, Days
    <2>. QED  BY <2>1, <2>2, <2>3, StartTypes
  <1>5. ASSUME NEW r \in Runs, Stop(r) PROVE TypeOK'
    <2>1. "cancelled" \in StageNames
      BY DEF StageNames, Lost
    <2>2. task' \in [Runs -> [Channels -> TaskType]]
      BY <1>5, <2>1, Tasks, Coroutines DEF Stop
    <2>3. \A s \in Runs : /\ run[s] \in RunType
                          /\ [run[s] EXCEPT !.pc = "aborted"] \in RunType
      BY DEF TypeOK, RunType
    <2>4. run' \in [Runs -> RunType]
      BY <1>5, <2>3 DEF Stop
    <2>. QED  BY <1>5, <2>2, <2>4 DEF Stop, TypeOK, published
  <1>6. ASSUME NEW r \in Runs, Crash(r) PROVE TypeOK'
    <2>1. "dead" \in StageNames
      BY DEF StageNames, Lost
    <2>2. task' \in [Runs -> [Channels -> TaskType]]
      BY <1>6, <2>1, Tasks, Coroutines DEF Crash
    <2>3. \A s \in Runs : /\ run[s] \in RunType
                          /\ [run[s] EXCEPT !.pc = "crashed"] \in RunType
      BY DEF TypeOK, RunType
    <2>4. run' \in [Runs -> RunType]
      BY <1>6, <2>3 DEF Crash
    <2>5. lock' \in [Channels -> Runs \cup {NoRun}]
      BY <1>6 DEF Crash, TypeOK
    <2>. QED  BY <1>6, <2>2, <2>4, <2>5 DEF Crash, TypeOK, published
  <1>. QED  BY <1>1, <1>2, <1>3, <1>4, <1>5, <1>6 DEF Environment

-----------------------------------------------------------------------------
(* The steps of a channel. *)

LEMMA InvInit == Init => TypeOK /\ IInv
  <1> SUFFICES ASSUME Init PROVE TypeOK /\ IInv
    OBVIOUS
  <1>1. NoTask \in TaskType
    BY Coroutines DEF NoTask, StageNames
  <1>2. NoTask.stage = "none"
    BY DEF NoTask, Coroutine
  <1>3. TypeOK
    BY <1>1, RollingWindowAssumption DEF Init, TypeOK, RunType, NoGuide
  <1>4. IInv
    BY <1>2 DEF Init, IInv, Locked, InStore, DayTaken, Dated, Done, FilesOut, Logged,
                EndIsLast, ListedIsPublished, StoreNeverAhead, At, NoGuide
  <1>. QED  BY <1>3, <1>4

\* A step that changes nothing but where a channel is.
LEMMA OnlyMoves ==
    ASSUME TypeOK, IInv, NEW r \in Runs, NEW c \in Channels, NEW t \in TaskType,
           Becomes(r, c, t),
           UNCHANGED <<now, files, published, lock, rows, markers, run>>,
           task[r][c].stage \notin Ended \cup Lost \cup {"none", "commit"},
           t.stage \notin {"none", "guide", "ok", "error"},
           t.stage \in InStore => task[r][c].stage \in InStore,
           t.stage = "commit" => t.outcome = "error",
           t.stage = "expand" =>
              /\ t.next < WindowDays
              /\ t.existing = {} => \A f \in files[c] :
                    ~(f.day = run[r].first + t.next /\ f.early)
              /\ run[r].force \/ \A f \in t.existing : ~Fresh(f)
    PROVE  IInv'
  <1>1. /\ task'[r][c] = t
        /\ \A s \in Runs, d \in Channels :
              s # r \/ d # c => task'[s][d] = task[s][d]
    BY TaskFrame
  <1>2. UNCHANGED <<now, files, guide, configured, epg, lineup, lock, rows, markers, run>>
    BY DEF published
  <1>3. Locked'
    BY <1>1, <1>2 DEF IInv, Locked
  <1>4. DayTaken'
    BY <1>1, <1>2 DEF IInv, DayTaken, At, Existing, Day, Fresh
  <1>5. Dated'
    BY <1>1, <1>2 DEF IInv, Dated
  <1>6. FilesOut'
    BY <1>1, <1>2 DEF IInv, FilesOut, Done, At
  <1>7. Logged'
    BY <1>1, <1>2 DEF IInv, Logged
  <1>8. EndIsLast'
    BY <1>1, <1>2 DEF IInv, EndIsLast
  <1>9. ListedIsPublished' /\ StoreNeverAhead'
    BY <1>2 DEF IInv, ListedIsPublished, StoreNeverAhead
  <1>. QED  BY <1>3, <1>4, <1>5, <1>6, <1>7, <1>8, <1>9 DEF IInv

LEMMA MovesKeep ==
    ASSUME TypeOK, IInv, NEW r \in Runs, NEW c \in Channels,
           \/ Plan(r, c) \/ Resolve(r, c) \/ StoreFails(r, c)
           \/ SkipDay(r, c) \/ TakeDay(r, c) \/ ChannelFails(r, c)
    PROVE  IInv'
  <1> DEFINE old == task[r][c]
  <1>0. old \in TaskType
    BY Tasks
  <1>1. CASE Plan(r, c) \/ Resolve(r, c) \/ StoreFails(r, c)
    <2>1. PICK stage \in {"resolving", "failed", "opening", "raised"} : Move(r, c, stage)
      BY <1>1 DEF Plan, Resolve, StoreFails
    <2> DEFINE t == [old EXCEPT !.stage = stage]
    <2>2. t \in TaskType /\ t.stage = stage
      BY <1>0, Moves DEF StageNames, Synchronous, Ended, Lost, TaskType
    <2>3. Becomes(r, c, t)
      BY <2>1 DEF Move
    <2>4. /\ UNCHANGED <<now, files, published, lock, rows, markers, run>>
          /\ old.stage \in {"queued", "resolving", "opening"}
      BY <1>1 DEF Plan, Resolve, StoreFails, At
    <2> HIDE DEF t
    <2>. QED  BY <2>2, <2>3, <2>4, OnlyMoves DEF Ended, Lost, InStore
  <1>2. CASE SkipDay(r, c)
    <2> DEFINE t == [old EXCEPT !.next = @ + 1]
    <2>1. t \in TaskType /\ t.stage = "days"
      BY <1>0, <1>2, RollingWindowAssumption DEF SkipDay, TaskType, At
    <2>2. Becomes(r, c, t)
      BY <1>2 DEF SkipDay
    <2>3. /\ UNCHANGED <<now, files, published, lock, rows, markers, run>>
          /\ old.stage = "days"
      BY <1>2 DEF SkipDay, At
    <2> HIDE DEF t
    <2>. QED  BY <2>1, <2>2, <2>3, OnlyMoves DEF Ended, Lost, InStore
  <1>3. CASE TakeDay(r, c)
    <2>1. PICK e \in IF Existing(r, c) = {} THEN {{}} ELSE {{f} : f \in Existing(r, c)} :
             /\ \A f \in e : ~Skips(r, c, f)
             /\ Becomes(r, c, [old EXCEPT !.stage = "expand", !.existing = e])
      BY <1>3 DEF TakeDay
    <2> DEFINE t == [old EXCEPT !.stage = "expand", !.existing = e]
    <2>2. e \in SUBSET FileType
      BY <2>1 DEF Existing, TypeOK
    <2>3. t \in TaskType
      BY <1>0, <2>2, Takes DEF StageNames, Synchronous
    <2>4. t.stage = "expand" /\ t.existing = e /\ t.next = old.next
      BY <1>0 DEF TaskType
    <2>5. Becomes(r, c, t)
      BY <2>1
    <2>6. /\ UNCHANGED <<now, files, published, lock, rows, markers, run>>
          /\ old.stage = "days" /\ old.next < WindowDays
      BY <1>3 DEF TakeDay, At
    <2>7. e = {} => Existing(r, c) = {}
      BY <2>1
    <2>8. e = {} => \A f \in files[c] : ~(f.day = run[r].first + t.next /\ f.early)
      BY <2>4, <2>7 DEF Existing, Day
    <2>9. run[r].force \/ \A f \in e : ~Fresh(f)
      BY <2>1 DEF Skips
    <2> HIDE DEF t
    <2>. QED  BY <2>3, <2>4, <2>5, <2>6, <2>8, <2>9, OnlyMoves DEF Ended, Lost, InStore
  <1>4. CASE ChannelFails(r, c)
    <2> DEFINE t == [old EXCEPT !.stage = "commit", !.outcome = "error", !.existing = {}]
    <2>1. t \in TaskType
      BY <1>0, Ends
    <2>2. t.stage = "commit" /\ t.outcome = "error"
      BY <1>0 DEF TaskType
    <2>3. Becomes(r, c, t)
      BY <1>4 DEF ChannelFails
    <2>4. /\ UNCHANGED <<now, files, published, lock, rows, markers, run>>
          /\ old.stage \in {"days", "expand", "guide"}
      BY <1>4 DEF ChannelFails
    <2> HIDE DEF t
    <2>. QED  BY <2>1, <2>2, <2>3, <2>4, OnlyMoves DEF Ended, Lost, InStore
  <1>. QED  BY <1>1, <1>2, <1>3, <1>4

LEMMA OpenKeeps ==
    ASSUME TypeOK, IInv, NEW r \in Runs, NEW c \in Channels, OpenStore(r, c)
    PROVE  IInv'
  <1> DEFINE t == [task[r][c] EXCEPT !.stage = "days"]
  <1>1. t \in TaskType /\ t.stage = "days"
    BY Tasks, Moves DEF StageNames, Synchronous, TaskType
  <1>2. /\ task'[r][c] = t
        /\ \A s \in Runs, d \in Channels :
              s # r \/ d # c => task'[s][d] = task[s][d]
    BY <1>1, TaskFrame DEF OpenStore, Move
  <1>3. /\ UNCHANGED <<now, files, guide, configured, epg, lineup, rows, markers, run>>
        /\ task[r][c].stage = "opening" /\ lock[c] = NoRun
        /\ lock' = [lock EXCEPT ![c] = r]
    BY DEF OpenStore, published, At
  <1> HIDE DEF t
  <1>4. Locked'
    BY <1>1, <1>2, <1>3, RollingWindowAssumption DEF IInv, Locked, TypeOK
  <1>5. DayTaken'
    BY <1>1, <1>2, <1>3 DEF IInv, DayTaken, At, Existing, Day, Fresh
  <1>6. Dated'
    BY <1>1, <1>2, <1>3 DEF IInv, Dated
  <1>7. FilesOut'
    BY <1>1, <1>2, <1>3 DEF IInv, FilesOut, Done, At
  <1>8. Logged'
    BY <1>1, <1>2, <1>3 DEF IInv, Logged
  <1>9. EndIsLast'
    BY <1>1, <1>2, <1>3 DEF IInv, EndIsLast, Ended
  <1>10. ListedIsPublished' /\ StoreNeverAhead'
    BY <1>3 DEF IInv, ListedIsPublished, StoreNeverAhead
  <1>. QED  BY <1>4, <1>5, <1>6, <1>7, <1>8, <1>9, <1>10 DEF IInv

\* Only the holder of a channel's lock touches its files, so nothing that
\* another run has seen there changes.
LEMMA WriteDayKeeps ==
    ASSUME TypeOK, IInv, NEW r \in Runs, NEW c \in Channels, WriteDay(r, c)
    PROVE  IInv'
  <1> DEFINE t == [task[r][c] EXCEPT !.stage = "days", !.next = @ + 1,
                                     !.existing = {}, !.wrote = @ \cup {Day(r, c)}]
  <1>1. t \in TaskType
    <2>1. task[r][c] \in TaskType
      BY Tasks
    <2>2. task[r][c].next + 1 \in 0 .. WindowDays
      BY <2>1, RollingWindowAssumption DEF WriteDay, IInv, DayTaken, TaskType, At
    <2>. QED  BY <2>1, <2>2, Days, Writes
  <1>2. t.stage = "days"
    BY Tasks DEF TaskType
  <1>3. Becomes(r, c, t)
    BY DEF WriteDay
  <1> HIDE DEF t
  <1>4. /\ task'[r][c] = t
        /\ \A s \in Runs, d \in Channels :
              s # r \/ d # c => task'[s][d] = task[s][d]
    BY <1>1, <1>3, TaskFrame
  <1>5. /\ UNCHANGED <<now, guide, configured, epg, lineup, lock, rows, markers, run>>
        /\ task[r][c].stage = "expand"
        /\ \A d \in Channels : d # c => files'[d] = files[d]
    BY DEF WriteDay, published, At, TypeOK
  <1>6. Locked'
    BY <1>2, <1>4, <1>5 DEF IInv, Locked, InStore
  <1>7. DayTaken'
    <2> SUFFICES ASSUME NEW s \in Runs, NEW d \in Channels, At(s, d, "expand")'
                 PROVE  /\ task[s][d].stage = "expand" /\ task'[s][d] = task[s][d]
                        /\ files'[d] = files[d]
      BY <1>5 DEF IInv, DayTaken, At, Existing, Day, Fresh
    <2>1. s # r \/ d # c
      BY <1>2, <1>4 DEF At
    <2>2. task'[s][d] = task[s][d] /\ task[s][d].stage = "expand"
      BY <1>4, <2>1 DEF At
    <2>3. d # c
      BY <1>5, <2>1, <2>2 DEF IInv, Locked, InStore
    <2>. QED  BY <1>5, <2>2, <2>3
  <1>8. Dated'
    BY <1>2, <1>4, <1>5 DEF IInv, Dated
  <1>9. FilesOut'
    BY <1>2, <1>4, <1>5 DEF IInv, FilesOut, Done, At
  <1>10. Logged'
    BY <1>2, <1>4, <1>5 DEF IInv, Logged
  <1>11. EndIsLast'
    BY <1>2, <1>4, <1>5 DEF IInv, EndIsLast, Ended
  <1>12. ListedIsPublished' /\ StoreNeverAhead'
    BY <1>5 DEF IInv, ListedIsPublished, StoreNeverAhead
  <1>. QED  BY <1>6, <1>7, <1>8, <1>9, <1>10, <1>11, <1>12 DEF IInv

LEMMA WriteConfigKeeps ==
    ASSUME TypeOK, IInv, NEW r \in Runs, NEW c \in Channels, WriteConfig(r, c)
    PROVE  IInv'
  <1> DEFINE t == [task[r][c] EXCEPT !.stage = "guide"]
  <1>1. t \in TaskType /\ t.stage = "guide"
    BY Tasks, Moves DEF StageNames, Synchronous, TaskType
  <1>2. /\ task'[r][c] = t
        /\ \A s \in Runs, d \in Channels :
              s # r \/ d # c => task'[s][d] = task[s][d]
    BY <1>1, TaskFrame DEF WriteConfig, Move
  <1>3. /\ UNCHANGED <<now, files, guide, epg, lineup, lock, rows, markers, run>>
        /\ task[r][c].stage = "days"
        /\ configured' = configured \cup {c}
    BY DEF WriteConfig, At
  <1> HIDE DEF t
  <1>4. Locked'
    BY <1>1, <1>2, <1>3 DEF IInv, Locked, InStore
  <1>5. DayTaken'
    BY <1>1, <1>2, <1>3 DEF IInv, DayTaken, At, Existing, Day, Fresh
  <1>6. Dated'
    BY <1>1, <1>2, <1>3 DEF IInv, Dated
  <1>7. FilesOut'
    BY <1>1, <1>2, <1>3 DEF IInv, FilesOut, Done, At
  <1>8. Logged'
    BY <1>1, <1>2, <1>3 DEF IInv, Logged
  <1>9. EndIsLast'
    BY <1>1, <1>2, <1>3 DEF IInv, EndIsLast, Ended
  <1>10. ListedIsPublished' /\ StoreNeverAhead'
    BY <1>3 DEF IInv, ListedIsPublished, StoreNeverAhead
  <1>. QED  BY <1>4, <1>5, <1>6, <1>7, <1>8, <1>9, <1>10 DEF IInv

\* A guide's date never goes back.
LEMMA WriteGuideKeeps ==
    ASSUME TypeOK, IInv, NEW r \in Runs, NEW c \in Channels, WriteGuide(r, c)
    PROVE  IInv'
  <1> DEFINE t == [task[r][c] EXCEPT !.stage = "commit", !.outcome = "ok"]
  <1>1. t \in TaskType
    BY Tasks, Ends
  <1>2. t.stage = "commit" /\ t.outcome = "ok"
    BY Tasks DEF TaskType
  <1>3. Becomes(r, c, t)
    BY DEF WriteGuide
  <1> HIDE DEF t
  <1>4. /\ task'[r][c] = t
        /\ \A s \in Runs, d \in Channels :
              s # r \/ d # c => task'[s][d] = task[s][d]
    BY <1>1, <1>3, TaskFrame
  <1>5. /\ UNCHANGED <<now, files, configured, epg, lineup, lock, rows, markers, run>>
        /\ task[r][c].stage = "guide"
        /\ guide'[c].at = now /\ guide'[c] # NoGuide
        /\ \A d \in Channels : d # c => guide'[d] = guide[d]
    BY RollingWindowAssumption DEF WriteGuide, At, TypeOK, NoGuide
  <1>6. /\ \A d \in Channels : guide'[d].at >= guide[d].at
        /\ \A d \in Channels : guide'[d].at <= now
        /\ \A d \in Channels : guide[d].at \in Int /\ guide'[d].at \in Int
        /\ \A s \in Runs : run[s].start \in Int /\ run[s].start <= now
        /\ now \in Int
    <2>1. /\ now \in Nat
          /\ \A d \in Channels : guide[d].at \in Int
          /\ \A s \in Runs : run[s].start \in Int
      BY RollingWindowAssumption DEF TypeOK, RunType
    <2>2. /\ \A d \in Channels : guide[d].at <= now
          /\ \A s \in Runs : run[s].start <= now
      BY DEF IInv, Dated
    <2>. QED  BY <1>5, <2>1, <2>2
  <1>7. Locked'
    BY <1>2, <1>4, <1>5 DEF IInv, Locked, InStore
  <1>8. DayTaken'
    BY <1>2, <1>4, <1>5 DEF IInv, DayTaken, At, Existing, Day, Fresh
  <1>9. Dated'
    BY <1>2, <1>4, <1>5, <1>6 DEF IInv, Dated
  <1>10. FilesOut'
    BY <1>2, <1>4, <1>5, <1>6 DEF IInv, FilesOut, Done, At
  <1>11. Logged'
    BY <1>2, <1>4, <1>5 DEF IInv, Logged
  <1>12. EndIsLast'
    BY <1>2, <1>4, <1>5 DEF IInv, EndIsLast, Ended
  <1>13. ListedIsPublished'
    BY <1>5 DEF IInv, ListedIsPublished, TypeOK
  <1>14. StoreNeverAhead'
    <2> SUFFICES ASSUME NEW d \in Channels, NEW row \in rows[d], row.outcome = "ok"
                 PROVE  guide'[d].at >= run[row.by].start
      BY <1>5 DEF StoreNeverAhead
    <2>1. guide[d].at >= run[row.by].start /\ row.by \in Runs
      BY DEF IInv, StoreNeverAhead, TypeOK
    <2>. QED  BY <1>6, <2>1
  <1>. QED  BY <1>7, <1>8, <1>9, <1>10, <1>11, <1>12, <1>13, <1>14 DEF IInv

LEMMA CommitKeeps ==
    ASSUME TypeOK, IInv, NEW r \in Runs, NEW c \in Channels, Commit(r, c)
    PROVE  IInv'
  <1> DEFINE o == task[r][c].outcome
             t == Coroutine(o)
             row == [by |-> r, outcome |-> o]
  <1>0. o \in {"ok", "error"} /\ task[r][c].stage = "commit"
    BY Tasks DEF Commit, IInv, FilesOut, TaskType, At
  <1>1. t \in TaskType
    BY <1>0, Coroutines DEF StageNames, Ended
  <1>2. t.stage = o
    BY DEF Coroutine
  <1>3. Becomes(r, c, t)
    BY DEF Commit
  <1>4. row.by = r /\ row.outcome = o
    OBVIOUS
  <1>5. /\ UNCHANGED <<now, files, guide, configured, epg, lineup, markers, run>>
        /\ rows' = [rows EXCEPT ![c] = @ \cup {row}]
        /\ lock' = [lock EXCEPT ![c] = IF @ = r THEN NoRun ELSE @]
    BY DEF Commit, published
  <1>6. /\ rows'[c] = rows[c] \cup {row}
        /\ \A d \in Channels : d # c => rows'[d] = rows[d] /\ lock'[d] = lock[d]
        /\ lock[c] # r => lock'[c] = lock[c]
    BY <1>5 DEF TypeOK
  <1> HIDE DEF t, row
  <1>7. /\ task'[r][c] = t
        /\ \A s \in Runs, d \in Channels :
              s # r \/ d # c => task'[s][d] = task[s][d]
    BY <1>1, <1>3, TaskFrame
  <1>8. Locked'
    BY <1>0, <1>2, <1>6, <1>7 DEF IInv, Locked, InStore
  <1>9. DayTaken'
    BY <1>0, <1>2, <1>5, <1>7 DEF IInv, DayTaken, At, Existing, Day, Fresh
  <1>10. Dated'
    BY <1>0, <1>2, <1>4, <1>5, <1>6, <1>7 DEF IInv, Dated
  <1>11. FilesOut'
    BY <1>0, <1>2, <1>5, <1>7 DEF IInv, FilesOut, Done, At
  <1>12. Logged'
    BY <1>0, <1>2, <1>5, <1>6, <1>7 DEF IInv, Logged, row
  <1>13. EndIsLast'
    BY <1>0, <1>2, <1>5, <1>7 DEF IInv, EndIsLast, Ended
  <1>14. ListedIsPublished'
    BY <1>5 DEF IInv, ListedIsPublished
  <1>15. StoreNeverAhead'
    <2>1. o = "ok" => guide[c].at >= run[r].start
      BY <1>0 DEF IInv, FilesOut, Done, At
    <2>. QED  BY <1>4, <1>5, <1>6, <2>1 DEF IInv, StoreNeverAhead
  <1>. QED  BY <1>8, <1>9, <1>10, <1>11, <1>12, <1>13, <1>14, <1>15 DEF IInv

LEMMA CommitFailsKeeps ==
    ASSUME TypeOK, IInv, NEW r \in Runs, NEW c \in Channels, CommitFails(r, c)
    PROVE  IInv'
  <1> DEFINE t == Coroutine("raised")
  <1>1. t \in TaskType /\ t.stage = "raised"
    BY Coroutines DEF StageNames, Lost, Coroutine
  <1>2. Becomes(r, c, t)
    BY DEF CommitFails
  <1>3. /\ UNCHANGED <<now, files, guide, configured, epg, lineup, rows, markers, run>>
        /\ lock' = [lock EXCEPT ![c] = IF @ = r THEN NoRun ELSE @]
        /\ task[r][c].stage = "commit"
    BY DEF CommitFails, published, At
  <1>4. /\ \A d \in Channels : d # c => lock'[d] = lock[d]
        /\ lock[c] # r => lock'[c] = lock[c]
    BY <1>3 DEF TypeOK
  <1> HIDE DEF t
  <1>5. /\ task'[r][c] = t
        /\ \A s \in Runs, d \in Channels :
              s # r \/ d # c => task'[s][d] = task[s][d]
    BY <1>1, <1>2, TaskFrame
  <1>6. Locked'
    BY <1>1, <1>3, <1>4, <1>5 DEF IInv, Locked, InStore
  <1>7. DayTaken'
    BY <1>1, <1>3, <1>5 DEF IInv, DayTaken, At, Existing, Day, Fresh
  <1>8. Dated'
    BY <1>1, <1>3, <1>5 DEF IInv, Dated
  <1>9. FilesOut'
    BY <1>1, <1>3, <1>5 DEF IInv, FilesOut, Done, At
  <1>10. Logged'
    BY <1>1, <1>3, <1>5 DEF IInv, Logged
  <1>11. EndIsLast'
    BY <1>1, <1>3, <1>5 DEF IInv, EndIsLast, Ended
  <1>12. ListedIsPublished' /\ StoreNeverAhead'
    BY <1>3 DEF IInv, ListedIsPublished, StoreNeverAhead
  <1>. QED  BY <1>6, <1>7, <1>8, <1>9, <1>10, <1>11, <1>12 DEF IInv

LEMMA ChannelKeeps ==
    ASSUME TypeOK, IInv, NEW r \in Runs, NEW c \in Channels, ChannelStep(r, c)
    PROVE  IInv'
  BY MovesKeep, OpenKeeps, WriteDayKeeps, WriteConfigKeeps, WriteGuideKeeps, CommitKeeps,
     CommitFailsKeeps DEF ChannelStep

-----------------------------------------------------------------------------
(* The steps of a run as a whole, and of its surroundings. *)

\* Nothing of the invariant depends on a day's file that is removed.
LEMMA DaysRemoved ==
    ASSUME IInv, UNCHANGED <<now, task>>,
           \A r \in Runs : /\ run'[r].first = run[r].first
                          /\ run'[r].force = run[r].force,
           \A c \in Channels : files'[c] \subseteq files[c]
    PROVE  DayTaken'
  BY DEF IInv, DayTaken, At, Existing, Day, Fresh

LEMMA RunMoves ==
    ASSUME TypeOK, IInv, NEW r \in Runs, NEW pc, Goto(r, pc),
           run[r].pc \notin {"idle", "done"}, pc # "idle",
           pc \in {"lineup", "gc", "marker", "done"} =>
              \A c \in Channels : task[r][c].stage \in Ended \cup {"none"},
           UNCHANGED <<now, guide, configured, lock, rows, task>>,
           \A c \in Channels : files'[c] \subseteq files[c],
           \/ UNCHANGED markers
           \/ markers' = markers \cup {r} /\ pc = "done",
           ListedIsPublished'
    PROVE  IInv'
  <1>1. /\ run'[r].pc = pc
        /\ \A s \in Runs : /\ s # r => run'[s].pc = run[s].pc
                           /\ run'[s].first = run[s].first
                           /\ run'[s].force = run[s].force
                           /\ run'[s].start = run[s].start
    BY DEF Goto, TypeOK, RunType
  <1>2. Locked'
    BY DEF IInv, Locked
  <1>3. DayTaken'
    BY <1>1, DaysRemoved
  <1>4. Dated'
    BY <1>1 DEF IInv, Dated
  <1>5. FilesOut'
    BY <1>1 DEF IInv, FilesOut, Done, At
  <1>6. Logged'
    BY DEF IInv, Logged
  <1>7. EndIsLast'
    BY <1>1 DEF IInv, EndIsLast, TypeOK
  <1>8. StoreNeverAhead'
    BY <1>1 DEF IInv, StoreNeverAhead, TypeOK
  <1>. QED  BY <1>2, <1>3, <1>4, <1>5, <1>6, <1>7, <1>8 DEF IInv

\* Runs are stopped, or die.
LEMMA StopKeeps ==
    ASSUME TypeOK, IInv,
           UNCHANGED <<now, files, published, rows, markers>>,
           \A s \in Runs, d \in Channels :
              \/ task'[s][d] = task[s][d]
              \/ /\ task'[s][d].stage \in {"cancelled", "dead"}
                 /\ task[s][d].stage \notin Ended \cup {"none"},
           \A s \in Runs, d \in Channels :
              task'[s][d].stage \in InStore => lock'[d] = lock[d],
           \A s \in Runs : /\ run'[s].first = run[s].first
                          /\ run'[s].force = run[s].force
                          /\ run'[s].start = run[s].start
                          /\ \/ run'[s].pc = run[s].pc
                             \/ /\ run'[s].pc \in {"aborted", "crashed"}
                                /\ run[s].pc # "done"
    PROVE  IInv'
  <1>0. UNCHANGED <<now, files, guide, configured, epg, lineup, rows, markers>>
    BY DEF published
  <1>1. Locked'
    <2> SUFFICES ASSUME NEW s \in Runs, NEW d \in Channels,
                        task'[s][d].stage \in InStore
                 PROVE  lock'[d] = s
      BY DEF Locked
    <2>1. task'[s][d] = task[s][d]
      BY DEF InStore
    <2>. QED  BY <2>1 DEF IInv, Locked
  <1>2. DayTaken'
    <2> SUFFICES ASSUME NEW s \in Runs, NEW d \in Channels,
                        task'[s][d].stage = "expand"
                 PROVE  task'[s][d] = task[s][d]
      BY <1>0 DEF IInv, DayTaken, At, Existing, Day, Fresh
    <2>. QED  OBVIOUS
  <1>3. Dated'
    BY <1>0 DEF IInv, Dated
  <1>4. FilesOut'
    BY <1>0 DEF IInv, FilesOut, Done, At
  <1>5. Logged'
    BY <1>0 DEF IInv, Logged
  <1>6. EndIsLast'
    <2>1. ASSUME NEW s \in Runs, NEW d \in Channels,
                 run'[s].pc \in {"lineup", "gc", "marker", "done"}
          PROVE  task'[s][d].stage \in Ended \cup {"none"}
      <3>1. run'[s].pc = run[s].pc
        BY <2>1
      <3>2. task[s][d].stage \in Ended \cup {"none"}
        BY <2>1, <3>1 DEF IInv, EndIsLast
      <3>3. task'[s][d] = task[s][d]
        BY <3>2
      <3>. QED  BY <3>2, <3>3
    <2>2. ASSUME NEW s \in markers' PROVE run'[s].pc = "done"
      <3>1. s \in Runs /\ run[s].pc = "done"
        BY <2>2, <1>0 DEF IInv, EndIsLast, TypeOK
      <3>. QED  BY <3>1
    <2>. QED  BY <2>1, <2>2 DEF EndIsLast
  <1>7. ListedIsPublished'
    BY <1>0 DEF IInv, ListedIsPublished
  <1>8. StoreNeverAhead'
    BY <1>0 DEF IInv, StoreNeverAhead, TypeOK
  <1>. QED  BY <1>1, <1>2, <1>3, <1>4, <1>5, <1>6, <1>7, <1>8 DEF IInv

LEMMA RunKeeps ==
    ASSUME TypeOK, IInv, NEW r \in Runs,
           \/ Merge(r) \/ WriteLineup(r) \/ Gc(r) \/ WriteMarker(r) \/ RunFails(r)
    PROVE  IInv'
  <1>1. CASE Merge(r)
    <2>1. \A c \in Channels : task[r][c].stage \in Ended \cup {"none"}
      BY <1>1 DEF Merge, AllEnded, Stages
    <2>2. ASSUME NEW c \in Targets(r, {"ok"}) PROVE guide[c] # NoGuide
      <3>1. c \in Channels /\ At(r, c, "ok")
        BY <2>2 DEF Targets, At
      <3>2. guide[c].at >= run[r].start
        BY <3>1 DEF IInv, FilesOut, Done
      <3>3. run[r].start \in Nat /\ guide[c].at \in Nat \cup {-1}
        BY <3>1 DEF TypeOK, RunType
      <3>. QED  BY <3>2, <3>3 DEF NoGuide
    <2>3. ListedIsPublished'
      BY <1>1, <2>2 DEF Merge, IInv, ListedIsPublished
    <2>4. /\ Goto(r, "lineup") /\ run[r].pc = "tasks"
          /\ UNCHANGED <<now, guide, configured, lock, rows, task, files, markers>>
      BY <1>1 DEF Merge
    <2>. QED  BY <2>1, <2>3, <2>4, RunMoves
  <1>2. CASE WriteLineup(r)
    <2>1. Targets(r, {"ok"}) \subseteq configured
      BY DEF Targets, IInv, FilesOut, Done, At
    <2>2. ListedIsPublished'
      BY <1>2, <2>1 DEF WriteLineup, IInv, ListedIsPublished
    <2>3. /\ Goto(r, "gc") /\ run[r].pc = "lineup"
          /\ UNCHANGED <<now, guide, configured, lock, rows, task, files, markers>>
      BY <1>2 DEF WriteLineup
    <2>4. \A c \in Channels : task[r][c].stage \in Ended \cup {"none"}
      BY <2>3 DEF IInv, EndIsLast
    <2>. QED  BY <2>2, <2>3, <2>4, RunMoves
  <1>3. CASE Gc(r)
    <2>1. /\ Goto(r, "marker") /\ run[r].pc = "gc"
          /\ UNCHANGED <<now, published, lock, rows, task, markers>>
          /\ \A c \in Channels : files'[c] \subseteq files[c]
      BY <1>3 DEF Gc, Sweep
    <2>2. ListedIsPublished'
      BY <2>1 DEF published, IInv, ListedIsPublished
    <2>3. \A c \in Channels : task[r][c].stage \in Ended \cup {"none"}
      BY <2>1 DEF IInv, EndIsLast
    <2>. QED  BY <2>1, <2>2, <2>3, RunMoves DEF published
  <1>4. CASE WriteMarker(r)
    <2>1. /\ Goto(r, "done") /\ run[r].pc = "marker"
          /\ UNCHANGED <<now, files, published, lock, rows, task>>
          /\ markers' = markers \cup {r}
      BY <1>4 DEF WriteMarker
    <2>2. ListedIsPublished'
      BY <2>1 DEF published, IInv, ListedIsPublished
    <2>3. \A c \in Channels : task[r][c].stage \in Ended \cup {"none"}
      BY <2>1 DEF IInv, EndIsLast
    <2>. QED  BY <2>1, <2>2, <2>3, RunMoves DEF published
  <1>5. CASE RunFails(r)
    <2>1. /\ Goto(r, "aborted") /\ run[r].pc \notin {"idle", "done"}
          /\ UNCHANGED <<now, files, published, lock, rows, markers, task>>
      BY <1>5 DEF RunFails
    <2>2. ListedIsPublished'
      BY <2>1 DEF published, IInv, ListedIsPublished
    <2>. QED  BY <2>1, <2>2, RunMoves DEF published
  <1>. QED  BY <1>1, <1>2, <1>3, <1>4, <1>5

LEMMA AbortKeeps ==
    ASSUME TypeOK, IInv, NEW r \in Runs, Abort(r)
    PROVE  IInv'
  <1>1. /\ Goto(r, "aborted") /\ run[r].pc = "tasks"
        /\ UNCHANGED <<now, files, published, rows, markers, lock>>
    BY DEF Abort
  <1>2. ASSUME NEW s \in Runs, NEW d \in Channels
        PROVE  \/ task'[s][d] = task[s][d]
               \/ /\ task'[s][d].stage \in {"cancelled", "dead"}
                  /\ task[s][d].stage \notin Ended \cup {"none"}
    <2>1. CASE run[r].by = "cli" /\ s = r
      <3>1. task'[s][d] = IF task[s][d].stage \in {"queued", "resolving"}
                          THEN Coroutine("cancelled") ELSE task[s][d]
        BY <2>1 DEF Abort, TypeOK
      <3>. QED  BY <3>1 DEF Coroutine, Ended
    <2>2. CASE ~(run[r].by = "cli" /\ s = r)
      BY <2>2 DEF Abort, TypeOK
    <2>. QED  BY <2>1, <2>2
  <1>3. \A s \in Runs : /\ run'[s].first = run[s].first
                        /\ run'[s].force = run[s].force
                        /\ run'[s].start = run[s].start
                        /\ \/ run'[s].pc = run[s].pc
                           \/ /\ run'[s].pc \in {"aborted", "crashed"}
                              /\ run[s].pc # "done"
    BY <1>1 DEF Goto, TypeOK, RunType
  <1>. QED  BY <1>1, <1>2, <1>3, StopKeeps

LEMMA ProcessEndKeeps ==
    ASSUME TypeOK, IInv, NEW r \in Runs, Stop(r) \/ Crash(r)
    PROVE  IInv'
  <1>1. CASE Stop(r)
    <2>1. UNCHANGED <<now, files, published, rows, markers, lock>>
      BY <1>1 DEF Stop
    <2>2. ASSUME NEW s \in Runs, NEW d \in Channels
          PROVE  \/ task'[s][d] = task[s][d]
                 \/ /\ task'[s][d].stage \in {"cancelled", "dead"}
                    /\ task[s][d].stage \notin Ended \cup {"none"}
      BY <1>1 DEF Stop, Coroutine, Ended
    <2>3. \A s \in Runs : /\ run'[s].first = run[s].first
                          /\ run'[s].force = run[s].force
                          /\ run'[s].start = run[s].start
                          /\ \/ run'[s].pc = run[s].pc
                             \/ /\ run'[s].pc \in {"aborted", "crashed"}
                                /\ run[s].pc # "done"
      BY <1>1 DEF Stop, TypeOK, RunType
    <2>. QED  BY <2>1, <2>2, <2>3, StopKeeps
  <1>2. CASE Crash(r)
    <2>1. UNCHANGED <<now, files, published, rows, markers>>
      BY <1>2 DEF Crash
    <2>2. ASSUME NEW s \in Runs, NEW d \in Channels
          PROVE  \/ task'[s][d] = task[s][d]
                 \/ /\ task'[s][d].stage \in {"cancelled", "dead"}
                    /\ task[s][d].stage \notin Ended \cup {"none"}
      BY <1>2 DEF Crash, Coroutine
    <2>3. ASSUME NEW s \in Runs, NEW d \in Channels,
                 task'[s][d].stage \in InStore
          PROVE  lock'[d] = lock[d]
      <3>1. task'[s][d] = task[s][d]
        BY <2>2, <2>3 DEF InStore
      <3>2. lock[d] = s
        BY <2>3, <3>1 DEF IInv, Locked
      <3>3. ~SameProcess(r, s)
        BY <1>2, <2>3, <3>1 DEF Crash, InStore, Ended, Lost, Coroutine
      <3>. QED  BY <1>2, <3>2, <3>3 DEF Crash
    <2>4. \A s \in Runs : /\ run'[s].first = run[s].first
                          /\ run'[s].force = run[s].force
                          /\ run'[s].start = run[s].start
                          /\ \/ run'[s].pc = run[s].pc
                             \/ /\ run'[s].pc \in {"aborted", "crashed"}
                                /\ run[s].pc # "done"
      BY <1>2 DEF Crash, TypeOK, RunType
    <2>. QED  BY <2>1, <2>2, <2>3, <2>4, StopKeeps
  <1>. QED  BY <1>1, <1>2

LEMMA StartKeeps ==
    ASSUME TypeOK, IInv, NEW r \in Runs, ScheduledRun(r) \/ OnceCommand(r)
    PROVE  IInv'
  <1>1. PICK by, force, first, targets : StartTasks(r, by, force, first, targets)
    BY DEF ScheduledRun, OnceCommand
  <1>2. /\ run[r].pc = "idle"
        /\ UNCHANGED <<now, files, guide, configured, epg, lineup, lock, rows, markers>>
    BY <1>1 DEF StartTasks, published
  <1>3. /\ run'[r].start = now /\ run'[r].pc \in {"marker", "tasks"}
        /\ run'[r].pc = "marker" => targets = {}
        /\ \A s \in Runs : s # r => run'[s] = run[s]
    BY <1>1 DEF StartTasks, TypeOK
  <1>4. \A c \in Channels : /\ task[r][c].stage = "none"
                            /\ task'[r][c].stage \in {"none", "queued"}
                            /\ targets = {} => task'[r][c].stage = "none"
    BY <1>1, <1>2 DEF StartTasks, TypeOK, Coroutine, IInv, Dated
  <1>5. \A s \in Runs : s # r => task'[s] = task[s]
    BY <1>1 DEF StartTasks, TypeOK
  <1>6. \A s \in Runs, c \in Channels :
           task'[s][c].stage \notin {"none", "queued"} =>
              s # r /\ task'[s][c] = task[s][c] /\ run'[s] = run[s]
    BY <1>3, <1>4, <1>5
  <1>7. Locked'
    BY <1>2, <1>6 DEF IInv, Locked, InStore
  <1>8. DayTaken'
    <2> SUFFICES ASSUME NEW s \in Runs, NEW c \in Channels,
                        task'[s][c].stage = "expand"
                 PROVE  task'[s][c] = task[s][c] /\ run'[s] = run[s]
      BY <1>2 DEF IInv, DayTaken, At, Existing, Day, Fresh
    <2>. QED  BY <1>6
  <1>9. Dated'
    <2>1. \A s \in Runs : run'[s].start <= now
      BY <1>3 DEF IInv, Dated, TypeOK
    <2>2. \A s \in Runs : run'[s].pc = "idle" => s # r
      BY <1>3
    <2>. QED  BY <1>2, <1>3, <1>5, <2>1, <2>2 DEF IInv, Dated
  <1>10. FilesOut'
    <2> SUFFICES ASSUME NEW s \in Runs, NEW c \in Channels,
                        task'[s][c].stage \in {"guide", "ok", "commit"}
                 PROVE  task'[s][c] = task[s][c] /\ run'[s] = run[s]
      BY <1>2 DEF IInv, FilesOut, Done, At
    <2>. QED  BY <1>6
  <1>11. Logged'
    <2> SUFFICES ASSUME NEW s \in Runs, NEW c \in Channels,
                        task'[s][c].stage \in {"ok", "error"}
                 PROVE  task'[s][c] = task[s][c]
      BY <1>2 DEF IInv, Logged
    <2>. QED  BY <1>6
  <1>12. EndIsLast'
    <2>1. ASSUME NEW s \in Runs, NEW c \in Channels,
                 run'[s].pc \in {"lineup", "gc", "marker", "done"}
          PROVE  task'[s][c].stage \in Ended \cup {"none"}
      <3>1. CASE s = r
        BY <2>1, <3>1, <1>3, <1>4
      <3>2. CASE s # r
        BY <2>1, <3>2, <1>3, <1>5 DEF IInv, EndIsLast
      <3>. QED  BY <3>1, <3>2
    <2>2. ASSUME NEW s \in markers' PROVE run'[s].pc = "done"
      <3>1. s \in Runs /\ run[s].pc = "done"
        BY <2>2, <1>2 DEF IInv, EndIsLast, TypeOK
      <3>. QED  BY <3>1, <1>2, <1>3
    <2>. QED  BY <2>1, <2>2 DEF EndIsLast
  <1>13. ListedIsPublished'
    BY <1>2 DEF IInv, ListedIsPublished
  <1>14. StoreNeverAhead'
    <2> SUFFICES ASSUME NEW c \in Channels, NEW row \in rows[c],
                        row.outcome = "ok"
                 PROVE  guide[c].at >= run'[row.by].start
      BY <1>2 DEF StoreNeverAhead
    <2>1. row.by \in Runs
      BY DEF TypeOK
    <2>2. row.by # r
      BY <1>2 DEF IInv, Dated
    <2>. QED  BY <2>1, <2>2, <1>3 DEF IInv, StoreNeverAhead
  <1>. QED  BY <1>7, <1>8, <1>9, <1>10, <1>11, <1>12, <1>13, <1>14 DEF IInv

\* What is out of date stays so.
LEMMA TickKeeps ==
    ASSUME TypeOK, IInv, Tick
    PROVE  IInv'
  <1>1. /\ now' = now + 1
        /\ UNCHANGED <<files, guide, configured, epg, lineup, lock, rows, markers,
                       run, task>>
    BY DEF Tick, published
  <1>3. \A f \in FileType : ~Fresh(f) => ~Fresh(f)'
    BY <1>1, RollingWindowAssumption DEF Fresh, FileType, TypeOK
  <1>4. DayTaken'
    <2> SUFFICES ASSUME NEW r \in Runs, NEW c \in Channels, At(r, c, "expand")
                 PROVE  /\ task[r][c].next < WindowDays
                        /\ task[r][c].existing = {} => Existing(r, c) = {}
                        /\ run[r].force \/ \A f \in task[r][c].existing : ~Fresh(f)'
      BY <1>1 DEF DayTaken, At, Existing, Day
    <2>1. task[r][c].existing \subseteq FileType
      BY Tasks DEF TaskType
    <2>. QED  BY <2>1, <1>3 DEF IInv, DayTaken
  <1>5. Dated'
    BY <1>1 DEF IInv, Dated, TypeOK, RunType
  <1>6. Locked' /\ FilesOut' /\ Logged' /\ EndIsLast'
    BY <1>1 DEF IInv, Locked, FilesOut, Logged, EndIsLast, At, Done
  <1>7. ListedIsPublished' /\ StoreNeverAhead'
    BY <1>1 DEF IInv, ListedIsPublished, StoreNeverAhead
  <1>. QED  BY <1>4, <1>5, <1>6, <1>7 DEF IInv

LEMMA GcCommandKeeps ==
    ASSUME TypeOK, IInv, GcCommand
    PROVE  IInv'
  <1>1. /\ UNCHANGED <<now, guide, configured, epg, lineup, lock, rows, markers,
                       run, task>>
        /\ \A c \in Channels : files'[c] \subseteq files[c]
    BY DEF GcCommand, Sweep, published
  <1>2. DayTaken'
    BY <1>1, DaysRemoved
  <1>3. Locked' /\ FilesOut' /\ Logged' /\ EndIsLast' /\ Dated'
    BY <1>1 DEF IInv, Locked, FilesOut, Logged, EndIsLast, At, Done, Dated
  <1>4. ListedIsPublished' /\ StoreNeverAhead'
    BY <1>1 DEF IInv, ListedIsPublished, StoreNeverAhead
  <1>. QED  BY <1>2, <1>3, <1>4 DEF IInv

LEMMA StutterKeeps ==
    ASSUME IInv, UNCHANGED vars
    PROVE  IInv'
  <1>1. UNCHANGED <<now, files, guide, configured, epg, lineup, lock, rows, markers,
                    run, task>>
    BY DEF vars, published
  <1>2. DayTaken' /\ Dated'
    BY <1>1 DEF IInv, DayTaken, Dated, At, Existing, Day, Fresh
  <1>3. Locked' /\ FilesOut' /\ Logged' /\ EndIsLast'
    BY <1>1 DEF IInv, Locked, FilesOut, Logged, EndIsLast, At, Done
  <1>4. ListedIsPublished' /\ StoreNeverAhead'
    BY <1>1 DEF IInv, ListedIsPublished, StoreNeverAhead
  <1>. QED  BY <1>2, <1>3, <1>4 DEF IInv

LEMMA StepKeeps ==
    ASSUME TypeOK, IInv, [Next]_vars
    PROVE  TypeOK' /\ IInv'
  <1>1. CASE Environment
    <2>1. TypeOK'
      BY <1>1, EnvironmentTypes
    <2>2. IInv'
      BY <1>1, TickKeeps, GcCommandKeeps, StartKeeps, ProcessEndKeeps DEF Environment
    <2>. QED  BY <2>1, <2>2
  <1>2. ASSUME NEW r \in Runs, RunStep(r) PROVE TypeOK' /\ IInv'
    <2>1. CASE \E c \in Channels : ChannelStep(r, c)
      BY <2>1, ChannelTypes, ChannelKeeps DEF IInv
    <2>2. CASE Abort(r)
      BY <2>2, RunTypes, AbortKeeps
    <2>3. CASE \/ Merge(r) \/ WriteLineup(r) \/ Gc(r) \/ WriteMarker(r)
               \/ RunFails(r)
      BY <2>3, RunTypes, RunKeeps
    <2>. QED  BY <1>2, <2>1, <2>2, <2>3 DEF RunStep
  <1>3. CASE UNCHANGED vars
    <2>1. TypeOK'
      BY <1>3 DEF vars, published, TypeOK
    <2>. QED  BY <1>3, <2>1, StutterKeeps
  <1>. QED  BY <1>1, <1>2, <1>3 DEF Next

LEMMA Invariant == Spec => [](TypeOK /\ IInv)
  BY InvInit, StepKeeps, PTL DEF Spec

-----------------------------------------------------------------------------
(* What follows. *)

\* The state keeps its types: no run, file or guide out of range, for any
\* number of runs, channels and days.
THEOREM TypeCorrect == Spec => []TypeOK
  BY Invariant, PTL

\* The store's "ok" is committed after the guide is out (orchestrator.py,
\* __exit__ of the store after _run_channel's last write).
THEOREM StoreComesLast == Spec => []StoreNeverAhead
  <1>1. IInv => StoreNeverAhead
    BY DEF IInv
  <1>. QED  BY Invariant, <1>1, PTL

\* lineup.json and epg.xml name only what a channel has published.
THEOREM NothingListedUnpublished == Spec => []ListedIsPublished
  <1>1. IInv => ListedIsPublished
    BY DEF IInv
  <1>. QED  BY Invariant, <1>1, PTL

\* _finalize comes after every channel's end, and that after its commit.
THEOREM MarkersAreComplete == Spec => []MarkerIsComplete
  <1>1. TypeOK /\ IInv => MarkerIsComplete
    <2> SUFFICES ASSUME TypeOK, IInv, NEW r \in markers, NEW c \in Channels
                 PROVE  /\ task[r][c].stage \in Ended \cup {"none"}
                        /\ task[r][c].stage \in {"ok", "error"} =>
                              [by |-> r, outcome |-> task[r][c].stage] \in rows[c]
      BY DEF MarkerIsComplete
    <2>1. r \in Runs /\ run[r].pc = "done"
      BY DEF TypeOK, IInv, EndIsLast
    <2>. QED  BY <2>1 DEF IInv, EndIsLast, Logged
  <1>. QED  BY Invariant, <1>1, PTL

\* Only a day's rename and a collection change the playout folders.
LEMMA FilesStep ==
    ASSUME [Next]_vars
    PROVE  \/ UNCHANGED files
           \/ Sweep /\ now' = now
           \/ \E r \in Runs, c \in Channels : WriteDay(r, c)
  <1> SUFFICES ASSUME ~UNCHANGED files, ~(Sweep /\ now' = now)
               PROVE  \E r \in Runs, c \in Channels : WriteDay(r, c)
    OBVIOUS
  <1>1. Environment \/ \E r \in Runs : RunStep(r)
    BY DEF Next, vars
  <1>2. ~Environment
    BY DEF Environment, Tick, GcCommand, ScheduledRun, OnceCommand, StartTasks,
           Stop, Crash
  <1>3. PICK r \in Runs : RunStep(r)
    BY <1>1, <1>2
  <1>4. PICK c \in Channels : ChannelStep(r, c)
    BY <1>3 DEF RunStep, Abort, Merge, WriteLineup, Gc, WriteMarker, RunFails
  <1>5. WriteDay(r, c)
    BY <1>4 DEF ChannelStep, Plan, Resolve, OpenStore, StoreFails, SkipDay,
                TakeDay, WriteConfig, WriteGuide, ChannelFails, Commit,
                CommitFails
  <1>. QED  BY <1>5

\* A channel of a run takes a step of its own, or none, or is started or
\* stopped from outside.
SameRun(r) == /\ run'[r].first = run[r].first
              /\ run'[r].force = run[r].force
              /\ run'[r].start = run[r].start

LEMMA TaskStep ==
    ASSUME TypeOK, [Next]_vars, NEW r \in Runs, NEW c \in Channels
    PROVE  \/ ChannelStep(r, c) /\ run' = run
           \/ task'[r][c] = task[r][c] /\ SameRun(r)
           \/ \E stage \in {"none", "queued", "cancelled", "dead"} :
                 task'[r][c] = Coroutine(stage)
  <1>1. CASE UNCHANGED vars \/ Tick \/ GcCommand
    BY <1>1 DEF vars, Tick, GcCommand, SameRun
  <1>2. ASSUME NEW s \in Runs, ScheduledRun(s) \/ OnceCommand(s)
        PROVE  \/ task'[r][c] = task[r][c] /\ SameRun(r)
               \/ \E stage \in {"none", "queued"} : task'[r][c] = Coroutine(stage)
    <2>1. PICK by, force, first, targets : StartTasks(s, by, force, first, targets)
      BY <1>2 DEF ScheduledRun, OnceCommand
    <2>2. CASE s = r
      <3>1. task'[r][c] = Coroutine(IF c \in targets THEN "queued" ELSE "none")
        BY <2>1, <2>2 DEF StartTasks, TypeOK
      <3>. QED  BY <3>1
    <2>3. CASE s # r
      BY <2>1, <2>3 DEF StartTasks, TypeOK, SameRun
    <2>. QED  BY <2>2, <2>3
  <1>3. ASSUME NEW s \in Runs, Stop(s)
        PROVE  SameRun(r) /\ (\/ task'[r][c] = task[r][c]
                              \/ task'[r][c] = Coroutine("cancelled"))
    BY <1>3 DEF Stop, TypeOK, RunType, SameRun
  <1>4. ASSUME NEW s \in Runs, Crash(s)
        PROVE  SameRun(r) /\ (\/ task'[r][c] = task[r][c]
                              \/ task'[r][c] = Coroutine("dead"))
    BY <1>4 DEF Crash, TypeOK, RunType, SameRun
  <1>5. ASSUME NEW s \in Runs, Abort(s)
        PROVE  SameRun(r) /\ (\/ task'[r][c] = task[r][c]
                              \/ task'[r][c] = Coroutine("cancelled"))
    <2>1. SameRun(r)
      BY <1>5 DEF Abort, Goto, TypeOK, RunType, SameRun
    <2>2. CASE run[s].by = "cli" /\ s = r
      <3>1. task'[r][c] = IF task[r][c].stage \in {"queued", "resolving"}
                          THEN Coroutine("cancelled") ELSE task[r][c]
        BY <1>5, <2>2 DEF Abort, TypeOK
      <3>. QED  BY <2>1, <3>1
    <2>3. CASE ~(run[s].by = "cli" /\ s = r)
      BY <1>5, <2>1, <2>3 DEF Abort, TypeOK
    <2>. QED  BY <2>2, <2>3
  <1>6. ASSUME NEW s \in Runs,
               \/ Merge(s) \/ WriteLineup(s) \/ Gc(s) \/ WriteMarker(s) \/ RunFails(s)
        PROVE  task'[r][c] = task[r][c] /\ SameRun(r)
    <2>1. task' = task /\ \E pc : Goto(s, pc)
      BY <1>6 DEF Merge, WriteLineup, Gc, WriteMarker, RunFails
    <2>2. SameRun(r)
      BY <2>1 DEF Goto, TypeOK, RunType, SameRun
    <2>. QED  BY <2>1, <2>2
  <1>7. ASSUME NEW s \in Runs, NEW d \in Channels, ChannelStep(s, d)
        PROVE  \/ ChannelStep(r, c) /\ run' = run
               \/ task'[r][c] = task[r][c] /\ SameRun(r)
    <2>1. run' = run
      BY <1>7 DEF ChannelStep, Plan, Resolve, OpenStore, StoreFails, SkipDay,
                  TakeDay, WriteDay, WriteConfig, WriteGuide, ChannelFails, Commit,
                  CommitFails
    <2>2. CASE s = r /\ d = c
      BY <1>7, <2>1, <2>2
    <2>3. CASE ~(s = r /\ d = c)
      <3>1. PICK t : Becomes(s, d, t)
        BY <1>7 DEF ChannelStep, Plan, Resolve, OpenStore, StoreFails, SkipDay, Move,
                    TakeDay, WriteDay, WriteConfig, WriteGuide, ChannelFails, Commit,
                    CommitFails
      <3>. QED  BY <2>1, <2>3, <3>1 DEF Becomes, TypeOK, SameRun
    <2>. QED  BY <2>2, <2>3
  <1>. QED  BY <1>1, <1>2, <1>3, <1>4, <1>5, <1>6, <1>7
            DEF Next, Environment, RunStep

\* What one step of a channel does to its stage and its days.
LEMMA ChannelCases ==
    ASSUME TypeOK, NEW r \in Runs, NEW c \in Channels, ChannelStep(r, c)
    PROVE  LET old == task[r][c]
               new == task'[r][c]
           IN  \/ /\ new.stage \in {"resolving", "opening", "failed", "raised", "days"}
                  /\ old.stage \in {"queued", "resolving", "opening"}
                  /\ new.next = old.next /\ new.wrote = old.wrote
               \/ /\ SkipDay(r, c) /\ ~run[r].force
                  /\ new.stage = "days" /\ new.wrote = old.wrote
               \/ /\ TakeDay(r, c) /\ old.stage = "days" /\ new.stage = "expand"
                  /\ new.next = old.next /\ new.wrote = old.wrote
               \/ /\ WriteDay(r, c) /\ new.stage = "days"
                  /\ old.stage = "expand" /\ new.next = old.next + 1
                  /\ new.wrote = old.wrote \cup {Day(r, c)}
               \/ /\ WriteConfig(r, c) /\ old.stage = "days" /\ new.stage = "guide"
                  /\ old.next = WindowDays /\ new.wrote = old.wrote
               \/ /\ WriteGuide(r, c) /\ old.stage = "guide" /\ new.stage = "commit"
                  /\ new.wrote = old.wrote
               \/ /\ ChannelFails(r, c) /\ new.stage = "commit"
                  /\ new.outcome = "error" /\ new.wrote = old.wrote
               \/ /\ Commit(r, c) /\ old.stage = "commit"
                  /\ new = Coroutine(old.outcome)
               \/ /\ CommitFails(r, c) /\ old.stage = "commit"
                  /\ new = Coroutine("raised")
  <1>1. /\ task[r][c] \in TaskType
        /\ task' = [task EXCEPT ![r][c] = task'[r][c]] =>
              \A s \in Runs, d \in Channels :
                 s # r \/ d # c => task'[s][d] = task[s][d]
    BY Tasks DEF TypeOK
  <1>2. CASE Plan(r, c) \/ Resolve(r, c) \/ OpenStore(r, c) \/ StoreFails(r, c)
    <2>1. PICK stage \in {"resolving", "opening", "failed", "raised", "days"} :
             Move(r, c, stage)
      BY <1>2 DEF Plan, Resolve, OpenStore, StoreFails
    <2>2. task'[r][c] = [task[r][c] EXCEPT !.stage = stage]
      BY <2>1 DEF Move, Becomes, TypeOK
    <2>3. task[r][c].stage \in {"queued", "resolving", "opening"}
      BY <1>2 DEF Plan, Resolve, OpenStore, StoreFails, At
    <2>. QED  BY <1>1, <2>2, <2>3 DEF TaskType
  <1>3. CASE SkipDay(r, c)
    BY <1>1, <1>3 DEF SkipDay, Skips, Becomes, At, TypeOK, TaskType
  <1>4. CASE TakeDay(r, c)
    <2>1. PICK e : Becomes(r, c, [task[r][c] EXCEPT !.stage = "expand", !.existing = e])
      BY <1>4 DEF TakeDay
    <2>2. task'[r][c] = [task[r][c] EXCEPT !.stage = "expand", !.existing = e]
      BY <2>1 DEF Becomes, TypeOK
    <2>. QED  BY <1>1, <1>4, <2>2 DEF TakeDay, At, TaskType
  <1>5. CASE WriteDay(r, c)
    BY <1>1, <1>5 DEF WriteDay, Becomes, At, TypeOK, TaskType
  <1>6. CASE WriteConfig(r, c)
    BY <1>1, <1>6 DEF WriteConfig, Move, Becomes, At, TypeOK, TaskType
  <1>7. CASE WriteGuide(r, c)
    BY <1>1, <1>7 DEF WriteGuide, Becomes, At, TypeOK, TaskType
  <1>8. CASE ChannelFails(r, c)
    BY <1>1, <1>8 DEF ChannelFails, Becomes, TypeOK, TaskType
  <1>9. CASE Commit(r, c)
    BY <1>9 DEF Commit, Becomes, At, TypeOK
  <1>10. CASE CommitFails(r, c)
    BY <1>10 DEF CommitFails, Becomes, At, TypeOK
  <1>. QED  BY <1>2, <1>3, <1>4, <1>5, <1>6, <1>7, <1>8, <1>9, <1>10 DEF ChannelStep

-----------------------------------------------------------------------------
(* The immutability rule. *)

\* No folder has two files of one name, and what a run has taken for a day's
\* file still is, if it is there at all.
OneOfAName ==
    \A c \in Channels : \A f, g \in files[c] : SameName(f, g) => f = g

TakenStays ==
    \A r \in Runs, c \in Channels : At(r, c, "expand") =>
        \A g \in task[r][c].existing, f \in Existing(r, c) :
            SameName(f, g) => f = g

\* A folder loses files, or gains the day that its channel's run has planned.
LEMMA FolderStep ==
    ASSUME [Next]_vars, NEW c \in Channels
    PROVE  \/ files'[c] \subseteq files[c]
           \/ \E r \in Runs : WriteDay(r, c)
  <1>1. ASSUME NEW r \in Runs, NEW d \in Channels, WriteDay(r, d), d # c
        PROVE  files'[c] \subseteq files[c]
    BY <1>1 DEF WriteDay
  <1>2. Sweep => files'[c] \subseteq files[c]
    BY DEF Sweep
  <1>. QED  BY <1>1, <1>2, FilesStep

LEMMA OneOfANameStays ==
    ASSUME TypeOK, OneOfAName, [Next]_vars
    PROVE  OneOfAName'
  <1> SUFFICES ASSUME NEW c \in Channels, NEW f \in files'[c], NEW g \in files'[c],
                      SameName(f, g)
               PROVE  f = g
    BY DEF OneOfAName, SameName
  <1>1. CASE files'[c] \subseteq files[c]
    BY <1>1 DEF OneOfAName
  <1>2. ASSUME NEW r \in Runs, WriteDay(r, c) PROVE f = g
    <2>1. PICK new : files' = [files EXCEPT ![c] =
                                 {h \in @ : ~SameName(h, new)} \cup {new}]
      BY <1>2 DEF WriteDay
    <2>2. files'[c] = {h \in files[c] : ~SameName(h, new)} \cup {new}
      BY <2>1 DEF TypeOK
    <2>3. CASE f \in files[c] /\ g \in files[c]
      BY <2>3 DEF OneOfAName
    <2>. QED  BY <2>2, <2>3 DEF SameName
  <1>. QED  BY <1>1, <1>2, FolderStep

\* Until it writes the day, the lock keeps the other runs' files out.
LEMMA TakenStaysStays ==
    ASSUME TypeOK, IInv, OneOfAName, TakenStays, [Next]_vars
    PROVE  TakenStays'
  <1> SUFFICES ASSUME NEW r \in Runs, NEW c \in Channels,
                      task'[r][c].stage = "expand",
                      NEW g \in task'[r][c].existing, NEW f \in Existing(r, c)',
                      SameName(f, g)
               PROVE  f = g
    BY DEF TakenStays, At, SameName
  <1>1. CASE TakeDay(r, c)
    <2>1. PICK e \in IF Existing(r, c) = {} THEN {{}} ELSE {{h} : h \in Existing(r, c)} :
             Becomes(r, c, [task[r][c] EXCEPT !.stage = "expand", !.existing = e])
      BY <1>1 DEF TakeDay
    <2>2. task'[r][c].existing = e
      BY <2>1, Tasks DEF Becomes, TypeOK, TaskType
    <2>3. g \in files[c]
      BY <2>1, <2>2 DEF Existing
    <2>4. f \in files[c]
      BY <1>1 DEF TakeDay, Existing
    <2>. QED  BY <2>3, <2>4 DEF OneOfAName
  <1>2. CASE task'[r][c] = task[r][c] /\ SameRun(r)
    <2>1. At(r, c, "expand") /\ g \in task[r][c].existing
      BY <1>2 DEF At
    <2>2. CASE files'[c] \subseteq files[c]
      <3>1. f \in Existing(r, c)
        BY <1>2, <2>2 DEF Existing, Day, SameRun
      <3>. QED  BY <2>1, <3>1 DEF TakenStays
    <2>3. ASSUME NEW s \in Runs, WriteDay(s, c) PROVE FALSE
      <3>1. s = r
        BY <2>1, <2>3 DEF WriteDay, At, IInv, Locked, InStore
      <3>2. task'[s][c].stage = "days"
        BY <2>3, Tasks DEF WriteDay, Becomes, TypeOK, TaskType
      <3>. QED  BY <3>1, <3>2
    <2>. QED  BY <2>2, <2>3, FolderStep
  <1>3. CASE ChannelStep(r, c)
    <2>1. task[r][c].outcome \in {"none", "ok", "error"}
      BY Tasks DEF TaskType
    <2>2. ~\E stage \in {"none", "ok", "error", "raised"} : task'[r][c] = Coroutine(stage)
      BY DEF Coroutine
    <2>. QED  BY <1>1, <1>3, <2>1, <2>2, ChannelCases
  <1>4. CASE \E stage \in {"none", "queued", "cancelled", "dead"} :
                task'[r][c] = Coroutine(stage)
    BY <1>4 DEF Coroutine
  <1>. QED  BY <1>2, <1>3, <1>4, TaskStep

LEMMA TakenInvariant == Spec => [](OneOfAName /\ TakenStays)
  <1>1. Init => OneOfAName /\ TakenStays
    BY DEF Init, OneOfAName, TakenStays, At, NoTask, Coroutine
  <1>2. TypeOK /\ IInv /\ (OneOfAName /\ TakenStays) /\ [Next]_vars
           => (OneOfAName /\ TakenStays)'
    BY OneOfANameStays, TakenStaysStays
  <1>. QED  BY Invariant, <1>1, <1>2, PTL DEF Spec

\* One step leaves the fresh days alone.
LEMMA FreshDayStep ==
    ASSUME TypeOK, IInv, OneOfAName, TakenStays, [Next]_vars,
           NEW c \in Channels, NEW f \in files[c], Fresh(f), f.early,
           \/ f \notin files'[c]
           \/ f.day \in {g.day : g \in files'[c] \ files[c]}
    PROVE  \E r \in Runs : /\ At(r, c, "expand") /\ Day(r, c) = f.day
                           /\ \/ run[r].force
                              \/ \E g \in task[r][c].existing : ~SameName(f, g)
  <1>1. ~UNCHANGED files /\ ~Sweep
    BY DEF Sweep
  <1>2. PICK r \in Runs, d \in Channels : WriteDay(r, d)
    BY <1>1, FilesStep
  <1>3. PICK name \in Names :
           LET new == [day |-> Day(r, d), early |-> name.early,
                       tail |-> name.tail, mtime |-> now]
           IN  files' = [files EXCEPT ![d] = {g \in @ : ~SameName(g, new)} \cup {new}]
    BY <1>2 DEF WriteDay
  <1>4. c = d /\ f.day = Day(r, c)
    BY <1>3 DEF TypeOK, SameName
  <1>5. At(r, c, "expand")
    BY <1>2, <1>4 DEF WriteDay
  <1>6. f \in Existing(r, c)
    BY <1>4 DEF Existing
  <1>7. CASE ~run[r].force
    <2>1. PICK g \in task[r][c].existing : ~Fresh(g)
      BY <1>5, <1>6, <1>7 DEF IInv, DayTaken
    <2>2. SameName(f, g) => f = g
      BY <1>5, <1>6 DEF TakenStays
    <2>. QED  BY <1>4, <1>5, <2>1, <2>2
  <1>. QED  BY <1>4, <1>5, <1>7

\* The immutability rule between processes (orchestrator.py, the check of the
\* existing file and the rename): the write lock keeps every other run of
\* the channel out from the one to the other.
THEOREM FreshDaysStay == Spec => FreshDayUntouched
  <1>1. TypeOK /\ IInv /\ (OneOfAName /\ TakenStays) /\ [Next]_vars =>
           [\A c \in Channels :
              LET added == files'[c] \ files[c]
              IN  \A f \in files[c] :
                    f.early /\ Fresh(f) /\ (f \notin files'[c] \/ f.day \in {g.day : g \in added}) =>
                      \E r \in Runs : /\ At(r, c, "expand") /\ Day(r, c) = f.day
                                     /\ \/ run[r].force
                                        \/ \E g \in task[r][c].existing : ~SameName(f, g)]_vars
    BY FreshDayStep
  <1>. QED  BY Invariant, TakenInvariant, <1>1, PTL DEF Spec, FreshDayUntouched

-----------------------------------------------------------------------------
(* What a run has written stays, until collection may take it. *)

Kept(c, d, t) ==
    \/ now - Behind > t
    \/ \E f \in files[c] : f.day = d /\ f.mtime >= t

\* Nothing is planned before the store is open.
NotBegun ==
    \A r \in Runs, c \in Channels :
        task[r][c].stage \in {"queued", "resolving", "opening"} =>
            task[r][c].next = 0

WroteKept ==
    \A r \in Runs, c \in Channels : \A d \in task[r][c].wrote :
        Kept(c, d, run[r].start)

\* A forced run has written the days it is past.
Past(r, c, k) ==
    \/ task[r][c].stage \in {"days", "expand"} /\ k < task[r][c].next
    \/ At(r, c, "guide")
    \/ Done(r, c)

ForcedKept ==
    \A r \in Runs, c \in Channels, k \in 0 .. WindowDays - 1 :
        run[r].force /\ Past(r, c, k) => Kept(c, run[r].first + k, run[r].start)

GuideKept ==
    \A c \in Channels :
        /\ guide[c].since <= now
        /\ \A d \in guide[c].days : Kept(c, d, guide[c].since)

KInv == NotBegun /\ WroteKept /\ ForcedKept /\ GuideKept

LEMMA ClockStep ==
    ASSUME [Next]_vars
    PROVE  now' = now \/ now' = now + 1
  <1>1. CASE Environment \/ UNCHANGED vars
    BY <1>1 DEF vars, Environment, Tick, GcCommand, ScheduledRun, OnceCommand,
                StartTasks, Stop, Crash
  <1>2. ASSUME NEW s \in Runs, RunStep(s) PROVE now' = now
    <2>1. CASE \E e \in Channels : ChannelStep(s, e)
      BY <2>1 DEF ChannelStep, Plan, Resolve, OpenStore, StoreFails, SkipDay,
                  TakeDay, WriteDay, WriteConfig, WriteGuide, ChannelFails, Commit,
                  CommitFails
    <2>. QED  BY <1>2, <2>1 DEF RunStep, Abort, Merge, WriteLineup, Gc,
                                WriteMarker, RunFails
  <1>. QED  BY <1>1, <1>2 DEF Next

LEMMA KeptStays ==
    ASSUME TypeOK, [Next]_vars,
           NEW c \in Channels, NEW d \in Nat, NEW t \in Int, t <= now,
           Kept(c, d, t)
    PROVE  Kept(c, d, t)'
  <1>1. now' = now \/ now' = now + 1
    BY ClockStep
  <1>2. now \in Nat /\ Behind \in Nat
    BY RollingWindowAssumption DEF TypeOK
  <1>3. CASE now - Behind > t
    <2>1. ASSUME NEW n \in Int, NEW m \in Int, NEW b \in Int,
                 m = n \/ m = n + 1, n - b > t
          PROVE  m - b > t
      BY <2>1
    <2>2. now' - Behind > t
      BY <1>1, <1>2, <1>3, <2>1
    <2>. QED  BY <2>2 DEF Kept
  <1>4. ASSUME NEW f \in files[c], f.day = d, f.mtime >= t PROVE Kept(c, d, t)'
    <2>1. f \in FileType
      BY <1>4 DEF TypeOK
    <2>2. CASE UNCHANGED files
      BY <1>4, <2>2 DEF Kept
    <2>3. CASE Sweep /\ now' = now
      <3>1. CASE Fresh(f)
        <4>1. f \in files'[c]
          BY <1>4, <2>3, <3>1 DEF Sweep
        <4>. QED  BY <1>4, <4>1 DEF Kept
      <3>2. CASE ~Fresh(f)
        BY <1>2, <1>4, <2>1, <2>3, <3>2 DEF Kept, Fresh, FileType
      <3>. QED  BY <3>1, <3>2
    <2>4. ASSUME NEW s \in Runs, NEW e \in Channels, WriteDay(s, e)
          PROVE  Kept(c, d, t)'
      <3>1. PICK name \in Names :
               LET new == [day |-> Day(s, e), early |-> name.early,
                           tail |-> name.tail, mtime |-> now]
               IN  files' = [files EXCEPT ![e] =
                               {g \in @ : ~SameName(g, new)} \cup {new}]
        BY <2>4 DEF WriteDay
      <3> DEFINE new == [day |-> Day(s, e), early |-> name.early,
                         tail |-> name.tail, mtime |-> now]
      <3>2. CASE e = c /\ SameName(f, new)
        <4>1. new \in files'[c] /\ new.day = d /\ new.mtime = now
          BY <1>4, <3>1, <3>2 DEF TypeOK, SameName
        <4>2. new.mtime >= t
          BY <4>1, <1>2
        <4>. QED  BY <4>1, <4>2 DEF Kept
      <3>3. CASE ~(e = c /\ SameName(f, new))
        <4>1. f \in files'[c]
          BY <1>4, <3>1, <3>3 DEF TypeOK
        <4>. QED  BY <1>4, <4>1 DEF Kept
      <3>. QED  BY <3>2, <3>3
    <2>. QED  BY <2>2, <2>3, <2>4, FilesStep
  <1>. QED  BY <1>3, <1>4 DEF Kept

LEMMA NotBegunStays ==
    ASSUME TypeOK, NotBegun, [Next]_vars
    PROVE  NotBegun'
  <1> SUFFICES ASSUME NEW r \in Runs, NEW c \in Channels,
                      task'[r][c].stage \in {"queued", "resolving", "opening"}
               PROVE  task'[r][c].next = 0
    BY DEF NotBegun
  <1>1. CASE ChannelStep(r, c)
    <2>1. CASE \E stage : task'[r][c] = Coroutine(stage)
      BY <2>1 DEF Coroutine
    <2>. QED  BY <1>1, <2>1, ChannelCases DEF NotBegun
  <1>2. CASE task'[r][c] = task[r][c]
    BY <1>2 DEF NotBegun
  <1>3. CASE \E stage \in {"none", "queued", "cancelled", "dead"} :
                task'[r][c] = Coroutine(stage)
    BY <1>3 DEF Coroutine
  <1>. QED  BY <1>1, <1>2, <1>3, TaskStep

\* A day that was just renamed into place is kept.
LEMMA WrittenIsKept ==
    ASSUME TypeOK, IInv, NEW r \in Runs, NEW c \in Channels, WriteDay(r, c),
           NEW d, d = Day(r, c), NEW t, t = run[r].start
    PROVE  Kept(c, d, t)'
  <1>1. PICK name \in Names :
           LET new == [day |-> Day(r, c), early |-> name.early,
                       tail |-> name.tail, mtime |-> now]
           IN  files' = [files EXCEPT ![c] = {g \in @ : ~SameName(g, new)} \cup {new}]
    BY DEF WriteDay
  <1> DEFINE new == [day |-> Day(r, c), early |-> name.early,
                     tail |-> name.tail, mtime |-> now]
  <1>2. new \in files'[c]
    BY <1>1 DEF TypeOK
  <1>3. run[r].start <= now
    BY DEF IInv, Dated
  <1>4. PICK f \in files'[c] : f.day = d /\ f.mtime = now
    BY <1>2
  <1>5. f.mtime >= t
    BY <1>3, <1>4 DEF TypeOK, RunType
  <1>. QED  BY <1>4, <1>5 DEF Kept

LEMMA WroteKeptStays ==
    ASSUME TypeOK, IInv, WroteKept, [Next]_vars
    PROVE  WroteKept'
  <1> SUFFICES ASSUME NEW r \in Runs, NEW c \in Channels, NEW d \in task'[r][c].wrote
               PROVE  Kept(c, d, run[r].start)'
    BY DEF WroteKept
  <1>1. /\ run[r].start \in Int /\ run[r].start <= now
        /\ \A e \in task[r][c].wrote : e \in Nat /\ Kept(c, e, run[r].start)
    BY Tasks DEF TypeOK, RunType, TaskType, IInv, Dated, WroteKept
  <1>2. ASSUME d \in task[r][c].wrote, SameRun(r)
        PROVE  Kept(c, d, run[r].start)'
    <2>1. PICK t \in Int : t = run[r].start
      BY <1>1
    <2>2. t <= now /\ d \in Nat /\ Kept(c, d, t)
      BY <1>1, <1>2, <2>1
    <2>3. Kept(c, d, t)'
      BY <2>2, KeptStays
    <2>. QED  BY <1>2, <2>1, <2>3 DEF SameRun, Kept
  <1>3. CASE ChannelStep(r, c) /\ run' = run
    <2>1. CASE d \in task[r][c].wrote
      BY <1>2, <1>3, <2>1 DEF SameRun
    <2>2. CASE WriteDay(r, c) /\ d = Day(r, c)
      <3>1. PICK t : t = run[r].start
        OBVIOUS
      <3>2. Kept(c, d, t)'
        BY <2>2, <3>1, WrittenIsKept
      <3>. QED  BY <1>3, <3>1, <3>2 DEF Kept
    <2>3. CASE \E stage : task'[r][c] = Coroutine(stage)
      BY <2>3 DEF Coroutine
    <2>. QED  BY <1>3, <2>1, <2>2, <2>3, ChannelCases
  <1>4. CASE task'[r][c] = task[r][c] /\ SameRun(r)
    BY <1>2, <1>4
  <1>5. CASE \E stage \in {"none", "queued", "cancelled", "dead"} :
                task'[r][c] = Coroutine(stage)
    BY <1>5 DEF Coroutine
  <1>. QED  BY <1>3, <1>4, <1>5, TaskStep

\* What a channel is past after its step it was past before, or has written.
LEMMA PastStep ==
    ASSUME TypeOK, IInv, NotBegun, NEW r \in Runs, NEW c \in Channels,
           ChannelStep(r, c), run' = run, run[r].force,
           NEW k \in 0 .. WindowDays - 1, Past(r, c, k)'
    PROVE  Past(r, c, k) \/ (WriteDay(r, c) /\ k = task[r][c].next)
  <1>1. /\ task[r][c].next \in Nat /\ k \in Nat
        /\ task[r][c].outcome \in {"none", "ok", "error"}
        /\ WindowDays \in Nat /\ k < WindowDays
    <2>1. WindowDays \in Nat
      BY RollingWindowAssumption
    <2>2. task[r][c] \in TaskType
      BY Tasks
    <2>3. task[r][c].next \in Nat
      BY <2>1, <2>2 DEF TaskType
    <2>4. task[r][c].outcome \in {"none", "ok", "error"}
      BY <2>2 DEF TaskType
    <2>. QED  BY <2>1, <2>3, <2>4
  <1>2. CASE /\ task'[r][c].stage \in {"resolving", "opening", "failed", "raised", "days"}
             /\ task[r][c].stage \in {"queued", "resolving", "opening"}
             /\ task'[r][c].next = task[r][c].next
    BY <1>1, <1>2 DEF Past, Done, At, NotBegun
  <1>3. CASE /\ task[r][c].stage = "days" /\ task'[r][c].stage = "expand"
             /\ task'[r][c].next = task[r][c].next
    BY <1>3 DEF Past, Done, At
  <1>4. CASE /\ WriteDay(r, c) /\ task'[r][c].stage = "days"
             /\ task[r][c].stage = "expand"
             /\ task'[r][c].next = task[r][c].next + 1
    BY <1>1, <1>4 DEF Past, Done, At
  <1>5. CASE task[r][c].stage = "days" /\ task[r][c].next = WindowDays
    BY <1>1, <1>5 DEF Past
  <1>6. CASE task[r][c].stage = "guide"
    BY <1>6 DEF Past, At
  <1>7. CASE task'[r][c].stage = "commit" /\ task'[r][c].outcome = "error"
    BY <1>7 DEF Past, Done, At
  <1>8. CASE /\ task[r][c].stage = "commit"
             /\ task'[r][c] = Coroutine(task[r][c].outcome)
    BY <1>1, <1>8 DEF Past, Done, At, Coroutine
  <1>9. CASE task'[r][c] = Coroutine("raised")
    BY <1>9 DEF Past, Done, At, Coroutine
  <1>. QED  BY <1>2, <1>3, <1>4, <1>5, <1>6, <1>7, <1>8, <1>9, ChannelCases

LEMMA ForcedKeptStays ==
    ASSUME TypeOK, IInv, NotBegun, ForcedKept, [Next]_vars
    PROVE  ForcedKept'
  <1> SUFFICES ASSUME NEW r \in Runs, NEW c \in Channels,
                      NEW k \in 0 .. WindowDays - 1,
                      run'[r].force, Past(r, c, k)'
               PROVE  Kept(c, run[r].first + k, run[r].start)'
    BY DEF ForcedKept
  <1>1. /\ run[r].start \in Int /\ run[r].start <= now
        /\ run[r].first + k \in Nat
    BY RollingWindowAssumption DEF TypeOK, RunType, IInv, Dated
  <1>2. PICK t \in Int : t = run[r].start
    BY <1>1
  <1>3. PICK d \in Nat : d = run[r].first + k
    BY <1>1
  <1>4. ASSUME SameRun(r), Kept(c, d, t)' PROVE Kept(c, run[r].first + k, run[r].start)'
    BY <1>2, <1>3, <1>4 DEF SameRun, Kept
  <1>5. ASSUME SameRun(r), Past(r, c, k) PROVE Kept(c, d, t)'
    <2>1. Kept(c, d, t)
      BY <1>2, <1>3, <1>5 DEF ForcedKept, SameRun
    <2>. QED  BY <1>1, <1>2, <2>1, KeptStays
  <1>6. CASE ChannelStep(r, c) /\ run' = run
    <2>1. SameRun(r)
      BY <1>6 DEF SameRun
    <2>2. CASE Past(r, c, k)
      BY <1>4, <1>5, <2>1, <2>2
    <2>3. CASE WriteDay(r, c) /\ k = task[r][c].next
      <3>1. Kept(c, d, t)'
        BY <1>2, <1>3, <2>3, WrittenIsKept DEF Day
      <3>. QED  BY <1>4, <2>1, <3>1
    <2>. QED  BY <1>6, <2>2, <2>3, PastStep
  <1>7. CASE task'[r][c] = task[r][c] /\ SameRun(r)
    <2>1. Past(r, c, k)
      BY <1>7 DEF Past, Done, At
    <2>. QED  BY <1>4, <1>5, <1>7, <2>1
  <1>8. CASE \E stage \in {"none", "queued", "cancelled", "dead"} :
                task'[r][c] = Coroutine(stage)
    BY <1>8 DEF Coroutine, Past, Done, At
  <1>. QED  BY <1>6, <1>7, <1>8, TaskStep

\* Only a run that has just written its days writes a guide.
LEMMA GuideStep ==
    ASSUME [Next]_vars
    PROVE  UNCHANGED guide \/ \E r \in Runs, c \in Channels : WriteGuide(r, c)
  <1>1. CASE Environment \/ UNCHANGED vars
    BY <1>1 DEF vars, published, Environment, Tick, GcCommand, ScheduledRun,
                OnceCommand, StartTasks, Stop, Crash
  <1>2. ASSUME NEW r \in Runs, RunStep(r)
        PROVE  UNCHANGED guide \/ \E c \in Channels : WriteGuide(r, c)
    <2>1. CASE \E c \in Channels : ChannelStep(r, c)
      BY <2>1 DEF ChannelStep, Plan, Resolve, OpenStore, StoreFails, SkipDay,
                  TakeDay, WriteDay, WriteConfig, ChannelFails, Commit, CommitFails,
                  published
    <2>. QED  BY <1>2, <2>1 DEF RunStep, Abort, Merge, WriteLineup, Gc, WriteMarker,
                                RunFails, published
  <1>. QED  BY <1>1, <1>2 DEF Next

LEMMA GuideKeptStays ==
    ASSUME TypeOK, IInv, WroteKept, GuideKept, [Next]_vars
    PROVE  GuideKept'
  <1> SUFFICES ASSUME NEW c \in Channels
               PROVE  /\ guide'[c].since <= now'
                      /\ \A d \in guide'[c].days : Kept(c, d, guide[c].since)'
    BY DEF GuideKept
  <1>1. guide[c].days \subseteq Nat /\ guide[c].since \in Int /\ now \in Nat
    BY DEF TypeOK
  <1>2. now' = now \/ now' = now + 1
    BY ClockStep
  <1>3. CASE guide'[c] = guide[c]
    <2>1. PICK t \in Int : t = guide[c].since
      BY <1>1
    <2>2. ASSUME NEW d \in guide[c].days PROVE Kept(c, d, t)'
      <3>1. Kept(c, d, t) /\ t <= now /\ d \in Nat
        BY <1>1, <2>1 DEF GuideKept
      <3>. QED  BY <3>1, KeptStays
    <2>3. guide'[c].since <= now'
      BY <1>1, <1>2, <1>3 DEF GuideKept
    <2>. QED  BY <1>3, <2>1, <2>2, <2>3 DEF Kept
  <1>4. ASSUME NEW r \in Runs, WriteGuide(r, c)
        PROVE  /\ guide'[c].since <= now'
               /\ \A d \in guide'[c].days : Kept(c, d, guide[c].since)'
    <2>1. /\ guide'[c].days = task[r][c].wrote /\ guide'[c].since = run[r].start
          /\ now' = now /\ files' = files
      BY <1>4 DEF WriteGuide, TypeOK
    <2>2. run[r].start <= now
      BY DEF IInv, Dated
    <2>. QED  BY <2>1, <2>2 DEF WroteKept, Kept
  <1>5. ASSUME NEW r \in Runs, NEW e \in Channels, WriteGuide(r, e), e # c
        PROVE  guide'[c] = guide[c]
    BY <1>5 DEF WriteGuide, TypeOK
  <1>. QED  BY <1>3, <1>4, <1>5, GuideStep

LEMMA KInvInit == Init => KInv
  <1> SUFFICES ASSUME Init PROVE KInv
    OBVIOUS
  <1>1. \A r \in Runs, c \in Channels : task[r][c] = Coroutine("none")
    BY DEF Init, NoTask
  <1>2. NotBegun /\ WroteKept /\ ForcedKept
    BY <1>1 DEF NotBegun, WroteKept, ForcedKept, Past, Done, At, Coroutine
  <1>3. GuideKept
    BY DEF Init, GuideKept, NoGuide
  <1>. QED  BY <1>2, <1>3 DEF KInv

LEMMA KeptInvariant == Spec => []KInv
  <1>1. TypeOK /\ IInv /\ KInv /\ [Next]_vars => KInv'
    BY NotBegunStays, WroteKeptStays, ForcedKeptStays, GuideKeptStays DEF KInv
  <1>. QED  BY Invariant, KInvInit, <1>1, PTL DEF Spec

\* --force (orchestrator.py, the immutability rule's first test) rewrites every
\* day of the window, whoever else writes or collects meanwhile.
THEOREM ForceRewrites == Spec => []ForcedRunRewrites
  <1>1. TypeOK /\ KInv => ForcedRunRewrites
    <2> SUFFICES ASSUME TypeOK, KInv, NEW r \in Runs, NEW c \in Channels,
                        At(r, c, "ok"), run[r].force, now - Behind <= run[r].start,
                        NEW k \in 0 .. WindowDays - 1
                 PROVE  \E f \in files[c] : /\ f.day = run[r].first + k
                                            /\ f.mtime >= run[r].start
      BY DEF ForcedRunRewrites, Window
    <2>1. Kept(c, run[r].first + k, run[r].start)
      BY DEF KInv, ForcedKept, Past, Done
    <2>2. ~(now - Behind > run[r].start)
      BY RollingWindowAssumption DEF TypeOK, RunType
    <2>. QED  BY <2>1, <2>2 DEF Kept
  <1>. QED  BY Invariant, KeptInvariant, <1>1, PTL

\* A guide lists the days its run has written, and those keep a file as long
\* as _gc may not take them.
THEOREM GuideDaysAreThere == Spec => []GuideHasFile
  <1>1. KInv => GuideHasFile
    BY DEF KInv, GuideKept, GuideHasFile, Kept
  <1>. QED  BY KeptInvariant, <1>1, PTL

=============================================================================

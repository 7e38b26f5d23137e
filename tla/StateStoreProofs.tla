-------------------------- MODULE StateStoreProofs --------------------------
(***************************************************************************)
(* Proofs about StateStore, for any number of sessions, any schema script  *)
(* and any query: the type invariant first, then one inductive invariant   *)
(* that relates the file, the draft of the writer and where each session   *)
(* is; and StateStore implements RunLog: what is committed to the file is  *)
(* a log of whole runs.                                                    *)
(***************************************************************************)
EXTENDS StateStore, SequenceTheorems, TLAPS

Rows == Seq([run : Sessions, outcome : {"none", "ok", "error"}])

Plays == SUBSET [run : Sessions, at : Nat]

\* A file is what its five fields are.
LEMMA FileFields ==
    ASSUME NEW f \in File
    PROVE  /\ f.tables \in 0 .. Tables /\ f.stamped \in BOOLEAN
           /\ f.hash \in SUBSET Expressions
           /\ f.plays \in Plays /\ f.rows \in Rows
  BY DEF File, Rows, Plays

\* One field of a file changed.
LEMMA FileExcept ==
    ASSUME NEW f \in File, NEW t \in 0 .. Tables, NEW b \in BOOLEAN,
           NEW h \in SUBSET Expressions, NEW p \in Plays, NEW r \in Rows
    PROVE  /\ [f EXCEPT !.tables = t] \in File
           /\ [f EXCEPT !.stamped = b] \in File
           /\ [f EXCEPT !.hash = h] \in File
           /\ [f EXCEPT !.plays = p] \in File
           /\ [f EXCEPT !.rows = r] \in File
  BY DEF File, Rows, Plays

LEMMA FileWithRows ==
    ASSUME NEW f \in File, NEW r \in Rows PROVE [f EXCEPT !.rows = r] \in File
  BY FileFields, FileExcept

LEMMA EmptyFile == Empty \in File
  BY StateStoreAssumption, EmptySeq DEF File, Empty

\* The fields a change of one field leaves alone.
LEMMA GotoType ==
    ASSUME session \in [Sessions -> SessionType], NEW s \in Sessions,
           NEW pc \in {"idle", "opening", "script", "open", "started", "days",
                       "finish", "commit"} \cup Over,
           session' = [session EXCEPT ![s].pc = pc]
    PROVE  session' \in [Sessions -> SessionType]
  <1>1. [session[s] EXCEPT !.pc = pc] \in SessionType
    BY DEF SessionType
  <1>. QED  BY <1>1

LEMMA ToFinish ==
    ASSUME session \in [Sessions -> SessionType], NEW s \in Sessions,
           NEW o \in {"ok", "error"},
           session' = [session EXCEPT ![s].pc = "finish", ![s].outcome = o]
    PROVE  session' \in [Sessions -> SessionType]
  <1>1. [session[s] EXCEPT !.pc = "finish"] \in SessionType
    BY DEF SessionType
  <1>2. [[session[s] EXCEPT !.pc = "finish"] EXCEPT !.outcome = o] \in SessionType
    BY <1>1 DEF SessionType
  <1>3. session' = [session EXCEPT ![s] =
                      [[session[s] EXCEPT !.pc = "finish"] EXCEPT !.outcome = o]]
    OBVIOUS
  <1>. QED  BY <1>2, <1>3

\* What finish_run makes of the rows is a sequence of rows, as long.
LEMMA FinishedRows ==
    ASSUME NEW q \in Rows, NEW s \in Sessions, NEW o \in {"none", "ok", "error"}
    PROVE  LET f == [i \in DOMAIN q |-> IF q[i].run = s THEN Row(s, o) ELSE q[i]]
           IN  /\ f \in Rows /\ Len(f) = Len(q) /\ DOMAIN f = DOMAIN q
  <1> DEFINE T == [run : Sessions, outcome : {"none", "ok", "error"}]
             f == [i \in DOMAIN q |-> IF q[i].run = s THEN Row(s, o) ELSE q[i]]
  <1>1. q \in [1 .. Len(q) -> T] /\ Len(q) \in Nat /\ DOMAIN q = 1 .. Len(q)
    <2>1. q \in Seq(T)
      BY DEF Rows
    <2>. QED  BY <2>1, LenProperties
  <1>2. \A i \in DOMAIN q : f[i] \in T
    BY <1>1 DEF Row
  <1>3. f \in [1 .. Len(q) -> T]
    BY <1>1, <1>2
  <1>4. f \in Seq(T) /\ Len(f) = Len(q)
    BY <1>1, <1>3, SeqDef, LenProperties
  <1>. QED  BY <1>1, <1>3, <1>4 DEF Rows

LEMMA AppendedRow ==
    ASSUME NEW q \in Rows, NEW s \in Sessions, NEW o \in {"none", "ok", "error"}
    PROVE  /\ Append(q, Row(s, o)) \in Rows
           /\ Len(Append(q, Row(s, o))) = Len(q) + 1
           /\ \A i \in 1 .. Len(q) : Append(q, Row(s, o))[i] = q[i]
           /\ Append(q, Row(s, o))[Len(q) + 1] = Row(s, o)
  <1>1. Row(s, o) \in [run : Sessions, outcome : {"none", "ok", "error"}]
    BY DEF Row
  <1>. QED  BY <1>1, AppendProperties DEF Rows

-----------------------------------------------------------------------------
LEMMA TypeInit == Init => TypeOK
  <1>1. Idle \in SessionType
    BY StateStoreAssumption DEF Idle, SessionType, Over
  <1>2. ASSUME Init PROVE session \in [Sessions -> SessionType]
    BY <1>1, <1>2 DEF Init
  <1>3. ASSUME Init
        PROVE  /\ today \in Nat /\ faults \in Nat
               /\ db \in File /\ draft \in File
               /\ damaged \in BOOLEAN
               /\ writer \in Sessions \cup {NoSession}
    <2> HIDE DEF File
    <2>. QED  BY <1>3, EmptyFile DEF Init
  <1>. QED  BY <1>2, <1>3 DEF TypeOK

LEMMA TypeStep == TypeOK /\ [Next]_vars => TypeOK'
  <1> SUFFICES ASSUME TypeOK, [Next]_vars PROVE TypeOK'
    OBVIOUS
  <1> USE DEF TypeOK
  <1>1. CASE UNCHANGED vars
    BY <1>1 DEF vars, env
  <1>2. ASSUME NEW s \in Sessions, Connect(s) PROVE TypeOK'
    <2>1. session' \in [Sessions -> SessionType]
      BY <1>2 DEF Connect, SessionType
    <2>2. db' \in File
      BY <1>2, EmptyFile DEF Connect
    <2>. QED  BY <1>2, <2>1, <2>2 DEF Connect, env
  <1>3. ASSUME NEW s \in Sessions, FindStamp(s) PROVE TypeOK'
    BY <1>3, GotoType DEF FindStamp, Goto, env
  <1>4. ASSUME NEW s \in Sessions, FindNoStamp(s) PROVE TypeOK'
    BY <1>4, GotoType DEF FindNoStamp, Goto, env
  <1>5. ASSUME NEW s \in Sessions, CreateTable(s) PROVE TypeOK'
    <2>1. session[s].script \in 0 .. Tables /\ db.tables \in 0 .. Tables
      BY DEF File, SessionType
    <2>2. db.tables + 1 \in 0 .. Tables /\ session[s].script + 1 \in 0 .. Tables
      BY <1>5, <2>1, StateStoreAssumption DEF CreateTable
    <2>3. db' \in File
      BY <1>5, <2>2, FileExcept, FileFields DEF CreateTable
    <2>4. [session[s] EXCEPT !.script = session[s].script + 1] \in SessionType
      BY <2>2 DEF SessionType
    <2>5. session' \in [Sessions -> SessionType]
      BY <1>5, <2>4 DEF CreateTable
    <2>. QED  BY <1>5, <2>3, <2>5 DEF CreateTable, env
  <1>6. ASSUME NEW s \in Sessions, TableExists(s) PROVE TypeOK'
    BY <1>6, GotoType DEF TableExists, Goto, env, Over
  <1>7. ASSUME NEW s \in Sessions, InsertStamp(s) PROVE TypeOK'
    <2>1. db' \in File
      BY <1>7, FileExcept, FileFields DEF InsertStamp
    <2>. QED  BY <1>7, <2>1, GotoType DEF InsertStamp, Goto, env
  <1>8. ASSUME NEW s \in Sessions, ReadLastRun(s) PROVE TypeOK'
    BY <1>8, GotoType DEF ReadLastRun, Goto, env, Over
  <1>9. ASSUME NEW s \in Sessions, StartRun(s) PROVE TypeOK'
    <2>1. draft' \in File
      <3>1. Append(db.rows, Row(s, "none")) \in Rows
        BY FileFields, AppendedRow
      <3> DEFINE rows == Append(db.rows, Row(s, "none"))
      <3>2. draft' = [db EXCEPT !.rows = rows]
        BY <1>9 DEF StartRun
      <3> HIDE DEF rows
      <3>. QED  BY <3>1, <3>2, FileWithRows DEF rows
    <2>2. session' \in [Sessions -> SessionType]
      BY <1>9, GotoType DEF StartRun, Goto
    <2>. QED  BY <1>9, <2>1, <2>2 DEF StartRun, env
  <1>10. ASSUME NEW s \in Sessions, LockTimeout(s) PROVE TypeOK'
    BY <1>10, GotoType DEF LockTimeout, Goto, env, Over
  <1>11. ASSUME NEW s \in Sessions, InitCursors(s) PROVE TypeOK'
    <2>1. session[s].expr \in SUBSET Expressions
      BY DEF SessionType
    <2>2. draft' \in File
      BY <1>11, <2>1, FileExcept, FileFields DEF InitCursors
    <2>. QED  BY <1>11, <2>2, GotoType DEF InitCursors, Goto, env
  <1>12. ASSUME NEW s \in Sessions, RecordPlays(s) PROVE TypeOK'
    <2>1. draft.plays \cup {[run |-> s, at |-> today]} \in Plays
      BY FileFields DEF Plays
    <2>2. draft' \in File
      <3> DEFINE p == draft.plays \cup {[run |-> s, at |-> today]}
      <3>1. p \in Plays
        BY <2>1
      <3>2. draft' = [draft EXCEPT !.plays = p]
        BY <1>12 DEF RecordPlays
      <3> HIDE DEF p
      <3>. QED  BY <3>1, <3>2, FileExcept, FileFields
    <2>. QED  BY <1>12, <2>2 DEF RecordPlays, env
  <1>13. ASSUME NEW s \in Sessions, Prune(s) PROVE TypeOK'
    <2>1. {p \in draft.plays : p.at >= today - TTL} \in Plays
      BY FileFields DEF Plays
    <2>2. draft' \in File
      <3>1. [draft EXCEPT !.plays = {p \in draft.plays : p.at >= today - TTL}]
              \in File
        BY <2>1, FileExcept, FileFields
      <3>. QED  BY <1>13, <3>1 DEF Prune
    <2>3. session' \in [Sessions -> SessionType]
      BY <1>13, ToFinish DEF Prune
    <2>. QED  BY <1>13, <2>2, <2>3 DEF Prune, env
  <1>14. ASSUME NEW s \in Sessions, BodyRaises(s) PROVE TypeOK'
    <2>1. session' \in [Sessions -> SessionType]
      BY <1>14, ToFinish DEF BodyRaises
    <2>. QED  BY <1>14, <2>1 DEF BodyRaises, env
  <1>15. ASSUME NEW s \in Sessions, FinishRun(s) PROVE TypeOK'
    <2>1. session[s].outcome \in {"none", "ok", "error"}
      BY DEF SessionType
    <2>2. draft' \in File
      <3> DEFINE f == [i \in DOMAIN draft.rows |->
                        IF draft.rows[i].run = s THEN Row(s, session[s].outcome)
                                                 ELSE draft.rows[i]]
      <3>1. f \in Rows
        <4>1. draft.rows \in Rows
          BY FileFields
        <4>. QED  BY <2>1, <4>1, FinishedRows
      <3>2. draft' = [draft EXCEPT !.rows = f] /\ draft \in File
        BY <1>15 DEF FinishRun
      <3> HIDE DEF f, File
      <3>3. [draft EXCEPT !.rows = f] \in File
        BY <3>1, <3>2, FileWithRows
      <3>. QED  BY <3>2, <3>3
    <2>. QED  BY <1>15, <2>2, GotoType DEF FinishRun, Goto, env
  <1>16. ASSUME NEW s \in Sessions, Commit(s) PROVE TypeOK'
    BY <1>16, EmptyFile, GotoType DEF Commit, Goto, env, Over
  <1>17. ASSUME NEW s \in Sessions, Rollback(s) PROVE TypeOK'
    BY <1>17, EmptyFile, GotoType DEF Rollback, Goto, env, Over
  <1>18. ASSUME NEW s \in Sessions, Crash(s) PROVE TypeOK'
    BY <1>18, EmptyFile, GotoType DEF Crash, Goto, env, Over
  <1>19. CASE Damage
    BY <1>19 DEF Damage
  <1>20. CASE NextDay
    BY <1>20 DEF NextDay
  <1>. QED
    BY <1>1, <1>2, <1>3, <1>4, <1>5, <1>6, <1>7, <1>8, <1>9, <1>10, <1>11,
       <1>12, <1>13, <1>14, <1>15, <1>16, <1>17, <1>18, <1>19, <1>20
       DEF Next, Open, Body

\* The file, the draft and every session keep their types (state.py).
THEOREM TypeCorrect == Spec => []TypeOK
  BY TypeInit, TypeStep, PTL DEF Spec

-----------------------------------------------------------------------------
(* The inductive invariant.  What is in the file can only change under the *)
(* write lock, so most of it is about the one writer and its draft.        *)

\* A file is damaged only while nobody has it open.
Lone == damaged => \A s \in Sessions : session[s].pc \in Over \cup {"idle"}

\* Who has opened the file finds the version row in it.
Opened == \A s \in Sessions : At(s, "open") \/ InBody(s) => db.stamped

\* The write lock is held by the one session in the body, if there is one.
Locked == \A s \in Sessions : InBody(s) <=> writer = s

\* What a session has run of the schema script is in the file.
Scripted ==
    \A s \in Sessions :
        /\ At(s, "script") => session[s].script <= db.tables
        /\ session[s].pc \in {"idle", "opening"} => session[s].script = 0

\* The rows of the file are of sessions that have closed it.
RowsClosed ==
    \A i \in DOMAIN db.rows :
        /\ session[db.rows[i].run].pc = "closed"
        /\ db.rows[i].outcome # "none"

\* A session that is to finish its row has an outcome for it.
HasOutcome ==
    \A s \in Sessions :
        session[s].pc \in {"finish", "commit"} => session[s].outcome # "none"

\* The draft has the whole schema ...
DraftStamped == writer # NoSession => draft.stamped /\ draft.tables = Tables

\* ... the rows of the file and then the writer's ...
DraftRows ==
    writer # NoSession =>
        /\ Len(draft.rows) = Len(db.rows) + 1
        /\ \A i \in 1 .. Len(db.rows) : draft.rows[i] = db.rows[i]
        /\ draft.rows[Len(db.rows) + 1].run = writer
        /\ At(writer, "commit") =>
              draft.rows[Len(db.rows) + 1].outcome = session[writer].outcome

\* ... plays of runs that have a row ...
DraftPlays ==
    writer # NoSession =>
        \A p \in draft.plays : \E i \in DOMAIN draft.rows :
            draft.rows[i].run = p.run

\* ... and the writer's query, once the cursors are set.
DraftHash ==
    \A s \in Sessions :
        \/ At(s, "days")
        \/ session[s].pc \in {"finish", "commit"} /\ session[s].outcome = "ok"
        => draft.hash = session[s].expr

IInv ==
    /\ Lone /\ Opened /\ Locked /\ Scripted
    /\ RowsClosed /\ HasOutcome
    /\ DraftStamped /\ DraftRows /\ DraftPlays /\ DraftHash
    /\ StampMeansComplete /\ PlaysComeWithTheirRun /\ HashIsOfTheLastRun

\* What a sequence of rows gives.
LEMMA RowsAreRows ==
    ASSUME NEW q \in Rows
    PROVE  /\ Len(q) \in Nat /\ DOMAIN q = 1 .. Len(q)
           /\ \A i \in DOMAIN q : /\ q[i].run \in Sessions
                                  /\ q[i].outcome \in {"none", "ok", "error"}
  <1>1. q \in [1 .. Len(q) -> [run : Sessions,
                               outcome : {"none", "ok", "error"}]]
    BY LenProperties DEF Rows
  <1>. QED  BY <1>1, LenProperties DEF Rows

\* The parts of the type invariant the steps below use.
LEMMA Typed ==
    ASSUME TypeOK
    PROVE  /\ db.rows \in Rows /\ draft.rows \in Rows
           /\ db.tables \in 0 .. Tables /\ draft.tables \in 0 .. Tables
           /\ writer \in Sessions \cup {NoSession}
           /\ session \in [Sessions -> SessionType]
           /\ \A s \in Sessions : session[s].script \in 0 .. Tables
           /\ NoSession \notin Sessions /\ Tables \in Nat \ {0}
  <1>1. db \in File /\ draft \in File
    BY DEF TypeOK
  <1>2. session \in [Sessions -> SessionType] /\ writer \in Sessions \cup {NoSession}
    BY DEF TypeOK
  <1>3. \A s \in Sessions : session[s].script \in 0 .. Tables
    BY <1>2 DEF SessionType
  <1>. QED  BY <1>1, <1>2, <1>3, FileFields, StateStoreAssumption

LEMMA InvInit == Init => IInv
  <1> SUFFICES ASSUME Init PROVE IInv
    OBVIOUS
  <1>1. /\ \A s \in Sessions : session[s] = Idle
        /\ db = Empty /\ damaged = FALSE /\ writer = NoSession
        /\ draft = Empty
    BY DEF Init
  <1>2. \A s \in Sessions : session[s].pc = "idle" /\ session[s].script = 0
    <2>1. Idle.pc = "idle" /\ Idle.script = 0
      BY DEF Idle
    <2>. QED  BY <1>1, <2>1
  <1>3. /\ db.rows = << >> /\ db.plays = {} /\ ~db.stamped
        /\ DOMAIN db.rows = {} /\ Len(db.rows) = 0
    BY <1>1 DEF Empty
  <1>4. Lone /\ Opened /\ Locked /\ Scripted
    BY <1>1, <1>2, StateStoreAssumption
       DEF Lone, Opened, Locked, Scripted, At, InBody, Over
  <1>5. RowsClosed /\ HasOutcome /\ PlaysComeWithTheirRun
    BY <1>2, <1>3 DEF RowsClosed, HasOutcome, PlaysComeWithTheirRun
  <1>6. DraftStamped /\ DraftRows /\ DraftPlays
    BY <1>1 DEF DraftStamped, DraftRows, DraftPlays
  <1>7. DraftHash /\ StampMeansComplete /\ HashIsOfTheLastRun
    BY <1>2, <1>3 DEF DraftHash, StampMeansComplete, HashIsOfTheLastRun, At
  <1>. QED  BY <1>4, <1>5, <1>6, <1>7 DEF IInv

\* A step of a session outside the body changes nothing but where it is.
LEMMA OutsideStep ==
    ASSUME TypeOK, IInv, NEW s \in Sessions,
           NEW pc \in Over \cup {"script", "open"},
           session[s].pc \in {"opening", "script", "open"},
           pc = "script" => At(s, "opening"),
           pc = "open" => db.stamped,
           session' = [session EXCEPT ![s].pc = pc],
           UNCHANGED <<db, damaged, writer, draft>>
    PROVE  IInv'
  <1> USE Typed
  <1>1. /\ session' \in [Sessions -> SessionType] /\ session'[s].pc = pc
        /\ \A t \in Sessions : /\ session'[t].expr = session[t].expr
                               /\ session'[t].script = session[t].script
                               /\ session'[t].outcome = session[t].outcome
                               /\ t # s => session'[t] = session[t]
    BY GotoType DEF SessionType
  <1>2. \A t \in Sessions :
          /\ InBody(t)' <=> InBody(t)
          /\ session[t].pc = "closed" => session'[t].pc = "closed"
          /\ session'[t].pc \in {"finish", "commit"}
                => session'[t] = session[t]
          /\ session'[t].pc = "days" => session'[t] = session[t]
    BY <1>1 DEF InBody, Over
  <1>3. ~damaged
    BY DEF IInv, Lone, Over
  <1>4. Lone' /\ Locked' /\ HasOutcome' /\ DraftStamped'
    BY <1>1, <1>2, <1>3
       DEF IInv, Lone, Locked, HasOutcome, DraftStamped, At
  <1>5. Opened' /\ Scripted'
    BY <1>1, <1>2 DEF IInv, Opened, Scripted, At, Over
  <1>6. RowsClosed' /\ PlaysComeWithTheirRun' /\ StampMeansComplete'
    BY <1>2, RowsAreRows
       DEF IInv, RowsClosed, PlaysComeWithTheirRun, StampMeansComplete
  <1>7. DraftRows'
    BY <1>1, <1>2 DEF IInv, DraftRows, At
  <1>8. DraftPlays' /\ DraftHash'
    <2>1. DraftPlays'
      BY <1>1, <1>2 DEF IInv, DraftPlays, At
    <2>2. DraftHash'
      BY <1>1, <1>2 DEF IInv, DraftHash, At
    <2>. QED  BY <2>1, <2>2
  <1>9. HashIsOfTheLastRun'
    BY <1>1, RowsAreRows DEF IInv, HashIsOfTheLastRun
  <1>. QED
    BY <1>4, <1>5, <1>6, <1>7, <1>8, <1>9 DEF IInv

\* A connection: a damaged file is replaced by an empty one.
LEMMA ConnectStep ==
    ASSUME TypeOK, IInv, NEW s \in Sessions, Connect(s)
    PROVE  IInv'
  <1> USE Typed
  <1>1. /\ session'[s].pc = "opening" /\ session'[s].script = 0
        /\ session[s].pc = "idle"
        /\ \A t \in Sessions : t # s => session'[t] = session[t]
    BY DEF Connect, At, IInv, Scripted, SessionType
  <1>2. damaged' = FALSE /\ writer' = writer /\ draft' = draft
    BY DEF Connect
  <1>3. writer # s
    BY <1>1 DEF IInv, Locked, InBody
  <1>4. \A t \in Sessions : InBody(t)' <=> InBody(t)
    BY <1>1 DEF InBody
  <1>5. Lone' /\ Locked' /\ HasOutcome' /\ DraftHash'
    BY <1>1, <1>2, <1>4 DEF IInv, Lone, Locked, HasOutcome, DraftHash, At
  <1>6. CASE damaged
    <2>1. /\ db' = Empty
          /\ \A t \in Sessions : session[t].pc \in Over \cup {"idle"}
      BY <1>6 DEF Connect, IInv, Lone
    <2>2. \A t \in Sessions : ~InBody(t) /\ ~At(t, "open") /\ ~At(t, "script")
                              /\ ~At(t, "opening")
      BY <2>1 DEF InBody, At, Over
    <2>3. writer = NoSession
      BY <2>2 DEF IInv, Locked
    <2>4. /\ db'.rows = << >> /\ db'.plays = {} /\ ~db'.stamped
          /\ DOMAIN db'.rows = {} /\ Len(db'.rows) = 0 /\ db'.tables = 0
      BY <2>1 DEF Empty
    <2>5. Opened' /\ Scripted'
      BY <1>1, <2>2 DEF IInv, Opened, Scripted, At, InBody
    <2>6. RowsClosed' /\ PlaysComeWithTheirRun' /\ StampMeansComplete'
          /\ HashIsOfTheLastRun'
      BY <2>4 DEF RowsClosed, PlaysComeWithTheirRun, StampMeansComplete,
                  HashIsOfTheLastRun
    <2>7. DraftStamped' /\ DraftRows' /\ DraftPlays'
      BY <1>2, <2>3 DEF DraftStamped, DraftRows, DraftPlays
    <2>. QED  BY <1>5, <2>5, <2>6, <2>7 DEF IInv
  <1>7. CASE ~damaged
    <2>1. db' = db
      BY <1>7 DEF Connect
    <2>2. Opened' /\ Scripted' /\ StampMeansComplete'
      BY <1>1, <2>1 DEF IInv, Opened, Scripted, At, InBody, StampMeansComplete
    <2>3. RowsClosed' /\ PlaysComeWithTheirRun'
      BY <1>1, <2>1, RowsAreRows DEF IInv, RowsClosed, PlaysComeWithTheirRun
    <2>4. DraftStamped' /\ DraftRows' /\ DraftPlays'
      BY <1>1, <1>2, <1>3, <2>1
         DEF IInv, DraftStamped, DraftRows, DraftPlays, At
    <2>5. HashIsOfTheLastRun'
      <3>1. \A i \in DOMAIN db.rows : db.rows[i].run # s
        BY <1>1 DEF IInv, RowsClosed
      <3>. QED  BY <1>1, <2>1, <3>1, RowsAreRows DEF IInv, HashIsOfTheLastRun
    <2>. QED  BY <1>5, <2>2, <2>3, <2>4, <2>5 DEF IInv
  <1>. QED  BY <1>6, <1>7

\* A step of the schema script: no one is in the body while it is unfinished.
LEMMA CreateTableStep ==
    ASSUME TypeOK, IInv, NEW s \in Sessions, CreateTable(s)
    PROVE  IInv'
  <1> USE Typed
  <1>1. /\ session[s].pc = "script" /\ session'[s].pc = "script"
        /\ session'[s].script = session[s].script + 1
        /\ \A t \in Sessions : /\ session'[t].pc = session[t].pc
                               /\ session'[t].expr = session[t].expr
                               /\ session'[t].outcome = session[t].outcome
                               /\ t # s => session'[t] = session[t]
    BY DEF CreateTable, At, SessionType
  <1>2. /\ damaged' = damaged /\ writer' = writer /\ draft' = draft
        /\ db.tables = session[s].script /\ session[s].script < Tables
    BY DEF CreateTable
  <1>3. /\ db'.rows = db.rows /\ db'.plays = db.plays /\ db'.hash = db.hash
        /\ db'.stamped = db.stamped /\ db'.tables = db.tables + 1
    <2>1. db \in File
      BY DEF TypeOK
    <2>. QED  BY <2>1 DEF CreateTable, File
  <1>4. ~db.stamped
    BY <1>2 DEF IInv, StampMeansComplete
  <1>5. writer = NoSession /\ \A t \in Sessions : ~InBody(t)
    BY <1>4 DEF IInv, Opened, Locked
  <1>6. Lone' /\ Opened' /\ Locked' /\ Scripted'
    BY <1>1, <1>2, <1>3
       DEF IInv, Lone, Opened, Locked, Scripted, At, InBody, Over
  <1>7. RowsClosed' /\ HasOutcome' /\ PlaysComeWithTheirRun'
    <2>1. RowsClosed'
      BY <1>1, <1>3, RowsAreRows DEF IInv, RowsClosed
    <2>2. HasOutcome'
      BY <1>1 DEF IInv, HasOutcome
    <2>3. PlaysComeWithTheirRun'
      BY <1>3 DEF IInv, PlaysComeWithTheirRun
    <2>. QED  BY <2>1, <2>2, <2>3
  <1>8. DraftStamped' /\ DraftRows' /\ DraftPlays'
    BY <1>2, <1>5 DEF DraftStamped, DraftRows, DraftPlays
  <1>9. DraftHash' /\ StampMeansComplete'
    BY <1>1, <1>2, <1>3, <1>4 DEF IInv, DraftHash, StampMeansComplete, At
  <1>10. HashIsOfTheLastRun'
    BY <1>1, <1>3, RowsAreRows DEF IInv, HashIsOfTheLastRun
  <1>. QED  BY <1>6, <1>7, <1>8, <1>9, <1>10 DEF IInv

\* The version row: the script is through.
LEMMA InsertStampStep ==
    ASSUME TypeOK, IInv, NEW s \in Sessions, InsertStamp(s)
    PROVE  IInv'
  <1> USE Typed
  <1>1. /\ session[s].pc = "script" /\ session'[s].pc = "open"
        /\ \A t \in Sessions : /\ session'[t].expr = session[t].expr
                               /\ t # s => session'[t] = session[t]
    BY DEF InsertStamp, Goto, At, SessionType
  <1>2. /\ damaged' = damaged /\ writer' = NoSession /\ writer = NoSession
        /\ draft' = draft /\ session[s].script = Tables
    BY DEF InsertStamp
  <1>3. /\ db'.rows = db.rows /\ db'.plays = db.plays /\ db'.hash = db.hash
        /\ db'.stamped = TRUE /\ db'.tables = db.tables
    <2>1. db \in File
      BY DEF TypeOK
    <2>. QED  BY <2>1 DEF InsertStamp, File
  <1>4. ~damaged
    BY <1>1 DEF IInv, Lone, Over
  <1>5. Lone' /\ Opened' /\ Locked' /\ Scripted'
    BY <1>1, <1>2, <1>3, <1>4
       DEF IInv, Lone, Opened, Locked, Scripted, At, InBody
  <1>6. RowsClosed' /\ HasOutcome' /\ PlaysComeWithTheirRun'
    <2>1. RowsClosed'
      BY <1>1, <1>3, RowsAreRows DEF IInv, RowsClosed
    <2>2. HasOutcome' /\ PlaysComeWithTheirRun'
      BY <1>1, <1>3 DEF IInv, HasOutcome, PlaysComeWithTheirRun
    <2>. QED  BY <2>1, <2>2
  <1>7. DraftStamped' /\ DraftRows' /\ DraftPlays'
    BY <1>2 DEF DraftStamped, DraftRows, DraftPlays
  <1>8. DraftHash' /\ StampMeansComplete'
    BY <1>1, <1>2, <1>3 DEF IInv, DraftHash, Scripted, StampMeansComplete, At
  <1>9. HashIsOfTheLastRun'
    BY <1>1, <1>3, RowsAreRows DEF IInv, HashIsOfTheLastRun
  <1>. QED  BY <1>5, <1>6, <1>7, <1>8, <1>9 DEF IInv

\* A step of the writer that touches the draft only: what is about the file
\* is as before.
LEMMA BodyFrame ==
    ASSUME TypeOK, IInv, NEW s \in Sessions,
           InBody(s), InBody(s)',
           session' \in [Sessions -> SessionType],
           session'[s].expr = session[s].expr,
           \A t \in Sessions : t # s => session'[t] = session[t],
           UNCHANGED <<db, damaged, writer>>
    PROVE  /\ Lone' /\ Opened' /\ Locked' /\ Scripted' /\ RowsClosed'
           /\ StampMeansComplete' /\ PlaysComeWithTheirRun'
           /\ HashIsOfTheLastRun'
           /\ writer = s /\ s # NoSession
           /\ \A t \in Sessions : t # s => ~InBody(t)
  <1> USE Typed
  <1>1. /\ writer = s /\ s # NoSession /\ db.stamped
        /\ \A t \in Sessions : t # s => ~InBody(t)
    BY DEF IInv, Locked, Opened
  <1>2. ~damaged
    BY DEF IInv, Lone, Over, InBody
  <1>3. \A i \in DOMAIN db.rows : db.rows[i].run # s
    BY DEF IInv, RowsClosed, InBody
  <1>4. Lone' /\ Opened' /\ Locked'
    BY <1>1, <1>2 DEF IInv, Lone, Opened, Locked, At, InBody
  <1>5. Scripted' /\ StampMeansComplete' /\ PlaysComeWithTheirRun'
    BY DEF IInv, Scripted, StampMeansComplete, PlaysComeWithTheirRun, At, InBody
  <1>6. RowsClosed'
    BY <1>3, RowsAreRows DEF IInv, RowsClosed
  <1>7. HashIsOfTheLastRun'
    <2>1. \A t \in Sessions : session'[t].expr = session[t].expr
      OBVIOUS
    <2>2. HashIsOfTheLastRun
      BY DEF IInv
    <2>3. Len(db.rows) > 0 => db.rows[Len(db.rows)].run \in Sessions
      BY RowsAreRows
    <2>. QED  BY <2>1, <2>2, <2>3 DEF HashIsOfTheLastRun
  <1>. QED  BY <1>1, <1>4, <1>5, <1>6, <1>7

LEMMA InitCursorsStep ==
    ASSUME TypeOK, IInv, NEW s \in Sessions, InitCursors(s)
    PROVE  IInv'
  <1>1. /\ session[s].pc = "started" /\ session'[s].pc = "days"
        /\ session'[s].expr = session[s].expr
        /\ \A t \in Sessions : t # s => session'[t] = session[t]
    BY Typed DEF InitCursors, Goto, At, SessionType
  <1>2. UNCHANGED <<db, damaged, writer>>
    BY DEF InitCursors
  <1>3. /\ draft'.rows = draft.rows /\ draft'.plays = draft.plays
        /\ draft'.stamped = draft.stamped /\ draft'.tables = draft.tables
        /\ draft'.hash = session[s].expr
    <2>1. draft \in File
      BY DEF TypeOK
    <2>. QED  BY <2>1 DEF InitCursors, File
  <1>4. session' \in [Sessions -> SessionType]
    BY Typed, GotoType DEF InitCursors, Goto
  <1>5. InBody(s) /\ InBody(s)'
    BY <1>1 DEF InBody
  <1>6. /\ Lone' /\ Opened' /\ Locked' /\ Scripted' /\ RowsClosed'
        /\ StampMeansComplete' /\ PlaysComeWithTheirRun' /\ HashIsOfTheLastRun'
        /\ writer = s /\ s # NoSession
        /\ \A t \in Sessions : t # s => ~InBody(t)
    BY <1>1, <1>2, <1>4, <1>5, BodyFrame
  <1>7. HasOutcome' /\ DraftStamped' /\ DraftPlays'
    BY <1>1, <1>2, <1>3, <1>6
       DEF IInv, HasOutcome, DraftStamped, DraftPlays
  <1>8. DraftRows'
    BY <1>1, <1>2, <1>3, <1>6 DEF IInv, DraftRows, At
  <1>9. DraftHash'
    BY <1>1, <1>3, <1>6 DEF IInv, DraftHash, At, InBody
  <1>. QED  BY <1>6, <1>7, <1>8, <1>9 DEF IInv

LEMMA RecordPlaysStep ==
    ASSUME TypeOK, IInv, NEW s \in Sessions, RecordPlays(s)
    PROVE  IInv'
  <1> DEFINE play == [run |-> s, at |-> today]
  <1>1. session[s].pc = "days" /\ session' = session
    BY DEF RecordPlays, At
  <1>2. UNCHANGED <<db, damaged, writer>>
    BY DEF RecordPlays
  <1>3. /\ draft'.rows = draft.rows /\ draft'.hash = draft.hash
        /\ draft'.stamped = draft.stamped /\ draft'.tables = draft.tables
        /\ draft'.plays = draft.plays \cup {play}
    <2>1. draft \in File
      BY DEF TypeOK
    <2>. QED  BY <2>1 DEF RecordPlays, File
  <1>4. InBody(s) /\ InBody(s)'
    BY <1>1 DEF InBody
  <1>5. /\ Lone' /\ Opened' /\ Locked' /\ Scripted' /\ RowsClosed'
        /\ StampMeansComplete' /\ PlaysComeWithTheirRun' /\ HashIsOfTheLastRun'
        /\ writer = s /\ s # NoSession
    BY <1>1, <1>2, <1>4, BodyFrame, Typed
  <1>6. HasOutcome' /\ DraftStamped' /\ DraftRows' /\ DraftHash'
    BY <1>1, <1>2, <1>3
       DEF IInv, HasOutcome, DraftStamped, DraftRows, DraftHash, At
  <1>7. DraftPlays'
    <2>1. /\ Len(db.rows) + 1 \in DOMAIN draft.rows
          /\ draft.rows[Len(db.rows) + 1].run = s
      BY <1>5, Typed, RowsAreRows DEF IInv, DraftRows
    <2>2. \A p \in draft.plays : \E i \in DOMAIN draft.rows :
              draft.rows[i].run = p.run
      BY <1>5 DEF IInv, DraftPlays
    <2>3. play.run = s
      OBVIOUS
    <2> HIDE DEF play
    <2>. QED  BY <1>2, <1>3, <2>1, <2>2, <2>3 DEF DraftPlays
  <1>. QED  BY <1>5, <1>6, <1>7 DEF IInv

\* The last day done, or an exception: the run has its outcome.
LEMMA EndsStep ==
    ASSUME TypeOK, IInv, NEW s \in Sessions, Prune(s) \/ BodyRaises(s)
    PROVE  IInv'
  <1>1. /\ InBody(s) /\ session'[s].pc = "finish"
        /\ session'[s].expr = session[s].expr
        /\ session'[s].outcome # "none"
        /\ session'[s].outcome = "ok" => At(s, "days")
        /\ \A t \in Sessions : t # s => session'[t] = session[t]
        /\ session' \in [Sessions -> SessionType]
    <2>1. CASE Prune(s)
      BY <2>1, Typed, ToFinish DEF Prune, At, InBody, SessionType
    <2>2. CASE BodyRaises(s)
      BY <2>2, Typed, ToFinish DEF BodyRaises, At, InBody, SessionType
    <2>. QED  BY <2>1, <2>2
  <1>2. UNCHANGED <<db, damaged, writer>>
    BY DEF Prune, BodyRaises
  <1>3. /\ draft'.rows = draft.rows /\ draft'.hash = draft.hash
        /\ draft'.stamped = draft.stamped /\ draft'.tables = draft.tables
        /\ draft'.plays \subseteq draft.plays
    <2>1. draft \in File
      BY DEF TypeOK
    <2>. QED  BY <2>1 DEF Prune, BodyRaises, File
  <1>4. InBody(s)'
    BY <1>1 DEF InBody
  <1>5. /\ Lone' /\ Opened' /\ Locked' /\ Scripted' /\ RowsClosed'
        /\ StampMeansComplete' /\ PlaysComeWithTheirRun' /\ HashIsOfTheLastRun'
        /\ writer = s /\ s # NoSession
        /\ \A t \in Sessions : t # s => ~InBody(t)
    BY <1>1, <1>2, <1>4, BodyFrame
  <1>6. HasOutcome' /\ DraftStamped'
    BY <1>1, <1>2, <1>3 DEF IInv, HasOutcome, DraftStamped
  <1>7. DraftRows' /\ DraftPlays'
    BY <1>1, <1>2, <1>3, <1>5 DEF IInv, DraftRows, DraftPlays, At
  <1>8. DraftHash'
    BY <1>1, <1>3, <1>5 DEF IInv, DraftHash, At, InBody
  <1>. QED  BY <1>5, <1>6, <1>7, <1>8 DEF IInv

LEMMA FinishRunStep ==
    ASSUME TypeOK, IInv, NEW s \in Sessions, FinishRun(s)
    PROVE  IInv'
  <1> DEFINE n == Len(db.rows)
             f == [i \in DOMAIN draft.rows |->
                     IF draft.rows[i].run = s THEN Row(s, session[s].outcome)
                                              ELSE draft.rows[i]]
  <1>1. /\ session[s].pc = "finish" /\ session'[s].pc = "commit"
        /\ session'[s].expr = session[s].expr
        /\ session'[s].outcome = session[s].outcome
        /\ \A t \in Sessions : t # s => session'[t] = session[t]
    BY Typed DEF FinishRun, Goto, At, SessionType
  <1>2. UNCHANGED <<db, damaged, writer>>
    BY DEF FinishRun
  <1>3. /\ draft'.rows = f /\ draft'.plays = draft.plays
        /\ draft'.stamped = draft.stamped /\ draft'.tables = draft.tables
        /\ draft'.hash = draft.hash
    <2>1. draft \in File
      BY DEF TypeOK
    <2>. QED  BY <2>1 DEF FinishRun, File
  <1>4. session' \in [Sessions -> SessionType]
    BY Typed, GotoType DEF FinishRun, Goto
  <1>5. InBody(s) /\ InBody(s)'
    BY <1>1 DEF InBody
  <1>6. /\ Lone' /\ Opened' /\ Locked' /\ Scripted' /\ RowsClosed'
        /\ StampMeansComplete' /\ PlaysComeWithTheirRun' /\ HashIsOfTheLastRun'
        /\ writer = s /\ s # NoSession
        /\ \A t \in Sessions : t # s => ~InBody(t)
    BY <1>1, <1>2, <1>4, <1>5, BodyFrame
  <1>7. /\ Len(f) = Len(draft.rows) /\ DOMAIN f = DOMAIN draft.rows
        /\ DOMAIN draft.rows = 1 .. Len(draft.rows)
    <2>1. session[s].outcome \in {"none", "ok", "error"}
      BY Typed DEF SessionType
    <2>. QED  BY <2>1, Typed, FinishedRows, RowsAreRows
  <1>8. /\ Len(draft.rows) = n + 1 /\ draft.rows[n + 1].run = s /\ n \in Nat
        /\ \A i \in 1 .. n : draft.rows[i] = db.rows[i]
    BY <1>6, Typed, RowsAreRows DEF IInv, DraftRows
  <1>9. \A i \in 1 .. n : db.rows[i].run # s
    BY <1>1, Typed, RowsAreRows DEF IInv, RowsClosed
  <1>10. /\ \A i \in 1 .. n : f[i] = db.rows[i]
         /\ f[n + 1] = Row(s, session[s].outcome)
    BY <1>7, <1>8, <1>9
  <1>11. \A i \in DOMAIN draft.rows : f[i].run = draft.rows[i].run
    BY DEF Row
  <1>12. Row(s, session[s].outcome).run = s
         /\ Row(s, session[s].outcome).outcome = session[s].outcome
    BY DEF Row
  <1> HIDE DEF f
  <1>13. DraftRows'
    BY <1>1, <1>2, <1>3, <1>6, <1>7, <1>8, <1>10, <1>12 DEF DraftRows, At
  <1>14. DraftPlays'
    BY <1>2, <1>3, <1>7, <1>11 DEF IInv, DraftPlays
  <1>15. HasOutcome' /\ DraftStamped'
    BY <1>1, <1>2, <1>3 DEF IInv, HasOutcome, DraftStamped
  <1>16. DraftHash'
    BY <1>1, <1>3, <1>6 DEF IInv, DraftHash, At, InBody
  <1>. QED  BY <1>6, <1>13, <1>14, <1>15, <1>16 DEF IInv

LEMMA StartRunStep ==
    ASSUME TypeOK, IInv, NEW s \in Sessions, StartRun(s)
    PROVE  IInv'
  <1> DEFINE n == Len(db.rows)
             q == Append(db.rows, Row(s, "none"))
  <1>1. /\ session[s].pc = "open" /\ session'[s].pc = "started"
        /\ session'[s].expr = session[s].expr
        /\ \A t \in Sessions : t # s => session'[t] = session[t]
        /\ session' \in [Sessions -> SessionType]
    BY Typed, GotoType DEF StartRun, Goto, At, SessionType
  <1>2. /\ UNCHANGED <<db, damaged>> /\ writer = NoSession /\ writer' = s
    BY DEF StartRun
  <1>3. /\ draft'.rows = q /\ draft'.plays = db.plays
        /\ draft'.stamped = db.stamped /\ draft'.tables = db.tables
    <2>1. db \in File
      BY DEF TypeOK
    <2>. QED  BY <2>1 DEF StartRun, File
  <1>4. /\ db.stamped /\ db.tables = Tables /\ ~damaged
    BY <1>1 DEF IInv, Opened, StampMeansComplete, Lone, Over, At
  <1>5. \A t \in Sessions : ~InBody(t)
    BY <1>2, Typed DEF IInv, Locked
  <1>6. Lone' /\ Opened' /\ Locked'
    BY <1>1, <1>2, <1>4, <1>5 DEF Lone, Opened, Locked, InBody
  <1>7. Scripted' /\ HasOutcome' /\ PlaysComeWithTheirRun' /\ StampMeansComplete'
    BY <1>1, <1>2
       DEF IInv, Scripted, HasOutcome, PlaysComeWithTheirRun, StampMeansComplete, At
  <1>8. RowsClosed'
    BY <1>1, <1>2, Typed, RowsAreRows DEF IInv, RowsClosed
  <1>9. HashIsOfTheLastRun'
    <2>1. \A t \in Sessions : session'[t].expr = session[t].expr
      BY <1>1
    <2>2. HashIsOfTheLastRun
      BY DEF IInv
    <2>3. Len(db.rows) > 0 => db.rows[Len(db.rows)].run \in Sessions
      BY Typed, RowsAreRows
    <2>. QED  BY <1>2, <2>1, <2>2, <2>3 DEF HashIsOfTheLastRun
  <1>10. DraftStamped' /\ DraftHash'
    BY <1>1, <1>3, <1>4, <1>5 DEF DraftStamped, DraftHash, At, InBody
  <1>11. /\ q \in Rows /\ Len(q) = n + 1 /\ n \in Nat
         /\ \A i \in 1 .. n : q[i] = db.rows[i]
         /\ q[n + 1] = Row(s, "none") /\ DOMAIN q = 1 .. n + 1
         /\ DOMAIN db.rows = 1 .. n
    <2>1. db.rows \in Rows
      BY Typed
    <2>2. /\ q \in Rows /\ Len(q) = n + 1
          /\ \A i \in 1 .. n : q[i] = db.rows[i]
          /\ q[n + 1] = Row(s, "none")
      BY <2>1, AppendedRow
    <2>3. n \in Nat /\ DOMAIN db.rows = 1 .. n
      BY <2>1, RowsAreRows
    <2> HIDE DEF q
    <2>4. DOMAIN q = 1 .. Len(q)
      BY <2>2, RowsAreRows
    <2>. QED  BY <2>2, <2>3, <2>4
  <1>12. Row(s, "none").run = s
    BY DEF Row
  <1> HIDE DEF q
  <1>13. DraftRows'
    BY <1>1, <1>2, <1>3, <1>11, <1>12 DEF DraftRows, At
  <1>14. DraftPlays'
    <2>1. \A p \in db.plays : \E i \in 1 .. n : db.rows[i].run = p.run
      BY <1>11 DEF IInv, PlaysComeWithTheirRun
    <2>2. \A p \in db.plays : \E i \in DOMAIN q : q[i].run = p.run
      BY <1>11, <2>1
    <2>. QED  BY <1>3, <2>2 DEF DraftPlays
  <1>. QED  BY <1>6, <1>7, <1>8, <1>9, <1>10, <1>13, <1>14 DEF IInv

LEMMA CommitStep ==
    ASSUME TypeOK, IInv, NEW s \in Sessions, Commit(s)
    PROVE  IInv' /\ IsPrefixOf(db.rows, db'.rows)
  <1> DEFINE n == Len(db.rows)
  <1>1. /\ session[s].pc = "commit" /\ session'[s].pc = "closed"
        /\ session'[s].expr = session[s].expr
        /\ session'[s].outcome = session[s].outcome
        /\ \A t \in Sessions : t # s => session'[t] = session[t]
    BY Typed DEF Commit, Goto, At, SessionType
  <1>2. /\ db' = draft /\ damaged' = damaged /\ writer' = NoSession
    BY DEF Commit
  <1>3. InBody(s)
    BY <1>1 DEF InBody
  <1>4. /\ writer = s /\ s # NoSession
        /\ \A t \in Sessions : t # s => ~InBody(t)
    BY <1>3, Typed DEF IInv, Locked
  <1>5. /\ Len(draft.rows) = n + 1 /\ n \in Nat
        /\ DOMAIN draft.rows = 1 .. n + 1 /\ DOMAIN db.rows = 1 .. n
        /\ \A i \in 1 .. n : draft.rows[i] = db.rows[i]
        /\ draft.rows[n + 1].run = s
        /\ draft.rows[n + 1].outcome = session[s].outcome
        /\ session[s].outcome # "none"
    BY <1>1, <1>4, Typed, RowsAreRows DEF IInv, DraftRows, HasOutcome, At
  <1>6. draft.stamped /\ draft.tables = Tables
    BY <1>4 DEF IInv, DraftStamped
  <1>7. ~damaged
    BY <1>1 DEF IInv, Lone, Over
  <1>8. Lone' /\ Opened' /\ Locked' /\ HasOutcome' /\ StampMeansComplete'
    BY <1>1, <1>2, <1>4, <1>6, <1>7, Typed
       DEF IInv, Lone, Opened, Locked, HasOutcome, StampMeansComplete, InBody
  <1>9. Scripted'
    <2>1. db'.tables = Tables
      BY <1>2, <1>6
    <2>. QED  BY <1>1, <2>1, Typed DEF IInv, Scripted, At
  <1>10. RowsClosed'
    <2>1. \A i \in 1 .. n : /\ session'[db.rows[i].run].pc = "closed"
                            /\ db.rows[i].outcome # "none"
      BY <1>1, <1>5, Typed, RowsAreRows DEF IInv, RowsClosed
    <2>2. \A i \in 1 .. n + 1 : i \in 1 .. n \/ i = n + 1
      BY <1>5
    <2>3. \A i \in 1 .. n + 1 : /\ session'[draft.rows[i].run].pc = "closed"
                                /\ draft.rows[i].outcome # "none"
      BY <1>1, <1>5, <2>1, <2>2
    <2>. QED  BY <1>2, <1>5, <2>3 DEF RowsClosed
  <1>11. PlaysComeWithTheirRun'
    BY <1>2, <1>4 DEF IInv, DraftPlays, PlaysComeWithTheirRun
  <1>12. DraftStamped' /\ DraftRows' /\ DraftPlays' /\ DraftHash'
    BY <1>1, <1>2, <1>4
       DEF DraftStamped, DraftRows, DraftPlays, DraftHash, At, InBody
  <1>13. HashIsOfTheLastRun'
    BY <1>1, <1>2, <1>5 DEF IInv, DraftHash, HashIsOfTheLastRun
  <1>14. IsPrefixOf(db.rows, db'.rows)
    BY <1>2, <1>5 DEF IsPrefixOf
  <1>. QED
    BY <1>8, <1>9, <1>10, <1>11, <1>12, <1>13, <1>14 DEF IInv

\* The writer gives up, or dies: the file is as it was.
LEMMA GiveUpStep ==
    ASSUME TypeOK, IInv, NEW s \in Sessions, InBody(s), writer' = NoSession,
           NEW pc \in {"closed", "crashed"}, Goto(s, pc),
           UNCHANGED <<db, damaged>>
    PROVE  IInv'
  <1>1. /\ session'[s].pc = pc /\ session'[s].expr = session[s].expr
        /\ \A t \in Sessions : t # s => session'[t] = session[t]
    BY Typed DEF Goto, SessionType
  <1>2. /\ writer = s
        /\ \A t \in Sessions : t # s => ~InBody(t)
    BY Typed DEF IInv, Locked
  <1>3. ~damaged
    BY DEF IInv, Lone, Over, InBody
  <1>4. Lone' /\ Opened' /\ Locked' /\ HasOutcome' /\ StampMeansComplete'
    BY <1>1, <1>2, <1>3, Typed
       DEF IInv, Lone, Opened, Locked, HasOutcome, StampMeansComplete, InBody, At
  <1>5. Scripted' /\ PlaysComeWithTheirRun'
    BY <1>1 DEF IInv, Scripted, PlaysComeWithTheirRun, At
  <1>6. RowsClosed'
    BY <1>1, Typed, RowsAreRows DEF IInv, RowsClosed, InBody
  <1>7. DraftStamped' /\ DraftRows' /\ DraftPlays' /\ DraftHash'
    BY <1>1, <1>2
       DEF DraftStamped, DraftRows, DraftPlays, DraftHash, At, InBody
  <1>8. HashIsOfTheLastRun'
    <2>1. \A t \in Sessions : session'[t].expr = session[t].expr
      BY <1>1
    <2>2. HashIsOfTheLastRun
      BY DEF IInv
    <2>3. Len(db.rows) > 0 => db.rows[Len(db.rows)].run \in Sessions
      BY Typed, RowsAreRows
    <2>. QED  BY <2>1, <2>2, <2>3 DEF HashIsOfTheLastRun
  <1>. QED  BY <1>4, <1>5, <1>6, <1>7, <1>8 DEF IInv

-----------------------------------------------------------------------------
LEMMA OutsideEnd ==
    ASSUME TypeOK, IInv, NEW s \in Sessions,
           session[s].pc \in {"opening", "script", "open"},
           NEW pc \in Over \cup {"script"},
           pc = "script" => session[s].pc = "opening",
           Goto(s, pc), UNCHANGED <<db, damaged, writer, draft>>
    PROVE  IInv'
  <1>1. pc \in Over \cup {"script", "open"}
    OBVIOUS
  <1>2. pc = "script" => At(s, "opening")
    BY DEF At
  <1>3. pc = "open" => db.stamped
    BY DEF Over
  <1>4. session' = [session EXCEPT ![s].pc = pc]
    BY DEF Goto
  <1>. QED  BY <1>1, <1>2, <1>3, <1>4, OutsideStep, Zenon

LEMMA InvStep == TypeOK /\ IInv /\ [Next]_vars => IInv'
  <1> SUFFICES ASSUME TypeOK, IInv, [Next]_vars PROVE IInv'
    OBVIOUS
  <1>1. CASE UNCHANGED vars
    <2>1. UNCHANGED <<db, damaged, writer, draft, session>>
      BY <1>1 DEF vars
    <2>2. Lone' /\ Opened' /\ Locked' /\ Scripted' /\ RowsClosed' /\ HasOutcome'
      BY <2>1 DEF IInv, Lone, Opened, Locked, Scripted, RowsClosed, HasOutcome,
                  At, InBody
    <2>3. DraftStamped' /\ DraftRows' /\ DraftPlays' /\ DraftHash'
      BY <2>1 DEF IInv, DraftStamped, DraftRows, DraftPlays, DraftHash, At
    <2>4. StampMeansComplete' /\ PlaysComeWithTheirRun' /\ HashIsOfTheLastRun'
      BY <2>1 DEF IInv, StampMeansComplete, PlaysComeWithTheirRun,
                  HashIsOfTheLastRun
    <2>. QED  BY <2>2, <2>3, <2>4 DEF IInv
  <1>2. ASSUME NEW s \in Sessions, Connect(s) PROVE IInv'
    BY <1>2, ConnectStep
  <1>3. ASSUME NEW s \in Sessions, FindStamp(s) PROVE IInv'
    BY <1>3, OutsideStep DEF FindStamp, Goto, At
  <1>4. ASSUME NEW s \in Sessions, FindNoStamp(s) PROVE IInv'
    <2>1. /\ session[s].pc = "opening"
          /\ Goto(s, "script") /\ UNCHANGED <<db, damaged, writer, draft>>
      BY <1>4 DEF FindNoStamp, At
    <2>2. "script" \in Over \cup {"script"}
      BY DEF Over
    <2>. QED  BY <2>1, <2>2, OutsideEnd
  <1>5. ASSUME NEW s \in Sessions, CreateTable(s) PROVE IInv'
    BY <1>5, CreateTableStep
  <1>6. ASSUME NEW s \in Sessions, TableExists(s) PROVE IInv'
    <2>1. /\ session[s].pc = "script"
          /\ Goto(s, "failed") /\ UNCHANGED <<db, damaged, writer, draft>>
      BY <1>6 DEF TableExists, At
    <2>2. "failed" \in Over \cup {"script"}
      BY DEF Over
    <2>. QED  BY <2>1, <2>2, OutsideEnd
  <1>7. ASSUME NEW s \in Sessions, InsertStamp(s) PROVE IInv'
    BY <1>7, InsertStampStep
  <1>8. ASSUME NEW s \in Sessions, ReadLastRun(s) PROVE IInv'
    <2>1. /\ session[s].pc = "open"
          /\ Goto(s, "closed") /\ UNCHANGED <<db, damaged, writer, draft>>
      BY <1>8 DEF ReadLastRun, At
    <2>2. "closed" \in Over \cup {"script"}
      BY DEF Over
    <2>. QED  BY <2>1, <2>2, OutsideEnd
  <1>9. ASSUME NEW s \in Sessions, StartRun(s) PROVE IInv'
    BY <1>9, StartRunStep
  <1>10. ASSUME NEW s \in Sessions, LockTimeout(s) PROVE IInv'
    <2>1. /\ session[s].pc \in {"open", "script"}
          /\ Goto(s, "busy") /\ UNCHANGED <<db, damaged, writer, draft>>
      BY <1>10 DEF LockTimeout, At
    <2>2. "busy" \in Over \cup {"script"}
      BY DEF Over
    <2>. QED  BY <2>1, <2>2, OutsideEnd
  <1>11. ASSUME NEW s \in Sessions, InitCursors(s) PROVE IInv'
    BY <1>11, InitCursorsStep
  <1>12. ASSUME NEW s \in Sessions, RecordPlays(s) PROVE IInv'
    BY <1>12, RecordPlaysStep
  <1>13. ASSUME NEW s \in Sessions, Prune(s) PROVE IInv'
    BY <1>13, EndsStep
  <1>14. ASSUME NEW s \in Sessions, BodyRaises(s) PROVE IInv'
    BY <1>14, EndsStep
  <1>15. ASSUME NEW s \in Sessions, FinishRun(s) PROVE IInv'
    BY <1>15, FinishRunStep
  <1>16. ASSUME NEW s \in Sessions, Commit(s) PROVE IInv'
    BY <1>16, CommitStep
  <1>17. ASSUME NEW s \in Sessions, Rollback(s) PROVE IInv'
    BY <1>17, GiveUpStep DEF Rollback
  <1>18. ASSUME NEW s \in Sessions, Crash(s) PROVE IInv'
    <2>1. CASE InBody(s)
      <3>1. writer = s
        BY <2>1 DEF IInv, Locked
      <3>. QED  BY <1>18, <2>1, <3>1, GiveUpStep DEF Crash
    <2>2. CASE ~InBody(s)
      <3>1. writer # s
        BY <2>2 DEF IInv, Locked
      <3>2. session[s].pc \in {"opening", "script", "open"}
        BY <1>18, <2>2, Typed DEF Crash, InBody, SessionType
      <3>3. Goto(s, "crashed") /\ UNCHANGED <<db, damaged, writer, draft>>
        BY <1>18, <3>1 DEF Crash
      <3>4. "crashed" \in Over \cup {"script"}
        BY DEF Over
      <3>. QED  BY <3>2, <3>3, <3>4, OutsideEnd
    <2>. QED  BY <2>1, <2>2
  <1>19. CASE Damage
    <2>1. /\ UNCHANGED <<db, writer, draft, session>>
          /\ \A s \in Sessions : session[s].pc \in Over \cup {"idle"}
      BY <1>19 DEF Damage
    <2>2. Lone' /\ Opened' /\ Locked' /\ Scripted' /\ RowsClosed' /\ HasOutcome'
      BY <2>1 DEF IInv, Lone, Opened, Locked, Scripted, RowsClosed, HasOutcome,
                  At, InBody
    <2>3. DraftStamped' /\ DraftRows' /\ DraftPlays' /\ DraftHash'
      BY <2>1 DEF IInv, DraftStamped, DraftRows, DraftPlays, DraftHash, At
    <2>4. StampMeansComplete' /\ PlaysComeWithTheirRun' /\ HashIsOfTheLastRun'
      BY <2>1 DEF IInv, StampMeansComplete, PlaysComeWithTheirRun,
                  HashIsOfTheLastRun
    <2>. QED  BY <2>2, <2>3, <2>4 DEF IInv
  <1>20. CASE NextDay
    <2>1. UNCHANGED <<db, damaged, writer, draft, session>>
      BY <1>20 DEF NextDay
    <2>2. Lone' /\ Opened' /\ Locked' /\ Scripted' /\ RowsClosed' /\ HasOutcome'
      BY <2>1 DEF IInv, Lone, Opened, Locked, Scripted, RowsClosed, HasOutcome,
                  At, InBody
    <2>3. DraftStamped' /\ DraftRows' /\ DraftPlays' /\ DraftHash'
      BY <2>1 DEF IInv, DraftStamped, DraftRows, DraftPlays, DraftHash, At
    <2>4. StampMeansComplete' /\ PlaysComeWithTheirRun' /\ HashIsOfTheLastRun'
      BY <2>1 DEF IInv, StampMeansComplete, PlaysComeWithTheirRun,
                  HashIsOfTheLastRun
    <2>. QED  BY <2>2, <2>3, <2>4 DEF IInv
  <1>. QED
    BY <1>1, <1>2, <1>3, <1>4, <1>5, <1>6, <1>7, <1>8, <1>9, <1>10, <1>11,
       <1>12, <1>13, <1>14, <1>15, <1>16, <1>17, <1>18, <1>19, <1>20
       DEF Next, Open, Body

LEMMA Invariant == Spec => [](TypeOK /\ IInv)
  <1>1. Init => TypeOK /\ IInv
    BY TypeInit, InvInit
  <1>2. TypeOK /\ IInv /\ [Next]_vars => (TypeOK /\ IInv)'
    BY TypeStep, InvStep
  <1>. QED  BY <1>1, <1>2, PTL DEF Spec

\* No run that did not finish leaves a row (start_run, finish_run, __exit__).
THEOREM RowsAreWhole == Spec => []EveryRowHasOutcome
  <1>1. IInv => EveryRowHasOutcome
    BY DEF IInv, RowsClosed, EveryRowHasOutcome
  <1>. QED  BY <1>1, Invariant, PTL

\* Nor does it leave plays (record_play under the transaction of start_run).
THEOREM PlaysAreWhole == Spec => []PlaysComeWithTheirRun
  <1>1. IInv => PlaysComeWithTheirRun
    BY DEF IInv
  <1>. QED  BY <1>1, Invariant, PTL

\* The version row is there only once the schema script is through, with any
\* number of first openers and crashes between its statements.
THEOREM SchemaIsWhole == Spec => []StampMeansComplete
  <1>1. IInv => StampMeansComplete
    BY DEF IInv
  <1>. QED  BY <1>1, Invariant, PTL

\* The expression in the file is the last successful run's (get_or_init_cursor).
THEOREM HashIsCurrent == Spec => []HashIsOfTheLastRun
  <1>1. IInv => HashIsOfTheLastRun
    BY DEF IInv
  <1>. QED  BY <1>1, Invariant, PTL

\* A commit only adds to the rows of an undamaged file.
THEOREM RowsStay == Spec => CommittedStays
  <1>1. TypeOK /\ IInv /\ [Next]_vars =>
           [damaged \/ IsPrefixOf(db.rows, db'.rows)]_vars
    <2> SUFFICES ASSUME TypeOK, IInv, Next, ~damaged
                 PROVE  IsPrefixOf(db.rows, db'.rows)
      BY DEF vars
    <2>1. db'.rows = db.rows => IsPrefixOf(db.rows, db'.rows)
      BY Typed, RowsAreRows DEF IsPrefixOf
    <2>2. CASE \E s \in Sessions : Commit(s)
      BY <2>2, CommitStep
    <2>3. CASE \E s \in Sessions : CreateTable(s) \/ InsertStamp(s)
      <3>1. db \in File
        BY DEF TypeOK
      <3>2. db'.rows = db.rows
        BY <2>3, <3>1 DEF CreateTable, InsertStamp, File
      <3>. QED  BY <2>1, <3>2
    <2>4. CASE UNCHANGED db
      BY <2>1, <2>4
    <2>. QED
      BY <2>2, <2>3, <2>4
         DEF Next, Open, Body, Connect, FindStamp, FindNoStamp, TableExists,
             ReadLastRun, StartRun, LockTimeout, InitCursors, RecordPlays,
             Prune, BodyRaises, FinishRun, Rollback, Crash, Damage, NextDay
  <1>. QED  BY <1>1, Invariant, PTL DEF Spec, CommittedStays

-----------------------------------------------------------------------------
(* The log.  On top of the inductive invariant above, the refinement needs *)
(* to know where the plays and the query in the writer's draft come from.  *)

\* A run has one query.
OneQuery ==
    \A s \in Sessions :
        session[s].kind = "run" /\ ~At(s, "idle") =>
            \E e \in Expressions : session[s].expr = {e}

OnlyRunsWrite == \A s \in Sessions : InBody(s) => session[s].kind = "run"

\* The plays in the draft are the file's or the writer's own ...
DraftNew ==
    writer # NoSession =>
        \A p \in draft.plays : p \in db.plays \/ p.run = writer

\* ... and so is its query.
DraftQuery ==
    writer # NoSession =>
        draft.hash = db.hash \/ draft.hash = session[writer].expr

LInv == OneQuery /\ OnlyRunsWrite /\ DraftNew /\ DraftQuery

LEMMA LInvInit == Init => LInv
  BY StateStoreAssumption
     DEF Init, LInv, OneQuery, OnlyRunsWrite, DraftNew, DraftQuery, Idle, At,
         InBody

-----------------------------------------------------------------------------
\* A step of a session that has connected keeps its kind and its query, and
\* only a run gets into the body.
LEMMA SessionFrame ==
    ASSUME TypeOK, NEW s \in Sessions, Open(s) \/ Body(s) \/ Crash(s)
    PROVE  /\ \A t \in Sessions : /\ session'[t].kind = session[t].kind
                                  /\ session'[t].expr = session[t].expr
                                  /\ (session[t].pc = "idle" => session'[t].pc = "idle")
           /\ \A t \in Sessions : InBody(t)' => InBody(t) \/ session[t].kind = "run"
  <1>0. session \in [Sessions -> SessionType]
    BY Typed
  <1>6. session[s].pc # "idle"
    BY DEF Open, Body, Crash, At, FindStamp, FindNoStamp, TableExists,
           CreateTable, InsertStamp, ReadLastRun, LockTimeout, StartRun,
           InitCursors, RecordPlays, Prune, FinishRun, BodyRaises, Commit,
           Rollback, InBody, Over
  <1>1. CASE \E pc \in {"open", "script", "failed", "busy", "closed", "crashed"} :
                Goto(s, pc)
    BY <1>0, <1>6, <1>1 DEF Goto, SessionType, At, InBody
  <1>2. CASE CreateTable(s)
    BY <1>0, <1>6, <1>2 DEF CreateTable, SessionType, At, InBody
  <1>3. CASE StartRun(s)
    BY <1>0, <1>6, <1>3 DEF StartRun, Goto, SessionType, At, InBody
  <1>4. CASE InitCursors(s) \/ RecordPlays(s) \/ FinishRun(s)
    BY <1>0, <1>6, <1>4 DEF InitCursors, RecordPlays, FinishRun, Goto, SessionType,
                      At, InBody
  <1>5. CASE Prune(s) \/ BodyRaises(s)
    BY <1>0, <1>6, <1>5 DEF Prune, BodyRaises, SessionType, At, InBody
  <1>. QED
    BY <1>1, <1>2, <1>3, <1>4, <1>5
       DEF Open, Body, FindStamp, FindNoStamp, TableExists, InsertStamp,
           ReadLastRun, LockTimeout, Commit, Rollback, Crash

\* With it the first half of LInv is kept.
LEMMA QueriesStay ==
    ASSUME TypeOK, LInv, NEW s \in Sessions, Open(s) \/ Body(s) \/ Crash(s)
    PROVE  OneQuery' /\ OnlyRunsWrite'
  <1>1. \A t \in Sessions : /\ session'[t].kind = session[t].kind
                            /\ session'[t].expr = session[t].expr
                            /\ (session[t].pc = "idle" => session'[t].pc = "idle")
    BY SessionFrame
  <1>5. \A t \in Sessions : InBody(t)' => session[t].kind = "run"
    BY SessionFrame DEF LInv, OnlyRunsWrite
  <1>2. OneQuery
    BY DEF LInv
  <1>3. OneQuery'
    <2> SUFFICES ASSUME NEW t \in Sessions, session'[t].kind = "run",
                        session'[t].pc # "idle"
                 PROVE  \E e \in Expressions : session'[t].expr = {e}
      BY DEF OneQuery, At
    <2>1. session[t].kind = "run" /\ session[t].pc # "idle"
      BY <1>1
    <2>2. PICK e \in Expressions : session[t].expr = {e}
      BY <1>2, <2>1 DEF OneQuery, At
    <2>3. session'[t].expr = {e}
      BY <1>1, <2>2
    <2>. QED  BY <2>3
  <1>4. OnlyRunsWrite'
    BY <1>1, <1>5 DEF OnlyRunsWrite
  <1>. QED  BY <1>3, <1>4

\* Where nobody holds the lock, or the draft, the plays and queries of the
\* file and the writer do not change, the second half is kept too.
LEMMA DraftStays ==
    ASSUME LInv,
           \/ writer' = NoSession
           \/ /\ UNCHANGED writer
              /\ draft'.plays = draft.plays /\ draft'.hash = draft.hash
              /\ db'.plays = db.plays /\ db'.hash = db.hash
              /\ writer # NoSession => session'[writer].expr = session[writer].expr
    PROVE  DraftNew' /\ DraftQuery'
  BY DEF LInv, DraftNew, DraftQuery

LEMMA LInvStep == TypeOK /\ IInv /\ LInv /\ [Next]_vars => LInv'
  <1> SUFFICES ASSUME TypeOK, IInv, LInv, [Next]_vars PROVE LInv'
    OBVIOUS
  <1>0. /\ writer \in Sessions \cup {NoSession} /\ NoSession \notin Sessions
        /\ session \in [Sessions -> SessionType]
        /\ db \in File /\ draft \in File
    BY Typed DEF TypeOK
  <1>1. CASE UNCHANGED vars \/ Damage \/ NextDay
    <2>1. UNCHANGED <<db, writer, draft, session>>
      BY <1>1 DEF vars, env, Damage, NextDay
    <2>. QED
      BY <2>1 DEF LInv, OneQuery, OnlyRunsWrite, DraftNew, DraftQuery, At, InBody
  <1>2. ASSUME NEW s \in Sessions, Connect(s) PROVE LInv'
    <2>1. /\ \A t \in Sessions : t # s => session'[t] = session[t]
          /\ session'[s].pc = "opening" /\ session[s].pc = "idle"
          /\ \/ \E e \in Expressions : session'[s].expr = {e}
             \/ session'[s].kind = "read"
      BY <1>0, <1>2 DEF Connect, At, SessionType
    <2>2. OneQuery' /\ OnlyRunsWrite'
      BY <2>1 DEF LInv, OneQuery, OnlyRunsWrite, At, InBody
    <2>3. UNCHANGED <<draft, writer>>
      BY <1>2 DEF Connect
    <2>4. writer # NoSession => /\ writer # s /\ InBody(writer)
                                /\ session'[writer].expr = session[writer].expr
      BY <1>0, <2>1 DEF IInv, Locked, InBody
    <2>5. writer # NoSession => ~damaged
      BY <1>0, <2>4 DEF IInv, Lone, InBody, Over
    <2>6. writer # NoSession => db' = db
      BY <1>2, <2>5 DEF Connect
    <2>7. DraftNew' /\ DraftQuery'
      BY <2>3, <2>4, <2>6, DraftStays
    <2>. QED  BY <2>2, <2>7 DEF LInv
  <1>3. ASSUME NEW s \in Sessions, Open(s) \/ Body(s) \/ Crash(s) PROVE LInv'
    <2>1. OneQuery' /\ OnlyRunsWrite'
      BY <1>3, QueriesStay
    <2>2. \A t \in Sessions : session'[t].expr = session[t].expr
      BY <1>3, SessionFrame
    <2>3. CASE UNCHANGED <<db, draft, writer>>
      BY <1>0, <2>1, <2>2, <2>3, DraftStays DEF LInv
    <2>4. CASE writer' = NoSession
      BY <2>1, <2>4, DraftStays DEF LInv
    <2>5. CASE CreateTable(s) \/ InsertStamp(s)
      <3>1. db'.plays = db.plays /\ db'.hash = db.hash /\ UNCHANGED <<draft, writer>>
        BY <1>0, <2>5 DEF CreateTable, InsertStamp, File
      <3>. QED  BY <1>0, <2>1, <2>2, <3>1, DraftStays DEF LInv
    <2>6. CASE StartRun(s)
      <3>1. draft'.plays = db.plays /\ draft'.hash = db.hash /\ UNCHANGED db
        BY <1>0, <2>6 DEF StartRun, File
      <3>. QED  BY <2>1, <3>1 DEF LInv, DraftNew, DraftQuery
    <2>7. CASE InitCursors(s)
      <3>1. /\ draft'.plays = draft.plays /\ draft'.hash = session[s].expr
            /\ UNCHANGED <<db, writer>> /\ At(s, "started")
        BY <1>0, <2>7 DEF InitCursors, File
      <3>2. writer = s
        BY <3>1 DEF IInv, Locked, InBody, At
      <3>. QED  BY <2>1, <2>2, <3>1, <3>2 DEF LInv, DraftNew, DraftQuery
    <2>8. CASE RecordPlays(s)
      <3> DEFINE play == [run |-> s, at |-> today]
      <3>1. /\ draft'.plays = draft.plays \cup {play} /\ draft'.hash = draft.hash
            /\ UNCHANGED <<db, writer, session>> /\ At(s, "days") /\ play.run = s
        BY <1>0, <2>8 DEF RecordPlays, File
      <3>2. writer = s
        BY <3>1 DEF IInv, Locked, InBody, At
      <3> HIDE DEF play
      <3>. QED  BY <2>1, <3>1, <3>2 DEF LInv, DraftNew, DraftQuery
    <2>9. CASE Prune(s)
      <3>1. /\ draft'.plays \subseteq draft.plays /\ draft'.hash = draft.hash
            /\ UNCHANGED <<db, writer>>
        BY <1>0, <2>9 DEF Prune, File
      <3>. QED  BY <1>0, <2>1, <2>2, <3>1 DEF LInv, DraftNew, DraftQuery
    <2>10. CASE FinishRun(s)
      <3>1. /\ draft'.plays = draft.plays /\ draft'.hash = draft.hash
            /\ UNCHANGED <<db, writer>>
        BY <1>0, <2>10 DEF FinishRun, File
      <3>. QED  BY <1>0, <2>1, <2>2, <3>1, DraftStays DEF LInv
    <2>. QED
      BY <1>3, <2>3, <2>4, <2>5, <2>6, <2>7, <2>8, <2>9, <2>10
         DEF Open, Body, FindStamp, FindNoStamp, TableExists, ReadLastRun,
             LockTimeout, BodyRaises, Commit, Rollback, Crash
  <1>. QED  BY <1>1, <1>2, <1>3 DEF Next

LEMMA LogInvariant == Spec => [](TypeOK /\ IInv /\ LInv)
  BY Invariant, LInvInit, LInvStep, PTL DEF Spec

-----------------------------------------------------------------------------
\* Two sequences of rows of one length that agree are one.
LEMMA LastRow ==
    ASSUME NEW p \in Rows, NEW q \in Rows, Len(q) = Len(p) + 1,
           \A i \in 1 .. Len(p) : q[i] = p[i]
    PROVE  q = Append(p, q[Len(p) + 1])
  <1> DEFINE T == [run : Sessions, outcome : {"none", "ok", "error"}]
             n == Len(p)
             r == Append(p, q[n + 1])
  <1>1. p \in Seq(T) /\ q \in Seq(T) /\ n \in Nat
    BY RowsAreRows DEF Rows
  <1>2. q[n + 1] \in T
    <2>1. n + 1 \in 1 .. Len(q)
      BY <1>1
    <2>. QED  BY <1>1, <2>1, ElementOfSeq
  <1>3. /\ r \in Seq(T) /\ Len(r) = n + 1
        /\ \A i \in 1 .. n : r[i] = p[i] /\ r[n + 1] = q[n + 1]
    BY <1>1, <1>2, AppendProperties
  <1>4. r[n + 1] = q[n + 1]
    BY <1>1, <1>2, AppendProperties
  <1> HIDE DEF r
  <1>5. \A i \in 1 .. Len(q) : q[i] = r[i]
    BY <1>1, <1>3, <1>4
  <1>6. q = r
    BY <1>1, <1>3, <1>5, SeqEqual
  <1>. QED  BY <1>6 DEF r

\* A commit adds the writer's row, its plays and its query.
LEMMA CommitLogs ==
    ASSUME TypeOK, IInv, LInv, NEW s \in Sessions, Commit(s)
    PROVE  \E outcome \in {"ok", "error"} : Log!LogRun(s, outcome)
  <1> DEFINE o == session[s].outcome
             n == Len(db.rows)
  <1>1. /\ At(s, "commit") /\ InBody(s) /\ writer = s /\ s # NoSession
        /\ db' = draft
    BY Typed DEF Commit, At, InBody, IInv, Locked
  <1>2. o \in {"ok", "error"}
    <2>1. o \in {"none", "ok", "error"}
      BY Typed DEF SessionType
    <2>. QED  BY <1>1, <2>1 DEF IInv, HasOutcome, At
  <1>3. \A i \in DOMAIN db.rows : db.rows[i].run # s
    BY <1>1 DEF IInv, RowsClosed, At
  <1>4. draft.rows = Append(db.rows, [run |-> s, outcome |-> o])
    <2>1. /\ db.rows \in Rows /\ draft.rows \in Rows
          /\ Len(draft.rows) = n + 1
          /\ \A i \in 1 .. n : draft.rows[i] = db.rows[i]
          /\ draft.rows[n + 1].run = s /\ draft.rows[n + 1].outcome = o
      BY <1>1, Typed DEF IInv, DraftRows
    <2>2. draft.rows = Append(db.rows, draft.rows[n + 1])
      BY <2>1, LastRow
    <2>3. draft.rows[n + 1] \in [run : Sessions, outcome : {"none", "ok", "error"}]
      <3>1. n + 1 \in 1 .. Len(draft.rows)
        BY <2>1, RowsAreRows
      <3>. QED  BY <2>1, <3>1, ElementOfSeq DEF Rows
    <2>4. draft.rows[n + 1] = [run |-> s, outcome |-> o]
      BY <2>1, <2>3
    <2>. QED  BY <2>2, <2>4
  <1>5. \A p \in draft.plays : p \in db.plays \/ p.run = s
    BY <1>1 DEF LInv, DraftNew
  <1>6. PICK e \in Expressions : session[s].expr = {e}
    BY <1>1 DEF LInv, OneQuery, OnlyRunsWrite, At
  <1>7. draft.hash = {e} \/ (o = "error" /\ draft.hash = db.hash)
    <2>1. o = "ok" => draft.hash = session[s].expr
      BY <1>1 DEF IInv, DraftHash, At
    <2>2. draft.hash = db.hash \/ draft.hash = session[s].expr
      BY <1>1 DEF LInv, DraftQuery
    <2>. QED  BY <1>2, <1>6, <2>1, <2>2
  <1>8. Log!LogRun(s, o)
    BY <1>1, <1>3, <1>4, <1>5, <1>6, <1>7 DEF Log!LogRun
  <1>. QED  BY <1>2, <1>8

LEMMA LogStep ==
    TypeOK /\ IInv /\ LInv /\ [Next]_vars => [Log!Next]_(Log!vars)
  <1> SUFFICES ASSUME TypeOK, IInv, LInv, [Next]_vars
               PROVE  Log!Next \/ UNCHANGED Log!vars
    OBVIOUS
  <1>1. CASE UNCHANGED db
    BY <1>1 DEF Log!vars
  <1>2. ASSUME NEW s \in Sessions, Commit(s) PROVE Log!Next
    BY <1>2, CommitLogs DEF Log!Next
  <1>3. ASSUME NEW s \in Sessions, Connect(s), ~UNCHANGED db PROVE Log!Next
    <2>1. db' = Empty
      BY <1>3 DEF Connect
    <2>. QED  BY <2>1 DEF Empty, Log!Next, Log!StartAnew
  <1>4. ASSUME NEW s \in Sessions, CreateTable(s) \/ InsertStamp(s)
        PROVE  UNCHANGED Log!vars
    <2>1. db \in File
      BY DEF TypeOK
    <2>. QED  BY <1>4, <2>1 DEF CreateTable, InsertStamp, File, Log!vars
  <1>. QED
    BY <1>1, <1>2, <1>3, <1>4
       DEF Next, Open, Body, FindStamp, FindNoStamp, TableExists, ReadLastRun,
           StartRun, LockTimeout, InitCursors, RecordPlays, Prune, BodyRaises,
           FinishRun, Rollback, Crash, Damage, NextDay, vars

\* Whoever reads the store reads a log of whole runs: for any number of
\* connections, any interleaving of their statements, crashes and recoveries.
THEOREM StoreIsALog == Spec => ImplementsRunLog
  <1>1. Init => Log!Init
    BY DEF Init, Empty, Log!Init
  <1>. QED
    BY <1>1, LogInvariant, LogStep, PTL DEF Spec, ImplementsRunLog, Log!Spec

=============================================================================

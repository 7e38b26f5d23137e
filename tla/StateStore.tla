----------------------------- MODULE StateStore -----------------------------
(***************************************************************************)
(* One channel's SQLite file and the processes that open it (state.py):    *)
(* runs, which write (orchestrator.py _run_channel), and `status` and      *)
(* /healthz, which only read the last run.                                 *)
(*                                                                         *)
(* SQLite is modelled from how the code uses it: schema statements commit  *)
(* one by one (executescript), the first INSERT takes the only write lock, *)
(* what a connection has written is seen by the others at its commit, and  *)
(* a process that dies leaves what was committed.                          *)
(***************************************************************************)
EXTENDS Integers, Sequences

CONSTANTS
    Sessions,        \* connections there may be, one StateStore each
    Expressions,     \* what a collection's query may be
    NoSession,
    Tables,          \* tables and indexes _apply_v1 creates: 4
    TTL,             \* RECENT_PLAYS_TTL_DAYS
    LastDay,         \* bound: the calendar stops here
    MaxFaults        \* bound on corruptions

ASSUME StateStoreAssumption ==
    /\ NoSession \notin Sessions
    /\ Tables \in Nat \ {0} /\ TTL \in Nat
    /\ LastDay \in Nat /\ MaxFaults \in Nat

VARIABLES
    today,
    faults,          \* corruptions so far
    db,              \* the file, as committed
    damaged,         \* integrity_check would not say "ok"
    writer,          \* session that holds the write lock
    draft,           \* the file as the writer sees it
    session          \* what each connection does

env  == <<today, faults>>
vars == <<env, db, damaged, writer, draft, session>>

-----------------------------------------------------------------------------
\* A new file.  `tables` counts the statements of _apply_v1 that are in,
\* `stamped` tells whether schema_version has its row, `hash` holds the
\* expression of the collection (none before its first run).
Empty == [tables |-> 0, stamped |-> FALSE, hash |-> {}, plays |-> {},
          rows |-> << >>]

Idle == [pc |-> "idle", kind |-> "run", expr |-> {}, script |-> 0,
         outcome |-> "none"]

At(s, pc) == session[s].pc = pc

Goto(s, pc) == session' = [session EXCEPT ![s].pc = pc]

Over == {"closed", "failed", "busy", "crashed"}

InBody(s) == session[s].pc \in {"started", "days", "finish", "commit"}

-----------------------------------------------------------------------------
(* StateStore.open. *)

\* _connect_or_recover: a damaged file is moved aside and a new one begun.
Connect(s) ==
    /\ At(s, "idle")
    /\ \/ \E e \in Expressions :
             session' = [session EXCEPT ![s].pc = "opening", ![s].expr = {e}]
       \/ session' = [session EXCEPT ![s].pc = "opening", ![s].kind = "read"]
    /\ db' = IF damaged THEN Empty ELSE db
    /\ damaged' = FALSE
    /\ UNCHANGED <<env, writer, draft>>

\* _ensure_schema: the version row is there ...
FindStamp(s) ==
    /\ At(s, "opening") /\ db.stamped
    /\ Goto(s, "open")
    /\ UNCHANGED <<env, db, damaged, writer, draft>>

\* ... or not, and the file counts as new.
FindNoStamp(s) ==
    /\ At(s, "opening") /\ ~db.stamped
    /\ Goto(s, "script")
    /\ UNCHANGED <<env, db, damaged, writer, draft>>

\* Slip: one statement too many.
CreateTable_OneTooMany(s) ==
    /\ At(s, "script") /\ session[s].script <= Tables
    /\ db.tables = session[s].script
    /\ db' = [db EXCEPT !.tables = @ + 1]
    /\ session' = [session EXCEPT ![s].script = @ + 1]
    /\ UNCHANGED <<env, damaged, writer, draft>>

\* _apply_v1: one statement, committed on its own.
CreateTable(s) ==
    /\ At(s, "script") /\ session[s].script < Tables
    /\ db.tables = session[s].script
    /\ db' = [db EXCEPT !.tables = @ + 1]
    /\ session' = [session EXCEPT ![s].script = @ + 1]
    /\ UNCHANGED <<env, damaged, writer, draft>>

\* Slip: open() starts over instead of raising.
TableExists_StartsOver(s) ==
    /\ At(s, "script") /\ session[s].script < Tables
    /\ db.tables > session[s].script
    /\ session' = [session EXCEPT ![s].pc = "opening", ![s].script = 0]
    /\ UNCHANGED <<env, db, damaged, writer, draft>>

\* "table ... already exists": open() raises.
TableExists(s) ==
    /\ At(s, "script") /\ session[s].script < Tables
    /\ db.tables > session[s].script
    /\ Goto(s, "failed")
    /\ UNCHANGED <<env, db, damaged, writer, draft>>

\* Slip: the row is inserted before the script is through.
InsertStamp_Early(s) ==
    /\ At(s, "script") /\ writer = NoSession
    /\ db' = [db EXCEPT !.stamped = TRUE]
    /\ Goto(s, "open")
    /\ UNCHANGED <<env, damaged, writer, draft>>

\* The version row, inserted and committed.
InsertStamp(s) ==
    /\ At(s, "script") /\ session[s].script = Tables
    /\ writer = NoSession
    /\ db' = [db EXCEPT !.stamped = TRUE]
    /\ Goto(s, "open")
    /\ UNCHANGED <<env, damaged, writer, draft>>

-----------------------------------------------------------------------------
(* What `with StateStore(...)` encloses. *)

\* last_run, and the commit of nothing.
ReadLastRun(s) ==
    /\ At(s, "open") /\ session[s].kind = "read"
    /\ Goto(s, "closed")
    /\ UNCHANGED <<env, db, damaged, writer, draft>>

Row(s, outcome) == [run |-> s, outcome |-> outcome]

\* Slip: a second writer gets in.
StartRun_NoLock(s) ==
    /\ At(s, "open") /\ session[s].kind = "run"
    /\ writer' = s
    /\ draft' = [db EXCEPT !.rows = Append(@, Row(s, "none"))]
    /\ Goto(s, "started")
    /\ UNCHANGED <<env, db, damaged>>

\* Slip: the row is committed at once (isolation_level None).
StartRun_Autocommit(s) ==
    /\ At(s, "open") /\ session[s].kind = "run"
    /\ writer = NoSession
    /\ writer' = s
    /\ db' = [db EXCEPT !.rows = Append(@, Row(s, "none"))]
    /\ draft' = db'
    /\ Goto(s, "started")
    /\ UNCHANGED <<env, damaged>>

\* start_run: the INSERT opens the transaction and takes the write lock.
StartRun(s) ==
    /\ At(s, "open") /\ session[s].kind = "run"
    /\ writer = NoSession
    /\ writer' = s
    /\ draft' = [db EXCEPT !.rows = Append(@, Row(s, "none"))]
    /\ Goto(s, "started")
    /\ UNCHANGED <<env, db, damaged>>

\* Another session kept the lock for longer than the five seconds SQLite
\* waits: "database is locked".
LockTimeout(s) ==
    /\ writer # NoSession
    /\ \/ At(s, "open") /\ session[s].kind = "run"
       \/ At(s, "script")
    /\ Goto(s, "busy")
    /\ UNCHANGED <<env, db, damaged, writer, draft>>

\* Slip: the cursor is reset, the hash is not stored.
InitCursors_KeepsHash(s) ==
    /\ At(s, "started")
    /\ draft' = [draft EXCEPT !.hash = IF @ = {} THEN session[s].expr ELSE @]
    /\ Goto(s, "days")
    /\ UNCHANGED <<env, db, damaged, writer>>

\* get_or_init_cursor.  Nothing calls set_cursor: the cursor itself stays 0.
InitCursors(s) ==
    /\ At(s, "started")
    /\ draft' = [draft EXCEPT !.hash = session[s].expr]
    /\ Goto(s, "days")
    /\ UNCHANGED <<env, db, damaged, writer>>

\* Slip: plays go straight to the file.
RecordPlays_Autocommit(s) ==
    /\ At(s, "days")
    /\ draft' = [draft EXCEPT !.plays = @ \cup {[run |-> s, at |-> today]}]
    /\ db' = [db EXCEPT !.plays = @ \cup {[run |-> s, at |-> today]}]
    /\ UNCHANGED <<env, damaged, writer, session>>

\* record_play for the mains of a day just written.
RecordPlays(s) ==
    /\ At(s, "days")
    /\ draft' = [draft EXCEPT !.plays = @ \cup {[run |-> s, at |-> today]}]
    /\ UNCHANGED <<env, db, damaged, writer, session>>

\* Slip: what is pruned is committed at once.
Prune_Autocommit(s) ==
    /\ At(s, "days")
    /\ draft' = [draft EXCEPT !.plays = {p \in @ : p.at >= today - TTL}]
    /\ db' = [db EXCEPT !.plays = {p \in @ : p.at >= today - TTL}]
    /\ session' = [session EXCEPT ![s].pc = "finish", ![s].outcome = "ok"]
    /\ UNCHANGED <<env, damaged, writer>>

\* prune_recent_plays, after the last day.
Prune(s) ==
    /\ At(s, "days")
    /\ draft' = [draft EXCEPT !.plays = {p \in @ : p.at >= today - TTL}]
    /\ session' = [session EXCEPT ![s].pc = "finish", ![s].outcome = "ok"]
    /\ UNCHANGED <<env, db, damaged, writer>>

\* An exception in the try block, before finish_run.
BodyRaises(s) ==
    /\ session[s].pc \in {"started", "days", "finish"}
    /\ session' = [session EXCEPT ![s].pc = "finish", ![s].outcome = "error"]
    /\ UNCHANGED <<env, db, damaged, writer, draft>>

\* finish_run updates the row start_run inserted.
FinishRun(s) ==
    /\ At(s, "finish")
    /\ draft' = [draft EXCEPT !.rows =
                   [i \in DOMAIN @ |-> IF @[i].run = s
                                       THEN Row(s, session[s].outcome) ELSE @[i]]]
    /\ Goto(s, "commit")
    /\ UNCHANGED <<env, db, damaged, writer>>

\* __exit__ without an exception.
Commit(s) ==
    /\ At(s, "commit")
    /\ db' = draft /\ draft' = Empty
    /\ writer' = NoSession
    /\ Goto(s, "closed")
    /\ UNCHANGED <<env, damaged>>

\* __exit__ with one the body does not catch (a cancelled task, Ctrl-C).
Rollback(s) ==
    /\ InBody(s)
    /\ draft' = Empty
    /\ writer' = NoSession
    /\ Goto(s, "closed")
    /\ UNCHANGED <<env, db, damaged>>

-----------------------------------------------------------------------------
\* The process dies.
Crash(s) ==
    /\ session[s].pc \notin Over \cup {"idle"}
    /\ IF writer = s THEN draft' = Empty /\ writer' = NoSession
                     ELSE UNCHANGED <<draft, writer>>
    /\ Goto(s, "crashed")
    /\ UNCHANGED <<env, db, damaged>>

\* The file is damaged while nobody has it open.
Damage ==
    /\ faults < MaxFaults
    /\ \A s \in Sessions : session[s].pc \in Over \cup {"idle"}
    /\ faults' = faults + 1
    /\ damaged' = TRUE
    /\ UNCHANGED <<today, db, writer, draft, session>>

NextDay ==
    /\ today < LastDay
    /\ today' = today + 1
    /\ UNCHANGED <<faults, db, damaged, writer, draft, session>>

Init ==
    /\ today = 0 /\ faults = 0
    /\ db = Empty /\ damaged = FALSE
    /\ writer = NoSession /\ draft = Empty
    /\ session = [s \in Sessions |-> Idle]

Open(s) == \/ FindStamp(s) \/ FindNoStamp(s)
           \/ CreateTable(s) \/ TableExists(s) \/ InsertStamp(s)

Body(s) == \/ ReadLastRun(s)
           \/ StartRun(s) \/ LockTimeout(s)
           \/ InitCursors(s) \/ RecordPlays(s) \/ Prune(s)
           \/ BodyRaises(s) \/ FinishRun(s) \/ Commit(s) \/ Rollback(s)

Next == \/ \E s \in Sessions : Connect(s) \/ Open(s) \/ Body(s) \/ Crash(s)
        \/ Damage \/ NextDay

Spec == Init /\ [][Next]_vars

\* A process that has connected goes on.
FairSpec == Spec /\ \A s \in Sessions : WF_vars(Open(s) \/ Body(s))

-----------------------------------------------------------------------------
(* Properties. *)

File == [tables : 0 .. Tables, stamped : BOOLEAN, hash : SUBSET Expressions,
         plays : SUBSET [run : Sessions, at : Nat],
         rows : Seq([run : Sessions, outcome : {"none", "ok", "error"}])]

SessionType ==
    [pc : {"idle", "opening", "script", "open", "started", "days", "finish",
           "commit"} \cup Over,
     kind : {"run", "read"}, expr : SUBSET Expressions, script : 0 .. Tables,
     outcome : {"none", "ok", "error"}]

\* Type correctness of the file, its draft and the sessions.
TypeOK ==
    /\ today \in Nat /\ faults \in Nat
    /\ db \in File /\ draft \in File
    /\ damaged \in BOOLEAN
    /\ writer \in Sessions \cup {NoSession}
    /\ session \in [Sessions -> SessionType]

\* Whoever reads the last run finds its outcome: no crash, rollback or second
\* process ever leaves a row of a run that did not finish in the file.
EveryRowHasOutcome == \A i \in DOMAIN db.rows : db.rows[i].outcome # "none"

\* A run's plays are in the file only together with its row: what it recorded
\* before it was cut down is not there.
PlaysComeWithTheirRun ==
    \A p \in db.plays : \E i \in DOMAIN db.rows : db.rows[i].run = p.run

\* The version row stands for a complete schema, whatever two first openers
\* or a crash between two statements make of it.
StampMeansComplete == db.stamped => db.tables = Tables

\* The stored expression is the one the last successful run used: a changed
\* query has reset the cursor before anything is picked with it.
HashIsOfTheLastRun ==
    LET n == Len(db.rows)
    IN  n > 0 /\ db.rows[n].outcome = "ok" =>
            db.hash = session[db.rows[n].run].expr

IsPrefixOf(a, b) == Len(a) <= Len(b) /\ \A i \in DOMAIN a : a[i] = b[i]

\* What is committed stays: later runs only add rows, and a row once written
\* does not change, unless the file was damaged and started anew.
CommittedStays == [][damaged \/ IsPrefixOf(db.rows, db'.rows)]_vars

\* What readers see of the file is a log of whole runs (module RunLog), in
\* whatever order the statements of two processes, their commits, rollbacks
\* and crashes come.
Log == INSTANCE RunLog WITH
    Runs <- Sessions, rows <- db.rows, plays <- db.plays, hash <- db.hash

ImplementsRunLog == Log!Spec

\* Every session comes to an end, and with it the write lock is free again.
SessionsEnd ==
    \A s \in Sessions : ~At(s, "idle") ~> session[s].pc \in Over /\ writer # s

\* DESIGN 10.5: "A crash mid-run rolls back state to pre-run, so the next run
\* picks up correctly": a session that has the file for itself can open it.
NextRunOpens ==
    [][\A s \in Sessions : ~At(s, "failed") /\ session'[s].pc = "failed" =>
          \E t \in Sessions \ {s} : session[t].pc \notin Over \cup {"idle"}]_vars

=============================================================================

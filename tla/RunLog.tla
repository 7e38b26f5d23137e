------------------------------- MODULE RunLog -------------------------------
(***************************************************************************)
(* What a channel's store promises to whoever reads it: a log to which     *)
(* finished runs are added, one at a time and whole.  A run comes with its *)
(* plays and, if it went well, with the query it used; nothing of a run is *)
(* seen before its row is, and nothing of it changes later, but for plays  *)
(* that have grown old.  A store found damaged is begun anew.              *)
(*                                                                         *)
(* Connections, the write lock, the schema, commits and crashes are not    *)
(* seen at this level: they are module StateStore, which implements this   *)
(* one.                                                                    *)
(***************************************************************************)
EXTENDS Naturals, Sequences

CONSTANTS Runs, Expressions

VARIABLES
    rows,            \* run_log, in the order of the commits
    plays,           \* recent_plays: what was aired, by which run
    hash             \* the query the cursors were set for; none at first

vars == <<rows, plays, hash>>

Init == rows = << >> /\ plays = {} /\ hash = {}

\* A run ends well or in error.  It is logged once; only its own plays come
\* with it, and any that were there may go.
LogRun(r, outcome) ==
    /\ \A i \in DOMAIN rows : rows[i].run # r
    /\ rows' = Append(rows, [run |-> r, outcome |-> outcome])
    /\ \A p \in plays' : p \in plays \/ p.run = r
    /\ \/ \E e \in Expressions : hash' = {e}
       \/ outcome = "error" /\ hash' = hash

\* The file was damaged and is moved aside.
StartAnew == rows' = << >> /\ plays' = {} /\ hash' = {}

Next == \/ \E r \in Runs, outcome \in {"ok", "error"} : LogRun(r, outcome)
        \/ StartAnew

Spec == Init /\ [][Next]_vars

=============================================================================

------------------------------ MODULE TimeGrid ------------------------------
(***************************************************************************)
(* The arithmetic of instants the planner is built on (time_utils.py,      *)
(* planner/alignment.py).                                                  *)
(*                                                                         *)
(* An instant is a number of microseconds since the midnight that starts   *)
(* the planned day: Python's datetime has no finer grain.  A duration is a *)
(* number of nanoseconds.  NanosPerMicro nanoseconds make a microsecond,   *)
(* NanosPerMilli a millisecond; the code's values are 1000 and 1000000,    *)
(* and nothing below depends on them beyond the assumption.                *)
(***************************************************************************)
EXTENDS Integers

CONSTANTS
    HourLen,         \* microseconds in an hour
    DayLen,          \* microseconds in a day
    NanosPerMicro,
    NanosPerMilli

ASSUME TimeGridAssumption ==
    /\ HourLen \in Nat \ {0}
    /\ DayLen \in Nat \ {0}
    /\ NanosPerMicro \in Nat \ {0}
    /\ NanosPerMilli \in Nat \ {0}

Instant == Nat

\* NanoInstant.plus_nanos keeps the nanoseconds left over by the division,
\* but every caller in the planner takes `.dt`, which drops them.
AddNanos(t, nanos) == t + (nanos \div NanosPerMicro)

\* diff_nanos(a, b) between two datetimes.
DiffNanos(a, b) == (a - b) * NanosPerMicro

\* ceil_to_next: the grid is anchored to the top of the current hour, so its
\* steps restart every hour whatever `align` is.
CeilToNext(t, align) ==
    LET hour  == t - (t % HourLen)
        delta == t % HourLen
    IN  IF align <= 0 \/ delta % align = 0
        THEN t
        ELSE hour + ((delta \div align) + 1) * align

\* Slip: the boundary is not capped at the next anchor.
TargetEnd_Uncapped(naturalEnd, nextAnchor, align) == CeilToNext(naturalEnd, align)

\* target_end: align = 0 stands for a block without `align:`.
TargetEnd(naturalEnd, nextAnchor, align) ==
    LET aligned == CeilToNext(naturalEnd, align)
    IN  IF aligned > nextAnchor THEN nextAnchor ELSE aligned

\* The midnight that ends the calendar day of t (floor_to_midnight + one day).
NextMidnight(t) == ((t \div DayLen) + 1) * DayLen

=============================================================================

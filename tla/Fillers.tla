------------------------------ MODULE Fillers -------------------------------
(***************************************************************************)
(* What the planner cuts and budgets (planner/fillers.py, and the pieces   *)
(* of planner/expander.py that build playable items).                      *)
(*                                                                         *)
(* A playable item is a record: `of` and `no` identify the media (the pool *)
(* it came from and its position there), `src` the source type, `dur` its  *)
(* duration in nanoseconds, `in` and `out` the cut in milliseconds, with   *)
(* NoPoint for Python's None.                                              *)
(***************************************************************************)
EXTENDS Sequences, TimeGrid

CONSTANTS
    Collections,     \* collection names
    Kinds,           \* filler kinds a layout can name
    StubNanos,       \* the 1 s duration given to media of unknown length
    BreakTarget      \* per_break_target when the layout gives none: 120 s

\* What plays a main is told from a filler by its role.
ASSUME FillersAssumption ==
    /\ StubNanos \in Nat \ {0}
    /\ BreakTarget \in Nat
    /\ "main" \notin Kinds

NoPoint == -1

\* Where media come from, and what an item is on the timeline.
Sources == Collections \cup Kinds \cup {"lavfi"}
Roles   == Kinds \cup {"main", "lavfi"}

Item == [of : Sources, no : Nat, src : {"local", "lavfi"}, dur : Nat,
         in : Int, out : Int]

\* to_playable: a missing or non-positive RunTimeTicks becomes one second.
ToPlayable(pool, no, ticks) ==
    [of |-> pool, no |-> no, src |-> "local",
     dur |-> IF ticks <= 0 THEN StubNanos ELSE ticks,
     in |-> NoPoint, out |-> NoPoint]

\* emit_lavfi: the black frames of the safety net.
BlackFrames(nanos) ==
    [of |-> "lavfi", no |-> 0, src |-> "lavfi", dur |-> nanos,
     in |-> NoPoint, out |-> NoPoint]

\* The same media with another duration and other cut points.
Cut(item, dur, in, out) ==
    [of |-> item.of, no |-> item.no, src |-> item.src, dur |-> dur,
     in |-> in, out |-> out]

\* The last copy, cut to the residual (both fill strategies).
TrimTo(item, nanos) == Cut(item, nanos, 0, nanos \div NanosPerMilli)

\* Slip: the two cuts are taken in the wrong order.
Chunk_Swapped(main, a, b) ==
    Cut(main, a - b, b \div NanosPerMilli, a \div NanosPerMilli)

\* The part of `main` from nanosecond a to nanosecond b.
Chunk(main, a, b) ==
    Cut(main, b - a, a \div NanosPerMilli, b \div NanosPerMilli)

(***************************************************************************)
(* _split_main_for_mid_rolls.  A mid_roll step is a record: `every` is     *)
(* "none" for a layout without the step; `interval` is the nanoseconds of  *)
(* `every: {minutes: N}`.  "chapter" is one break in the middle: the code  *)
(* knows no chapters.                                                      *)
(***************************************************************************)
MidRoll == [every : {"none", "chapter", "never", "minutes"}, interval : Nat,
            auto : BOOLEAN, target : Nat, wrap : Seq(Kinds)]

Chunks(main, mid) ==
    LET half == main.dur \div 2
        n    == main.dur \div mid.interval
    IN  CASE mid.every = "chapter" /\ half > 0 ->
                <<Chunk(main, 0, half), Chunk(main, half, main.dur)>>
          [] mid.every = "chapter" /\ half = 0 -> <<Chunk(main, 0, main.dur)>>
          [] mid.every = "minutes" /\ n > 1 ->
                [i \in 1 .. n |->
                    Chunk(main, mid.interval * (i - 1),
                          IF i = n THEN main.dur ELSE mid.interval * i)]
          [] OTHER -> <<main>>

(***************************************************************************)
(* auto_break_budgets: `total` nanoseconds over n breaks, each starting    *)
(* from `target` and shaved or enlarged evenly; the first breaks take the  *)
(* remainder.                                                              *)
(***************************************************************************)
AutoBreakBudgets(total, n, target) ==
    IF total <= 0 THEN [i \in 1 .. n |-> 0]
    ELSE LET over  == target * n - total
             under == total - target * n
         IN  IF over > 0
             THEN [i \in 1 .. n |-> target - (over \div n)
                                    - (IF i <= over % n THEN 1 ELSE 0)]
             ELSE [i \in 1 .. n |-> target + (under \div n)
                                    + (IF i <= under % n THEN 1 ELSE 0)]

\* Slip: every break gets the whole room.
FixedBreakBudgets_Unshared(room, n) ==
    [i \in 1 .. n |-> IF room <= 0 THEN 0 ELSE room]

\* A fixed `count:` is ignored: the breaks share the room left evenly.
FixedBreakBudgets(room, n) ==
    [i \in 1 .. n |-> IF room <= 0 THEN 0 ELSE room \div n]

BreakBudgets(room, n, mid) ==
    IF mid.auto
    THEN AutoBreakBudgets(room, n, IF mid.target = 0 THEN BreakTarget
                                                     ELSE mid.target)
    ELSE FixedBreakBudgets(room, n)

(***************************************************************************)
(* split_at_midnight for a local item that starts at `start`.  The two     *)
(* halves keep the source; the second one starts where the first one       *)
(* stops.                                                                  *)
(***************************************************************************)
NanosToMidnight(start) == DiffNanos(NextMidnight(start), start)

CrossesMidnight(item, start) ==
    /\ item.src = "local"
    /\ NanosToMidnight(start) < item.dur

InPoint(item) == IF item.in = NoPoint THEN 0 ELSE item.in

PreHalf(item, start) ==
    Cut(item, NanosToMidnight(start), InPoint(item),
        (InPoint(item) * NanosPerMilli + NanosToMidnight(start)) \div NanosPerMilli)

OutPoint(item) ==
    IF item.out # NoPoint THEN item.out
    ELSE (InPoint(item) * NanosPerMilli + item.dur) \div NanosPerMilli

\* Slip: the offset forgets where the item itself was cut.
PostHalf_FromZero(item, start) ==
    Cut(item, item.dur - NanosToMidnight(start),
        NanosToMidnight(start) \div NanosPerMilli, OutPoint(item))

PostHalf(item, start) ==
    Cut(item, item.dur - NanosToMidnight(start),
        PreHalf(item, start).out, OutPoint(item))

=============================================================================

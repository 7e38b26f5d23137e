------------------------------ MODULE Schedule ------------------------------
(***************************************************************************)
(* Which blocks of a schedule are on the air on a day, and with which      *)
(* collection: the `on:` filter and the variants of a block, as the script *)
(* declares them (dsl.rb) and as the planner reads them (expander.py,      *)
(* variants.py).                                                           *)
(*                                                                         *)
(* Days are numbered from Monday, 0; the rest of a date matters only to    *)
(* Procs, whose answer is left open.                                       *)
(***************************************************************************)
EXTENDS Lists

CONSTANT VariantNames    \* keys that variants and Procs may use

DayName == [d \in 0..6 |-> <<"mon", "tue", "wed", "thu", "fri", "sat", "sun">>[d + 1]]
DowKeys == {DayName[d] : d \in 0..6} \cup {"weekdays", "weekends", "default"}

\* on: what a block is restricted to.  rank is the place of its to_s among
\* the others', by which blocks of one anchor are sorted.
Always == [type |-> "nil", value |-> "", rank |-> 0]

\* `variant:` without and with a table; a Proc's answer is not known here.
NoSelector == [type |-> "nil", table |-> <<>>]
DowSelector(table) == [type |-> "dow", table |-> table]
ProcSelector == [type |-> "proc", table |-> <<>>]

-----------------------------------------------------------------------------
(* The declaration.                                                        *)

\* parse_clock!: "HH:MM:SS" with every part in its range.
ClockOK(clock) == clock.h <= 23 /\ clock.m <= 59 /\ clock.s <= 59
AtSeconds(clock) == clock.h * 3600 + clock.m * 60 + clock.s

\* validate_on!
OnOK(on) == on.type \in {"nil", "symbol", "list", "range", "proc"}

\* Slip: the values of the table are not looked at.
TableOK_AnyValue(table, variants) == DOMAIN table \subseteq DowKeys

\* normalize_variant_selector: a table has known days for keys and declared
\* variants for values.
TableOK(table, variants) ==
    /\ DOMAIN table \subseteq DowKeys
    /\ \A k \in DOMAIN table : table[k] \in DOMAIN variants

SelectorOK(block) ==
    CASE ~block.varies -> block.selector.type = "nil"
      [] block.varies /\ block.selector.type = "dow" ->
             TableOK(block.selector.table, block.variants)
      [] OTHER -> block.selector.type = "proc"

\* ScheduleBuilder#block; `sound` stands for the checks of align:, count:,
\* epg: and of the shape of each variant.
BlockOK(block) ==
    /\ ClockOK(block.at) /\ block.sound /\ OnOK(block.on) /\ SelectorOK(block)

SlotKey(block) == <<AtSeconds(block.at), block.on>>

\* ScheduleBuilder#to_h.
NoDuplicates(blocks) ==
    \A i, j \in DOMAIN blocks : SlotKey(blocks[i]) = SlotKey(blocks[j]) => i = j

Earlier(b, c) ==
    \/ AtSeconds(b.at) < AtSeconds(c.at)
    \/ AtSeconds(b.at) = AtSeconds(c.at) /\ b.on.rank < c.on.rank

\* sort_by: each block goes behind those it is not to precede.
Sorted(blocks) ==
    LET sorted[n \in 0..Len(blocks)] ==
            IF n = 0 THEN <<>>
            ELSE LET had   == sorted[n - 1]
                     later == {b \in ToSet(had) : Earlier(blocks[n], b)}
                 IN  Kept(had, ToSet(had) \ later) \o <<blocks[n]>> \o Kept(had, later)
    IN  sorted[Len(blocks)]

-----------------------------------------------------------------------------
(* The day.                                                                *)

\* Slip: Saturday counts as a weekday too.
AppliesToday_LongWeek(on, day) ==
    CASE on.type = "symbol" /\ on.value = "weekdays" -> day <= 5
      [] on.type = "symbol" /\ on.value = "weekends" -> day >= 5
      [] on.type = "list" -> DayName[day] \in on.value
      [] OTHER -> TRUE

\* _applies_today: any other symbol, a range and a Proc let the block on.
AppliesToday(on, day) ==
    CASE on.type = "symbol" /\ on.value = "weekdays" -> day < 5
      [] on.type = "symbol" /\ on.value = "weekends" -> day >= 5
      [] on.type = "list" -> DayName[day] \in on.value
      [] OTHER -> TRUE

\* What a variant is resolved to when nothing is chosen, and on an exception.
Own == "own"
Raises == "raises"

\* Slip: the weekend ends on Saturday.
FromTable_ShortWeekend(table, day) ==
    CASE DayName[day] \in DOMAIN table -> table[DayName[day]]
      [] DayName[day] \notin DOMAIN table /\ 0 <= day /\ day <= 4
            /\ "weekdays" \in DOMAIN table -> table["weekdays"]
      [] DayName[day] \notin DOMAIN table /\ day = 5
            /\ "weekends" \in DOMAIN table -> table["weekends"]
      [] OTHER -> IF "default" \in DOMAIN table THEN table["default"] ELSE Raises

\* resolve_variant for a table: the day, else its part of the week, else
\* the default.
FromTable(table, day) ==
    CASE DayName[day] \in DOMAIN table -> table[DayName[day]]
      [] DayName[day] \notin DOMAIN table /\ 0 <= day /\ day <= 4
            /\ "weekdays" \in DOMAIN table -> table["weekdays"]
      [] DayName[day] \notin DOMAIN table /\ 5 <= day /\ day <= 6
            /\ "weekends" \in DOMAIN table -> table["weekends"]
      [] OTHER -> IF "default" \in DOMAIN table THEN table["default"] ELSE Raises

\* The keys _resolve_block_variant may come to.  A Proc runs in Ruby, which
\* may answer any name, fail, or take too long.
Keys(block, day) ==
    IF ~block.varies \/ DOMAIN block.variants = {} THEN {Own}
    ELSE IF block.selector.type = "dow" THEN {FromTable(block.selector.table, day)}
    ELSE VariantNames \cup {Raises}

\* apply_variant: the collection and the layout, each on its own.  An
\* undeclared key, or a variant that does not name one, leaves the block its
\* own.
Chosen(block, key, part) ==
    IF key \in DOMAIN block.variants /\ block.variants[key][part] # ""
    THEN block.variants[key][part] ELSE block[part]

Airs(block, key) == Chosen(block, key, "collection")
LaidOut(block, key) == Chosen(block, key, "layout")

Active(blocks, day) == Kept(blocks, {b \in ToSet(blocks) : AppliesToday(b.on, day)})

=============================================================================

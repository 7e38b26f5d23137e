------------------------------ MODULE DayPlan -------------------------------
(***************************************************************************)
(* expand_day (planner/expander.py): how one day of one channel becomes a  *)
(* list of positioned items and a list of guide programmes.                *)
(*                                                                         *)
(* The planner is sequential.  Its state is the program's own local        *)
(* variables: the walk over the day (cursor, idx), the block or default    *)
(* block being expanded (here, limit, out, mains, ...) and what the later  *)
(* passes build (final, programmes).  `todo` holds what the code has       *)
(* decided to place and not placed yet; every placement is one step.       *)
(***************************************************************************)
EXTENDS Fillers

CONSTANTS
    Plans            \* the plans to expand

(***************************************************************************)
(* Plans.  A layout keeps its steps, a block the layout it names; Plans    *)
(* hold the blocks active on the day, in anchor order (module Schedule).   *)
(***************************************************************************)
NoCount == -1        \* count: nil or :auto

Layout == [pre : Nat, post : Nat, mid : MidRoll, slug : Nat,
           fills : BOOLEAN, fill : Seq(Kinds),
           gran : {"per_item", "per_block", "per_chapter"}]

Block == [at : 0 .. DayLen - 1, count : Nat \cup {NoCount}, align : Nat,
          coll : Collections, known : BOOLEAN, layout : Layout]

DefaultBlock == [on : BOOLEAN, coll : Collections, known : BOOLEAN,
                 gran : {"per_item", "per_block", "per_chapter"}]

\* A filler pool is one local file or the items of a query, by duration.
FillerPool == [local : BOOLEAN, ticks : Seq(Nat)]

Modes == {"walk", "any", "memory"}

PlanOK(p) ==
    /\ p.active \in Seq(Block)
    /\ \A i, j \in DOMAIN p.active : i < j => p.active[i].at <= p.active[j].at
    /\ p.deflt \in DefaultBlock
    /\ DOMAIN p.pool \subseteq Collections
    /\ \A c \in DOMAIN p.pool : p.pool[c] \in Seq(Nat)
    /\ p.mode \in [Collections -> Modes]
    /\ p.filler \in [Kinds -> FillerPool]
    /\ \A k \in Kinds : p.filler[k].local => p.filler[k].ticks # << >>

ASSUME DayPlanAssumption ==
    /\ {"pre_roll", "post_roll", "mid_roll", "slug"} \subseteq Kinds
    /\ \A p \in Plans : PlanOK(p)

VARIABLES
    plan,            \* the plan and its resolved pools
    pc,              \* where the planner is
    cursor, idx,     \* expand_day: instant reached, next block
    limit,           \* next_anchor (or `end`) of the expansion under way
    here,            \* the cursor local to that expansion
    out,             \* its `out` list
    mains,           \* main iterations it may still make
    chunks,          \* pieces of the current main not scheduled yet
    budgets,         \* nanoseconds of the breaks between them
    todo,            \* what is decided and not placed yet
    nextPool,        \* index of the next pool of the fill step
    target,          \* aligned_end
    picker,          \* per collection: PoolPicker
    items,           \* exp.items
    final,           \* exp.items after the midnight split
    programmes,      \* exp.programmes
    current          \* the open programme, if any: a sequence of at most one

walkVars  == <<cursor, idx, items>>
blockVars == <<limit, here, out, mains, chunks, budgets, todo, nextPool, target>>
passVars  == <<final, programmes, current>>
vars == <<plan, pc, walkVars, blockVars, picker, passVars>>

-----------------------------------------------------------------------------
(* Pools and pickers. *)

DefaultAnchor == -1  \* block_anchor "default"

\* _filler_drain_pool: a local filler counts as `hint` copies of itself.
DrainPool(kind, hint) ==
    LET f == plan.filler[kind]
    IN  IF f.local
        THEN [i \in 1 .. (IF hint > 1 THEN hint ELSE 1) |->
                  ToPlayable(kind, 1, f.ticks[1])]
        ELSE [i \in 1 .. Len(f.ticks) |-> ToPlayable(kind, i, f.ticks[i])]

\* _filler_pick: the first item of the pool, none if there is none.
FillerPick(kind) ==
    LET f == plan.filler[kind]
    IN  IF f.ticks = << >> THEN << >> ELSE <<ToPlayable(kind, 1, f.ticks[1])>>

Pool(coll) == plan.pool[coll]

\* PoolPicker.pick: the positions it may return and the picker it leaves.
\* "walk" is sequential and chronological (the pool is in the mode's order),
\* "any" is shuffle and weighted_random, "memory" random_with_memory.
Picks(coll) ==
    LET all   == 1 .. Len(Pool(coll))
        fresh == all \ picker[coll].recent
        next  == (picker[coll].pos % Len(Pool(coll))) + 1
    IN  CASE plan.mode[coll] = "walk" -> {next}
          [] plan.mode[coll] = "memory" /\ fresh # {} -> fresh
          [] OTHER -> all

Picked(coll, n) ==
    CASE plan.mode[coll] = "walk" ->
            [picker EXCEPT ![coll].pos = n % Len(Pool(coll))]
      [] plan.mode[coll] = "memory" ->
            [picker EXCEPT ![coll].recent = @ \cup {n}]
      [] OTHER -> picker

-----------------------------------------------------------------------------
(* Placement. *)

\* _place: the finish drops what is below a microsecond.
Placed(item, start, anchor, gran, kind) ==
    [start |-> start, finish |-> AddNanos(start, item.dur), item |-> item,
     anchor |-> anchor, half |-> "whole", gran |-> gran, kind |-> kind]

IsFiller(s) == s.kind # "main"

\* A piece of decided work: a list to place as it is, or a pool to fill
\* `left` nanoseconds from (by draining it or by looping its only item).
Work == {w \in [op : {"items", "drain", "loop"}, list : Seq(Item), left : Int,
                over : Seq(Item), trim : BOOLEAN, kind : Roles] :
            w.op = "loop" => w.list # << >>}

ItemsOf(list, kind) ==
    [op |-> "items", list |-> list, left |-> 0, over |-> << >>,
     trim |-> FALSE, kind |-> kind]

FillFrom(op, list, budget, trim, kind) ==
    [op |-> op, list |-> list, left |-> budget, over |-> << >>,
     trim |-> trim, kind |-> kind]

Busy == todo # << >>
Now  == Head(todo)

\* The work under way with less to do; `over` is the first oversized item.
Rest(list, left, over) ==
    [op |-> Now.op, list |-> list, left |-> left, over |-> over,
     trim |-> Now.trim, kind |-> Now.kind]

B    == plan.active[idx]         \* the block under expansion

Lay(item) ==
    /\ out' = Append(out, Placed(item, here, B.at, B.layout.gran, Now.kind))
    /\ here' = AddNanos(here, item.dur)

KeepBlock ==
    UNCHANGED <<plan, pc, walkVars, limit, mains, chunks, budgets, nextPool,
                target, picker, passVars>>

\* One item of a list.
PlaceNext ==
    /\ Busy /\ Now.op = "items" /\ Now.list # << >>
    /\ Lay(Head(Now.list))
    /\ todo' = <<Rest(Tail(Now.list), Now.left, Now.over)>> \o Tail(todo)
    /\ KeepBlock

ListDone ==
    /\ Busy /\ Now.op = "items" /\ Now.list = << >>
    /\ todo' = Tail(todo)
    /\ UNCHANGED <<here, out>>
    /\ KeepBlock

\* Slip: an item is taken without looking at the budget.
DrainTake_AnySize ==
    /\ Busy /\ Now.op = "drain" /\ Now.list # << >> /\ Now.left > 0
    /\ Lay(Head(Now.list))
    /\ todo' = <<Rest(Tail(Now.list), Now.left - Head(Now.list).dur, Now.over)>>
               \o Tail(todo)
    /\ KeepBlock

\* fill_budget_draining: an item that fits is emitted whole ...
DrainTake ==
    /\ Busy /\ Now.op = "drain" /\ Now.list # << >> /\ Now.left > 0
    /\ Head(Now.list).dur <= Now.left
    /\ Lay(Head(Now.list))
    /\ todo' = <<Rest(Tail(Now.list), Now.left - Head(Now.list).dur, Now.over)>>
               \o Tail(todo)
    /\ KeepBlock

\* ... one that does not is skipped, and the first such one remembered.
DrainSkip ==
    /\ Busy /\ Now.op = "drain" /\ Now.list # << >> /\ Now.left > 0
    /\ Head(Now.list).dur > Now.left
    /\ todo' = <<Rest(Tail(Now.list), Now.left,
                      IF Now.over = << >> THEN <<Head(Now.list)>> ELSE Now.over)>>
               \o Tail(todo)
    /\ UNCHANGED <<here, out>>
    /\ KeepBlock

\* The residual goes to the trimmed item, when trimming is allowed.
FillEnd(trimmed) ==
    /\ todo' = (IF Now.trim /\ Now.left > 0 /\ trimmed # << >>
                THEN <<ItemsOf(<<TrimTo(trimmed[1], Now.left)>>, Now.kind)>>
                ELSE << >>) \o Tail(todo)
    /\ UNCHANGED <<here, out>>
    /\ KeepBlock

DrainEnd ==
    /\ Busy /\ Now.op = "drain"
    /\ Now.list = << >> \/ Now.left <= 0
    /\ FillEnd(Now.over)

\* fill_budget_looped: the only item of a pool, over and over.
LoopTake ==
    /\ Busy /\ Now.op = "loop"
    /\ Now.left >= Now.list[1].dur
    /\ Lay(Now.list[1])
    /\ todo' = <<Rest(Now.list, Now.left - Now.list[1].dur, Now.over)>> \o Tail(todo)
    /\ KeepBlock

LoopEnd ==
    /\ Busy /\ Now.op = "loop"
    /\ Now.left < Now.list[1].dur
    /\ FillEnd(Now.list)

Placing ==
    \/ PlaceNext \/ ListDone
    \/ DrainTake \/ DrainSkip \/ DrainEnd
    \/ LoopTake \/ LoopEnd

-----------------------------------------------------------------------------
(* The walk over the day. *)

GapAhead  == idx <= Len(plan.active) /\ plan.active[idx].at > cursor
BlockDue  == idx <= Len(plan.active) /\ plan.active[idx].at <= cursor
TailAhead == idx > Len(plan.active)

Walking == pc = "walk" /\ cursor < DayLen

Fail ==
    /\ pc' = "error"
    /\ UNCHANGED <<plan, walkVars, blockVars, picker, passVars>>

DefaultUsable == plan.deflt.known /\ plan.deflt.coll \in DOMAIN plan.pool

\* Slip: a gap is filled up to midnight, not up to the next anchor.
EnterDefault_ToMidnight ==
    /\ Walking /\ plan.deflt.on
    /\ GapAhead \/ TailAhead
    /\ DefaultUsable
    /\ pc' = "default"
    /\ limit' = DayLen
    /\ here' = cursor
    /\ out' = << >>
    /\ UNCHANGED <<plan, walkVars, mains, chunks, budgets, todo, nextPool,
                   target, picker, passVars>>

\* _expand_default_block(cursor, to): up to the next anchor, or to the end.
EnterDefault ==
    /\ Walking /\ plan.deflt.on
    /\ GapAhead \/ TailAhead
    /\ DefaultUsable
    /\ pc' = "default"
    /\ limit' = IF GapAhead THEN plan.active[idx].at ELSE DayLen
    /\ here' = cursor
    /\ out' = << >>
    /\ UNCHANGED <<plan, walkVars, mains, chunks, budgets, todo, nextPool,
                   target, picker, passVars>>

DefaultFails ==
    /\ Walking /\ plan.deflt.on
    /\ GapAhead \/ TailAhead
    /\ ~DefaultUsable
    /\ Fail

\* No default block: the gap stays empty.
SkipGap ==
    /\ Walking /\ ~plan.deflt.on /\ GapAhead
    /\ cursor' = plan.active[idx].at
    /\ UNCHANGED <<plan, pc, idx, items, blockVars, picker, passVars>>

EndWalk ==
    /\ pc = "walk"
    /\ cursor >= DayLen \/ (TailAhead /\ ~plan.deflt.on)
    /\ pc' = "split"
    /\ UNCHANGED <<plan, walkVars, blockVars, picker, passVars>>

\* Slip: the walk goes on at the end of the day when nothing fits any more.
LeaveDefault_NoBreak ==
    /\ items' = items \o out
    /\ cursor' = IF out # << >> THEN out[Len(out)].finish
                 ELSE IF TailAhead THEN cursor ELSE limit
    /\ pc' = "walk"
    /\ UNCHANGED <<plan, idx, blockVars, passVars>>

\* Back in expand_day: a default expansion that placed nothing gives up the
\* gap (on to the anchor) or the rest of the day.
LeaveDefault ==
    /\ items' = items \o out
    /\ IF out # << >>
       THEN cursor' = out[Len(out)].finish /\ pc' = "walk"
       ELSE IF TailAhead
            THEN cursor' = cursor /\ pc' = "split"
            ELSE cursor' = limit /\ pc' = "walk"
    /\ UNCHANGED <<plan, idx, blockVars, passVars>>

DefaultWants == here < limit /\ Pool(plan.deflt.coll) # << >>

\* Slip: the next item is placed whether it fits or not.
DefaultPlace_NoLookahead ==
    /\ pc = "default" /\ DefaultWants
    /\ \E n \in Picks(plan.deflt.coll) :
          LET coll == plan.deflt.coll
              item == ToPlayable(coll, n, Pool(coll)[n])
          IN  /\ out' = Append(out, Placed(item, here, DefaultAnchor,
                                           plan.deflt.gran, "main"))
              /\ here' = AddNanos(here, item.dur)
              /\ picker' = Picked(coll, n)
    /\ UNCHANGED <<plan, pc, walkVars, limit, mains, chunks, budgets, todo,
                   nextPool, target, passVars>>

\* The next pick fits before the end of the gap and is placed.
DefaultPlace ==
    /\ pc = "default" /\ DefaultWants
    /\ \E n \in Picks(plan.deflt.coll) :
          LET coll == plan.deflt.coll
              item == ToPlayable(coll, n, Pool(coll)[n])
          IN  /\ DiffNanos(limit, here) >= item.dur
              /\ out' = Append(out, Placed(item, here, DefaultAnchor,
                                           plan.deflt.gran, "main"))
              /\ here' = AddNanos(here, item.dur)
              /\ picker' = Picked(coll, n)
    /\ UNCHANGED <<plan, pc, walkVars, limit, mains, chunks, budgets, todo,
                   nextPool, target, passVars>>

\* It does not fit: the pick is spent and the expansion ends.
DefaultReject ==
    /\ pc = "default" /\ DefaultWants
    /\ \E n \in Picks(plan.deflt.coll) :
          LET coll == plan.deflt.coll
              item == ToPlayable(coll, n, Pool(coll)[n])
          IN  /\ DiffNanos(limit, here) < item.dur
              /\ picker' = Picked(coll, n)
    /\ LeaveDefault

DefaultDone ==
    /\ pc = "default" /\ ~DefaultWants
    /\ UNCHANGED picker
    /\ LeaveDefault

-----------------------------------------------------------------------------
(* _expand_block. *)

BlockUsable(b) ==
    b.known /\ b.coll \in DOMAIN plan.pool /\ Pool(b.coll) # << >>

\* `count` bumpers before the mains (pre_roll) and after them (post_roll).
Bumpers(kind, count) ==
    LET pool == DrainPool(kind, count)
    IN  IF pool = << >> THEN << >>
        ELSE [i \in 1 .. count |-> pool[((i - 1) % Len(pool)) + 1]]

EnterBlock ==
    /\ Walking /\ BlockDue
    /\ BlockUsable(B)
    /\ pc' = "mains"
    /\ limit' = IF idx + 1 <= Len(plan.active) THEN plan.active[idx + 1].at
                                               ELSE DayLen
    /\ here' = B.at
    /\ out' = << >>
    /\ mains' = IF B.count = NoCount THEN 1 ELSE B.count
    /\ todo' = <<ItemsOf(Bumpers("pre_roll", B.layout.pre), "pre_roll")>>
    /\ UNCHANGED <<plan, walkVars, chunks, budgets, nextPool, target, picker,
                   passVars>>

BlockFails ==
    /\ Walking /\ BlockDue
    /\ ~BlockUsable(B)
    /\ Fail

Deciding(stage) == pc = stage /\ ~Busy

MainsWanted == mains > 0 /\ here < limit

\* One round of the main loop: pick, cut at the breaks, budget the breaks
\* out of what the main leaves of the room before the next anchor.
PickMain ==
    /\ Deciding("mains") /\ chunks = << >> /\ MainsWanted
    /\ ~(B.layout.mid.every = "minutes" /\ B.layout.mid.interval = 0)
    /\ \E n \in Picks(B.coll) :
          LET main == ToPlayable(B.coll, n, Pool(B.coll)[n])
              cut  == IF B.layout.mid.every = "none" THEN <<main>>
                      ELSE Chunks(main, B.layout.mid)
              room == DiffNanos(limit, here) - main.dur
          IN  /\ chunks' = cut
              /\ budgets' = BreakBudgets(room, Len(cut) - 1, B.layout.mid)
              /\ picker' = Picked(B.coll, n)
    /\ mains' = mains - 1
    /\ UNCHANGED <<plan, pc, walkVars, limit, here, out, todo, nextPool,
                   target, passVars>>

\* every: {minutes: 0} divides by zero on the first main.
ZeroInterval ==
    /\ Deciding("mains") /\ chunks = << >> /\ MainsWanted
    /\ B.layout.mid.every = "minutes" /\ B.layout.mid.interval = 0
    /\ Fail

\* A break: the wrapping fillers, then the mid_roll pool up to the budget.
Break(budget) ==
    [i \in 1 .. Len(B.layout.mid.wrap) |->
        ItemsOf(FillerPick(B.layout.mid.wrap[i]), B.layout.mid.wrap[i])]
    \o <<FillFrom("drain", DrainPool("mid_roll", 10), budget, TRUE, "mid_roll")>>

\* The slug follows every main, the last one included.
Slug ==
    IF B.layout.slug = 0 \/ FillerPick("slug") = << >> THEN << >>
    ELSE <<ItemsOf(<<[FillerPick("slug")[1] EXCEPT !.dur = B.layout.slug]>>,
                   "slug")>>

\* The next piece of the main, with the break or the slug behind it.
NextChunk ==
    /\ Deciding("mains") /\ chunks # << >>
    /\ todo' = <<ItemsOf(<<Head(chunks)>>, "main")>>
               \o (IF Len(chunks) > 1 THEN Break(Head(budgets)) ELSE Slug)
    /\ chunks' = Tail(chunks)
    /\ budgets' = IF Len(chunks) > 1 THEN Tail(budgets) ELSE << >>
    /\ UNCHANGED <<plan, pc, walkVars, limit, here, out, mains, nextPool,
                   target, picker, passVars>>

EndMains ==
    /\ Deciding("mains") /\ chunks = << >> /\ ~MainsWanted
    /\ pc' = "post"
    /\ todo' = <<ItemsOf(Bumpers("post_roll", B.layout.post), "post_roll")>>
    /\ UNCHANGED <<plan, walkVars, limit, here, out, mains, chunks, budgets,
                   nextPool, target, picker, passVars>>

\* The fill step, when the layout has one and the aligned end is ahead.
StartFill ==
    /\ Deciding("post")
    /\ target' = TargetEnd(here, limit, B.align)
    /\ pc' = IF B.layout.fills /\ target' > here THEN "fill" ELSE "return"
    /\ nextPool' = 1
    /\ UNCHANGED <<plan, walkVars, limit, here, out, mains, chunks, budgets,
                   todo, picker, passVars>>

Remaining == DiffNanos(target, here)

\* One pool of the list; only the last one named may trim.
FillPool ==
    /\ Deciding("fill")
    /\ nextPool <= Len(B.layout.fill) /\ Remaining > 0
    /\ LET kind == B.layout.fill[nextPool]
           pool == DrainPool(kind, 20)
           last == nextPool = Len(B.layout.fill)
       IN  todo' = IF pool = << >> THEN << >>
                   ELSE <<FillFrom(IF Len(pool) = 1 THEN "loop" ELSE "drain",
                                   pool, Remaining, last, kind)>>
    /\ nextPool' = nextPool + 1
    /\ UNCHANGED <<plan, pc, walkVars, limit, here, out, mains, chunks,
                   budgets, target, picker, passVars>>

\* Slip: the safety net is missing.
EndFill_NoSafetyNet ==
    /\ Deciding("fill")
    /\ nextPool > Len(B.layout.fill) \/ Remaining <= 0
    /\ pc' = "filled"
    /\ UNCHANGED <<plan, walkVars, limit, here, out, mains, chunks, budgets,
                   todo, nextPool, target, picker, passVars>>

\* Whatever the pools left is black frames.
EndFill ==
    /\ Deciding("fill")
    /\ nextPool > Len(B.layout.fill) \/ Remaining <= 0
    /\ todo' = IF Remaining > 0
               THEN <<ItemsOf(<<BlackFrames(Remaining)>>, "lavfi")>>
               ELSE << >>
    /\ pc' = "filled"
    /\ UNCHANGED <<plan, walkVars, limit, here, out, mains, chunks, budgets,
                   nextPool, target, picker, passVars>>

LeaveBlock ==
    /\ Deciding("return") \/ Deciding("filled")
    /\ items' = items \o out
    /\ cursor' = IF out # << >> THEN out[Len(out)].finish ELSE cursor
    /\ idx' = idx + 1
    /\ pc' = "walk"
    /\ UNCHANGED <<plan, blockVars, picker, passVars>>

-----------------------------------------------------------------------------
(* The passes over the day's items.  `items` is consumed from the left.   *)

Half(s, start, finish, item, half) ==
    [start |-> start, finish |-> finish, item |-> item, anchor |-> s.anchor,
     half |-> half, gran |-> s.gran, kind |-> s.kind]

\* _apply_midnight_split: one item.
SplitNext ==
    /\ pc = "split" /\ items # << >>
    /\ LET s == Head(items)
       IN  final' = final \o
             (IF s.finish > DayLen /\ CrossesMidnight(s.item, s.start)
              THEN << Half(s, s.start, NextMidnight(s.start),
                           PreHalf(s.item, s.start), "pre"),
                      Half(s, NextMidnight(s.start), s.finish,
                           PostHalf(s.item, s.start), "post") >>
              ELSE <<s>>)
    /\ items' = Tail(items)
    /\ UNCHANGED <<plan, pc, cursor, idx, blockVars, picker, programmes, current>>

EndSplit ==
    /\ pc = "split" /\ items = << >>
    /\ pc' = "guide"
    /\ items' = final
    /\ UNCHANGED <<plan, cursor, idx, blockVars, picker, passVars>>

Programme(s) ==
    [start |-> s.start, finish |-> s.finish, anchor |-> s.anchor,
     half |-> s.half, of |-> s.item.of, no |-> s.item.no]

SameBlock(p, s) == p.anchor = s.anchor /\ p.half = s.half

\* _project_epg: fillers, and under per_block the block's further mains,
\* stretch the open programme; another main closes it and opens its own.
GuideNext ==
    /\ pc = "guide" /\ items # << >>
    /\ LET s == Head(items)
           joins == current # << >> /\
                      (IsFiller(s) \/ (s.gran = "per_block"
                                       /\ SameBlock(current[1], s)))
       IN  IF joins
           THEN /\ current' = <<[current[1] EXCEPT !.finish = s.finish]>>
                /\ UNCHANGED programmes
           ELSE IF IsFiller(s)
           THEN UNCHANGED <<programmes, current>>
           ELSE /\ programmes' = programmes \o current
                /\ current' = <<Programme(s)>>
    /\ items' = Tail(items)
    /\ UNCHANGED <<plan, pc, cursor, idx, blockVars, picker, final>>

\* Slip: the last programme is never closed.
EndGuide_DropsOpen ==
    /\ pc = "guide" /\ items = << >>
    /\ current' = << >>
    /\ pc' = "done"
    /\ UNCHANGED <<plan, walkVars, blockVars, picker, final, programmes>>

EndGuide ==
    /\ pc = "guide" /\ items = << >>
    /\ programmes' = programmes \o current
    /\ current' = << >>
    /\ pc' = "done"
    /\ UNCHANGED <<plan, walkVars, blockVars, picker, final>>

-----------------------------------------------------------------------------
Init ==
    /\ plan \in Plans
    /\ pc = IF plan.active = << >> /\ ~plan.deflt.on THEN "error" ELSE "walk"
    /\ cursor = 0 /\ idx = 1 /\ items = << >>
    /\ limit = DayLen /\ here = 0 /\ out = << >> /\ mains = 0
    /\ chunks = << >> /\ budgets = << >> /\ todo = << >>
    /\ nextPool = 1 /\ target = 0
    /\ picker = [c \in Collections |-> [pos |-> 0, recent |-> {}]]
    /\ final = << >> /\ programmes = << >> /\ current = << >>

Walk == EnterDefault \/ DefaultFails \/ SkipGap \/ EnterBlock \/ BlockFails
        \/ EndWalk
DefaultStep == DefaultPlace \/ DefaultReject \/ DefaultDone
BlockStep == \/ PickMain \/ ZeroInterval \/ NextChunk \/ EndMains
             \/ StartFill \/ FillPool \/ EndFill \/ LeaveBlock
Passes == SplitNext \/ EndSplit \/ GuideNext \/ EndGuide

Next == Walk \/ DefaultStep \/ BlockStep \/ Placing \/ Passes

\* The planner is a plain function call: it runs as long as it can.
Spec == Init /\ [][Next]_vars /\ WF_vars(Next)

-----------------------------------------------------------------------------
(* Properties. *)

Segment == [start : Nat, finish : Nat, item : Item, anchor : Int,
            half : {"whole", "pre", "post"},
            gran : {"per_item", "per_block", "per_chapter"}, kind : Roles]

Stages == {"walk", "default", "mains", "post", "fill", "filled", "return",
           "split", "guide", "done", "error"}

InBlock == pc \in {"mains", "post", "fill", "filled", "return"}

PickerState == [pos : Nat, recent : SUBSET Nat]

ProgrammeType == [start : Nat, finish : Nat, anchor : Int,
                  half : {"whole", "pre", "post"}, of : Sources, no : Nat]

\* Type correctness of the planner's variables.
TypeOK ==
    /\ PlanOK(plan)
    /\ pc \in Stages
    /\ cursor \in Instant /\ idx \in Nat \ {0}
    /\ limit \in Instant /\ here \in Instant /\ target \in Instant
    /\ mains \in Nat /\ nextPool \in Nat \ {0}
    /\ out \in Seq(Segment) /\ items \in Seq(Segment) /\ final \in Seq(Segment)
    /\ chunks \in Seq(Item) /\ budgets \in Seq(Int)
    /\ todo \in Seq(Work)
    /\ picker \in [Collections -> PickerState]
    /\ programmes \in Seq(ProgrammeType) /\ current \in Seq(ProgrammeType)

\* While a fill step runs, neither the pools it draws from nor the black
\* frames behind them push the block past its aligned end, and the aligned
\* end is never past the next anchor (DESIGN 8.4, "a fill step never emits
\* past the next anchor").  Durations are nanoseconds and instants
\* microseconds: what every placement rounds away must not add up.
FillStaysInside ==
    pc \in {"fill", "filled"} => here <= target /\ target <= limit

\* When a fill step is over, the block ends exactly on its aligned end,
\* whatever the pools held (DESIGN 7.3, no drift).
FillLandsOnTarget ==
    pc = "filled" /\ ~Busy => here = target

\* After the midnight split nothing in the day's list plays across the
\* midnight that ends the day: mains and fillers are cut there, and the
\* black frames, which the split leaves alone, never reach it.
NothingCrossesMidnight ==
    \A i \in DOMAIN final : final[i].finish <= DayLen \/ final[i].start >= DayLen

\* What the default block places stays before the anchor it fills up to.
DefaultStaysInside == pc = "default" => here <= limit

Planned == pc \in {"guide", "done"}

Mains == {i \in DOMAIN final : ~IsFiller(final[i])}

SameMedia(s, t) == s.item.of = t.item.of /\ s.item.no = t.item.no

\* The item whose source the piece at j resumes, when it starts in mid-source.
ResumedBy(j) ==
    {i \in 1 .. j - 1 :
        /\ SameMedia(final[i], final[j])
        /\ final[i].item.out = final[j].item.in
        /\ final[i].finish <= final[j].start
        /\ \A k \in i + 1 .. j - 1 : IsFiller(final[k])}

Ticks(s) == ToPlayable(s.item.of, s.item.no, Pool(s.item.of)[s.item.no]).dur

\* A main cut by breaks or by midnight is shown whole and in order: every
\* piece that starts in mid-source picks up where the piece before it
\* stopped, and a main nothing picks up again has played to its end.
MediaAirsWhole ==
    Planned =>
        /\ \A j \in Mains : final[j].item.in > 0 => ResumedBy(j) # {}
        /\ \A i \in Mains :
              \/ final[i].item.out \in {NoPoint, Ticks(final[i]) \div NanosPerMilli}
              \/ \E j \in Mains : i \in ResumedBy(j)

\* A block ran past the anchor of a later block.
Overran(s) ==
    /\ s.anchor # DefaultAnchor
    /\ \E i \in DOMAIN plan.active :
          plan.active[i].at > s.anchor /\ s.finish > plan.active[i].at

\* Two blocks begin at its anchor; the first one has no room at all.
DoubleBooked(s) ==
    \E i, j \in DOMAIN plan.active :
        i < j /\ plan.active[i].at = s.anchor /\ plan.active[j].at = s.anchor

\* Items of one day overlap only behind a block that overran the next
\* anchor, or had to share its own: filling gaps, filling up to a boundary and
\* cutting at midnight never make two items play at once.
OverlapNeedsOverrun ==
    Planned =>
        \A j \in DOMAIN final : \A i \in 1 .. j - 1 :
            final[j].start < final[i].finish =>
                \E k \in 1 .. j - 1 : Overran(final[k]) \/ DoubleBooked(final[k])

\* Breaks are cut to the room the main leaves: a block of one main with
\* nothing but breaks around it keeps the next anchor if the main alone does.
BreaksKeepTheAnchor ==
    (/\ pc = "post" /\ ~Busy
     /\ B.count \in {NoCount, 1} /\ B.layout.mid.wrap = << >>
     /\ B.layout.slug = 0 /\ B.layout.pre = 0 /\ B.layout.post = 0
     /\ out # << >>
     /\ AddNanos(B.at, Ticks(out[1])) <= limit)
    => here <= limit

\* No two neighbours of the day's list overlap.
Tidy == \A i \in 1 .. Len(final) - 1 : final[i].finish <= final[i + 1].start

\* The guide of a day without overlaps: programmes follow each other without
\* overlapping, and every main is inside a programme (its own one, unless
\* programmes are per block).
GuideMatchesAir ==
    pc = "done" /\ Tidy =>
        /\ \A m \in 1 .. Len(programmes) - 1 :
              programmes[m].finish <= programmes[m + 1].start
        /\ \A i \in Mains : \E m \in DOMAIN programmes :
              /\ programmes[m].start <= final[i].start
              /\ final[i].finish <= programmes[m].finish
              /\ \/ final[i].gran = "per_block"
                 \/ programmes[m].of = final[i].item.of
                    /\ programmes[m].no = final[i].item.no

\* Whatever the plan, the walk over the day comes to its end: gaps nothing
\* fits in, blocks that start before the cursor, pools that run dry.
Terminates == <>(pc \in {"done", "error"})

\* DESIGN 5.5: "No block ever overruns its successor."
NoBlockOverruns == \A i \in DOMAIN final : ~Overran(final[i])

=============================================================================

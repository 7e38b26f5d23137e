--------------------------- MODULE DayPlanProofs ----------------------------
(***************************************************************************)
(* What TLAPS proves of DayPlan, for every plan, pool and duration: the    *)
(* planner's variables keep their types, a fill step stays inside the      *)
(* block's aligned end and lands on it, the default block stays inside its *)
(* gap, no item of the finished day plays across the midnight that ends    *)
(* it, and the guide of a day without overlaps is the day: what            *)
(* _project_epg makes of a list of items, item by item.                    *)
(***************************************************************************)
EXTENDS DayPlan, SequenceTheorems, TLAPS

USE TimeGridAssumption, FillersAssumption

-----------------------------------------------------------------------------
(* Arithmetic of instants. *)

\* Division by the length of a microsecond loses less than a microsecond.
LEMMA DivBounds ==
    ASSUME NEW d \in Nat, NEW n \in Nat \ {0}
    PROVE  /\ d \div n \in Nat
           /\ (d \div n) * n <= d
           /\ d < (d \div n) * n + n
    OBVIOUS

\* Placing d nanoseconds at t moves the cursor by no more than d.
LEMMA AddNanosBounds ==
    ASSUME NEW t \in Instant, NEW d \in Nat
    PROVE  /\ AddNanos(t, d) \in Instant
           /\ AddNanos(t, d) >= t
           /\ (AddNanos(t, d) - t) * NanosPerMicro <= d
           /\ d < (AddNanos(t, d) - t + 1) * NanosPerMicro
    BY DivBounds DEF AddNanos, Instant

\* A multiple of a microsecond is placed exactly.
LEMMA AddNanosExact ==
    ASSUME NEW t \in Instant, NEW u \in Instant, t <= u
    PROVE  AddNanos(t, DiffNanos(u, t)) = u
    <1>1. ((u - t) * NanosPerMicro) \div NanosPerMicro = u - t
        BY DEF Instant
    <1> QED BY <1>1 DEF AddNanos, DiffNanos, Instant

\* Placing what fits into the room before u does not pass u.
LEMMA AddNanosInside ==
    ASSUME NEW t \in Instant, NEW u \in Instant, NEW d \in Nat,
           d <= DiffNanos(u, t)
    PROVE  /\ AddNanos(t, d) <= u
           /\ DiffNanos(u, t) - d <= DiffNanos(u, AddNanos(t, d))
    <1> DEFINE v == AddNanos(t, d)
    <1>1. v \in Instant /\ (v - t) * NanosPerMicro <= d
        BY AddNanosBounds
    <1>2. (v - t) * NanosPerMicro <= (u - t) * NanosPerMicro
        BY <1>1 DEF DiffNanos, Instant
    <1>3. v - t <= u - t
        BY <1>1, <1>2 DEF Instant
    <1>4. (u - t) * NanosPerMicro - (v - t) * NanosPerMicro = (u - v) * NanosPerMicro
        BY <1>1 DEF Instant
    <1> QED BY <1>1, <1>3, <1>4 DEF DiffNanos, Instant

\* Alignment rounds up, and never past the next anchor.
LEMMA TargetEndBounds ==
    ASSUME NEW t \in Instant, NEW next \in Instant, NEW align \in Nat
    PROVE  /\ TargetEnd(t, next, align) \in Instant
           /\ TargetEnd(t, next, align) <= next
    <1> DEFINE hour == t - (t % HourLen)
               delta == t % HourLen
    <1>1. delta \in Nat /\ hour \in Nat
        BY DivBounds DEF Instant
    <1>2. align > 0 => ((delta \div align) + 1) * align \in Nat
        BY <1>1, DivBounds
    <1>3. CeilToNext(t, align) \in Nat
        BY <1>1, <1>2 DEF CeilToNext, Instant
    <1> QED BY <1>3 DEF TargetEnd, Instant

\* The midnight after t is after t, and is the day's end for t in the day.
LEMMA NextMidnightBounds ==
    ASSUME NEW t \in Instant
    PROVE  /\ NextMidnight(t) \in Instant
           /\ NextMidnight(t) > t
           /\ t < DayLen => NextMidnight(t) = DayLen
    <1>1. t \div DayLen \in Nat /\ t < (t \div DayLen) * DayLen + DayLen
        BY DivBounds DEF Instant
    <1>2. t < DayLen => t \div DayLen = 0
        BY DEF Instant
    <1>3. ((t \div DayLen) + 1) * DayLen = (t \div DayLen) * DayLen + DayLen
        BY <1>1
    <1> QED BY <1>1, <1>2, <1>3 DEF NextMidnight, Instant

-----------------------------------------------------------------------------
(* Types of what the actions build. *)

LocalItem == {i \in Item : i.src = "local"}

\* Media of a pool, cut or whole, are local items.
LEMMA ToPlayableType ==
    ASSUME NEW pool \in Sources, NEW no \in Nat, NEW ticks \in Nat
    PROVE  ToPlayable(pool, no, ticks) \in LocalItem
    BY DEF ToPlayable, LocalItem, Item, NoPoint, Sources

LEMMA TrimToType ==
    ASSUME NEW item \in LocalItem, NEW nanos \in Nat
    PROVE  TrimTo(item, nanos) \in LocalItem /\ TrimTo(item, nanos).dur = nanos
    <1>1. nanos \div NanosPerMilli \in Int
        BY DivBounds
    <1> QED BY <1>1 DEF TrimTo, Cut, LocalItem, Item

LEMMA ChunkType ==
    ASSUME NEW main \in LocalItem, NEW a \in Nat, NEW b \in Nat, a <= b
    PROVE  Chunk(main, a, b) \in LocalItem
    <1>1. a \div NanosPerMilli \in Int /\ b \div NanosPerMilli \in Int
        BY DivBounds
    <1> QED BY <1>1 DEF Chunk, Cut, LocalItem, Item

\* The pieces of a main are local items, one more than the breaks.
LEMMA ChunksType ==
    ASSUME NEW main \in LocalItem, NEW mid \in MidRoll,
           mid.every = "minutes" => mid.interval # 0
    PROVE  Chunks(main, mid) \in Seq(LocalItem) /\ Chunks(main, mid) # << >>
    <1> DEFINE half == main.dur \div 2
               n    == main.dur \div mid.interval
               cut  == [i \in 1 .. n |->
                          Chunk(main, mid.interval * (i - 1),
                                IF i = n THEN main.dur ELSE mid.interval * i)]
    <1>0. main.dur \in Nat
        BY DEF LocalItem, Item
    <1>1. CASE mid.every = "chapter"
        <2>1. half \in Nat /\ half <= main.dur
            BY <1>0
        <2>2. /\ Chunk(main, 0, half) \in LocalItem
              /\ Chunk(main, half, main.dur) \in LocalItem
              /\ Chunk(main, 0, main.dur) \in LocalItem
            BY <1>0, <2>1, ChunkType
        <2> QED BY <1>1, <2>1, <2>2 DEF Chunks
    <1>2. CASE mid.every = "minutes" /\ n > 1
        <2> DEFINE k == mid.interval
        <2>1. k \in Nat \ {0}
            BY <1>2 DEF MidRoll
        <2>2. n \in Nat /\ n * k <= main.dur
            BY <1>0, <2>1, DivBounds
        <2>3. \A i \in 1 .. n : cut[i] \in LocalItem
            <3> TAKE i \in 1 .. n
            <3>1. n = i + (n - i) /\ n - i \in Nat /\ i \in Nat /\ i - 1 \in Nat
                BY <2>2
            <3> HIDE DEF n, k
            <3>2. n * k = k * i + (n - i) * k /\ k * i = k * (i - 1) + k
                BY <3>1, <2>1
            <3>3. (n - i) * k \in Nat /\ k * (i - 1) \in Nat /\ k * i \in Nat
                BY <3>1, <2>1
            <3>4. k * (i - 1) <= k * i /\ k * i <= main.dur
                BY <3>2, <3>3, <2>1, <2>2, <1>0
            <3> DEFINE b == IF i = n THEN main.dur ELSE k * i
            <3>5. b \in Nat /\ k * (i - 1) <= b
                BY <3>3, <3>4, <1>0
            <3>6. Chunk(main, k * (i - 1), b) \in LocalItem
                BY <3>3, <3>5, ChunkType
            <3> QED BY <3>6 DEF k, n
        <2> HIDE DEF n
        <2>4. cut \in Seq(LocalItem) /\ cut # << >>
            <3>1. n \in Nat /\ n > 1 /\ \A i \in 1 .. n : cut[i] \in LocalItem
                BY <1>2, <2>2, <2>3 DEF n
            <3> QED BY <3>1
        <2> QED BY <1>2, <2>4 DEF Chunks, n
    <1>3. CASE mid.every \notin {"chapter", "minutes"}
               \/ (mid.every = "minutes" /\ ~(n > 1))
        BY <1>3 DEF Chunks
    <1> QED BY <1>1, <1>2, <1>3

-----------------------------------------------------------------------------
(* Type correctness.  Work in hand belongs to a block, and until the black *)
(* frames of the safety net it is made of local items only.                *)

LocalWork == {w \in Work : w.list \in Seq(LocalItem) /\ w.over \in Seq(LocalItem)}

Shape ==
    /\ Busy => InBlock
    /\ pc # "filled" => todo \in Seq(LocalWork)
    /\ chunks \in Seq(LocalItem)
    /\ chunks # << >> => pc = "mains" /\ Len(budgets) = Len(chunks) - 1
    /\ InBlock => /\ idx <= Len(plan.active)
                  /\ B.coll \in DOMAIN plan.pool
                  /\ Pool(B.coll) # << >>
    /\ pc = "default" => plan.deflt.coll \in DOMAIN plan.pool

TInv == TypeOK /\ Shape

LEMMA BlockType ==
    ASSUME TInv, idx <= Len(plan.active)
    PROVE  B \in Block /\ B.layout \in Layout /\ B.layout.mid \in MidRoll
    <1>1. plan.active \in Seq(Block) /\ idx \in 1 .. Len(plan.active)
        BY DEF TInv, TypeOK, PlanOK
    <1>2. B \in Block
        BY <1>1 DEF B
    <1> QED BY <1>2 DEF Block, Layout

LEMMA NowType ==
    ASSUME TInv, Busy
    PROVE  /\ Now \in Work /\ Tail(todo) \in Seq(Work) /\ InBlock
           /\ Now.list \in Seq(Item) /\ Now.over \in Seq(Item)
           /\ Now.kind \in Roles /\ Now.left \in Int
           /\ Now.op = "loop" => Now.list # << >>
           /\ pc # "filled" => /\ Now \in LocalWork
                               /\ Tail(todo) \in Seq(LocalWork)
                               /\ Now.list \in Seq(LocalItem)
                               /\ Now.over \in Seq(LocalItem)
    <1>1. todo \in Seq(Work) /\ todo # << >> /\ InBlock
        BY DEF TInv, TypeOK, Shape, Busy
    <1>2. Now \in Work /\ Tail(todo) \in Seq(Work)
        BY <1>1 DEF Now
    <1>3. pc # "filled" => Now \in LocalWork /\ Tail(todo) \in Seq(LocalWork)
        BY <1>1 DEF Now, TInv, Shape
    <1> QED BY <1>1, <1>2, <1>3 DEF Work, LocalWork

LEMMA KindNames == \A k \in Kinds : k \in Sources /\ k \in Roles
    BY DEF Sources, Roles

\* Fillers draw local items, `hint` copies of a file at least once.
LEMMA DrainPoolType ==
    ASSUME PlanOK(plan), NEW kind \in Kinds, NEW hint \in Nat
    PROVE  DrainPool(kind, hint) \in Seq(LocalItem)
    <1> DEFINE f == plan.filler[kind]
    <1>1. f \in FillerPool /\ (f.local => f.ticks # << >>)
        BY DEF PlanOK
    <1>2. f.ticks \in Seq(Nat) /\ kind \in Sources
        BY <1>1, KindNames DEF FillerPool
    <1> HIDE DEF f
    <1>3. \A i \in 1 .. Len(f.ticks) : ToPlayable(kind, i, f.ticks[i]) \in LocalItem
        BY <1>2, ToPlayableType
    <1>4. CASE f.local
        <2>1. ToPlayable(kind, 1, f.ticks[1]) \in LocalItem
            BY <1>1, <1>2, <1>4, ToPlayableType
        <2> DEFINE n == IF hint > 1 THEN hint ELSE 1
        <2>2. n \in Nat
            OBVIOUS
        <2> HIDE DEF n
        <2>3. [i \in 1 .. n |-> ToPlayable(kind, 1, f.ticks[1])] \in Seq(LocalItem)
            BY <2>1, <2>2
        <2> QED BY <1>4, <2>3 DEF DrainPool, f, n
    <1>5. CASE ~f.local
        <2>1. [i \in 1 .. Len(f.ticks) |-> ToPlayable(kind, i, f.ticks[i])] \in Seq(LocalItem)
            BY <1>2, <1>3
        <2> QED BY <1>5, <2>1 DEF DrainPool, f
    <1> QED BY <1>4, <1>5

LEMMA FillerPickType ==
    ASSUME PlanOK(plan), NEW kind \in Kinds
    PROVE  FillerPick(kind) \in Seq(LocalItem)
    <1> DEFINE f == plan.filler[kind]
    <1>1. f.ticks \in Seq(Nat) /\ kind \in Sources
        BY KindNames DEF PlanOK, FillerPool
    <1> HIDE DEF f
    <1>2. f.ticks # << >> => ToPlayable(kind, 1, f.ticks[1]) \in LocalItem
        BY <1>1, ToPlayableType
    <1> QED BY <1>2 DEF FillerPick, f

LEMMA BumpersType ==
    ASSUME PlanOK(plan), NEW kind \in Kinds, NEW count \in Nat
    PROVE  Bumpers(kind, count) \in Seq(LocalItem)
    <1> DEFINE pool == DrainPool(kind, count)
    <1>1. pool \in Seq(LocalItem)
        BY DrainPoolType
    <1> HIDE DEF pool
    <1>2. CASE pool # << >>
        <2>1. Len(pool) \in Nat \ {0}
            BY <1>1, <1>2
        <2>2. \A i \in 1 .. count : ((i - 1) % Len(pool)) + 1 \in 1 .. Len(pool)
            BY <2>1
        <2>3. \A i \in 1 .. count : pool[((i - 1) % Len(pool)) + 1] \in LocalItem
            BY <1>1, <2>2
        <2>4. [i \in 1 .. count |-> pool[((i - 1) % Len(pool)) + 1]] \in Seq(LocalItem)
            BY <2>3
        <2> QED BY <1>2, <2>4 DEF Bumpers, pool
    <1>3. CASE pool = << >>
        BY <1>3 DEF Bumpers, pool
    <1> QED BY <1>2, <1>3

LEMMA SeqOfLocal ==
    ASSUME NEW list \in Seq(LocalItem)
    PROVE  list \in Seq(Item)
    BY DEF LocalItem

LEMMA ItemsOfType ==
    ASSUME NEW list, NEW kind \in Roles
    PROVE  /\ list \in Seq(LocalItem) => ItemsOf(list, kind) \in LocalWork
           /\ list \in Seq(Item) => ItemsOf(list, kind) \in Work
    <1>1. << >> \in Seq(Item) /\ << >> \in Seq(LocalItem)
        OBVIOUS
    <1>2. ASSUME list \in Seq(Item)
          PROVE  ItemsOf(list, kind) \in Work
        BY <1>1, <1>2 DEF ItemsOf, Work
    <1>3. ItemsOf(list, kind).list = list /\ ItemsOf(list, kind).over = << >>
        BY DEF ItemsOf
    <1> QED BY <1>1, <1>2, <1>3, SeqOfLocal DEF LocalWork

LEMMA FillFromType ==
    ASSUME NEW list \in Seq(LocalItem), NEW budget \in Int, NEW trim \in BOOLEAN,
           NEW op \in {"drain", "loop"}, NEW kind \in Roles,
           op = "loop" => list # << >>
    PROVE  FillFrom(op, list, budget, trim, kind) \in LocalWork
    <1>1. << >> \in Seq(Item) /\ << >> \in Seq(LocalItem) /\ list \in Seq(Item)
        BY SeqOfLocal
    <1>2. FillFrom(op, list, budget, trim, kind) \in Work
        BY <1>1 DEF FillFrom, Work
    <1>3. /\ FillFrom(op, list, budget, trim, kind).list = list
          /\ FillFrom(op, list, budget, trim, kind).over = << >>
        BY DEF FillFrom
    <1> QED BY <1>1, <1>2, <1>3 DEF LocalWork

LEMMA RestType ==
    ASSUME TInv, Busy, NEW list, NEW over, NEW left \in Int,
           Now.op = "loop" => list # << >>
    PROVE  /\ list \in Seq(Item) /\ over \in Seq(Item) =>
                 Rest(list, left, over) \in Work
           /\ list \in Seq(LocalItem) /\ over \in Seq(LocalItem) =>
                 Rest(list, left, over) \in LocalWork
    <1>1. Now \in Work
        BY NowType
    <1> QED BY <1>1 DEF Rest, Work, LocalWork, LocalItem

\* A break is made of local items.
LEMMA BreakType ==
    ASSUME TInv, InBlock, NEW budget \in Int
    PROVE  Break(budget) \in Seq(LocalWork)
    <1> DEFINE wrap == B.layout.mid.wrap
               n    == Len(wrap)
    <1>1. wrap \in Seq(Kinds) /\ PlanOK(plan)
        BY BlockType DEF TInv, TypeOK, Shape, MidRoll
    <1>2. n \in Nat /\ \A i \in 1 .. n : wrap[i] \in Kinds
        BY <1>1
    <1> HIDE DEF wrap, n
    <1>3. \A i \in 1 .. n : ItemsOf(FillerPick(wrap[i]), wrap[i]) \in LocalWork
        BY <1>1, <1>2, FillerPickType, ItemsOfType, KindNames
    <1>4. [i \in 1 .. n |-> ItemsOf(FillerPick(wrap[i]), wrap[i])] \in Seq(LocalWork)
        BY <1>2, <1>3
    <1>5. DrainPool("mid_roll", 10) \in Seq(LocalItem) /\ "mid_roll" \in Roles
        BY <1>1, DrainPoolType, DayPlanAssumption, KindNames
    <1>6. FillFrom("drain", DrainPool("mid_roll", 10), budget, TRUE, "mid_roll") \in LocalWork
        BY <1>5, FillFromType
    <1> DEFINE w == [i \in 1 .. n |-> ItemsOf(FillerPick(wrap[i]), wrap[i])]
               d == FillFrom("drain", DrainPool("mid_roll", 10), budget, TRUE, "mid_roll")
    <1>7. Break(budget) = w \o <<d>>
        BY DEF Break, wrap, n
    <1>8. w \in Seq(LocalWork) /\ d \in LocalWork
        BY <1>4, <1>6
    <1> HIDE DEF w, d
    <1> QED BY <1>7, <1>8

LEMMA SlugType ==
    ASSUME TInv, InBlock
    PROVE  Slug \in Seq(LocalWork)
    <1> DEFINE f == FillerPick("slug")
    <1>1. f \in Seq(LocalItem) /\ B.layout.slug \in Nat
        BY FillerPickType, BlockType, DayPlanAssumption
           DEF TInv, TypeOK, Shape, Layout
    <1> HIDE DEF f
    <1>2. f # << >> => f[1] \in LocalItem
        BY <1>1
    <1>3. f # << >> => [f[1] EXCEPT !.dur = B.layout.slug] \in LocalItem
        BY <1>1, <1>2 DEF LocalItem, Item
    <1> DEFINE cut == [f[1] EXCEPT !.dur = B.layout.slug]
    <1>4. f # << >> => <<cut>> \in Seq(LocalItem)
        BY <1>3
    <1> HIDE DEF cut
    <1>5. "slug" \in Roles
        BY DayPlanAssumption, KindNames
    <1>6. ASSUME f # << >> PROVE ItemsOf(<<cut>>, "slug") \in LocalWork
        BY <1>4, <1>5, <1>6, ItemsOfType
    <1> DEFINE w == ItemsOf(<<cut>>, "slug")
    <1>7. f # << >> => <<w>> \in Seq(LocalWork)
        BY <1>6
    <1>8. Slug = << >> \/ (f # << >> /\ Slug = <<w>>)
        BY DEF Slug, f, cut
    <1> HIDE DEF w, f
    <1>9. CASE Slug = << >>
        <2>1. << >> \in Seq(LocalWork)
            OBVIOUS
        <2> QED BY <1>9, <2>1, Zenon
    <1>10. CASE f # << >> /\ Slug = <<w>>
        BY <1>7, <1>10, Zenon
    <1> QED BY <1>8, <1>9, <1>10, Zenon

-----------------------------------------------------------------------------
(* The placing actions keep the type invariant. *)

LEMMA PlacedType ==
    ASSUME NEW item \in Item, NEW start \in Instant, NEW anchor \in Int,
           NEW gran \in {"per_item", "per_block", "per_chapter"},
           NEW kind \in Roles
    PROVE  Placed(item, start, anchor, gran, kind) \in Segment
    <1>1. item.dur \in Nat
        BY DEF Item
    <1>2. AddNanos(start, item.dur) \in Nat /\ start \in Nat
        BY <1>1, AddNanosBounds DEF Instant
    <1> QED BY <1>2 DEF Placed, Segment

LEMMA LayType ==
    ASSUME TInv, Busy, NEW item \in Item, Lay(item)
    PROVE  out' \in Seq(Segment) /\ here' \in Instant
    <1> DEFINE s == Placed(item, here, B.at, B.layout.gran, Now.kind)
    <1>1. Now.kind \in Roles /\ InBlock
        BY NowType
    <1>2. B \in Block /\ B.layout \in Layout
        BY <1>1, BlockType DEF TInv, Shape
    <1>3. B.at \in Int /\ B.layout.gran \in {"per_item", "per_block", "per_chapter"}
        BY <1>2 DEF Block, Layout
    <1>4. here \in Instant /\ out \in Seq(Segment) /\ item.dur \in Nat
        BY DEF TInv, TypeOK, Item
    <1>5. s \in Segment
        BY <1>1, <1>3, <1>4, PlacedType
    <1>6. out' = Append(out, s) /\ here' = AddNanos(here, item.dur)
        BY DEF Lay
    <1> HIDE DEF s
    <1> QED BY <1>4, <1>5, <1>6, AddNanosBounds

\* The frame of the placing actions.
LEMMA KeepType ==
    ASSUME TInv, KeepBlock, Busy,
           here' \in Instant, out' \in Seq(Segment), todo' \in Seq(Work),
           pc # "filled" => todo' \in Seq(LocalWork)
    PROVE  TInv'
    <1>1. InBlock
        BY NowType
    <1>2. InBlock' /\ (B = B)' /\ B' = B
        BY <1>1 DEF KeepBlock, InBlock, B, walkVars
    <1>3. TypeOK'
        BY DEF TInv, TypeOK, KeepBlock, walkVars, passVars
    <1>4. Shape'
        BY <1>1, <1>2 DEF TInv, Shape, KeepBlock, walkVars, passVars, Pool, InBlock
    <1> QED BY <1>3, <1>4 DEF TInv

\* The rest of the work in hand, behind what the work under way becomes.
LEMMA RestOfTodo ==
    ASSUME TInv, Busy, NEW w,
           w \in Work, pc # "filled" => w \in LocalWork
    PROVE  /\ <<w>> \o Tail(todo) \in Seq(Work)
           /\ pc # "filled" => <<w>> \o Tail(todo) \in Seq(LocalWork)
    <1>1. Tail(todo) \in Seq(Work) /\ (pc # "filled" => Tail(todo) \in Seq(LocalWork))
        BY NowType
    <1> QED BY <1>1

LEMMA TailFacts ==
    ASSUME NEW S, NEW list \in Seq(S), list # << >>
    PROVE  Head(list) \in S /\ Tail(list) \in Seq(S)
    OBVIOUS

\* Taking the head of a list that is being emitted.
LEMMA NowFacts ==
    ASSUME TInv, Busy, Now.list # << >>
    PROVE  /\ Head(Now.list) \in Item /\ Head(Now.list).dur \in Nat
           /\ Tail(Now.list) \in Seq(Item)
           /\ pc # "filled" => /\ Head(Now.list) \in LocalItem
                               /\ Tail(Now.list) \in Seq(LocalItem)
    <1>1. Now.list \in Seq(Item) /\ (pc # "filled" => Now.list \in Seq(LocalItem))
        BY NowType
    <1>2. Head(Now.list) \in Item /\ Tail(Now.list) \in Seq(Item)
        BY <1>1, TailFacts
    <1>3. Head(Now.list).dur \in Nat
        BY <1>2 DEF Item
    <1>4. pc # "filled" => /\ Head(Now.list) \in LocalItem
                           /\ Tail(Now.list) \in Seq(LocalItem)
        BY <1>1, TailFacts
    <1> QED BY <1>2, <1>3, <1>4

LEMMA PlaceNextType == ASSUME TInv, PlaceNext PROVE TInv'
    <1>1. Busy /\ Now.op = "items" /\ Now.list # << >> /\ KeepBlock
        BY DEF PlaceNext
    <1>2. out' \in Seq(Segment) /\ here' \in Instant
        BY <1>1, NowFacts, LayType DEF PlaceNext
    <1> DEFINE w == Rest(Tail(Now.list), Now.left, Now.over)
    <1>3. w \in Work /\ (pc # "filled" => w \in LocalWork)
        BY <1>1, NowFacts, NowType, RestType
    <1>4. todo' = <<w>> \o Tail(todo)
        BY DEF PlaceNext
    <1> HIDE DEF w
    <1> QED BY <1>1, <1>2, <1>3, <1>4, RestOfTodo, KeepType

LEMMA ListDoneType == ASSUME TInv, ListDone PROVE TInv'
    <1>1. Busy /\ KeepBlock /\ here' = here /\ out' = out /\ todo' = Tail(todo)
        BY DEF ListDone
    <1>2. here \in Instant /\ out \in Seq(Segment)
        BY DEF TInv, TypeOK
    <1> QED BY <1>1, <1>2, NowType, KeepType

LEMMA DrainTakeType == ASSUME TInv, DrainTake PROVE TInv'
    <1>1. Busy /\ Now.op = "drain" /\ Now.list # << >> /\ KeepBlock
        BY DEF DrainTake
    <1>2. out' \in Seq(Segment) /\ here' \in Instant
        BY <1>1, NowFacts, LayType DEF DrainTake
    <1> DEFINE w == Rest(Tail(Now.list), Now.left - Head(Now.list).dur, Now.over)
    <1>3. Now.left - Head(Now.list).dur \in Int
        BY <1>1, NowFacts, NowType
    <1>4. w \in Work /\ (pc # "filled" => w \in LocalWork)
        BY <1>1, <1>3, NowFacts, NowType, RestType
    <1>5. todo' = <<w>> \o Tail(todo)
        BY DEF DrainTake
    <1> HIDE DEF w
    <1> QED BY <1>1, <1>2, <1>4, <1>5, RestOfTodo, KeepType

LEMMA DrainSkipType == ASSUME TInv, DrainSkip PROVE TInv'
    <1>1. /\ Busy /\ Now.op = "drain" /\ Now.list # << >> /\ KeepBlock
          /\ here' = here /\ out' = out
        BY DEF DrainSkip
    <1>2. here \in Instant /\ out \in Seq(Segment)
        BY DEF TInv, TypeOK
    <1> DEFINE o == IF Now.over = << >> THEN <<Head(Now.list)>> ELSE Now.over
               w == Rest(Tail(Now.list), Now.left, o)
    <1>3. o \in Seq(Item) /\ (pc # "filled" => o \in Seq(LocalItem))
        BY <1>1, NowFacts, NowType
    <1>4. todo' = <<w>> \o Tail(todo)
        BY DEF DrainSkip
    <1> HIDE DEF o
    <1>5. w \in Work /\ (pc # "filled" => w \in LocalWork)
        BY <1>1, <1>3, NowFacts, NowType, RestType
    <1> HIDE DEF w
    <1> QED BY <1>1, <1>2, <1>4, <1>5, RestOfTodo, KeepType

LEMMA FillEndType ==
    ASSUME TInv, Busy, NEW trimmed \in Seq(Item), FillEnd(trimmed),
           pc # "filled" => trimmed \in Seq(LocalItem)
    PROVE  TInv'
    <1>1. /\ KeepBlock /\ here' = here /\ out' = out
          /\ here \in Instant /\ out \in Seq(Segment)
        BY DEF FillEnd, TInv, TypeOK
    <1>2. CASE Now.trim /\ Now.left > 0 /\ trimmed # << >>
        <2> DEFINE i == TrimTo(trimmed[1], Now.left)
                   w == ItemsOf(<<i>>, Now.kind)
        <2>1. Now.left \in Nat /\ Now.kind \in Roles
            BY <1>2, NowType
        <2>2. trimmed[1] \in Item /\ (pc # "filled" => trimmed[1] \in LocalItem)
            BY <1>2
        <2>3. i \in Item /\ (pc # "filled" => i \in LocalItem)
            <3>1. Now.left \div NanosPerMilli \in Int
                BY <2>1, DivBounds
            <3>2. i \in Item
                BY <2>1, <2>2, <3>1 DEF TrimTo, Cut, Item
            <3> QED BY <2>1, <2>2, <3>2, TrimToType
        <2> HIDE DEF i
        <2>4. <<i>> \in Seq(Item) /\ (pc # "filled" => <<i>> \in Seq(LocalItem))
            BY <2>3
        <2>5. w \in Work /\ (pc # "filled" => w \in LocalWork)
            BY <2>1, <2>4, ItemsOfType
        <2>6. todo' = <<w>> \o Tail(todo)
            BY <1>2 DEF FillEnd, i
        <2> HIDE DEF w
        <2> QED BY <1>1, <2>5, <2>6, RestOfTodo, KeepType
    <1>3. CASE ~(Now.trim /\ Now.left > 0 /\ trimmed # << >>)
        <2>1. Tail(todo) \in Seq(Work) /\ (pc # "filled" => Tail(todo) \in Seq(LocalWork))
            BY NowType
        <2>2. todo' = << >> \o Tail(todo)
            BY <1>3 DEF FillEnd
        <2>3. todo' = Tail(todo)
            BY <2>1, <2>2
        <2> QED BY <1>1, <2>1, <2>3, KeepType
    <1> QED BY <1>2, <1>3

LEMMA DrainEndType == ASSUME TInv, DrainEnd PROVE TInv'
    BY NowType, FillEndType DEF DrainEnd

LEMMA LoopTakeType == ASSUME TInv, LoopTake PROVE TInv'
    <1>1. Busy /\ Now.op = "loop" /\ KeepBlock
        BY DEF LoopTake
    <1>2. Now.list # << >> /\ Now.list \in Seq(Item)
        BY <1>1, NowType
    <1>3. Now.list[1] \in Item /\ Now.list[1].dur \in Nat
        <2>1. Now.list[1] \in Item
            BY <1>2
        <2> QED BY <2>1 DEF Item
    <1>4. out' \in Seq(Segment) /\ here' \in Instant
        BY <1>1, <1>3, LayType DEF LoopTake
    <1> DEFINE w == Rest(Now.list, Now.left - Now.list[1].dur, Now.over)
    <1>5. w \in Work /\ (pc # "filled" => w \in LocalWork)
        BY <1>1, <1>2, <1>3, NowType, RestType
    <1>6. todo' = <<w>> \o Tail(todo)
        BY DEF LoopTake
    <1> HIDE DEF w
    <1> QED BY <1>1, <1>4, <1>5, <1>6, RestOfTodo, KeepType

LEMMA LoopEndType == ASSUME TInv, LoopEnd PROVE TInv'
    BY NowType, FillEndType DEF LoopEnd

LEMMA PlacingType == ASSUME TInv, Placing PROVE TInv'
    BY PlaceNextType, ListDoneType, DrainTakeType, DrainSkipType, DrainEndType,
       LoopTakeType, LoopEndType DEF Placing

-----------------------------------------------------------------------------
(* So do the walk, the default block and the block's decisions.            *)

LEMMA Idle ==
    ASSUME TInv, ~InBlock
    PROVE  todo = << >> /\ chunks = << >> /\ ~Busy
    BY DEF TInv, Shape, Busy, InBlock

LEMMA ActiveType ==
    ASSUME TInv, NEW i \in 1 .. Len(plan.active)
    PROVE  plan.active[i].at \in Instant /\ plan.active[i].at < DayLen
    <1>1. plan.active \in Seq(Block)
        BY DEF TInv, TypeOK, PlanOK
    <1>2. plan.active[i] \in Block
        BY <1>1
    <1> QED BY <1>2 DEF Block, Instant

LEMMA EmptySeqs ==
    /\ << >> \in Seq(Segment) /\ << >> \in Seq(Item) /\ << >> \in Seq(LocalItem)
    /\ << >> \in Seq(Work) /\ << >> \in Seq(LocalWork) /\ << >> \in Seq(Int)
    /\ << >> \in Seq(ProgrammeType)
    OBVIOUS

LEMMA FailType == ASSUME TInv, ~InBlock \/ ~Busy, chunks = << >>, Fail PROVE TInv'
    <1>1. todo = << >>
        BY Idle DEF Busy
    <1>2. TypeOK'
        BY DEF TInv, TypeOK, Fail, Stages, walkVars, blockVars, passVars
    <1>3. Shape'
        BY <1>1, EmptySeqs
           DEF TInv, Shape, Fail, walkVars, blockVars, passVars, Busy, InBlock
    <1> QED BY <1>2, <1>3 DEF TInv

LEMMA WalkType == ASSUME TInv, Walk PROVE TInv'
    <1>0. ASSUME pc = "walk" PROVE ~InBlock /\ todo = << >> /\ chunks = << >>
        BY <1>0, Idle DEF InBlock
    <1>1. CASE EnterDefault
        <2>1. idx \in Nat \ {0} /\ Len(plan.active) \in Nat /\ plan.deflt.on
            BY <1>1 DEF TInv, TypeOK, PlanOK, EnterDefault
        <2>2. GapAhead => plan.active[idx].at \in Instant
            BY <2>1, ActiveType DEF GapAhead
        <2>3. limit' \in Instant
            BY <1>1, <2>2 DEF EnterDefault, Instant
        <2>4. TypeOK'
            BY <1>1, <2>3, EmptySeqs
               DEF TInv, TypeOK, EnterDefault, Walking, Stages, walkVars, passVars
        <2>5. Shape'
            BY <1>0, <1>1, EmptySeqs
               DEF TInv, Shape, EnterDefault, Walking, walkVars, Busy, InBlock,
                   DefaultUsable
        <2> QED BY <2>4, <2>5 DEF TInv
    <1>2. CASE DefaultFails
        BY <1>0, <1>2, FailType DEF DefaultFails, Walking
    <1>3. CASE SkipGap
        <2>1. idx \in 1 .. Len(plan.active)
            BY <1>3 DEF TInv, TypeOK, PlanOK, SkipGap, GapAhead
        <2>2. cursor' \in Instant
            BY <1>3, <2>1, ActiveType DEF SkipGap
        <2>3. TypeOK'
            BY <1>3, <2>2 DEF TInv, TypeOK, SkipGap, blockVars, passVars
        <2>4. Shape'
            BY <1>0, <1>3, EmptySeqs
               DEF TInv, Shape, SkipGap, Walking, blockVars, Busy, InBlock
        <2> QED BY <2>3, <2>4 DEF TInv
    <1>4. CASE EnterBlock
        <2>1. idx \in 1 .. Len(plan.active) /\ Len(plan.active) \in Nat
            BY <1>4 DEF TInv, TypeOK, PlanOK, EnterBlock, BlockDue
        <2>2. /\ B \in Block /\ B.at \in Instant
              /\ B.count \in Nat \cup {NoCount} /\ B.layout.pre \in Nat
            BY <2>1, BlockType, ActiveType DEF Block, Layout, B
        <2>3. limit' \in Instant
            BY <1>4, <2>1, ActiveType DEF EnterBlock, Instant
        <2>4. mains' \in Nat
            BY <1>4, <2>2 DEF EnterBlock, NoCount
        <2> DEFINE w == ItemsOf(Bumpers("pre_roll", B.layout.pre), "pre_roll")
        <2>5. w \in LocalWork /\ w \in Work
            BY <2>2, BumpersType, ItemsOfType, DayPlanAssumption, KindNames
               DEF TInv, TypeOK, LocalWork
        <2>6. todo' = <<w>>
            BY <1>4 DEF EnterBlock
        <2> HIDE DEF w
        <2>7. todo' \in Seq(Work) /\ todo' \in Seq(LocalWork)
            BY <2>5, <2>6
        <2>8. TypeOK'
            BY <1>4, <2>2, <2>3, <2>4, <2>7, EmptySeqs
               DEF TInv, TypeOK, EnterBlock, Stages, walkVars, passVars
        <2>9. BlockUsable(B) /\ B' = B /\ pc' = "mains" /\ chunks' = chunks
              /\ plan' = plan /\ idx' = idx
            BY <1>4 DEF EnterBlock, B, walkVars
        <2>10. Shape'
            BY <1>0, <1>4, <2>1, <2>7, <2>9, EmptySeqs
               DEF Shape, InBlock, BlockUsable, Pool, EnterBlock, Walking
        <2> QED BY <2>8, <2>10 DEF TInv
    <1>5. CASE BlockFails
        BY <1>0, <1>5, FailType DEF BlockFails, Walking
    <1>6. CASE EndWalk
        <2>1. TypeOK'
            BY <1>6 DEF TInv, TypeOK, EndWalk, Stages, walkVars, blockVars, passVars
        <2>2. Shape'
            BY <1>0, <1>6, EmptySeqs
               DEF TInv, Shape, EndWalk, walkVars, blockVars, Busy, InBlock
        <2> QED BY <2>1, <2>2 DEF TInv
    <1> QED BY <1>1, <1>2, <1>3, <1>4, <1>5, <1>6 DEF Walk

\* A pick is a position of the pool, and leaves a well-typed picker.
LEMMA PickType ==
    ASSUME TInv, NEW coll \in Collections, coll \in DOMAIN plan.pool,
           Pool(coll) # << >>, NEW n \in Picks(coll)
    PROVE  /\ n \in Nat /\ coll \in Sources
           /\ ToPlayable(coll, n, Pool(coll)[n]) \in LocalItem
           /\ Picked(coll, n) \in [Collections -> PickerState]
    <1>1. Pool(coll) \in Seq(Nat) /\ Len(Pool(coll)) \in Nat \ {0}
        BY DEF TInv, TypeOK, PlanOK, Pool
    <1>2. /\ picker \in [Collections -> PickerState]
          /\ picker[coll].pos \in Nat /\ picker[coll].recent \in SUBSET Nat
        BY DEF TInv, TypeOK, PickerState
    <1>3. (picker[coll].pos % Len(Pool(coll))) + 1 \in 1 .. Len(Pool(coll))
        BY <1>1, <1>2
    <1>4. n \in 1 .. Len(Pool(coll))
        BY <1>3 DEF Picks
    <1>5. coll \in Sources /\ Pool(coll)[n] \in Nat
        BY <1>1, <1>4 DEF Sources
    <1>6. ToPlayable(coll, n, Pool(coll)[n]) \in LocalItem
        BY <1>4, <1>5, ToPlayableType
    <1>7. Picked(coll, n) \in [Collections -> PickerState]
        <2>1. n % Len(Pool(coll)) \in Nat
            BY <1>1, <1>4
        <2>2. [picker EXCEPT ![coll].pos = n % Len(Pool(coll))]
                 \in [Collections -> PickerState]
            BY <1>2, <2>1 DEF PickerState
        <2>3. [picker EXCEPT ![coll].recent = @ \cup {n}]
                 \in [Collections -> PickerState]
            BY <1>2, <1>4 DEF PickerState
        <2> QED BY <1>2, <2>2, <2>3 DEF Picked
    <1> QED BY <1>4, <1>5, <1>6, <1>7

LEMMA LastFinish ==
    ASSUME TInv, out # << >>
    PROVE  out[Len(out)].finish \in Instant
    <1>1. out \in Seq(Segment)
        BY DEF TInv, TypeOK
    <1>2. out[Len(out)] \in Segment
        BY <1>1
    <1> QED BY <1>2 DEF Segment, Instant

LEMMA LeaveDefaultType ==
    ASSUME TInv, pc = "default", LeaveDefault,
           picker' \in [Collections -> PickerState]
    PROVE  TInv'
    <1>1. todo = << >> /\ chunks = << >>
        BY Idle DEF InBlock
    <1>2. cursor' \in Instant /\ pc' \in {"walk", "split"}
        BY LastFinish DEF LeaveDefault, TInv, TypeOK
    <1>3. items' \in Seq(Segment)
        BY DEF LeaveDefault, TInv, TypeOK
    <1>4. TypeOK'
        BY <1>2, <1>3 DEF TInv, TypeOK, LeaveDefault, Stages, blockVars, passVars
    <1>5. Shape'
        BY <1>1, <1>2, EmptySeqs
           DEF TInv, Shape, LeaveDefault, blockVars, Busy, InBlock
    <1> QED BY <1>4, <1>5 DEF TInv

LEMMA DefaultStepType == ASSUME TInv, DefaultStep PROVE TInv'
    <1> DEFINE coll == plan.deflt.coll
    <1>0. ASSUME pc = "default"
          PROVE  /\ coll \in Collections /\ coll \in DOMAIN plan.pool
                 /\ plan.deflt.gran \in {"per_item", "per_block", "per_chapter"}
                 /\ todo = << >> /\ chunks = << >>
        BY <1>0, Idle DEF TInv, TypeOK, PlanOK, Shape, DefaultBlock, InBlock
    <1>1. CASE DefaultPlace
        <2>1. PICK n \in Picks(coll) :
                 LET item == ToPlayable(coll, n, Pool(coll)[n])
                 IN  /\ out' = Append(out, Placed(item, here, DefaultAnchor,
                                                  plan.deflt.gran, "main"))
                     /\ here' = AddNanos(here, item.dur)
                     /\ picker' = Picked(coll, n)
            BY <1>1 DEF DefaultPlace
        <2> DEFINE item == ToPlayable(coll, n, Pool(coll)[n])
                   s == Placed(item, here, DefaultAnchor, plan.deflt.gran, "main")
        <2>2. item \in LocalItem /\ picker' \in [Collections -> PickerState]
            BY <1>0, <1>1, <2>1, PickType DEF DefaultPlace, DefaultWants
        <2>3. out' = Append(out, s) /\ here' = AddNanos(here, item.dur)
            BY <2>1
        <2> HIDE DEF item
        <2>4. item \in Item /\ item.dur \in Nat
            BY <2>2 DEF LocalItem, Item
        <2>5. s \in Segment
            <3>1. "main" \in Roles /\ DefaultAnchor \in Int /\ here \in Instant
                BY DEF Roles, DefaultAnchor, TInv, TypeOK
            <3> QED BY <1>0, <1>1, <2>4, <3>1, PlacedType DEF DefaultPlace
        <2> HIDE DEF s
        <2>6. out' \in Seq(Segment) /\ here' \in Instant
            <3>1. out \in Seq(Segment) /\ here \in Instant
                BY DEF TInv, TypeOK
            <3> QED BY <2>3, <2>4, <2>5, <3>1, AddNanosBounds
        <2>7. TypeOK'
            BY <1>1, <2>2, <2>6 DEF TInv, TypeOK, DefaultPlace, walkVars, passVars
        <2>8. Shape'
            BY <1>0, <1>1, EmptySeqs
               DEF TInv, Shape, DefaultPlace, walkVars, Busy, InBlock
        <2> QED BY <2>7, <2>8 DEF TInv
    <1>2. CASE DefaultReject
        <2>1. PICK n \in Picks(coll) : picker' = Picked(coll, n)
            BY <1>2 DEF DefaultReject
        <2>2. picker' \in [Collections -> PickerState]
            BY <1>0, <1>2, <2>1, PickType DEF DefaultReject, DefaultWants
        <2> QED BY <1>2, <2>2, LeaveDefaultType DEF DefaultReject
    <1>3. CASE DefaultDone
        BY <1>3, LeaveDefaultType DEF DefaultDone, TInv, TypeOK
    <1> QED BY <1>1, <1>2, <1>3 DEF DefaultStep

-----------------------------------------------------------------------------
(* The block's decisions.                                                  *)

\* One budget for every break, whatever the room.
LEMMA BudgetsType ==
    ASSUME NEW room \in Int, NEW n \in Nat, NEW mid \in MidRoll
    PROVE  /\ BreakBudgets(room, n, mid) \in Seq(Int)
           /\ Len(BreakBudgets(room, n, mid)) = n
    <1> DEFINE t     == IF mid.target = 0 THEN BreakTarget ELSE mid.target
               over  == t * n - room
               under == room - t * n
    <1>1. t \in Nat /\ over \in Int /\ under \in Int
        BY DEF MidRoll
    <1>2. \A i \in 1 .. n : n \in Nat \ {0}
        OBVIOUS
    <1>3. n # 0 => /\ over \div n \in Int /\ under \div n \in Int /\ room \div n \in Int
                   /\ over % n \in Int /\ under % n \in Int
        BY <1>1
    <1>4. FixedBreakBudgets(room, n) \in Seq(Int) /\ Len(FixedBreakBudgets(room, n)) = n
        <2>1. \A i \in 1 .. n : (IF room <= 0 THEN 0 ELSE room \div n) \in Int
            BY <1>3
        <2> QED BY <2>1 DEF FixedBreakBudgets
    <1> HIDE DEF t, over, under
    <1>5. /\ AutoBreakBudgets(room, n, t) \in Seq(Int)
          /\ Len(AutoBreakBudgets(room, n, t)) = n
        <2>1. CASE room <= 0
            BY <2>1 DEF AutoBreakBudgets
        <2>2. CASE ~(room <= 0) /\ over > 0
            <3>1. \A i \in 1 .. n : t - (over \div n) - (IF i <= over % n THEN 1 ELSE 0) \in Int
                BY <1>1, <1>3
            <3> DEFINE f == [i \in 1 .. n |-> t - (over \div n)
                                              - (IF i <= over % n THEN 1 ELSE 0)]
            <3>2. f \in Seq(Int) /\ Len(f) = n
                BY <3>1
            <3>3. AutoBreakBudgets(room, n, t) = f
                BY <2>2 DEF AutoBreakBudgets, over, under
            <3> QED BY <3>2, <3>3
        <2>3. CASE ~(room <= 0) /\ ~(over > 0)
            <3>1. \A i \in 1 .. n : t + (under \div n) + (IF i <= under % n THEN 1 ELSE 0) \in Int
                BY <1>1, <1>3
            <3> DEFINE f == [i \in 1 .. n |-> t + (under \div n)
                                              + (IF i <= under % n THEN 1 ELSE 0)]
            <3>2. f \in Seq(Int) /\ Len(f) = n
                BY <3>1
            <3>3. AutoBreakBudgets(room, n, t) = f
                BY <2>3 DEF AutoBreakBudgets, over, under
            <3> QED BY <3>2, <3>3
        <2> QED BY <2>1, <2>2, <2>3
    <1> QED BY <1>4, <1>5 DEF BreakBudgets, t

LEMMA PickMainType == ASSUME TInv, PickMain PROVE TInv'
    <1>1. /\ pc = "mains" /\ todo = << >> /\ InBlock /\ mains \in Nat /\ mains > 0
          /\ idx <= Len(plan.active)
        BY DEF PickMain, Deciding, Busy, InBlock, MainsWanted, TInv, TypeOK, Shape
    <1>2. /\ B \in Block /\ B.coll \in Collections /\ B.layout.mid \in MidRoll
          /\ B.coll \in DOMAIN plan.pool /\ Pool(B.coll) # << >>
        BY <1>1, BlockType DEF Block, TInv, Shape
    <1> DEFINE main(n) == ToPlayable(B.coll, n, Pool(B.coll)[n])
               cut(n)  == IF B.layout.mid.every = "none" THEN <<main(n)>>
                          ELSE Chunks(main(n), B.layout.mid)
               room(n) == DiffNanos(limit, here) - main(n).dur
    <1>3. PICK n \in Picks(B.coll) :
             /\ chunks' = cut(n)
             /\ budgets' = BreakBudgets(room(n), Len(cut(n)) - 1, B.layout.mid)
             /\ picker' = Picked(B.coll, n)
        BY DEF PickMain
    <1>4. main(n) \in LocalItem /\ picker' \in [Collections -> PickerState]
        BY <1>2, <1>3, PickType
    <1>5. B.layout.mid.every = "minutes" => B.layout.mid.interval # 0
        BY DEF PickMain
    <1>6. cut(n) \in Seq(LocalItem) /\ cut(n) # << >>
        <2> DEFINE m == main(n)
        <2>1. m \in LocalItem
            BY <1>4
        <2> HIDE DEF m
        <2>2. <<m>> \in Seq(LocalItem) /\ <<m>> # << >>
            BY <2>1
        <2>3. /\ Chunks(m, B.layout.mid) \in Seq(LocalItem)
              /\ Chunks(m, B.layout.mid) # << >>
            BY <1>2, <1>5, <2>1, ChunksType
        <2> QED BY <2>2, <2>3 DEF m
    <1>7. room(n) \in Int
        <2>1. main(n).dur \in Nat /\ limit \in Int /\ here \in Int
            BY <1>4 DEF LocalItem, Item, TInv, TypeOK, Instant
        <2> QED BY <2>1 DEF DiffNanos
    <1> HIDE DEF cut, room, main
    <1>8. Len(cut(n)) - 1 \in Nat
        BY <1>6
    <1>9. budgets' \in Seq(Int) /\ Len(budgets') = Len(chunks') - 1
        BY <1>2, <1>3, <1>7, <1>8, BudgetsType
    <1>10. chunks' \in Seq(LocalItem) /\ chunks' \in Seq(Item)
        BY <1>3, <1>6, SeqOfLocal
    <1>11. mains' \in Nat
        BY <1>1 DEF PickMain
    <1>12. TypeOK'
        BY <1>4, <1>9, <1>10, <1>11 DEF TInv, TypeOK, PickMain, walkVars, passVars
    <1>13. Shape'
        <2>1. /\ pc' = "mains" /\ todo' = << >> /\ plan' = plan /\ idx' = idx
              /\ B' = B
            BY <1>1 DEF PickMain, walkVars, B
        <2> QED BY <1>1, <1>2, <1>9, <1>10, <2>1, EmptySeqs
               DEF Shape, Busy, InBlock, Pool
    <1> QED BY <1>12, <1>13 DEF TInv

LEMMA NextChunkType == ASSUME TInv, NextChunk PROVE TInv'
    <1>1. /\ pc = "mains" /\ todo = << >> /\ InBlock
          /\ chunks \in Seq(LocalItem) /\ chunks # << >>
          /\ Len(budgets) = Len(chunks) - 1 /\ budgets \in Seq(Int)
          /\ idx <= Len(plan.active)
        BY DEF NextChunk, Deciding, Busy, InBlock, TInv, TypeOK, Shape
    <1>2. Head(chunks) \in LocalItem /\ Tail(chunks) \in Seq(LocalItem)
          /\ Len(Tail(chunks)) = Len(chunks) - 1 /\ Len(chunks) \in Nat
        BY <1>1
    <1>3. <<Head(chunks)>> \in Seq(LocalItem) /\ "main" \in Roles
        BY <1>2 DEF Roles
    <1> DEFINE w == ItemsOf(<<Head(chunks)>>, "main")
               rest == IF Len(chunks) > 1 THEN Break(Head(budgets)) ELSE Slug
    <1>4. w \in LocalWork
        BY <1>3, ItemsOfType
    <1>5. rest \in Seq(LocalWork)
        <2>1. Len(chunks) > 1 => Head(budgets) \in Int
            BY <1>1, <1>2
        <2> QED BY <1>1, <2>1, BreakType, SlugType
    <1>6. todo' = <<w>> \o rest
        BY DEF NextChunk
    <1> HIDE DEF w, rest
    <1>7. todo' \in Seq(LocalWork)
        BY <1>4, <1>5, <1>6
    <1>8. todo' \in Seq(Work)
        BY <1>7 DEF LocalWork
    <1>9. chunks' \in Seq(LocalItem) /\ chunks' \in Seq(Item)
        BY <1>2, SeqOfLocal DEF NextChunk
    <1>10. /\ budgets' \in Seq(Int)
           /\ chunks' # << >> => Len(budgets') = Len(chunks') - 1
        <2>1. CASE Len(chunks) > 1
            <3>1. /\ budgets # << >> /\ budgets' = Tail(budgets)
                  /\ chunks' = Tail(chunks)
                BY <1>1, <1>2, <2>1 DEF NextChunk
            <3> QED BY <1>1, <1>2, <3>1
        <2>2. CASE ~(Len(chunks) > 1)
            <3>1. budgets' = << >> /\ chunks' = Tail(chunks) /\ Len(chunks) = 1
                BY <1>1, <1>2, <2>2 DEF NextChunk
            <3> QED BY <1>2, <3>1
        <2> QED BY <2>1, <2>2
    <1>11. TypeOK'
        BY <1>8, <1>9, <1>10 DEF TInv, TypeOK, NextChunk, walkVars, passVars
    <1>12. Shape'
        <2>1. /\ pc' = "mains" /\ plan' = plan /\ idx' = idx /\ B' = B
            BY <1>1 DEF NextChunk, walkVars, B
        <2> QED BY <1>1, <1>7, <1>9, <1>10, <2>1
               DEF TInv, Shape, Busy, InBlock, Pool
    <1> QED BY <1>11, <1>12 DEF TInv

LEMMA EndMainsType == ASSUME TInv, EndMains PROVE TInv'
    <1>1. /\ pc = "mains" /\ InBlock /\ chunks = << >> /\ idx <= Len(plan.active)
          /\ PlanOK(plan)
        BY DEF EndMains, Deciding, InBlock, TInv, TypeOK, Shape
    <1>2. B.layout.post \in Nat
        BY <1>1, BlockType DEF Layout
    <1> DEFINE w == ItemsOf(Bumpers("post_roll", B.layout.post), "post_roll")
    <1>3. w \in LocalWork
        BY <1>1, <1>2, BumpersType, ItemsOfType, DayPlanAssumption, KindNames
    <1>4. todo' = <<w>>
        BY DEF EndMains
    <1> HIDE DEF w
    <1>5. todo' \in Seq(LocalWork)
        BY <1>3, <1>4
    <1>6. todo' \in Seq(Work)
        BY <1>5 DEF LocalWork
    <1>7. TypeOK'
        BY <1>6 DEF TInv, TypeOK, EndMains, Stages, walkVars, passVars
    <1>8. Shape'
        <2>1. /\ pc' = "post" /\ plan' = plan /\ idx' = idx /\ B' = B
              /\ chunks' = chunks
            BY DEF EndMains, walkVars, B
        <2> QED BY <1>1, <1>5, <2>1 DEF TInv, Shape, Busy, InBlock, Pool
    <1> QED BY <1>7, <1>8 DEF TInv

LEMMA StartFillType == ASSUME TInv, StartFill PROVE TInv'
    <1>1. /\ pc = "post" /\ InBlock /\ chunks = << >> /\ todo = << >>
          /\ idx <= Len(plan.active)
        BY DEF StartFill, Deciding, Busy, InBlock, TInv, Shape
    <1>2. B.align \in Nat /\ here \in Instant /\ limit \in Instant
        BY <1>1, BlockType DEF Block, TInv, TypeOK
    <1>3. target' \in Instant
        BY <1>2, TargetEndBounds DEF StartFill
    <1>4. pc' \in {"fill", "return"} /\ nextPool' = 1
        BY DEF StartFill
    <1>5. TypeOK'
        BY <1>3, <1>4 DEF TInv, TypeOK, StartFill, Stages, walkVars, passVars
    <1>6. Shape'
        <2>1. /\ plan' = plan /\ idx' = idx /\ B' = B /\ chunks' = chunks
              /\ todo' = todo
            BY DEF StartFill, walkVars, B
        <2> QED BY <1>1, <1>4, <2>1, EmptySeqs DEF TInv, Shape, Busy, InBlock, Pool
    <1> QED BY <1>5, <1>6 DEF TInv

\* What a fill step is about to do with its next pool.
LEMMA FillPoolWork ==
    ASSUME TInv, FillPool
    PROVE  /\ todo' \in Seq(LocalWork)
           /\ todo' = << >> \/ \E list \in Seq(LocalItem), op \in {"drain", "loop"},
                                  trim \in BOOLEAN, kind \in Roles :
                 /\ op = "loop" => list # << >>
                 /\ todo' = <<FillFrom(op, list, Remaining, trim, kind)>>
    <1> DEFINE kind == B.layout.fill[nextPool]
               pool == DrainPool(kind, 20)
               last == nextPool = Len(B.layout.fill)
               op   == IF Len(pool) = 1 THEN "loop" ELSE "drain"
    <1>1. /\ InBlock /\ idx <= Len(plan.active) /\ PlanOK(plan) /\ nextPool \in Nat \ {0}
          /\ here \in Instant /\ target \in Instant
        BY DEF FillPool, Deciding, InBlock, TInv, TypeOK, Shape
    <1>2. B.layout.fill \in Seq(Kinds)
        BY <1>1, BlockType DEF Layout
    <1>3. kind \in Kinds /\ kind \in Roles
        BY <1>1, <1>2, KindNames DEF FillPool
    <1>4. pool \in Seq(LocalItem)
        BY <1>1, <1>3, DrainPoolType
    <1>5. last \in BOOLEAN /\ op \in {"drain", "loop"}
        OBVIOUS
    <1>6. todo' = IF pool = << >> THEN << >>
                  ELSE <<FillFrom(op, pool, Remaining, last, kind)>>
        BY DEF FillPool
    <1>7. Remaining \in Int
        BY <1>1 DEF Remaining, DiffNanos, Instant
    <1>8. op = "loop" => pool # << >>
        <2> HIDE DEF pool
        <2>1. op = "loop" => Len(pool) = 1
            OBVIOUS
        <2> HIDE DEF op
        <2> QED BY SMTT(60), <1>4, <2>1
    <1> DEFINE w == FillFrom(op, pool, Remaining, last, kind)
    <1>9. w \in LocalWork
        BY <1>3, <1>4, <1>5, <1>7, <1>8, FillFromType
    <1>10. todo' = << >> \/ todo' = <<w>>
        BY <1>6
    <1>11. <<w>> \in Seq(LocalWork)
        <2> HIDE DEF w
        <2> QED BY <1>9
    <1> HIDE DEF op, pool, last, kind
    <1> QED BY <1>3, <1>4, <1>5, <1>8, <1>10, <1>11, EmptySeqs

LEMMA FillPoolType == ASSUME TInv, FillPool PROVE TInv'
    <1>1. todo' \in Seq(LocalWork)
        BY FillPoolWork
    <1>2. todo' \in Seq(Work)
        BY <1>1 DEF LocalWork
    <1>3. /\ pc = "fill" /\ pc' = pc /\ plan' = plan /\ idx' = idx /\ B' = B
          /\ chunks' = chunks /\ nextPool' \in Nat \ {0}
        BY DEF FillPool, Deciding, walkVars, B, TInv, TypeOK
    <1>4. TypeOK'
        BY <1>2, <1>3 DEF TInv, TypeOK, FillPool, walkVars, passVars
    <1>5. Shape'
        BY <1>1, <1>3 DEF TInv, Shape, Busy, InBlock, Pool
    <1> QED BY <1>4, <1>5 DEF TInv

\* The black frames of the safety net.
LEMMA BlackFramesWork ==
    ASSUME NEW nanos \in Nat
    PROVE  /\ BlackFrames(nanos) \in Item
           /\ ItemsOf(<<BlackFrames(nanos)>>, "lavfi") \in Work
    <1>1. BlackFrames(nanos) \in Item
        BY DEF BlackFrames, Item, Sources, NoPoint
    <1> DEFINE b == BlackFrames(nanos)
    <1> HIDE DEF b
    <1>2. <<b>> \in Seq(Item)
        BY <1>1 DEF b
    <1>3. "lavfi" \in Roles
        BY DEF Roles
    <1> QED BY <1>1, <1>2, <1>3, ItemsOfType DEF b

LEMMA EndFillType == ASSUME TInv, EndFill PROVE TInv'
    <1>1. /\ pc = "fill" /\ chunks = << >> /\ here \in Instant /\ target \in Instant
        BY DEF EndFill, Deciding, TInv, TypeOK, Shape
    <1>2. Remaining \in Int
        BY <1>1 DEF Remaining, DiffNanos, Instant
    <1> DEFINE w == ItemsOf(<<BlackFrames(Remaining)>>, "lavfi")
    <1>3. Remaining > 0 => w \in Work
        BY <1>2, BlackFramesWork
    <1>4. todo' = IF Remaining > 0 THEN <<w>> ELSE << >>
        BY DEF EndFill
    <1> HIDE DEF w
    <1>5. todo' \in Seq(Work)
        BY <1>3, <1>4
    <1>6. /\ pc' = "filled" /\ plan' = plan /\ idx' = idx /\ B' = B
          /\ chunks' = chunks
        BY DEF EndFill, walkVars, B
    <1>7. TypeOK'
        BY <1>5 DEF TInv, TypeOK, EndFill, Stages, walkVars, passVars
    <1>8. Shape'
        BY <1>1, <1>6 DEF TInv, Shape, InBlock, Pool
    <1> QED BY <1>7, <1>8 DEF TInv

LEMMA LeaveBlockType == ASSUME TInv, LeaveBlock PROVE TInv'
    <1>1. pc \in {"return", "filled"} /\ todo = << >> /\ chunks = << >>
        BY DEF LeaveBlock, Deciding, Busy, TInv, Shape
    <1>2. cursor' \in Instant /\ idx' \in Nat \ {0}
        BY LastFinish DEF LeaveBlock, TInv, TypeOK
    <1>3. items' \in Seq(Segment)
        BY DEF LeaveBlock, TInv, TypeOK
    <1>4. TypeOK'
        BY <1>2, <1>3 DEF TInv, TypeOK, LeaveBlock, Stages, blockVars, passVars
    <1>5. Shape'
        BY <1>1, EmptySeqs DEF Shape, LeaveBlock, blockVars, Busy, InBlock
    <1> QED BY <1>4, <1>5 DEF TInv

LEMMA BlockStepType == ASSUME TInv, BlockStep PROVE TInv'
    <1>1. ZeroInterval => TInv'
        BY FailType DEF ZeroInterval, Deciding
    <1> QED BY <1>1, PickMainType, NextChunkType, EndMainsType, StartFillType,
               FillPoolType, EndFillType, LeaveBlockType DEF BlockStep

-----------------------------------------------------------------------------
(* The passes.                                                             *)

\* The two halves of an item cut at midnight.
LEMMA HalvesType ==
    ASSUME NEW item \in Item, NEW t \in Instant, CrossesMidnight(item, t)
    PROVE  PreHalf(item, t) \in Item /\ PostHalf(item, t) \in Item
    <1>1. NanosToMidnight(t) \in Nat /\ NanosToMidnight(t) < item.dur
        <2>1. NextMidnight(t) \in Instant /\ NextMidnight(t) > t
            BY NextMidnightBounds
        <2>2. NextMidnight(t) - t \in Nat
            BY <2>1 DEF Instant
        <2> QED BY <2>2 DEF NanosToMidnight, DiffNanos, CrossesMidnight
    <1>2. item.dur \in Nat /\ item.in \in Int /\ item.out \in Int
        BY DEF Item
    <1>3. InPoint(item) \in Int /\ InPoint(item) * NanosPerMilli \in Int
        BY <1>2 DEF InPoint
    <1>4. /\ (InPoint(item) * NanosPerMilli + NanosToMidnight(t)) \div NanosPerMilli \in Int
          /\ (InPoint(item) * NanosPerMilli + item.dur) \div NanosPerMilli \in Int
        BY <1>1, <1>2, <1>3
    <1>5. PreHalf(item, t) \in Item
        BY <1>1, <1>3, <1>4 DEF PreHalf, Cut, Item
    <1>6. OutPoint(item) \in Int
        BY <1>2, <1>4 DEF OutPoint
    <1>7. item.dur - NanosToMidnight(t) \in Nat /\ PreHalf(item, t).out \in Int
        BY <1>1, <1>2, <1>4 DEF PreHalf, Cut
    <1> QED BY <1>5, <1>6, <1>7 DEF PostHalf, Cut, Item

LEMMA HalfType ==
    ASSUME NEW s \in Segment, NEW start \in Instant, NEW finish \in Instant,
           NEW item \in Item, NEW half \in {"pre", "post"}
    PROVE  Half(s, start, finish, item, half) \in Segment
    BY DEF Half, Segment, Instant

\* What the split makes of one item.
SplitOf(s) ==
    IF s.finish > DayLen /\ CrossesMidnight(s.item, s.start)
    THEN << Half(s, s.start, NextMidnight(s.start), PreHalf(s.item, s.start), "pre"),
            Half(s, NextMidnight(s.start), s.finish, PostHalf(s.item, s.start), "post") >>
    ELSE <<s>>

LEMMA SplitOfType == ASSUME NEW s \in Segment PROVE SplitOf(s) \in Seq(Segment)
    <1>1. s.start \in Instant /\ s.finish \in Instant /\ s.item \in Item
        BY DEF Segment, Instant
    <1>2. NextMidnight(s.start) \in Instant
        BY <1>1, NextMidnightBounds
    <1> DEFINE a == Half(s, s.start, NextMidnight(s.start), PreHalf(s.item, s.start), "pre")
               b == Half(s, NextMidnight(s.start), s.finish, PostHalf(s.item, s.start), "post")
    <1>3. CASE CrossesMidnight(s.item, s.start)
        <2>1. a \in Segment /\ b \in Segment
            BY <1>1, <1>2, <1>3, HalvesType, HalfType
        <2>2. SplitOf(s) = <<a, b>> \/ SplitOf(s) = <<s>>
            BY DEF SplitOf
        <2> HIDE DEF a, b
        <2>3. <<a, b>> \in Seq(Segment) /\ <<s>> \in Seq(Segment)
            BY <2>1
        <2> QED BY <2>2, <2>3, Zenon
    <1>4. CASE ~CrossesMidnight(s.item, s.start)
        <2>1. SplitOf(s) = <<s>>
            BY <1>4 DEF SplitOf
        <2>2. <<s>> \in Seq(Segment)
            OBVIOUS
        <2> QED BY <2>1, <2>2, Zenon
    <1> QED BY <1>3, <1>4

LEMMA ProgrammesType ==
    ASSUME NEW s \in Segment
    PROVE  Programme(s) \in ProgrammeType
    <1>1. s.item \in Item
        BY DEF Segment
    <1> QED BY <1>1 DEF Programme, ProgrammeType, Segment, Item

\* The passes leave the block's variables alone.
LEMMA PassFrame ==
    ASSUME TInv, pc \in {"split", "guide"}, UNCHANGED <<plan, idx, blockVars>>,
           pc' \in {"split", "guide", "done"}
    PROVE  Shape'
    <1>1. todo = << >> /\ chunks = << >>
        BY Idle DEF InBlock
    <1> QED BY <1>1, EmptySeqs DEF Shape, blockVars, Busy, InBlock

LEMMA PassesType == ASSUME TInv, Passes PROVE TInv'
    <1>1. CASE SplitNext
        <2>1. Head(items) \in Segment /\ Tail(items) \in Seq(Segment)
            BY <1>1, TailFacts DEF SplitNext, TInv, TypeOK
        <2>2. final' = final \o SplitOf(Head(items))
            BY <1>1 DEF SplitNext, SplitOf
        <2>3. final \in Seq(Segment) /\ SplitOf(Head(items)) \in Seq(Segment)
            BY <2>1, SplitOfType DEF TInv, TypeOK
        <2> DEFINE cut == SplitOf(Head(items))
        <2> HIDE DEF cut
        <2>4. final' \in Seq(Segment) /\ items' \in Seq(Segment)
            <3>1. final \in Seq(Segment) /\ cut \in Seq(Segment) /\ final' = final \o cut
                BY <2>2, <2>3 DEF cut
            <3>2. items' = Tail(items)
                BY <1>1 DEF SplitNext
            <3> QED BY <2>1, <3>1, <3>2
        <2>5. TypeOK'
            BY <1>1, <2>4 DEF TInv, TypeOK, SplitNext, blockVars
        <2> QED BY <1>1, <2>5, PassFrame DEF SplitNext, TInv
    <1>2. CASE EndSplit
        <2>1. TypeOK'
            BY <1>2 DEF TInv, TypeOK, EndSplit, Stages, blockVars, passVars
        <2> QED BY <1>2, <2>1, PassFrame DEF EndSplit, TInv
    <1>3. CASE GuideNext
        <2>1. Head(items) \in Segment /\ Tail(items) \in Seq(Segment)
            BY <1>3, TailFacts DEF GuideNext, TInv, TypeOK
        <2>2. /\ programmes \in Seq(ProgrammeType) /\ current \in Seq(ProgrammeType)
              /\ Head(items).finish \in Nat
            BY <2>1 DEF TInv, TypeOK, Segment
        <2> DEFINE p == Programme(Head(items))
                   q == [current[1] EXCEPT !.finish = Head(items).finish]
        <2>3. p \in ProgrammeType
            BY <2>1, ProgrammesType
        <2>4. current # << >> => q \in ProgrammeType
            <3>1. current # << >> => current[1] \in ProgrammeType
                BY <2>2
            <3> QED BY <2>2, <3>1 DEF ProgrammeType
        <2>5. \/ programmes' = programmes /\ current # << >> /\ current' = <<q>>
              \/ programmes' = programmes /\ current' = current
              \/ programmes' = programmes \o current /\ current' = <<p>>
            BY <1>3 DEF GuideNext
        <2> HIDE DEF p, q
        <2>6. programmes' \in Seq(ProgrammeType) /\ current' \in Seq(ProgrammeType)
            <3>1. <<p>> \in Seq(ProgrammeType) /\ programmes \o current \in Seq(ProgrammeType)
                BY <2>2, <2>3
            <3>2. current # << >> => <<q>> \in Seq(ProgrammeType)
                BY <2>4
            <3> QED BY <2>2, <2>5, <3>1, <3>2, Zenon
        <2>7. items' \in Seq(Segment)
            BY <1>3, <2>1 DEF GuideNext
        <2>8. TypeOK'
            BY <1>3, <2>6, <2>7 DEF TInv, TypeOK, GuideNext, blockVars
        <2> QED BY <1>3, <2>8, PassFrame DEF GuideNext, TInv
    <1>4. CASE EndGuide
        <2>1. programmes' \in Seq(ProgrammeType) /\ current' \in Seq(ProgrammeType)
            <3>1. programmes \in Seq(ProgrammeType) /\ current \in Seq(ProgrammeType)
                BY DEF TInv, TypeOK
            <3>2. programmes' = programmes \o current /\ current' = << >>
                BY <1>4 DEF EndGuide
            <3> QED BY <3>1, <3>2, EmptySeqs
        <2>2. TypeOK'
            BY <1>4, <2>1 DEF TInv, TypeOK, EndGuide, Stages, walkVars, blockVars
        <2> QED BY <1>4, <2>2, PassFrame DEF EndGuide, TInv, walkVars
    <1> QED BY <1>1, <1>2, <1>3, <1>4 DEF Passes

-----------------------------------------------------------------------------
LEMMA InitType == Init => TInv
    <1> SUFFICES ASSUME Init PROVE TInv
        OBVIOUS
    <1>1. PlanOK(plan)
        BY DayPlanAssumption DEF Init
    <1>2. picker \in [Collections -> PickerState]
        BY DEF Init, PickerState
    <1>3. TypeOK
        BY <1>1, <1>2, EmptySeqs DEF Init, TypeOK, Stages, Instant
    <1>4. Shape
        BY EmptySeqs DEF Init, Shape, Busy, InBlock
    <1> QED BY <1>3, <1>4 DEF TInv

LEMMA StutterType == ASSUME TInv, UNCHANGED vars PROVE TInv'
    <1>1. TypeOK'
        BY DEF vars, walkVars, blockVars, passVars, TInv, TypeOK
    <1>2. Shape'
        BY DEF vars, walkVars, blockVars, passVars, TInv, Shape, Busy, InBlock, Pool, B
    <1> QED BY <1>1, <1>2 DEF TInv

LEMMA TypeStep == TInv /\ [Next]_vars => TInv'
    BY WalkType, DefaultStepType, BlockStepType, PlacingType, PassesType,
       StutterType DEF Next

\* Every variable of the planner keeps its type, whatever the plan.
THEOREM TypeCorrect == Spec => []TypeOK
    <1>1. Spec => []TInv
        BY InitType, TypeStep, PTL DEF Spec
    <1>2. TInv => TypeOK
        BY DEF TInv
    <1> QED BY <1>1, <1>2, PTL

-----------------------------------------------------------------------------
(* The fill step.                                                          *)
(*                                                                         *)
(* FillStaysInside is not inductive: what has been decided and not placed  *)
(* yet must fit as well.  While pools are drawn from, the work in hand is  *)
(* one pool with at most the remaining nanoseconds to spend, or the one    *)
(* item it was cut down to; behind them, the black frames last exactly     *)
(* what remains.                                                           *)

Fits(w, nanos) ==
    \/ w.op \in {"drain", "loop"} /\ w.left <= nanos
    \/ w.op = "items" /\ w.list = << >>
    \/ w.op = "items" /\ Len(w.list) = 1 /\ w.list[1].dur <= nanos

Closes(w, nanos) ==
    /\ w.op = "items"
    /\ \/ w.list = << >> /\ nanos = 0
       \/ Len(w.list) = 1 /\ w.list[1].dur = nanos

FillInv ==
    /\ FillStaysInside
    /\ pc \in {"fill", "filled"} /\ Busy => Tail(todo) = << >>
    /\ pc = "fill" /\ Busy => Fits(Now, Remaining)
    /\ pc = "filled" /\ Busy => Closes(Now, Remaining)
    /\ FillLandsOnTarget

LEMMA NothingRemains ==
    ASSUME NEW t \in Instant, NEW u \in Instant, t <= u, DiffNanos(u, t) <= 0
    PROVE  t = u
    BY DEF DiffNanos, Instant

\* Placing an item that fits leaves room for what is still to be spent.
LEMMA LayInside ==
    ASSUME TInv, Busy, NEW item \in Item, Lay(item), KeepBlock,
           item.dur <= Remaining
    PROVE  /\ here' <= target'
           /\ Remaining - item.dur <= Remaining'
    <1>1. here \in Instant /\ target \in Instant /\ item.dur \in Nat
        BY DEF TInv, TypeOK, Item
    <1>2. here' = AddNanos(here, item.dur) /\ target' = target
        BY DEF Lay, KeepBlock
    <1> QED BY <1>1, <1>2, AddNanosInside DEF Remaining

LEMMA LayGap ==
    ASSUME TInv, NEW item \in Item, Lay(item), KeepBlock
    PROVE  Remaining' \in Int
    <1>1. here \in Instant /\ target \in Instant /\ item.dur \in Nat
        BY DEF TInv, TypeOK, Item
    <1>2. here' \in Instant /\ target' = target
        BY <1>1, AddNanosBounds DEF Lay, KeepBlock
    <1>3. Remaining' = (target' - here') * NanosPerMicro
        BY DEF Remaining, DiffNanos
    <1> QED BY <1>1, <1>2, <1>3 DEF Instant

LEMMA HeadOfOne ==
    ASSUME NEW S, NEW list \in Seq(S), Len(list) = 1
    PROVE  Head(list) = list[1] /\ Tail(list) = << >>
    <1>1. list # << >>
        BY EmptySeq
    <1>2. Tail(list) \in Seq(S) /\ Len(Tail(list)) = 0 /\ Head(list) = list[1]
        BY <1>1, HeadTailProperties
    <1> QED BY <1>2, EmptySeq

LEMMA Singleton ==
    ASSUME NEW w
    PROVE  /\ <<w>> # << >> /\ Head(<<w>>) = w /\ Tail(<<w>>) = << >>
           /\ <<w>> \o << >> = <<w>> /\ Len(<<w>>) = 1 /\ <<w>>[1] = w
    OBVIOUS

\* The frame of the placing actions: one piece of work is in hand, and
\* becomes w.
LEMMA FillFrame ==
    ASSUME TInv, FillInv, Busy, KeepBlock, pc \in {"fill", "filled"},
           NEW w, todo' = <<w>> \o Tail(todo),
           here' <= target', pc = "fill" => Fits(w, Remaining'), pc = "filled" => Closes(w, Remaining')
    PROVE  FillInv'
    <1>1. todo' = <<w>>
        BY Singleton DEF FillInv
    <1>2. Busy' /\ Now' = w /\ Tail(todo') = << >>
        BY <1>1, Singleton DEF Busy, Now
    <1>3. pc' = pc /\ target' = target /\ limit' = limit
        BY DEF KeepBlock
    <1> QED BY <1>2, <1>3 DEF FillInv, FillStaysInside, FillLandsOnTarget

\* Nothing of it is left.
LEMMA FillFrameDone ==
    ASSUME TInv, FillInv, Busy, KeepBlock, pc \in {"fill", "filled"},
           todo' = Tail(todo), here' = here, pc = "filled" => here = target
    PROVE  FillInv'
    <1>1. todo' = << >>
        BY DEF FillInv
    <1>2. pc' = pc /\ target' = target /\ limit' = limit
        BY DEF KeepBlock
    <1> QED BY <1>1, <1>2 DEF FillInv, FillStaysInside, FillLandsOnTarget, Busy

LEMMA PlacingFill == ASSUME TInv, FillInv, Placing PROVE FillInv'
    <1>0. CASE pc \notin {"fill", "filled"}
        <2>1. pc' = pc
            BY DEF Placing, PlaceNext, ListDone, DrainTake, DrainSkip, DrainEnd,
                   LoopTake, LoopEnd, FillEnd, KeepBlock
        <2> QED BY <1>0, <2>1 DEF FillInv, FillStaysInside, FillLandsOnTarget
    <1> SUFFICES ASSUME pc \in {"fill", "filled"} PROVE FillInv'
        BY <1>0
    <1>t. /\ here \in Instant /\ target \in Instant /\ Remaining \in Int
          /\ here <= target
        BY DEF TInv, TypeOK, Remaining, DiffNanos, Instant, FillInv, FillStaysInside
    <1>1. CASE PlaceNext
        <2> DEFINE w == Rest(Tail(Now.list), Now.left, Now.over)
        <2>1. /\ Busy /\ Now.op = "items" /\ Now.list # << >> /\ KeepBlock
              /\ Lay(Head(Now.list)) /\ todo' = <<w>> \o Tail(todo)
            BY <1>1 DEF PlaceNext
        <2>2. /\ Now.list \in Seq(Item) /\ Head(Now.list) \in Item
              /\ Head(Now.list).dur \in Nat
            BY <2>1, NowType, NowFacts
        <2>3. Len(Now.list) = 1 /\ Now.list[1].dur <= Remaining
            BY <1>t, <2>1 DEF FillInv, Fits, Closes
        <2>4. Head(Now.list) = Now.list[1] /\ Tail(Now.list) = << >>
            BY <2>2, <2>3, HeadOfOne
        <2>5. here' <= target'
            BY <2>1, <2>2, <2>3, <2>4, LayInside
        <2>6. pc = "filled" => here' = target'
            <3>1. ASSUME pc = "filled" PROVE Head(Now.list).dur = DiffNanos(target, here)
                BY <2>1, <2>4, <3>1 DEF FillInv, Closes, Remaining
            <3> QED BY <1>t, <2>1, <3>1, AddNanosExact DEF Lay, KeepBlock
        <2>r. here' = target' => Remaining' = 0
            BY <1>t, <2>1 DEF Remaining, DiffNanos, Instant, KeepBlock
        <2>7. w.op = "items" /\ w.list = << >>
            BY <2>1, <2>4 DEF Rest
        <2> HIDE DEF w
        <2>8. (pc = "fill" => Fits(w, Remaining')) /\ (pc = "filled" => Closes(w, Remaining'))
            BY <2>6, <2>7, <2>r DEF Fits, Closes
        <2> QED BY <2>1, <2>5, <2>8, FillFrame
    <1>2. CASE ListDone
        <2>1. /\ Busy /\ Now.op = "items" /\ Now.list = << >> /\ KeepBlock
              /\ here' = here /\ todo' = Tail(todo)
            BY <1>2 DEF ListDone
        <2>2. pc = "filled" => here = target
            <3>1. Len(<< >>) # 1
                OBVIOUS
            <3>2. pc = "filled" => Remaining = 0
                BY <2>1, <3>1 DEF FillInv, Closes
            <3> QED BY <1>t, <3>2, NothingRemains DEF Remaining
        <2> QED BY <2>1, <2>2, FillFrameDone
    <1>3. CASE DrainTake
        <2> DEFINE w == Rest(Tail(Now.list), Now.left - Head(Now.list).dur, Now.over)
        <2>1. /\ Busy /\ Now.op = "drain" /\ Now.list # << >> /\ KeepBlock
              /\ Head(Now.list).dur <= Now.left
              /\ Lay(Head(Now.list)) /\ todo' = <<w>> \o Tail(todo)
            BY <1>3 DEF DrainTake
        <2>2. /\ Head(Now.list) \in Item /\ Head(Now.list).dur \in Nat
              /\ Now.left \in Int
            BY <2>1, NowType, NowFacts
        <2>3. pc = "fill" /\ Now.left <= Remaining
            BY <2>1 DEF FillInv, Fits, Closes
        <2>4. Head(Now.list).dur <= Remaining
            BY <1>t, <2>1, <2>2, <2>3
        <2>5. /\ here' <= target'
              /\ Remaining - Head(Now.list).dur <= Remaining'
            BY <2>1, <2>2, <2>4, LayInside
        <2>6. w.op = "drain" /\ w.left = Now.left - Head(Now.list).dur
            BY <2>1 DEF Rest
        <2> HIDE DEF w
        <2>r. Remaining' \in Int
            BY <2>1, <2>2, LayGap
        <2>7. w.left <= Remaining'
            BY <1>t, <2>2, <2>3, <2>5, <2>6, <2>r
        <2>8. Fits(w, Remaining')
            BY <2>6, <2>7 DEF Fits
        <2> QED BY <2>1, <2>3, <2>5, <2>8, FillFrame
    <1>4. CASE DrainSkip
        <2> DEFINE o == IF Now.over = << >> THEN <<Head(Now.list)>> ELSE Now.over
                   w == Rest(Tail(Now.list), Now.left, o)
        <2>1. /\ Busy /\ Now.op = "drain" /\ KeepBlock
              /\ here' = here /\ todo' = <<w>> \o Tail(todo)
            BY <1>4 DEF DrainSkip
        <2>2. pc = "fill" /\ Now.left <= Remaining
            BY <2>1 DEF FillInv, Fits, Closes
        <2>3. w.op = "drain" /\ w.left = Now.left
            BY <2>1 DEF Rest
        <2> HIDE DEF w
        <2>4. Remaining' = Remaining /\ here' <= target'
            BY <1>t, <2>1 DEF Remaining, KeepBlock
        <2>5. Fits(w, Remaining')
            BY <2>2, <2>3, <2>4 DEF Fits
        <2> QED BY <2>1, <2>2, <2>4, <2>5, FillFrame
    <1>5. ASSUME NEW trimmed \in Seq(Item), FillEnd(trimmed), Busy,
                 Now.op \in {"drain", "loop"}
          PROVE  FillInv'
        <2>1. KeepBlock /\ here' = here /\ Now.left \in Int /\ Now.kind \in Roles
            BY <1>5, NowType DEF FillEnd
        <2>2. pc = "fill" /\ Now.left <= Remaining
            BY <1>5 DEF FillInv, Fits, Closes
        <2>3. CASE Now.trim /\ Now.left > 0 /\ trimmed # << >>
            <3> DEFINE i == TrimTo(trimmed[1], Now.left)
                       w == ItemsOf(<<i>>, Now.kind)
            <3>1. todo' = <<w>> \o Tail(todo)
                BY <1>5, <2>3 DEF FillEnd
            <3>2. i.dur = Now.left
                BY DEF TrimTo, Cut
            <3> HIDE DEF i
            <3>3. w.op = "items" /\ w.list = <<i>>
                BY DEF ItemsOf
            <3> HIDE DEF w
            <3>4. Remaining' = Remaining /\ here' <= target'
                BY <1>t, <2>1 DEF Remaining, KeepBlock
            <3>5. Fits(w, Remaining')
                BY <2>2, <3>2, <3>3, <3>4, Singleton DEF Fits
            <3> QED BY <1>5, <2>1, <2>2, <3>1, <3>4, <3>5, FillFrame
        <2>4. CASE ~(Now.trim /\ Now.left > 0 /\ trimmed # << >>)
            <3>1. todo' = << >> \o Tail(todo) /\ Tail(todo) = << >>
                BY <1>5, <2>4 DEF FillEnd, FillInv
            <3>2. todo' = Tail(todo)
                BY <3>1
            <3> QED BY <1>5, <2>1, <2>2, <3>2, FillFrameDone
        <2> QED BY <2>3, <2>4
    <1>6. CASE DrainEnd
        BY <1>5, <1>6, NowType DEF DrainEnd
    <1>7. CASE LoopTake
        <2> DEFINE i == Now.list[1]
                   w == Rest(Now.list, Now.left - i.dur, Now.over)
        <2>1. /\ Busy /\ Now.op = "loop" /\ KeepBlock /\ Now.left >= i.dur
              /\ Lay(i) /\ todo' = <<w>> \o Tail(todo)
            BY <1>7 DEF LoopTake
        <2>2. i \in Item /\ Now.left \in Int
            <3>1. Now.list \in Seq(Item) /\ Now.list # << >>
                BY <2>1, NowType
            <3> QED BY <2>1, <3>1, NowType
        <2>i. i.dur \in Nat
            BY <2>2 DEF Item
        <2>3. pc = "fill" /\ Now.left <= Remaining
            BY <2>1 DEF FillInv, Fits, Closes
        <2>6. w.op = "loop" /\ w.left = Now.left - i.dur
            BY <2>1 DEF Rest
        <2> HIDE DEF w, i
        <2>4. i.dur <= Remaining
            BY <1>t, <2>1, <2>2, <2>i, <2>3
        <2>5. /\ here' <= target'
              /\ Remaining - i.dur <= Remaining'
            BY <2>1, <2>2, <2>4, LayInside
        <2>r. Remaining' \in Int
            BY <2>1, <2>2, LayGap
        <2>7. w.left <= Remaining'
            BY <1>t, <2>2, <2>i, <2>3, <2>5, <2>6, <2>r
        <2>8. Fits(w, Remaining')
            BY <2>6, <2>7 DEF Fits
        <2> QED BY <2>1, <2>3, <2>5, <2>8, FillFrame
    <1>8. CASE LoopEnd
        BY <1>5, <1>8, NowType DEF LoopEnd
    <1> QED BY <1>1, <1>2, <1>3, <1>4, <1>6, <1>7, <1>8 DEF Placing

LEMMA StartFillFill == ASSUME TInv, StartFill PROVE FillInv'
    <1>1. /\ B.align \in Nat /\ here \in Instant /\ limit \in Instant
          /\ todo' = << >>
        BY BlockType DEF Block, TInv, TypeOK, Shape, InBlock, StartFill, Deciding, Busy
    <1>2. target' \in Instant /\ target' <= limit'
        BY <1>1, TargetEndBounds DEF StartFill
    <1>3. pc' = "fill" => here' <= target'
        BY <1>1, <1>2 DEF StartFill, Instant
    <1>4. pc' # "filled"
        BY DEF StartFill
    <1> QED BY <1>1, <1>2, <1>3, <1>4
            DEF FillInv, FillStaysInside, FillLandsOnTarget, Busy

LEMMA FillPoolFill == ASSUME TInv, FillInv, FillPool PROVE FillInv'
    <1>1. /\ pc = "fill" /\ pc' = "fill" /\ here' = here /\ target' = target
          /\ limit' = limit
        BY DEF FillPool, Deciding
    <1>2. FillStaysInside' /\ Remaining' = Remaining
        BY <1>1 DEF FillInv, FillStaysInside, Remaining
    <1>3. CASE todo' = << >>
        BY <1>1, <1>2, <1>3 DEF FillInv, FillLandsOnTarget, Busy
    <1>4. CASE \E list \in Seq(LocalItem), op \in {"drain", "loop"},
                  trim \in BOOLEAN, kind \in Roles :
                     todo' = <<FillFrom(op, list, Remaining, trim, kind)>>
        <2>1. PICK list \in Seq(LocalItem), op \in {"drain", "loop"},
                   trim \in BOOLEAN, kind \in Roles :
                     todo' = <<FillFrom(op, list, Remaining, trim, kind)>>
            BY <1>4
        <2> DEFINE w == FillFrom(op, list, Remaining, trim, kind)
        <2>2. w.op \in {"drain", "loop"} /\ w.left = Remaining
            BY DEF FillFrom
        <2>3. todo' = <<w>>
            BY <2>1
        <2> HIDE DEF w
        <2>4. Now' = w /\ Tail(todo') = << >>
            BY <2>3, Singleton DEF Now
        <2>5. Remaining \in Int
            BY DEF TInv, TypeOK, Remaining, DiffNanos, Instant
        <2>6. Fits(w, Remaining')
            BY <1>2, <2>2, <2>5 DEF Fits
        <2> QED BY <1>1, <1>2, <2>4, <2>6 DEF FillInv, FillLandsOnTarget
    <1> QED BY <1>3, <1>4, FillPoolWork

LEMMA EndFillFill == ASSUME TInv, FillInv, EndFill PROVE FillInv'
    <1>1. /\ pc = "fill" /\ pc' = "filled" /\ here' = here /\ target' = target
          /\ limit' = limit
        BY DEF EndFill, Deciding
    <1>2. FillStaysInside' /\ Remaining' = Remaining
        BY <1>1 DEF FillInv, FillStaysInside, Remaining
    <1>t. /\ here \in Instant /\ target \in Instant /\ Remaining \in Int
          /\ here <= target
        BY <1>1 DEF TInv, TypeOK, Remaining, DiffNanos, Instant, FillInv,
                    FillStaysInside
    <1>3. CASE Remaining > 0
        <2> DEFINE b == BlackFrames(Remaining)
                   w == ItemsOf(<<b>>, "lavfi")
        <2>1. todo' = <<w>>
            BY <1>3 DEF EndFill
        <2>2. b.dur = Remaining
            BY DEF BlackFrames
        <2> HIDE DEF b
        <2>3. w.op = "items" /\ w.list = <<b>>
            BY DEF ItemsOf
        <2> HIDE DEF w
        <2>4. Now' = w /\ Tail(todo') = << >> /\ Busy'
            BY <2>1, Singleton DEF Now, Busy
        <2>5. Closes(w, Remaining')
            BY <1>2, <2>2, <2>3, Singleton DEF Closes
        <2> QED BY <1>1, <1>2, <2>4, <2>5 DEF FillInv, FillLandsOnTarget
    <1>4. CASE ~(Remaining > 0)
        <2>1. here = target
            BY <1>t, <1>4, NothingRemains DEF Remaining
        <2>2. todo' = << >>
            BY <1>4 DEF EndFill
        <2> QED BY <1>1, <1>2, <2>1, <2>2 DEF FillInv, FillLandsOnTarget, Busy
    <1> QED BY <1>3, <1>4

LEMMA FillStep == TInv /\ FillInv /\ [Next]_vars => FillInv'
    <1> SUFFICES ASSUME TInv, FillInv, [Next]_vars PROVE FillInv'
        OBVIOUS
    <1>0. ASSUME pc' \notin {"fill", "filled"} PROVE FillInv'
        BY <1>0 DEF FillInv, FillStaysInside, FillLandsOnTarget
    <1>1. CASE Walk
        <2>1. pc' \in {"walk", "default", "mains", "error", "split"}
            BY <1>1 DEF Walk, EnterDefault, DefaultFails, SkipGap, EnterBlock,
                        BlockFails, EndWalk, Fail, Walking
        <2> QED BY <1>0, <2>1
    <1>2. CASE DefaultStep
        <2>1. pc' \in {"walk", "default", "split"}
            BY <1>2 DEF DefaultStep, DefaultPlace, DefaultReject, DefaultDone,
                        LeaveDefault
        <2> QED BY <1>0, <2>1
    <1>3. CASE PickMain \/ ZeroInterval \/ NextChunk \/ EndMains \/ LeaveBlock
        <2>1. pc' \in {"mains", "error", "post", "walk"}
            BY <1>3 DEF PickMain, ZeroInterval, NextChunk, EndMains, LeaveBlock,
                        Fail, Deciding
        <2> QED BY <1>0, <2>1
    <1>4. CASE StartFill \/ FillPool \/ EndFill
        BY <1>4, StartFillFill, FillPoolFill, EndFillFill
    <1>5. CASE Placing
        BY <1>5, PlacingFill
    <1>6. CASE Passes
        <2>1. pc' \in {"split", "guide", "done"}
            BY <1>6 DEF Passes, SplitNext, EndSplit, GuideNext, EndGuide
        <2> QED BY <1>0, <2>1
    <1>7. CASE UNCHANGED vars
        <2>1. /\ pc' = pc /\ here' = here /\ target' = target /\ limit' = limit
              /\ todo' = todo
            BY <1>7 DEF vars, blockVars
        <2> QED BY <2>1 DEF FillInv, FillStaysInside, FillLandsOnTarget, Busy, Now,
                            Fits, Closes, Remaining
    <1> QED BY <1>1, <1>2, <1>3, <1>4, <1>5, <1>6, <1>7 DEF Next, BlockStep

LEMMA FillInvariant == Spec => [](TInv /\ FillInv)
    <1>1. Init => FillInv
        BY DEF Init, FillInv, FillStaysInside, FillLandsOnTarget
    <1>2. TInv /\ FillInv /\ [Next]_vars => (TInv /\ FillInv)'
        BY TypeStep, FillStep
    <1> QED BY <1>1, <1>2, InitType, PTL DEF Spec

\* No pool and no black frame pushes a block past its aligned end, nor the
\* aligned end past the next anchor.
THEOREM FillInside == Spec => []FillStaysInside
    <1>1. FillInv => FillStaysInside
        BY DEF FillInv
    <1> QED BY <1>1, FillInvariant, PTL

\* A fill step that is over has reached the aligned end to the microsecond.
THEOREM FillLands == Spec => []FillLandsOnTarget
    <1>1. FillInv => FillLandsOnTarget
        BY DEF FillInv
    <1> QED BY <1>1, FillInvariant, PTL

-----------------------------------------------------------------------------
(* Midnight.                                                               *)
(*                                                                         *)
(* The split only cuts media files, so the argument needs two facts about  *)
(* every item that reaches it: its finish is its start plus its duration,  *)
(* and it is a media file unless it ends within the day.  The second holds *)
(* because black frames are only placed behind a fill step, whose aligned  *)
(* end the next anchor or midnight caps.                                   *)

Sound == {s \in Segment : /\ s.finish = AddNanos(s.start, s.item.dur)
                          /\ s.item.src = "local" \/ s.finish <= DayLen}

Uncrossed == {s \in Segment : s.finish <= DayLen \/ s.start >= DayLen}

MidnightInv ==
    /\ limit <= DayLen
    /\ out \in Seq(Sound)
    /\ pc \notin {"guide", "done"} => items \in Seq(Sound)
    /\ final \in Seq(Uncrossed)

LEMMA PlacedSound ==
    ASSUME NEW item \in Item, NEW start \in Instant, NEW anchor \in Int,
           NEW gran \in {"per_item", "per_block", "per_chapter"},
           NEW kind \in Roles,
           item.src = "local" \/ AddNanos(start, item.dur) <= DayLen
    PROVE  Placed(item, start, anchor, gran, kind) \in Sound
    <1> DEFINE s == Placed(item, start, anchor, gran, kind)
    <1>1. s \in Segment
        BY PlacedType
    <1>2. s.start = start /\ s.item = item /\ s.finish = AddNanos(start, item.dur)
        BY DEF Placed
    <1> HIDE DEF s
    <1>3. s \in Sound
        BY <1>1, <1>2 DEF Sound
    <1> QED BY <1>3 DEF s

LEMMA AppendSound ==
    ASSUME NEW S, NEW list \in Seq(S), NEW s \in S
    PROVE  Append(list, s) \in Seq(S)
    OBVIOUS

LEMMA ConcatSound ==
    ASSUME NEW S, NEW a \in Seq(S), NEW b \in Seq(S)
    PROVE  a \o b \in Seq(S)
    OBVIOUS

\* Every placing step lays at most one item, and a local one unless the
\* black frames are under way.
LEMMA PlacingLays ==
    ASSUME TInv, Placing
    PROVE  /\ Busy /\ KeepBlock
           /\ \/ out' = out /\ here' = here
              \/ \E item \in Item : /\ Lay(item)
                                    /\ pc # "filled" => item.src = "local"
    <1>1. CASE PlaceNext \/ DrainTake
        <2>1. /\ Busy /\ KeepBlock /\ Now.list # << >> /\ Lay(Head(Now.list))
            BY <1>1 DEF PlaceNext, DrainTake
        <2>2. /\ Head(Now.list) \in Item
              /\ pc # "filled" => Head(Now.list).src = "local"
            BY <2>1, NowFacts DEF LocalItem
        <2> QED BY <2>1, <2>2
    <1>2. CASE LoopTake
        <2>1. /\ Busy /\ KeepBlock /\ Now.op = "loop" /\ Lay(Now.list[1])
            BY <1>2 DEF LoopTake
        <2>2. /\ Now.list \in Seq(Item) /\ Now.list # << >>
              /\ pc # "filled" => Now.list \in Seq(LocalItem)
            BY <2>1, NowType
        <2>3. Now.list[1] \in Item /\ (pc # "filled" => Now.list[1] \in LocalItem)
            BY <2>2
        <2> QED BY <2>1, <2>3 DEF LocalItem
    <1>3. CASE ListDone \/ DrainSkip \/ DrainEnd \/ LoopEnd
        BY <1>3 DEF ListDone, DrainSkip, DrainEnd, LoopEnd, FillEnd
    <1> QED BY <1>1, <1>2, <1>3 DEF Placing

LEMMA PlacingMidnight ==
    ASSUME TInv, FillInv, MidnightInv, Placing
    PROVE  MidnightInv'
    <1>1. Busy /\ KeepBlock
        BY PlacingLays
    <1>2. CASE out' = out
        BY <1>1, <1>2 DEF MidnightInv, KeepBlock, walkVars, passVars
    <1>3. CASE \E item \in Item : Lay(item) /\ (pc # "filled" => item.src = "local")
        <2>1. PICK item \in Item : Lay(item) /\ (pc # "filled" => item.src = "local")
            BY <1>3
        <2> DEFINE s == Placed(item, here, B.at, B.layout.gran, Now.kind)
        <2>2. Now.kind \in Roles /\ B \in Block /\ B.layout \in Layout
            BY <1>1, NowType, BlockType DEF TInv, Shape
        <2>3. /\ B.at \in Int /\ here \in Instant
              /\ B.layout.gran \in {"per_item", "per_block", "per_chapter"}
            BY <2>2 DEF Block, Layout, TInv, TypeOK
        <2>4. pc = "filled" => AddNanos(here, item.dur) <= DayLen
            <3>1. here' = AddNanos(here, item.dur) /\ target' = target
                  /\ limit' = limit /\ pc' = pc
                BY <1>1, <2>1 DEF Lay, KeepBlock
            <3>2. pc = "filled" => here' <= target' /\ target' <= limit'
                BY <3>1, PlacingFill DEF FillInv, FillStaysInside
            <3>3. /\ AddNanos(here, item.dur) \in Int /\ target \in Int
                  /\ limit \in Int /\ limit <= DayLen
                BY <2>3, AddNanosBounds DEF Item, TInv, TypeOK, Instant, MidnightInv
            <3> QED BY <3>1, <3>2, <3>3
        <2>5. s \in Sound
            BY <2>1, <2>2, <2>3, <2>4, PlacedSound
        <2>6. out' = Append(out, s)
            BY <2>1 DEF Lay
        <2> HIDE DEF s
        <2>7. out' \in Seq(Sound)
            BY <2>5, <2>6, AppendSound DEF MidnightInv
        <2> QED BY <1>1, <2>7 DEF MidnightInv, KeepBlock, walkVars, passVars
    <1> QED BY <1>2, <1>3, PlacingLays

LEMMA WalkMidnight ==
    ASSUME TInv, MidnightInv, Walk
    PROVE  MidnightInv'
    <1>1. /\ pc = "walk" /\ pc' \notin {"guide", "done"}
          /\ items' = items /\ final' = final
        BY DEF Walk, EnterDefault, DefaultFails, SkipGap, EnterBlock, BlockFails,
               EndWalk, Fail, Walking, walkVars, passVars
    <1>2. out' = out \/ out' = << >>
        BY DEF Walk, EnterDefault, DefaultFails, SkipGap, EnterBlock, BlockFails,
               EndWalk, Fail, blockVars
    <1>3. limit' \in {limit, DayLen}
          \/ \E i \in 1 .. Len(plan.active) : limit' = plan.active[i].at
        <2>1. idx \in Nat \ {0} /\ Len(plan.active) \in Nat
            BY DEF TInv, TypeOK, PlanOK
        <2>2. CASE EnterDefault
            BY <2>1, <2>2 DEF EnterDefault, GapAhead
        <2>3. CASE EnterBlock
            BY <2>1, <2>3 DEF EnterBlock
        <2>4. CASE DefaultFails \/ SkipGap \/ BlockFails \/ EndWalk
            BY <2>4 DEF DefaultFails, SkipGap, BlockFails, EndWalk, Fail, blockVars
        <2> QED BY <2>2, <2>3, <2>4 DEF Walk
    <1>4. limit' <= DayLen
        BY <1>3, ActiveType DEF MidnightInv, Instant
    <1>5. << >> \in Seq(Sound)
        OBVIOUS
    <1>6. out' \in Seq(Sound)
        BY <1>2, <1>5 DEF MidnightInv
    <1> QED BY <1>1, <1>4, <1>6 DEF MidnightInv

\* `items` takes over what the block or the default block placed.
LEMMA TakeOver ==
    ASSUME MidnightInv, pc \notin {"guide", "done"}, items' = items \o out,
           UNCHANGED <<limit, out, final>>
    PROVE  MidnightInv'
    BY ConcatSound DEF MidnightInv

LEMMA DefaultMidnight ==
    ASSUME TInv, MidnightInv, DefaultStep
    PROVE  MidnightInv'
    <1> DEFINE coll == plan.deflt.coll
    <1>1. CASE DefaultPlace
        <2>1. PICK n \in Picks(coll) :
                 out' = Append(out, Placed(ToPlayable(coll, n, Pool(coll)[n]), here,
                                           DefaultAnchor, plan.deflt.gran, "main"))
            BY <1>1 DEF DefaultPlace
        <2> DEFINE item == ToPlayable(coll, n, Pool(coll)[n])
                   s == Placed(item, here, DefaultAnchor, plan.deflt.gran, "main")
        <2>2. /\ coll \in Collections /\ coll \in DOMAIN plan.pool
              /\ plan.deflt.gran \in {"per_item", "per_block", "per_chapter"}
              /\ here \in Instant
            BY <1>1 DEF DefaultPlace, TInv, TypeOK, PlanOK, Shape, DefaultBlock
        <2>3. item \in LocalItem
            BY <1>1, <2>1, <2>2, PickType DEF DefaultPlace, DefaultWants
        <2>4. item \in Item /\ item.src = "local"
            BY <2>3 DEF LocalItem
        <2>5. "main" \in Roles /\ DefaultAnchor \in Int
            BY DEF Roles, DefaultAnchor
        <2>6. out' = Append(out, s)
            BY <2>1
        <2>7. s \in Sound
            <3> HIDE DEF item
            <3> QED BY <2>2, <2>4, <2>5, PlacedSound
        <2> HIDE DEF s
        <2>8. out' \in Seq(Sound)
            BY <2>6, <2>7, AppendSound DEF MidnightInv
        <2> QED BY <1>1, <2>8 DEF MidnightInv, DefaultPlace, walkVars, passVars
    <1>2. CASE DefaultReject \/ DefaultDone
        BY <1>2, TakeOver
           DEF DefaultReject, DefaultDone, LeaveDefault, blockVars, passVars
    <1> QED BY <1>1, <1>2 DEF DefaultStep

LEMMA BlockMidnight ==
    ASSUME TInv, MidnightInv, BlockStep
    PROVE  MidnightInv'
    <1>1. CASE LeaveBlock
        BY <1>1, TakeOver DEF LeaveBlock, Deciding, blockVars, passVars
    <1>2. CASE PickMain \/ ZeroInterval \/ NextChunk \/ EndMains \/ StartFill
               \/ FillPool \/ EndFill
        <2>1. /\ limit' = limit /\ out' = out /\ items' = items /\ final' = final
              /\ pc \notin {"guide", "done"}
            BY <1>2 DEF PickMain, ZeroInterval, NextChunk, EndMains, StartFill,
                        FillPool, EndFill, Fail, Deciding, walkVars, blockVars,
                        passVars
        <2> QED BY <2>1 DEF MidnightInv
    <1> QED BY <1>1, <1>2 DEF BlockStep

\* The split leaves nothing across the midnight that ends the day.
LEMMA SplitUncrossed ==
    ASSUME NEW s \in Sound
    PROVE  SplitOf(s) \in Seq(Uncrossed)
    <1> DEFINE mid == NextMidnight(s.start)
               a == Half(s, s.start, mid, PreHalf(s.item, s.start), "pre")
               b == Half(s, mid, s.finish, PostHalf(s.item, s.start), "post")
    <1>1. /\ s \in Segment /\ s.start \in Instant /\ s.finish \in Instant
          /\ s.item \in Item /\ s.item.dur \in Nat
        <2>1. s \in Segment
            BY DEF Sound
        <2>2. s.item \in Item
            BY <2>1 DEF Segment
        <2> QED BY <2>1, <2>2 DEF Segment, Instant, Item
    <1>2. /\ mid \in Instant /\ mid > s.start
          /\ s.start < DayLen => mid = DayLen
        BY <1>1, NextMidnightBounds
    <1> HIDE DEF mid
    <1>3. CASE s.finish > DayLen /\ CrossesMidnight(s.item, s.start)
        <2>1. a \in Segment /\ b \in Segment
            BY <1>1, <1>2, <1>3, HalvesType, HalfType
        <2>2. a.finish = mid /\ a.start = s.start /\ b.start = mid
            BY DEF Half
        <2>3. a.finish <= DayLen \/ a.start >= DayLen
            BY <1>1, <1>2, <2>2 DEF Instant
        <2>4. b.start >= DayLen
            BY <1>1, <1>2, <2>2 DEF Instant
        <2>5. SplitOf(s) = <<a, b>>
            BY <1>3 DEF SplitOf, mid
        <2> HIDE DEF a, b
        <2>6. a \in Uncrossed /\ b \in Uncrossed
            BY <2>1, <2>3, <2>4 DEF Uncrossed
        <2>7. <<a, b>> \in Seq(Uncrossed)
            BY <2>6
        <2> QED BY <2>5, <2>7
    <1>4. CASE ~(s.finish > DayLen /\ CrossesMidnight(s.item, s.start))
        <2>1. SplitOf(s) = <<s>>
            BY <1>4 DEF SplitOf
        <2>2. s.finish <= DayLen \/ s.start >= DayLen
            <3> SUFFICES ASSUME s.finish > DayLen, s.start < DayLen PROVE FALSE
                BY <1>1 DEF Instant
            <3>1. s.item.src = "local" /\ s.finish = AddNanos(s.start, s.item.dur)
                BY <1>1 DEF Sound, Instant
            <3>2. mid = DayLen /\ NanosToMidnight(s.start) = DiffNanos(mid, s.start)
                BY <1>2 DEF NanosToMidnight, mid
            <3>3. DiffNanos(mid, s.start) \in Int
                BY <1>1, <1>2 DEF DiffNanos, Instant
            <3>4. s.item.dur <= DiffNanos(mid, s.start)
                BY <1>1, <1>4, <3>1, <3>2, <3>3 DEF CrossesMidnight
            <3>5. s.finish <= mid
                BY <1>1, <1>2, <3>1, <3>4, AddNanosInside
            <3> QED BY <1>1, <3>2, <3>5 DEF Instant
        <2>3. s \in Uncrossed
            BY <1>1, <2>2 DEF Uncrossed
        <2>4. <<s>> \in Seq(Uncrossed)
            BY <2>3
        <2> QED BY <2>1, <2>4, Zenon
    <1> QED BY <1>3, <1>4

LEMMA PassesMidnight ==
    ASSUME TInv, MidnightInv, Passes
    PROVE  MidnightInv'
    <1>1. CASE SplitNext
        <2>1. /\ pc = "split" /\ items # << >> /\ pc' = pc /\ limit' = limit
              /\ out' = out /\ items' = Tail(items)
              /\ final' = final \o SplitOf(Head(items))
            BY <1>1 DEF SplitNext, SplitOf, blockVars
        <2>2. Head(items) \in Sound /\ Tail(items) \in Seq(Sound)
            BY <2>1, TailFacts DEF MidnightInv
        <2>3. SplitOf(Head(items)) \in Seq(Uncrossed)
            BY <2>2, SplitUncrossed
        <2>4. final' \in Seq(Uncrossed)
            BY <2>1, <2>3, ConcatSound DEF MidnightInv
        <2> QED BY <2>1, <2>2, <2>4 DEF MidnightInv
    <1>2. CASE EndSplit \/ GuideNext \/ EndGuide
        <2>1. /\ pc' \in {"guide", "done"} /\ limit' = limit /\ out' = out
              /\ final' = final
            BY <1>2 DEF EndSplit, GuideNext, EndGuide, blockVars, passVars
        <2> QED BY <2>1 DEF MidnightInv
    <1> QED BY <1>1, <1>2 DEF Passes

LEMMA MidnightStep ==
    TInv /\ FillInv /\ MidnightInv /\ [Next]_vars => MidnightInv'
    <1> SUFFICES ASSUME TInv, FillInv, MidnightInv, [Next]_vars PROVE MidnightInv'
        OBVIOUS
    <1>1. CASE UNCHANGED vars
        BY <1>1 DEF vars, walkVars, blockVars, passVars, MidnightInv
    <1> QED BY <1>1, WalkMidnight, DefaultMidnight, BlockMidnight, PlacingMidnight,
               PassesMidnight DEF Next

\* Nothing of the finished day plays across the midnight that ends it.
THEOREM MidnightSplit == Spec => []NothingCrossesMidnight
    <1>1. Init => MidnightInv
        BY EmptySeqs DEF Init, MidnightInv
    <1>2. /\ TInv /\ FillInv /\ MidnightInv
          /\ [Next]_vars
          => MidnightInv'
        BY MidnightStep
    <1>3. MidnightInv => NothingCrossesMidnight
        <2> SUFFICES ASSUME MidnightInv, NEW i \in DOMAIN final
                     PROVE  final[i].finish <= DayLen \/ final[i].start >= DayLen
            BY DEF NothingCrossesMidnight
        <2>1. final[i] \in Uncrossed
            BY DEF MidnightInv
        <2> QED BY <2>1 DEF Uncrossed
    <1> QED BY <1>1, <1>2, <1>3, FillInvariant, PTL DEF Spec

-----------------------------------------------------------------------------
(* The default block.                                                      *)

LEMMA DefaultInside ==
    TInv /\ DefaultStaysInside /\ [Next]_vars => DefaultStaysInside'
    <1> SUFFICES ASSUME TInv, DefaultStaysInside, [Next]_vars, pc' = "default"
                 PROVE  here' <= limit'
        BY DEF DefaultStaysInside
    <1>t. here \in Instant /\ limit \in Instant /\ cursor \in Instant
        BY DEF TInv, TypeOK
    <1>1. CASE EnterDefault
        <2>1. idx \in Nat \ {0} /\ Len(plan.active) \in Nat
            BY DEF TInv, TypeOK, PlanOK
        <2>2. GapAhead => plan.active[idx].at \in Instant
            BY <2>1, ActiveType DEF GapAhead
        <2> QED BY <1>1, <1>t, <2>2 DEF EnterDefault, Walking, GapAhead, Instant
    <1>2. CASE DefaultPlace
        <2> DEFINE item(n) == ToPlayable(plan.deflt.coll, n, Pool(plan.deflt.coll)[n])
        <2>1. PICK n \in Picks(plan.deflt.coll) :
                 /\ DiffNanos(limit, here) >= item(n).dur
                 /\ here' = AddNanos(here, item(n).dur)
            BY <1>2 DEF DefaultPlace
        <2>2. plan.deflt.coll \in Collections /\ plan.deflt.coll \in DOMAIN plan.pool
            BY <1>2 DEF DefaultPlace, TInv, TypeOK, PlanOK, Shape, DefaultBlock
        <2>3. item(n) \in LocalItem
            BY <1>2, <2>1, <2>2, PickType DEF DefaultPlace, DefaultWants
        <2> HIDE DEF item
        <2>4. item(n).dur \in Nat /\ DiffNanos(limit, here) \in Int
            BY <1>t, <2>3 DEF LocalItem, Item, DiffNanos, Instant
        <2>5. AddNanos(here, item(n).dur) <= limit
            BY <1>t, <2>1, <2>4, AddNanosInside
        <2> QED BY <1>2, <2>1, <2>5 DEF DefaultPlace
    <1>3. CASE Walk /\ ~EnterDefault
        BY <1>3 DEF Walk, DefaultFails, SkipGap, EnterBlock, BlockFails, EndWalk,
                    Fail, Walking
    <1>4. CASE DefaultReject \/ DefaultDone
        BY <1>4 DEF DefaultReject, DefaultDone, LeaveDefault
    <1>5. CASE BlockStep \/ Passes
        BY <1>5 DEF BlockStep, PickMain, ZeroInterval, NextChunk, EndMains,
                    StartFill, FillPool, EndFill, LeaveBlock, Fail, Deciding,
                    Passes, SplitNext, EndSplit, GuideNext, EndGuide
    <1>6. CASE Placing
        <2>1. pc' = pc /\ InBlock
            BY <1>6, PlacingLays, NowType DEF KeepBlock
        <2> QED BY <2>1 DEF InBlock
    <1>7. CASE UNCHANGED vars
        BY <1>7 DEF vars, blockVars, DefaultStaysInside
    <1> QED BY <1>1, <1>2, <1>3, <1>4, <1>5, <1>6, <1>7 DEF Next, DefaultStep

\* What fills a gap never plays over the anchor that ends the gap.
THEOREM DefaultFitsItsGap == Spec => []DefaultStaysInside
    <1>1. Init => DefaultStaysInside
        BY DEF Init, DefaultStaysInside
    <1> QED BY <1>1, DefaultInside, FillInvariant, PTL DEF Spec

-----------------------------------------------------------------------------
(* The guide: its invariant. *)

\* No item ends before it starts.
Forward == {s \in Segment : s.start <= s.finish}

\* Programme p has the main s in it, under its name unless it is a block's.
Shows(p, s) ==
    /\ p.start <= s.start /\ s.finish <= p.finish
    /\ s.gran = "per_block" \/ (p.of = s.item.of /\ p.no = s.item.no)

\* Programmes ps are the guide of the first k items of a day; the last one
\* ends with the last of these.
GuideOf(ps, day, k) ==
    /\ \A m \in 1 .. Len(ps) - 1 : ps[m].finish <= ps[m + 1].start
    /\ \A i \in 1 .. k : IsFiller(day[i]) \/ \E m \in 1 .. Len(ps) : Shows(ps[m], day[i])
    /\ ps # << >> => /\ k # 0
                     /\ ps[Len(ps)].finish = day[k].finish
                     /\ ps[Len(ps)].start <= ps[Len(ps)].finish

TidyDay(day) == \A i \in 1 .. Len(day) - 1 : day[i].finish <= day[i + 1].start

\* What the pass has projected of the day, and how far it has come.
Shown == programmes \o current
Seen  == Len(final) - Len(items)

GuideInv ==
    /\ final \in Seq(Forward)
    /\ Len(current) <= 1
    /\ pc \notin {"guide", "done"} => programmes = << >> /\ current = << >>
    /\ pc = "guide" =>
          /\ Seen \in 0 .. Len(final)
          /\ \A i \in 1 .. Len(items) : items[i] = final[Seen + i]
          /\ current = << >> => programmes = << >>
          /\ Tidy => GuideOf(Shown, final, Seen)
    /\ pc = "done" /\ Tidy => GuideOf(programmes, final, Len(final))

-----------------------------------------------------------------------------
(* The items of the day. *)

\* For whole numbers, a factor can be left out.
LEMMA LessByFactor ==
    ASSUME NEW a \in Int, NEW b \in Int, NEW n \in Nat \ {0}, a * n < b * n
    PROVE  a < b
  <1>1. a >= b => (a - b) * n >= 0
    OBVIOUS
  <1>2. (a - b) * n = a * n - b * n
    OBVIOUS
  <1>. QED  BY <1>1, <1>2

\* An item that crosses the next midnight does not end before it.
LEMMA CutForward ==
    ASSUME NEW s \in Sound, CrossesMidnight(s.item, s.start)
    PROVE  NextMidnight(s.start) <= s.finish
  <1>1. /\ s.start \in Nat /\ s.item.dur \in Nat /\ s.finish = AddNanos(s.start, s.item.dur)
    BY DEF Sound, Segment, Item
  <1>2. PICK mid \in Nat : mid = NextMidnight(s.start)
    BY <1>1, NextMidnightBounds DEF Instant
  <1>3. (mid - s.start) * NanosPerMicro < s.item.dur
    BY <1>2 DEF CrossesMidnight, NanosToMidnight, DiffNanos
  <1>4. /\ s.finish \in Nat /\ s.finish >= s.start
        /\ s.item.dur < (s.finish - s.start + 1) * NanosPerMicro
    BY ZenonT(60), <1>1, AddNanosBounds DEF Instant
  <1>5. PICK x \in Int, y \in Int : x = mid - s.start /\ y = s.finish - s.start + 1
    BY <1>1, <1>4
  <1>6. x * NanosPerMicro < y * NanosPerMicro
    <2>1. x * NanosPerMicro \in Int /\ y * NanosPerMicro \in Int
      OBVIOUS
    <2>2. x * NanosPerMicro < s.item.dur /\ s.item.dur < y * NanosPerMicro
      BY <1>3, <1>4, <1>5
    <2>. QED  BY <1>1, <2>1, <2>2
  <1>7. x < y
    BY <1>6, LessByFactor
  <1>. QED  BY <1>1, <1>2, <1>4, <1>5, <1>7

\* The split leaves items that end no earlier than they start.
LEMMA SplitForward ==
    ASSUME NEW s \in Sound
    PROVE  SplitOf(s) \in Seq(Forward)
  <1> DEFINE mid == NextMidnight(s.start)
             a == Half(s, s.start, mid, PreHalf(s.item, s.start), "pre")
             b == Half(s, mid, s.finish, PostHalf(s.item, s.start), "post")
  <1>1. s \in Segment /\ s.item \in Item /\ s.start \in Instant /\ s.finish \in Instant
    BY DEF Sound, Segment, Instant
  <1>2. mid \in Instant /\ mid > s.start
    BY <1>1, NextMidnightBounds
  <1>3. CASE s.finish > DayLen /\ CrossesMidnight(s.item, s.start)
    <2>1. SplitOf(s) = <<a, b>>
      BY <1>3 DEF SplitOf
    <2>2. mid <= s.finish
      BY <1>3, CutForward
    <2>3. a \in Segment /\ b \in Segment
      BY <1>1, <1>2, <1>3, HalvesType, HalfType
    <2>4. a.start = s.start /\ a.finish = mid /\ b.start = mid /\ b.finish = s.finish
      BY DEF Half
    <2>. HIDE DEF a, b, mid
    <2>5. a \in Forward /\ b \in Forward
      BY <1>1, <1>2, <2>2, <2>3, <2>4 DEF Forward, Instant
    <2>6. <<a, b>> \in Seq(Forward)
      BY <2>5
    <2>. QED  BY <2>1, <2>6
  <1>4. CASE ~(s.finish > DayLen /\ CrossesMidnight(s.item, s.start))
    <2>1. SplitOf(s) = <<s>>
      BY <1>4 DEF SplitOf
    <2>2. s.item.dur \in Nat /\ s.finish = AddNanos(s.start, s.item.dur)
      BY <1>1 DEF Sound, Item
    <2>3. s \in Forward
      BY <1>1, <2>2, AddNanosBounds DEF Forward
    <2>4. <<s>> \in Seq(Forward)
      BY <2>3
    <2>. QED  BY <2>1, <2>4, Zenon
  <1>. QED  BY <1>3, <1>4

-----------------------------------------------------------------------------
(* One more item. *)

\* A filler before the first main is in no programme.
LEMMA Skips ==
    ASSUME NEW day, NEW k \in Nat, GuideOf(<< >>, day, k), IsFiller(day[k + 1])
    PROVE  GuideOf(<< >>, day, k + 1)
  BY DEF GuideOf

\* A main that opens a programme behind the others.
LEMMA Opens ==
    ASSUME NEW day \in Seq(Forward), NEW k \in Nat, k + 1 <= Len(day), TidyDay(day),
           NEW ps \in Seq(ProgrammeType), GuideOf(ps, day, k)
    PROVE  GuideOf(Append(ps, Programme(day[k + 1])), day, k + 1)
  <1> DEFINE n == Len(ps)
             p == Programme(day[k + 1])
             qs == Append(ps, p)
  <1>1. /\ day[k + 1] \in Forward
        /\ p.start = day[k + 1].start /\ p.finish = day[k + 1].finish
        /\ p.of = day[k + 1].item.of /\ p.no = day[k + 1].item.no
    BY DEF Programme
  <1>2. p \in ProgrammeType /\ p.start <= p.finish
    BY <1>1, ProgrammesType DEF Forward
  <1>. HIDE DEF p
  <1>3. /\ Len(qs) = n + 1 /\ n \in Nat /\ qs[n + 1] = p /\ qs # << >>
        /\ \A m \in 1 .. n : qs[m] = ps[m]
    BY <1>2
  <1>. HIDE DEF qs
  <1>4. ps # << >> => ps[n].finish <= p.start
    <2>1. ps # << >> => k # 0 /\ ps[n].finish = day[k].finish
      BY DEF GuideOf
    <2>2. k # 0 => day[k].finish <= day[k + 1].start
      BY DEF TidyDay
    <2>. QED  BY <1>1, <2>1, <2>2
  <1>5. \A m \in 1 .. Len(qs) - 1 : qs[m].finish <= qs[m + 1].start
    <2>. SUFFICES ASSUME NEW m \in 1 .. n PROVE qs[m].finish <= qs[m + 1].start
      BY <1>3
    <2>1. CASE m = n
      BY <1>3, <1>4, <2>1
    <2>2. CASE m < n
      BY <1>3, <2>2 DEF GuideOf
    <2>. QED  BY <1>3, <2>1, <2>2
  <1>6. \A i \in 1 .. k + 1 :
           IsFiller(day[i]) \/ \E m \in 1 .. Len(qs) : Shows(qs[m], day[i])
    <2>. TAKE i \in 1 .. k + 1
    <2>1. CASE i = k + 1
      <3>1. day[i].start \in Nat /\ day[i].finish \in Nat
        BY <1>1, <2>1 DEF Forward, Segment
      <3>2. Shows(qs[n + 1], day[i])
        BY <1>1, <1>3, <2>1, <3>1 DEF Shows
      <3>. QED  BY <1>3, <3>2
    <2>2. CASE i # k + 1
      <3>1. IsFiller(day[i]) \/ \E m \in 1 .. n : Shows(ps[m], day[i])
        BY <2>2 DEF GuideOf
      <3>. QED  BY <1>3, <3>1
    <2>. QED  BY <2>1, <2>2
  <1>7. GuideOf(qs, day, k + 1)
    BY <1>1, <1>2, <1>3, <1>5, <1>6 DEF GuideOf
  <1>. QED  BY <1>7 DEF qs, p

\* A filler, or a further main of the block, stretches the last programme.
LEMMA Joins ==
    ASSUME NEW day \in Seq(Forward), NEW k \in Nat, k + 1 <= Len(day), TidyDay(day),
           NEW ps \in Seq(ProgrammeType), NEW c \in ProgrammeType,
           GuideOf(Append(ps, c), day, k),
           IsFiller(day[k + 1]) \/ day[k + 1].gran = "per_block"
    PROVE  GuideOf(Append(ps, [c EXCEPT !.finish = day[k + 1].finish]), day, k + 1)
  <1> DEFINE n == Len(ps)
             d == [c EXCEPT !.finish = day[k + 1].finish]
             cs == Append(ps, c)
             ds == Append(ps, d)
  <1>1. /\ Len(cs) = n + 1 /\ n \in Nat /\ cs[n + 1] = c /\ cs # << >>
        /\ \A m \in 1 .. n : cs[m] = ps[m]
    OBVIOUS
  <1>2. /\ d \in ProgrammeType
        /\ d.start = c.start /\ d.finish = day[k + 1].finish /\ d.of = c.of /\ d.no = c.no
    <2>1. day[k + 1] \in Forward
      OBVIOUS
    <2>2. day[k + 1].finish \in Nat
      BY <2>1 DEF Forward, Segment
    <2>. QED  BY <2>2 DEF ProgrammeType
  <1>. HIDE DEF d
  <1>3. /\ Len(ds) = n + 1 /\ ds[n + 1] = d /\ ds # << >>
        /\ \A m \in 1 .. n : ds[m] = ps[m]
    BY <1>2
  <1>4. GuideOf(cs, day, k)
    OBVIOUS
  <1>. HIDE DEF cs, ds
  <1>5. k # 0 /\ c.finish = day[k].finish /\ c.start <= c.finish
    BY <1>1, <1>4 DEF GuideOf
  <1>6. day[k] \in Forward /\ day[k + 1] \in Forward /\ day[k].finish <= day[k + 1].start
    BY <1>5 DEF TidyDay
  <1>7. /\ c.start \in Nat /\ c.finish \in Nat
        /\ day[k + 1].start \in Nat /\ day[k + 1].finish \in Nat
        /\ day[k + 1].start <= day[k + 1].finish
    BY <1>6 DEF Forward, Segment, ProgrammeType
  <1>8. c.finish <= d.finish /\ d.start <= day[k + 1].start /\ d.start <= d.finish
    BY <1>2, <1>5, <1>6, <1>7
  <1>9. \A m \in 1 .. Len(ds) - 1 : ds[m].finish <= ds[m + 1].start
    <2>. SUFFICES ASSUME NEW m \in 1 .. n PROVE ds[m].finish <= ds[m + 1].start
      BY <1>3
    <2>1. cs[m].finish <= cs[m + 1].start
      BY <1>1, <1>4 DEF GuideOf
    <2>2. ds[m] = cs[m]
      BY <1>1, <1>3
    <2>3. ds[m + 1].start = cs[m + 1].start
      <3>1. m + 1 \in 1 .. n \/ m + 1 = n + 1
        BY <1>1
      <3>. QED  BY <1>1, <1>2, <1>3, <3>1
    <2>. QED  BY <2>1, <2>2, <2>3
  <1>10. \A i \in 1 .. k + 1 :
            IsFiller(day[i]) \/ \E m \in 1 .. Len(ds) : Shows(ds[m], day[i])
    <2>. SUFFICES ASSUME NEW i \in 1 .. k + 1, ~IsFiller(day[i])
                  PROVE  \E m \in 1 .. n + 1 : Shows(ds[m], day[i])
      BY <1>3
    <2>1. CASE i = k + 1
      <3>1. Shows(d, day[i])
        BY <1>2, <1>7, <1>8, <2>1 DEF Shows
      <3>. QED  BY <1>1, <1>3, <3>1
    <2>2. CASE i # k + 1
      <3>1. PICK m \in 1 .. n + 1 : Shows(cs[m], day[i])
        BY <1>1, <1>4, <2>2 DEF GuideOf
      <3>2. CASE m = n + 1
        <4>1. day[i].finish \in Nat
          BY <2>2 DEF Forward, Segment
        <4>2. Shows(d, day[i])
          BY <1>1, <1>2, <1>7, <1>8, <3>1, <3>2, <4>1 DEF Shows
        <4>. QED  BY <1>1, <1>3, <4>2
      <3>3. CASE m # n + 1
        <4>1. m \in 1 .. n
          BY <1>1, <3>3
        <4>2. cs[m] = ds[m]
          BY <1>1, <1>3, <4>1
        <4>. QED  BY <1>1, <3>1, <4>1, <4>2
      <3>. QED  BY <3>2, <3>3
    <2>. QED  BY <2>1, <2>2
  <1>11. GuideOf(ds, day, k + 1)
    BY <1>2, <1>3, <1>5, <1>8, <1>9, <1>10 DEF GuideOf
  <1>. QED  BY <1>11 DEF ds, d

-----------------------------------------------------------------------------
(* The steps. *)

\* Until the split is over nothing is projected and the day's list is empty.
LEMMA BeforeTheGuide ==
    ASSUME TInv, GuideInv, Walk \/ DefaultStep \/ BlockStep \/ Placing
    PROVE  GuideInv'
  <1>1. UNCHANGED passVars /\ {pc, pc'} \cap {"guide", "done"} = {}
    <2>1. CASE Walk
      BY <2>1 DEF Walk, EnterDefault, DefaultFails, SkipGap, EnterBlock, BlockFails, EndWalk,
                  Fail, Walking
    <2>2. CASE DefaultStep
      BY <2>2 DEF DefaultStep, DefaultPlace, DefaultReject, DefaultDone, LeaveDefault
    <2>3. CASE BlockStep
      BY <2>3 DEF BlockStep, PickMain, ZeroInterval, NextChunk, EndMains, StartFill,
                  FillPool, EndFill, LeaveBlock, Fail, Deciding
    <2>4. CASE Placing
      <3>1. KeepBlock /\ InBlock
        BY <2>4, PlacingLays, NowType
      <3>. QED  BY <3>1 DEF KeepBlock, InBlock
    <2>. QED  BY <2>1, <2>2, <2>3, <2>4
  <1>. QED  BY <1>1 DEF GuideInv, passVars

LEMMA SplitGuide ==
    ASSUME TInv, MidnightInv, GuideInv, SplitNext
    PROVE  GuideInv'
  <1>1. /\ pc = "split" /\ pc' = pc /\ items # << >> /\ UNCHANGED <<programmes, current>>
        /\ final' = final \o SplitOf(Head(items))
    BY DEF SplitNext, SplitOf
  <1>2. Head(items) \in Sound
    BY <1>1, TailFacts DEF MidnightInv
  <1>3. final' \in Seq(Forward)
    BY <1>1, <1>2, SplitForward, ConcatSound DEF GuideInv
  <1>. QED  BY <1>1, <1>3 DEF GuideInv

LEMMA GuideBegins ==
    ASSUME TInv, GuideInv, EndSplit
    PROVE  GuideInv'
  <1>1. /\ pc = "split" /\ pc' = "guide" /\ items' = final
        /\ UNCHANGED <<final, programmes, current>>
    BY DEF EndSplit, passVars
  <1>2. programmes' = << >> /\ current' = << >> /\ Len(final) \in Nat
    BY <1>1 DEF GuideInv
  <1>3. Seen' = 0 /\ Shown' = << >>
    BY <1>1, <1>2 DEF Seen, Shown
  <1>4. GuideOf(<< >>, final, 0)
    BY DEF GuideOf
  <1>5. GuideOf(Shown, final, Seen)'
    BY <1>1, <1>3, <1>4
  <1>. QED  BY <1>1, <1>2, <1>3, <1>5 DEF GuideInv

LEMMA GuideGoesOn ==
    ASSUME TInv, GuideInv, GuideNext
    PROVE  GuideInv'
  <1>1. /\ pc = "guide" /\ pc' = pc /\ items # << >> /\ items' = Tail(items)
        /\ final' = final
    BY DEF GuideNext
  <1>2. PICK k \in Nat : k = Seen
    BY <1>1 DEF GuideInv
  <1>3. PICK s \in Segment : s = Head(items)
    BY <1>1, TailFacts DEF TInv, TypeOK
  <1>4. /\ k + 1 <= Len(final) /\ s = final[k + 1] /\ Seen' = k + 1
        /\ Len(items') \in Nat
        /\ \A i \in 1 .. Len(items') : items'[i] = final'[k + 1 + i]
    <2>1. /\ items \in Seq(Segment) /\ final \in Seq(Segment)
          /\ k = Len(final) - Len(items)
          /\ \A i \in 1 .. Len(items) : items[i] = final[k + i]
      BY <1>1, <1>2 DEF GuideInv, TInv, TypeOK, Seen
    <2>2. /\ Len(items) \in Nat \ {0} /\ Len(items') = Len(items) - 1 /\ items[1] = s
          /\ \A i \in 1 .. Len(items') : items'[i] = items[i + 1]
      BY <1>1, <1>3, <2>1
    <2>3. k + 1 <= Len(final) /\ s = final[k + 1] /\ Seen' = k + 1
      BY <1>1, <2>1, <2>2 DEF Seen
    <2>4. ASSUME NEW i \in 1 .. Len(items') PROVE items'[i] = final'[k + 1 + i]
      <3>1. i + 1 \in 1 .. Len(items) /\ k + (i + 1) = k + 1 + i
        BY <2>2
      <3>. QED  BY <1>1, <2>1, <2>2, <3>1
    <2>. QED  BY <2>1, <2>2, <2>3, <2>4
  <1>5. /\ programmes \in Seq(ProgrammeType) /\ current \in Seq(ProgrammeType)
        /\ Len(current) <= 1 /\ (current = << >> => programmes = << >>)
        /\ Tidy => TidyDay(final) /\ GuideOf(programmes \o current, final, k)
    BY <1>1, <1>2 DEF GuideInv, TInv, TypeOK, Shown, Tidy, TidyDay
  <1>6. final \in Seq(Forward)
    BY DEF GuideInv
  <1>7. /\ Len(current') <= 1
        /\ current' = << >> => programmes' = << >>
        /\ Tidy => GuideOf(programmes' \o current', final, k + 1)
    <2>1. CASE /\ current # << >> /\ programmes' = programmes
               /\ current' = <<[current[1] EXCEPT !.finish = s.finish]>>
               /\ IsFiller(s) \/ s.gran = "per_block"
      <3>1. PICK c \in ProgrammeType : current = <<c>>
        BY <1>5, <2>1
      <3> DEFINE d == [c EXCEPT !.finish = s.finish]
      <3>2. current' = <<d>> /\ programmes \o current = Append(programmes, c)
        BY <1>5, <2>1, <3>1
      <3>3. Tidy => GuideOf(Append(programmes, d), final, k + 1)
        BY <1>4, <1>5, <1>6, <2>1, <3>2, Joins
      <3>. HIDE DEF d
      <3>4. programmes \o <<d>> = Append(programmes, d)
        BY <1>5
      <3>5. Len(<<d>>) = 1 /\ <<d>> # << >>
        OBVIOUS
      <3>6. programmes' \o current' = Append(programmes, d)
        BY <2>1, <3>2, <3>4
      <3>7. Len(current') <= 1 /\ current' # << >>
        BY <3>2, <3>5
      <3>. QED  BY <3>3, <3>6, <3>7
    <2>2. CASE current = << >> /\ IsFiller(s) /\ UNCHANGED <<programmes, current>>
      <3>1. programmes \o current = << >> /\ programmes' \o current' = << >>
        BY <1>5, <2>2
      <3>. QED  BY <1>4, <1>5, <2>2, <3>1, Skips
    <2>3. CASE programmes' = programmes \o current /\ current' = <<Programme(s)>>
      <3> DEFINE p == Programme(s)
                 ps == programmes \o current
      <3>1. ps \in Seq(ProgrammeType) /\ p \in ProgrammeType
        BY <1>5, ProgrammesType
      <3>2. Tidy => GuideOf(Append(ps, p), final, k + 1)
        BY <1>4, <1>5, <1>6, <3>1, Opens
      <3>3. current' = <<p>> /\ programmes' = ps
        BY <2>3
      <3>. HIDE DEF p, ps
      <3>4. ps \o <<p>> = Append(ps, p)
        BY <3>1
      <3>5. Len(<<p>>) = 1 /\ <<p>> # << >>
        OBVIOUS
      <3>6. programmes' \o current' = Append(ps, p)
        BY <3>3, <3>4
      <3>7. Len(current') <= 1 /\ current' # << >>
        BY <3>3, <3>5
      <3>. QED  BY <3>2, <3>6, <3>7
    <2>. QED  BY <1>3, <2>1, <2>2, <2>3 DEF GuideNext
  <1>8. Tidy' = Tidy
    BY <1>1 DEF Tidy
  <1>9. Tidy' => GuideOf(Shown, final, Seen)'
    BY <1>1, <1>4, <1>7, <1>8 DEF Shown
  <1>10. /\ Seen' \in 0 .. Len(final')
         /\ \A i \in 1 .. Len(items') : items'[i] = final'[Seen' + i]
    BY <1>1, <1>4, <1>6
  <1>. QED  BY <1>1, <1>6, <1>7, <1>9, <1>10 DEF GuideInv

LEMMA GuideEnds ==
    ASSUME TInv, GuideInv, EndGuide
    PROVE  GuideInv'
  <1>1. /\ pc = "guide" /\ pc' = "done" /\ items = << >> /\ final' = final
        /\ programmes' = programmes \o current /\ current' = << >>
    BY DEF EndGuide
  <1>2. Seen = Len(final)
    BY <1>1 DEF GuideInv, Seen
  <1>3. Tidy => GuideOf(programmes', final', Len(final'))
    BY <1>1, <1>2 DEF GuideInv, Shown
  <1>. QED  BY <1>1, <1>3 DEF GuideInv, Tidy

LEMMA GuideStep == TInv /\ MidnightInv /\ GuideInv /\ [Next]_vars => GuideInv'
  <1>. SUFFICES ASSUME TInv, MidnightInv, GuideInv, [Next]_vars PROVE GuideInv'
    OBVIOUS
  <1>1. CASE UNCHANGED vars
    BY <1>1 DEF vars, walkVars, passVars, GuideInv, Seen, Shown, Tidy
  <1>. QED
    BY <1>1, BeforeTheGuide, SplitGuide, GuideBegins, GuideGoesOn, GuideEnds DEF Next, Passes

LEMMA MidnightInvariant == Spec => [](TInv /\ FillInv /\ MidnightInv)
  <1>1. Init => MidnightInv
    BY EmptySeqs DEF Init, MidnightInv
  <1>. QED  BY <1>1, MidnightStep, FillInvariant, PTL DEF Spec

\* The guide of a day without overlaps is the day: programmes in a row, and
\* every main inside one.
THEOREM GuideIsTheDay == Spec => []GuideMatchesAir
  <1>1. Init => GuideInv
    <2>. SUFFICES ASSUME Init PROVE GuideInv
      OBVIOUS
    <2>1. final = << >> /\ programmes = << >> /\ current = << >> /\ pc \notin {"guide", "done"}
      BY DEF Init
    <2>. QED  BY <2>1 DEF GuideInv
  <1>2. GuideInv => GuideMatchesAir
    <2>. SUFFICES ASSUME GuideOf(programmes, final, Len(final)), final \in Seq(Forward)
                  PROVE  /\ \A m \in 1 .. Len(programmes) - 1 :
                               programmes[m].finish <= programmes[m + 1].start
                         /\ \A i \in Mains : \E m \in DOMAIN programmes :
                               /\ programmes[m].start <= final[i].start
                               /\ final[i].finish <= programmes[m].finish
                               /\ \/ final[i].gran = "per_block"
                                  \/ programmes[m].of = final[i].item.of
                                     /\ programmes[m].no = final[i].item.no
      BY DEF GuideMatchesAir, GuideInv
    <2>. QED  BY SMTT(60) DEF GuideOf, Shows, Mains
  <1>. QED  BY <1>1, <1>2, GuideStep, MidnightInvariant, PTL DEF Spec

=============================================================================

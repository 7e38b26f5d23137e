--------------------------- MODULE ChannelProofs ----------------------------
(***************************************************************************)
(* Proofs about Channel, for every script, query, library and schedule:    *)
(* one inductive invariant says where a run is, what its script and plan   *)
(* still promise, what the calls of _eval hold, and what the cache, the    *)
(* lists of the resolver and the slots of the days planned so far are.     *)
(***************************************************************************)
EXTENDS Channel, QueryProofs, FiniteSetTheorems

-----------------------------------------------------------------------------
(* The inductive invariant. *)

IsSeq(s) == s \in Seq(ToSet(s))

\* Every statement about a block is followed by the end of its schedule.
ScriptOK ==
    /\ IsSeq(script)
    /\ \A i \in DOMAIN script :
          script[i].verb = "block" =>
              /\ DOMAIN script[i].variants \subseteq VariantNames
              /\ \E j \in i + 1 .. Len(script) : script[j].verb = "end"

EndsToCome == \E j \in DOMAIN script : script[j].verb = "end"

GoodBlock(b) == BlockOK(b) /\ DOMAIN b.variants \subseteq VariantNames

GoodPlan(p) ==
    /\ DOMAIN p = DOMAIN EmptyPlan /\ p.scheduled \in BOOLEAN
    /\ IsSeq(p.collections) /\ IsSeq(p.fillers)
    /\ IsSeq(p.blocks) /\ \A i \in DOMAIN p.blocks : GoodBlock(p.blocks[i])

\* A schedule once closed has no two blocks for one slot, or another end
\* comes, which is refused.
PlanOK ==
    /\ GoodPlan(plan) /\ IsSeq(queries)
    /\ plan.scheduled => NoDuplicates(plan.blocks) \/ EndsToCome

\* Where the run is.
Phases ==
    /\ loading # "loaded" =>
          /\ resolving = "idle" /\ queries = <<>> /\ pools = <<>> /\ cache = <<>>
          /\ frames = <<>>
    /\ loading = "loaded" => resolving # "idle" /\ script = <<>> /\ plan.scheduled
    /\ resolving # "done" => outcome = "planning" /\ slots = <<>>
    /\ resolving \in {"calling", "asking", "returning"} =>
          Len(pools) < Len(queries) /\ ~Cached(Expression)

\* The calls of _eval under way.  Only the innermost may be a NOT with
\* nothing to take it from, and it is about to raise.
IsFrame(f) ==
    /\ DOMAIN f = {"expr", "bound", "near", "left"}
    /\ f.bound = NoList \/ f.bound \in Seq(Items)
    /\ f.left = NoList \/ f.left \in Seq(Items)
    /\ f.near # <<>> => f.expr.op = "and"

Bounded(f) == f.expr.op = "not" => f.bound # NoList

GoodCalls(calls, where) ==
    /\ IsSeq(calls)
    /\ \A n \in DOMAIN calls :
          /\ IsFrame(calls[n])
          /\ (n = 1 /\ where \in {"calling", "unbounded"}) \/ Bounded(calls[n])
    /\ where \in {"calling", "asking"} => calls # <<>>
    /\ where = "asking" => Head(calls).near # <<>> \/ Head(calls).expr.op = "atom"

CallsOK == GoodCalls(frames, resolving)

\* What the resolver has answered it answers again.
CacheServes ==
    \A k \in DOMAIN pools :
        /\ ParseQuery(queries[k]) \in DOMAIN cache
        /\ cache[ParseQuery(queries[k])] = pools[k]

\* A page begins behind what the pages before it brought.
PageAhead ==
    \A j \in DOMAIN Listing(Asked) :
        Listing(Asked)[j] \in ToSet(page.got) => j <= page.start

OnceIn(list) == list = NoList \/ IsInjective(list)

OnceCalls(calls) ==
    \A n \in DOMAIN calls : OnceIn(calls[n].bound) /\ OnceIn(calls[n].left)

ListsOnce ==
    /\ IsInjective(shelf)
    /\ come = {} =>
          /\ \A k \in DOMAIN pools : IsInjective(pools[k])
          /\ \A e \in DOMAIN cache : IsInjective(cache[e])
          /\ OnceCalls(frames) /\ IsInjective(found) /\ IsInjective(page.got)
          /\ resolving = "asking" /\ page.asking = "items" => PageAhead

\* The slots of a day planned are its blocks, each with a key that is one of
\* its selector's.
SlotsOK ==
    /\ IsSeq(slots)
    /\ \A d \in DOMAIN slots :
          /\ DOMAIN slots[d] = DOMAIN Active(plan.blocks, Day(d))
          /\ \A i \in DOMAIN slots[d] :
                LET b == Active(plan.blocks, Day(d))[i] IN
                /\ slots[d][i].block = b
                /\ slots[d][i].key \in Keys(b, Day(d)) \ {Raises}

Inv == /\ TypeOK /\ Phases /\ ScriptOK /\ PlanOK /\ CallsOK /\ CacheServes /\ ListsOnce
       /\ SlotsOK /\ FailuresHaveAReason

-----------------------------------------------------------------------------
(* Sequences of whatever there is in them. *)

LEMMA IsSeqFacts ==
    ASSUME NEW s, IsSeq(s)
    PROVE  Len(s) \in Nat /\ DOMAIN s = 1 .. Len(s) /\ \A n \in DOMAIN s : s[n] \in ToSet(s)
  BY DEF IsSeq, ToSet

LEMMA SeqIsSeq ==
    ASSUME NEW T, NEW s \in Seq(T)
    PROVE  IsSeq(s) /\ DOMAIN s = 1 .. Len(s) /\ Len(s) \in Nat /\ ToSet(s) \subseteq T
  <1>1. DOMAIN s = 1 .. Len(s) /\ Len(s) \in Nat /\ \A n \in 1 .. Len(s) : s[n] \in T
    OBVIOUS
  <1>2. \A n \in 1 .. Len(s) : s[n] \in ToSet(s)
    BY <1>1 DEF ToSet
  <1>3. s = [n \in 1 .. Len(s) |-> s[n]]
    OBVIOUS
  <1>4. s \in [1 .. Len(s) -> ToSet(s)]
    BY <1>2, <1>3
  <1>5. s \in Seq(ToSet(s))
    BY <1>1, <1>4
  <1>. QED  BY <1>1, <1>5 DEF IsSeq, ToSet

LEMMA TailFacts ==
    ASSUME NEW s, IsSeq(s), s # <<>>
    PROVE  /\ IsSeq(Tail(s)) /\ Len(Tail(s)) = Len(s) - 1
           /\ \A n \in DOMAIN Tail(s) : n + 1 \in DOMAIN s /\ Tail(s)[n] = s[n + 1]
           /\ 1 \in DOMAIN s /\ Head(s) = s[1] /\ DOMAIN Tail(s) = 1 .. Len(s) - 1
  <1>1. Tail(s) \in Seq(ToSet(s)) /\ Len(Tail(s)) = Len(s) - 1
        /\ \A n \in 1 .. Len(Tail(s)) : Tail(s)[n] = s[n + 1]
    BY HeadTailProperties DEF IsSeq
  <1>2. IsSeq(Tail(s)) /\ DOMAIN Tail(s) = 1 .. Len(Tail(s))
    BY <1>1, SeqIsSeq
  <1>3. Len(s) \in Nat /\ Len(s) # 0 /\ DOMAIN s = 1 .. Len(s) /\ Head(s) = s[1]
    BY DEF IsSeq
  <1>. HIDE DEF IsSeq
  <1>. QED  BY <1>1, <1>2, <1>3

LEMMA ConsFacts ==
    ASSUME NEW s, IsSeq(s), NEW e
    PROVE  /\ IsSeq(Cons(e, s)) /\ Cons(e, s) # <<>>
           /\ Head(Cons(e, s)) = e /\ Cons(e, s)[1] = e /\ Tail(Cons(e, s)) = s
           /\ \A n \in DOMAIN Cons(e, s) : n = 1 \/ (n - 1 \in DOMAIN s /\ Cons(e, s)[n] = s[n - 1])
  <1> DEFINE T == ToSet(s) \cup {e}
             c == Cons(e, s)
  <1>1. s \in Seq(T) /\ <<e>> \in Seq(T) /\ Len(<<e>>) = 1 /\ <<e>>[1] = e
    BY DEF IsSeq
  <1>. HIDE DEF T
  <1>2. /\ c \in Seq(T) /\ Len(c) = 1 + Len(s)
        /\ \A i \in 1 .. 1 + Len(s) : c[i] = IF i <= 1 THEN <<e>>[i] ELSE s[i - 1]
    BY <1>1, ConcatProperties DEF Cons
  <1>. HIDE DEF c
  <1>3. IsSeq(c) /\ DOMAIN c = 1 .. 1 + Len(s) /\ DOMAIN s = 1 .. Len(s) /\ Len(s) \in Nat
    BY <1>1, <1>2, SeqIsSeq
  <1>4. c # <<>> /\ c[1] = e
    BY <1>1, <1>2
  <1>5. Head(c) = e /\ Tail(c) \in Seq(T) /\ Len(Tail(c)) = Len(s)
    BY <1>2, <1>4
  <1>6. Tail(c) = s
    <2>1. \A i \in 1 .. Len(s) : Tail(c)[i] = c[i + 1] /\ c[i + 1] = s[i]
      BY <1>2, <1>3, <1>4, <1>5, HeadTailProperties
    <2>. QED  BY <1>1, <1>5, <2>1, SeqEqual
  <1>7. \A n \in DOMAIN c : n = 1 \/ (n - 1 \in DOMAIN s /\ c[n] = s[n - 1])
    BY <1>2, <1>3
  <1>. QED  BY <1>3, <1>4, <1>5, <1>6, <1>7 DEF c

LEMMA AppendIsSeq ==
    ASSUME NEW s, IsSeq(s), NEW e
    PROVE  /\ IsSeq(Append(s, e)) /\ Len(Append(s, e)) = Len(s) + 1
           /\ DOMAIN Append(s, e) = 1 .. Len(s) + 1
           /\ \A n \in DOMAIN s : Append(s, e)[n] = s[n]
           /\ Append(s, e)[Len(s) + 1] = e
           /\ ToSet(Append(s, e)) = ToSet(s) \cup {e}
  <1> DEFINE T == ToSet(s) \cup {e}
  <1>1. s \in Seq(T) /\ e \in T /\ DOMAIN s = 1 .. Len(s)
    BY DEF IsSeq
  <1>. HIDE DEF T
  <1>2. /\ Append(s, e) \in Seq(T) /\ Len(Append(s, e)) = Len(s) + 1
        /\ \A i \in 1 .. Len(s) : Append(s, e)[i] = s[i]
        /\ Append(s, e)[Len(s) + 1] = e
        /\ ToSet(Append(s, e)) = ToSet(s) \cup {e}
    BY <1>1, AppendFacts
  <1>. QED  BY <1>1, <1>2, SeqIsSeq

-----------------------------------------------------------------------------
(* The stack of calls. *)

LEMMA PushCall ==
    ASSUME NEW calls, IsSeq(calls), \A n \in DOMAIN calls : IsFrame(calls[n]) /\ Bounded(calls[n]),
           NEW f, IsFrame(f)
    PROVE  GoodCalls(Cons(f, calls), "calling")
  <1> DEFINE c == Cons(f, calls)
  <1>1. /\ IsSeq(c) /\ c # <<>> /\ c[1] = f
        /\ \A n \in DOMAIN c : n = 1 \/ (n - 1 \in DOMAIN calls /\ c[n] = calls[n - 1])
    BY ConsFacts
  <1>. HIDE DEF c
  <1>2. GoodCalls(c, "calling")
    BY <1>1 DEF GoodCalls
  <1>. QED  BY <1>2 DEF c

LEMMA TailCalls ==
    ASSUME NEW calls, NEW where, GoodCalls(calls, where), calls # <<>>
    PROVE  /\ IsSeq(Tail(calls))
           /\ \A n \in DOMAIN Tail(calls) : IsFrame(Tail(calls)[n]) /\ Bounded(Tail(calls)[n])
           /\ IsFrame(Head(calls))
           /\ where \notin {"calling", "unbounded"} => Bounded(Head(calls))
  <1>1. /\ IsSeq(Tail(calls))
        /\ \A n \in DOMAIN Tail(calls) : n + 1 \in DOMAIN calls /\ Tail(calls)[n] = calls[n + 1]
        /\ 1 \in DOMAIN calls /\ Head(calls) = calls[1]
        /\ \A n \in DOMAIN Tail(calls) : n \in Nat /\ n # 0
    BY TailFacts DEF GoodCalls
  <1>2. ASSUME NEW n \in DOMAIN Tail(calls)
        PROVE  IsFrame(Tail(calls)[n]) /\ Bounded(Tail(calls)[n])
    <2>1. n + 1 # 1
      BY <1>1
    <2>. QED  BY <1>1, <2>1 DEF GoodCalls
  <1>3. IsFrame(Head(calls)) /\ (where \notin {"calling", "unbounded"} => Bounded(Head(calls)))
    BY <1>1 DEF GoodCalls
  <1>. QED  BY <1>1, <1>2, <1>3

LEMMA TailIsGood ==
    ASSUME NEW calls, IsSeq(calls), \A n \in DOMAIN calls : IsFrame(calls[n]) /\ Bounded(calls[n])
    PROVE  GoodCalls(calls, "returning")
  BY DEF GoodCalls

LEMMA GoodCallsStay ==
    ASSUME NEW calls, NEW where, GoodCalls(calls, where), where \notin {"calling", "unbounded"},
           NEW then, then \notin {"calling", "asking"}
    PROVE  GoodCalls(calls, then)
  BY DEF GoodCalls

LEMMA NewFrame ==
    ASSUME NEW e, NEW bound, bound = NoList \/ bound \in Seq(Items)
    PROVE  IsFrame(Frame(e, bound))
  <1>1. NearBounds(e) # <<>> => e.op = "and"
    BY DEF NearBounds
  <1> DEFINE near == NearBounds(e)
  <1>2. near # <<>> => e.op = "and"
    BY <1>1
  <1>. HIDE DEF near
  <1>3. Frame(e, bound) = [expr |-> e, bound |-> bound, near |-> near, left |-> NoList]
    BY DEF Frame, near
  <1>. QED  BY <1>2, <1>3 DEF IsFrame

\* What an atom's answer makes of the call that asked.
Narrowed(f, items) ==
    [f EXCEPT !.near = Tail(@), !.bound = IF @ = NoList THEN items ELSE Kept(@, ToSet(items))]

LEMMA NarrowedFrame ==
    ASSUME NEW f, IsFrame(f), f.near # <<>>, NEW items \in Seq(Items)
    PROVE  /\ IsFrame(Narrowed(f, items))
           /\ Narrowed(f, items).expr = f.expr /\ Narrowed(f, items).left = f.left
           /\ Narrowed(f, items).near = Tail(f.near)
           /\ Narrowed(f, items).bound
                 = (IF f.bound = NoList THEN items ELSE Kept(f.bound, ToSet(items)))
  <1>1. f.expr.op = "and"
    BY DEF IsFrame
  <1> DEFINE bound == IF f.bound = NoList THEN items ELSE Kept(f.bound, ToSet(items))
             g     == Narrowed(f, items)
  <1>2. bound \in Seq(Items)
    BY KeptFacts DEF IsFrame
  <1>. HIDE DEF bound
  <1>3. g = [f EXCEPT !.near = Tail(@), !.bound = bound]
    BY DEF bound, Narrowed
  <1>. HIDE DEF g
  <1>4. /\ DOMAIN g = {"expr", "bound", "near", "left"}
        /\ g.expr = f.expr /\ g.left = f.left /\ g.bound = bound /\ g.near = Tail(f.near)
    BY <1>3 DEF IsFrame
  <1>5. IsFrame(g)
    BY <1>1, <1>2, <1>4 DEF IsFrame
  <1>. QED  BY <1>4, <1>5 DEF bound, g

LEMMA AnsweredFacts ==
    ASSUME CallsOK, resolving = "asking", found \in Seq(Items),
           NEW items, items \in Seq(Items), Answered(items)
    PROVE  /\ CallsOK' /\ found' \in Seq(Items) /\ page' = NoPage
           /\ resolving' \in {"calling", "returning"}
           /\ UNCHANGED <<queries, pools, cache>>
  <1>1. GoodCalls(frames, "asking") /\ frames # <<>>
        /\ (Top.near # <<>> \/ Top.expr.op = "atom")
    BY DEF CallsOK, GoodCalls, Top
  <1>2. /\ IsSeq(Tail(frames))
        /\ \A n \in DOMAIN Tail(frames) : IsFrame(Tail(frames)[n]) /\ Bounded(Tail(frames)[n])
        /\ IsFrame(Top) /\ Bounded(Top)
    BY <1>1, TailCalls DEF Top
  <1>3. CASE Top.near # <<>>
    <2> DEFINE g == Narrowed(Top, items)
    <2>1. IsFrame(g)
      BY <1>2, <1>3, NarrowedFrame
    <2>2. frames' = Cons(g, Tail(frames)) /\ resolving' = "calling" /\ found' = found
      BY <1>3 DEF Answered, Narrowed
    <2>. HIDE DEF g
    <2>3. GoodCalls(frames', resolving')
      BY <1>2, <2>1, <2>2, PushCall
    <2>. QED  BY <2>2, <2>3 DEF CallsOK, Answered
  <1>4. CASE ~(Top.near # <<>>)
    <2>1. frames' = Tail(frames) /\ found' = Within(items, Top.bound) /\ resolving' = "returning"
      BY <1>4 DEF Answered, Return
    <2>2. Within(items, Top.bound) \in Seq(Items)
      BY KeptFacts DEF Within
    <2>3. GoodCalls(Tail(frames), "returning")
      <3>1. PICK rest : rest = Tail(frames)
        OBVIOUS
      <3>2. GoodCalls(rest, "returning")
        BY <1>2, <3>1, TailIsGood
      <3>. QED  BY <3>1, <3>2
    <2>4. GoodCalls(frames', resolving')
      BY <2>1, <2>3
    <2>. QED  BY <2>1, <2>2, <2>4 DEF CallsOK, Answered
  <1>. QED  BY <1>3, <1>4

LEMMA CalledFacts ==
    ASSUME NEW rest, IsSeq(rest), \A n \in DOMAIN rest : IsFrame(rest[n]) /\ Bounded(rest[n]),
           IsFrame(Top), NEW e, Calls(rest, e)
    PROVE  CallsOK'
  <1>1. frames' = Cons(Frame(e, Top.bound), rest) /\ resolving' = "calling"
    BY DEF Calls
  <1>2. IsFrame(Frame(e, Top.bound))
    BY NewFrame DEF IsFrame
  <1>3. GoodCalls(frames', resolving')
    BY <1>1, <1>2, PushCall
  <1>. QED  BY <1>3 DEF CallsOK

\* All frames below the innermost, and it too if it need not raise.
LEMMA AllCalls ==
    ASSUME CallsOK, frames # <<>>
    PROVE  /\ IsSeq(frames) /\ IsSeq(Tail(frames)) /\ IsFrame(Top)
           /\ \A n \in DOMAIN Tail(frames) : IsFrame(Tail(frames)[n]) /\ Bounded(Tail(frames)[n])
           /\ resolving \notin {"calling", "unbounded"} => Bounded(Top)
           /\ Bounded(Top) => \A n \in DOMAIN frames : IsFrame(frames[n]) /\ Bounded(frames[n])
  <1>1. /\ IsSeq(Tail(frames)) /\ IsFrame(Top)
        /\ \A n \in DOMAIN Tail(frames) : IsFrame(Tail(frames)[n]) /\ Bounded(Tail(frames)[n])
        /\ resolving \notin {"calling", "unbounded"} => Bounded(Top)
    BY TailCalls DEF CallsOK, Top
  <1>2. IsSeq(frames) /\ Top = frames[1]
    BY TailFacts DEF CallsOK, GoodCalls, Top
  <1>3. Bounded(Top) => \A n \in DOMAIN frames : IsFrame(frames[n]) /\ Bounded(frames[n])
    BY <1>2 DEF CallsOK, GoodCalls
  <1>. QED  BY <1>1, <1>2, <1>3

LEMMA EvalStep ==
    ASSUME CallsOK, found \in Seq(Items), EvalLeft \/ EvalRight \/ EvalNot \/ Combine
    PROVE  CallsOK' /\ found' \in Seq(Items)
  <1>1. CASE EvalLeft
    <2>1. frames # <<>> /\ Bounded(Top) /\ Calls(frames, Top.expr.left)
      BY <1>1 DEF EvalLeft, CallsOK, GoodCalls, Bounded
    <2>2. CallsOK'
      BY <2>1, AllCalls, CalledFacts
    <2>. QED  BY <2>1, <2>2 DEF Calls
  <1>2. CASE EvalRight
    <2> DEFINE g == [Top EXCEPT !.left = found]
    <2>1. /\ frames # <<>> /\ resolving = "returning" /\ Top.expr.op \in {"and", "or"}
          /\ Calls(Cons(g, Tail(frames)), Top.expr.right)
      BY <1>2 DEF EvalRight
    <2>2. IsFrame(Top) /\ Bounded(Top) /\ IsSeq(Tail(frames))
          /\ \A n \in DOMAIN Tail(frames) : IsFrame(Tail(frames)[n]) /\ Bounded(Tail(frames)[n])
      BY <2>1, AllCalls
    <2>3. IsFrame(g) /\ Bounded(g)
      BY <2>2 DEF IsFrame, Bounded
    <2>. HIDE DEF g
    <2>4. IsSeq(Cons(g, Tail(frames)))
          /\ \A n \in DOMAIN Cons(g, Tail(frames)) :
                IsFrame(Cons(g, Tail(frames))[n]) /\ Bounded(Cons(g, Tail(frames))[n])
      <3>1. PICK rest : rest = Tail(frames)
        OBVIOUS
      <3>2. IsSeq(rest) /\ \A n \in DOMAIN rest : IsFrame(rest[n]) /\ Bounded(rest[n])
        BY <2>2, <3>1
      <3>3. /\ IsSeq(Cons(g, rest)) /\ Cons(g, rest)[1] = g
            /\ \A n \in DOMAIN Cons(g, rest) :
                  n = 1 \/ (n - 1 \in DOMAIN rest /\ Cons(g, rest)[n] = rest[n - 1])
        BY <3>2, ConsFacts
      <3>4. \A n \in DOMAIN Cons(g, rest) : IsFrame(Cons(g, rest)[n]) /\ Bounded(Cons(g, rest)[n])
        BY <2>3, <3>2, <3>3
      <3>. QED  BY <3>1, <3>3, <3>4
    <2>5. CallsOK'
      BY <2>1, <2>2, <2>4, CalledFacts
    <2>. QED  BY <2>1, <2>5 DEF Calls
  <1>3. CASE EvalNot
    <2>1. frames # <<>> /\ Bounded(Top) /\ Calls(frames, Top.expr.expr)
      BY <1>3 DEF EvalNot, CallsOK, GoodCalls, Bounded
    <2>2. CallsOK'
      BY <2>1, AllCalls, CalledFacts
    <2>. QED  BY <2>1, <2>2 DEF Calls
  <1>4. CASE Combine
    <2>1. frames # <<>> /\ resolving = "returning"
      BY <1>4 DEF Combine
    <2>2. IsFrame(Top) /\ Bounded(Top) /\ IsSeq(Tail(frames))
          /\ \A n \in DOMAIN Tail(frames) : IsFrame(Tail(frames)[n]) /\ Bounded(Tail(frames)[n])
      BY <2>1, AllCalls
    <2>3. frames' = Tail(frames) /\ resolving' = "returning"
      BY <1>4 DEF Combine, Return
    <2>4. CallsOK'
      <3>1. PICK rest : rest = Tail(frames)
        OBVIOUS
      <3>2. GoodCalls(rest, "returning")
        BY <2>2, <3>1, TailIsGood
      <3>. QED  BY <2>3, <3>1, <3>2 DEF CallsOK
    <2>5. found' \in Seq(Items)
      <3>1. CASE Top.expr.op = "not" /\ Return(Kept(Top.bound, ToSet(Top.bound) \ ToSet(found)))
        BY <2>2, <3>1, KeptFacts DEF Return, IsFrame, Bounded
      <3>2. CASE Top.left # NoList /\ Return(Kept(Top.left, ToSet(found)))
        BY <2>2, <3>2, KeptFacts DEF Return, IsFrame
      <3>3. CASE Top.left # NoList /\ Return(Once(Top.left \o found))
        BY <2>2, <3>3, JoinFacts, OnceFacts DEF Return, IsFrame
      <3>. QED  BY <1>4, <3>1, <3>2, <3>3 DEF Combine
    <2>. QED  BY <2>4, <2>5
  <1>. QED  BY <1>1, <1>2, <1>3, <1>4

-----------------------------------------------------------------------------
(* The script and the plan. *)

\* What every verb does.
Declared ==
    /\ loading = "running" /\ script # <<>>
    /\ \/ script' = Tail(script) /\ UNCHANGED loading
       \/ loading' = "refused" /\ UNCHANGED <<plan, script>>
    /\ UNCHANGED <<first, slots, outcome, resolverVars>>

LEMMA RunsDeclares ==
    ASSUME NEW verb, NEW checks, NEW newPlan, Runs(verb, checks, newPlan)
    PROVE  Declared /\ Head(script).verb = verb
           /\ (\/ UNCHANGED <<plan, script>>
               \/ checks /\ plan' = newPlan /\ script' = Tail(script))
  BY DEF Runs, Declared

LEMMA LoadDeclares ==
    ASSUME Load
    PROVE  Declared \/ EndOfScript
  <1>1. DeclareChannel => Declared
    BY RunsDeclares DEF DeclareChannel
  <1>2. DeclareCollection => Declared
    BY RunsDeclares DEF DeclareCollection
  <1>3. DeclareFiller => Declared
    BY RunsDeclares DEF DeclareFiller
  <1>4. DeclareLayout => Declared
    BY RunsDeclares DEF DeclareLayout
  <1>5. DeclareBlock => Declared
    BY RunsDeclares DEF DeclareBlock
  <1>6. DeclareDefaultBlock => Declared
    BY RunsDeclares DEF DeclareDefaultBlock
  <1>7. EndOfSchedule => Declared
    BY RunsDeclares DEF EndOfSchedule
  <1>. QED  BY <1>1, <1>2, <1>3, <1>4, <1>5, <1>6, <1>7 DEF Load

LEMMA ScriptStep ==
    ASSUME ScriptOK, Declared
    PROVE  ScriptOK'
  <1>1. CASE script' = script
    BY <1>1 DEF ScriptOK
  <1>2. CASE script' = Tail(script)
    <2>1. PICK s : s = script
      OBVIOUS
    <2>2. PICK t : t = Tail(s)
      OBVIOUS
    <2>3. /\ IsSeq(s) /\ s # <<>> /\ script' = t
          /\ \A i \in DOMAIN s :
                s[i].verb = "block" =>
                    /\ DOMAIN s[i].variants \subseteq VariantNames
                    /\ \E j \in i + 1 .. Len(s) : s[j].verb = "end"
      BY <1>2, <2>1, <2>2 DEF ScriptOK, Declared
    <2>4. /\ IsSeq(t) /\ Len(t) = Len(s) - 1 /\ DOMAIN t = 1 .. Len(s) - 1
          /\ \A n \in DOMAIN t : n + 1 \in DOMAIN s /\ t[n] = s[n + 1]
      BY <2>2, <2>3, TailFacts
    <2>5. Len(s) \in Nat /\ DOMAIN s = 1 .. Len(s)
      BY <2>3, IsSeqFacts
    <2>6. ASSUME NEW i \in DOMAIN t, t[i].verb = "block"
          PROVE  /\ DOMAIN t[i].variants \subseteq VariantNames
                 /\ \E j \in i + 1 .. Len(t) : t[j].verb = "end"
      <3>1. i + 1 \in DOMAIN s /\ t[i] = s[i + 1] /\ i \in Nat
        BY <2>4, <2>5
      <3>2. PICK j \in (i + 1) + 1 .. Len(s) : s[j].verb = "end"
        BY <2>3, <2>6, <3>1
      <3>3. j - 1 \in i + 1 .. Len(t) /\ j - 1 \in DOMAIN t /\ (j - 1) + 1 = j
        BY <2>4, <2>5, <3>1
      <3>4. t[j - 1].verb = "end"
        BY <2>4, <3>2, <3>3
      <3>. QED  BY <2>3, <2>6, <3>1, <3>3, <3>4
    <2>. QED  BY <2>3, <2>4, <2>6 DEF ScriptOK
  <1>. QED  BY <1>1, <1>2 DEF Declared

\* When a verb but "end" has run and its script went on, any end is still to
\* come.
LEMMA EndStays ==
    ASSUME IsSeq(script), script # <<>>, EndsToCome, Head(script).verb # "end", script' = Tail(script)
    PROVE  EndsToCome'
  <1>1. PICK s : s = script
    OBVIOUS
  <1>2. PICK t : t = Tail(s)
    OBVIOUS
  <1>3. IsSeq(s) /\ s # <<>> /\ s[1].verb # "end" /\ script' = t
    BY <1>1, <1>2, TailFacts
  <1>4. /\ Len(s) \in Nat /\ DOMAIN s = 1 .. Len(s) /\ DOMAIN t = 1 .. Len(s) - 1
        /\ \A n \in DOMAIN t : t[n] = s[n + 1]
    BY <1>2, <1>3, TailFacts, IsSeqFacts
  <1>5. PICK j \in DOMAIN s : s[j].verb = "end"
    BY <1>1 DEF EndsToCome
  <1>6. j - 1 \in DOMAIN t /\ (j - 1) + 1 = j
    BY <1>3, <1>4, <1>5
  <1>7. t[j - 1].verb = "end"
    BY <1>4, <1>5, <1>6
  <1>. QED  BY <1>3, <1>6, <1>7 DEF EndsToCome

\* After a statement about a block, its schedule's end is still to come.
LEMMA EndAhead ==
    ASSUME ScriptOK, script # <<>>, Head(script).verb = "block", script' = Tail(script)
    PROVE  EndsToCome' /\ DOMAIN Head(script).variants \subseteq VariantNames
  <1>1. PICK s : s = script
    OBVIOUS
  <1>2. PICK t : t = Tail(s)
    OBVIOUS
  <1>3. /\ IsSeq(s) /\ s # <<>> /\ Head(s).verb = "block" /\ script' = t
        /\ \A i \in DOMAIN s :
              s[i].verb = "block" =>
                  /\ DOMAIN s[i].variants \subseteq VariantNames
                  /\ \E j \in i + 1 .. Len(s) : s[j].verb = "end"
    BY <1>1, <1>2 DEF ScriptOK
  <1>4. /\ Len(s) \in Nat /\ DOMAIN s = 1 .. Len(s) /\ DOMAIN t = 1 .. Len(s) - 1
        /\ \A n \in DOMAIN t : t[n] = s[n + 1]
        /\ Head(s) = s[1] /\ 1 \in DOMAIN s
    BY <1>2, <1>3, TailFacts, IsSeqFacts
  <1>5. PICK j \in 1 + 1 .. Len(s) : s[j].verb = "end"
    BY <1>3, <1>4
  <1>6. j - 1 \in DOMAIN t /\ (j - 1) + 1 = j
    BY <1>4, <1>5
  <1>7. t[j - 1].verb = "end"
    BY <1>4, <1>5, <1>6
  <1>. QED  BY <1>1, <1>3, <1>4, <1>6, <1>7 DEF EndsToCome

\* Sorting blocks neither loses one nor adds one.
Between(had, e, later) == Kept(had, ToSet(had) \ later) \o <<e>> \o Kept(had, later)

LEMMA BetweenFacts ==
    ASSUME NEW T, NEW had \in Seq(T), NEW e \in T, NEW later, later \subseteq ToSet(had)
    PROVE  /\ Between(had, e, later) \in Seq(T)
           /\ ToSet(Between(had, e, later)) = ToSet(had) \cup {e}
           /\ IsInjective(had) /\ e \notin ToSet(had) => IsInjective(Between(had, e, later))
  <1> DEFINE out == Between(had, e, later)
  <1> DEFINE front == Kept(had, ToSet(had) \ later)
             back  == Kept(had, later)
             upto  == front \o <<e>>
  <1>1. /\ front \in Seq(T) /\ ToSet(front) = ToSet(had) \ later
        /\ IsInjective(had) => IsInjective(front)
        /\ back \in Seq(T) /\ ToSet(back) = later
        /\ IsInjective(had) => IsInjective(back)
    <2>1. ToSet(had) \cap (ToSet(had) \ later) = ToSet(had) \ later /\ ToSet(had) \cap later = later
      OBVIOUS
    <2>. QED  BY <2>1, KeptFacts
  <1>. HIDE DEF front, back
  <1>2. upto = Append(front, e)
    BY <1>1, AppendIsConcat
  <1>3. /\ upto \in Seq(T) /\ ToSet(upto) = ToSet(front) \cup {e}
        /\ IsInjective(front) /\ e \notin ToSet(front) => IsInjective(upto)
    <2>1. /\ Append(front, e) \in Seq(T) /\ ToSet(Append(front, e)) = ToSet(front) \cup {e}
          /\ IsInjective(front) /\ e \notin ToSet(front) => IsInjective(Append(front, e))
      BY <1>1, AppendFacts
    <2>. HIDE DEF upto
    <2>. QED  BY <1>2, <2>1
  <1>. HIDE DEF upto
  <1>4. /\ upto \o back \in Seq(T) /\ ToSet(upto \o back) = ToSet(upto) \cup ToSet(back)
        /\ IsInjective(upto) /\ IsInjective(back) /\ ToSet(upto) \cap ToSet(back) = {}
              => IsInjective(upto \o back)
    BY <1>1, <1>3, JoinFacts
  <1>5. out = upto \o back
    BY DEF upto, front, back, Between
  <1>. HIDE DEF out
  <1>6. ToSet(out) = ToSet(had) \cup {e}
    BY <1>1, <1>3, <1>4, <1>5
  <1>7. ASSUME IsInjective(had), e \notin ToSet(had) PROVE IsInjective(out)
    <2>1. ToSet(upto) \cap ToSet(back) = {}
      BY <1>1, <1>3, <1>7
    <2>2. IsInjective(upto)
      BY <1>1, <1>3, <1>7
    <2>. QED  BY <1>1, <1>4, <1>5, <1>7, <2>1, <2>2
  <1>. QED  BY <1>4, <1>5, <1>6, <1>7 DEF out

LEMMA SortedSoFar ==
    ASSUME NEW T, NEW blocks \in Seq(T)
    PROVE  \E f : /\ Sorted(blocks) = f[Len(blocks)] /\ f[0] = <<>>
                  /\ \A n \in 1 .. Len(blocks) :
                        f[n] = LET had   == f[n - 1]
                                   later == {b \in ToSet(had) : Earlier(blocks[n], b)}
                               IN  Kept(had, ToSet(had) \ later) \o <<blocks[n]>>
                                       \o Kept(had, later)
  <1> DEFINE Put(had, b) == LET later == {c \in ToSet(had) : Earlier(b, c)}
                            IN  Kept(had, ToSet(had) \ later) \o <<b>> \o Kept(had, later)
             Is(f) == f = [n \in 0 .. Len(blocks) |->
                              IF n = 0 THEN <<>>
                              ELSE LET had   == f[n - 1]
                                       later == {b \in ToSet(had) : Earlier(blocks[n], b)}
                                   IN  Kept(had, ToSet(had) \ later) \o <<blocks[n]>>
                                           \o Kept(had, later)]
             Is2(f) == f = [n \in 0 .. Len(blocks) |->
                               IF n = 0 THEN <<>> ELSE Put(f[n - 1], blocks[n])]
  <1>1. Len(blocks) \in Nat /\ \A n \in 1 .. Len(blocks) : blocks[n] \in T
    OBVIOUS
  <1>2. \A f : Is(f) <=> Is2(f)
    OBVIOUS
  <1>3. ASSUME NEW had \in Seq(T), NEW b \in T PROVE Put(had, b) \in Seq(T)
    <2>1. {c \in ToSet(had) : Earlier(b, c)} \subseteq ToSet(had)
      OBVIOUS
    <2>. QED  BY <2>1, BetweenFacts DEF Between
  <1> DEFINE step == [n \in 1 .. Len(blocks) |-> [had \in Seq(T) |-> Put(had, blocks[n])]]
  <1>. HIDE DEF Put
  <1>4. \A n \in 1 .. Len(blocks) : \A had \in Seq(T) :
           step[n][had] = Put(had, blocks[n]) /\ step[n][had] \in Seq(T)
    BY <1>1, <1>3
  <1>. HIDE DEF step
  <1>5. PICK f \in [0 .. Len(blocks) -> Seq(T)] : Unfolds(f, <<>>, step, Len(blocks))
    <2>1. <<>> \in Seq(T)
      OBVIOUS
    <2>. QED  BY <1>1, <1>4, <2>1, Recursion
  <1>6. Is2(f)
    <2>1. \A n \in 0 .. Len(blocks) :
             n = 0 \/ (n \in 1 .. Len(blocks) /\ n - 1 \in 0 .. Len(blocks))
      BY <1>1
    <2>2. \A n \in 0 .. Len(blocks) : f[n] = IF n = 0 THEN <<>> ELSE Put(f[n - 1], blocks[n])
      BY <1>4, <1>5, <2>1 DEF Unfolds
    <2>3. f = [n \in 0 .. Len(blocks) |-> f[n]]
      BY <1>5
    <2>. QED  BY <2>2, <2>3
  <1> DEFINE g == CHOOSE f_1 : Is(f_1)
  <1>7. Is(g)
    BY <1>2, <1>6
  <1>8. Sorted(blocks) = g[Len(blocks)]
    BY DEF Sorted
  <1>9. Is2(g)
    BY <1>2, <1>7
  <1>. HIDE DEF g, Is
  <1>10. g[0] = <<>>
    BY <1>1, <1>9
  <1>11. ASSUME NEW n \in 1 .. Len(blocks) PROVE g[n] = Put(g[n - 1], blocks[n])
    <2>1. n \in 0 .. Len(blocks) /\ n # 0
      BY <1>1
    <2>. QED  BY <1>9, <2>1
  <1>. QED  BY <1>8, <1>10, <1>11 DEF Put

LEMMA SortedFacts ==
    ASSUME NEW T, NEW blocks \in Seq(T)
    PROVE  /\ Sorted(blocks) \in Seq(T)
           /\ ToSet(Sorted(blocks)) = ToSet(blocks)
           /\ IsInjective(blocks) => IsInjective(Sorted(blocks))
  <1>1. Len(blocks) \in Nat /\ DOMAIN blocks = 1 .. Len(blocks)
        /\ \A n \in 1 .. Len(blocks) : blocks[n] \in T
    OBVIOUS
  <1>2. PICK f : /\ Sorted(blocks) = f[Len(blocks)] /\ f[0] = <<>>
                 /\ \A n \in 1 .. Len(blocks) :
                       f[n] = LET had   == f[n - 1]
                                  later == {b \in ToSet(had) : Earlier(blocks[n], b)}
                              IN  Kept(had, ToSet(had) \ later) \o <<blocks[n]>>
                                      \o Kept(had, later)
    BY SortedSoFar
  <1> DEFINE Sound(n) == /\ f[n] \in Seq(T)
                         /\ ToSet(f[n]) = {blocks[i] : i \in 1 .. n}
                         /\ IsInjective(blocks) => IsInjective(f[n])
             S == {n \in 0 .. Len(blocks) : Sound(n)}
  <1>3. 0 \in S
    <2>1. <<>> \in Seq(T) /\ IsInjective(<<>>) /\ ToSet(<<>>) = {blocks[i] : i \in 1 .. 0}
      BY DEF IsInjective, ToSet
    <2>2. 0 \in 0 .. Len(blocks)
      BY <1>1
    <2>3. Sound(0)
      BY <1>2, <2>1
    <2>. QED  BY <2>2, <2>3
  <1>4. ASSUME NEW n \in 1 .. Len(blocks), n - 1 \in S PROVE n \in S
    <2>1. n \in 0 .. Len(blocks) /\ blocks[n] \in T /\ Sound(n - 1) /\ n \in Nat
      BY <1>1, <1>4
    <2>2. PICK had : had = f[n - 1]
      OBVIOUS
    <2>3. PICK later : later = {b \in ToSet(had) : Earlier(blocks[n], b)}
      OBVIOUS
    <2>4. f[n] = Between(had, blocks[n], later)
      BY <1>2, <2>2, <2>3 DEF Between
    <2>5. had \in Seq(T) /\ later \subseteq ToSet(had)
      BY <2>1, <2>2, <2>3
    <2>6. /\ f[n] \in Seq(T) /\ ToSet(f[n]) = ToSet(had) \cup {blocks[n]}
          /\ IsInjective(had) /\ blocks[n] \notin ToSet(had) => IsInjective(f[n])
      BY <2>1, <2>4, <2>5, BetweenFacts
    <2>7. 1 .. n = (1 .. (n - 1)) \cup {n}
      BY <1>1
    <2>8. {blocks[i] : i \in 1 .. n} = {blocks[i] : i \in 1 .. (n - 1)} \cup {blocks[n]}
      BY <2>7
    <2>9. IsInjective(blocks) => blocks[n] \notin {blocks[i] : i \in 1 .. (n - 1)}
      <3>1. \A i \in 1 .. (n - 1) : i \in DOMAIN blocks /\ i # n
        BY <1>1
      <3>. QED  BY <1>1, <3>1 DEF IsInjective
    <2>10. Sound(n)
      BY <2>1, <2>2, <2>6, <2>8, <2>9
    <2>. QED  BY <2>1, <2>10
  <1>. HIDE DEF S
  <1>5. \A n \in 0 .. Len(blocks) : n \in S
    BY <1>1, <1>3, <1>4, InductionTo
  <1>6. Len(blocks) \in S
    BY <1>1, <1>5
  <1>7. ToSet(blocks) = {blocks[i] : i \in 1 .. Len(blocks)}
    BY <1>1 DEF ToSet
  <1>. QED  BY <1>2, <1>6, <1>7 DEF S

KeysApart(set) == \A b, c \in set : SlotKey(b) = SlotKey(c) => b = c

LEMMA NoDuplicatesMeans ==
    ASSUME NEW blocks
    PROVE  NoDuplicates(blocks) <=> IsInjective(blocks) /\ KeysApart(ToSet(blocks))
  <1>1. NoDuplicates(blocks) => IsInjective(blocks) /\ KeysApart(ToSet(blocks))
    BY DEF NoDuplicates, IsInjective, KeysApart, ToSet
  <1>2. ASSUME IsInjective(blocks), KeysApart(ToSet(blocks)),
               NEW i \in DOMAIN blocks, NEW j \in DOMAIN blocks,
               SlotKey(blocks[i]) = SlotKey(blocks[j])
        PROVE  i = j
    <2>1. blocks[i] \in ToSet(blocks) /\ blocks[j] \in ToSet(blocks)
      BY DEF ToSet
    <2>2. blocks[i] = blocks[j]
      BY <1>2, <2>1 DEF KeysApart
    <2>. QED  BY <1>2, <2>2 DEF IsInjective
  <1>. QED  BY <1>1, <1>2 DEF NoDuplicates

LEMMA SortedBlocks ==
    ASSUME NEW blocks, IsSeq(blocks), \A i \in DOMAIN blocks : GoodBlock(blocks[i]),
           NoDuplicates(blocks)
    PROVE  /\ IsSeq(Sorted(blocks)) /\ NoDuplicates(Sorted(blocks))
           /\ \A i \in DOMAIN Sorted(blocks) : GoodBlock(Sorted(blocks)[i])
  <1>1. /\ Sorted(blocks) \in Seq(ToSet(blocks))
        /\ ToSet(Sorted(blocks)) = ToSet(blocks)
        /\ IsInjective(blocks) => IsInjective(Sorted(blocks))
    BY SortedFacts DEF IsSeq
  <1>2. IsSeq(Sorted(blocks))
    BY <1>1, SeqIsSeq
  <1>3. NoDuplicates(Sorted(blocks))
    BY <1>1, NoDuplicatesMeans
  <1>4. \A i \in DOMAIN Sorted(blocks) : Sorted(blocks)[i] \in ToSet(blocks)
    BY <1>1 DEF ToSet
  <1>5. \A b \in ToSet(blocks) : GoodBlock(b)
    BY DEF ToSet
  <1>. QED  BY <1>2, <1>3, <1>4, <1>5

LEMMA PlanFields ==
    ASSUME NEW p, GoodPlan(p)
    PROVE  /\ \A x : /\ GoodPlan([p EXCEPT !.channel = x])
                     /\ [p EXCEPT !.channel = x].scheduled = p.scheduled
                     /\ [p EXCEPT !.channel = x].blocks = p.blocks
           /\ \A x : /\ GoodPlan([p EXCEPT !.collections = Append(@, x)])
                     /\ [p EXCEPT !.collections = Append(@, x)].scheduled = p.scheduled
                     /\ [p EXCEPT !.collections = Append(@, x)].blocks = p.blocks
           /\ \A x : /\ GoodPlan([p EXCEPT !.fillers = Append(@, x)])
                     /\ [p EXCEPT !.fillers = Append(@, x)].scheduled = p.scheduled
                     /\ [p EXCEPT !.fillers = Append(@, x)].blocks = p.blocks
           /\ \A x : /\ GoodPlan([p EXCEPT !.layouts = @ \cup {x}])
                     /\ [p EXCEPT !.layouts = @ \cup {x}].scheduled = p.scheduled
                     /\ [p EXCEPT !.layouts = @ \cup {x}].blocks = p.blocks
           /\ \A x : /\ GoodPlan([p EXCEPT !.default = x])
                     /\ [p EXCEPT !.default = x].scheduled = p.scheduled
                     /\ [p EXCEPT !.default = x].blocks = p.blocks
           /\ \A x : GoodBlock(x) =>
                     /\ GoodPlan([p EXCEPT !.blocks = Append(@, x)])
                     /\ [p EXCEPT !.blocks = Append(@, x)].scheduled = p.scheduled
           /\ NoDuplicates(p.blocks) =>
                     /\ GoodPlan([p EXCEPT !.blocks = Sorted(@), !.scheduled = TRUE])
                     /\ NoDuplicates([p EXCEPT !.blocks = Sorted(@), !.scheduled = TRUE].blocks)
  <1>1. DOMAIN p = {"channel", "collections", "fillers", "layouts", "blocks", "default", "scheduled"}
    BY DEF GoodPlan, EmptyPlan
  <1>2. \A x : IsSeq(Append(p.collections, x)) /\ IsSeq(Append(p.fillers, x))
    BY AppendIsSeq DEF GoodPlan
  <1>3. ASSUME NEW x, GoodBlock(x)
        PROVE  /\ IsSeq(Append(p.blocks, x))
               /\ \A i \in DOMAIN Append(p.blocks, x) : GoodBlock(Append(p.blocks, x)[i])
    <2>1. /\ IsSeq(Append(p.blocks, x)) /\ DOMAIN Append(p.blocks, x) = 1 .. Len(p.blocks) + 1
          /\ \A n \in DOMAIN p.blocks : Append(p.blocks, x)[n] = p.blocks[n]
          /\ Append(p.blocks, x)[Len(p.blocks) + 1] = x
      BY AppendIsSeq DEF GoodPlan
    <2>2. DOMAIN p.blocks = 1 .. Len(p.blocks) /\ Len(p.blocks) \in Nat
      BY IsSeqFacts DEF GoodPlan
    <2>3. \A i \in 1 .. Len(p.blocks) + 1 : i \in 1 .. Len(p.blocks) \/ i = Len(p.blocks) + 1
      BY <2>2
    <2>. QED  BY <1>3, <2>1, <2>2, <2>3 DEF GoodPlan
  <1>4. NoDuplicates(p.blocks) =>
           /\ IsSeq(Sorted(p.blocks)) /\ NoDuplicates(Sorted(p.blocks))
           /\ \A i \in DOMAIN Sorted(p.blocks) : GoodBlock(Sorted(p.blocks)[i])
    BY SortedBlocks DEF GoodPlan
  <1>5. ASSUME NEW x
        PROVE  /\ GoodPlan([p EXCEPT !.channel = x])
               /\ [p EXCEPT !.channel = x].scheduled = p.scheduled
               /\ [p EXCEPT !.channel = x].blocks = p.blocks
    BY <1>1 DEF GoodPlan
  <1>6. ASSUME NEW x
        PROVE  /\ GoodPlan([p EXCEPT !.collections = Append(@, x)])
               /\ [p EXCEPT !.collections = Append(@, x)].scheduled = p.scheduled
               /\ [p EXCEPT !.collections = Append(@, x)].blocks = p.blocks
    BY <1>1, <1>2 DEF GoodPlan
  <1>7. ASSUME NEW x
        PROVE  /\ GoodPlan([p EXCEPT !.fillers = Append(@, x)])
               /\ [p EXCEPT !.fillers = Append(@, x)].scheduled = p.scheduled
               /\ [p EXCEPT !.fillers = Append(@, x)].blocks = p.blocks
    BY <1>1, <1>2 DEF GoodPlan
  <1>8. ASSUME NEW x
        PROVE  /\ GoodPlan([p EXCEPT !.layouts = @ \cup {x}])
               /\ [p EXCEPT !.layouts = @ \cup {x}].scheduled = p.scheduled
               /\ [p EXCEPT !.layouts = @ \cup {x}].blocks = p.blocks
    BY <1>1 DEF GoodPlan
  <1>9. ASSUME NEW x
        PROVE  /\ GoodPlan([p EXCEPT !.default = x])
               /\ [p EXCEPT !.default = x].scheduled = p.scheduled
               /\ [p EXCEPT !.default = x].blocks = p.blocks
    BY <1>1 DEF GoodPlan
  <1>10. ASSUME NEW x, GoodBlock(x)
         PROVE  /\ GoodPlan([p EXCEPT !.blocks = Append(@, x)])
                /\ [p EXCEPT !.blocks = Append(@, x)].scheduled = p.scheduled
    <2> DEFINE more == Append(p.blocks, x)
    <2>1. IsSeq(more) /\ \A i \in DOMAIN more : GoodBlock(more[i])
      BY <1>3, <1>10
    <2>. HIDE DEF more
    <2>2. /\ GoodPlan([p EXCEPT !.blocks = more])
          /\ [p EXCEPT !.blocks = more].scheduled = p.scheduled
      BY <1>1, <2>1 DEF GoodPlan
    <2>. QED  BY <2>2 DEF more
  <1>11. ASSUME NoDuplicates(p.blocks)
         PROVE  /\ GoodPlan([p EXCEPT !.blocks = Sorted(@), !.scheduled = TRUE])
                /\ NoDuplicates([p EXCEPT !.blocks = Sorted(@), !.scheduled = TRUE].blocks)
    <2> DEFINE sorted == Sorted(p.blocks)
    <2>1. /\ IsSeq(sorted) /\ NoDuplicates(sorted)
          /\ \A i \in DOMAIN sorted : GoodBlock(sorted[i])
      BY <1>4, <1>11
    <2>. HIDE DEF sorted
    <2>2. /\ GoodPlan([p EXCEPT !.blocks = sorted, !.scheduled = TRUE])
          /\ [p EXCEPT !.blocks = sorted, !.scheduled = TRUE].blocks = sorted
      BY <1>1, <2>1 DEF GoodPlan
    <2>. QED  BY <2>1, <2>2 DEF sorted
  <1>. QED  BY <1>5, <1>6, <1>7, <1>8, <1>9, <1>10, <1>11

\* A verb that leaves the schedule alone.
LEMMA OtherVerb ==
    ASSUME PlanOK, NEW verb, verb # "end", NEW checks, NEW newPlan, Runs(verb, checks, newPlan),
           ScriptOK, GoodPlan(newPlan), newPlan.scheduled = plan.scheduled,
           newPlan.blocks = plan.blocks
    PROVE  PlanOK'
  <1>1. Declared /\ Head(script).verb # "end" /\ queries' = queries
        /\ (UNCHANGED <<plan, script>> \/ (plan' = newPlan /\ script' = Tail(script)))
    BY RunsDeclares DEF Declared, resolverVars
  <1>2. CASE UNCHANGED <<plan, script>>
    BY <1>1, <1>2 DEF PlanOK, EndsToCome
  <1>3. CASE plan' = newPlan /\ script' = Tail(script)
    <2>1. EndsToCome => EndsToCome'
      BY <1>1, <1>3, EndStays DEF ScriptOK, Declared
    <2>2. GoodPlan(plan') /\ plan'.scheduled = plan.scheduled /\ plan'.blocks = plan.blocks
      BY <1>3
    <2>3. plan'.scheduled => NoDuplicates(plan'.blocks) \/ EndsToCome'
      BY <2>1, <2>2 DEF PlanOK
    <2>. QED  BY <1>1, <2>2, <2>3 DEF PlanOK
  <1>. QED  BY <1>1, <1>2, <1>3

LEMMA PlanStep ==
    ASSUME PlanOK, ScriptOK, Load
    PROVE  PlanOK'
  <1>. GoodPlan(plan)
    BY DEF PlanOK
  <1>1. ASSUME DeclareChannel PROVE PlanOK'
    BY <1>1, PlanFields, OtherVerb DEF DeclareChannel
  <1>2. ASSUME DeclareCollection PROVE PlanOK'
    BY <1>2, PlanFields, OtherVerb DEF DeclareCollection
  <1>3. ASSUME DeclareFiller PROVE PlanOK'
    BY <1>3, PlanFields, OtherVerb DEF DeclareFiller
  <1>4. ASSUME DeclareLayout PROVE PlanOK'
    BY <1>4, PlanFields, OtherVerb DEF DeclareLayout
  <1>5. ASSUME DeclareDefaultBlock PROVE PlanOK'
    BY <1>5, PlanFields, OtherVerb DEF DeclareDefaultBlock
  <1>6. ASSUME DeclareBlock PROVE PlanOK'
    <2>1. Declared /\ Head(script).verb = "block" /\ queries' = queries
          /\ (\/ UNCHANGED <<plan, script>>
              \/ /\ BlockOK(Statement) /\ plan' = [plan EXCEPT !.blocks = Append(@, Statement)]
                 /\ script' = Tail(script))
      BY <1>6, RunsDeclares DEF DeclareBlock, Declared, resolverVars
    <2>2. CASE UNCHANGED <<plan, script>>
      BY <2>1, <2>2 DEF PlanOK, EndsToCome
    <2>3. CASE /\ BlockOK(Statement) /\ plan' = [plan EXCEPT !.blocks = Append(@, Statement)]
               /\ script' = Tail(script)
      <3>1. EndsToCome' /\ DOMAIN Head(script).variants \subseteq VariantNames
        BY <2>1, <2>3, EndAhead DEF Declared
      <3>2. GoodBlock(Statement)
        BY <2>3, <3>1 DEF GoodBlock, Statement
      <3>3. GoodPlan(plan')
        BY <2>3, <3>2, PlanFields
      <3>. QED  BY <2>1, <3>1, <3>3 DEF PlanOK
    <2>. QED  BY <2>1, <2>2, <2>3
  <1>7. ASSUME EndOfSchedule PROVE PlanOK'
    <2>1. Declared /\ queries' = queries
          /\ (\/ UNCHANGED <<plan, script>>
              \/ /\ NoDuplicates(plan.blocks)
                 /\ plan' = [plan EXCEPT !.blocks = Sorted(@), !.scheduled = TRUE])
      BY <1>7, RunsDeclares DEF EndOfSchedule, Declared, resolverVars
    <2>2. CASE UNCHANGED <<plan, script>>
      BY <2>1, <2>2 DEF PlanOK, EndsToCome
    <2>3. CASE /\ NoDuplicates(plan.blocks)
               /\ plan' = [plan EXCEPT !.blocks = Sorted(@), !.scheduled = TRUE]
      <3>1. GoodPlan(plan') /\ NoDuplicates(plan'.blocks)
        BY <2>3, PlanFields
      <3>. QED  BY <2>1, <3>1 DEF PlanOK
    <2>. QED  BY <2>1, <2>2, <2>3
  <1>8. ASSUME EndOfScript PROVE PlanOK'
    <2>1. UNCHANGED <<plan, script>>
      BY <1>8 DEF EndOfScript
    <2>2. IsSeq(queries')
      <3>1. CASE queries' = queries
        BY <3>1 DEF PlanOK
      <3>2. CASE queries' = TextsOf(plan.collections)
                   \o Kept(TextsOf(plan.fillers), ToSet(TextsOf(plan.fillers)) \ {<<>>})
        <4>1. \A s : IsSeq(s) => IsSeq(TextsOf(s))
          <5>. SUFFICES ASSUME NEW s, IsSeq(s) PROVE IsSeq(TextsOf(s))
            OBVIOUS
          <5>1. DOMAIN s = 1 .. Len(s) /\ Len(s) \in Nat
            BY IsSeqFacts
          <5>2. TextsOf(s) \in [1 .. Len(s) -> {s[i].text : i \in 1 .. Len(s)}]
            BY <5>1 DEF TextsOf
          <5>3. TextsOf(s) \in Seq({s[i].text : i \in 1 .. Len(s)})
            BY <5>1, <5>2
          <5>. QED  BY <5>3, SeqIsSeq
        <4>2. IsSeq(TextsOf(plan.collections)) /\ IsSeq(TextsOf(plan.fillers))
          BY <4>1 DEF GoodPlan
        <4> DEFINE c == TextsOf(plan.collections)
                   f == TextsOf(plan.fillers)
                   k == Kept(f, ToSet(f) \ {<<>>})
                   T == ToSet(c) \cup ToSet(f)
        <4>3. c \in Seq(T) /\ f \in Seq(T)
          BY <4>2 DEF IsSeq
        <4>. HIDE DEF c, f, T
        <4>4. k \in Seq(T)
          BY <4>3, KeptFacts
        <4>. HIDE DEF k
        <4>5. c \o k \in Seq(T)
          BY <4>3, <4>4
        <4>6. queries' = c \o k
          BY <3>2 DEF c, f, k
        <4>. QED  BY <4>5, <4>6, SeqIsSeq
      <3>. QED  BY <1>8, <3>1, <3>2 DEF EndOfScript
    <2>. QED  BY <2>1, <2>2 DEF PlanOK, EndsToCome
  <1>. QED  BY <1>1, <1>2, <1>3, <1>4, <1>5, <1>6, <1>7, <1>8 DEF Load

-----------------------------------------------------------------------------
(* Pages. *)

LEMMA CutFacts ==
    ASSUME NEW T, NEW listing \in Seq(T), NEW start \in Nat
    PROVE  /\ Cut(listing, start) \in Seq(T)
           /\ \A i \in 1 .. Len(Cut(listing, start)) :
                 /\ start + i \in DOMAIN listing
                 /\ Cut(listing, start)[i] = listing[start + i]
           /\ start < Len(listing) => Len(Cut(listing, start)) > 0
           /\ start + Len(Cut(listing, start)) <= Len(listing) \/ Cut(listing, start) = <<>>
  <1> DEFINE last == IF start + PageSize < Len(listing) THEN start + PageSize ELSE Len(listing)
             cut  == Cut(listing, start)
  <1>1. PageSize \in Nat /\ PageSize > 0 /\ Len(listing) \in Nat /\ DOMAIN listing = 1 .. Len(listing)
    BY ResolverAssumption
  <1>2. last \in Nat /\ last <= Len(listing)
    BY <1>1
  <1>3. \A i \in start + 1 .. last : i \in 1 .. Len(listing) /\ listing[i] \in T
    BY <1>1, <1>2
  <1>4. start < Len(listing) => start < last
    BY <1>1
  <1>5. cut = SubSeq(listing, start + 1, last)
    BY DEF Cut
  <1>. HIDE DEF last
  <1>6. /\ SubSeq(listing, start + 1, last) \in Seq(T)
        /\ Len(SubSeq(listing, start + 1, last))
              = IF start + 1 <= last THEN last - (start + 1) + 1 ELSE 0
        /\ \A i \in 1 .. last - (start + 1) + 1 :
              SubSeq(listing, start + 1, last)[i] = listing[start + 1 + i - 1]
    <2>1. start + 1 \in Int /\ last \in Int
      BY <1>2
    <2>. QED  BY <1>3, <2>1, SubSeqProperties
  <1>. HIDE DEF cut
  <1>7. cut \in Seq(T) /\ Len(cut) = IF start < last THEN last - start ELSE 0
    BY <1>2, <1>5, <1>6
  <1>8. ASSUME NEW i \in 1 .. Len(cut)
        PROVE  start + i \in DOMAIN listing /\ cut[i] = listing[start + i]
    <2>1. start < last /\ i \in 1 .. last - (start + 1) + 1 /\ start + 1 + i - 1 = start + i
          /\ start + i \in start + 1 .. last
      BY <1>2, <1>7
    <2>. QED  BY <1>1, <1>3, <1>5, <1>6, <2>1
  <1>9. start < Len(listing) => Len(cut) > 0
    BY <1>2, <1>4, <1>7
  <1>10. start + Len(cut) <= Len(listing) \/ cut = <<>>
    <2>1. CASE start < last
      BY <1>2, <1>7, <2>1
    <2>2. CASE ~(start < last)
      BY <1>2, <1>7, <2>2
    <2>. QED  BY <2>1, <2>2
  <1>. QED  BY <1>7, <1>8, <1>9, <1>10 DEF cut

LEMMA ListingType ==
    ASSUME TypeOK, NEW atom
    PROVE  Listing(atom) \in Seq(Items)
  BY KeptFacts DEF TypeOK, Listing

\* A page fetched: it is the last, and the atom is answered, or there are
\* more.
LEMMA FetchFacts ==
    ASSUME TypeOK, FetchPage
    PROVE  \E items \in Seq(Items), got \in Seq(Items), total \in Nat :
              /\ items = Cut(Listing(Asked), page.start) /\ got = page.got \o items
              /\ total = (IF counts THEN Len(Listing(Asked)) ELSE 0)
              /\ Answer(Asked, got) \in Seq(Items)
              /\ IF LastPage(items, page.start, total)
                 THEN Answered(Answer(Asked, got))
                 ELSE /\ page' = Page(page.start + Len(items), got)
                      /\ UNCHANGED <<queries, pools, cache, frames, found, resolving>>
              /\ UNCHANGED <<jellyfin, misled>>
  <1>1. page.start \in Nat /\ page.got \in Seq(Items) /\ Listing(Asked) \in Seq(Items)
    BY ListingType DEF TypeOK
  <1>2. PICK items : items = Cut(Listing(Asked), page.start)
    OBVIOUS
  <1>3. PICK got : got = page.got \o items
    OBVIOUS
  <1>4. PICK total : total = IF counts THEN Len(Listing(Asked)) ELSE 0
    OBVIOUS
  <1>5. items \in Seq(Items)
    BY <1>1, <1>2, CutFacts
  <1>6. got \in Seq(Items)
    BY <1>1, <1>3, <1>5
  <1>7. total \in Nat
    BY <1>1, <1>4
  <1>8. Answer(Asked, got) \in Seq(Items)
    BY <1>6, KeptFacts DEF Answer
  <1>9. /\ IF LastPage(items, page.start, total)
           THEN Answered(Answer(Asked, got))
           ELSE /\ page' = Page(page.start + Len(items), got)
                /\ UNCHANGED <<queries, pools, cache, frames, found, resolving>>
        /\ UNCHANGED <<jellyfin, misled>>
    BY <1>2, <1>3, <1>4 DEF FetchPage
  <1>. QED  BY <1>2, <1>3, <1>4, <1>5, <1>6, <1>7, <1>8, <1>9

-----------------------------------------------------------------------------
(* Types and calls. *)

RunTypes ==
    /\ loading \in {"running", "loaded", "refused"}
    /\ outcome \in {"planning", "ok", "error"} /\ first \in 0 .. 6
    /\ Len(slots) <= WindowDays

JellyfinTypes ==
    /\ shelf \in Seq(Items) /\ fits \in [Atoms -> SUBSET Items] /\ counts \in BOOLEAN
    /\ come \cup gone \subseteq Items

PoolTypes ==
    /\ pools \in Seq(Seq(Items)) /\ Len(pools) <= Len(queries)
    /\ \A e \in DOMAIN cache : cache[e] \in Seq(Items)

PageTypes ==
    /\ page.asking \in {"nothing", "id", "items"}
    /\ page.start \in Nat /\ page.got \in Seq(Items)

WhereTypes == resolving \in ResolvingStates /\ misled \in BOOLEAN

LEMMA TypeParts ==
    TypeOK <=> /\ RunTypes /\ JellyfinTypes /\ PoolTypes /\ PageTypes /\ WhereTypes
               /\ found \in Seq(Items)
               /\ \A n \in DOMAIN frames : IsList(frames[n].bound) /\ IsList(frames[n].left)
  BY DEF TypeOK, RunTypes, JellyfinTypes, PoolTypes, PageTypes, WhereTypes

LEMMA FrameTypes ==
    ASSUME CallsOK
    PROVE  \A n \in DOMAIN frames : IsList(frames[n].bound) /\ IsList(frames[n].left)
  BY DEF CallsOK, GoodCalls, IsFrame, IsList

LEMMA EmptyPage == NoPage.asking = "nothing" /\ NoPage.start = 0 /\ NoPage.got = <<>>
                   /\ Lookup.asking = "id" /\ Lookup.start = 0 /\ Lookup.got = <<>>
  BY DEF NoPage, Lookup

\* What the resolver's own steps do to the calls and the page.
LEMMA GoesOnStep ==
    ASSUME TypeOK, CallsOK, GoesOn
    PROVE  CallsOK' /\ found' \in Seq(Items) /\ PageTypes' /\ WhereTypes'
  <1>. found \in Seq(Items) /\ PageTypes /\ WhereTypes
    BY TypeParts
  <1>1. CASE NextQuery
    <2>1. UNCHANGED <<found, page, misled>> /\ resolving = "between"
      BY <1>1 DEF NextQuery
    <2>2. CASE resolving' = "refused" /\ UNCHANGED frames
      BY <2>1, <2>2, GoodCallsStay DEF CallsOK, PageTypes, WhereTypes, ResolvingStates
    <2>3. CASE UNCHANGED <<frames, resolving>>
      BY <2>1, <2>3 DEF CallsOK, PageTypes, WhereTypes
    <2>4. CASE frames' = <<Frame(Expression, NoList)>> /\ resolving' = "calling"
      <3>1. PICK f : f = Frame(Expression, NoList)
        OBVIOUS
      <3>2. IsFrame(f)
        BY <3>1, NewFrame
      <3>3. IsSeq(<<f>>) /\ DOMAIN <<f>> = {1} /\ <<f>>[1] = f /\ <<f>> # <<>>
        <4>1. <<f>> \in Seq({f}) /\ Len(<<f>>) = 1 /\ <<f>>[1] = f
          OBVIOUS
        <4>2. IsSeq(<<f>>) /\ DOMAIN <<f>> = 1 .. 1
          BY <4>1, SeqIsSeq
        <4>3. 1 .. 1 = {1}
          OBVIOUS
        <4>. QED  BY <4>1, <4>2, <4>3
      <3>4. GoodCalls(<<f>>, "calling")
        BY <3>2, <3>3 DEF GoodCalls
      <3>. QED  BY <2>1, <2>4, <3>1, <3>4 DEF CallsOK, PageTypes, WhereTypes, ResolvingStates
    <2>. QED  BY <1>1, <2>2, <2>3, <2>4 DEF NextQuery
  <1>2. CASE HandOver
    <2>1. UNCHANGED <<frames, found, page, misled>> /\ resolving = "between" /\ resolving' = "done"
      BY <1>2 DEF HandOver, request
    <2>. QED  BY <2>1, GoodCallsStay DEF CallsOK, PageTypes, WhereTypes, ResolvingStates
  <1>3. CASE AskForAtom
    <2>1. /\ resolving = "calling" /\ (Top.near # <<>> \/ Top.expr.op = "atom")
          /\ UNCHANGED <<frames, found, misled>>
          /\ \/ page' = Opening(Asked) /\ resolving' = "asking"
             \/ resolving' = "value" /\ UNCHANGED page
      BY <1>3 DEF AskForAtom
    <2>2. PageTypes'
      <3>1. CASE page' = Opening(Asked)
        <4>1. page' = Lookup \/ page' = Page(0, <<>>)
          BY <3>1 DEF Opening
        <4>2. /\ page'.asking \in {"nothing", "id", "items"}
              /\ page'.start = 0 /\ page'.got = <<>>
          BY <4>1 DEF Lookup, Page
        <4>. QED  BY <4>2 DEF PageTypes
      <3>. QED  BY <2>1, <3>1 DEF PageTypes
    <2>3. frames # <<>> /\ IsFrame(Top)
      BY <2>1, AllCalls DEF CallsOK, GoodCalls
    <2>4. Bounded(Top)
      BY <2>1, <2>3 DEF IsFrame, Bounded
    <2>5. IsSeq(frames) /\ \A n \in DOMAIN frames : IsFrame(frames[n]) /\ Bounded(frames[n])
      BY <2>3, <2>4, AllCalls
    <2>6. GoodCalls(frames, "asking") /\ GoodCalls(frames, "value")
      BY <2>1, <2>3, <2>5 DEF GoodCalls, Top
    <2>. QED  BY <2>1, <2>2, <2>6 DEF CallsOK, WhereTypes, ResolvingStates
  <1>4. CASE EvalLeft \/ EvalRight \/ EvalNot \/ Combine
    <2>1. UNCHANGED <<page, misled>> /\ resolving' \in {"calling", "returning"}
      BY <1>4 DEF EvalLeft, EvalRight, EvalNot, Combine, Calls, Return
    <2>2. CallsOK' /\ found' \in Seq(Items)
      BY <1>4, EvalStep
    <2>. QED  BY <2>1, <2>2 DEF PageTypes, WhereTypes, ResolvingStates
  <1>5. CASE UnboundedNot
    <2>1. /\ resolving = "calling" /\ resolving' = "unbounded"
          /\ UNCHANGED <<frames, found, page, misled>>
      BY <1>5 DEF UnboundedNot, request
    <2>2. GoodCalls(frames, "unbounded")
      BY <2>1 DEF CallsOK, GoodCalls
    <2>. QED  BY <2>1, <2>2 DEF CallsOK, PageTypes, WhereTypes, ResolvingStates
  <1>6. CASE Resolved
    <2>1. /\ resolving = "returning" /\ resolving' = "between" /\ found' = <<>>
          /\ UNCHANGED <<frames, page, misled>>
      BY <1>6 DEF Resolved
    <2>2. <<>> \in Seq(Items)
      OBVIOUS
    <2>. QED  BY <2>1, <2>2, GoodCallsStay DEF CallsOK, PageTypes, WhereTypes, ResolvingStates
  <1>7. CASE FindId
    <2>1. page' = Page(0, <<>>) /\ UNCHANGED <<frames, found, resolving, misled>>
      BY <1>7 DEF FindId
    <2>. QED  BY <2>1 DEF CallsOK, PageTypes, WhereTypes, Page
  <1>8. CASE FindNoId
    <2>1. resolving = "asking" /\ Answered(<<>>) /\ misled' \in BOOLEAN
      BY <1>8 DEF FindNoId, WhereTypes
    <2>2. <<>> \in Seq(Items)
      OBVIOUS
    <2>3. /\ CallsOK' /\ found' \in Seq(Items) /\ page' = NoPage
          /\ resolving' \in {"calling", "returning"}
      BY <2>1, <2>2, AnsweredFacts
    <2>. QED  BY <2>1, <2>3, EmptyPage DEF PageTypes, WhereTypes, ResolvingStates
  <1>9. CASE FetchPage
    <2>1. PICK items \in Seq(Items), got \in Seq(Items), total \in Nat :
              /\ Answer(Asked, got) \in Seq(Items)
              /\ IF LastPage(items, page.start, total)
                 THEN Answered(Answer(Asked, got))
                 ELSE /\ page' = Page(page.start + Len(items), got)
                      /\ UNCHANGED <<queries, pools, cache, frames, found, resolving>>
              /\ UNCHANGED <<jellyfin, misled>>
      BY <1>9, FetchFacts
    <2>2. PICK answer \in Seq(Items) : answer = Answer(Asked, got)
      BY <2>1
    <2>3. CASE Answered(answer)
      <3>1. resolving = "asking"
        BY <1>9 DEF FetchPage
      <3>2. /\ CallsOK' /\ found' \in Seq(Items) /\ page' = NoPage
            /\ resolving' \in {"calling", "returning"}
        BY <2>3, <3>1, AnsweredFacts
      <3>. QED  BY <2>1, <3>2, EmptyPage DEF PageTypes, WhereTypes, ResolvingStates
    <2>4. CASE /\ page' = Page(page.start + Len(items), got)
               /\ UNCHANGED <<queries, pools, cache, frames, found, resolving>>
      <3>1. page.start + Len(items) \in Nat
        BY DEF PageTypes
      <3>. QED  BY <2>1, <2>4, <3>1 DEF CallsOK, PageTypes, WhereTypes, Page
    <2>. QED  BY <2>1, <2>2, <2>3, <2>4
  <1>. QED  BY <1>1, <1>2, <1>3, <1>4, <1>5, <1>6, <1>7, <1>8, <1>9 DEF GoesOn

\* Only Resolved and NextQuery give a query its pool.
LEMMA OtherSteps ==
    ASSUME GoesOn
    PROVE  \/ NextQuery \/ Resolved
           \/ UNCHANGED <<queries, pools, cache>>
  <1>1. \A items : Answered(items) => UNCHANGED <<queries, pools, cache>>
    BY DEF Answered
  <1>2. FetchPage => UNCHANGED <<queries, pools, cache>>
    BY <1>1 DEF FetchPage
  <1>3. FindNoId => UNCHANGED <<queries, pools, cache>>
    BY <1>1 DEF FindNoId
  <1>. QED  BY <1>2, <1>3 DEF GoesOn, HandOver, AskForAtom, EvalLeft, EvalRight, EvalNot, Calls,
                              UnboundedNot, Combine, FindId

LEMMA JellyfinStays ==
    ASSUME GoesOn
    PROVE  UNCHANGED <<jellyfin, queries>>
  <1>1. \A items : Answered(items) => UNCHANGED queries
    BY DEF Answered
  <1>2. FetchPage => UNCHANGED <<jellyfin, queries>>
    BY <1>1 DEF FetchPage
  <1>3. FindNoId => UNCHANGED <<jellyfin, queries>>
    BY <1>1 DEF FindNoId
  <1>. QED  BY <1>2, <1>3 DEF GoesOn, NextQuery, HandOver, AskForAtom, EvalLeft, EvalRight,
                              EvalNot, Calls, UnboundedNot, Combine, Resolved, FindId

Evaluating == {"calling", "asking", "returning"}

\* Where a step of the resolver leads from and to.
LEMMA WhereTo ==
    ASSUME GoesOn, Phases
    PROVE  /\ resolving \in Evaluating \cup {"between"}
           /\ resolving' \in ResolvingStates \ {"idle"}
           /\ resolving' \in Evaluating =>
                 \/ resolving \in Evaluating /\ UNCHANGED <<queries, pools, cache>>
                 \/ /\ Len(pools) < Len(queries) /\ ~Cached(Expression)
                    /\ UNCHANGED <<queries, pools, cache>>
  <1>1. \A items : Answered(items) =>
           UNCHANGED <<queries, pools, cache>> /\ resolving' \in {"calling", "returning"}
    BY DEF Answered, Return
  <1>2. FetchPage => /\ resolving = "asking" /\ UNCHANGED <<queries, pools, cache>>
                     /\ resolving' \in Evaluating
    BY <1>1 DEF FetchPage, Evaluating
  <1>3. FindNoId => /\ resolving = "asking" /\ UNCHANGED <<queries, pools, cache>>
                    /\ resolving' \in Evaluating
    BY <1>1 DEF FindNoId, Evaluating
  <1>4. CASE FetchPage \/ FindNoId
    BY <1>2, <1>3, <1>4 DEF Evaluating, ResolvingStates
  <1>5. CASE NextQuery
    <2>1. CASE resolving' = "refused" \/ resolving' = resolving
      BY <1>5, <2>1 DEF NextQuery, Evaluating, ResolvingStates
    <2>2. CASE ~(resolving' = "refused" \/ resolving' = resolving)
      <3>1. /\ resolving = "between" /\ resolving' = "calling" /\ Len(pools) < Len(queries)
            /\ ~Cached(Expression) /\ UNCHANGED <<queries, pools, cache>>
        BY <1>5, <2>2 DEF NextQuery
      <3>. QED  BY <3>1 DEF Evaluating, ResolvingStates
    <2>. QED  BY <2>1, <2>2
  <1>6. CASE HandOver \/ UnboundedNot \/ Resolved
    BY <1>6 DEF HandOver, UnboundedNot, Resolved, Evaluating, ResolvingStates
  <1>7. CASE AskForAtom \/ EvalLeft \/ EvalRight \/ EvalNot \/ Combine \/ FindId
    <2>1. /\ resolving \in Evaluating /\ UNCHANGED <<queries, pools, cache>>
          /\ resolving' \in Evaluating \cup {"value"}
      BY <1>7 DEF AskForAtom, EvalLeft, EvalRight, EvalNot, Calls, Combine, Return, FindId, Evaluating
    <2>. QED  BY <2>1 DEF Evaluating, ResolvingStates
  <1>. QED  BY <1>4, <1>5, <1>6, <1>7 DEF GoesOn

LEMMA PhasesStep ==
    ASSUME Phases, Next
    PROVE  Phases'
  <1>1. CASE Declared
    BY <1>1 DEF Phases, Declared, resolverVars, request, Cached, Expression
  <1>2. CASE EndOfScript
    <2>1. /\ loading = "running" /\ script = <<>>
          /\ UNCHANGED <<script, plan, first, slots, outcome, pools, cache, frames, found, page>>
      BY <1>2 DEF EndOfScript, request
    <2>2. CASE plan.channel /\ plan.scheduled
      <3>1. loading' = "loaded" /\ resolving' = "between"
        BY <1>2, <2>2 DEF EndOfScript
      <3>. QED  BY <2>1, <2>2, <3>1 DEF Phases
    <2>3. CASE ~(plan.channel /\ plan.scheduled)
      <3>1. loading' = "refused" /\ UNCHANGED <<queries, resolving>>
        BY <1>2, <2>3 DEF EndOfScript
      <3>. QED  BY <2>1, <3>1 DEF Phases
    <2>. QED  BY <2>2, <2>3
  <1>3. CASE EvaluationFails
    BY <1>3 DEF Phases, EvaluationFails, resolverVars, request
  <1>4. CASE Resolve
    <2>1. GoesOn /\ UNCHANGED <<script, plan, loading, slots, outcome>>
      BY <1>4 DEF Resolve, channelVars
    <2>2. loading = "loaded" /\ resolving # "done"
      BY <2>1, WhereTo DEF Phases, Evaluating
    <2>3. resolving' \in Evaluating => Len(pools') < Len(queries') /\ ~Cached(Expression)'
      BY <2>1, WhereTo DEF Phases, Evaluating, Cached, Expression
    <2>4. resolving' # "idle"
      BY <2>1, WhereTo
    <2>. QED  BY <2>1, <2>2, <2>3, <2>4 DEF Phases, Evaluating
  <1>5. CASE RequestIsLost
    <2>1. /\ resolving = "asking" /\ resolving' = "failed"
          /\ UNCHANGED <<script, plan, loading, slots, outcome>>
      BY <1>5 DEF RequestIsLost, RequestFails, channelVars
    <2>. QED  BY <2>1 DEF Phases
  <1>6. CASE LibraryChanges
    <2>1. /\ resolving = "asking" /\ UNCHANGED <<queries, pools, cache, frames, resolving>>
          /\ UNCHANGED <<script, plan, loading, slots, outcome>>
      BY <1>6 DEF LibraryChanges, ItemComes, ItemGoes, channelVars, request
    <2>. QED  BY <2>1 DEF Phases, Cached, Expression
  <1>7. CASE PlanDay \/ Finish
    <2>1. resolving = "done" /\ UNCHANGED <<script, plan, loading, resolverVars>>
      BY <1>7 DEF PlanDay, Finish
    <2>. QED  BY <2>1 DEF Phases, resolverVars, request
  <1>. QED  BY <1>1, <1>2, <1>3, <1>4, <1>5, <1>6, <1>7, LoadDeclares DEF Next

LEMMA PoolStep ==
    ASSUME TypeOK, Phases, IsSeq(queries), GoesOn
    PROVE  PoolTypes'
  <1>. PoolTypes /\ found \in Seq(Items) /\ Len(queries) \in Nat /\ Len(pools) \in Nat
    BY TypeParts, IsSeqFacts DEF PoolTypes
  <1>1. CASE NextQuery
    <2>1. UNCHANGED <<queries, cache>> /\ Len(pools) < Len(queries)
      BY <1>1 DEF NextQuery
    <2>2. UNCHANGED pools \/ (Cached(Expression) /\ pools' = Append(pools, cache[Expression]))
      BY <1>1 DEF NextQuery
    <2>3. CASE Cached(Expression) /\ pools' = Append(pools, cache[Expression])
      <3>1. cache[Expression] \in Seq(Items)
        BY <2>3 DEF PoolTypes, Cached
      <3>2. pools' \in Seq(Seq(Items)) /\ Len(pools') = Len(pools) + 1
        BY <2>3, <3>1, AppendFacts DEF PoolTypes
      <3>. QED  BY <2>1, <3>2 DEF PoolTypes
    <2>. QED  BY <2>1, <2>2, <2>3 DEF PoolTypes
  <1>2. CASE Resolved
    <2>1. /\ resolving = "returning" /\ pools' = Append(pools, found) /\ UNCHANGED queries
          /\ cache' = [e \in DOMAIN cache \cup {Expression} |->
                          IF e = Expression THEN found ELSE cache[e]]
      BY <1>2, JellyfinStays DEF Resolved
    <2>2. Len(pools) < Len(queries)
      BY <2>1 DEF Phases
    <2>3. pools' \in Seq(Seq(Items)) /\ Len(pools') = Len(pools) + 1
      BY <2>1, AppendFacts DEF PoolTypes
    <2>4. \A e \in DOMAIN cache' : cache'[e] \in Seq(Items)
      BY <2>1 DEF PoolTypes
    <2>. QED  BY <2>1, <2>2, <2>3, <2>4 DEF PoolTypes
  <1>. QED  BY <1>1, <1>2, OtherSteps DEF PoolTypes

LEMMA TypeStep ==
    ASSUME TypeOK, Phases, CallsOK, PlanOK, ScriptOK, IsSeq(slots), Next
    PROVE  TypeOK' /\ CallsOK'
  <1>1. CASE Load \/ EvaluationFails
    <2>1. /\ loading' \in {"running", "loaded", "refused"} /\ UNCHANGED <<first, slots, outcome>>
          /\ UNCHANGED <<jellyfin, pools, cache, frames, found, page, misled>>
          /\ resolving' \in {resolving, "between"} /\ loading # "loaded"
          /\ UNCHANGED queries \/ loading = "running"
      BY <1>1, LoadDeclares
      DEF Declared, EndOfScript, EvaluationFails, resolverVars, request, TypeOK
    <2>2. RunTypes' /\ JellyfinTypes' /\ PageTypes' /\ found' \in Seq(Items) /\ WhereTypes'
      BY <2>1, TypeParts
      DEF RunTypes, JellyfinTypes, PageTypes, WhereTypes, jellyfin, ResolvingStates
    <2>3. frames = <<>> /\ pools = <<>> /\ resolving = "idle"
      BY <2>1 DEF Phases
    <2>4. IsSeq(queries')
      <3>1. Load => IsSeq(queries')
        BY <1>1, PlanStep DEF PlanOK
      <3>2. EvaluationFails => IsSeq(queries')
        BY DEF EvaluationFails, resolverVars, PlanOK
      <3>. QED  BY <1>1, <3>1, <3>2
    <2>5. PoolTypes'
      <3>1. Len(queries') \in Nat /\ Len(pools') = 0
        BY <2>1, <2>3, <2>4, IsSeqFacts
      <3>. QED  BY <2>1, <3>1, TypeParts DEF PoolTypes
    <2>6. CallsOK'
      BY <2>1, <2>3 DEF CallsOK, GoodCalls
    <2>7. \A n \in DOMAIN frames' : IsList(frames'[n].bound) /\ IsList(frames'[n].left)
      BY <2>1, <2>3
    <2>. QED  BY <2>2, <2>5, <2>6, <2>7 DEF TypeOK, RunTypes, JellyfinTypes, PoolTypes, PageTypes, WhereTypes
  <1>2. CASE Resolve
    <2>1. GoesOn /\ UNCHANGED <<loading, outcome, first, slots>>
      BY <1>2 DEF Resolve, channelVars
    <2>2. CallsOK' /\ found' \in Seq(Items) /\ PageTypes' /\ WhereTypes'
      BY <2>1, GoesOnStep
    <2>3. PoolTypes'
      BY <2>1, PoolStep DEF PlanOK
    <2>4. RunTypes' /\ JellyfinTypes'
      BY <2>1, JellyfinStays, TypeParts DEF RunTypes, JellyfinTypes, jellyfin
    <2>5. \A n \in DOMAIN frames' : IsList(frames'[n].bound) /\ IsList(frames'[n].left)
      BY <2>2 DEF CallsOK, GoodCalls, IsFrame, IsList
    <2>. QED  BY <2>2, <2>3, <2>4, <2>5
              DEF TypeOK, RunTypes, JellyfinTypes, PoolTypes, PageTypes, WhereTypes
  <1>3. CASE RequestIsLost
    <2>1. /\ resolving = "asking" /\ resolving' = "failed"
          /\ UNCHANGED <<loading, outcome, first, slots, jellyfin, queries, pools, cache, frames,
                         found, page, misled>>
      BY <1>3 DEF RequestIsLost, RequestFails, channelVars, request
    <2>2. CallsOK'
      BY <2>1, GoodCallsStay DEF CallsOK
    <2>. QED  BY <2>1, <2>2 DEF TypeOK, jellyfin, ResolvingStates
  <1>4. CASE LibraryChanges
    <2>1. /\ UNCHANGED <<fits, counts, queries, pools, cache, frames, found, page, resolving, misled>>
          /\ UNCHANGED <<loading, outcome, first, slots>>
      BY <1>4 DEF LibraryChanges, ItemComes, ItemGoes, channelVars, request
    <2>2. shelf' \in Seq(Items) /\ come' \cup gone' \subseteq Items
      <3>0. shelf \in Seq(Items) /\ come \cup gone \subseteq Items
        BY DEF TypeOK
      <3>1. CASE ItemComes
        <4>1. PICK i \in Items \ (ToSet(shelf) \cup gone), at \in 1 .. (Len(shelf) + 1) :
                 shelf' = InsertAt(shelf, at, i) /\ come' = come \cup {i} /\ gone' = gone
          BY <3>1 DEF ItemComes
        <4>. QED  BY <3>0, <4>1, InsertAtFacts
      <3>2. CASE ItemGoes
        <4>1. PICK at \in DOMAIN shelf :
                 shelf' = RemoveAt(shelf, at) /\ gone' = gone \cup {shelf[at]} /\ come' = come
          BY <3>2 DEF ItemGoes
        <4>. QED  BY <3>0, <4>1, RemoveAtFacts
      <3>. QED  BY <1>4, <3>1, <3>2 DEF LibraryChanges
    <2>. QED  BY <2>1, <2>2 DEF TypeOK, CallsOK
  <1>5. CASE PlanDay \/ Finish
    <2>1. /\ UNCHANGED <<loading, first, resolverVars>> /\ outcome' \in {"planning", "ok", "error"}
          /\ UNCHANGED slots \/ (Len(slots) < WindowDays /\ \E x : slots' = Append(slots, x))
      BY <1>5 DEF PlanDay, Finish, TypeOK
    <2>2. Len(slots') <= WindowDays
      <3>1. CASE UNCHANGED slots
        BY <3>1 DEF TypeOK
      <3>2. CASE Len(slots) < WindowDays /\ \E x : slots' = Append(slots, x)
        BY <3>2, AppendIsSeq, IsSeqFacts, ChannelAssumption
      <3>. QED  BY <2>1, <3>1, <3>2
    <2>3. CallsOK'
      BY <2>1 DEF CallsOK, resolverVars, request
    <2>. QED  BY <2>1, <2>2, <2>3 DEF TypeOK, resolverVars, request, jellyfin
  <1>. QED  BY <1>1, <1>2, <1>3, <1>4, <1>5 DEF Next

-----------------------------------------------------------------------------
(* What the resolver has answered, and what it finds once. *)

LEMMA CacheStep ==
    ASSUME TypeOK, CacheServes, Phases, Next
    PROVE  CacheServes'
  <1>. pools \in Seq(Seq(Items)) /\ DOMAIN pools = 1 .. Len(pools) /\ Len(pools) \in Nat
    BY DEF TypeOK
  <1>1. CASE UNCHANGED <<queries, pools, cache>>
    BY <1>1 DEF CacheServes
  <1>2. CASE EndOfScript
    <2>1. pools' = <<>>
      BY <1>2 DEF EndOfScript, Phases
    <2>. QED  BY <2>1 DEF CacheServes
  <1>3. CASE NextQuery
    <2>1. UNCHANGED <<queries, cache>>
      BY <1>3 DEF NextQuery
    <2>2. CASE Cached(Expression) /\ pools' = Append(pools, cache[Expression])
      <3>1. /\ DOMAIN pools' = 1 .. Len(pools) + 1 /\ pools'[Len(pools) + 1] = cache[Expression]
            /\ \A k \in DOMAIN pools : pools'[k] = pools[k]
        BY <2>2, AppendIsSeq, SeqIsSeq
      <3>2. \A k \in DOMAIN pools' : k \in DOMAIN pools \/ k = Len(pools) + 1
        BY <3>1
      <3>3. ParseQuery(queries[Len(pools) + 1]) = Expression /\ Expression \in DOMAIN cache
        BY <2>2 DEF Expression, Cached
      <3>. QED  BY <2>1, <3>1, <3>2, <3>3 DEF CacheServes
    <2>3. CASE UNCHANGED pools
      BY <2>1, <2>3 DEF CacheServes
    <2>. QED  BY <1>3, <2>2, <2>3 DEF NextQuery
  <1>4. CASE Resolved
    <2>1. /\ pools' = Append(pools, found) /\ UNCHANGED queries /\ ~Cached(Expression)
          /\ cache' = [e \in DOMAIN cache \cup {Expression} |->
                          IF e = Expression THEN found ELSE cache[e]]
      BY <1>4, JellyfinStays DEF Resolved, Phases
    <2>2. /\ DOMAIN pools' = 1 .. Len(pools) + 1 /\ pools'[Len(pools) + 1] = found
          /\ \A k \in DOMAIN pools : pools'[k] = pools[k]
      BY <2>1, AppendIsSeq, SeqIsSeq
    <2>3. \A k \in DOMAIN pools' : k \in DOMAIN pools \/ k = Len(pools) + 1
      BY <2>2
    <2>4. ParseQuery(queries[Len(pools) + 1]) = Expression
      BY DEF Expression
    <2>5. \A k \in DOMAIN pools : ParseQuery(queries[k]) # Expression
      BY <2>1 DEF CacheServes, Cached
    <2>6. Expression \in DOMAIN cache' /\ cache'[Expression] = found
      BY <2>1
    <2>7. \A e \in DOMAIN cache : e # Expression => e \in DOMAIN cache' /\ cache'[e] = cache[e]
      BY <2>1
    <2>. QED  BY <2>1, <2>2, <2>3, <2>4, <2>5, <2>6, <2>7 DEF CacheServes
  <1>5. CASE Resolve
    <2>1. NextQuery \/ Resolved \/ UNCHANGED <<queries, pools, cache>>
      BY <1>5, OtherSteps DEF Resolve
    <2>. QED  BY <1>1, <1>3, <1>4, <2>1
  <1>6. CASE Declared \/ EvaluationFails \/ RequestIsLost \/ LibraryChanges \/ PlanDay \/ Finish
    <2>1. UNCHANGED <<queries, pools, cache>>
      BY <1>6 DEF Declared, EvaluationFails, RequestIsLost, RequestFails, LibraryChanges,
                  ItemComes, ItemGoes, PlanDay, Finish, resolverVars
    <2>. QED  BY <1>1, <2>1
  <1>. QED  BY <1>2, <1>5, <1>6, LoadDeclares DEF Next

LEMMA ListingOnce ==
    ASSUME TypeOK, IsInjective(shelf), NEW atom
    PROVE  IsInjective(Listing(atom))
  BY KeptFacts DEF TypeOK, Listing

\* An item lost moves no other one back.
LEMMA ListingLoses ==
    ASSUME TypeOK, ItemGoes, NEW atom, NEW j \in DOMAIN Listing(atom)'
    PROVE  \E m \in DOMAIN Listing(atom) :
              j <= m /\ Listing(atom)[m] = Listing(atom)'[j]
  <1>1. PICK at \in DOMAIN shelf : shelf' = RemoveAt(shelf, at)
    BY DEF ItemGoes
  <1>2. shelf \in Seq(Items) /\ shelf' \in Seq(Items) /\ fits' = fits
    BY <1>1, RemoveAtFacts DEF TypeOK, ItemGoes
  <1>3. Subsequence(shelf', shelf)
    BY <1>1, <1>2, RemovalIsPart
  <1>4. PICK part, whole : part = Listing(atom)' /\ whole = Listing(atom)
    OBVIOUS
  <1>5. CASE atom.field = "rating"
    <2>1. part = shelf' /\ whole = shelf
      BY <1>4, <1>5 DEF Listing
    <2>. QED  BY <1>2, <1>3, <1>4, <2>1, PartIsAhead
  <1>6. CASE atom.field # "rating"
    <2>1. part = Kept(shelf', fits[atom]) /\ whole = Kept(shelf, fits[atom])
      BY <1>2, <1>4, <1>6 DEF Listing
    <2>2. part \in Seq(Items) /\ whole \in Seq(Items)
      BY <1>2, <2>1, KeptFacts
    <2>3. Subsequence(part, whole)
      BY <1>2, <1>3, <2>1, KeptOfPart
    <2>4. j \in 1 .. Len(part)
      BY <1>4, <2>2
    <2>5. \E m \in 1 .. Len(whole) : j <= m /\ whole[m] = part[j]
      BY <2>2, <2>3, <2>4, PartIsAhead
    <2>. QED  BY <1>4, <2>2, <2>5
  <1>. QED  BY <1>5, <1>6

LEMMA OncePushed ==
    ASSUME NEW calls, IsSeq(calls), OnceCalls(calls), NEW f, OnceIn(f.bound), OnceIn(f.left)
    PROVE  OnceCalls(Cons(f, calls))
  <1> DEFINE c == Cons(f, calls)
  <1>1. /\ c[1] = f
        /\ \A n \in DOMAIN c : n = 1 \/ (n - 1 \in DOMAIN calls /\ c[n] = calls[n - 1])
    BY ConsFacts
  <1>. HIDE DEF c
  <1>2. OnceCalls(c)
    BY <1>1 DEF OnceCalls
  <1>. QED  BY <1>2 DEF c

LEMMA OnceTail ==
    ASSUME NEW calls, IsSeq(calls), calls # <<>>, OnceCalls(calls)
    PROVE  OnceCalls(Tail(calls)) /\ OnceIn(Head(calls).bound) /\ OnceIn(Head(calls).left)
  <1>1. /\ \A n \in DOMAIN Tail(calls) : n + 1 \in DOMAIN calls /\ Tail(calls)[n] = calls[n + 1]
        /\ 1 \in DOMAIN calls /\ Head(calls) = calls[1]
    BY TailFacts
  <1>2. PICK t : t = Tail(calls)
    OBVIOUS
  <1>3. OnceCalls(t)
    BY <1>1, <1>2 DEF OnceCalls
  <1>. QED  BY <1>1, <1>2, <1>3 DEF OnceCalls

LEMMA OnceAnswered ==
    ASSUME CallsOK, resolving = "asking", OnceCalls(frames), IsInjective(found),
           NEW items \in Seq(Items), IsInjective(items), Answered(items)
    PROVE  OnceCalls(frames') /\ IsInjective(found')
  <1>1. frames # <<>>
    BY DEF CallsOK, GoodCalls
  <1>2. PICK rest, top : rest = Tail(frames) /\ top = Top
    OBVIOUS
  <1>3. /\ IsSeq(rest) /\ IsFrame(top) /\ OnceCalls(rest) /\ OnceIn(top.bound) /\ OnceIn(top.left)
    BY <1>1, <1>2, AllCalls, OnceTail DEF Top
  <1>4. CASE top.near # <<>>
    <2> DEFINE g == Narrowed(top, items)
    <2>1. g.left = top.left
          /\ g.bound = (IF top.bound = NoList THEN items ELSE Kept(top.bound, ToSet(items)))
      BY <1>3, <1>4, NarrowedFrame
    <2>2. frames' = Cons(g, rest) /\ found' = found
      BY <1>2, <1>4 DEF Answered, Narrowed
    <2>. HIDE DEF g
    <2>3. OnceIn(g.bound) /\ OnceIn(g.left)
      BY <1>3, <2>1, KeptFacts DEF OnceIn, IsFrame
    <2>. QED  BY <1>3, <2>2, <2>3, OncePushed
  <1>5. CASE ~(top.near # <<>>)
    <2>1. frames' = rest /\ found' = Within(items, top.bound)
      BY <1>2, <1>5 DEF Answered, Return
    <2>2. IsInjective(Within(items, top.bound))
      BY KeptFacts DEF Within
    <2>. QED  BY <1>3, <2>1, <2>2
  <1>. QED  BY <1>4, <1>5

LEMMA OnceEval ==
    ASSUME CallsOK, found \in Seq(Items), OnceCalls(frames), IsInjective(found),
           EvalLeft \/ EvalRight \/ EvalNot \/ Combine
    PROVE  OnceCalls(frames') /\ IsInjective(found')
  <1>1. frames # <<>>
    BY DEF CallsOK, GoodCalls, EvalLeft, EvalRight, EvalNot, Combine
  <1>2. PICK rest, top : rest = Tail(frames) /\ top = Top
    OBVIOUS
  <1>3. /\ IsSeq(frames) /\ IsSeq(rest) /\ IsFrame(top)
        /\ OnceCalls(rest) /\ OnceIn(top.bound) /\ OnceIn(top.left)
        /\ resolving \notin {"calling", "unbounded"} => Bounded(top)
    BY <1>1, <1>2, AllCalls, OnceTail DEF Top
  <1>4. \A e : Frame(e, top.bound).bound = top.bound /\ Frame(e, top.bound).left = NoList
    BY DEF Frame
  <1>5. CASE EvalLeft \/ EvalNot
    <2>1. PICK e : frames' = Cons(Frame(e, top.bound), frames) /\ found' = found
      BY <1>2, <1>5 DEF EvalLeft, EvalNot, Calls
    <2>2. OnceIn(NoList)
      BY DEF OnceIn
    <2>. QED  BY <1>3, <1>4, <2>1, <2>2, OncePushed
  <1>6. CASE EvalRight
    <2>1. PICK g : g = [top EXCEPT !.left = found]
      OBVIOUS
    <2>2. PICK e : frames' = Cons(Frame(e, top.bound), Cons(g, rest)) /\ found' = found
      BY <1>2, <1>6, <2>1 DEF EvalRight, Calls
    <2>3. g.bound = top.bound /\ g.left = found
      BY <1>3, <2>1 DEF IsFrame
    <2>4. OnceCalls(Cons(g, rest)) /\ IsSeq(Cons(g, rest))
      BY <1>3, <2>3, OncePushed, ConsFacts DEF OnceIn
    <2>5. OnceIn(NoList)
      BY DEF OnceIn
    <2>6. OnceCalls(Cons(Frame(e, top.bound), Cons(g, rest)))
      <3>1. PICK c : c = Cons(g, rest)
        OBVIOUS
      <3>2. PICK f : f = Frame(e, top.bound)
        OBVIOUS
      <3>3. OnceCalls(Cons(f, c))
        BY <1>3, <1>4, <2>4, <2>5, <3>1, <3>2, OncePushed
      <3>. QED  BY <3>1, <3>2, <3>3
    <2>. QED  BY <2>2, <2>6
  <1>7. CASE Combine
    <2>1. resolving = "returning" /\ frames' = rest
      BY <1>2, <1>7 DEF Combine, Return
    <2>2. IsInjective(found')
      <3>1. CASE top.expr.op = "not" /\ Return(Kept(top.bound, ToSet(top.bound) \ ToSet(found)))
        <4>1. top.bound \in Seq(Items) /\ IsInjective(top.bound)
          BY <1>3, <2>1, <3>1 DEF Bounded, IsFrame, OnceIn
        <4>. QED  BY <3>1, <4>1, KeptFacts DEF Return
      <3>2. CASE top.left # NoList /\ Return(Kept(top.left, ToSet(found)))
        <4>1. top.left \in Seq(Items) /\ IsInjective(top.left)
          BY <1>3, <3>2 DEF IsFrame, OnceIn
        <4>. QED  BY <3>2, <4>1, KeptFacts DEF Return
      <3>3. CASE top.left # NoList /\ Return(Once(top.left \o found))
        <4>1. top.left \o found \in Seq(Items)
          BY <1>3, <3>3, JoinFacts DEF IsFrame
        <4>. QED  BY <3>3, <4>1, OnceFacts DEF Return
      <3>. QED  BY <1>2, <1>7, <3>1, <3>2, <3>3 DEF Combine
    <2>. QED  BY <1>3, <2>1, <2>2
  <1>. QED  BY <1>5, <1>6, <1>7

\* The next page has nothing that the pages before it had.
LEMMA OncePaged ==
    ASSUME TypeOK, IsInjective(Listing(Asked)), IsInjective(page.got), PageAhead,
           NEW items \in Seq(Items), items = Cut(Listing(Asked), page.start),
           NEW got \in Seq(Items), got = page.got \o items
    PROVE  /\ IsInjective(got) /\ page.start + Len(items) \in Nat
           /\ \A j \in DOMAIN Listing(Asked) :
                 Listing(Asked)[j] \in ToSet(got) => j <= page.start + Len(items)
  <1>1. PICK listing, start, had : listing = Listing(Asked) /\ start = page.start /\ had = page.got
    OBVIOUS
  <1>2. /\ listing \in Seq(Items) /\ start \in Nat /\ had \in Seq(Items) /\ Len(items) \in Nat
        /\ IsInjective(listing) /\ IsInjective(had) /\ DOMAIN items = 1 .. Len(items)
        /\ DOMAIN listing = 1 .. Len(listing)
    BY <1>1, ListingType DEF TypeOK
  <1>3. \A i \in 1 .. Len(items) : start + i \in DOMAIN listing /\ items[i] = listing[start + i]
    <2>1. items = Cut(listing, start)
      BY <1>1
    <2>2. listing \in Seq(Items) /\ start \in Nat
      BY <1>2
    <2>3. \A i \in 1 .. Len(Cut(listing, start)) :
             start + i \in DOMAIN listing /\ Cut(listing, start)[i] = listing[start + i]
      BY <2>2, CutFacts
    <2>. QED  BY <2>1, <2>3
  <1>4. \A j \in DOMAIN listing : listing[j] \in ToSet(had) => j <= start
    <2> DEFINE Ahead(l, g, n) == \A j \in DOMAIN l : l[j] \in ToSet(g) => j <= n
    <2>1. Ahead(Listing(Asked), page.got, page.start)
      BY DEF PageAhead
    <2> HIDE DEF Ahead
    <2>2. Ahead(listing, had, start)
      BY <1>1, <2>1
    <2>. QED  BY <2>2 DEF Ahead
  <1>5. IsInjective(items)
    <2>1. ASSUME NEW i \in DOMAIN items, NEW j \in DOMAIN items, items[i] = items[j]
          PROVE  i = j
      <3>1. /\ i \in 1 .. Len(items) /\ j \in 1 .. Len(items)
            /\ listing[start + i] = listing[start + j]
            /\ start + i \in DOMAIN listing /\ start + j \in DOMAIN listing
        BY <1>2, <1>3, <2>1
      <3>2. start + i = start + j
        BY <1>2, <3>1 DEF IsInjective
      <3>. QED  BY <1>2, <3>1, <3>2
    <2>. QED  BY <2>1 DEF IsInjective
  <1>6. ToSet(had) \cap ToSet(items) = {}
    <2>1. ASSUME NEW x \in ToSet(had), x \in ToSet(items) PROVE FALSE
      <3>1. PICK i \in 1 .. Len(items) : x = items[i]
        BY <1>2, <2>1 DEF ToSet
      <3>2. start + i <= start
        BY <1>3, <1>4, <2>1, <3>1
      <3>. QED  BY <1>2, <3>2
    <2>. QED  BY <2>1
  <1>7. IsInjective(got) /\ ToSet(got) = ToSet(had) \cup ToSet(items)
    BY <1>1, <1>2, <1>5, <1>6, JoinFacts
  <1>8. ASSUME NEW j \in DOMAIN listing, listing[j] \in ToSet(got)
        PROVE  j <= start + Len(items)
    <2>1. CASE listing[j] \in ToSet(had)
      BY <1>2, <1>4, <2>1
    <2>2. CASE listing[j] \in ToSet(items)
      <3>1. PICK i \in 1 .. Len(items) : listing[j] = items[i]
        BY <1>2, <2>2 DEF ToSet
      <3>2. j = start + i
        BY <1>2, <1>3, <3>1 DEF IsInjective
      <3>. QED  BY <1>2, <3>2
    <2>. QED  BY <1>7, <1>8, <2>1, <2>2
  <1>9. start + Len(items) \in Nat
    BY <1>2
  <1>. QED  BY <1>1, <1>7, <1>8, <1>9

LEMMA OnceResolves ==
    ASSUME TypeOK, CallsOK, ListsOnce, come = {}, GoesOn
    PROVE  /\ \A k \in DOMAIN pools' : IsInjective(pools'[k])
           /\ \A e \in DOMAIN cache' : IsInjective(cache'[e])
           /\ OnceCalls(frames') /\ IsInjective(found') /\ IsInjective(page'.got)
           /\ resolving' = "asking" /\ page'.asking = "items" => PageAhead'
  <1>. /\ \A k \in DOMAIN pools : IsInjective(pools[k])
       /\ \A e \in DOMAIN cache : IsInjective(cache[e])
       /\ OnceCalls(frames) /\ IsInjective(found) /\ IsInjective(page.got)
       /\ resolving = "asking" /\ page.asking = "items" => PageAhead
       /\ found \in Seq(Items)
    BY DEF ListsOnce, TypeOK
  <1>. IsInjective(<<>>) /\ \A j \in {} : FALSE
    BY DEF IsInjective
  <1>1. CASE NextQuery
    <2>1. UNCHANGED <<cache, found, page>> /\ resolving' # "asking"
      BY <1>1 DEF NextQuery
    <2>2. \A k \in DOMAIN pools' : IsInjective(pools'[k])
      <3>1. CASE Cached(Expression) /\ pools' = Append(pools, cache[Expression])
        <4>1. IsSeq(pools)
          BY SeqIsSeq DEF TypeOK
        <4>2. /\ DOMAIN pools' = 1 .. Len(pools) + 1 /\ pools'[Len(pools) + 1] = cache[Expression]
              /\ \A k \in DOMAIN pools : pools'[k] = pools[k]
              /\ DOMAIN pools = 1 .. Len(pools) /\ Len(pools) \in Nat
          BY <3>1, <4>1, AppendIsSeq, IsSeqFacts
        <4>3. \A k \in DOMAIN pools' : k \in DOMAIN pools \/ k = Len(pools) + 1
          BY <4>2
        <4>. QED  BY <3>1, <4>2, <4>3 DEF Cached
      <3>2. CASE UNCHANGED pools
        BY <3>2
      <3>. QED  BY <1>1, <3>1, <3>2 DEF NextQuery
    <2>3. OnceCalls(frames')
      <3>1. CASE frames' = <<Frame(Expression, NoList)>>
        <4>1. PICK f : f = Frame(Expression, NoList)
          OBVIOUS
        <4>2. f.bound = NoList /\ f.left = NoList
          BY <4>1 DEF Frame
        <4>3. OnceCalls(<<f>>)
          <5>1. \A n \in DOMAIN <<f>> : <<f>>[n] = f
            OBVIOUS
          <5>. QED  BY <4>2, <5>1 DEF OnceCalls, OnceIn
        <4>. QED  BY <3>1, <4>1, <4>3
      <3>2. CASE UNCHANGED frames
        BY <3>2
      <3>. QED  BY <1>1, <3>1, <3>2 DEF NextQuery
    <2>. QED  BY <2>1, <2>2, <2>3
  <1>2. CASE HandOver \/ UnboundedNot
    <2>1. UNCHANGED <<pools, cache, frames, found, page>> /\ resolving' # "asking"
      BY <1>2 DEF HandOver, UnboundedNot, request
    <2>. QED  BY <2>1
  <1>3. CASE AskForAtom
    <2>1. UNCHANGED <<pools, cache, frames, found>>
      BY <1>3 DEF AskForAtom
    <2>2. CASE page' = Opening(Asked)
      <3>1. page' = Lookup \/ page' = Page(0, <<>>)
        BY <2>2 DEF Opening
      <3>2. page'.got = <<>>
        BY <3>1 DEF Lookup, Page
      <3>3. PageAhead'
        BY <3>2 DEF PageAhead, ToSet
      <3>. QED  BY <2>1, <3>2, <3>3
    <2>3. CASE resolving' = "value" /\ UNCHANGED page
      BY <2>1, <2>3
    <2>. QED  BY <1>3, <2>2, <2>3 DEF AskForAtom
  <1>4. CASE EvalLeft \/ EvalRight \/ EvalNot \/ Combine
    <2>1. UNCHANGED <<pools, cache, page>> /\ resolving' # "asking"
      BY <1>4 DEF EvalLeft, EvalRight, EvalNot, Combine, Calls, Return
    <2>2. OnceCalls(frames') /\ IsInjective(found')
      BY <1>4, OnceEval
    <2>. QED  BY <2>1, <2>2
  <1>5. CASE Resolved
    <2>1. /\ pools' = Append(pools, found) /\ found' = <<>> /\ UNCHANGED <<frames, page>>
          /\ resolving' = "between"
          /\ cache' = [e \in DOMAIN cache \cup {Expression} |->
                          IF e = Expression THEN found ELSE cache[e]]
      BY <1>5 DEF Resolved
    <2>2. IsSeq(pools)
      BY SeqIsSeq DEF TypeOK
    <2>3. /\ DOMAIN pools' = 1 .. Len(pools) + 1 /\ pools'[Len(pools) + 1] = found
          /\ \A k \in DOMAIN pools : pools'[k] = pools[k]
          /\ DOMAIN pools = 1 .. Len(pools) /\ Len(pools) \in Nat
      BY <2>1, <2>2, AppendIsSeq, IsSeqFacts
    <2>4. \A k \in DOMAIN pools' : k \in DOMAIN pools \/ k = Len(pools) + 1
      BY <2>3
    <2>5. \A e \in DOMAIN cache' : IsInjective(cache'[e])
      BY <2>1
    <2>. QED  BY <2>1, <2>3, <2>4, <2>5
  <1>6. CASE FindId
    <2>1. page' = Page(0, <<>>) /\ UNCHANGED <<pools, cache, frames, found>>
      BY <1>6 DEF FindId
    <2>2. page'.got = <<>>
      BY <2>1 DEF Page
    <2>3. PageAhead'
      BY <2>2 DEF PageAhead, ToSet
    <2>. QED  BY <2>1, <2>2, <2>3
  <1>7. ASSUME NEW items \in Seq(Items), IsInjective(items), resolving = "asking", Answered(items)
        PROVE  /\ UNCHANGED <<pools, cache>> /\ OnceCalls(frames') /\ IsInjective(found')
               /\ page'.got = <<>> /\ resolving' # "asking"
    <2>1. OnceCalls(frames') /\ IsInjective(found')
      BY <1>7, OnceAnswered
    <2>2. /\ page' = NoPage /\ resolving' \in {"calling", "returning"}
          /\ UNCHANGED <<queries, pools, cache>>
      BY <1>7, AnsweredFacts
    <2>. QED  BY <2>1, <2>2, EmptyPage
  <1>8. CASE FindNoId
    <2>1. resolving = "asking" /\ Answered(<<>>) /\ <<>> \in Seq(Items)
      BY <1>8 DEF FindNoId
    <2>. QED  BY <1>7, <2>1
  <1>9. CASE FetchPage
    <2>1. PICK items \in Seq(Items), got \in Seq(Items), total \in Nat :
              /\ items = Cut(Listing(Asked), page.start) /\ got = page.got \o items
              /\ Answer(Asked, got) \in Seq(Items)
              /\ IF LastPage(items, page.start, total)
                 THEN Answered(Answer(Asked, got))
                 ELSE /\ page' = Page(page.start + Len(items), got)
                      /\ UNCHANGED <<queries, pools, cache, frames, found, resolving>>
              /\ UNCHANGED <<jellyfin, misled>>
      BY <1>9, FetchFacts
    <2>2. resolving = "asking" /\ page.asking = "items"
      BY <1>9 DEF FetchPage
    <2>3. IsInjective(Listing(Asked))
      BY ListingOnce DEF ListsOnce
    <2>4. /\ IsInjective(got) /\ page.start + Len(items) \in Nat
          /\ \A j \in DOMAIN Listing(Asked) :
                Listing(Asked)[j] \in ToSet(got) => j <= page.start + Len(items)
      BY <2>1, <2>2, <2>3, OncePaged
    <2>5. PICK answer \in Seq(Items) : answer = Answer(Asked, got)
      BY <2>1
    <2>6. IsInjective(answer)
      BY <2>4, <2>5, KeptFacts DEF Answer
    <2>7. CASE Answered(answer)
      BY <1>7, <2>2, <2>6, <2>7
    <2>8. CASE /\ page' = Page(page.start + Len(items), got)
               /\ UNCHANGED <<queries, pools, cache, frames, found, resolving>>
      <3>1. page'.got = got /\ page'.start = page.start + Len(items)
        BY <2>8 DEF Page
      <3>2. Listing(Asked)' = Listing(Asked)
        BY <2>1, <2>8 DEF Listing, Asked, Top, jellyfin
      <3>3. PageAhead'
        BY <2>4, <3>1, <3>2 DEF PageAhead
      <3>. QED  BY <2>4, <2>8, <3>1, <3>3
    <2>. QED  BY <2>1, <2>5, <2>7, <2>8
  <1>. QED  BY <1>1, <1>2, <1>3, <1>4, <1>5, <1>6, <1>8, <1>9 DEF GoesOn

LEMMA ListsOnceStep ==
    ASSUME TypeOK, CallsOK, ListsOnce, Next
    PROVE  ListsOnce'
  <1>1. CASE Resolve
    <2>1. GoesOn /\ UNCHANGED <<shelf, come>>
      BY <1>1, JellyfinStays DEF Resolve, jellyfin
    <2>. QED  BY <2>1, OnceResolves DEF ListsOnce
  <1>2. CASE LibraryChanges
    <2>1. UNCHANGED <<pools, cache, frames, found, page, resolving>>
      BY <1>2 DEF LibraryChanges, ItemComes, ItemGoes, request
    <2>2. CASE ItemComes
      <3>1. PICK i \in Items \ (ToSet(shelf) \cup gone), at \in 1 .. (Len(shelf) + 1) :
               shelf' = InsertAt(shelf, at, i) /\ come' = come \cup {i}
        BY <2>2 DEF ItemComes
      <3>2. IsInjective(shelf')
        BY <3>1, InsertionOnce DEF ListsOnce, TypeOK
      <3>. QED  BY <3>1, <3>2 DEF ListsOnce
    <2>3. CASE ItemGoes
      <3>1. PICK at \in DOMAIN shelf : shelf' = RemoveAt(shelf, at) /\ come' = come
        BY <2>3 DEF ItemGoes
      <3>2. IsInjective(shelf')
        BY <3>1, RemovalOnce DEF ListsOnce, TypeOK
      <3>3. ASSUME come = {}, resolving = "asking", page.asking = "items" PROVE PageAhead'
        <4>1. PageAhead /\ UNCHANGED <<frames, page>> /\ page.start \in Nat
          BY <2>1, <3>3 DEF ListsOnce, TypeOK
        <4>2. PICK atom : atom = Asked
          OBVIOUS
        <4>3. Asked' = atom
          BY <4>1, <4>2 DEF Asked, Top
        <4>4. ASSUME NEW j \in DOMAIN Listing(atom)', Listing(atom)'[j] \in ToSet(page.got)
              PROVE  j <= page.start
          <5>1. PICK m \in DOMAIN Listing(atom) : j <= m /\ Listing(atom)[m] = Listing(atom)'[j]
            BY <2>3, ListingLoses
          <5>2. m <= page.start
            BY <4>1, <4>2, <4>4, <5>1 DEF PageAhead
          <5>3. DOMAIN Listing(atom) \subseteq Int
            <6>1. Listing(atom) \in Seq(Items)
              BY ListingType
            <6>. QED  BY <6>1
          <5>4. DOMAIN Listing(atom)' \subseteq Int
            <6>1. shelf \in Seq(Items) /\ fits' = fits
              BY <2>3 DEF TypeOK, ItemGoes
            <6>2. shelf' \in Seq(Items)
              BY <3>1, <6>1, RemoveAtFacts
            <6>3. Listing(atom)' \in Seq(Items)
              BY <6>1, <6>2, KeptFacts DEF Listing
            <6>. QED  BY <6>3
          <5>. QED  BY <4>1, <5>1, <5>2, <5>3, <5>4
        <4>. QED  BY <4>1, <4>3, <4>4 DEF PageAhead
      <3>. QED  BY <2>1, <3>1, <3>2, <3>3 DEF ListsOnce
    <2>. QED  BY <1>2, <2>2, <2>3 DEF LibraryChanges
  <1>3. CASE Load \/ EvaluationFails \/ RequestIsLost \/ PlanDay \/ Finish
    <2>1. UNCHANGED <<shelf, fits, come, pools, cache, frames, found, page>>
          /\ (resolving' # "asking" \/ UNCHANGED resolving)
      BY <1>3, LoadDeclares DEF Declared, EndOfScript, EvaluationFails, RequestIsLost, RequestFails,
                                PlanDay, Finish, resolverVars, request, jellyfin
    <2>2. PageAhead => PageAhead'
      BY <2>1 DEF PageAhead, Listing, Asked, Top
    <2>. QED  BY <2>1, <2>2 DEF ListsOnce
  <1>. QED  BY <1>1, <1>2, <1>3 DEF Next

-----------------------------------------------------------------------------
(* The days planned. *)

\* A step before the window is planned plans no day; one that plans a day
\* leaves everything else alone.
LEMMA Planning ==
    ASSUME Phases, TypeOK, Next
    PROVE  \/ outcome = "planning" /\ slots = <<>> /\ UNCHANGED <<outcome, slots>>
           \/ /\ PlanDay \/ Finish
              /\ outcome = "planning" /\ resolving = "done" /\ loading = "loaded"
              /\ UNCHANGED <<script, plan, loading, first, resolverVars>>
  <1>1. CASE Load \/ EvaluationFails
    <2>1. loading # "loaded" /\ UNCHANGED <<outcome, slots>>
      BY <1>1, LoadDeclares DEF Declared, EndOfScript, EvaluationFails
    <2>. QED  BY <2>1 DEF Phases
  <1>2. CASE Resolve
    <2>1. resolving # "done" /\ UNCHANGED <<outcome, slots>>
      BY <1>2, WhereTo DEF Resolve, channelVars, Evaluating
    <2>. QED  BY <2>1 DEF Phases
  <1>3. CASE RequestIsLost \/ LibraryChanges
    <2>1. resolving = "asking" /\ UNCHANGED <<outcome, slots>>
      BY <1>3 DEF RequestIsLost, RequestFails, LibraryChanges, ItemComes, ItemGoes, channelVars
    <2>. QED  BY <2>1 DEF Phases
  <1>4. CASE PlanDay \/ Finish
    <2>1. resolving = "done" /\ outcome = "planning"
          /\ UNCHANGED <<script, plan, loading, first, resolverVars>>
      BY <1>4 DEF PlanDay, Finish
    <2>. QED  BY <1>4, <2>1 DEF Phases
  <1>. QED  BY <1>1, <1>2, <1>3, <1>4 DEF Next

\* The blocks of a day are those of the plan that apply to it.
LEMMA ActiveFacts ==
    ASSUME NEW blocks, IsSeq(blocks), NEW day
    PROVE  /\ IsSeq(Active(blocks, day))
           /\ DOMAIN Active(blocks, day) = 1 .. Len(Active(blocks, day))
           /\ Len(Active(blocks, day)) \in Nat
           /\ ToSet(Active(blocks, day)) = {b \in ToSet(blocks) : AppliesToday(b.on, day)}
           /\ \A i \in DOMAIN Active(blocks, day) :
                 Active(blocks, day)[i] \in {b \in ToSet(blocks) : AppliesToday(b.on, day)}
           /\ IsInjective(blocks) => IsInjective(Active(blocks, day))
  <1> DEFINE act == Active(blocks, day)
  <1>1. /\ act \in Seq(ToSet(blocks))
        /\ ToSet(act) = ToSet(blocks) \cap {b \in ToSet(blocks) : AppliesToday(b.on, day)}
        /\ IsInjective(blocks) => IsInjective(act)
    BY KeptFacts DEF Active, IsSeq
  <1>. HIDE DEF act
  <1>2. IsSeq(act) /\ DOMAIN act = 1 .. Len(act) /\ Len(act) \in Nat
    BY <1>1, SeqIsSeq
  <1>3. \A i \in DOMAIN act : act[i] \in ToSet(act)
    BY <1>2, IsSeqFacts
  <1>. QED  BY <1>1, <1>2, <1>3 DEF act

\* A day planned: its blocks and the keys they come to.
Planned(keys) ==
    [i \in DOMAIN Active(plan.blocks, Day(Len(slots) + 1)) |->
        [block |-> Active(plan.blocks, Day(Len(slots) + 1))[i], key |-> keys[i],
         collection |-> Airs(Active(plan.blocks, Day(Len(slots) + 1))[i], keys[i])]]

LEMMA PlanDayFacts ==
    ASSUME PlanDay
    PROVE  \E keys, reached, gap :
              /\ reached \in 0 .. Len(Active(plan.blocks, Day(Len(slots) + 1)))
              /\ \A i \in DOMAIN Active(plan.blocks, Day(Len(slots) + 1)) :
                    keys[i] \in Keys(Active(plan.blocks, Day(Len(slots) + 1))[i],
                                     Day(Len(slots) + 1))
              /\ IF DayFails(Active(plan.blocks, Day(Len(slots) + 1)), keys, reached, gap)
                 THEN outcome' = "error" /\ UNCHANGED slots
                 ELSE slots' = Append(slots, Planned(keys)) /\ UNCHANGED outcome
  BY DEF PlanDay, Planned

LEMMA SlotsStep ==
    ASSUME SlotsOK, Phases, TypeOK, Next
    PROVE  SlotsOK'
  <1>1. CASE slots = <<>> /\ UNCHANGED slots
    BY <1>1 DEF SlotsOK, IsSeq
  <1>2. ASSUME UNCHANGED <<slots, plan, first>> PROVE SlotsOK'
    BY <1>2 DEF SlotsOK, Day
  <1>3. CASE Finish
    BY <1>2, <1>3 DEF Finish
  <1>4. ASSUME PlanDay, UNCHANGED <<plan, first>> PROVE SlotsOK'
    <2>1. PICK day : day = Day(Len(slots) + 1)
      OBVIOUS
    <2>2. PICK active : active = Active(plan.blocks, day)
      OBVIOUS
    <2>3. PICK keys, reached, gap :
             /\ \A i \in DOMAIN active : keys[i] \in Keys(active[i], day)
             /\ IF DayFails(active, keys, reached, gap)
                THEN outcome' = "error" /\ UNCHANGED slots
                ELSE slots' = Append(slots, Planned(keys)) /\ UNCHANGED outcome
      BY <1>4, <2>1, <2>2, PlanDayFacts
    <2>4. CASE DayFails(active, keys, reached, gap)
      BY <1>2, <1>4, <2>3, <2>4
    <2>5. CASE ~DayFails(active, keys, reached, gap)
      <3>1. PICK slot : slot = Planned(keys)
        OBVIOUS
      <3>2. slots' = Append(slots, slot)
        BY <2>3, <2>5, <3>1
      <3>3. /\ IsSeq(slots') /\ DOMAIN slots' = 1 .. Len(slots) + 1
            /\ \A d \in DOMAIN slots : slots'[d] = slots[d]
            /\ slots'[Len(slots) + 1] = slot
        BY <3>2, AppendIsSeq DEF SlotsOK
      <3>4. Len(slots) \in Nat /\ DOMAIN slots = 1 .. Len(slots)
        BY IsSeqFacts DEF SlotsOK
      <3>5. /\ DOMAIN slot = DOMAIN active
            /\ \A i \in DOMAIN active : slot[i].block = active[i] /\ slot[i].key = keys[i]
        BY <2>1, <2>2, <3>1 DEF Planned
      <3>6. \A i \in DOMAIN active : keys[i] # Raises
        BY <2>5 DEF DayFails
      <3>7. \A d : Day(d)' = Day(d)
        BY <1>4 DEF Day
      <3>8. ASSUME NEW d \in DOMAIN slots'
            PROVE  /\ DOMAIN slots'[d] = DOMAIN Active(plan.blocks, Day(d))
                   /\ \A i \in DOMAIN slots'[d] :
                         /\ slots'[d][i].block = Active(plan.blocks, Day(d))[i]
                         /\ slots'[d][i].key
                               \in Keys(Active(plan.blocks, Day(d))[i], Day(d)) \ {Raises}
        <4>1. CASE d \in DOMAIN slots
          BY <3>3, <4>1 DEF SlotsOK
        <4>2. CASE d = Len(slots) + 1
          BY <2>1, <2>2, <2>3, <3>3, <3>5, <3>6, <4>2
        <4>. QED  BY <3>3, <3>4, <4>1, <4>2
      <3>. QED  BY <1>4, <3>3, <3>7, <3>8 DEF SlotsOK
    <2>. QED  BY <2>4, <2>5
  <1>. QED  BY <1>1, <1>3, <1>4, Planning

-----------------------------------------------------------------------------
(* Why a day fails. *)

\* The reasons there are for a failure on `day`.
Reason(day) ==
    LET today == {b \in ToSet(plan.blocks) : AppliesToday(b.on, day)}
        named(b, part) == {Chosen(b, k, part) : k \in DOMAIN b.variants \cup {Own}}
    IN  \/ today = {} /\ plan.default = NoDefault
        \/ DefaultIsMissing
        \/ \E b \in today :
              \/ b.selector.type = "proc"
              \/ b.selector.type = "dow" /\ DOMAIN b.selector.table \cap WordsFor(day) = {}
              \/ \E c \in named(b, "collection") : PoolOf(c) = <<>>
              \/ \E l \in named(b, "layout") : l \notin plan.layouts

LEMMA ReasonIs == FailuresHaveAReason <=> (outcome = "error" => Reason(Day(Len(slots) + 1)))
  BY DEF FailuresHaveAReason, Reason

\* It stays the reason while plan, pools and days stay.
LEMMA ReasonKept ==
    ASSUME UNCHANGED <<plan, pools, slots, first>>, Reason(Day(Len(slots) + 1))
    PROVE  Reason(Day(Len(slots) + 1))'
  <1>1. Day(Len(slots) + 1)' = Day(Len(slots) + 1)
    BY DEF Day
  <1>2. ASSUME NEW day, Reason(day) PROVE Reason(day)'
    <2>1. DefaultIsMissing' = DefaultIsMissing
      BY DEF DefaultIsMissing
    <2>2. \A name : PoolOf(name)' = PoolOf(name)
      BY DEF PoolOf
    <2>3. plan' = plan
      OBVIOUS
    <2>. QED  BY <1>2, <2>1, <2>2, <2>3 DEF Reason
  <1>. QED  BY <1>1, <1>2

LEMMA OwnIsNoVariant == Own \notin VariantNames /\ Raises \notin VariantNames /\ Own # Raises
  BY ChannelAssumption DEF Own, Raises

\* A selector that raises is a Proc, or a table without a word for the day.
LEMMA WhyItRaises ==
    ASSUME NEW b, GoodBlock(b), NEW day \in 0 .. 6, Raises \in Keys(b, day)
    PROVE  \/ b.selector.type = "proc"
           \/ b.selector.type = "dow" /\ DOMAIN b.selector.table \cap WordsFor(day) = {}
  <1>1. b.varies
    BY OwnIsNoVariant DEF Keys
  <1>2. CASE b.selector.type # "dow"
    BY <1>1, <1>2 DEF GoodBlock, BlockOK, SelectorOK
  <1>3. CASE b.selector.type = "dow"
    <2>1. TableOK(b.selector.table, b.variants)
      BY <1>1, <1>3 DEF GoodBlock, BlockOK, SelectorOK
    <2>2. FromTable(b.selector.table, day) = Raises
      BY <1>1, <1>3, OwnIsNoVariant DEF Keys
    <2>3. \A k \in DOMAIN b.selector.table : b.selector.table[k] # Raises
      BY <2>1, OwnIsNoVariant DEF TableOK, GoodBlock
    <2>4. DOMAIN b.selector.table \cap WordsFor(day) = {}
      <3>1. ASSUME NEW k \in DOMAIN b.selector.table, k \in WordsFor(day) PROVE FALSE
        <4>1. DayName[day] \notin DOMAIN b.selector.table
          BY <2>2, <2>3 DEF FromTable
        <4>2. CASE day >= 5
          <5>1. 5 <= day /\ day <= 6 /\ ~(day <= 4)
            BY <4>2
          <5>2. "weekends" \notin DOMAIN b.selector.table
            BY <2>2, <2>3, <4>1, <5>1 DEF FromTable
          <5>3. "default" \notin DOMAIN b.selector.table
            BY <2>2, <2>3, <4>1, <5>1, <5>2 DEF FromTable
          <5>. QED  BY <3>1, <4>1, <4>2, <5>2, <5>3 DEF WordsFor
        <4>3. CASE ~(day >= 5)
          <5>1. 0 <= day /\ day <= 4 /\ ~(5 <= day)
            BY <4>3
          <5>2. "weekdays" \notin DOMAIN b.selector.table
            BY <2>2, <2>3, <4>1, <5>1 DEF FromTable
          <5>3. "default" \notin DOMAIN b.selector.table
            BY <2>2, <2>3, <4>1, <5>1, <5>2 DEF FromTable
          <5>. QED  BY <3>1, <4>1, <4>3, <5>2, <5>3 DEF WordsFor
        <4>. QED  BY <4>2, <4>3
      <3>. QED  BY <3>1
    <2>. QED  BY <1>3, <2>4
  <1>. QED  BY <1>2, <1>3

LEMMA ChosenIsNamed ==
    ASSUME NEW b, GoodBlock(b), NEW key, NEW part
    PROVE  \E k \in DOMAIN b.variants \cup {Own} : Chosen(b, key, part) = Chosen(b, k, part)
  <1>1. Own \notin DOMAIN b.variants
    BY OwnIsNoVariant DEF GoodBlock
  <1>2. CASE key \in DOMAIN b.variants
    BY <1>2
  <1>3. CASE key \notin DOMAIN b.variants
    BY <1>1, <1>3 DEF Chosen
  <1>. QED  BY <1>2, <1>3

LEMMA WhyADayFails ==
    ASSUME PlanOK, NEW day \in 0 .. 6, NEW active, active = Active(plan.blocks, day),
           NEW keys, \A i \in DOMAIN active : keys[i] \in Keys(active[i], day),
           NEW reached \in 0 .. Len(active), NEW gap, DayFails(active, keys, reached, gap)
    PROVE  Reason(day)
  <1>1. /\ DOMAIN active = 1 .. Len(active) /\ Len(active) \in Nat
        /\ ToSet(active) = {b \in ToSet(plan.blocks) : AppliesToday(b.on, day)}
        /\ \A i \in DOMAIN active :
              active[i] \in {b \in ToSet(plan.blocks) : AppliesToday(b.on, day)}
    BY ActiveFacts DEF PlanOK, GoodPlan
  <1>2. \A b \in ToSet(plan.blocks) : GoodBlock(b)
    BY DEF PlanOK, GoodPlan, ToSet
  <1>3. CASE \E i \in DOMAIN active : keys[i] = Raises
    <2>1. PICK i \in DOMAIN active : Raises \in Keys(active[i], day)
      BY <1>3
    <2>2. PICK b \in ToSet(plan.blocks) : b = active[i] /\ AppliesToday(b.on, day) /\ GoodBlock(b)
      BY <1>1, <1>2
    <2>. QED  BY <2>1, <2>2, WhyItRaises DEF Reason
  <1>4. CASE active = <<>> /\ plan.default = NoDefault
    <2>1. ToSet(active) = {}
      BY <1>4 DEF ToSet
    <2>. QED  BY <1>1, <1>4, <2>1 DEF Reason
  <1>5. CASE \E i \in 1 .. reached : \/ LaidOut(active[i], keys[i]) \notin plan.layouts
                                     \/ PoolOf(Airs(active[i], keys[i])) = <<>>
    <2>1. PICK i \in 1 .. reached : \/ LaidOut(active[i], keys[i]) \notin plan.layouts
                                    \/ PoolOf(Airs(active[i], keys[i])) = <<>>
      BY <1>5
    <2>2. i \in DOMAIN active
      BY <1>1
    <2>3. PICK b \in ToSet(plan.blocks) : b = active[i] /\ AppliesToday(b.on, day) /\ GoodBlock(b)
      BY <1>1, <1>2, <2>2
    <2>4. PICK key : key = keys[i]
      OBVIOUS
    <2>5. CASE LaidOut(b, key) \notin plan.layouts
      <3>1. PICK k \in DOMAIN b.variants \cup {Own} :
               Chosen(b, key, "layout") = Chosen(b, k, "layout")
        BY <2>3, ChosenIsNamed
      <3>2. Chosen(b, k, "layout") \notin plan.layouts
        BY <2>5, <3>1 DEF LaidOut
      <3>. QED  BY <2>3, <3>1, <3>2 DEF Reason
    <2>6. CASE PoolOf(Airs(b, key)) = <<>>
      <3>1. PICK k \in DOMAIN b.variants \cup {Own} :
               Chosen(b, key, "collection") = Chosen(b, k, "collection")
        BY <2>3, ChosenIsNamed
      <3>2. PoolOf(Chosen(b, k, "collection")) = <<>>
        BY <2>6, <3>1 DEF Airs
      <3>. QED  BY <2>3, <3>1, <3>2 DEF Reason
    <2>. QED  BY <2>1, <2>3, <2>4, <2>5, <2>6
  <1>6. CASE gap /\ DefaultIsMissing
    BY <1>6 DEF Reason
  <1>. QED  BY <1>3, <1>4, <1>5, <1>6 DEF DayFails

LEMMA DayType ==
    ASSUME TypeOK, NEW d \in Nat \ {0}
    PROVE  Day(d) \in 0 .. 6
  <1>1. first \in 0 .. 6 /\ first + d - 1 \in Nat
    BY DEF TypeOK
  <1>. QED  BY <1>1 DEF Day

LEMMA FailuresStep ==
    ASSUME FailuresHaveAReason, TypeOK, Phases, PlanOK, SlotsOK, Next
    PROVE  FailuresHaveAReason'
  <1>1. ASSUME UNCHANGED <<plan, pools, slots, first>>,
               Reason(Day(Len(slots) + 1))
        PROVE  Reason(Day(Len(slots) + 1))'
    BY <1>1, ReasonKept
  <1>2. CASE outcome = "planning" /\ UNCHANGED outcome
    BY <1>2, ReasonIs DEF FailuresHaveAReason
  <1>3. CASE Finish
    BY <1>3 DEF Finish, FailuresHaveAReason
  <1>4. CASE PlanDay /\ outcome = "planning"
    <2>1. PICK day : day = Day(Len(slots) + 1)
      OBVIOUS
    <2>2. PICK active : active = Active(plan.blocks, day)
      OBVIOUS
    <2>3. PICK keys, reached, gap :
             /\ reached \in 0 .. Len(active)
             /\ \A i \in DOMAIN active : keys[i] \in Keys(active[i], day)
             /\ IF DayFails(active, keys, reached, gap)
                THEN outcome' = "error" /\ UNCHANGED slots
                ELSE slots' = Append(slots, Planned(keys)) /\ UNCHANGED outcome
      BY <1>4, <2>1, <2>2, PlanDayFacts
    <2>4. UNCHANGED <<plan, pools, first>>
      BY <1>4 DEF PlanDay, resolverVars
    <2>5. CASE DayFails(active, keys, reached, gap)
      <3>1. day \in 0 .. 6
        <4>1. Len(slots) \in Nat
          BY IsSeqFacts DEF SlotsOK
        <4>. QED  BY <2>1, <4>1, DayType
      <3>2. Reason(Day(Len(slots) + 1))
        BY <2>1, <2>2, <2>3, <2>5, <3>1, WhyADayFails
      <3>. QED  BY <1>1, <2>3, <2>4, <2>5, <3>2 DEF FailuresHaveAReason, Reason
    <2>6. CASE ~DayFails(active, keys, reached, gap)
      BY <1>4, <2>3, <2>6 DEF FailuresHaveAReason
    <2>. QED  BY <2>5, <2>6
  <1>. QED  BY <1>2, <1>3, <1>4, Planning

-----------------------------------------------------------------------------
(* The invariant is inductive. *)

LEMMA InitInv == Init => Inv
  <1>. SUFFICES ASSUME Init PROVE Inv
    OBVIOUS
  <1>1. PICK start \in Starts :
           /\ script = start.script /\ plan = EmptyPlan /\ loading = "running"
           /\ first = start.day /\ slots = <<>> /\ outcome = "planning"
           /\ ResolverInit(start.shelf, start.fits, start.counts)
    BY DEF Init
  <1>2. /\ start.day \in 0 .. 6 /\ start.counts \in BOOLEAN
        /\ start.shelf \in Seq(Items) /\ IsInjective(start.shelf)
        /\ start.fits \in [Atoms -> SUBSET Items]
        /\ start.script \in Seq(ToSet(start.script))
        /\ \A i \in DOMAIN start.script :
              start.script[i].verb = "block" =>
                  /\ DOMAIN start.script[i].variants \subseteq VariantNames
                  /\ \E j \in i + 1 .. Len(start.script) : start.script[j].verb = "end"
    BY ChannelAssumption
  <1>3. /\ shelf = start.shelf /\ fits = start.fits /\ counts = start.counts
        /\ come = {} /\ gone = {} /\ queries = <<>> /\ pools = <<>> /\ cache = <<>>
        /\ frames = <<>> /\ found = <<>> /\ page = NoPage
        /\ resolving = "idle" /\ misled = FALSE
    BY <1>1 DEF ResolverInit
  <1>4. WindowDays \in Nat /\ Len(slots) = 0
    BY <1>1, ChannelAssumption
  <1>5. TypeOK
    <2>1. RunTypes
      BY <1>1, <1>2, <1>4 DEF RunTypes
    <2>4. JellyfinTypes
      BY <1>2, <1>3 DEF JellyfinTypes
    <2>5. WhereTypes
      BY <1>3 DEF WhereTypes, ResolvingStates
    <2>2. PoolTypes /\ found \in Seq(Items)
      BY <1>3 DEF PoolTypes
    <2>3. PageTypes
      BY <1>3, EmptyPage DEF PageTypes
    <2>. QED  BY <1>3, <2>1, <2>2, <2>3, <2>4, <2>5, TypeParts
  <1>6. Phases
    BY <1>1, <1>3 DEF Phases
  <1>7. ScriptOK
    BY <1>1, <1>2 DEF ScriptOK, IsSeq
  <1>8. PlanOK
    BY <1>1, <1>3 DEF PlanOK, GoodPlan, EmptyPlan, IsSeq
  <1>9. CallsOK
    BY <1>3 DEF CallsOK, GoodCalls, IsSeq
  <1>10. CacheServes
    BY <1>3 DEF CacheServes
  <1>11. ListsOnce
    BY <1>1, <1>2, <1>3, EmptyPage DEF ListsOnce, OnceCalls, IsInjective
  <1>12. SlotsOK
    BY <1>1 DEF SlotsOK, IsSeq
  <1>13. FailuresHaveAReason
    BY <1>1 DEF FailuresHaveAReason
  <1>. QED  BY <1>5, <1>6, <1>7, <1>8, <1>9, <1>10, <1>11, <1>12, <1>13 DEF Inv

\* Only its own verbs change the script and the plan.
LEMMA ScriptAndPlan ==
    ASSUME ScriptOK, PlanOK, Next
    PROVE  ScriptOK' /\ PlanOK'
  <1>1. CASE Load
    <2>1. CASE Declared
      BY <1>1, <2>1, ScriptStep, PlanStep
    <2>2. CASE EndOfScript
      <3>1. UNCHANGED script
        BY <2>2 DEF EndOfScript
      <3>. QED  BY <1>1, <3>1, PlanStep DEF ScriptOK
    <2>. QED  BY <1>1, <2>1, <2>2, LoadDeclares
  <1>2. CASE ~Load
    <2>1. UNCHANGED <<script, plan>>
      BY <1>2 DEF Next, EvaluationFails, Resolve, RequestIsLost, LibraryChanges, PlanDay, Finish,
                  channelVars
    <2>2. UNCHANGED queries
      <3>1. CASE Resolve
        BY <3>1, JellyfinStays DEF Resolve
      <3>. QED  BY <1>2, <3>1 DEF Next, EvaluationFails, RequestIsLost, RequestFails, LibraryChanges,
                  ItemComes, ItemGoes, PlanDay, Finish, resolverVars
    <2>. QED  BY <2>1, <2>2 DEF ScriptOK, PlanOK, EndsToCome
  <1>. QED  BY <1>1, <1>2

LEMMA NextInv == Inv /\ [Next]_vars => Inv'
  <1>. SUFFICES ASSUME Inv, [Next]_vars PROVE Inv'
    OBVIOUS
  <1>. USE DEF Inv
  <1>1. CASE Next
    <2>1. IsSeq(slots)
      BY DEF SlotsOK
    <2>2. TypeOK' /\ CallsOK'
      BY <1>1, <2>1, TypeStep
    <2>3. ScriptOK' /\ PlanOK'
      BY <1>1, ScriptAndPlan
    <2>4. Phases'
      BY <1>1, PhasesStep
    <2>5. CacheServes'
      BY <1>1, CacheStep
    <2>6. ListsOnce'
      BY <1>1, ListsOnceStep
    <2>7. SlotsOK'
      BY <1>1, SlotsStep
    <2>8. FailuresHaveAReason'
      BY <1>1, FailuresStep
    <2>. QED  BY <2>2, <2>3, <2>4, <2>5, <2>6, <2>7, <2>8
  <1>2. CASE UNCHANGED vars
    <2>1. UNCHANGED channelVars /\ UNCHANGED resolverVars
      BY <1>2 DEF vars
    <2>2. TypeOK' /\ CallsOK'
      BY <2>1 DEF TypeOK, CallsOK, channelVars, resolverVars, jellyfin, request
    <2>3. Phases' /\ ScriptOK' /\ PlanOK'
      BY <2>1 DEF Phases, ScriptOK, PlanOK, EndsToCome, Cached, Expression,
                  channelVars, resolverVars, jellyfin, request
    <2>4. CacheServes'
      BY <2>1 DEF CacheServes, resolverVars
    <2>5. ListsOnce'
      <3>1. UNCHANGED <<shelf, fits, come, pools, cache, frames, found, page, resolving>>
        BY <2>1 DEF resolverVars, jellyfin, request
      <3>2. PageAhead => PageAhead'
        BY <3>1 DEF PageAhead, Listing, Asked, Top
      <3>. QED  BY <3>1, <3>2 DEF ListsOnce
    <2>6. SlotsOK'
      BY <2>1 DEF SlotsOK, Day, channelVars
    <2>7. FailuresHaveAReason'
      <3>1. UNCHANGED <<plan, pools, slots, first, outcome>>
        BY <2>1 DEF channelVars, resolverVars
      <3>2. CASE outcome = "error"
        <4>1. Reason(Day(Len(slots) + 1))
          BY <3>2, ReasonIs
        <4>2. Reason(Day(Len(slots) + 1))'
          BY <3>1, <4>1, ReasonKept
        <4>. QED  BY <4>2 DEF FailuresHaveAReason, Reason
      <3>3. CASE outcome # "error"
        BY <3>1, <3>3 DEF FailuresHaveAReason
      <3>. QED  BY <3>2, <3>3
    <2>. QED  BY <2>2, <2>3, <2>4, <2>5, <2>6, <2>7
  <1>. QED  BY <1>1, <1>2

\* The inductive invariant of a run: the types, where the run is, what script
\* and plan still promise, the calls of _eval, the cache, the lists without
\* repeats, the slots of the days and the reasons of failures.
THEOREM ChannelInvariant == Spec => []Inv
  <1>1. Init => Inv
    BY InitInv
  <1>2. Inv /\ [Next]_vars => Inv'
    BY NextInv
  <1>. QED  BY <1>1, <1>2, PTL DEF Spec

\* Every variable of a run keeps its type: every pool, what every call of
\* _eval holds and what a page has brought are lists of items.
THEOREM ChannelTypes == Spec => []TypeOK
  <1>1. Inv => TypeOK
    BY DEF Inv
  <1>. QED  BY <1>1, ChannelInvariant, PTL

\* No query's pool names an item twice, unless one came in between two pages:
\* QueryResolver's bounds, unions and pages never repeat one.
THEOREM PoolsHaveNothingTwice == Spec => []NothingTwice
  <1>1. Inv => NothingTwice
    BY DEF Inv, ListsOnce, NothingTwice
  <1>. QED  BY <1>1, ChannelInvariant, PTL

\* Queries with one expression get one pool, though Jellyfin changes between
\* them: the resolver's cache answers the second.
THEOREM OnePoolPerExpression == Spec => []SameQuerySamePool
  <1>1. Inv => SameQuerySamePool
    BY DEF Inv, CacheServes, SameQuerySamePool
  <1>. QED  BY <1>1, ChannelInvariant, PTL

\* A key taken from a day-of-week table is a declared variant: what
\* normalize_variant_selector! accepts is enough for resolve_variant.
THEOREM AcceptedTablesNameVariants == Spec => []TablesNameVariants
  <1>1. ASSUME Inv, NEW d \in DOMAIN slots, NEW i \in DOMAIN slots[d],
               slots[d][i].block.selector.type = "dow", slots[d][i].key # Own
        PROVE  slots[d][i].key \in DOMAIN slots[d][i].block.variants
    <2>1. PICK b, key, day : b = slots[d][i].block /\ key = slots[d][i].key /\ day = Day(d)
      OBVIOUS
    <2>2. /\ b = Active(plan.blocks, day)[i] /\ i \in DOMAIN Active(plan.blocks, day)
          /\ key \in Keys(b, day) \ {Raises}
      BY <1>1, <2>1 DEF Inv, SlotsOK
    <2>3. GoodBlock(b)
      <3>1. IsSeq(plan.blocks) /\ \A n \in DOMAIN plan.blocks : GoodBlock(plan.blocks[n])
        BY <1>1 DEF Inv, PlanOK, GoodPlan
      <3>2. b \in ToSet(plan.blocks)
        BY <2>2, <3>1, ActiveFacts
      <3>. QED  BY <3>1, <3>2 DEF ToSet
    <2>4. b.varies /\ key = FromTable(b.selector.table, day)
      BY <1>1, <2>1, <2>2 DEF Keys
    <2>5. TableOK(b.selector.table, b.variants)
      BY <1>1, <2>1, <2>3, <2>4 DEF GoodBlock, BlockOK, SelectorOK
    <2>6. key = Raises \/ \E k \in DOMAIN b.selector.table : key = b.selector.table[k]
      BY <2>4 DEF FromTable
    <2>7. key \in DOMAIN b.variants
      BY <2>2, <2>5, <2>6 DEF TableOK
    <2>. QED  BY <2>1, <2>7
  <1>2. Inv => TablesNameVariants
    BY <1>1 DEF TablesNameVariants
  <1>. QED  BY <1>2, ChannelInvariant, PTL

\* A day fails only for a reason the script or Jellyfin gives.
THEOREM EveryFailureHasAReason == Spec => []FailuresHaveAReason
  <1>1. Inv => FailuresHaveAReason
    BY DEF Inv
  <1>. QED  BY <1>1, ChannelInvariant, PTL

\* Of two blocks for one time of day, one for weekdays and one for weekends,
\* exactly one is on the air on every day: what the `on:` filter lets through
\* of a schedule without duplicates.
THEOREM SplitSlotsServeEveryDay == Spec => []SplitSlotsAirOnce
  <1>1. ASSUME Inv, NEW d \in DOMAIN slots, NEW b \in ToSet(plan.blocks),
               NEW c \in ToSet(plan.blocks),
               Restricted(b, "weekdays"), Restricted(c, "weekends")
        PROVE  Cardinality({i \in DOMAIN slots[d] : slots[d][i].block \in {b, c}}) = 1
    <2>1. PICK day : day = Day(d)
      OBVIOUS
    <2>2. PICK active : active = Active(plan.blocks, day)
      OBVIOUS
    <2>3. IsSeq(slots) /\ DOMAIN slots[d] = DOMAIN active
          /\ \A i \in DOMAIN slots[d] : slots[d][i].block = active[i]
      BY <1>1, <2>1, <2>2 DEF Inv, SlotsOK
    <2>4. day \in 0 .. 6
      <3>1. d \in Nat \ {0}
        BY <2>3, IsSeqFacts
      <3>. QED  BY <1>1, <2>1, <3>1, DayType DEF Inv
    <2>5. IsSeq(plan.blocks) /\ IsInjective(plan.blocks)
      <3>1. loading = "loaded"
        BY <1>1 DEF Inv, Phases
      <3>2. script = <<>> /\ plan.scheduled
        BY <1>1, <3>1 DEF Inv, Phases
      <3>. QED  BY <1>1, <3>2, NoDuplicatesMeans DEF Inv, PlanOK, GoodPlan, EndsToCome
    <2>6. /\ IsSeq(active) /\ IsInjective(active)
          /\ ToSet(active) = {x \in ToSet(plan.blocks) : AppliesToday(x.on, day)}
      BY <2>2, <2>5, ActiveFacts
    <2>7. PICK e \in {b, c} : e \in ToSet(active) /\ \A x \in {b, c} : x \in ToSet(active) => x = e
      <3>1. AppliesToday(b.on, day) <=> day < 5
        BY <1>1 DEF Restricted, AppliesToday
      <3>2. AppliesToday(c.on, day) <=> day >= 5
        BY <1>1 DEF Restricted, AppliesToday
      <3>3. CASE day < 5
        <4>1. b \in ToSet(active) /\ c \notin ToSet(active)
          BY <2>4, <2>6, <3>1, <3>2, <3>3
        <4>. QED  BY <4>1
      <3>4. CASE day >= 5
        <4>1. c \in ToSet(active) /\ b \notin ToSet(active)
          BY <2>4, <2>6, <3>1, <3>2, <3>4
        <4>. QED  BY <4>1
      <3>. QED  BY <2>4, <3>3, <3>4
    <2>8. PICK n \in DOMAIN active : active[n] = e
      BY <2>7 DEF ToSet
    <2>9. {i \in DOMAIN slots[d] : slots[d][i].block \in {b, c}} = {n}
      <3>1. \A i \in DOMAIN active : active[i] \in ToSet(active)
        BY <2>6, IsSeqFacts
      <3>2. \A i \in DOMAIN active : active[i] \in {b, c} <=> i = n
        BY <2>6, <2>7, <2>8, <3>1 DEF IsInjective
      <3>. QED  BY <2>3, <2>8, <3>2
    <2>. QED  BY <2>9, FS_Singleton
  <1>2. Inv => SplitSlotsAirOnce
    BY <1>1 DEF SplitSlotsAirOnce
  <1>. QED  BY <1>2, ChannelInvariant, PTL

-----------------------------------------------------------------------------
(* The calls of _eval find what is true of an item. *)

\* Whether an item may be in what a call with this bound returns.
Allows(list, item) == list = NoList \/ item \in ToSet(list)

\* Whether a call is to return the item.
Due(f, V, item) == Allows(f.bound, item) /\ f.expr \in V

\* What a call is evaluating by a call in it.
Part(f) == IF f.expr.op = "not" THEN f.expr.expr
           ELSE IF f.left = NoList THEN f.expr.left ELSE f.expr.right

Near(e) == {p \in {e.left, e.right} : p.op = "atom"}

FrameFollows(f, P, V, item) ==
    /\ f.expr \in P /\ f.near \in Seq(Near(f.expr))
    /\ f.left # NoList =>
          /\ f.expr.op \in {"and", "or"}
          /\ item \in ToSet(f.left) <=> Allows(f.bound, item) /\ f.expr.left \in V

\* What the call above the n-th is to evaluate, and whether it is to return
\* the item.
Sought(calls, n, goal) == IF n = Len(calls) THEN goal ELSE Part(calls[n + 1])

Owed(calls, n, goal, V, item) ==
    IF n = Len(calls) THEN goal \in V
    ELSE Allows(calls[n + 1].bound, item) /\ Part(calls[n + 1]) \in V

StackFollows(calls, goal, P, V, item) ==
    \A n \in DOMAIN calls :
        /\ FrameFollows(calls[n], P, V, item)
        /\ calls[n].expr = Sought(calls, n, goal)
        /\ Due(calls[n], V, item) <=> Owed(calls, n, goal, V, item)
        /\ n > 1 => calls[n].near = <<>>

NothingNear(calls) == \A n \in DOMAIN calls : calls[n].near = <<>>

\* What the innermost call waits for, and what is awaited when there is none.
LEMMA Innermost ==
    ASSUME NEW calls, IsSeq(calls), NEW goal, NEW V, NEW item
    PROVE  /\ calls # <<>> =>
                /\ Sought(calls, 0, goal) = Part(Head(calls))
                /\ Owed(calls, 0, goal, V, item)
                      <=> Allows(Head(calls).bound, item) /\ Part(Head(calls)) \in V
           /\ calls = <<>> =>
                Sought(calls, 0, goal) = goal /\ (Owed(calls, 0, goal, V, item) <=> goal \in V)
  <1>1. CASE calls = <<>>
    BY <1>1 DEF Sought, Owed
  <1>2. CASE calls # <<>>
    <2>1. Head(calls) = calls[1] /\ 0 # Len(calls) /\ 0 + 1 = 1
      BY <1>2, TailFacts, IsSeqFacts
    <2>. QED  BY <1>2, <2>1 DEF Sought, Owed
  <1>. QED  BY <1>1, <1>2

\* A call put in front of the others.
LEMMA OneCallMore ==
    ASSUME NEW calls, IsSeq(calls), NEW f
    PROVE  /\ IsSeq(Cons(f, calls)) /\ Len(Cons(f, calls)) = Len(calls) + 1
           /\ DOMAIN Cons(f, calls) = 1 .. Len(calls) + 1
           /\ Cons(f, calls)[1] = f /\ Head(Cons(f, calls)) = f
           /\ \A n \in DOMAIN calls : Cons(f, calls)[n + 1] = calls[n]
  <1>1. PICK c : c = Cons(f, calls)
    OBVIOUS
  <1>2. /\ IsSeq(c) /\ c # <<>> /\ Head(c) = f /\ c[1] = f /\ Tail(c) = calls
    BY <1>1, ConsFacts
  <1>3. /\ Len(calls) = Len(c) - 1 /\ \A n \in DOMAIN calls : calls[n] = c[n + 1]
    BY <1>2, TailFacts
  <1>4. Len(c) \in Nat /\ DOMAIN c = 1 .. Len(c)
    BY <1>2, IsSeqFacts
  <1>5. Len(c) = Len(calls) + 1
    BY <1>3, <1>4
  <1>. QED  BY <1>1, <1>2, <1>3, <1>4, <1>5

\* A call for what the innermost waits for may be put in front of it.
LEMMA StackPush ==
    ASSUME NEW calls, IsSeq(calls), NEW goal, NEW P, NEW V, NEW item,
           StackFollows(calls, goal, P, V, item), NothingNear(calls),
           NEW f, FrameFollows(f, P, V, item), f.expr = Sought(calls, 0, goal),
           Due(f, V, item) <=> Owed(calls, 0, goal, V, item)
    PROVE  StackFollows(Cons(f, calls), goal, P, V, item)
  <1>1. PICK c, L : c = Cons(f, calls) /\ L = Len(calls)
    OBVIOUS
  <1>2. /\ Len(c) = L + 1 /\ DOMAIN c = 1 .. L + 1 /\ c[1] = f
        /\ \A n \in DOMAIN calls : c[n + 1] = calls[n]
    BY <1>1, OneCallMore
  <1>3. L \in Nat /\ DOMAIN calls = 1 .. L
    BY <1>1, IsSeqFacts
  <1>4. ASSUME NEW n \in DOMAIN c
        PROVE  /\ FrameFollows(c[n], P, V, item) /\ c[n].expr = Sought(calls, n - 1, goal)
               /\ Due(c[n], V, item) <=> Owed(calls, n - 1, goal, V, item)
               /\ n > 1 => c[n].near = <<>>
    <2>1. CASE n = 1
      <3>1. n - 1 = 0 /\ ~(n > 1)
        BY <2>1
      <3>. QED  BY <1>2, <2>1, <3>1
    <2>2. CASE n # 1
      <3>1. n - 1 \in DOMAIN calls /\ (n - 1) + 1 = n
        BY <1>2, <1>3, <2>2
      <3>2. c[n] = calls[n - 1]
        BY <1>2, <3>1
      <3>. QED  BY <3>1, <3>2 DEF StackFollows, NothingNear
    <2>. QED  BY <2>1, <2>2
  <1>5. ASSUME NEW n \in DOMAIN c
        PROVE  /\ Sought(c, n, goal) = Sought(calls, n - 1, goal)
               /\ Owed(c, n, goal, V, item) <=> Owed(calls, n - 1, goal, V, item)
    <2>1. CASE n = L + 1
      <3>1. n = Len(c) /\ n - 1 = Len(calls)
        BY <1>1, <1>2, <1>3, <2>1
      <3>. QED  BY <3>1 DEF Sought, Owed
    <2>2. CASE n # L + 1
      <3>1. n # Len(c) /\ n - 1 # Len(calls) /\ n \in DOMAIN calls /\ (n - 1) + 1 = n
        BY <1>1, <1>2, <1>3, <2>2
      <3>2. c[n + 1] = calls[(n - 1) + 1]
        BY <1>2, <3>1
      <3>. QED  BY <3>1, <3>2 DEF Sought, Owed
    <2>. QED  BY <2>1, <2>2
  <1>6. StackFollows(c, goal, P, V, item)
    BY <1>4, <1>5 DEF StackFollows
  <1>. QED  BY <1>1, <1>6

\* A call that ends leaves the others as they were.
LEMMA StackTail ==
    ASSUME NEW calls, IsSeq(calls), calls # <<>>, NEW goal, NEW P, NEW V, NEW item,
           StackFollows(calls, goal, P, V, item)
    PROVE  /\ StackFollows(Tail(calls), goal, P, V, item) /\ NothingNear(Tail(calls))
           /\ FrameFollows(Head(calls), P, V, item)
           /\ Head(calls).expr = Sought(Tail(calls), 0, goal)
           /\ Due(Head(calls), V, item) <=> Owed(Tail(calls), 0, goal, V, item)
  <1>1. PICK t, L : t = Tail(calls) /\ L = Len(calls)
    OBVIOUS
  <1>2. /\ IsSeq(t) /\ Len(t) = L - 1 /\ DOMAIN t = 1 .. L - 1
        /\ \A n \in DOMAIN t : n + 1 \in DOMAIN calls /\ t[n] = calls[n + 1]
        /\ 1 \in DOMAIN calls /\ Head(calls) = calls[1]
    BY <1>1, TailFacts
  <1>3. L \in Nat /\ DOMAIN calls = 1 .. L
    BY <1>1, IsSeqFacts
  <1>4. ASSUME NEW n \in 0 .. L - 1
        PROVE  /\ Sought(t, n, goal) = Sought(calls, n + 1, goal)
               /\ Owed(t, n, goal, V, item) <=> Owed(calls, n + 1, goal, V, item)
    <2>1. CASE n = L - 1
      <3>1. n = Len(t) /\ n + 1 = Len(calls)
        BY <1>1, <1>2, <1>3, <2>1
      <3>. QED  BY <3>1 DEF Sought, Owed
    <2>2. CASE n # L - 1
      <3>1. n # Len(t) /\ n + 1 # Len(calls) /\ n + 1 \in DOMAIN t
        BY <1>1, <1>2, <1>3, <2>2
      <3>2. t[n + 1] = calls[(n + 1) + 1]
        BY <1>2, <3>1
      <3>. QED  BY <3>1, <3>2 DEF Sought, Owed
    <2>. QED  BY <2>1, <2>2
  <1>5. StackFollows(t, goal, P, V, item) /\ NothingNear(t)
    <2>1. ASSUME NEW n \in DOMAIN t
          PROVE  n \in 0 .. L - 1 /\ n + 1 \in DOMAIN calls /\ t[n] = calls[n + 1] /\ n + 1 > 1
      BY <1>2, <1>3
    <2>2. ASSUME NEW n \in DOMAIN t
          PROVE  /\ FrameFollows(t[n], P, V, item) /\ t[n].expr = Sought(t, n, goal)
                 /\ Due(t[n], V, item) <=> Owed(t, n, goal, V, item)
                 /\ t[n].near = <<>>
      BY <1>4, <2>1 DEF StackFollows
    <2>. QED  BY <2>2 DEF StackFollows, NothingNear
  <1>6. /\ FrameFollows(Head(calls), P, V, item)
        /\ Head(calls).expr = Sought(calls, 1, goal)
        /\ Due(Head(calls), V, item) <=> Owed(calls, 1, goal, V, item)
    BY <1>2 DEF StackFollows
  <1>7. 0 \in 0 .. L - 1 /\ 0 + 1 = 1
    BY <1>2, <1>3
  <1>. QED  BY <1>1, <1>4, <1>5, <1>6, <1>7

\* A call that has just begun.
LEMMA NewFrameFollows ==
    ASSUME NEW P, NEW V, NEW item, NEW e \in P, NEW bound
    PROVE  /\ FrameFollows(Frame(e, bound), P, V, item)
           /\ Frame(e, bound).expr = e /\ Frame(e, bound).bound = bound
           /\ Frame(e, bound).left = NoList
  <1>1. PICK near : near = NearBounds(e)
    OBVIOUS
  <1>2. near \in Seq(Near(e))
    <2>1. CASE e.op = "and"
      <3> DEFINE T == {e.left, e.right}
                 S == {p \in T : p.op = "atom" /\ BoundAtom(p.atom)}
      <3>0. <<e.left, e.right>> \in Seq(T)
        OBVIOUS
      <3>1. PICK list \in Seq(T) : list = <<e.left, e.right>>
        BY <3>0
      <3>2. near = Kept(list, S)
        BY <1>1, <2>1, <3>1 DEF NearBounds
      <3>. HIDE DEF S, T
      <3>3. near \in Seq(T) /\ ToSet(near) \subseteq S
        <4>1. Kept(list, S) \in Seq(T) /\ ToSet(Kept(list, S)) = ToSet(list) \cap S
          BY KeptFacts
        <4>. QED  BY <3>2, <4>1
      <3>4. S \subseteq Near(e)
        BY DEF S, T, Near
      <3>5. near \in Seq(ToSet(near)) /\ ToSet(near) \subseteq Near(e)
        BY <3>3, <3>4, SeqIsSeq DEF IsSeq
      <3>. QED  BY <3>5
    <2>2. CASE e.op # "and"
      BY <1>1, <2>2 DEF NearBounds
    <2>. QED  BY <2>1, <2>2
  <1>3. Frame(e, bound) = [expr |-> e, bound |-> bound, near |-> near, left |-> NoList]
    BY <1>1 DEF Frame
  <1>. QED  BY <1>2, <1>3 DEF FrameFollows

\* What a valuation says of an expression in it.
LEMMA Valued ==
    ASSUME NEW P, NEW V, NEW atoms, NEW true, IsValuation(P, V, atoms, true), NEW e \in P
    PROVE  /\ e.op = "atom" => e.atom \in atoms /\ (e \in V <=> e.atom \in true)
           /\ e.op = "not" => e.expr \in P /\ (e \in V <=> e.expr \notin V)
           /\ e.op = "and" => /\ e.left \in P /\ e.right \in P
                              /\ e \in V <=> e.left \in V /\ e.right \in V
           /\ e.op = "or" => /\ e.left \in P /\ e.right \in P
                             /\ e \in V <=> e.left \in V \/ e.right \in V
           /\ e.op \in {"atom", "not", "and", "or"}
  BY DEF IsValuation

\* What _eval has under way follows from a valuation of the query it resolves.
CallsFollow(goal, P, V, item) ==
    /\ StackFollows(frames, goal, P, V, item)
    /\ resolving \in {"calling", "asking"} => Top.left = NoList
    /\ resolving = "returning" => /\ NothingNear(frames)
                                  /\ item \in ToSet(found) <=> Owed(frames, 0, goal, V, item)

\* A call put onto calls that wait for it.
LEMMA CalledFollow ==
    ASSUME NEW calls, IsSeq(calls), NEW goal, NEW P, NEW V, NEW item,
           StackFollows(calls, goal, P, V, item), NothingNear(calls),
           NEW f, FrameFollows(f, P, V, item), f.expr = Sought(calls, 0, goal), f.left = NoList,
           Due(f, V, item) <=> Owed(calls, 0, goal, V, item),
           frames' = Cons(f, calls), resolving' = "calling"
    PROVE  CallsFollow(goal, P, V, item)'
  <1>1. StackFollows(frames', goal, P, V, item)
    <2>1. StackFollows(Cons(f, calls), goal, P, V, item)
      BY StackPush
    <2>. QED  BY <2>1
  <1>2. Head(frames').left = NoList
    <2>1. Head(Cons(f, calls)) = f
      BY OneCallMore
    <2>. QED  BY <2>1
  <1>. QED  BY <1>1, <1>2 DEF CallsFollow, Top

\* A call that returns what it is to return.
LEMMA ReturnedFollow ==
    ASSUME IsSeq(frames), frames # <<>>, NEW goal, NEW P, NEW V, NEW item,
           StackFollows(frames, goal, P, V, item),
           NEW items, item \in ToSet(items) <=> Due(Top, V, item), Return(items)
    PROVE  CallsFollow(goal, P, V, item)'
  <1>1. PICK rest : rest = Tail(frames)
    OBVIOUS
  <1>2. /\ StackFollows(rest, goal, P, V, item) /\ NothingNear(rest)
        /\ Due(Top, V, item) <=> Owed(rest, 0, goal, V, item)
    BY <1>1, StackTail DEF Top
  <1>3. frames' = rest /\ found' = items /\ resolving' = "returning"
    BY <1>1 DEF Return
  <1>. QED  BY <1>2, <1>3 DEF CallsFollow

\* The atom an answer is for.
AskedFor == IF Top.near # <<>> THEN Head(Top.near) ELSE Top.expr

\* What answers an atom is what its call returns, or narrows the bound of the
\* AND it stands beside.
LEMMA AnsweredFollow ==
    ASSUME CallsOK, resolving = "asking", NEW goal, NEW P, NEW V, NEW item, NEW atoms, NEW true,
           IsValuation(P, V, atoms, true), CallsFollow(goal, P, V, item), NoList \notin Seq(Items),
           NEW items \in Seq(Items), item \in ToSet(items) <=> AskedFor \in V, Answered(items)
    PROVE  CallsFollow(goal, P, V, item)'
  <1>1. IsSeq(frames) /\ frames # <<>> /\ IsSeq(Tail(frames)) /\ IsFrame(Top)
    BY AllCalls DEF CallsOK, GoodCalls
  <1>2. StackFollows(frames, goal, P, V, item) /\ Top.left = NoList
    BY DEF CallsFollow
  <1>3. PICK rest, f : rest = Tail(frames) /\ f = Top
    OBVIOUS
  <1>4. /\ StackFollows(rest, goal, P, V, item) /\ NothingNear(rest)
        /\ FrameFollows(f, P, V, item) /\ f.expr = Sought(rest, 0, goal)
        /\ Due(f, V, item) <=> Owed(rest, 0, goal, V, item)
    BY <1>1, <1>2, <1>3, StackTail DEF Top
  <1>5. CASE f.near # <<>>
    <2>1. PICK g : g = Narrowed(f, items)
      OBVIOUS
    <2>2. /\ g.expr = f.expr /\ g.left = f.left /\ g.near = Tail(f.near)
          /\ g.bound = (IF f.bound = NoList THEN items ELSE Kept(f.bound, ToSet(items)))
      BY <1>1, <1>3, <1>5, <2>1, NarrowedFrame
    <2>3. f.expr.op = "and" /\ (f.bound = NoList \/ f.bound \in Seq(Items))
      BY <1>1, <1>3, <1>5 DEF IsFrame
    <2>4. f.near \in Seq(Near(f.expr)) /\ f.expr \in P
      BY <1>4 DEF FrameFollows
    <2>5. Head(f.near) \in Near(f.expr) /\ Tail(f.near) \in Seq(Near(f.expr))
      BY <1>5, <2>4, HeadTailProperties
    <2>6. f.expr \in V => Head(f.near) \in V
      <3>1. f.expr \in V => f.expr.left \in V /\ f.expr.right \in V
        BY <2>3, <2>4, Valued
      <3>. QED  BY <2>5, <3>1 DEF Near
    <2>7. item \in ToSet(items) <=> Head(f.near) \in V
      BY <1>3, <1>5 DEF AskedFor
    <2>8. Allows(g.bound, item) <=> Allows(f.bound, item) /\ item \in ToSet(items)
      <3>1. CASE f.bound = NoList
        BY <2>2, <3>1 DEF Allows
      <3>2. CASE f.bound # NoList
        <4>1. /\ Kept(f.bound, ToSet(items)) \in Seq(Items)
              /\ ToSet(Kept(f.bound, ToSet(items))) = ToSet(f.bound) \cap ToSet(items)
          BY <2>3, <3>2, KeptFacts
        <4>. QED  BY <2>2, <3>2, <4>1 DEF Allows
      <3>. QED  BY <3>1, <3>2
    <2>9. Due(g, V, item) <=> Due(f, V, item)
      BY <2>2, <2>6, <2>7, <2>8 DEF Due
    <2>10. FrameFollows(g, P, V, item) /\ g.left = NoList
      BY <1>2, <1>3, <1>4, <2>2, <2>5 DEF FrameFollows
    <2>11. frames' = Cons(g, rest) /\ resolving' = "calling"
      BY <1>3, <1>5, <2>1 DEF Answered, Narrowed
    <2>12. IsSeq(rest)
      BY <1>1, <1>3
    <2>. QED  BY <1>4, <2>2, <2>9, <2>10, <2>11, <2>12, CalledFollow
  <1>6. CASE ~(f.near # <<>>)
    <2>1. Return(Within(items, Top.bound))
      BY <1>3, <1>6 DEF Answered
    <2>2. item \in ToSet(Within(items, Top.bound)) <=> Due(Top, V, item)
      <3>1. item \in ToSet(items) <=> Top.expr \in V
        BY <1>3, <1>6 DEF AskedFor
      <3>2. ToSet(Kept(items, ToSet(Top.bound))) = ToSet(items) \cap ToSet(Top.bound)
        BY KeptFacts
      <3>. QED  BY <3>1, <3>2 DEF Within, Due, Allows
    <2>. QED  BY <1>1, <1>2, <2>1, <2>2, ReturnedFollow
  <1>. QED  BY <1>5, <1>6

\* Each step of _eval between two requests follows from the valuation.
LEMMA EvalFollows ==
    ASSUME CallsOK, found \in Seq(Items), EvalLeft \/ EvalRight \/ EvalNot \/ Combine,
           NoList \notin Seq(Items), NEW goal, NEW P, NEW V, NEW item, NEW atoms, NEW true,
           IsValuation(P, V, atoms, true), CallsFollow(goal, P, V, item)
    PROVE  CallsFollow(goal, P, V, item)'
  <1>1. IsSeq(frames) /\ frames # <<>> /\ IsSeq(Tail(frames)) /\ IsFrame(Top)
    BY AllCalls DEF CallsOK, GoodCalls, EvalLeft, EvalRight, EvalNot, Combine
  <1>2. PICK calls, rest, f : calls = frames /\ rest = Tail(frames) /\ f = Top
    OBVIOUS
  <1>3. /\ IsSeq(calls) /\ IsSeq(rest)
        /\ StackFollows(calls, goal, P, V, item)
    BY <1>1, <1>2 DEF CallsFollow
  <1>4. /\ StackFollows(rest, goal, P, V, item) /\ NothingNear(rest)
        /\ FrameFollows(f, P, V, item) /\ f.expr = Sought(rest, 0, goal)
        /\ Due(f, V, item) <=> Owed(rest, 0, goal, V, item)
    BY <1>1, <1>2, <1>3, StackTail DEF Top
  <1>5. /\ Sought(calls, 0, goal) = Part(f)
        /\ Owed(calls, 0, goal, V, item) <=> Allows(f.bound, item) /\ Part(f) \in V
    BY <1>1, <1>2, Innermost DEF Top
  <1>6. /\ f.expr \in P /\ f.near \in Seq(Near(f.expr))
        /\ f.left # NoList => /\ f.expr.op \in {"and", "or"}
                              /\ item \in ToSet(f.left)
                                    <=> Allows(f.bound, item) /\ f.expr.left \in V
    BY <1>4 DEF FrameFollows
  <1>7. /\ f.expr.op = "not" => f.expr.expr \in P /\ (f.expr \in V <=> f.expr.expr \notin V)
        /\ f.expr.op = "and" => /\ f.expr.left \in P /\ f.expr.right \in P
                                /\ f.expr \in V <=> f.expr.left \in V /\ f.expr.right \in V
        /\ f.expr.op = "or" => /\ f.expr.left \in P /\ f.expr.right \in P
                               /\ f.expr \in V <=> f.expr.left \in V \/ f.expr.right \in V
    BY <1>6, Valued
  <1>8. \A n \in DOMAIN calls : n = 1 \/ calls[n].near = <<>>
    <2>1. \A n \in DOMAIN calls : n = 1 \/ n > 1
      BY <1>3, IsSeqFacts
    <2>. QED  BY <1>3, <2>1 DEF StackFollows
  <1>9. calls[1] = f /\ 1 \in DOMAIN calls
    BY <1>1, <1>2, TailFacts DEF Top
  <1>10. CASE EvalLeft \/ EvalNot
    <2>1. PICK e : e = IF EvalLeft THEN f.expr.left ELSE f.expr.expr
      OBVIOUS
    <2>2. resolving = "calling" /\ f.left = NoList
      BY <1>2, <1>10 DEF EvalLeft, EvalNot, CallsFollow
    <2>3. f.near = <<>> /\ e = Part(f) /\ e \in P
          /\ frames' = Cons(Frame(e, f.bound), calls) /\ resolving' = "calling"
      <3>1. CASE EvalLeft
        BY <1>2, <1>7, <2>1, <2>2, <3>1 DEF EvalLeft, Calls, Part
      <3>2. CASE ~EvalLeft
        <4>1. /\ f.expr.op = "not" /\ Calls(calls, f.expr.expr) /\ e = f.expr.expr
          BY <1>2, <1>10, <2>1, <3>2 DEF EvalNot
        <4>2. f.near = <<>>
          BY <1>1, <1>2, <4>1 DEF IsFrame
        <4>. QED  BY <1>2, <1>7, <4>1, <4>2 DEF Calls, Part
      <3>. QED  BY <3>1, <3>2
    <2>4. NothingNear(calls)
      BY <1>8, <1>9, <2>3 DEF NothingNear
    <2>5. PICK g : g = Frame(e, f.bound)
      OBVIOUS
    <2>6. /\ FrameFollows(g, P, V, item) /\ g.expr = e /\ g.bound = f.bound /\ g.left = NoList
      BY <2>3, <2>5, NewFrameFollows
    <2>7. Due(g, V, item) <=> Owed(calls, 0, goal, V, item)
      BY <1>5, <2>3, <2>6 DEF Due
    <2>8. g.expr = Sought(calls, 0, goal) /\ frames' = Cons(g, calls)
      BY <1>5, <2>3, <2>5, <2>6
    <2>. QED  BY <1>3, <2>3, <2>4, <2>6, <2>7, <2>8, CalledFollow
  <1>11. CASE EvalRight
    <2>1. PICK h : h = [f EXCEPT !.left = found]
      OBVIOUS
    <2>2. /\ resolving = "returning" /\ f.expr.op \in {"and", "or"} /\ f.left = NoList
          /\ Calls(Cons(h, rest), f.expr.right)
      BY <1>2, <1>11, <2>1 DEF EvalRight
    <2>3. /\ h.expr = f.expr /\ h.bound = f.bound /\ h.near = f.near /\ h.left = found
      BY <1>1, <1>2, <2>1 DEF IsFrame
    <2>4. item \in ToSet(found) <=> Allows(f.bound, item) /\ f.expr.left \in V
      <3>1. Part(f) = f.expr.left
        BY <2>2 DEF Part
      <3>. QED  BY <1>2, <1>5, <2>2, <3>1 DEF CallsFollow
    <2>5. FrameFollows(h, P, V, item) /\ (Due(h, V, item) <=> Due(f, V, item))
      BY <1>6, <2>2, <2>3, <2>4 DEF FrameFollows, Due
    <2>6. PICK more : more = Cons(h, rest)
      OBVIOUS
    <2>7. StackFollows(more, goal, P, V, item)
      BY <1>3, <1>4, <2>3, <2>5, <2>6, StackPush
    <2>8. /\ IsSeq(more) /\ more # <<>> /\ Head(more) = h
          /\ \A n \in DOMAIN more : n = 1 \/ (n - 1 \in DOMAIN rest /\ more[n] = rest[n - 1])
          /\ more[1] = h
      BY <1>3, <2>6, ConsFacts
    <2>9. NothingNear(more)
      <3>1. h.near = <<>>
        BY <1>2, <1>9, <2>2, <2>3 DEF CallsFollow, NothingNear
      <3>. QED  BY <1>4, <2>8, <3>1 DEF NothingNear
    <2>10. /\ Sought(more, 0, goal) = Part(h)
           /\ Owed(more, 0, goal, V, item) <=> Allows(h.bound, item) /\ Part(h) \in V
      BY <2>8, Innermost
    <2>11. Part(h) = f.expr.right /\ f.expr.right \in P
      BY <1>7, <2>2, <2>3 DEF Part
    <2>12. PICK g : g = Frame(f.expr.right, f.bound)
      OBVIOUS
    <2>13. /\ FrameFollows(g, P, V, item) /\ g.expr = f.expr.right /\ g.bound = f.bound
           /\ g.left = NoList
      BY <2>11, <2>12, NewFrameFollows
    <2>14. Due(g, V, item) <=> Owed(more, 0, goal, V, item)
      BY <2>3, <2>10, <2>11, <2>13 DEF Due
    <2>15. g.expr = Sought(more, 0, goal) /\ frames' = Cons(g, more) /\ resolving' = "calling"
      BY <1>2, <2>2, <2>6, <2>10, <2>11, <2>12, <2>13 DEF Calls
    <2>. QED  BY <2>7, <2>8, <2>9, <2>13, <2>14, <2>15, CalledFollow
  <1>12. CASE Combine
    <2>1. item \in ToSet(found) <=> Allows(f.bound, item) /\ Part(f) \in V
      BY <1>2, <1>5, <1>12 DEF Combine, CallsFollow
    <2>2. Bounded(f)
      BY <1>1, <1>2, <1>12, AllCalls DEF Combine
    <2>3. (f.bound = NoList \/ f.bound \in Seq(Items)) /\ (f.left = NoList \/ f.left \in Seq(Items))
      BY <1>1, <1>2 DEF IsFrame
    <2>4. ASSUME NEW items, Return(items), item \in ToSet(items) <=> Due(f, V, item)
          PROVE  CallsFollow(goal, P, V, item)'
      BY <1>1, <1>2, <1>3, <2>4, ReturnedFollow
    <2>5. CASE f.expr.op = "not" /\ Return(Kept(f.bound, ToSet(f.bound) \ ToSet(found)))
      <3>1. f.bound # NoList /\ f.bound \in Seq(Items)
        BY <2>2, <2>3, <2>5 DEF Bounded
      <3>2. ToSet(Kept(f.bound, ToSet(f.bound) \ ToSet(found))) = ToSet(f.bound) \ ToSet(found)
        BY <3>1, KeptFacts
      <3>3. Part(f) = f.expr.expr
        BY <2>5 DEF Part
      <3>4. item \in ToSet(Kept(f.bound, ToSet(f.bound) \ ToSet(found))) <=> Due(f, V, item)
        BY <1>7, <2>1, <2>5, <3>1, <3>2, <3>3 DEF Due, Allows
      <3>. QED  BY <2>4, <2>5, <3>4
    <2>6. CASE f.expr.op = "and" /\ f.left # NoList /\ Return(Kept(f.left, ToSet(found)))
      <3>1. ToSet(Kept(f.left, ToSet(found))) = ToSet(f.left) \cap ToSet(found)
        BY <2>3, <2>6, KeptFacts
      <3>2. Part(f) = f.expr.right
        BY <2>6 DEF Part
      <3>3. item \in ToSet(Kept(f.left, ToSet(found))) <=> Due(f, V, item)
        BY <1>6, <1>7, <2>1, <2>6, <3>1, <3>2 DEF Due
      <3>. QED  BY <2>4, <2>6, <3>3
    <2>7. CASE f.expr.op = "or" /\ f.left # NoList /\ Return(Once(f.left \o found))
      <3>1. ToSet(Once(f.left \o found)) = ToSet(f.left) \cup ToSet(found)
        <4>1. PICK both : both = f.left \o found
          OBVIOUS
        <4>2. both \in Seq(Items) /\ ToSet(both) = ToSet(f.left) \cup ToSet(found)
          BY <2>3, <2>7, <4>1, JoinFacts
        <4>. QED  BY <4>1, <4>2, OnceFacts
      <3>2. Part(f) = f.expr.right
        BY <2>7 DEF Part
      <3>3. item \in ToSet(Once(f.left \o found)) <=> Due(f, V, item)
        BY <1>6, <1>7, <2>1, <2>7, <3>1, <3>2 DEF Due
      <3>. QED  BY <2>4, <2>7, <3>3
    <2>. QED  BY <1>2, <1>12, <2>5, <2>6, <2>7 DEF Combine
  <1>. QED  BY <1>10, <1>11, <1>12

\* What is asked for is an atom, of which the answer is to be told.
LEMMA AskedIs ==
    ASSUME CallsOK, resolving \in {"calling", "asking"}, Top.near # <<>> \/ Top.expr.op = "atom",
           NEW goal, NEW P, NEW V, NEW item,
           IsValuation(P, V, Atoms, TrueOf(item)), StackFollows(frames, goal, P, V, item)
    PROVE  Asked \in Atoms /\ (AskedFor \in V <=> item \in fits[Asked])
  <1>1. IsSeq(frames) /\ frames # <<>> /\ IsFrame(Top)
    BY AllCalls DEF CallsOK, GoodCalls
  <1>2. FrameFollows(Top, P, V, item)
    BY <1>1, StackTail DEF Top
  <1>3. AskedFor \in P /\ AskedFor.op = "atom" /\ Asked = AskedFor.atom
    <2>1. CASE Top.near # <<>>
      <3>1. Head(Top.near) \in Near(Top.expr)
        BY <1>2, <2>1, HeadTailProperties DEF FrameFollows
      <3>2. Top.expr.left \in P /\ Top.expr.right \in P
        <4>1. Top.expr.op = "and" /\ Top.expr \in P
          BY <1>1, <1>2, <2>1 DEF IsFrame, FrameFollows
        <4>. QED  BY <4>1, Valued
      <3>. QED  BY <2>1, <3>1, <3>2 DEF AskedFor, Asked, Near
    <2>2. CASE ~(Top.near # <<>>)
      BY <1>2, <2>2 DEF AskedFor, Asked, FrameFollows
    <2>. QED  BY <2>1, <2>2
  <1>4. AskedFor.atom \in Atoms /\ (AskedFor \in V <=> AskedFor.atom \in TrueOf(item))
    BY <1>3, Valued
  <1>. QED  BY <1>3, <1>4 DEF TrueOf

-----------------------------------------------------------------------------
(* Pages bring what an atom is true of. *)

\* What has been brought is of the listing, and what of it has not been
\* brought is ahead.
PageFollows(item) ==
    /\ ToSet(page.got) \subseteq (IF Asked.field = "rating" THEN Items ELSE fits[Asked])
    /\ item \in ToSet(Listing(Asked)) \ ToSet(page.got) =>
          \E j \in DOMAIN Listing(Asked) : j > page.start /\ Listing(Asked)[j] = item

\* What Jellyfin lists for an atom.
LEMMA ListingHas ==
    ASSUME TypeOK, NEW atom
    PROVE  /\ Listing(atom) \in Seq(Items)
           /\ ToSet(Listing(atom))
                 = IF atom.field = "rating" THEN ToSet(shelf) ELSE ToSet(shelf) \cap fits[atom]
  BY KeptFacts DEF TypeOK, Listing

\* Before the first page all of the listing is ahead.
LEMMA FirstPageFollows ==
    ASSUME TypeOK, UNCHANGED <<shelf, fits, frames>>, page' = Page(0, <<>>), NEW item
    PROVE  PageFollows(item)'
  <1>1. PICK listing : listing = Listing(Asked)
    OBVIOUS
  <1>2. listing \in Seq(Items)
    BY <1>1, ListingHas
  <1>3. listing = Listing(Asked)' /\ UNCHANGED Asked
    BY <1>1 DEF Listing, Asked, Top
  <1>4. page'.start = 0 /\ page'.got = <<>>
    BY DEF Page
  <1>5. item \in ToSet(listing) => \E j \in DOMAIN listing : j > 0 /\ listing[j] = item
    BY <1>2 DEF ToSet
  <1>6. ToSet(<<>>) = {}
    BY DEF ToSet
  <1>. QED  BY <1>3, <1>4, <1>5, <1>6 DEF PageFollows

\* The last page has brought all, and any other leaves the rest ahead.
LEMMA NextPageFollows ==
    ASSUME TypeOK, NEW item \in ToSet(shelf), PageFollows(item), Asked \in Atoms,
           NEW items, items = Cut(Listing(Asked), page.start),
           NEW got, got = page.got \o items,
           NEW total, total = (IF counts THEN Len(Listing(Asked)) ELSE 0)
    PROVE  /\ ToSet(got) \subseteq (IF Asked.field = "rating" THEN Items ELSE fits[Asked])
           /\ LastPage(items, page.start, total) =>
                 (item \in ToSet(Answer(Asked, got)) <=> item \in fits[Asked])
           /\ ~LastPage(items, page.start, total) /\ item \in ToSet(Listing(Asked)) \ ToSet(got) =>
                 \E j \in DOMAIN Listing(Asked) :
                    j > page.start + Len(items) /\ Listing(Asked)[j] = item
  <1>1. PICK listing, start, had : listing = Listing(Asked) /\ start = page.start /\ had = page.got
    OBVIOUS
  <1>2. /\ listing \in Seq(Items) /\ start \in Nat /\ had \in Seq(Items)
        /\ ToSet(listing) = IF Asked.field = "rating" THEN ToSet(shelf)
                            ELSE ToSet(shelf) \cap fits[Asked]
    BY <1>1, ListingHas DEF TypeOK
  <1>3. /\ items \in Seq(Items)
        /\ \A i \in 1 .. Len(items) : start + i \in DOMAIN listing /\ items[i] = listing[start + i]
        /\ start < Len(listing) => Len(items) > 0
    BY <1>1, <1>2, CutFacts
  <1>4. /\ Len(items) \in Nat /\ Len(listing) \in Nat /\ DOMAIN listing = 1 .. Len(listing)
        /\ DOMAIN items = 1 .. Len(items)
    BY <1>2, <1>3
  <1>5. got \in Seq(Items) /\ ToSet(got) = ToSet(had) \cup ToSet(items)
    BY <1>1, <1>2, <1>3, JoinFacts
  <1>6. ToSet(items) \subseteq ToSet(listing)
    BY <1>3, <1>4 DEF ToSet
  <1>7. ToSet(got) \subseteq (IF Asked.field = "rating" THEN Items ELSE fits[Asked])
    <2>1. ToSet(had) \subseteq (IF Asked.field = "rating" THEN Items ELSE fits[Asked])
      BY <1>1 DEF PageFollows
    <2>2. ToSet(shelf) \subseteq Items
      BY DEF TypeOK, ToSet
    <2>. QED  BY <1>2, <1>5, <1>6, <2>1, <2>2
  <1>8. ASSUME NEW j \in DOMAIN listing, j > start, j <= start + Len(items)
        PROVE  listing[j] \in ToSet(items)
    <2>1. j - start \in 1 .. Len(items) /\ start + (j - start) = j
      BY <1>2, <1>4, <1>8
    <2>2. items[j - start] = listing[j]
      BY <1>3, <2>1
    <2>. QED  BY <1>4, <2>1, <2>2 DEF ToSet
  <1>9. item \in ToSet(listing) \ ToSet(got) =>
           \E j \in DOMAIN listing : j > start + Len(items) /\ listing[j] = item
    <2>1. SUFFICES ASSUME item \in ToSet(listing), item \notin ToSet(got)
                   PROVE  \E j \in DOMAIN listing : j > start + Len(items) /\ listing[j] = item
      OBVIOUS
    <2>2. PICK j \in DOMAIN listing : j > start /\ listing[j] = item
      BY <1>1, <1>5, <2>1 DEF PageFollows
    <2>3. j > start + Len(items)
      BY <1>2, <1>4, <1>5, <1>8, <2>1, <2>2
    <2>. QED  BY <2>2, <2>3
  <1>10. ASSUME LastPage(items, start, total)
         PROVE  item \in ToSet(Answer(Asked, got)) <=> item \in fits[Asked]
    <2>1. start + Len(items) >= Len(listing)
      <3>1. CASE items = <<>>
        BY <1>2, <1>3, <1>4, <3>1
      <3>2. CASE items # <<>>
        BY <1>1, <1>10, <3>2 DEF LastPage
      <3>. QED  BY <3>1, <3>2
    <2>2. item \in ToSet(listing) => item \in ToSet(got)
      BY <1>2, <1>4, <1>9, <2>1
    <2>3. CASE Asked.field = "rating"
      <3>1. ToSet(Kept(got, fits[Asked])) = ToSet(got) \cap fits[Asked]
        <4>1. PICK all, set : all = got /\ set = fits[Asked]
          OBVIOUS
        <4>2. all \in Seq(Items)
          BY <1>5, <4>1
        <4>3. ToSet(Kept(all, set)) = ToSet(all) \cap set
          BY <4>2, KeptFacts
        <4>. QED  BY <4>1, <4>3
      <3>. QED  BY <1>2, <2>2, <2>3, <3>1 DEF Answer
    <2>4. CASE Asked.field # "rating"
      BY <1>2, <1>7, <2>2, <2>4 DEF Answer
    <2>. QED  BY <2>3, <2>4
  <1>. QED  BY <1>1, <1>7, <1>9, <1>10

\* An item that comes moves none of the others forward.
LEMMA PageFollowsOn ==
    ASSUME TypeOK, NEW item, item \in ToSet(shelf), PageFollows(item), ItemComes
    PROVE  PageFollows(item)'
  <1>1. PICK i \in Items \ (ToSet(shelf) \cup gone), at \in 1 .. (Len(shelf) + 1) :
           shelf' = InsertAt(shelf, at, i)
    BY DEF ItemComes
  <1>2. UNCHANGED <<fits, frames, page>>
    BY DEF ItemComes, request
  <1>3. PICK atom, l, m : atom = Asked /\ l = Listing(atom) /\ m = Listing(atom)'
    OBVIOUS
  <1>4. UNCHANGED Asked
    BY <1>2 DEF Asked, Top
  <1>5. shelf \in Seq(Items) /\ shelf' \in Seq(Items) /\ Subsequence(shelf, shelf')
    BY <1>1, InsertAtFacts, PartOfInsertion DEF TypeOK
  <1>6. Subsequence(l, m) /\ l \in Seq(Items) /\ m \in Seq(Items)
    <2>1. CASE atom.field = "rating"
      BY <1>3, <1>5, <2>1 DEF Listing
    <2>2. CASE atom.field # "rating"
      <3>1. l = Kept(shelf, fits[atom]) /\ m = Kept(shelf', fits[atom])
        BY <1>2, <1>3, <2>2 DEF Listing
      <3>. QED  BY <1>5, <3>1, KeptOfPart, KeptFacts
    <2>. QED  BY <2>1, <2>2
  <1>7. item \in ToSet(m) => item \in ToSet(l)
    <2>1. CASE atom.field = "rating"
      BY <1>3, <2>1 DEF Listing
    <2>2. CASE atom.field # "rating"
      <3>1. l = Kept(shelf, fits[atom]) /\ m = Kept(shelf', fits[atom])
        BY <1>2, <1>3, <2>2 DEF Listing
      <3>2. ToSet(l) = ToSet(shelf) \cap fits[atom] /\ ToSet(m) = ToSet(shelf') \cap fits[atom]
        BY <1>5, <3>1, KeptFacts
      <3>. QED  BY <3>2
    <2>. QED  BY <2>1, <2>2
  <1>8. ASSUME item \in ToSet(m) \ ToSet(page.got)
        PROVE  \E j \in DOMAIN m : j > page.start /\ m[j] = item
    <2>1. PICK j \in DOMAIN l : j > page.start /\ l[j] = item
      BY <1>3, <1>7, <1>8 DEF PageFollows
    <2>2. j \in 1 .. Len(l) /\ page.start \in Nat
      BY <1>6 DEF TypeOK
    <2>3. PICK k \in 1 .. Len(m) : j <= k /\ m[k] = l[j]
      BY <1>6, <2>2, PartIsAhead
    <2>4. k \in DOMAIN m /\ k > page.start
      BY <1>6, <2>1, <2>2, <2>3
    <2>. QED  BY <2>1, <2>3, <2>4
  <1>. QED  BY <1>2, <1>3, <1>4, <1>8 DEF PageFollows

-----------------------------------------------------------------------------
(* Pools follow what a valuation says of their queries. *)

\* The item has been there all along, and nothing that could lose it has
\* happened.
Stayed(item) == gone = {} /\ ~misled /\ item \in ToSet(shelf) \ come

Follows(P, V, item) ==
    /\ \A e \in P \cap DOMAIN cache : item \in ToSet(cache[e]) <=> e \in V
    /\ resolving \in Evaluating /\ Expression \in P =>
          /\ CallsFollow(Expression, P, V, item)
          /\ resolving = "asking" /\ page.asking = "items" => PageFollows(item)

PoolsFollow ==
    \A P, V, item :
        Stayed(item) /\ IsValuation(P, V, Atoms, TrueOf(item)) => Follows(P, V, item)

\* An item that has been there all along was so a step before.
LEMMA StaysBefore ==
    ASSUME TypeOK, ListsOnce, NEW item, Next, Stayed(item)'
    PROVE  /\ Stayed(item) /\ TrueOf(item)' = TrueOf(item) /\ ~ItemGoes
           /\ UNCHANGED <<fits, counts>>
  <1>1. CASE UNCHANGED jellyfin
    <2>1. UNCHANGED <<shelf, fits, counts, come, gone>>
      BY <1>1 DEF jellyfin
    <2>2. ~misled
      <3>1. CASE UNCHANGED misled
        BY <3>1 DEF Stayed
      <3>2. CASE ~UNCHANGED misled
        <4>1. FindNoId
          BY <3>2 DEF Next, Load, Runs, DeclareChannel, DeclareCollection, DeclareFiller,
             DeclareLayout, DeclareBlock, DeclareDefaultBlock, EndOfSchedule, EndOfScript,
             EvaluationFails, Resolve, GoesOn, RequestIsLost, RequestFails, LibraryChanges,
             ItemComes, ItemGoes, PlanDay, Finish, NextQuery, HandOver, AskForAtom, EvalLeft,
             EvalRight, EvalNot, Calls, UnboundedNot, Combine, Resolved, FindId, FetchPage,
             resolverVars
        <4>. QED  BY <4>1 DEF FindNoId, Stayed
      <3>. QED  BY <3>1, <3>2
    <2>3. ~ItemGoes
      <3>1. SUFFICES ASSUME ItemGoes PROVE FALSE
        OBVIOUS
      <3>2. PICK at \in DOMAIN shelf : gone' = gone \cup {shelf[at]}
        BY <3>1 DEF ItemGoes
      <3>. QED  BY <3>2 DEF Stayed
    <2>. QED  BY <2>1, <2>2, <2>3 DEF Stayed, TrueOf
  <1>2. CASE ~UNCHANGED jellyfin
    <2>1. ItemComes \/ ItemGoes
      <3>1. Load \/ EvaluationFails \/ RequestIsLost \/ PlanDay \/ Finish => UNCHANGED jellyfin
        BY LoadDeclares DEF Declared, EndOfScript, EvaluationFails, RequestIsLost, RequestFails,
           PlanDay, Finish, resolverVars
      <3>2. Resolve => UNCHANGED jellyfin
        BY JellyfinStays DEF Resolve
      <3>. QED  BY <1>2, <3>1, <3>2 DEF Next, LibraryChanges
    <2>2. ~ItemGoes
      <3>1. SUFFICES ASSUME ItemGoes PROVE FALSE
        OBVIOUS
      <3>2. PICK at \in DOMAIN shelf : gone' = gone \cup {shelf[at]}
        BY <3>1 DEF ItemGoes
      <3>. QED  BY <3>2 DEF Stayed
    <2>3. UNCHANGED <<fits, counts, gone, misled>>
      BY <2>1, <2>2 DEF ItemComes
    <2>4. PICK i \in Items \ (ToSet(shelf) \cup gone), at \in 1 .. (Len(shelf) + 1) :
             shelf' = InsertAt(shelf, at, i) /\ come' = come \cup {i}
      BY <2>1, <2>2 DEF ItemComes
    <2>5. ToSet(shelf') = ToSet(shelf) \cup {i}
      BY <2>4, InsertionOnce DEF TypeOK, ListsOnce
    <2>. QED  BY <2>2, <2>3, <2>4, <2>5 DEF Stayed, TrueOf
  <1>. QED  BY <1>1, <1>2

\* What answers an atom that is being asked for.
LEMMA AnswerFollows ==
    ASSUME TypeOK, CallsOK, resolving = "asking", NEW P, NEW V, NEW item, Follows(P, V, item),
           IsValuation(P, V, Atoms, TrueOf(item)), Expression \in P,
           NEW items \in Seq(Items), Answered(items),
           item \in ToSet(items) <=> item \in fits[Asked]
    PROVE  Follows(P, V, item)'
  <1>1. CallsFollow(Expression, P, V, item)
    BY DEF Follows, Evaluating
  <1>2. UNCHANGED <<queries, pools, cache, Expression>>
    BY DEF Answered, Expression
  <1>3. resolving' # "asking"
    BY AnsweredFacts DEF TypeOK
  <1>4. PICK goal : goal = Expression
    OBVIOUS
  <1>5. item \in ToSet(items) <=> AskedFor \in V
    <2>1. Top.near # <<>> \/ Top.expr.op = "atom"
      BY DEF CallsOK, GoodCalls, Top
    <2>2. StackFollows(frames, goal, P, V, item)
      BY <1>1, <1>4 DEF CallsFollow
    <2>. QED  BY <2>1, <2>2, AskedIs
  <1>6. CallsFollow(goal, P, V, item)'
    BY <1>1, <1>4, <1>5, AnsweredFollow, ResolverAssumption
  <1>7. CallsFollow(Expression, P, V, item)'
    <2>1. Expression' = goal
      BY <1>2, <1>4
    <2>. QED  BY <1>6, <2>1 DEF CallsFollow
  <1>. QED  BY <1>2, <1>3, <1>7 DEF Follows

\* A step of a request or of _eval keeps the pools with the valuation.
LEMMA FollowsResolving ==
    ASSUME TypeOK, Phases, CallsOK, GoesOn, NEW P, NEW V, NEW item, Stayed(item), Stayed(item)',
           IsValuation(P, V, Atoms, TrueOf(item)), Follows(P, V, item)
    PROVE  Follows(P, V, item)'
  <1>1. UNCHANGED <<shelf, fits, counts, queries>> /\ item \in ToSet(shelf)
    BY JellyfinStays DEF jellyfin, Stayed
  <1>2. CASE NextQuery
    <2>1. UNCHANGED <<cache, queries, found, page>>
      BY <1>2 DEF NextQuery
    <2>2. CASE resolving' \notin Evaluating
      BY <2>1, <2>2 DEF Follows
    <2>3. CASE resolving' \in Evaluating
      <3>1. /\ frames' = <<Frame(Expression, NoList)>> /\ resolving' = "calling"
            /\ UNCHANGED pools
        BY <1>2, <2>3 DEF NextQuery, Evaluating
      <3>2. PICK goal : goal = Expression
        OBVIOUS
      <3>3. Expression' = goal
        BY <2>1, <3>1, <3>2 DEF Expression
      <3>4. ASSUME goal \in P PROVE CallsFollow(goal, P, V, item)'
        <4>1. PICK f : f = Frame(goal, NoList)
          OBVIOUS
        <4>2. /\ FrameFollows(f, P, V, item) /\ f.expr = goal /\ f.bound = NoList
              /\ f.left = NoList
          BY <3>4, <4>1, NewFrameFollows
        <4>3. IsSeq(<<>>) /\ StackFollows(<<>>, goal, P, V, item) /\ NothingNear(<<>>)
          BY DEF IsSeq, StackFollows, NothingNear
        <4>4. frames' = Cons(f, <<>>)
          <5>1. <<f>> \o <<>> = <<f>>
            OBVIOUS
          <5>. QED  BY <3>1, <3>2, <4>1, <5>1 DEF Cons
        <4>5. /\ f.expr = Sought(<<>>, 0, goal)
              /\ Due(f, V, item) <=> Owed(<<>>, 0, goal, V, item)
          BY <4>2, <4>3, Innermost DEF Due, Allows
        <4>. QED  BY <3>1, <4>2, <4>3, <4>4, <4>5, CalledFollow
      <3>. QED  BY <2>1, <3>1, <3>3, <3>4 DEF Follows, CallsFollow
    <2>. QED  BY <2>2, <2>3
  <1>3. CASE HandOver \/ UnboundedNot
    <2>1. UNCHANGED cache /\ resolving' \notin Evaluating
      BY <1>3 DEF HandOver, UnboundedNot, Evaluating
    <2>. QED  BY <2>1 DEF Follows
  <1>4. CASE Resolved
    <2>1. /\ resolving = "returning" /\ frames = <<>> /\ resolving' = "between"
          /\ cache' = [e \in DOMAIN cache \cup {Expression} |->
                          IF e = Expression THEN found ELSE cache[e]]
      BY <1>4 DEF Resolved
    <2>2. PICK goal : goal = Expression
      OBVIOUS
    <2>3. goal \in P => (item \in ToSet(found) <=> goal \in V)
      <3>1. IsSeq(<<>>)
        BY DEF IsSeq
      <3>2. Owed(<<>>, 0, goal, V, item) <=> goal \in V
        BY <3>1, Innermost
      <3>. QED  BY <2>1, <2>2, <3>2 DEF Follows, CallsFollow, Evaluating
    <2>4. DOMAIN cache' = DOMAIN cache \cup {goal}
          /\ \A e \in DOMAIN cache' : cache'[e] = IF e = goal THEN found ELSE cache[e]
      BY <2>1, <2>2
    <2>5. \A e \in P \cap DOMAIN cache' : item \in ToSet(cache'[e]) <=> e \in V
      BY <2>3, <2>4 DEF Follows
    <2>6. resolving' \notin Evaluating
      BY <2>1 DEF Evaluating
    <2>. QED  BY <2>5, <2>6 DEF Follows
  <1>5. CASE AskForAtom \/ EvalLeft \/ EvalRight \/ EvalNot \/ Combine \/ FindId \/ FindNoId \/ FetchPage
    <2>1. UNCHANGED <<queries, pools, cache>> /\ resolving \in Evaluating
      <3>1. resolving \in Evaluating /\ ~NextQuery /\ ~Resolved
        <4>1. resolving \in Evaluating
          BY <1>5 DEF Evaluating, AskForAtom, EvalLeft, EvalRight, EvalNot, Combine, FindId,
                      FindNoId, FetchPage
        <4>2. resolving # "returning" \/ frames # <<>>
          BY <1>5 DEF AskForAtom, EvalLeft, EvalRight, EvalNot, Combine, FindId,
                      FindNoId, FetchPage
        <4>. QED  BY <4>1, <4>2 DEF Evaluating, NextQuery, Resolved
      <3>. QED  BY <3>1, OtherSteps
    <2>2. PICK goal : goal = Expression
      OBVIOUS
    <2>3. Expression' = goal
      BY <2>1, <2>2 DEF Expression
    <2>4. CASE goal \notin P
      BY <2>1, <2>3, <2>4 DEF Follows
    <2>5. CASE goal \in P
      <3>1. CallsFollow(goal, P, V, item)
            /\ (resolving = "asking" /\ page.asking = "items" => PageFollows(item))
        BY <2>1, <2>2, <2>5 DEF Follows
      <3>. SUFFICES \/ Follows(P, V, item)'
                    \/ /\ CallsFollow(goal, P, V, item)'
                       /\ resolving' = "asking" /\ page'.asking = "items" => PageFollows(item)'
        BY <2>1, <2>3 DEF Follows, CallsFollow
      <3>2. CASE AskForAtom
        <4>1. /\ resolving = "calling" /\ resolving' \in {"asking", "value"}
              /\ UNCHANGED <<frames, found>>
              /\ resolving' = "asking" => page' = Opening(Asked)
          BY <3>2 DEF AskForAtom
        <4>2. CallsFollow(goal, P, V, item)'
          BY <3>1, <4>1 DEF CallsFollow, Top
        <4>3. resolving' = "asking" /\ page'.asking = "items" => page' = Page(0, <<>>)
          BY <4>1, EmptyPage DEF Opening
        <4>. QED  BY <1>1, <4>1, <4>2, <4>3, FirstPageFollows
      <3>3. CASE EvalLeft \/ EvalRight \/ EvalNot \/ Combine
        <4>1. CallsFollow(goal, P, V, item)'
          BY <3>1, <3>3, EvalFollows, ResolverAssumption DEF TypeOK
        <4>2. resolving' # "asking"
          BY <3>3 DEF EvalLeft, EvalRight, EvalNot, Combine, Calls, Return
        <4>. QED  BY <4>1, <4>2
      <3>4. CASE FindId
        <4>1. page' = Page(0, <<>>) /\ UNCHANGED <<frames, found, resolving>>
          BY <3>4 DEF FindId
        <4>2. CallsFollow(goal, P, V, item)'
          BY <3>1, <4>1 DEF CallsFollow, Top
        <4>. QED  BY <1>1, <4>1, <4>2, FirstPageFollows
      <3>5. CASE FindNoId
        <4>1. resolving = "asking" /\ Answered(<<>>) /\ fits[Asked] = {}
          BY <3>5 DEF FindNoId, Stayed
        <4>2. <<>> \in Seq(Items) /\ ToSet(<<>>) = {}
          BY DEF ToSet
        <4>3. item \in ToSet(<<>>) <=> item \in fits[Asked]
          BY <4>1, <4>2
        <4>. QED  BY <2>2, <2>5, <4>1, <4>2, <4>3, AnswerFollows
      <3>6. CASE FetchPage
        <4>1. PICK items \in Seq(Items), got \in Seq(Items), total \in Nat :
                 /\ items = Cut(Listing(Asked), page.start) /\ got = page.got \o items
                 /\ total = (IF counts THEN Len(Listing(Asked)) ELSE 0)
                 /\ Answer(Asked, got) \in Seq(Items)
                 /\ IF LastPage(items, page.start, total)
                    THEN Answered(Answer(Asked, got))
                    ELSE /\ page' = Page(page.start + Len(items), got)
                         /\ UNCHANGED <<queries, pools, cache, frames, found, resolving>>
          BY <3>6, FetchFacts
        <4>2. resolving = "asking" /\ page.asking = "items"
          BY <3>6 DEF FetchPage
        <4>3. Asked \in Atoms
          <5>1. Top.near # <<>> \/ Top.expr.op = "atom"
            BY <4>2 DEF CallsOK, GoodCalls, Top
          <5>. QED  BY <3>1, <4>2, <5>1, AskedIs DEF CallsFollow
        <4>4. /\ ToSet(got) \subseteq (IF Asked.field = "rating" THEN Items ELSE fits[Asked])
              /\ LastPage(items, page.start, total) =>
                    (item \in ToSet(Answer(Asked, got)) <=> item \in fits[Asked])
              /\ ~LastPage(items, page.start, total) /\ item \in ToSet(Listing(Asked)) \ ToSet(got) =>
                    \E j \in DOMAIN Listing(Asked) :
                       j > page.start + Len(items) /\ Listing(Asked)[j] = item
          BY <1>1, <3>1, <4>1, <4>2, <4>3, NextPageFollows
        <4>5. CASE LastPage(items, page.start, total)
          <5>1. PICK answer \in Seq(Items) : answer = Answer(Asked, got)
            BY <4>1
          <5>. QED  BY <2>2, <2>5, <4>1, <4>2, <4>4, <4>5, <5>1, AnswerFollows
        <4>6. CASE ~LastPage(items, page.start, total)
          <5>1. page' = Page(page.start + Len(items), got) /\ UNCHANGED <<frames, found, resolving>>
            BY <4>1, <4>6
          <5>2. CallsFollow(goal, P, V, item)'
            BY <3>1, <5>1 DEF CallsFollow, Top
          <5>3. page'.start = page.start + Len(items) /\ page'.got = got
            BY <5>1 DEF Page
          <5>4. UNCHANGED Asked
            BY <5>1 DEF Asked, Top
          <5>5. Listing(Asked)' = Listing(Asked)
            BY <1>1, <5>4 DEF Listing
          <5>6. PageFollows(item)'
            BY <1>1, <4>4, <4>6, <5>3, <5>4, <5>5 DEF PageFollows
          <5>. QED  BY <5>2, <5>6
        <4>. QED  BY <4>5, <4>6
      <3>. QED  BY <1>5, <3>2, <3>3, <3>4, <3>5, <3>6
    <2>. QED  BY <2>4, <2>5
  <1>. QED  BY <1>2, <1>3, <1>4, <1>5 DEF GoesOn

\* So does every step of a run.
LEMMA FollowsStep ==
    ASSUME TypeOK, Phases, CallsOK, ListsOnce, Next, PoolsFollow
    PROVE  PoolsFollow'
  <1>. SUFFICES ASSUME NEW P, NEW V, NEW item,
                       Stayed(item)', IsValuation(P, V, Atoms, TrueOf(item))'
                PROVE  Follows(P, V, item)'
    BY DEF PoolsFollow
  <1>1. Stayed(item) /\ ~ItemGoes /\ TrueOf(item)' = TrueOf(item) /\ UNCHANGED <<fits, counts>>
    BY StaysBefore
  <1>2. IsValuation(P, V, Atoms, TrueOf(item))
    BY <1>1 DEF IsValuation
  <1>3. Follows(P, V, item)
    BY <1>1, <1>2 DEF PoolsFollow
  <1>4. CASE Load \/ EvaluationFails
    <2>1. UNCHANGED cache /\ resolving' \in {resolving, "between"} /\ loading # "loaded"
      BY <1>4, LoadDeclares DEF Declared, EndOfScript, EvaluationFails, resolverVars
    <2>2. resolving' \notin Evaluating
      BY <2>1 DEF Phases, Evaluating
    <2>. QED  BY <1>3, <2>1, <2>2 DEF Follows
  <1>5. CASE Resolve
    BY <1>1, <1>2, <1>3, <1>5, FollowsResolving DEF Resolve
  <1>6. CASE RequestIsLost
    <2>1. UNCHANGED cache /\ resolving' = "failed"
      BY <1>6 DEF RequestIsLost, RequestFails
    <2>. QED  BY <1>3, <2>1 DEF Follows, Evaluating
  <1>7. CASE LibraryChanges
    <2>1. ItemComes /\ resolving = "asking"
      BY <1>1, <1>7 DEF LibraryChanges, ItemComes
    <2>2. UNCHANGED <<queries, pools, cache, frames, found, page, resolving>>
      BY <2>1 DEF ItemComes, request
    <2>3. UNCHANGED Expression
      BY <2>2 DEF Expression
    <2>4. \A goal : CallsFollow(goal, P, V, item) => CallsFollow(goal, P, V, item)'
      BY <2>2 DEF CallsFollow, Top
    <2>5. PageFollows(item) => PageFollows(item)'
      BY <1>1, <2>1, PageFollowsOn DEF Stayed
    <2>6. PICK goal : goal = Expression
      OBVIOUS
    <2>7. CallsFollow(goal, P, V, item)' = CallsFollow(Expression, P, V, item)'
      BY <2>3, <2>6 DEF CallsFollow
    <2>. QED  BY <1>3, <2>2, <2>3, <2>4, <2>5, <2>6, <2>7 DEF Follows
  <1>8. CASE PlanDay \/ Finish
    <2>1. resolving = "done" /\ UNCHANGED <<cache, resolving>>
      BY <1>8 DEF PlanDay, Finish, resolverVars
    <2>. QED  BY <1>3, <2>1 DEF Follows, Evaluating
  <1>. QED  BY <1>4, <1>5, <1>6, <1>7, <1>8 DEF Next

-----------------------------------------------------------------------------
(* The queries are texts, and those resolved are well-formed. *)

TextsOK ==
    /\ \A i \in DOMAIN script :
          /\ script[i].verb = "collection" => script[i].text \in Texts
          /\ script[i].verb = "filler" => script[i].text \in Texts \cup {<<>>}
    /\ \A i \in DOMAIN plan.collections : plan.collections[i].text \in Texts
    /\ \A i \in DOMAIN plan.fillers : plan.fillers[i].text \in Texts \cup {<<>>}
    /\ \A k \in DOMAIN queries : queries[k] \in Texts
    /\ \A k \in DOMAIN pools : WellFormed(queries[k])
    /\ resolving \in Evaluating => WellFormed(queries[Len(pools) + 1])

\* A step of the script runs its first statement, and only a collection and a
\* filler add to the plan's.
LEMMA DeclaresTexts ==
    ASSUME Declared, Load, GoodPlan(plan)
    PROVE  /\ \/ UNCHANGED plan.collections
              \/ /\ Statement.verb = "collection"
                 /\ plan'.collections = Append(plan.collections, Statement)
           /\ \/ UNCHANGED plan.fillers
              \/ /\ Statement.verb = "filler"
                 /\ plan'.fillers = Append(plan.fillers, Statement)
  <1>1. PICK p : p = plan
    OBVIOUS
  <1>2. DOMAIN p = DOMAIN EmptyPlan
    BY <1>1 DEF GoodPlan
  <1>3. DOMAIN p = {"channel", "collections", "fillers", "layouts", "blocks", "default", "scheduled"}
    BY <1>2 DEF EmptyPlan
  <1>4. DeclareCollection => \/ UNCHANGED plan
                             \/ /\ Statement.verb = "collection"
                                /\ plan' = [p EXCEPT !.collections = Append(@, Statement)]
    BY <1>1, RunsDeclares DEF DeclareCollection, Statement
  <1>5. DeclareFiller => \/ UNCHANGED plan
                         \/ /\ Statement.verb = "filler"
                            /\ plan' = [p EXCEPT !.fillers = Append(@, Statement)]
    BY <1>1, RunsDeclares DEF DeclareFiller, Statement
  <1>6. DeclareChannel => \/ UNCHANGED plan
                          \/ plan' = [p EXCEPT !.channel = TRUE]
    BY <1>1, RunsDeclares DEF DeclareChannel
  <1>7. DeclareLayout => \/ UNCHANGED plan
                         \/ plan' = [p EXCEPT !.layouts = @ \cup {Statement.name}]
    BY <1>1, RunsDeclares DEF DeclareLayout
  <1>8. DeclareBlock => \/ UNCHANGED plan
                        \/ plan' = [p EXCEPT !.blocks = Append(@, Statement)]
    BY <1>1, RunsDeclares DEF DeclareBlock
  <1>9. DeclareDefaultBlock => \/ UNCHANGED plan
                               \/ \E d : plan' = [p EXCEPT !.default = d]
    BY <1>1, RunsDeclares DEF DeclareDefaultBlock
  <1>10. EndOfSchedule => \/ UNCHANGED plan
                          \/ plan' = [p EXCEPT !.blocks = Sorted(@), !.scheduled = TRUE]
    BY <1>1, RunsDeclares DEF EndOfSchedule
  <1>11. EndOfScript => UNCHANGED plan
    BY DEF EndOfScript
  <1>12. \/ UNCHANGED plan
         \/ /\ Statement.verb = "collection"
            /\ plan' = [p EXCEPT !.collections = Append(@, Statement)]
         \/ /\ Statement.verb = "filler"
            /\ plan' = [p EXCEPT !.fillers = Append(@, Statement)]
         \/ plan'.collections = p.collections /\ plan'.fillers = p.fillers
    BY <1>3, <1>4, <1>5, <1>6, <1>7, <1>8, <1>9, <1>10, <1>11 DEF Load
  <1>. QED  BY <1>1, <1>3, <1>12

\* No step makes a query of anything but a text that parses.
LEMMA TextsStep ==
    ASSUME TypeOK, Phases, ScriptOK, PlanOK, TextsOK, Next
    PROVE  TextsOK'
  <1>1. CASE Load \/ EvaluationFails
    <2>1. /\ UNCHANGED pools /\ pools = <<>> /\ resolving' \notin Evaluating
      BY <1>1, LoadDeclares
      DEF Declared, EndOfScript, EvaluationFails, resolverVars, Phases, Evaluating
    <2>2. CASE EvaluationFails
      BY <2>1, <2>2 DEF EvaluationFails, resolverVars, TextsOK
    <2>3. CASE Declared /\ Load
      <3>1. IsSeq(script) /\ script # <<>> /\ Statement = script[1] /\ 1 \in DOMAIN script
        BY <2>3, TailFacts DEF ScriptOK, Declared, Statement
      <3>2. UNCHANGED queries /\ script' \in {script, Tail(script)}
        BY <2>3 DEF Declared, resolverVars
      <3>3. \A i \in DOMAIN script' :
               /\ script'[i].verb = "collection" => script'[i].text \in Texts
               /\ script'[i].verb = "filler" => script'[i].text \in Texts \cup {<<>>}
        <4>1. \A i \in DOMAIN script' : \E j \in DOMAIN script : script'[i] = script[j]
          BY <3>1, <3>2, TailFacts
        <4>. QED  BY <4>1 DEF TextsOK
      <3>4. /\ Statement.verb = "collection" => Statement.text \in Texts
            /\ Statement.verb = "filler" => Statement.text \in Texts \cup {<<>>}
        BY <3>1 DEF TextsOK
      <3>5. GoodPlan(plan) /\ IsSeq(plan.collections) /\ IsSeq(plan.fillers)
        BY DEF PlanOK, GoodPlan
      <3>6. ASSUME NEW had, IsSeq(had), NEW T, \A i \in DOMAIN had : had[i].text \in T,
                   NEW s, s.text \in T
            PROVE  \A i \in DOMAIN Append(had, s) : Append(had, s)[i].text \in T
        BY <3>6, AppendIsSeq, IsSeqFacts
      <3>7. \A i \in DOMAIN plan'.collections : plan'.collections[i].text \in Texts
        BY <2>3, <3>4, <3>5, <3>6, DeclaresTexts DEF TextsOK
      <3>8. \A i \in DOMAIN plan'.fillers : plan'.fillers[i].text \in Texts \cup {<<>>}
        BY <2>3, <3>4, <3>5, <3>6, DeclaresTexts DEF TextsOK
      <3>. QED  BY <2>1, <3>2, <3>3, <3>7, <3>8 DEF TextsOK
    <2>4. CASE EndOfScript
      <3>1. UNCHANGED <<script, plan>>
        BY <2>4 DEF EndOfScript
      <3>2. UNCHANGED queries
            \/ queries' = TextsOf(plan.collections)
                            \o Kept(TextsOf(plan.fillers), ToSet(TextsOf(plan.fillers)) \ {<<>>})
        BY <2>4 DEF EndOfScript
      <3> DEFINE c == TextsOf(plan.collections)
                 f == TextsOf(plan.fillers)
                 k == Kept(f, ToSet(f) \ {<<>>})
      <3>3. c \in Seq(Texts) /\ f \in Seq(Texts \cup {<<>>})
        <4>1. IsSeq(plan.collections) /\ IsSeq(plan.fillers)
          BY DEF PlanOK, GoodPlan
        <4>2. /\ Len(plan.collections) \in Nat /\ Len(plan.fillers) \in Nat
              /\ DOMAIN plan.collections = 1 .. Len(plan.collections)
              /\ DOMAIN plan.fillers = 1 .. Len(plan.fillers)
          BY <4>1, IsSeqFacts
        <4>. QED  BY <4>2 DEF TextsOK, TextsOf
      <3>. HIDE DEF c, f
      <3>4. k \in Seq(Texts \cup {<<>>}) /\ ToSet(k) = ToSet(f) \cap (ToSet(f) \ {<<>>})
        BY <3>3, KeptFacts
      <3>. HIDE DEF k
      <3>5. k \in Seq(Texts)
        <4>1. ToSet(f) \subseteq Texts \cup {<<>>}
          BY <3>3, SeqIsSeq
        <4>2. k \in Seq(ToSet(k)) /\ ToSet(k) \subseteq Texts
          BY <3>4, <4>1, SeqIsSeq DEF IsSeq
        <4>. QED  BY <4>2
      <3>6. c \o k \in Seq(Texts)
        BY <3>3, <3>5
      <3>7. \A n \in DOMAIN queries' : queries'[n] \in Texts
        <4>1. CASE queries' = c \o k
          BY <3>6, <4>1
        <4>. QED  BY <3>2, <4>1 DEF c, f, k, TextsOK
      <3>. QED  BY <2>1, <3>1, <3>7 DEF TextsOK
    <2>. QED  BY <1>1, <2>2, <2>3, <2>4, LoadDeclares
  <1>2. CASE Resolve
    <2>1. UNCHANGED <<script, plan, queries>>
      BY <1>2, JellyfinStays DEF Resolve, channelVars
    <2>2. Len(pools) \in Nat /\ pools \in Seq(Seq(Items))
      BY DEF TypeOK
    <2>3. CASE NextQuery
      <3>1. CASE UNCHANGED pools /\ resolving' \notin Evaluating
        BY <2>1, <3>1 DEF TextsOK
      <3>2. CASE ~(UNCHANGED pools /\ resolving' \notin Evaluating)
        <4>1. WellFormed(queries[Len(pools) + 1]) /\ resolving = "between"
          BY <2>3, <3>2 DEF NextQuery, Evaluating
        <4>2. \/ UNCHANGED pools
              \/ /\ \E x : pools' = Append(pools, x)
                 /\ resolving' = "between"
          BY <2>3 DEF NextQuery
        <4>3. CASE UNCHANGED pools
          BY <2>1, <4>1, <4>3 DEF TextsOK
        <4>4. CASE (\E x : pools' = Append(pools, x)) /\ resolving' = "between"
          <5>1. \A n \in DOMAIN pools' : n \in DOMAIN pools \/ n = Len(pools) + 1
            BY <2>2, <4>4
          <5>. QED  BY <2>1, <4>1, <4>4, <5>1 DEF TextsOK, Evaluating
        <4>. QED  BY <4>2, <4>3, <4>4
      <3>. QED  BY <3>1, <3>2
    <2>4. CASE Resolved
      <3>1. /\ resolving \in Evaluating /\ resolving' \notin Evaluating
            /\ pools' = Append(pools, found)
        BY <2>4 DEF Resolved, Evaluating
      <3>2. \A n \in DOMAIN pools' : n \in DOMAIN pools \/ n = Len(pools) + 1
        BY <2>2, <3>1
      <3>. QED  BY <2>1, <3>1, <3>2 DEF TextsOK
    <2>5. CASE ~NextQuery /\ ~Resolved
      <3>1. UNCHANGED pools
        BY <1>2, <2>5, OtherSteps DEF Resolve
      <3>2. resolving' \in Evaluating => resolving \in Evaluating
        BY <1>2, <2>5 DEF Resolve, GoesOn, HandOver, AskForAtom, EvalLeft, EvalRight, EvalNot, Calls,
           UnboundedNot, Combine, FindId, FindNoId, FetchPage, Evaluating
      <3>. QED  BY <2>1, <3>1, <3>2 DEF TextsOK
    <2>. QED  BY <2>3, <2>4, <2>5
  <1>3. CASE RequestIsLost \/ LibraryChanges
    <2>1. UNCHANGED <<script, plan, queries, pools>> /\ resolving' \in {resolving, "failed"}
      BY <1>3 DEF RequestIsLost, RequestFails, LibraryChanges, ItemComes, ItemGoes, channelVars
    <2>. QED  BY <2>1 DEF TextsOK, Evaluating
  <1>4. CASE PlanDay \/ Finish
    <2>1. UNCHANGED <<script, plan, queries, pools, resolving>>
      BY <1>4 DEF PlanDay, Finish, resolverVars
    <2>. QED  BY <2>1 DEF TextsOK
  <1>. QED  BY <1>1, <1>2, <1>3, <1>4 DEF Next

\* What has to hold besides Inv.
PoolInv == TextsOK /\ PoolsFollow

\* It holds at the start of a run.
LEMMA InitPoolInv == Init => PoolInv
  <1>. SUFFICES ASSUME Init PROVE PoolInv
    OBVIOUS
  <1>1. PICK start \in Starts :
           /\ script = start.script /\ plan = EmptyPlan
           /\ ResolverInit(start.shelf, start.fits, start.counts)
    BY DEF Init
  <1>2. queries = <<>> /\ pools = <<>> /\ cache = <<>> /\ resolving = "idle"
    BY <1>1 DEF ResolverInit
  <1>3. \A i \in DOMAIN script :
           /\ script[i].verb = "collection" => script[i].text \in Texts
           /\ script[i].verb = "filler" => script[i].text \in Texts \cup {<<>>}
    BY <1>1, ChannelAssumption
  <1>4. plan.collections = <<>> /\ plan.fillers = <<>>
    BY <1>1 DEF EmptyPlan
  <1>5. TextsOK
    BY <1>2, <1>3, <1>4 DEF TextsOK, Evaluating
  <1>6. PoolsFollow
    BY <1>2 DEF PoolsFollow, Follows, Evaluating
  <1>. QED  BY <1>5, <1>6 DEF PoolInv

\* Every step keeps it.
LEMMA NextPoolInv == Inv /\ PoolInv /\ [Next]_vars => PoolInv'
  <1>. SUFFICES ASSUME Inv, PoolInv, [Next]_vars PROVE PoolInv'
    OBVIOUS
  <1>1. CASE Next
    <2>1. TextsOK'
      BY <1>1, TextsStep DEF Inv, PoolInv
    <2>2. PoolsFollow'
      BY <1>1, FollowsStep DEF Inv, PoolInv
    <2>. QED  BY <2>1, <2>2 DEF PoolInv
  <1>2. CASE UNCHANGED vars
    <2>1. UNCHANGED <<script, plan, resolverVars>>
      BY <1>2 DEF vars, channelVars
    <2>2. TextsOK'
      BY <2>1 DEF PoolInv, TextsOK, resolverVars
    <2>3. UNCHANGED <<shelf, fits, come, gone, queries, pools, cache, frames, found, page, resolving, misled>>
      BY <2>1 DEF resolverVars, jellyfin, request
    <2>4. ASSUME NEW P, NEW V, NEW item, Follows(P, V, item) PROVE Follows(P, V, item)'
      <3>1. UNCHANGED <<Expression, Asked>>
        BY <2>3 DEF Expression, Asked, Top
      <3>2. UNCHANGED Listing(Asked)
        BY <2>3, <3>1 DEF Listing
      <3>3. PageFollows(item) => PageFollows(item)'
        BY <2>3, <3>1, <3>2 DEF PageFollows
      <3>4. PICK goal : goal = Expression
        OBVIOUS
      <3>5. CallsFollow(goal, P, V, item) => CallsFollow(goal, P, V, item)'
        BY <2>3 DEF CallsFollow, Top
      <3>6. CallsFollow(goal, P, V, item)' = CallsFollow(Expression, P, V, item)'
        BY <3>1, <3>4 DEF CallsFollow
      <3>. QED  BY <2>3, <2>4, <3>1, <3>3, <3>4, <3>5, <3>6 DEF Follows
    <2>5. \A item : Stayed(item)' = Stayed(item) /\ TrueOf(item)' = TrueOf(item)
      BY <2>3 DEF Stayed, TrueOf
    <2>6. PoolsFollow'
      <3>. SUFFICES ASSUME NEW P, NEW V, NEW item,
                       Stayed(item)', IsValuation(P, V, Atoms, TrueOf(item))'
                PROVE  Follows(P, V, item)'
        BY DEF PoolsFollow
      <3>1. Stayed(item) /\ IsValuation(P, V, Atoms, TrueOf(item))
        BY <2>5 DEF IsValuation
      <3>. QED  BY <2>4, <3>1 DEF PoolsFollow, PoolInv
    <2>. QED  BY <2>2, <2>6 DEF PoolInv
  <1>. QED  BY <1>1, <1>2

\* A pool has an item that was there all along exactly when its query's text
\* says so.
LEMMA PoolFollowsText ==
    ASSUME Inv, PoolInv, gone = {}, ~misled, NEW k \in DOMAIN pools,
           NEW item \in ToSet(shelf) \ come
    PROVE  Contains(pools[k], item) <=> Says(queries[k], TrueOf(item))
  <1>1. PICK text, true : text = queries[k] /\ true = TrueOf(item)
    OBVIOUS
  <1>2. text \in Texts /\ WellFormed(text)
    <2>1. k \in DOMAIN queries
      <3>1. pools \in Seq(Seq(Items)) /\ Len(pools) <= Len(queries) /\ IsSeq(queries)
        BY DEF Inv, TypeOK, PlanOK
      <3>2. DOMAIN pools = 1 .. Len(pools) /\ DOMAIN queries = 1 .. Len(queries)
            /\ Len(pools) \in Nat /\ Len(queries) \in Nat
        BY <3>1, IsSeqFacts
      <3>. QED  BY <3>1, <3>2
    <2>. QED  BY <1>1, <2>1 DEF PoolInv, TextsOK
  <1>3. /\ Len(text) \in Nat /\ DOMAIN text = 1 .. Len(text)
        /\ \A p \in 1 .. Len(text) : text[p].kind = "atom" => text[p] \in Atoms
    <2>1. IsSeq(text) /\ \A p \in DOMAIN text : text[p].kind = "atom" => text[p] \in Atoms
      BY <1>2, ResolverAssumption DEF IsSeq, IsAtom
    <2>. QED  BY <2>1, IsSeqFacts
  <1>4. Parse(text).at = Len(text) + 1 /\ ParseQuery(text) = Parse(text).tree
    BY <1>2 DEF WellFormed, ParseQuery, Parses
  <1>5. PICK P, V : /\ IsValuation(P, V, Atoms, true)
                    /\ Parse(text).tree \in P
                    /\ Parse(text).tree \in V <=> Says(text, true)
    BY <1>3, <1>4, ParsesWhatItSays
  <1>6. Follows(P, V, item)
    BY <1>1, <1>5 DEF PoolInv, PoolsFollow, Stayed
  <1>7. PICK e : e = ParseQuery(text)
    OBVIOUS
  <1>8. e \in DOMAIN cache /\ cache[e] = pools[k]
    BY <1>1, <1>7 DEF Inv, CacheServes
  <1>9. item \in ToSet(pools[k]) <=> Says(text, true)
    BY <1>4, <1>5, <1>6, <1>7, <1>8 DEF Follows
  <1>. QED  BY <1>1, <1>9 DEF Contains, ToSet

\* Whatever a query's text says of an item that was there all along, its pool
\* has it or has it not: the parser, the requests, their pages and the
\* evaluation in QueryResolver agree with the text, for every query, library
\* and size of a page.
THEOREM PoolsFollowTheirText == Spec => []PoolsFollowTheText
  <1>1. Init => Inv /\ PoolInv
    BY InitInv, InitPoolInv
  <1>2. (Inv /\ PoolInv) /\ [Next]_vars => (Inv /\ PoolInv)'
    BY NextInv, NextPoolInv
  <1>3. Inv /\ PoolInv => PoolsFollowTheText
    BY PoolFollowsText DEF PoolsFollowTheText
  <1>. QED  BY <1>1, <1>2, <1>3, PTL DEF Spec

=============================================================================

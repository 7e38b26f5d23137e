---------------------------- MODULE OverlapProofs ----------------------------
(***************************************************************************)
(* Items of one day overlap only behind a block that ran over, for every   *)
(* plan.  The walk goes back to an anchor it has passed, so what is placed *)
(* next may begin before what was placed last; the proof shows that then   *)
(* something behind it is to blame, and that the cut at midnight blames    *)
(* nothing else.                                                           *)
(***************************************************************************)
EXTENDS DayPlanProofs

USE TimeGridAssumption

-----------------------------------------------------------------------------
(* The invariant. *)

Ordered(act) == \A i, j \in DOMAIN act : i < j => act[i].at <= act[j].at

\* s ran past a later anchor, or had to share its own.
Excused(act, s) ==
    \/ /\ s.anchor # DefaultAnchor
       /\ \E i \in DOMAIN act : act[i].at > s.anchor /\ s.finish > act[i].at
    \/ \E i, j \in DOMAIN act : i < j /\ act[i].at = s.anchor /\ act[j].at = s.anchor

\* What begins before something in front of it ends has an excuse in front.
InOrder(act, day) ==
    \A j \in 1 .. Len(day) : \A i \in 1 .. j - 1 :
        day[j].start < day[i].finish => \E k \in 1 .. j - 1 : Excused(act, day[k])

\* All of it has ended by t, but for an excuse.
UpTo(act, day, t) ==
    \/ \A i \in 1 .. Len(day) : day[i].finish <= t
    \/ \E k \in 1 .. Len(day) : Excused(act, day[k])

\* Items are of the first n blocks, or of a default block that keeps out of
\* the block idx and those behind it.
Anchored(act, day, x, n) ==
    \A k \in 1 .. Len(day) :
        \/ day[k].anchor = DefaultAnchor
           /\ \A m \in DOMAIN act : m >= x => day[k].finish <= act[m].at
        \/ \E i \in DOMAIN act : i <= n /\ day[k].anchor = act[i].at

Expanding == pc = "default" \/ InBlock

\* The day so far, the instant it has come to, the blocks it has come to.
Day   == IF Expanding THEN items \o out ELSE items
Front == IF Expanding THEN here ELSE cursor
Begun == IF InBlock THEN idx ELSE idx - 1

WalkInv ==
    /\ final = << >>
    /\ InOrder(plan.active, Day)
    /\ UpTo(plan.active, Day, Front)
    /\ Anchored(plan.active, Day, idx, Begun)
    /\ Expanding => IF out = << >> THEN here <= cursor ELSE here = out[Len(out)].finish
    /\ pc = "default" => /\ cursor <= limit
                         /\ idx \in DOMAIN plan.active => limit = plan.active[idx].at

OverlapInv ==
    /\ pc = "walk" \/ Expanding => WalkInv
    /\ pc = "split" => InOrder(plan.active, final \o items)
    /\ pc \in {"guide", "done"} => InOrder(plan.active, final)

-----------------------------------------------------------------------------
(* Lists of items. *)

\* What comes next begins where the day has come to.
LEMMA OneMore ==
    ASSUME NEW act, NEW day \in Seq(Segment), NEW t \in Nat, NEW s \in Segment,
           InOrder(act, day), UpTo(act, day, t), s.start = t, s.finish >= t
    PROVE  /\ InOrder(act, Append(day, s))
           /\ UpTo(act, Append(day, s), s.finish)
  <1> DEFINE n == Len(day)
             more == Append(day, s)
  <1>1. /\ n \in Nat /\ Len(more) = n + 1 /\ more[n + 1] = s
        /\ \A i \in 1 .. n : more[i] = day[i] /\ day[i] \in Segment
    OBVIOUS
  <1>. HIDE DEF more
  <1>2. \A i \in 1 .. n : day[i].finish \in Nat
    BY <1>1 DEF Segment
  <1>3. s.finish \in Nat
    BY DEF Segment
  <1>4. ASSUME NEW j \in 1 .. n + 1, NEW i \in 1 .. j - 1, more[j].start < more[i].finish
        PROVE  \E k \in 1 .. j - 1 : Excused(act, more[k])
    <2>1. CASE j = n + 1
      <3>1. i \in 1 .. n /\ t < day[i].finish
        BY <1>1, <1>4, <2>1
      <3>2. PICK k \in 1 .. n : Excused(act, day[k])
        BY <1>2, <3>1 DEF UpTo
      <3>. QED  BY <1>1, <2>1, <3>2
    <2>2. CASE j # n + 1
      <3>1. j \in 1 .. n /\ i \in 1 .. n
        BY <1>1, <2>2
      <3>2. PICK k \in 1 .. j - 1 : Excused(act, day[k])
        BY <1>1, <1>4, <3>1 DEF InOrder
      <3>3. k \in 1 .. n
        BY <1>1, <3>1
      <3>. QED  BY <1>1, <3>2, <3>3
    <2>. QED  BY <2>1, <2>2
  <1>5. InOrder(act, more)
    BY <1>1, <1>4 DEF InOrder
  <1>6. UpTo(act, more, s.finish)
    <2>1. CASE \A i \in 1 .. n : day[i].finish <= t
      BY <1>1, <1>2, <1>3, <2>1 DEF UpTo
    <2>2. CASE \E k \in 1 .. n : Excused(act, day[k])
      BY <1>1, <2>2 DEF UpTo
    <2>. QED  BY <2>1, <2>2 DEF UpTo
  <1>. QED  BY <1>5, <1>6 DEF more

LEMMA AnchoredOn ==
    ASSUME NEW act, NEW day, NEW x \in Int, NEW y \in Int, NEW m \in Int, NEW n \in Int,
           DOMAIN act \subseteq Int, x <= y, m <= n, Anchored(act, day, x, m)
    PROVE  Anchored(act, day, y, n)
  BY DEF Anchored

LEMMA AnchorOneMore ==
    ASSUME NEW act, NEW day \in Seq(Segment), NEW n \in Int, NEW x \in Int,
           NEW s \in Segment, Anchored(act, day, x, n),
           \/ s.anchor = DefaultAnchor /\ \A m \in DOMAIN act : m >= x => s.finish <= act[m].at
           \/ \E i \in DOMAIN act : i <= n /\ s.anchor = act[i].at
    PROVE  Anchored(act, Append(day, s), x, n)
  <1> DEFINE more == Append(day, s)
  <1>1. /\ Len(day) \in Nat /\ Len(more) = Len(day) + 1 /\ more[Len(day) + 1] = s
        /\ \A i \in 1 .. Len(day) : more[i] = day[i]
    OBVIOUS
  <1>. HIDE DEF more
  <1>2. Anchored(act, more, x, n)
    BY <1>1 DEF Anchored
  <1>. QED  BY <1>2 DEF more

\* A block goes back to its anchor: what is behind that has an excuse.
LEMMA BackToTheAnchor ==
    ASSUME NEW act \in Seq(Block), Ordered(act), NEW x \in DOMAIN act,
           NEW day \in Seq(Segment), NEW t, UpTo(act, day, t), Anchored(act, day, x, x - 1)
    PROVE  UpTo(act, day, act[x].at)
  <1>. SUFFICES ASSUME NEW i \in 1 .. Len(day), ~(day[i].finish <= act[x].at)
                PROVE  Excused(act, day[i])
    BY DEF UpTo
  <1>1. day[i] \in Segment /\ act[x] \in Block
    OBVIOUS
  <1>2. day[i].finish \in Nat /\ act[x].at \in Nat
    BY SMTT(60), <1>1, TimeGridAssumption DEF Segment, Block
  <1>3. PICK m \in DOMAIN act : m <= x - 1 /\ day[i].anchor = act[m].at
    BY DEF Anchored
  <1>4. act[m] \in Block
    BY <1>3
  <1>5. act[m].at \in Nat /\ act[m].at <= act[x].at
    <2>1. m \in Nat /\ x \in Nat /\ m < x
      BY <1>3
    <2>2. act[m].at \in Nat
      BY <1>4, TimeGridAssumption DEF Block
    <2>. QED  BY <2>1, <2>2 DEF Ordered
  <1>6. CASE act[m].at = act[x].at
    BY <1>3, <1>6 DEF Excused
  <1>7. CASE act[m].at < act[x].at
    BY SMTT(60), <1>2, <1>3, <1>5, <1>7 DEF Excused, DefaultAnchor
  <1>. QED  BY <1>5, <1>6, <1>7, <1>2

\* all is xs with bs behind it, item by item.
IsConcat(all, xs, bs, S) ==
    /\ all \in Seq(S) /\ Len(all) = Len(xs) + Len(bs) /\ Len(xs) \in Nat /\ Len(bs) \in Nat
    /\ \A i \in 1 .. Len(xs) : all[i] = xs[i]
    /\ \A i \in 1 .. Len(bs) : all[Len(xs) + i] = bs[i]

LEMMA Joined ==
    ASSUME NEW S, NEW xs \in Seq(S), NEW bs \in Seq(S)
    PROVE  IsConcat(xs \o bs, xs, bs, S)
  <1> DEFINE all == xs \o bs
  <1>1. Len(xs) \in Nat /\ Len(bs) \in Nat
    OBVIOUS
  <1>2. all \in Seq(S) /\ Len(all) = Len(xs) + Len(bs)
    OBVIOUS
  <1>3. \A i \in 1 .. Len(xs) : all[i] = xs[i]
    BY <1>1
  <1>4. \A i \in 1 .. Len(bs) : all[Len(xs) + i] = bs[i]
    BY <1>1
  <1>. QED  BY <1>1, <1>2, <1>3, <1>4 DEF IsConcat

LEMMA OneBetween ==
    ASSUME NEW S, NEW xs \in Seq(S), NEW rs \in Seq(S), NEW s \in S, NEW n \in Nat, n = Len(xs)
    PROVE  LET all == xs \o (<<s>> \o rs)
           IN  /\ all \in Seq(S) /\ Len(all) = n + 1 + Len(rs)
               /\ \A i \in 1 .. n : all[i] = xs[i]
               /\ all[n + 1] = s
               /\ \A q \in 1 .. Len(rs) : all[n + 1 + q] = rs[q]
  <1> DEFINE one == <<s>>
  <1>1. one \in Seq(S) /\ Len(one) = 1 /\ one[1] = s
    OBVIOUS
  <1>. HIDE DEF one
  <1> DEFINE tl == one \o rs
  <1>2. IsConcat(tl, one, rs, S)
    BY <1>1, Joined
  <1>. HIDE DEF tl
  <1>3. /\ tl \in Seq(S) /\ Len(tl) = 1 + Len(rs) /\ tl[1] = s /\ Len(rs) \in Nat
        /\ \A q \in 1 .. Len(rs) : tl[1 + q] = rs[q]
    BY <1>1, <1>2 DEF IsConcat
  <1> DEFINE all == xs \o tl
  <1>4. IsConcat(all, xs, tl, S)
    BY <1>3, Joined
  <1>. HIDE DEF all
  <1>5. /\ all \in Seq(S) /\ Len(all) = n + (1 + Len(rs))
        /\ \A i \in 1 .. n : all[i] = xs[i]
        /\ \A q \in 1 .. 1 + Len(rs) : all[n + q] = tl[q]
    BY <1>3, <1>4 DEF IsConcat
  <1>6. all[n + 1] = s
    BY <1>3, <1>5
  <1>7. ASSUME NEW q \in 1 .. Len(rs) PROVE all[n + 1 + q] = rs[q]
    <2>1. 1 + q \in 1 .. 1 + Len(rs) /\ n + (1 + q) = n + 1 + q
      BY <1>3
    <2>. QED  BY <1>3, <1>5, <2>1
  <1>8. Len(all) = n + 1 + Len(rs)
    BY <1>3, <1>5
  <1>. QED  BY <1>5, <1>6, <1>7, <1>8 DEF all, tl, one

LEMMA TwoBetween ==
    ASSUME NEW S, NEW xs \in Seq(S), NEW rs \in Seq(S), NEW a \in S, NEW b \in S,
           NEW n \in Nat, n = Len(xs)
    PROVE  LET all == (xs \o <<a, b>>) \o rs
           IN  /\ all \in Seq(S) /\ Len(all) = n + 2 + Len(rs)
               /\ \A i \in 1 .. n : all[i] = xs[i]
               /\ all[n + 1] = a /\ all[n + 2] = b
               /\ \A q \in 1 .. Len(rs) : all[n + 2 + q] = rs[q]
  <1> DEFINE two == <<a, b>>
  <1>1. two \in Seq(S) /\ Len(two) = 2 /\ two[1] = a /\ two[2] = b
    OBVIOUS
  <1>. HIDE DEF two
  <1> DEFINE hd == xs \o two
  <1>2. IsConcat(hd, xs, two, S)
    BY <1>1, Joined
  <1>. HIDE DEF hd
  <1>3. /\ hd \in Seq(S) /\ Len(hd) = n + 2
        /\ \A i \in 1 .. n : hd[i] = xs[i]
        /\ hd[n + 1] = a /\ hd[n + 2] = b
    BY <1>1, <1>2 DEF IsConcat
  <1> DEFINE all == hd \o rs
  <1>4. IsConcat(all, hd, rs, S)
    BY <1>3, Joined
  <1>. HIDE DEF all
  <1>5. /\ all \in Seq(S) /\ Len(all) = n + 2 + Len(rs)
        /\ \A i \in 1 .. n + 2 : all[i] = hd[i]
        /\ \A q \in 1 .. Len(rs) : all[n + 2 + q] = rs[q]
    BY <1>3, <1>4 DEF IsConcat
  <1>6. all[n + 1] = a /\ all[n + 2] = b /\ \A i \in 1 .. n : all[i] = xs[i]
    BY <1>3, <1>5
  <1>. QED  BY <1>5, <1>6 DEF all, hd, two

\* new is old, n items on, with s cut in two: a and b, and l more behind them.
IsCut(old, new, n, l, s, a, b) ==
    /\ a.start = s.start /\ a.finish = b.start /\ b.finish = s.finish
    /\ a.start <= a.finish /\ b.start <= b.finish /\ b.anchor = s.anchor
    /\ Len(old) = n + 1 + l /\ old[n + 1] = s
    /\ Len(new) = n + 2 + l /\ new[n + 1] = a /\ new[n + 2] = b
    /\ \A i \in 1 .. n : new[i] = old[i]
    /\ \A q \in 1 .. l : new[n + 2 + q] = old[n + 1 + q]

\* The two halves of an item share its time between them.
Halves(s, a, b) ==
    /\ a.start = s.start /\ a.finish = b.start /\ b.finish = s.finish
    /\ a.start <= a.finish /\ b.start <= b.finish
    /\ b.anchor = s.anchor

\* What the cut of s makes of a day, with xs before s and rs behind it.
CutBetween(xs, s, rs, a, b) ==
    \E old \in Seq(Segment), new \in Seq(Segment), n \in Nat, l \in Nat :
       /\ IsCut(old, new, n, l, s, a, b)
       /\ old = xs \o (<<s>> \o rs) /\ new = (xs \o <<a, b>>) \o rs

LEMMA CutOfTheDay ==
    ASSUME NEW xs \in Seq(Segment), NEW rs \in Seq(Segment), NEW s \in Segment,
           NEW a \in Segment, NEW b \in Segment, Halves(s, a, b)
    PROVE  CutBetween(xs, s, rs, a, b)
  <1> DEFINE old == xs \o (<<s>> \o rs)
             new == (xs \o <<a, b>>) \o rs
  <1>1. PICK n \in Nat, l \in Nat : n = Len(xs) /\ l = Len(rs)
    OBVIOUS
  <1>2. /\ old \in Seq(Segment) /\ Len(old) = n + 1 + l /\ old[n + 1] = s
        /\ \A i \in 1 .. n : old[i] = xs[i]
        /\ \A q \in 1 .. l : old[n + 1 + q] = rs[q]
    BY <1>1, OneBetween
  <1>3. /\ new \in Seq(Segment) /\ Len(new) = n + 2 + l /\ new[n + 1] = a
        /\ new[n + 2] = b
        /\ \A i \in 1 .. n : new[i] = xs[i]
        /\ \A q \in 1 .. l : new[n + 2 + q] = rs[q]
    BY <1>1, TwoBetween
  <1>. HIDE DEF old, new
  <1>4. /\ \A i \in 1 .. n : new[i] = old[i]
        /\ \A q \in 1 .. l : new[n + 2 + q] = old[n + 1 + q]
    BY <1>2, <1>3
  <1>5. IsCut(old, new, n, l, s, a, b)
    BY <1>2, <1>3, <1>4 DEF IsCut, Halves
  <1>6. old = xs \o (<<s>> \o rs) /\ new = (xs \o <<a, b>>) \o rs
    BY DEF old, new
  <1>. QED  BY <1>2, <1>3, <1>5, <1>6 DEF CutBetween

\* An item cut in two: the halves are no more in the way than it was.
LEMMA CutInOrder ==
    ASSUME NEW act, NEW old \in Seq(Segment), NEW new \in Seq(Segment), NEW n \in Nat,
           NEW l \in Nat, NEW s \in Segment, NEW a \in Segment, NEW b \in Segment,
           IsCut(old, new, n, l, s, a, b), InOrder(act, old)
    PROVE  InOrder(act, new)
  <1>. USE DEF IsCut
  <1>1. Excused(act, s) => Excused(act, b)
    BY DEF Excused
  <1>2. \A i \in 1 .. n + 1 + l : old[i].start \in Nat /\ old[i].finish \in Nat
    <2>1. \A i \in 1 .. n + 1 + l : old[i] \in Segment
      OBVIOUS
    <2>. QED  BY <2>1 DEF Segment
  <1>3. /\ s.start \in Nat /\ s.finish \in Nat
         /\ a.start \in Nat /\ a.finish \in Nat /\ b.finish \in Nat
    BY DEF Segment
  <1>4. \A j \in 1 .. n + 1 + l : \A i \in 1 .. j - 1 :
           old[j].start < old[i].finish => \E k \in 1 .. j - 1 : Excused(act, old[k])
    BY DEF InOrder
  <1>5. ASSUME NEW j \in 1 .. n + 2 + l, NEW i \in 1 .. j - 1,
               new[j].start < new[i].finish
        PROVE  \E k \in 1 .. j - 1 : Excused(act, new[k])
    <2>1. CASE j <= n
      <3>1. new[j] = old[j] /\ new[i] = old[i] /\ j \in 1 .. n + 1 + l
        BY <2>1
      <3>2. PICK k \in 1 .. j - 1 : Excused(act, old[k])
        BY <1>4, <1>5, <3>1
      <3>3. new[k] = old[k]
        <4>1. k \in 1 .. n
          BY <2>1
        <4>. QED  BY <4>1
      <3>. QED  BY <3>2, <3>3
    <2>2. CASE j = n + 1 \/ j = n + 2
      <3>1. i # n + 1
        BY <1>2, <1>3, <1>5, <2>2
      <3>2. i \in 1 .. n
        BY <2>2, <3>1
      <3>3. old[n + 1].start < old[i].finish
        <4>1. new[j].start >= s.start /\ new[j].start \in Nat
          BY <1>3, <2>2
        <4>2. new[i] = old[i] /\ old[i].finish \in Nat
          BY <1>2, <3>2
        <4>. QED  BY <1>3, <1>5, <4>1, <4>2
      <3>4. PICK k \in 1 .. n : Excused(act, old[k])
        <4>1. n + 1 \in 1 .. n + 1 + l /\ i \in 1 .. (n + 1) - 1
          BY <3>2
        <4>2. \E k \in 1 .. (n + 1) - 1 : Excused(act, old[k])
          BY <1>4, <3>3, <4>1
        <4>. QED  BY <4>2
      <3>5. new[k] = old[k] /\ k \in 1 .. j - 1
        BY <2>2
      <3>. QED  BY <3>4, <3>5
    <2>3. CASE j > n + 2
      <3>1. PICK q \in 1 .. l : j = n + 2 + q
        <4>1. j - n - 2 \in 1 .. l /\ j = n + 2 + (j - n - 2)
          BY <2>3
        <4>. QED  BY <4>1
      <3>2. PICK h \in 1 .. n + q : old[n + 1 + q].start < old[h].finish
        <4>1. new[j] = old[n + 1 + q]
          BY <3>1
        <4>2. CASE i <= n
          <5>1. new[i] = old[i] /\ i \in 1 .. n + q
            BY <4>2
          <5>. QED  BY <1>5, <4>1, <5>1
        <4>3. CASE i = n + 1 \/ i = n + 2
          <5>1. new[i].finish <= s.finish /\ new[i].finish \in Nat
            BY <1>2, <1>3, <4>3
          <5>2. old[n + 1 + q].start \in Nat
            BY <1>2, <1>3
          <5>3. old[n + 1 + q].start < old[n + 1].finish
            BY SMTT(60), <1>2, <1>3, <1>5, <4>1, <5>1, <5>2
          <5>. QED  BY <5>3
        <4>4. CASE i > n + 2
          <5>1. PICK r \in 1 .. l : i = n + 2 + r
            <6>1. i - n - 2 \in 1 .. l /\ i = n + 2 + (i - n - 2)
              BY <3>1, <4>4
            <6>. QED  BY <6>1
          <5>2. new[n + 2 + r] = old[n + 1 + r]
            OBVIOUS
          <5>3. n + 1 + r \in 1 .. n + q
            BY <3>1, <5>1
          <5>. QED  BY <1>5, <4>1, <5>1, <5>2, <5>3
        <4>. QED  BY <4>2, <4>3, <4>4
      <3>3. PICK k \in 1 .. n + q : Excused(act, old[k])
        <4>1. n + 1 + q \in 1 .. n + 1 + l /\ 1 .. (n + 1 + q) - 1 = 1 .. n + q
          OBVIOUS
        <4>2. \E k \in 1 .. (n + 1 + q) - 1 : Excused(act, old[k])
          BY <1>4, <3>2, <4>1
        <4>. QED  BY <4>1, <4>2
      <3>4. CASE k <= n
        <4>1. new[k] = old[k] /\ k \in 1 .. j - 1
          BY <3>1, <3>4
        <4>. QED  BY <3>3, <4>1
      <3>5. CASE k = n + 1
        <4>1. Excused(act, new[n + 2]) /\ n + 2 \in 1 .. j - 1
          BY <1>1, <3>1, <3>3, <3>5
        <4>. QED  BY <4>1
      <3>6. CASE k > n + 1
        <4>1. PICK r \in 1 .. l : k = n + 1 + r
          <5>1. k - n - 1 \in 1 .. l /\ k = n + 1 + (k - n - 1)
            BY <3>6
          <5>. QED  BY <5>1
        <4>2. new[n + 2 + r] = old[n + 1 + r]
          OBVIOUS
        <4>3. n + 2 + r \in 1 .. j - 1
          BY <3>1, <4>1
        <4>. QED  BY <3>3, <4>1, <4>2, <4>3
      <3>. QED  BY <3>4, <3>5, <3>6
    <2>. QED  BY <2>1, <2>2, <2>3
  <1>6. InOrder(act, new)
    BY <1>5 DEF InOrder
  <1>. QED  BY <1>6

-----------------------------------------------------------------------------
(* The steps. *)

LEMMA ActOrdered ==
    ASSUME TInv
    PROVE  plan.active \in Seq(Block) /\ Ordered(plan.active)
  BY DEF TInv, TypeOK, PlanOK, Ordered

LEMMA DayType ==
    ASSUME TInv
    PROVE  /\ Day \in Seq(Segment) /\ items \in Seq(Segment) /\ out \in Seq(Segment)
           /\ items \o out \in Seq(Segment) /\ idx \in Nat \ {0}
           /\ here \in Nat /\ cursor \in Nat /\ limit \in Nat /\ Front \in Nat /\ Begun \in Int
  BY ConcatSound DEF TInv, TypeOK, Instant, Day, Front, Begun

LEMMA LaterIsUpTo ==
    ASSUME NEW act, NEW day \in Seq(Segment), NEW t \in Nat, NEW u \in Nat, t <= u,
           UpTo(act, day, t)
    PROVE  UpTo(act, day, u)
  <1>1. \A i \in 1 .. Len(day) : day[i].finish \in Nat
    <2>1. \A i \in 1 .. Len(day) : day[i] \in Segment
      OBVIOUS
    <2>. QED  BY <2>1 DEF Segment
  <1>. QED  BY <1>1 DEF UpTo

\* What the default block or a block places next.
LEMMA LaysOne ==
    ASSUME TInv, WalkInv, Expanding, UNCHANGED <<plan, pc, cursor, idx, items, limit, final>>,
           NEW s \in Segment, s.start = here, s.finish >= here,
           out' = Append(out, s), here' = s.finish,
           \/ /\ s.anchor = DefaultAnchor
              /\ \A m \in DOMAIN plan.active : m >= idx => s.finish <= plan.active[m].at
           \/ \E i \in DOMAIN plan.active : i <= Begun /\ s.anchor = plan.active[i].at
    PROVE  WalkInv'
  <1> DEFINE act == plan.active
             day == items \o out
  <1>1. /\ day \in Seq(Segment) /\ here \in Nat /\ idx \in Nat /\ Begun \in Int
        /\ items \in Seq(Segment) /\ out \in Seq(Segment)
    BY DayType
  <1>2. InOrder(act, day) /\ UpTo(act, day, here) /\ Anchored(act, day, idx, Begun)
    BY DEF WalkInv, Day, Front
  <1>3. Expanding' /\ Begun' = Begun
    BY DEF Expanding, InBlock, Begun
  <1>4. Day' = Append(day, s) /\ Front' = s.finish
    <2>1. Day' = items \o Append(out, s)
      BY <1>3 DEF Day
    <2>2. items \o Append(out, s) = Append(items \o out, s)
      BY <1>1
    <2>. QED  BY <1>3, <2>1, <2>2 DEF Front
  <1>5. /\ InOrder(act, Append(day, s)) /\ UpTo(act, Append(day, s), s.finish)
        /\ Anchored(act, Append(day, s), idx, Begun)
    <2>1. \/ /\ s.anchor = DefaultAnchor
             /\ \A m \in DOMAIN act : m >= idx => s.finish <= act[m].at
          \/ \E i \in DOMAIN act : i <= Begun /\ s.anchor = act[i].at
      OBVIOUS
    <2>. HIDE DEF act, day
    <2>2. InOrder(act, Append(day, s)) /\ UpTo(act, Append(day, s), s.finish)
      BY <1>1, <1>2, OneMore
    <2>3. Anchored(act, Append(day, s), idx, Begun)
      BY <1>1, <1>2, <2>1, AnchorOneMore
    <2>. QED  BY <2>2, <2>3
  <1>6. out' # << >> /\ here' = out'[Len(out')].finish
    <2>1. out' # << >> /\ out'[Len(out')] = s
      BY <1>1
    <2>. QED  BY <2>1
  <1>7. InOrder(plan.active, Day)' /\ UpTo(plan.active, Day, Front)'
    BY <1>4, <1>5
  <1>8. Anchored(plan.active, Day, idx, Begun)'
    BY <1>3, <1>4, <1>5
  <1>9. final' = << >> /\ (pc' = "default" =>
           cursor' <= limit' /\ (idx' \in DOMAIN plan'.active => limit' = plan'.active[idx'].at))
    BY DEF WalkInv
  <1>. QED  BY <1>3, <1>6, <1>7, <1>8, <1>9 DEF WalkInv

\* The walk takes over what an expansion has placed.
LEMMA TakesOver ==
    ASSUME TInv, WalkInv, Expanding, pc' = "walk", items' = items \o out,
           UNCHANGED <<plan, final>>, idx' \in Nat, idx' >= idx, idx' - 1 = Begun,
           cursor' \in Nat,
           IF out = << >> THEN cursor <= cursor' ELSE cursor' = out[Len(out)].finish
    PROVE  WalkInv'
  <1> DEFINE act == plan.active
             day == items \o out
  <1>1. DOMAIN act \subseteq Int
    BY ActOrdered
  <1>2. day \in Seq(Segment) /\ here \in Nat /\ idx \in Nat /\ Begun \in Int /\ cursor \in Nat
    BY DayType
  <1>3. InOrder(act, day) /\ UpTo(act, day, here) /\ Anchored(act, day, idx, Begun)
    BY DEF WalkInv, Day, Front
  <1>4. ~Expanding' /\ Begun' = idx' - 1
    BY DEF Expanding, InBlock, Begun
  <1>5. Day' = day /\ Front' = cursor'
    BY <1>4 DEF Day, Front
  <1>6. here <= cursor' /\ cursor' \in Nat
    BY <1>2 DEF WalkInv
  <1>7. UpTo(act, day, cursor')
    BY <1>2, <1>3, <1>6, LaterIsUpTo
  <1>8. Anchored(act, day, idx', Begun')
    <2>1. PICK x \in Nat : x = idx' /\ x >= idx
      OBVIOUS
    <2>. HIDE DEF act, day
    <2>2. Anchored(act, day, x, Begun)
      BY <1>2, <1>3, <2>1, <1>1, AnchoredOn
    <2>. QED  BY <1>4, <2>1, <2>2
  <1>9. final' = << >>
    BY DEF WalkInv
  <1>. QED  BY <1>3, <1>4, <1>5, <1>7, <1>8, <1>9 DEF WalkInv

\* An expansion begins: with nothing placed, the day is what it was.
LEMMA BeginsBlock ==
    ASSUME TInv, WalkInv, EnterBlock
    PROVE  WalkInv'
  <1> DEFINE act == plan.active
  <1>1. /\ pc = "walk" /\ pc' = "mains" /\ out' = << >> /\ here' = act[idx].at
        /\ idx <= Len(act) /\ act[idx].at <= cursor
        /\ UNCHANGED <<plan, cursor, idx, items, final>>
    BY DEF EnterBlock, Walking, BlockDue, B, walkVars, passVars
  <1>2. /\ act \in Seq(Block) /\ Ordered(act)
        /\ items \in Seq(Segment) /\ idx \in Nat \ {0} /\ cursor \in Nat
    BY ActOrdered, DayType
  <1>3. idx \in DOMAIN act /\ DOMAIN act \subseteq Int
    BY <1>1, <1>2
  <1>4. InOrder(act, items) /\ UpTo(act, items, cursor) /\ Anchored(act, items, idx, idx - 1)
    BY <1>1 DEF WalkInv, Day, Front, Begun, Expanding, InBlock
  <1>5. Expanding' /\ InBlock'
    BY <1>1 DEF Expanding, InBlock
  <1>6. Day' = items /\ Front' = act[idx].at /\ Begun' = idx
    <2>1. items \o << >> = items
      BY <1>2, ConcatEmptySeq
    <2>. QED  BY <1>1, <1>5, <2>1 DEF Day, Front, Begun
  <1>7. UpTo(act, items, act[idx].at) /\ Anchored(act, items, idx, idx)
    <2>. HIDE DEF act
    <2>1. UpTo(act, items, act[idx].at)
      BY <1>2, <1>3, <1>4, BackToTheAnchor
    <2>2. Anchored(act, items, idx, idx)
      BY <1>2, <1>3, <1>4, AnchoredOn
    <2>. QED  BY <2>1, <2>2
  <1>8. InOrder(plan.active, Day)' /\ UpTo(plan.active, Day, Front)'
    BY <1>1, <1>4, <1>6, <1>7
  <1>9. Anchored(plan.active, Day, idx, Begun)'
    BY <1>1, <1>6, <1>7
  <1>. QED  BY <1>1, <1>8, <1>9 DEF WalkInv

LEMMA BeginsDefault ==
    ASSUME TInv, WalkInv, EnterDefault
    PROVE  WalkInv'
  <1>1. /\ pc = "walk" /\ pc' = "default" /\ out' = << >> /\ here' = cursor
        /\ UNCHANGED <<plan, cursor, idx, items, final>>
        /\ limit' = IF GapAhead THEN plan.active[idx].at ELSE DayLen
        /\ cursor < DayLen /\ (GapAhead \/ TailAhead)
    BY DEF EnterDefault, Walking, walkVars, passVars
  <1>2. /\ plan.active \in Seq(Block) /\ idx \in Nat \ {0} /\ cursor \in Nat
        /\ items \in Seq(Segment)
    BY ActOrdered, DayType
  <1>3. /\ cursor' <= limit'
        /\ idx' \in DOMAIN plan'.active => limit' = plan'.active[idx'].at
    <2>1. CASE GapAhead
      <3>1. plan.active[idx] \in Block
        BY <1>2, <2>1 DEF GapAhead
      <3>2. plan.active[idx].at \in Nat
        BY <3>1 DEF Block
      <3>. QED  BY <1>1, <1>2, <2>1, <3>2 DEF GapAhead
    <2>2. CASE ~GapAhead
      <3>1. idx \notin DOMAIN plan.active
        BY <1>1, <1>2, <2>2 DEF TailAhead
      <3>. QED  BY <1>1, <1>2, <2>2, <3>1
    <2>. QED  BY <2>1, <2>2
  <1>4. ~Expanding /\ Expanding' /\ Begun' = Begun
    BY <1>1 DEF Expanding, InBlock, Begun
  <1>5. Day' = Day /\ Front' = Front
    <2>1. items \o << >> = items
      BY <1>2, ConcatEmptySeq
    <2>. QED  BY <1>1, <1>4, <2>1 DEF Day, Front
  <1>. QED  BY <1>1, <1>2, <1>3, <1>4, <1>5 DEF WalkInv

LEMMA WalkOverlap ==
    ASSUME TInv, OverlapInv, Walk
    PROVE  OverlapInv'
  <1>1. pc = "walk" /\ WalkInv
    BY DEF Walk, EnterDefault, DefaultFails, SkipGap, EnterBlock, BlockFails, EndWalk,
           Walking, OverlapInv
  <1>2. CASE EnterDefault
    BY <1>1, <1>2, BeginsDefault DEF EnterDefault, OverlapInv, Expanding
  <1>3. CASE EnterBlock
    BY <1>1, <1>3, BeginsBlock DEF EnterBlock, OverlapInv, Expanding, InBlock
  <1>4. CASE DefaultFails \/ BlockFails
    BY <1>4 DEF DefaultFails, BlockFails, Fail, OverlapInv, Expanding, InBlock
  <1>5. CASE SkipGap
    <2>1. /\ pc' = "walk" /\ cursor' = plan.active[idx].at /\ cursor' > cursor
          /\ UNCHANGED <<plan, idx, items, final>>
      BY <1>1, <1>5 DEF SkipGap, GapAhead, passVars
    <2>2. cursor \in Nat /\ items \in Seq(Segment) /\ cursor' \in Nat
      <3>1. cursor' \in Nat
        BY <1>5, TypeStep DEF Next, Walk, TInv, TypeOK, Instant
      <3>. QED  BY <3>1, DayType
    <2>3. Day = items /\ Day' = items /\ Front = cursor /\ Front' = cursor' /\ Begun' = Begun
      BY <1>1, <2>1 DEF Day, Front, Begun, Expanding, InBlock
    <2>4. UpTo(plan.active, items, cursor')
      <3>1. UpTo(plan.active, items, cursor)
        BY <1>1, <2>3 DEF WalkInv
      <3>. QED  BY <2>1, <2>2, <3>1, LaterIsUpTo
    <2>5. UpTo(plan.active, Day, Front)'
      BY <2>1, <2>3, <2>4
    <2>6. ~Expanding'
      BY <2>1 DEF Expanding, InBlock
    <2>7. WalkInv'
      BY <1>1, <2>1, <2>3, <2>5, <2>6 DEF WalkInv
    <2>. QED  BY <2>1, <2>6, <2>7 DEF OverlapInv
  <1>6. CASE EndWalk
    <2>1. /\ pc' = "split" /\ UNCHANGED <<plan, items, final>>
      BY <1>6 DEF EndWalk, walkVars, passVars
    <2>2. final \o items = items
      BY <1>1, DayType, ConcatEmptySeq DEF WalkInv
    <2>3. InOrder(plan.active, items)
      BY <1>1 DEF WalkInv, Day, Expanding, InBlock
    <2>4. InOrder(plan.active, final \o items)'
      BY <2>1, <2>2, <2>3
    <2>. QED  BY <2>1, <2>4 DEF OverlapInv, Expanding, InBlock
  <1>. QED  BY <1>2, <1>3, <1>4, <1>5, <1>6 DEF Walk

LEMMA DefaultOverlap ==
    ASSUME TInv, OverlapInv, DefaultStep
    PROVE  OverlapInv'
  <1>1. pc = "default" /\ WalkInv /\ Expanding
    BY DEF DefaultStep, DefaultPlace, DefaultReject, DefaultDone, OverlapInv, Expanding
  <1>2. CASE DefaultPlace
    <2> DEFINE coll == plan.deflt.coll
    <2>1. PICK n \in Picks(coll) :
             LET item == ToPlayable(coll, n, Pool(coll)[n])
             IN  /\ DiffNanos(limit, here) >= item.dur
                 /\ out' = Append(out, Placed(item, here, DefaultAnchor,
                                              plan.deflt.gran, "main"))
                 /\ here' = AddNanos(here, item.dur)
      BY <1>2 DEF DefaultPlace
    <2> DEFINE item == ToPlayable(coll, n, Pool(coll)[n])
               s == Placed(item, here, DefaultAnchor, plan.deflt.gran, "main")
    <2>2. /\ coll \in Collections /\ coll \in DOMAIN plan.pool
          /\ plan.deflt.gran \in {"per_item", "per_block", "per_chapter"}
          /\ here \in Instant /\ limit \in Instant
      BY <1>1 DEF TInv, TypeOK, PlanOK, Shape, DefaultBlock
    <2>3. item \in LocalItem
      BY <1>2, <2>1, <2>2, PickType DEF DefaultPlace, DefaultWants
    <2>4. /\ out' = Append(out, s) /\ here' = AddNanos(here, item.dur)
          /\ DiffNanos(limit, here) >= item.dur
      BY <2>1
    <2>. HIDE DEF item
    <2>5. item \in Item /\ item.dur \in Nat
      BY <2>3 DEF LocalItem, Item
    <2>6. "main" \in Roles /\ DefaultAnchor \in Int
      BY DEF Roles, DefaultAnchor
    <2>7. s \in Segment
      BY <2>2, <2>5, <2>6, PlacedType
    <2>8. s.start = here /\ s.finish = here' /\ s.anchor = DefaultAnchor
      BY <2>4 DEF Placed
    <2>9. here' >= here /\ here' <= limit /\ here' \in Nat
      <3>1. DiffNanos(limit, here) \in Int
        BY <2>2 DEF DiffNanos, Instant
      <3>2. AddNanos(here, item.dur) <= limit
        BY <2>2, <2>4, <2>5, <3>1, AddNanosInside
      <3>. QED  BY <2>2, <2>4, <2>5, <3>2, AddNanosBounds DEF Instant
    <2>. HIDE DEF s
    <2>10. ASSUME NEW m \in DOMAIN plan.active, m >= idx
           PROVE  s.finish <= plan.active[m].at
      <3>1. plan.active \in Seq(Block) /\ Ordered(plan.active) /\ idx \in Nat \ {0}
        BY ActOrdered, DayType
      <3>2. idx \in DOMAIN plan.active
        BY <2>10, <3>1
      <3>3. limit = plan.active[idx].at
        BY <1>1, <3>2 DEF WalkInv
      <3>4. plan.active[m] \in Block
        BY <3>1
      <3>5. plan.active[m].at \in Nat
        BY <3>4 DEF Block
      <3>6. limit <= plan.active[m].at
        <4>1. CASE m = idx
          BY <3>3, <3>5, <4>1
        <4>2. CASE m # idx
          <5>1. idx < m
            BY <2>10, <3>1, <4>2
          <5>. QED  BY <3>1, <3>2, <3>3, <5>1 DEF Ordered
        <4>. QED  BY <4>1, <4>2
      <3>. QED  BY <2>2, <2>8, <2>9, <3>5, <3>6 DEF Instant
    <2>11. pc' = pc /\ UNCHANGED <<plan, cursor, idx, items, limit, final>>
      BY <1>2 DEF DefaultPlace, walkVars, passVars
    <2>12. WalkInv'
      BY <1>1, <2>4, <2>7, <2>8, <2>9, <2>10, <2>11, LaysOne
    <2>. QED  BY <1>1, <2>11, <2>12 DEF OverlapInv
  <1>3. CASE DefaultReject \/ DefaultDone
    <2>1. LeaveDefault
      BY <1>3 DEF DefaultReject, DefaultDone
    <2>2. items' = items \o out /\ UNCHANGED <<plan, idx, final>>
      BY <2>1 DEF LeaveDefault, passVars
    <2>3. out \in Seq(Segment) /\ cursor \in Nat /\ limit \in Nat /\ idx \in Nat
      BY DayType
    <2>4. CASE pc' = "walk"
      <3>1. IF out = << >> THEN cursor <= cursor' /\ cursor' \in Nat
                           ELSE cursor' = out[Len(out)].finish
        <4>1. out = << >> => cursor' = limit
          BY <2>1, <2>4 DEF LeaveDefault
        <4>2. out # << >> => cursor' = out[Len(out)].finish
          BY <2>1 DEF LeaveDefault
        <4>. QED  BY <1>1, <2>3, <4>1, <4>2 DEF WalkInv
      <3>2. cursor' \in Nat
        <4>1. out # << >> => out[Len(out)].finish = here
          BY <1>1 DEF WalkInv
        <4>. QED  BY <3>1, <4>1, DayType
      <3>3. idx' - 1 = Begun /\ idx' \in Nat /\ idx' >= idx
        BY <1>1, <2>2, <2>3 DEF Begun, InBlock
      <3>4. WalkInv'
        BY <1>1, <2>2, <2>4, <3>1, <3>2, <3>3, TakesOver
      <3>. QED  BY <2>4, <3>4 DEF OverlapInv
    <2>5. CASE pc' = "split"
      <3>1. final' = << >> /\ InOrder(plan.active, items')
        BY <1>1, <2>2 DEF WalkInv, Day
      <3>2. final' \o items' = items'
        BY <2>2, <3>1, DayType, ConcatEmptySeq
      <3>3. InOrder(plan.active, final \o items)'
        BY <2>2, <3>1, <3>2
      <3>. QED  BY <2>5, <3>3 DEF OverlapInv, Expanding, InBlock
    <2>6. pc' \in {"walk", "split"}
      BY <2>1 DEF LeaveDefault
    <2>. QED  BY <2>4, <2>5, <2>6
  <1>. QED  BY <1>2, <1>3 DEF DefaultStep

LEMMA PlacingOverlap ==
    ASSUME TInv, OverlapInv, Placing
    PROVE  OverlapInv'
  <1>1. Busy /\ KeepBlock /\ InBlock
    BY PlacingLays, NowType
  <1>2. Expanding /\ WalkInv
    BY <1>1 DEF OverlapInv, Expanding
  <1>3. UNCHANGED <<plan, pc, cursor, idx, items, limit, final>>
    BY <1>1 DEF KeepBlock, walkVars, passVars
  <1>4. CASE out' = out /\ here' = here
    <2>1. WalkInv'
      BY <1>2, <1>3, <1>4 DEF WalkInv, Day, Front, Begun, Expanding, InBlock
    <2>. QED  BY <1>1, <1>3, <2>1 DEF OverlapInv, InBlock
  <1>5. CASE \E item \in Item : Lay(item)
    <2>1. PICK item \in Item : Lay(item)
      BY <1>5
    <2> DEFINE s == Placed(item, here, B.at, B.layout.gran, Now.kind)
    <2>2. Now.kind \in Roles /\ B \in Block /\ B.layout \in Layout
      BY <1>1, NowType, BlockType DEF TInv, Shape
    <2>3. /\ B.at \in Int /\ here \in Instant
          /\ B.layout.gran \in {"per_item", "per_block", "per_chapter"}
      BY <2>2 DEF Block, Layout, TInv, TypeOK
    <2>4. s \in Segment
      BY <2>2, <2>3, PlacedType
    <2>5. /\ s.start = here /\ s.finish = AddNanos(here, item.dur) /\ s.anchor = B.at
          /\ out' = Append(out, s) /\ here' = AddNanos(here, item.dur)
      BY <2>1 DEF Placed, Lay
    <2>. HIDE DEF s
    <2>6. s.finish >= here
      BY <2>3, <2>5, AddNanosBounds DEF Item
    <2>7. \E i \in DOMAIN plan.active : i <= Begun /\ s.anchor = plan.active[i].at
      <3>1. idx \in DOMAIN plan.active /\ Begun = idx /\ idx \in Nat
        BY <1>1, ActOrdered, DayType DEF TInv, Shape, Begun
      <3>. QED  BY <2>5, <3>1 DEF B
    <2>8. WalkInv'
      BY <1>2, <1>3, <2>4, <2>5, <2>6, <2>7, LaysOne
    <2>. QED  BY <1>1, <1>3, <2>8 DEF OverlapInv, InBlock
  <1>. QED  BY <1>4, <1>5, PlacingLays

LEMMA BlockOverlap ==
    ASSUME TInv, OverlapInv, BlockStep
    PROVE  OverlapInv'
  <1>1. CASE LeaveBlock
    <2>1. /\ InBlock /\ pc' = "walk" /\ items' = items \o out /\ idx' = idx + 1
          /\ cursor' = IF out # << >> THEN out[Len(out)].finish ELSE cursor
          /\ UNCHANGED <<plan, final>>
      BY <1>1 DEF LeaveBlock, Deciding, InBlock, passVars
    <2>2. Expanding /\ WalkInv /\ Begun = idx
      BY <2>1 DEF OverlapInv, Expanding, Begun
    <2>3. IF out = << >> THEN cursor <= cursor' ELSE cursor' = out[Len(out)].finish
      BY <2>1, DayType
    <2>4. cursor' \in Nat
      BY <2>1, <2>2, DayType DEF WalkInv
    <2>5. idx' \in Nat /\ idx' >= idx /\ idx' - 1 = Begun
      BY <2>1, <2>2, DayType
    <2>6. UNCHANGED <<plan, final>> /\ pc' = "walk" /\ items' = items \o out
      BY <2>1
    <2>7. WalkInv'
      BY <2>2, <2>3, <2>4, <2>5, <2>6, TakesOver
    <2>. QED  BY <2>1, <2>7 DEF OverlapInv
  <1>2. CASE ZeroInterval
    BY <1>2 DEF ZeroInterval, Fail, OverlapInv, Expanding, InBlock
  <1>3. CASE PickMain \/ NextChunk \/ EndMains \/ StartFill \/ FillPool \/ EndFill
    <2>1. /\ InBlock /\ InBlock' /\ pc # "default" /\ pc' # "default"
          /\ UNCHANGED <<plan, cursor, idx, items, out, here, final>>
      BY <1>3 DEF PickMain, NextChunk, EndMains, StartFill, FillPool, EndFill, Deciding,
                  InBlock, walkVars, passVars
    <2>2. WalkInv
      BY <2>1 DEF OverlapInv, Expanding
    <2>3. Expanding /\ Expanding'
      BY <2>1 DEF Expanding
    <2>4. Day' = Day /\ Front' = Front /\ Begun' = Begun
      BY <2>1, <2>3 DEF Day, Front, Begun
    <2>5. /\ InOrder(plan.active, Day)' /\ UpTo(plan.active, Day, Front)'
          /\ Anchored(plan.active, Day, idx, Begun)'
      BY <2>1, <2>2, <2>4 DEF WalkInv
    <2>6. final' = << >> /\ IF out' = << >> THEN here' <= cursor'
                                          ELSE here' = out'[Len(out')].finish
      BY <2>1, <2>2, <2>3 DEF WalkInv
    <2>7. WalkInv'
      BY <2>1, <2>5, <2>6 DEF WalkInv
    <2>. QED  BY <2>1, <2>7 DEF OverlapInv, InBlock
  <1>. QED  BY <1>1, <1>2, <1>3 DEF BlockStep

LEMMA SplitOverlap ==
    ASSUME TInv, MidnightInv, OverlapInv, SplitNext
    PROVE  OverlapInv'
  <1>1. /\ pc = "split" /\ pc' = pc /\ items # << >> /\ items' = Tail(items) /\ plan' = plan
        /\ final' = final \o SplitOf(Head(items))
    BY DEF SplitNext, SplitOf
  <1>2. PICK s \in Sound, rs \in Seq(Sound) : s = Head(items) /\ rs = Tail(items)
    BY <1>1, TailFacts DEF MidnightInv
  <1>3. /\ s \in Segment /\ rs \in Seq(Segment) /\ final \in Seq(Segment)
        /\ items \in Seq(Segment)
    BY <1>2, DayType DEF Sound, TInv, TypeOK
  <1>4. items = <<s>> \o rs
    BY <1>1, <1>2, <1>3
  <1>5. InOrder(plan.active, final \o (<<s>> \o rs))
    BY <1>1, <1>4 DEF OverlapInv
  <1>6. InOrder(plan.active, (final \o SplitOf(s)) \o rs)
    <2>1. CASE s.finish > DayLen /\ CrossesMidnight(s.item, s.start)
      <3> DEFINE mid == NextMidnight(s.start)
                 a == Half(s, s.start, mid, PreHalf(s.item, s.start), "pre")
                 b == Half(s, mid, s.finish, PostHalf(s.item, s.start), "post")
      <3>1. s.item \in Item /\ s.start \in Instant /\ s.finish \in Instant
        BY <1>3 DEF Segment, Instant
      <3>2. mid \in Instant /\ mid > s.start /\ mid <= s.finish
        BY <2>1, <3>1, NextMidnightBounds, CutForward
      <3>3. a \in Segment /\ b \in Segment
        BY <1>3, <2>1, <3>1, <3>2, HalvesType, HalfType
      <3>4. /\ a.start = s.start /\ a.finish = mid /\ b.start = mid /\ b.finish = s.finish
            /\ b.anchor = s.anchor
        BY DEF Half
      <3>5. SplitOf(s) = <<a, b>>
        BY <2>1 DEF SplitOf
      <3>. HIDE DEF a, b, mid
      <3>6. Halves(s, a, b)
        BY <3>1, <3>2, <3>4 DEF Instant, Halves
      <3>7. PICK old \in Seq(Segment), new \in Seq(Segment), n \in Nat, l \in Nat :
               /\ IsCut(old, new, n, l, s, a, b)
               /\ old = final \o (<<s>> \o rs) /\ new = (final \o <<a, b>>) \o rs
        <4>1. CutBetween(final, s, rs, a, b)
          BY <1>3, <3>3, <3>6, CutOfTheDay
        <4>. QED  BY <4>1 DEF CutBetween
      <3>8. InOrder(plan.active, new)
        BY <1>3, <1>5, <3>3, <3>7, CutInOrder
      <3>. QED  BY <3>5, <3>7, <3>8
    <2>2. CASE ~(s.finish > DayLen /\ CrossesMidnight(s.item, s.start))
      <3>1. SplitOf(s) = <<s>>
        BY <2>2 DEF SplitOf
      <3>2. (final \o <<s>>) \o rs = final \o (<<s>> \o rs)
        <4>1. <<s>> \in Seq(Segment)
          BY <1>3
        <4>. QED  BY <1>3, <4>1, ConcatAssociative
      <3>. QED  BY <1>5, <3>1, <3>2
    <2>. QED  BY <2>1, <2>2
  <1>7. InOrder(plan.active, final \o items)'
    BY <1>1, <1>2, <1>6
  <1>. QED  BY <1>1, <1>7 DEF OverlapInv, Expanding, InBlock

LEMMA PassesOverlap ==
    ASSUME TInv, MidnightInv, OverlapInv, Passes
    PROVE  OverlapInv'
  <1>1. CASE EndSplit
    <2>1. /\ pc = "split" /\ pc' = "guide" /\ items = << >> /\ UNCHANGED <<plan, final>>
      BY <1>1 DEF EndSplit, passVars
    <2>2. final \o items = final
      BY <2>1, ConcatEmptySeq DEF TInv, TypeOK
    <2>. QED  BY <2>1, <2>2 DEF OverlapInv, Expanding, InBlock
  <1>2. CASE GuideNext \/ EndGuide
    BY <1>2 DEF GuideNext, EndGuide, OverlapInv, Expanding, InBlock
  <1>. QED  BY <1>1, <1>2, SplitOverlap DEF Passes

LEMMA OverlapStep == TInv /\ MidnightInv /\ OverlapInv /\ [Next]_vars => OverlapInv'
  <1>. SUFFICES ASSUME TInv, MidnightInv, OverlapInv, [Next]_vars PROVE OverlapInv'
    OBVIOUS
  <1>1. CASE UNCHANGED vars
    BY <1>1 DEF vars, walkVars, blockVars, passVars, OverlapInv, WalkInv, Day, Front, Begun,
                Expanding, InBlock
  <1>. QED
    BY <1>1, WalkOverlap, DefaultOverlap, BlockOverlap, PlacingOverlap, PassesOverlap DEF Next

\* Whatever overlaps has something in front of it that ran over, or a block
\* that had to share its anchor.
THEOREM OverlapsAreExcused == Spec => []OverlapNeedsOverrun
  <1>1. Init => OverlapInv
    <2>. SUFFICES ASSUME Init PROVE OverlapInv
      OBVIOUS
    <2>1. /\ pc \in {"walk", "error"} /\ items = << >> /\ final = << >>
      BY DEF Init
    <2>2. ~Expanding /\ Day = << >> /\ Len(Day) = 0
      BY <2>1 DEF Expanding, InBlock, Day
    <2>3. InOrder(plan.active, Day)
      BY <2>2 DEF InOrder
    <2>4. UpTo(plan.active, Day, Front) /\ Anchored(plan.active, Day, idx, Begun)
      BY <2>2 DEF UpTo, Anchored
    <2>. QED  BY <2>1, <2>2, <2>3, <2>4 DEF OverlapInv, WalkInv
  <1>2. OverlapInv => OverlapNeedsOverrun
    <2>1. \A s : Excused(plan.active, s) <=> Overran(s) \/ DoubleBooked(s)
      BY DEF Excused, Overran, DoubleBooked
    <2>. SUFFICES ASSUME InOrder(plan.active, final)
                  PROVE  \A j \in DOMAIN final : \A i \in 1 .. j - 1 :
                            final[j].start < final[i].finish =>
                                \E k \in 1 .. j - 1 : Excused(plan.active, final[k])
      BY <2>1 DEF OverlapNeedsOverrun, OverlapInv, Planned
    <2>. QED  BY DEF InOrder
  <1>. QED  BY <1>1, <1>2, OverlapStep, MidnightInvariant, PTL DEF Spec

=============================================================================

----------------------------- MODULE MediaProofs -----------------------------
(***************************************************************************)
(* Mains air whole, for every plan: whatever breaks and midnight cut a     *)
(* main into, every piece picks up where the one before it stopped, and    *)
(* the last one plays to the end of the media.  And breaks take no more    *)
(* room than the main leaves them.                                         *)
(***************************************************************************)
EXTENDS OverlapProofs

USE TimeGridAssumption

-----------------------------------------------------------------------------
(* The invariant. *)

\* Where the media of an item end, in milliseconds.
Full(pool, item) ==
    ToPlayable(item.of, item.no, pool[item.of][item.no]).dur \div NanosPerMilli

Ends(pool, item) == item.out \in {NoPoint, Full(pool, item)}

\* An item without an out point is the whole of its media.
Measured(pool, item) ==
    item.out = NoPoint =>
        item.in = NoPoint /\ item.dur \div NanosPerMilli = Full(pool, item)

\* Item b goes on where a stops.
Follows(a, b) == a.of = b.of /\ a.no = b.no /\ a.out = b.in

\* The main at j goes on where the one at i stops, with fillers between.
Linked(day, i, j) ==
    /\ ~IsFiller(day[i]) /\ ~IsFiller(day[j])
    /\ Follows(day[i].item, day[j].item)
    /\ day[i].finish <= day[j].start
    /\ \A k \in i + 1 .. j - 1 : IsFiller(day[k])

\* The main at i stops where item, to be placed at t or later, goes on.
Waits(day, i, item, t) ==
    /\ ~IsFiller(day[i]) /\ Follows(day[i].item, item) /\ day[i].finish <= t
    /\ \A k \in i + 1 .. Len(day) : IsFiller(day[k])

TakenUp(day) ==
    \A j \in 1 .. Len(day) :
        ~IsFiller(day[j]) /\ day[j].item.in > 0 => \E i \in 1 .. j - 1 : Linked(day, i, j)

\* The mains of the day are whole, but for the pieces still to be placed.
Aired(pool, day, pieces, t) ==
    /\ TakenUp(day)
    /\ \A i \in 1 .. Len(day) :
          \/ IsFiller(day[i]) \/ Ends(pool, day[i].item)
          \/ \E j \in i + 1 .. Len(day) : Linked(day, i, j)
          \/ pieces # << >> /\ Waits(day, i, pieces[1], t)
    /\ pieces # << >> /\ pieces[1].in > 0 =>
          \E i \in 1 .. Len(day) : Waits(day, i, pieces[1], t)

AllMeasured(pool, day) ==
    \A i \in 1 .. Len(day) : IsFiller(day[i]) \/ Measured(pool, day[i].item)

\* Pieces of one main, one behind the other, the last one to the end.
Chain(pool, pieces) ==
    \A k \in 1 .. Len(pieces) :
        /\ Measured(pool, pieces[k])
        /\ IF k = Len(pieces) THEN Ends(pool, pieces[k]) ELSE Follows(pieces[k], pieces[k + 1])

Filling == {w \in Work : w.kind # "main"}

OnMain == Busy /\ Now.kind = "main"

\* What is left of the main under way.
Pieces == IF OnMain THEN Now.list \o chunks ELSE chunks

WholeInv ==
    /\ final = << >>
    /\ IF OnMain THEN pc = "mains" /\ Now.op = "items" /\ Tail(todo) \in Seq(Filling)
                 ELSE todo \in Seq(Filling)
    /\ Aired(plan.pool, Day, Pieces, here)
    /\ Chain(plan.pool, Pieces)
    /\ AllMeasured(plan.pool, Day)

MediaInv ==
    /\ pc = "walk" \/ Expanding => WholeInv
    /\ pc = "split" => /\ Aired(plan.pool, final \o items, << >>, 0)
                       /\ AllMeasured(plan.pool, items)
    /\ pc \in {"guide", "done"} => Aired(plan.pool, final, << >>, 0)

-----------------------------------------------------------------------------
(* One more item. *)

LEMMA OneMoreItem ==
    ASSUME NEW day \in Seq(Segment), NEW s \in Segment, NEW n \in Nat, n = Len(day)
    PROVE  /\ Append(day, s) \in Seq(Segment) /\ Len(Append(day, s)) = n + 1
           /\ Append(day, s)[n + 1] = s
           /\ \A i \in 1 .. n : Append(day, s)[i] = day[i]
           /\ \A i \in 1 .. n : day[i].start \in Nat /\ day[i].finish \in Nat
  <1>1. \A i \in 1 .. n : day[i] \in Segment
    OBVIOUS
  <1>2. \A i \in 1 .. n : day[i].start \in Nat /\ day[i].finish \in Nat
    BY <1>1 DEF Segment
  <1>. QED  BY <1>2

\* A main that goes on keeps doing so with more behind it.
LEMMA StaysLinked ==
    ASSUME NEW day, NEW more, NEW n \in Nat, \A i \in 1 .. n : more[i] = day[i],
           NEW j \in 1 .. n, NEW i \in 1 .. j - 1, Linked(day, i, j)
    PROVE  Linked(more, i, j)
  <1>1. i \in 1 .. n /\ \A k \in i + 1 .. j - 1 : k \in 1 .. n
    OBVIOUS
  <1>. QED  BY <1>1 DEF Linked

LEMMA FillerNext ==
    ASSUME NEW pool, NEW day \in Seq(Segment), NEW pieces, NEW t \in Nat, NEW u \in Nat,
           t <= u, NEW s \in Segment, IsFiller(s), Aired(pool, day, pieces, t)
    PROVE  Aired(pool, Append(day, s), pieces, u)
  <1> DEFINE more == Append(day, s)
  <1>1. PICK n \in Nat : n = Len(day)
    OBVIOUS
  <1>2. /\ Len(more) = n + 1 /\ more[n + 1] = s
        /\ \A i \in 1 .. n : more[i] = day[i]
        /\ \A i \in 1 .. n : day[i].finish \in Nat
    BY <1>1, OneMoreItem
  <1>. HIDE DEF more
  <1>3. ASSUME NEW i \in 1 .. n, Waits(day, i, pieces[1], t)
        PROVE  Waits(more, i, pieces[1], u)
    <2>1. \A k \in i + 1 .. n + 1 : IsFiller(more[k])
      <3>. TAKE k \in i + 1 .. n + 1
      <3>1. CASE k = n + 1
        BY <1>2, <3>1
      <3>2. CASE k # n + 1
        <4>1. k \in i + 1 .. n /\ k \in 1 .. n
          BY <3>2
        <4>. QED  BY <1>1, <1>2, <1>3, <4>1 DEF Waits
      <3>. QED  BY <3>1, <3>2
    <2>2. more[i] = day[i] /\ day[i].finish <= u
      BY <1>2, <1>3 DEF Waits
    <2>. QED  BY <1>2, <1>3, <2>1, <2>2 DEF Waits
  <1>4. ASSUME NEW j \in 1 .. n + 1, ~IsFiller(more[j]), more[j].item.in > 0
        PROVE  \E i \in 1 .. j - 1 : Linked(more, i, j)
    <2>1. j \in 1 .. n /\ more[j] = day[j]
      BY <1>2, <1>4
    <2>2. PICK i \in 1 .. j - 1 : Linked(day, i, j)
      BY <1>1, <1>4, <2>1 DEF Aired, TakenUp
    <2>. QED  BY <1>2, <2>1, <2>2, StaysLinked
  <1>5. ASSUME NEW i \in 1 .. n + 1, ~IsFiller(more[i]), ~Ends(pool, more[i].item)
        PROVE  \/ \E j \in i + 1 .. n + 1 : Linked(more, i, j)
               \/ pieces # << >> /\ Waits(more, i, pieces[1], u)
    <2>1. i \in 1 .. n /\ more[i] = day[i]
      BY <1>2, <1>5
    <2>2. \/ \E j \in i + 1 .. n : Linked(day, i, j)
          \/ pieces # << >> /\ Waits(day, i, pieces[1], t)
      BY <1>1, <1>5, <2>1 DEF Aired
    <2>3. ASSUME NEW j \in i + 1 .. n, Linked(day, i, j)
          PROVE  j \in i + 1 .. n + 1 /\ Linked(more, i, j)
      <3>1. j \in 1 .. n /\ i \in 1 .. j - 1 /\ j \in i + 1 .. n + 1
        BY <2>1
      <3>2. \A m \in 1 .. n : more[m] = day[m]
        BY <1>2
      <3>3. Linked(more, i, j)
        BY <2>3, <3>1, <3>2, StaysLinked
      <3>. QED  BY <3>1, <3>3
    <2>. QED  BY <1>3, <2>1, <2>2, <2>3
  <1>6. ASSUME pieces # << >>, pieces[1].in > 0
        PROVE  \E i \in 1 .. n + 1 : Waits(more, i, pieces[1], u)
    <2>1. PICK i \in 1 .. n : Waits(day, i, pieces[1], t)
      BY <1>1, <1>6 DEF Aired
    <2>. QED  BY <1>3, <2>1
  <1>7. TakenUp(more)
    BY <1>2, <1>4 DEF TakenUp
  <1>8. Aired(pool, more, pieces, u)
    BY <1>2, <1>5, <1>6, <1>7 DEF Aired
  <1>. QED  BY <1>8 DEF more

LEMMA MainNext ==
    ASSUME NEW pool, NEW day \in Seq(Segment), NEW pieces \in Seq(Item), pieces # << >>,
           NEW t \in Nat, NEW s \in Segment, ~IsFiller(s), s.item = pieces[1], s.start = t,
           Aired(pool, day, pieces, t), Chain(pool, pieces)
    PROVE  /\ Aired(pool, Append(day, s), Tail(pieces), s.finish)
           /\ Chain(pool, Tail(pieces))
  <1> DEFINE more == Append(day, s)
             rest == Tail(pieces)
  <1>1. PICK n \in Nat, l \in Nat : n = Len(day) /\ Len(pieces) = l + 1
    <2>1. Len(day) \in Nat /\ Len(pieces) - 1 \in Nat /\ Len(pieces) = (Len(pieces) - 1) + 1
      OBVIOUS
    <2>. QED  BY <2>1
  <1>2. /\ Len(more) = n + 1 /\ more[n + 1] = s
        /\ \A i \in 1 .. n : more[i] = day[i]
    BY <1>1, OneMoreItem
  <1>3. Len(rest) = l /\ (rest = << >> <=> l = 0) /\ \A k \in 1 .. l : rest[k] = pieces[k + 1]
    BY <1>1
  <1>. HIDE DEF more, rest
  <1>4. s.finish \in Nat
    BY DEF Segment
  <1>5. ASSUME NEW i \in 1 .. n, Waits(day, i, pieces[1], t)
        PROVE  Linked(more, i, n + 1)
    <2>1. \A k \in i + 1 .. (n + 1) - 1 : IsFiller(more[k])
      <3>1. \A k \in i + 1 .. (n + 1) - 1 : k \in i + 1 .. n /\ k \in 1 .. n
        OBVIOUS
      <3>. QED  BY <1>1, <1>2, <1>5, <3>1 DEF Waits
    <2>. QED  BY <1>2, <1>5, <2>1 DEF Waits, Linked
  <1>6. l # 0 => Waits(more, n + 1, rest[1], s.finish)
    <2>. SUFFICES ASSUME l # 0 PROVE Waits(more, n + 1, rest[1], s.finish)
      OBVIOUS
    <2>1. 1 \in 1 .. Len(pieces) /\ 1 # Len(pieces) /\ rest[1] = pieces[1 + 1]
      BY <1>1, <1>3
    <2>2. Follows(pieces[1], rest[1])
      BY <2>1 DEF Chain
    <2>3. \A k \in (n + 1) + 1 .. n + 1 : FALSE
      OBVIOUS
    <2>. QED  BY <1>2, <1>4, <2>2, <2>3 DEF Waits
  <1>7. l = 0 => Ends(pool, s.item)
    BY <1>1 DEF Chain
  <1>8. ASSUME NEW j \in 1 .. n + 1, ~IsFiller(more[j]), more[j].item.in > 0
        PROVE  \E i \in 1 .. j - 1 : Linked(more, i, j)
    <2>1. CASE j = n + 1
      <3>1. PICK i \in 1 .. n : Waits(day, i, pieces[1], t)
        BY <1>1, <1>2, <1>8, <2>1 DEF Aired
      <3>. QED  BY <1>5, <2>1, <3>1
    <2>2. CASE j # n + 1
      <3>1. j \in 1 .. n /\ more[j] = day[j]
        BY <1>2, <2>2
      <3>2. PICK i \in 1 .. j - 1 : Linked(day, i, j)
        BY <1>1, <1>8, <3>1 DEF Aired, TakenUp
      <3>. QED  BY <1>2, <3>1, <3>2, StaysLinked
    <2>. QED  BY <2>1, <2>2
  <1>9. ASSUME NEW i \in 1 .. n + 1, ~IsFiller(more[i]), ~Ends(pool, more[i].item)
        PROVE  \/ \E j \in i + 1 .. n + 1 : Linked(more, i, j)
               \/ rest # << >> /\ Waits(more, i, rest[1], s.finish)
    <2>1. CASE i = n + 1
      BY <1>2, <1>3, <1>6, <1>7, <1>9, <2>1
    <2>2. CASE i # n + 1
      <3>1. i \in 1 .. n /\ more[i] = day[i]
        BY <1>2, <2>2
      <3>2. \/ \E j \in i + 1 .. n : Linked(day, i, j)
            \/ pieces # << >> /\ Waits(day, i, pieces[1], t)
        BY <1>1, <1>9, <3>1 DEF Aired
      <3>3. ASSUME NEW j \in i + 1 .. n, Linked(day, i, j)
            PROVE  j \in i + 1 .. n + 1 /\ Linked(more, i, j)
        <4>1. j \in 1 .. n /\ i \in 1 .. j - 1
          BY <3>1
        <4>. QED  BY <1>2, <3>3, <4>1, StaysLinked
      <3>4. n + 1 \in i + 1 .. n + 1
        BY <3>1
      <3>. QED  BY <1>5, <3>1, <3>2, <3>3, <3>4
    <2>. QED  BY <2>1, <2>2
  <1>10. TakenUp(more)
    BY <1>2, <1>8 DEF TakenUp
  <1>11. Aired(pool, more, rest, s.finish)
    <2>1. rest # << >> => \E i \in 1 .. n + 1 : Waits(more, i, rest[1], s.finish)
      BY <1>3, <1>6
    <2>. QED  BY <1>2, <1>9, <1>10, <2>1 DEF Aired
  <1>12. Chain(pool, rest)
    <2>. SUFFICES ASSUME NEW k \in 1 .. l
                  PROVE  /\ Measured(pool, rest[k])
                         /\ IF k = l THEN Ends(pool, rest[k]) ELSE Follows(rest[k], rest[k + 1])
      BY <1>3 DEF Chain
    <2>1. k + 1 \in 1 .. Len(pieces) /\ (k = l <=> k + 1 = Len(pieces)) /\ rest[k] = pieces[k + 1]
      BY <1>1, <1>3
    <2>2. k # l => k + 1 \in 1 .. l /\ rest[k + 1] = pieces[(k + 1) + 1]
      BY <1>3
    <2>. QED  BY <2>1, <2>2 DEF Chain
  <1>. QED  BY <1>11, <1>12 DEF more, rest

\* A main begins: with no piece to go on, whatever comes first starts anew.
LEMMA BeginsAnew ==
    ASSUME NEW pool, NEW day, NEW t, NEW u, NEW pieces, Aired(pool, day, << >>, t),
           pieces # << >> => ~(pieces[1].in > 0)
    PROVE  Aired(pool, day, pieces, u)
  BY DEF Aired

-----------------------------------------------------------------------------
(* The pieces of a main. *)

\* Media as a pool gives them.
Uncut(pool, item) ==
    /\ item \in LocalItem /\ item.in = NoPoint /\ item.out = NoPoint
    /\ item.dur \div NanosPerMilli = Full(pool, item)

LEMMA WholeChain ==
    ASSUME NEW pool, NEW main, Uncut(pool, main)
    PROVE  Chain(pool, <<main>>) /\ ~(<<main>>[1].in > 0)
  BY DEF Uncut, Chain, Measured, Ends, NoPoint

LEMMA CutPoints ==
    ASSUME NEW pool, NEW main, Uncut(pool, main), NEW a, NEW b \in Nat
    PROVE  /\ Chunk(main, a, b).of = main.of /\ Chunk(main, a, b).no = main.no
           /\ Chunk(main, a, b).in = a \div NanosPerMilli
           /\ Chunk(main, a, b).out = b \div NanosPerMilli
           /\ Measured(pool, Chunk(main, a, b))
           /\ b = main.dur => Ends(pool, Chunk(main, a, b))
  <1> DEFINE c == Chunk(main, a, b)
  <1>1. /\ c.of = main.of /\ c.no = main.no
        /\ c.in = a \div NanosPerMilli /\ c.out = b \div NanosPerMilli
    BY DEF Chunk, Cut
  <1>2. c.out \in Nat
    BY <1>1, DivBounds
  <1>. HIDE DEF c
  <1>3. Full(pool, c) = Full(pool, main)
    BY <1>1 DEF Full
  <1>4. Measured(pool, c)
    BY <1>2 DEF Measured, NoPoint
  <1>5. b = main.dur => Ends(pool, c)
    BY <1>1, <1>3 DEF Ends, Uncut
  <1>. QED  BY <1>1, <1>4, <1>5 DEF c

\* However a main is cut, its pieces follow one another from its beginning.
LEMMA ChunksChain ==
    ASSUME NEW pool, NEW main, Uncut(pool, main), NEW mid \in MidRoll,
           mid.every = "minutes" => mid.interval # 0
    PROVE  Chain(pool, Chunks(main, mid)) /\ ~(Chunks(main, mid)[1].in > 0)
  <1> DEFINE half == main.dur \div 2
             n    == main.dur \div mid.interval
             k    == mid.interval
             till(i) == IF i = n THEN main.dur ELSE k * i
             cut  == [i \in 1 .. n |-> Chunk(main, k * (i - 1), till(i))]
  <1>1. main.dur \in Nat /\ half \in Nat /\ 0 \div NanosPerMilli = 0
    BY DEF Uncut, LocalItem, Item
  <1>2. CASE mid.every = "chapter" /\ half > 0
    <2> DEFINE a == Chunk(main, 0, half)
               b == Chunk(main, half, main.dur)
    <2>1. /\ a.in = 0 /\ Measured(pool, a) /\ Measured(pool, b) /\ Ends(pool, b)
          /\ Follows(a, b)
      BY <1>1, CutPoints DEF Follows
    <2>2. Chunks(main, mid) = <<a, b>>
      BY <1>2 DEF Chunks
    <2>. HIDE DEF a, b
    <2>3. Chain(pool, <<a, b>>)
      BY <2>1 DEF Chain
    <2>. QED  BY <2>1, <2>2, <2>3
  <1>3. CASE mid.every = "chapter" /\ half = 0
    <2> DEFINE a == Chunk(main, 0, main.dur)
    <2>1. a.in = 0 /\ Measured(pool, a) /\ Ends(pool, a)
      BY <1>1, CutPoints
    <2>2. Chunks(main, mid) = <<a>>
      BY <1>3 DEF Chunks
    <2>. HIDE DEF a
    <2>3. Chain(pool, <<a>>)
      BY <2>1 DEF Chain
    <2>. QED  BY <2>1, <2>2, <2>3
  <1>4. CASE mid.every = "minutes" /\ n > 1
    <2>1. k \in Nat \ {0} /\ n \in Nat
      BY <1>1, <1>4, DivBounds DEF MidRoll
    <2>2. \A i \in 1 .. n : till(i) \in Nat /\ k * (i - 1) \in Nat
      BY <1>1, <2>1
    <2>3. till(n) = main.dur /\ \A i \in 1 .. n - 1 : till(i) = k * ((i + 1) - 1)
      BY <2>1
    <2>4. k * (1 - 1) = 0
      BY <2>1
    <2> DEFINE piece(i) == Chunk(main, k * (i - 1), till(i))
    <2>5. \A i \in 1 .. n :
             /\ piece(i).of = main.of /\ piece(i).no = main.no
             /\ piece(i).in = (k * (i - 1)) \div NanosPerMilli
             /\ piece(i).out = till(i) \div NanosPerMilli
             /\ Measured(pool, piece(i))
             /\ till(i) = main.dur => Ends(pool, piece(i))
      BY <2>2, CutPoints
    <2>6. Len(cut) = n /\ \A i \in 1 .. n : cut[i] = piece(i)
      BY <2>1
    <2>7. Chunks(main, mid) = cut
      BY <1>4 DEF Chunks
    <2>. HIDE DEF cut, piece, till
    <2>8. ASSUME NEW i \in 1 .. n, i # n
          PROVE  Follows(cut[i], cut[i + 1])
      <3>1. i \in 1 .. n - 1 /\ i + 1 \in 1 .. n
        BY <2>1, <2>8
      <3>2. piece(i + 1).in = (k * ((i + 1) - 1)) \div NanosPerMilli
        BY <2>5, <3>1
      <3>3. piece(i).out = piece(i + 1).in
        BY <2>3, <2>5, <3>1, <3>2
      <3>. QED  BY <2>5, <2>6, <3>1, <3>3 DEF Follows
    <2>9. \A i \in 1 .. n : Measured(pool, cut[i]) /\ (i = n => Ends(pool, cut[i]))
      BY <2>3, <2>5, <2>6
    <2>10. Chain(pool, cut)
      BY <2>6, <2>8, <2>9 DEF Chain
    <2>11. cut[1].in = 0
      <3>1. 1 \in 1 .. n
        BY <1>4, <2>1
      <3>. QED  BY <1>1, <2>4, <2>5, <2>6, <3>1
    <2>. QED  BY <2>7, <2>10, <2>11
  <1>5. CASE ~(mid.every = "chapter") /\ ~(mid.every = "minutes" /\ n > 1)
    <2>1. Chunks(main, mid) = <<main>>
      BY <1>5 DEF Chunks
    <2>. QED  BY <2>1, WholeChain
  <1>. QED  BY <1>1, <1>2, <1>3, <1>4, <1>5

-----------------------------------------------------------------------------
(* The cut at midnight. *)

\* The halves of s are pieces of it, one behind the other.
IsHalved(pool, s, a, b) ==
    /\ IsFiller(a) <=> IsFiller(s)
    /\ IsFiller(b) <=> IsFiller(s)
    /\ a.item.of = s.item.of /\ a.item.no = s.item.no
    /\ Follows(a.item, b.item)
    /\ a.item.in = IF s.item.in = NoPoint THEN 0 ELSE s.item.in
    /\ s.item.out # NoPoint => b.item.out = s.item.out
    /\ ~IsFiller(s) /\ s.item.out = NoPoint => Ends(pool, b.item)

LEMMA CutAired ==
    ASSUME NEW pool, NEW old \in Seq(Segment), NEW new \in Seq(Segment), NEW n \in Nat,
           NEW l \in Nat, NEW s \in Segment, NEW a \in Segment, NEW b \in Segment,
           NEW t, NEW u,
           IsCut(old, new, n, l, s, a, b), IsHalved(pool, s, a, b),
           Aired(pool, old, << >>, t)
    PROVE  Aired(pool, new, << >>, u)
  <1> DEFINE from(i) == IF i <= n THEN i ELSE i + 1
             to(j)   == IF j <= n + 1 THEN j ELSE j + 1
  <1>1. /\ Len(old) = n + 1 + l /\ old[n + 1] = s
        /\ Len(new) = n + 2 + l /\ new[n + 1] = a /\ new[n + 2] = b
        /\ \A i \in 1 .. n : new[i] = old[i]
        /\ \A i \in n + 2 .. n + 1 + l : new[i + 1] = old[i]
    <2>1. ASSUME NEW i \in n + 2 .. n + 1 + l PROVE new[i + 1] = old[i]
      <3>1. PICK q \in 1 .. l : i = n + 1 + q
        <4>1. i - n - 1 \in 1 .. l /\ i = n + 1 + (i - n - 1)
          OBVIOUS
        <4>. QED  BY <4>1
      <3>2. new[n + 2 + q] = old[n + 1 + q]
        BY DEF IsCut
      <3>3. i + 1 = n + 2 + q
        BY <3>1
      <3>. QED  BY <3>1, <3>2, <3>3
    <2>. QED  BY <2>1 DEF IsCut
  <1>2. /\ a.start = s.start /\ a.finish = b.start /\ b.finish = s.finish
        /\ a.finish \in Nat /\ b.start \in Nat
    BY DEF IsCut, Segment
  <1>3. ASSUME NEW j \in 1 .. n + 1 + l, NEW i \in 1 .. j - 1, Linked(old, i, j),
               old[i].item.out # NoPoint
        PROVE  from(i) \in 1 .. to(j) - 1 /\ Linked(new, from(i), to(j))
    <2>1. /\ ~IsFiller(old[i]) /\ ~IsFiller(old[j]) /\ Follows(old[i].item, old[j].item)
          /\ old[i].finish <= old[j].start
          /\ \A k \in i + 1 .. j - 1 : IsFiller(old[k])
      BY <1>3 DEF Linked
    <2>2. /\ ~IsFiller(new[from(i)]) /\ new[from(i)].finish = old[i].finish
          /\ new[from(i)].item.of = old[i].item.of /\ new[from(i)].item.no = old[i].item.no
          /\ new[from(i)].item.out = old[i].item.out
      <3>1. CASE i <= n
        BY <1>1, <2>1, <3>1
      <3>2. CASE i = n + 1
        <4>1. old[i] = s
          BY <1>1, <3>2
        <4>2. from(i) = n + 2 /\ new[n + 2] = b
          BY <1>1, <3>2
        <4>3. b.item.of = s.item.of /\ b.item.no = s.item.no /\ (IsFiller(b) <=> IsFiller(s))
          BY DEF IsHalved, Follows
        <4>4. s.item.out # NoPoint => b.item.out = s.item.out
          BY DEF IsHalved
        <4>. HIDE DEF from
        <4>. QED  BY <1>2, <1>3, <2>1, <4>1, <4>2, <4>3, <4>4
      <3>3. CASE i > n + 1
        <4>1. i \in n + 2 .. n + 1 + l
          BY <3>3
        <4>. QED  BY <1>1, <2>1, <3>3, <4>1
      <3>4. i <= n \/ i = n + 1 \/ i > n + 1
        OBVIOUS
      <3>. HIDE DEF from
      <3>. QED  BY <3>1, <3>2, <3>3, <3>4
    <2>3. /\ ~IsFiller(new[to(j)]) /\ new[to(j)].start = old[j].start
          /\ new[to(j)].item.of = old[j].item.of /\ new[to(j)].item.no = old[j].item.no
          /\ new[to(j)].item.in = old[j].item.in
      <3>1. CASE j <= n
        BY <1>1, <2>1, <3>1
      <3>2. CASE j = n + 1
        <4>1. old[j] = s
          BY <1>1, <3>2
        <4>2. to(j) = n + 1 /\ new[n + 1] = a
          BY <1>1, <3>2
        <4>3. a.item.of = s.item.of /\ a.item.no = s.item.no /\ (IsFiller(a) <=> IsFiller(s))
          BY DEF IsHalved
        <4>4. s.item.in = old[i].item.out /\ a.item.in = s.item.in
          BY <1>3, <2>1, <4>1 DEF IsHalved, Follows
        <4>. HIDE DEF to
        <4>. QED  BY <1>2, <1>3, <2>1, <4>1, <4>2, <4>3, <4>4
      <3>3. CASE j > n + 1
        <4>1. j \in n + 2 .. n + 1 + l
          BY <3>3
        <4>. QED  BY <1>1, <2>1, <3>3, <4>1
      <3>4. j <= n \/ j = n + 1 \/ j > n + 1
        OBVIOUS
      <3>. HIDE DEF to
      <3>. QED  BY <3>1, <3>2, <3>3, <3>4
    <2>4. ASSUME NEW k \in from(i) + 1 .. to(j) - 1
          PROVE  IsFiller(new[k])
      <3>1. CASE k <= n
        <4>1. k \in i + 1 .. j - 1 /\ k \in 1 .. n
          BY <3>1
        <4>. QED  BY <1>1, <2>1, <4>1
      <3>2. CASE k = n + 1 \/ k = n + 2
        <4>1. n + 1 \in i + 1 .. j - 1
          BY <3>2
        <4>. QED  BY <1>1, <2>1, <3>2, <4>1 DEF IsHalved
      <3>3. CASE k > n + 2
        <4>1. k - 1 \in i + 1 .. j - 1 /\ k - 1 \in n + 2 .. n + 1 + l /\ k = (k - 1) + 1
          BY <3>3
        <4>2. new[(k - 1) + 1] = old[k - 1]
          BY <1>1, <4>1
        <4>. QED  BY <2>1, <4>1, <4>2
      <3>. QED  BY <3>1, <3>2, <3>3
    <2>5. from(i) \in 1 .. to(j) - 1
      OBVIOUS
    <2>. HIDE DEF from, to
    <2>. QED  BY <2>1, <2>2, <2>3, <2>4, <2>5 DEF Linked, Follows
  <1>4. ~IsFiller(s) => Linked(new, n + 1, n + 2)
    <2>1. \A k \in (n + 1) + 1 .. (n + 2) - 1 : FALSE
      OBVIOUS
    <2>. QED  BY <1>1, <1>2, <2>1 DEF IsHalved, Linked
  <1>5. ASSUME NEW j \in 1 .. n + 1 + l, ~IsFiller(old[j]), old[j].item.in > 0
        PROVE  \E i \in 1 .. to(j) - 1 : Linked(new, i, to(j))
    <2>1. PICK i \in 1 .. j - 1 : Linked(old, i, j)
      BY <1>1, <1>5 DEF Aired, TakenUp
    <2>2. old[i].item.out # NoPoint
      BY <1>5, <2>1 DEF Linked, Follows, NoPoint
    <2>. HIDE DEF from, to
    <2>. QED  BY <1>3, <2>1, <2>2
  <1>6. ASSUME NEW i \in 1 .. n + 1 + l, ~IsFiller(old[i]), ~Ends(pool, old[i].item)
        PROVE  \E j \in from(i) + 1 .. n + 2 + l : Linked(new, from(i), j)
    <2>1. PICK j \in i + 1 .. n + 1 + l : Linked(old, i, j)
      BY <1>1, <1>6 DEF Aired
    <2>2. old[i].item.out # NoPoint
      BY <1>6 DEF Ends
    <2>3. j \in 1 .. n + 1 + l /\ i \in 1 .. j - 1 /\ to(j) \in from(i) + 1 .. n + 2 + l
      OBVIOUS
    <2>. HIDE DEF from, to
    <2>. QED  BY <1>3, <2>1, <2>2, <2>3
  <1>7. ASSUME NEW j \in 1 .. n + 2 + l, ~IsFiller(new[j]), new[j].item.in > 0
        PROVE  \E i \in 1 .. j - 1 : Linked(new, i, j)
    <2>1. CASE j <= n
      <3>1. j \in 1 .. n /\ j \in 1 .. n + 1 + l /\ to(j) = j
        BY <2>1
      <3>2. new[j] = old[j]
        BY <1>1, <3>1
      <3>. HIDE DEF to
      <3>. QED  BY <1>5, <1>7, <3>1, <3>2
    <2>2. CASE j = n + 1
      <3>1. n + 1 \in 1 .. n + 1 + l /\ to(n + 1) = n + 1
        OBVIOUS
      <3>2. ~IsFiller(s) /\ s.item.in > 0
        BY <1>1, <1>7, <2>2 DEF IsHalved
      <3>. HIDE DEF to
      <3>. QED  BY <1>1, <1>5, <2>2, <3>1, <3>2
    <2>3. CASE j = n + 2
      <3>1. ~IsFiller(s) /\ n + 1 \in 1 .. j - 1
        BY <1>1, <1>7, <2>3 DEF IsHalved
      <3>. QED  BY <1>4, <2>3, <3>1
    <2>4. CASE j > n + 2
      <3>1. PICK k \in n + 2 .. n + 1 + l : j = k + 1
        <4>1. j - 1 \in n + 2 .. n + 1 + l /\ j = (j - 1) + 1
          BY <2>4
        <4>. QED  BY <4>1
      <3>2. k \in 1 .. n + 1 + l /\ to(k) = j /\ new[j] = old[k]
        BY <1>1, <3>1
      <3>. HIDE DEF to
      <3>. QED  BY <1>5, <1>7, <3>2
    <2>. QED  BY <2>1, <2>2, <2>3, <2>4
  <1>8. ASSUME NEW i \in 1 .. n + 2 + l, ~IsFiller(new[i]), ~Ends(pool, new[i].item)
        PROVE  \E j \in i + 1 .. n + 2 + l : Linked(new, i, j)
    <2>1. CASE i <= n
      <3>1. i \in 1 .. n /\ i \in 1 .. n + 1 + l /\ from(i) = i
        BY <2>1
      <3>2. new[i] = old[i]
        BY <1>1, <3>1
      <3>. HIDE DEF from
      <3>. QED  BY <1>6, <1>8, <3>1, <3>2
    <2>2. CASE i = n + 1
      <3>1. ~IsFiller(s) /\ n + 2 \in i + 1 .. n + 2 + l
        BY <1>1, <1>8, <2>2 DEF IsHalved
      <3>. QED  BY <1>4, <2>2, <3>1
    <2>3. CASE i = n + 2
      <3>1. n + 1 \in 1 .. n + 1 + l /\ from(n + 1) = n + 2
        OBVIOUS
      <3>2. ~IsFiller(s)
        BY <1>1, <1>8, <2>3 DEF IsHalved
      <3>3. ~Ends(pool, s.item)
        <4>1. s.item.out # NoPoint => b.item.out = s.item.out
          BY DEF IsHalved
        <4>2. b.item.of = s.item.of /\ b.item.no = s.item.no
          BY DEF IsHalved, Follows
        <4>3. s.item.out = NoPoint => Ends(pool, b.item)
          BY <3>2 DEF IsHalved
        <4>. QED  BY <1>1, <1>8, <2>3, <4>1, <4>2, <4>3 DEF Ends, Full
      <3>. HIDE DEF from
      <3>. QED  BY <1>1, <1>6, <2>3, <3>1, <3>2, <3>3
    <2>4. CASE i > n + 2
      <3>1. PICK k \in n + 2 .. n + 1 + l : i = k + 1
        <4>1. i - 1 \in n + 2 .. n + 1 + l /\ i = (i - 1) + 1
          BY <2>4
        <4>. QED  BY <4>1
      <3>2. k \in 1 .. n + 1 + l /\ from(k) = i /\ new[i] = old[k]
        BY <1>1, <3>1
      <3>. HIDE DEF from
      <3>. QED  BY <1>6, <1>8, <3>2
    <2>. QED  BY <2>1, <2>2, <2>3, <2>4
  <1>9. TakenUp(new)
    BY <1>1, <1>7 DEF TakenUp
  <1>. QED  BY <1>1, <1>8, <1>9 DEF Aired

-----------------------------------------------------------------------------
(* What is left of a main, and what the other work is. *)

LEMMA PiecesType ==
    ASSUME TInv
    PROVE  Pieces \in Seq(Item) /\ chunks \in Seq(Item)
  <1>1. chunks \in Seq(Item)
    BY DEF TInv, TypeOK
  <1>2. OnMain => Now.list \in Seq(Item)
    BY NowType DEF OnMain
  <1>. QED  BY <1>1, <1>2, ConcatSound DEF Pieces

LEMMA FillingIsNoMain ==
    ASSUME NEW list \in Seq(Filling), list # << >>
    PROVE  Head(list).kind # "main"
  <1>1. Head(list) \in Filling
    BY TailFacts
  <1>. QED  BY <1>1 DEF Filling

LEMMA NoMainNext ==
    ASSUME todo' \in Seq(Filling)
    PROVE  ~OnMain' /\ Pieces' = chunks'
  <1>1. ~OnMain'
    BY FillingIsNoMain DEF OnMain, Busy, Now
  <1>. QED  BY <1>1 DEF Pieces

\* Between two mains there is nothing left of one.
LEMMA NothingLeft ==
    ASSUME TInv, ~Busy, pc # "mains" \/ chunks = << >>
    PROVE  ~OnMain /\ Pieces = << >> /\ chunks = << >> /\ todo = << >>
  BY DEF TInv, Shape, OnMain, Pieces, Busy

LEMMA NotYet ==
    ASSUME TInv, ~InBlock
    PROVE  ~OnMain /\ Pieces = << >> /\ chunks = << >> /\ todo = << >>
  <1>1. ~Busy /\ pc # "mains"
    BY Idle DEF InBlock
  <1>. QED  BY <1>1, NothingLeft

LEMMA FillingType ==
    ASSUME NEW list \in Seq(Work), \A i \in 1 .. Len(list) : list[i].kind # "main"
    PROVE  list \in Seq(Filling)
  <1>1. \A i \in 1 .. Len(list) : list[i] \in Filling
    BY DEF Filling
  <1>. QED  BY <1>1

LEMMA OneFills ==
    ASSUME NEW w, <<w>> \in Seq(Work), w.kind # "main"
    PROVE  <<w>> \in Seq(Filling)
  <1>1. <<w>>[1] \in Work
    OBVIOUS
  <1>2. w \in Filling
    BY <1>1 DEF Filling
  <1>. QED  BY <1>2

\* One piece of work that is no main, before more of the kind.
LEMMA MoreFilling ==
    ASSUME NEW w, NEW rest \in Seq(Filling), <<w>> \o rest \in Seq(Work), w.kind # "main"
    PROVE  <<w>> \o rest \in Seq(Filling)
  <1>1. PICK l \in Nat : l = Len(rest)
    OBVIOUS
  <1> DEFINE one == <<w>>
             all == one \o rest
  <1>2. /\ Len(all) = 1 + l /\ all[1] = w
        /\ \A i \in 2 .. 1 + l : all[i] = rest[i - 1] /\ i - 1 \in 1 .. l
    BY <1>1
  <1>3. all \in Seq(Work)
    OBVIOUS
  <1>. HIDE DEF one, all
  <1>4. \A i \in 1 .. l : rest[i].kind # "main"
    <2>1. \A i \in 1 .. l : rest[i] \in Filling
      BY <1>1
    <2>. QED  BY <2>1 DEF Filling
  <1>5. \A i \in 1 .. 1 + l : all[i].kind # "main"
    <2>. SUFFICES ASSUME NEW i \in 1 .. 1 + l PROVE all[i].kind # "main"
      OBVIOUS
    <2>1. CASE i = 1
      BY <1>2, <2>1
    <2>2. CASE i # 1
      <3>1. i \in 2 .. 1 + l
        BY <2>2
      <3>. QED  BY <1>2, <1>4, <3>1
    <2>. QED  BY <2>1, <2>2
  <1>6. all \in Seq(Filling)
    BY <1>2, <1>3, <1>5, FillingType
  <1>. QED  BY <1>6 DEF all, one

LEMMA FillersAreNoMains ==
    /\ \A k \in Kinds : k # "main"
    /\ \A list, kind : ItemsOf(list, kind).kind = kind
    /\ \A op, list, budget, trim, kind : FillFrom(op, list, budget, trim, kind).kind = kind
    /\ "pre_roll" # "main" /\ "mid_roll" # "main" /\ "post_roll" # "main" /\ "lavfi" # "main"
  BY FillersAssumption DEF ItemsOf, FillFrom

LEMMA LocalWorkIsWork == ASSUME NEW list \in Seq(LocalWork) PROVE list \in Seq(Work)
  BY DEF LocalWork

LEMMA BreakFills ==
    ASSUME TInv, InBlock, NEW budget \in Int
    PROVE  Break(budget) \in Seq(Filling)
  <1> DEFINE wrap == B.layout.mid.wrap
             n    == Len(wrap)
             w    == [i \in 1 .. n |-> ItemsOf(FillerPick(wrap[i]), wrap[i])]
             d    == FillFrom("drain", DrainPool("mid_roll", 10), budget, TRUE, "mid_roll")
  <1>1. wrap \in Seq(Kinds) /\ n \in Nat
    BY BlockType DEF TInv, TypeOK, Shape, MidRoll
  <1>2. \A i \in 1 .. n : wrap[i] \in Kinds
    BY <1>1
  <1>3. d.kind # "main" /\ \A i \in 1 .. n : w[i].kind # "main"
    <2>1. d.kind = "mid_roll"
      BY DEF FillFrom
    <2>2. \A i \in 1 .. n : w[i].kind = wrap[i]
      BY DEF ItemsOf
    <2>. QED  BY <1>2, <2>1, <2>2, FillersAreNoMains
  <1>4. Break(budget) = w \o <<d>> /\ Len(w) = n
    BY <1>1 DEF Break
  <1>5. Break(budget) \in Seq(Work)
    BY BreakType, LocalWorkIsWork
  <1>. HIDE DEF wrap, n, w, d
  <1>6. w \o <<d>> \in Seq(Work) /\ Len(w \o <<d>>) = n + 1 /\ (w \o <<d>>)[n + 1] = d
        /\ \A i \in 1 .. n : (w \o <<d>>)[i] = w[i]
    <2>1. w \in Seq({w[i] : i \in 1 .. n})
      BY <1>1 DEF w
    <2>. QED  BY <1>1, <1>4, <1>5, <2>1
  <1>7. \A i \in 1 .. n + 1 : (w \o <<d>>)[i].kind # "main"
    <2>. SUFFICES ASSUME NEW i \in 1 .. n + 1 PROVE (w \o <<d>>)[i].kind # "main"
      OBVIOUS
    <2>1. i = n + 1 \/ i \in 1 .. n
      BY <1>1
    <2>. QED  BY <1>3, <1>6, <2>1
  <1>. QED  BY <1>4, <1>6, <1>7, FillingType

LEMMA SlugFills ==
    ASSUME TInv, InBlock
    PROVE  Slug \in Seq(Filling)
  <1>1. Slug \in Seq(Work)
    BY SlugType, LocalWorkIsWork
  <1>2. \A i \in 1 .. Len(Slug) : Slug[i].kind = "slug"
    BY DEF Slug, ItemsOf
  <1>. QED  BY <1>1, <1>2, FillingType

-----------------------------------------------------------------------------
(* The steps. *)

\* Nothing is placed, and there is nothing left of a main before or after.
LEMMA WholeFrame ==
    ASSUME WholeInv, Pieces = << >>, chunks' = << >>, todo' \in Seq(Filling),
           Day' = Day, UNCHANGED <<plan, final>>
    PROVE  WholeInv'
  <1>1. ~OnMain' /\ Pieces' = << >>
    BY NoMainNext
  <1>2. Aired(plan.pool, Day, << >>, here) /\ Chain(plan.pool, << >>) /\ AllMeasured(plan.pool, Day)
    BY DEF WholeInv
  <1>3. Aired(plan.pool, Day, << >>, here')
    BY <1>2, BeginsAnew
  <1>4. Aired(plan.pool, Day, Pieces, here)' /\ Chain(plan.pool, Pieces)'
        /\ AllMeasured(plan.pool, Day)'
    BY <1>1, <1>2, <1>3
  <1>. QED  BY <1>1, <1>4 DEF WholeInv

LEMMA NothingToDo == << >> \in Seq(Filling)
  OBVIOUS

\* The day grows by what is placed.
LEMMA DayGrows ==
    ASSUME TInv, Expanding, UNCHANGED <<pc, items>>, NEW s \in Segment, out' = Append(out, s)
    PROVE  Day' = Append(Day, s) /\ Day \in Seq(Segment)
  <1>1. Expanding'
    BY DEF Expanding, InBlock
  <1>2. items \in Seq(Segment) /\ out \in Seq(Segment) /\ Day \in Seq(Segment)
    BY DayType
  <1>3. items \o Append(out, s) = Append(items \o out, s)
    BY <1>2
  <1>. QED  BY <1>1, <1>2, <1>3 DEF Day

LEMMA MoreMeasured ==
    ASSUME NEW pool, NEW day \in Seq(Segment), AllMeasured(pool, day), NEW s \in Segment,
           IsFiller(s) \/ Measured(pool, s.item)
    PROVE  AllMeasured(pool, Append(day, s))
  <1>1. PICK n \in Nat : n = Len(day)
    OBVIOUS
  <1> DEFINE more == Append(day, s)
  <1>2. Len(more) = n + 1 /\ more[n + 1] = s /\ \A i \in 1 .. n : more[i] = day[i]
    BY <1>1, OneMoreItem
  <1>. HIDE DEF more
  <1>3. AllMeasured(pool, more)
    <2>. SUFFICES ASSUME NEW i \in 1 .. n + 1
                  PROVE  IsFiller(more[i]) \/ Measured(pool, more[i].item)
      BY <1>2 DEF AllMeasured
    <2>1. i = n + 1 \/ i \in 1 .. n
      OBVIOUS
    <2>. QED  BY <1>1, <1>2, <2>1 DEF AllMeasured
  <1>. QED  BY <1>3 DEF more

\* What a picker gives out is the media as they are in the pool.
LEMMA PickUncut ==
    ASSUME TInv, NEW coll \in Collections, coll \in DOMAIN plan.pool,
           Pool(coll) # << >>, NEW n \in Picks(coll)
    PROVE  Uncut(plan.pool, ToPlayable(coll, n, Pool(coll)[n]))
  BY PickType DEF Uncut, Full, ToPlayable, Pool

LEMMA WalkMedia ==
    ASSUME TInv, MediaInv, Walk
    PROVE  MediaInv'
  <1>1. pc = "walk" /\ WholeInv /\ ~InBlock
    BY DEF Walk, EnterDefault, DefaultFails, SkipGap, EnterBlock, BlockFails, EndWalk,
           Walking, MediaInv, InBlock
  <1>2. Pieces = << >> /\ chunks = << >> /\ todo = << >> /\ ~OnMain
    BY <1>1, NotYet
  <1>3. Day = items /\ items \in Seq(Segment) /\ items \o << >> = items
    BY <1>1, DayType, ConcatEmptySeq DEF Day, Expanding
  <1>4. CASE EnterDefault \/ EnterBlock
    <2>1. /\ chunks' = chunks /\ UNCHANGED <<plan, items, final>> /\ out' = << >>
          /\ pc' \in {"default", "mains"}
      BY <1>4 DEF EnterDefault, EnterBlock, walkVars, passVars
    <2>2. todo' \in Seq(Filling)
      <3>1. CASE EnterDefault
        BY <1>2, <3>1, NothingToDo DEF EnterDefault
      <3>2. CASE EnterBlock
        <4> DEFINE w == ItemsOf(Bumpers("pre_roll", B.layout.pre), "pre_roll")
        <4>1. todo' = <<w>> /\ w.kind # "main"
          BY <3>2, FillersAreNoMains DEF EnterBlock
        <4>2. todo' \in Seq(Work)
          BY <3>2, TypeStep DEF Next, Walk, TInv, TypeOK
        <4>. HIDE DEF w
        <4>. QED  BY <4>1, <4>2, OneFills
      <3>. QED  BY <1>4, <3>1, <3>2
    <2>3. Day' = Day
      BY <1>3, <2>1 DEF Day, Expanding, InBlock
    <2>4. WholeInv'
      BY <1>1, <1>2, <2>1, <2>2, <2>3, WholeFrame
    <2>. QED  BY <2>1, <2>4 DEF MediaInv
  <1>5. CASE DefaultFails \/ BlockFails
    BY <1>5 DEF DefaultFails, BlockFails, Fail, MediaInv, Expanding, InBlock
  <1>6. CASE SkipGap
    <2>1. /\ chunks' = chunks /\ todo' = todo /\ UNCHANGED <<plan, items, final>>
          /\ pc' = "walk"
      BY <1>1, <1>6 DEF SkipGap, blockVars, passVars
    <2>2. Day' = Day
      BY <1>3, <2>1 DEF Day, Expanding, InBlock
    <2>3. WholeInv'
      BY <1>1, <1>2, <2>1, <2>2, NothingToDo, WholeFrame
    <2>. QED  BY <2>1, <2>3 DEF MediaInv
  <1>7. CASE EndWalk
    <2>1. pc' = "split" /\ UNCHANGED <<plan, items, final>>
      BY <1>7 DEF EndWalk, walkVars, passVars
    <2>2. final \o items = items
      BY <1>1, <1>3, ConcatEmptySeq DEF WholeInv
    <2>3. Aired(plan.pool, items, << >>, 0) /\ AllMeasured(plan.pool, items)
      BY <1>1, <1>2, <1>3, BeginsAnew DEF WholeInv
    <2>4. Aired(plan.pool, final \o items, << >>, 0)' /\ AllMeasured(plan.pool, items)'
      BY <2>1, <2>2, <2>3
    <2>. QED  BY <2>1, <2>4 DEF MediaInv, Expanding, InBlock
  <1>. QED  BY <1>4, <1>5, <1>6, <1>7 DEF Walk

LEMMA DefaultMedia ==
    ASSUME TInv, MediaInv, DefaultStep
    PROVE  MediaInv'
  <1>1. pc = "default" /\ WholeInv /\ Expanding /\ ~InBlock
    BY DEF DefaultStep, DefaultPlace, DefaultReject, DefaultDone, MediaInv, Expanding, InBlock
  <1>2. Pieces = << >> /\ chunks = << >> /\ todo = << >> /\ ~OnMain
    BY <1>1, NotYet
  <1>3. CASE DefaultPlace
    <2> DEFINE coll == plan.deflt.coll
    <2>1. PICK n \in Picks(coll) :
             LET item == ToPlayable(coll, n, Pool(coll)[n])
             IN  /\ out' = Append(out, Placed(item, here, DefaultAnchor,
                                              plan.deflt.gran, "main"))
                 /\ here' = AddNanos(here, item.dur)
      BY <1>3 DEF DefaultPlace
    <2> DEFINE item == ToPlayable(coll, n, Pool(coll)[n])
               s == Placed(item, here, DefaultAnchor, plan.deflt.gran, "main")
    <2>2. /\ coll \in Collections /\ coll \in DOMAIN plan.pool
          /\ plan.deflt.gran \in {"per_item", "per_block", "per_chapter"}
          /\ here \in Instant /\ here \in Nat /\ Pool(coll) # << >>
      BY <1>1, <1>3 DEF TInv, TypeOK, PlanOK, Shape, DefaultBlock, DefaultPlace, DefaultWants,
                        Instant
    <2>3. Uncut(plan.pool, item)
      BY <2>2, PickUncut
    <2>4. out' = Append(out, s) /\ here' = AddNanos(here, item.dur)
      BY <2>1
    <2>. HIDE DEF item
    <2>5. item \in Item
      BY <2>3 DEF Uncut, LocalItem
    <2>6. "main" \in Roles /\ DefaultAnchor \in Int
      BY DEF Roles, DefaultAnchor
    <2>7. s \in Segment
      BY <2>2, <2>5, <2>6, PlacedType
    <2>8. s.start = here /\ s.finish = here' /\ s.item = item /\ ~IsFiller(s)
      BY <2>4 DEF Placed, IsFiller
    <2>. HIDE DEF s
    <2> DEFINE one == <<item>>
    <2>9. one \in Seq(Item) /\ one # << >> /\ one[1] = item /\ Tail(one) = << >>
      BY <2>5
    <2>10. Chain(plan.pool, one) /\ ~(one[1].in > 0) /\ Measured(plan.pool, item)
      BY <2>3, WholeChain DEF Uncut, Measured
    <2>. HIDE DEF one
    <2>11. UNCHANGED <<plan, pc, items, final, chunks, todo>>
      BY <1>3 DEF DefaultPlace, walkVars, passVars
    <2>12. Day' = Append(Day, s) /\ Day \in Seq(Segment)
      BY <1>1, <2>4, <2>7, <2>11, DayGrows
    <2>13. Aired(plan.pool, Day, one, here)
      BY <1>1, <1>2, <2>10, BeginsAnew DEF WholeInv
    <2>14. Aired(plan.pool, Append(Day, s), << >>, s.finish)
      BY <2>2, <2>7, <2>8, <2>9, <2>10, <2>12, <2>13, MainNext
    <2>15. AllMeasured(plan.pool, Append(Day, s))
      BY <1>1, <2>7, <2>8, <2>10, <2>12, MoreMeasured DEF WholeInv
    <2>16. ~OnMain' /\ Pieces' = << >> /\ todo' \in Seq(Filling)
      BY <1>2, <2>11, NothingToDo, NoMainNext
    <2>17. Aired(plan.pool, Day, Pieces, here)' /\ AllMeasured(plan.pool, Day)'
      BY <2>8, <2>11, <2>12, <2>14, <2>15, <2>16
    <2>18. Chain(plan.pool, Pieces)'
      BY <2>16 DEF Chain
    <2>19. WholeInv'
      BY <1>1, <2>11, <2>16, <2>17, <2>18 DEF WholeInv
    <2>. QED  BY <1>1, <2>11, <2>19 DEF MediaInv
  <1>4. CASE DefaultReject \/ DefaultDone
    <2>1. LeaveDefault
      BY <1>4 DEF DefaultReject, DefaultDone
    <2>2. items' = items \o out /\ UNCHANGED <<plan, final, chunks, todo>> /\ Day = items'
          /\ pc' \in {"walk", "split"}
      BY <1>1, <2>1 DEF LeaveDefault, passVars, blockVars, Day
    <2>3. CASE pc' = "walk"
      <3>1. Day' = Day
        BY <2>2, <2>3 DEF Day, Expanding, InBlock
      <3>2. WholeInv'
        BY <1>1, <1>2, <2>2, <3>1, NothingToDo, WholeFrame
      <3>. QED  BY <2>3, <3>2 DEF MediaInv
    <2>4. CASE pc' = "split"
      <3>1. final' = << >>
        BY <1>1, <2>2 DEF WholeInv
      <3>2. final' \o items' = items'
        BY <2>2, <3>1, DayType, ConcatEmptySeq
      <3>3. Aired(plan.pool, items', << >>, 0) /\ AllMeasured(plan.pool, items')
        BY <1>1, <1>2, <2>2, BeginsAnew DEF WholeInv
      <3>4. Aired(plan.pool, final \o items, << >>, 0)' /\ AllMeasured(plan.pool, items)'
        BY <2>2, <3>2, <3>3
      <3>. QED  BY <2>4, <3>4 DEF MediaInv, Expanding, InBlock
    <2>. QED  BY <2>2, <2>3, <2>4
  <1>. QED  BY <1>3, <1>4 DEF DefaultStep


LEMMA MainsMedia ==
    ASSUME TInv, MediaInv, PickMain \/ NextChunk
    PROVE  MediaInv'
  <1>1. /\ pc = "mains" /\ pc' = pc /\ InBlock /\ Expanding /\ Expanding' /\ WholeInv /\ ~Busy
        /\ UNCHANGED <<plan, items, out, here, final>>
    BY DEF PickMain, NextChunk, Deciding, InBlock, Expanding, MediaInv, walkVars, passVars
  <1>2. Day' = Day
    BY <1>1 DEF Day
  <1>3. todo = << >> /\ ~OnMain /\ Pieces = chunks
    BY <1>1 DEF Busy, OnMain, Pieces
  <1>4. CASE PickMain
    <2>1. /\ B \in Block /\ B.coll \in Collections /\ B.layout.mid \in MidRoll
          /\ B.coll \in DOMAIN plan.pool /\ Pool(B.coll) # << >>
      BY <1>1, BlockType DEF Block, TInv, Shape
    <2> DEFINE main(n) == ToPlayable(B.coll, n, Pool(B.coll)[n])
    <2>2. PICK n \in Picks(B.coll) :
             chunks' = IF B.layout.mid.every = "none" THEN <<main(n)>>
                       ELSE Chunks(main(n), B.layout.mid)
      BY <1>4 DEF PickMain
    <2>3. /\ B.layout.mid.every = "minutes" => B.layout.mid.interval # 0
          /\ chunks = << >> /\ todo' = todo
      BY <1>4 DEF PickMain
    <2>4. Uncut(plan.pool, main(n))
      BY <2>1, PickUncut
    <2>5. Chain(plan.pool, chunks') /\ ~(chunks'[1].in > 0)
      <3> DEFINE m == main(n)
      <3>1. Uncut(plan.pool, m) /\ (chunks' = <<m>> \/ chunks' = Chunks(m, B.layout.mid))
        BY <2>2, <2>4
      <3>. HIDE DEF m
      <3>. QED  BY <2>1, <2>3, <3>1, WholeChain, ChunksChain
    <2>6. ~OnMain' /\ Pieces' = chunks' /\ todo' \in Seq(Filling)
      BY <1>3, <2>3, NothingToDo, NoMainNext
    <2>7. Aired(plan.pool, Day, chunks', here)
      BY <1>1, <1>3, <2>3, <2>5, BeginsAnew DEF WholeInv
    <2>8. Aired(plan.pool, Day, Pieces, here)' /\ AllMeasured(plan.pool, Day)'
          /\ Chain(plan.pool, Pieces)'
      BY <1>1, <1>2, <2>5, <2>6, <2>7 DEF WholeInv
    <2>9. WholeInv'
      BY <1>1, <2>6, <2>8 DEF WholeInv
    <2>. QED  BY <1>1, <2>9 DEF MediaInv, InBlock
  <1>5. CASE NextChunk
    <2> DEFINE w    == ItemsOf(<<Head(chunks)>>, "main")
               rest == IF Len(chunks) > 1 THEN Break(Head(budgets)) ELSE Slug
    <2>1. /\ chunks # << >> /\ todo' = <<w>> \o rest /\ chunks' = Tail(chunks)
      BY <1>5 DEF NextChunk
    <2>2. chunks \in Seq(Item) /\ budgets \in Seq(Int) /\ Len(budgets) = Len(chunks) - 1
      BY <2>1 DEF TInv, TypeOK, Shape
    <2>3. rest \in Seq(Filling)
      <3>1. Len(chunks) > 1 => Head(budgets) \in Int
        BY <2>2
      <3>. QED  BY <1>1, <3>1, BreakFills, SlugFills
    <2>4. w.kind = "main" /\ w.op = "items" /\ w.list = <<Head(chunks)>>
      BY DEF ItemsOf
    <2>. HIDE DEF w, rest
    <2>5. todo' # << >> /\ Head(todo') = w /\ Tail(todo') = rest
      BY <2>1, <2>3
    <2>6. OnMain' /\ Now' = w
      BY <2>4, <2>5 DEF OnMain, Busy, Now
    <2>7. <<Head(chunks)>> \o Tail(chunks) = chunks
      BY <2>1, <2>2
    <2>8. Pieces' = chunks
      BY <2>1, <2>4, <2>6, <2>7 DEF Pieces
    <2>9. Aired(plan.pool, Day, Pieces, here)' /\ AllMeasured(plan.pool, Day)'
          /\ Chain(plan.pool, Pieces)'
      BY <1>1, <1>2, <1>3, <2>8 DEF WholeInv
    <2>10. Tail(todo)' \in Seq(Filling) /\ (Now.op)' = "items"
      BY <2>3, <2>4, <2>5, <2>6
    <2>11. WholeInv'
      BY <1>1, <2>6, <2>9, <2>10 DEF WholeInv
    <2>. QED  BY <1>1, <2>11 DEF MediaInv, InBlock
  <1>. QED  BY <1>4, <1>5

LEMMA BlockMedia ==
    ASSUME TInv, MediaInv, BlockStep
    PROVE  MediaInv'
  <1>1. CASE PickMain \/ NextChunk
    BY <1>1, MainsMedia
  <1>2. CASE ZeroInterval
    BY <1>2 DEF ZeroInterval, Fail, MediaInv, Expanding, InBlock
  <1>3. CASE EndMains \/ StartFill \/ FillPool \/ EndFill
    <2>1. /\ InBlock /\ InBlock' /\ ~Busy /\ (pc # "mains" \/ chunks = << >>)
          /\ UNCHANGED <<plan, items, out, chunks, final>>
      BY <1>3 DEF EndMains, StartFill, FillPool, EndFill, Deciding, InBlock, walkVars, passVars
    <2>2. Pieces = << >> /\ chunks = << >> /\ todo = << >> /\ WholeInv
      BY <2>1, NothingLeft DEF MediaInv, Expanding
    <2>3. Day' = Day
      BY <2>1 DEF Day, Expanding
    <2>4. todo' \in Seq(Work)
      BY <1>3, TypeStep DEF Next, BlockStep, TInv, TypeOK
    <2>5. todo' = << >> \/ \E w : todo' = <<w>> /\ w.kind # "main"
      <3>1. CASE EndMains
        BY <3>1, FillersAreNoMains DEF EndMains
      <3>2. CASE StartFill
        BY <2>2, <3>2 DEF StartFill
      <3>3. CASE FillPool
        <4>1. /\ idx <= Len(plan.active) /\ nextPool \in Nat \ {0}
              /\ nextPool <= Len(B.layout.fill)
          BY <2>1, <3>3 DEF FillPool, TInv, TypeOK, Shape
        <4>2. B.layout.fill \in Seq(Kinds)
          BY <4>1, BlockType DEF Layout
        <4>3. B.layout.fill[nextPool] \in Kinds
          BY <4>1, <4>2
        <4>. QED  BY <3>3, <4>3, FillersAreNoMains DEF FillPool
      <3>4. CASE EndFill
        BY <3>4, FillersAreNoMains DEF EndFill
      <3>. QED  BY <1>3, <3>1, <3>2, <3>3, <3>4
    <2>6. todo' \in Seq(Filling)
      BY <2>4, <2>5, NothingToDo, OneFills
    <2>7. WholeInv'
      BY <2>1, <2>2, <2>3, <2>6, WholeFrame
    <2>. QED  BY <2>1, <2>7 DEF MediaInv, InBlock
  <1>4. CASE LeaveBlock
    <2>1. /\ InBlock /\ pc' = "walk" /\ ~Busy /\ pc # "mains" /\ items' = items \o out
          /\ UNCHANGED <<plan, chunks, todo, final>>
      BY <1>4 DEF LeaveBlock, Deciding, InBlock, blockVars, passVars
    <2>2. Pieces = << >> /\ chunks = << >> /\ todo = << >> /\ WholeInv
      BY <2>1, NothingLeft DEF MediaInv, Expanding
    <2>3. Day' = Day
      BY <2>1 DEF Day, Expanding, InBlock
    <2>4. WholeInv'
      BY <2>1, <2>2, <2>3, NothingToDo, WholeFrame
    <2>. QED  BY <2>1, <2>4 DEF MediaInv
  <1>. QED  BY <1>1, <1>2, <1>3, <1>4 DEF BlockStep

\* A run of fillers ends in nothing, or in one item cut to fit, of its own kind.
LEMMA EndOfFill ==
    ASSUME Now.kind # "main", NEW trimmed, FillEnd(trimmed)
    PROVE  \/ todo' = << >> \o Tail(todo)
           \/ \E w : todo' = <<w>> \o Tail(todo) /\ w.kind # "main"
  <1> DEFINE w == ItemsOf(<<TrimTo(trimmed[1], Now.left)>>, Now.kind)
  <1>1. w.kind # "main"
    BY DEF ItemsOf
  <1>2. CASE Now.trim /\ Now.left > 0 /\ trimmed # << >>
    <2>1. todo' = <<w>> \o Tail(todo)
      BY <1>2 DEF FillEnd
    <2>. HIDE DEF w
    <2>. QED  BY <1>1, <2>1
  <1>3. CASE ~(Now.trim /\ Now.left > 0 /\ trimmed # << >>)
    BY <1>3 DEF FillEnd
  <1>. QED  BY <1>2, <1>3

\* The work that is no main stays so, whatever is taken off it.
LEMMA StillFilling ==
    ASSUME TInv, Placing, todo \in Seq(Filling)
    PROVE  todo' \in Seq(Filling)
  <1>1. Busy /\ Now.kind # "main" /\ Tail(todo) \in Seq(Filling)
    BY PlacingLays, FillingIsNoMain, TailFacts DEF Busy, Now
  <1>2. todo' \in Seq(Work)
    BY TypeStep DEF Next, TInv, TypeOK
  <1>3. \/ todo' = Tail(todo) \/ todo' = << >> \o Tail(todo)
        \/ \E w : todo' = <<w>> \o Tail(todo) /\ w.kind # "main"
    <2>1. \A list, left, over : Rest(list, left, over).kind # "main"
      BY <1>1 DEF Rest
    <2>2. ASSUME NEW list, NEW left, NEW over,
                 todo' = <<Rest(list, left, over)>> \o Tail(todo)
          PROVE  \E w : todo' = <<w>> \o Tail(todo) /\ w.kind # "main"
      BY <2>1, <2>2
    <2>3. CASE PlaceNext
      BY <2>2, <2>3 DEF PlaceNext
    <2>4. CASE DrainTake
      BY <2>2, <2>4 DEF DrainTake
    <2>5. CASE DrainSkip
      BY <2>2, <2>5 DEF DrainSkip
    <2>6. CASE LoopTake
      BY <2>2, <2>6 DEF LoopTake
    <2>7. CASE ListDone
      BY <2>7 DEF ListDone
    <2>8. CASE DrainEnd \/ LoopEnd
      BY <1>1, <2>8, EndOfFill DEF DrainEnd, LoopEnd
    <2>. QED  BY <2>3, <2>4, <2>5, <2>6, <2>7, <2>8 DEF Placing
  <1>4. << >> \o Tail(todo) = Tail(todo)
    BY <1>1, ConcatEmptySeq
  <1>. QED  BY <1>1, <1>2, <1>3, <1>4, MoreFilling

\* The first of two lists laid end to end.
LEMMA OffTheFront ==
    ASSUME NEW xs \in Seq(Item), NEW ys \in Seq(Item), xs # << >>
    PROVE  /\ xs \o ys # << >> /\ xs \o ys \in Seq(Item)
           /\ (xs \o ys)[1] = Head(xs) /\ Head(xs) \in Item
           /\ Tail(xs \o ys) = Tail(xs) \o ys
  <1> DEFINE zs == xs \o ys
             ts == Tail(xs) \o ys
  <1>1. /\ Len(xs) >= 1 /\ Head(xs) = xs[1] /\ xs[1] \in Item
        /\ Tail(xs) \in Seq(Item) /\ Len(Tail(xs)) = Len(xs) - 1
        /\ \A i \in 1 .. Len(xs) - 1 : Tail(xs)[i] = xs[i + 1]
    OBVIOUS
  <1>2. /\ zs \in Seq(Item) /\ Len(zs) = Len(xs) + Len(ys)
        /\ \A i \in 1 .. Len(xs) : zs[i] = xs[i]
        /\ \A i \in 1 .. Len(ys) : zs[Len(xs) + i] = ys[i]
    OBVIOUS
  <1>3. /\ ts \in Seq(Item) /\ Len(ts) = Len(xs) - 1 + Len(ys)
        /\ \A i \in 1 .. Len(xs) - 1 : ts[i] = xs[i + 1]
        /\ \A i \in 1 .. Len(ys) : ts[Len(xs) - 1 + i] = ys[i]
    BY <1>1
  <1>. HIDE DEF zs, ts
  <1>4. Len(zs) >= 1 /\ zs # << >> /\ zs[1] = xs[1]
    BY <1>1, <1>2
  <1>5. /\ Tail(zs) \in Seq(Item) /\ Len(Tail(zs)) = Len(zs) - 1
        /\ \A i \in 1 .. Len(zs) - 1 : Tail(zs)[i] = zs[i + 1]
    BY <1>2, <1>4
  <1>6. ASSUME NEW i \in 1 .. Len(ts)
        PROVE  Tail(zs)[i] = ts[i]
    <2>1. /\ Len(xs) \in Nat /\ Len(ys) \in Nat /\ i \in Nat /\ i >= 1
          /\ i <= Len(xs) - 1 + Len(ys) /\ i \in 1 .. Len(zs) - 1
      BY <1>1, <1>2, <1>3
    <2>2. Tail(zs)[i] = zs[i + 1]
      BY <1>5, <2>1
    <2>3. CASE i <= Len(xs) - 1
      <3>1. i \in 1 .. Len(xs) - 1 /\ i + 1 \in 1 .. Len(xs)
        BY <2>1, <2>3
      <3>2. ts[i] = xs[i + 1] /\ zs[i + 1] = xs[i + 1]
        BY <1>2, <1>3, <3>1
      <3>. QED  BY <2>2, <3>2
    <2>4. CASE i > Len(xs) - 1
      <3>1. PICK q \in Int : q = i - (Len(xs) - 1)
        BY <2>1
      <3>2. q \in 1 .. Len(ys) /\ i = Len(xs) - 1 + q /\ i + 1 = Len(xs) + q
        BY <2>1, <2>4, <3>1
      <3>3. ts[Len(xs) - 1 + q] = ys[q] /\ zs[Len(xs) + q] = ys[q]
        BY <1>2, <1>3, <3>2
      <3>. QED  BY <2>2, <3>2, <3>3
    <2>. QED  BY <2>1, <2>3, <2>4
  <1>7. Tail(zs) = ts
    BY <1>1, <1>2, <1>3, <1>5, <1>6, SeqEqual
  <1>8. zs = xs \o ys /\ ts = Tail(xs) \o ys
    BY DEF zs, ts
  <1>. QED  BY <1>1, <1>2, <1>4, <1>7, <1>8

LEMMA PlacingMedia ==
    ASSUME TInv, MediaInv, Placing
    PROVE  MediaInv'
  <1>1. Busy /\ KeepBlock /\ InBlock
    BY PlacingLays, NowType
  <1>2. Expanding /\ WholeInv
    BY <1>1 DEF MediaInv, Expanding
  <1>3. UNCHANGED <<plan, pc, items, chunks, final>>
    BY <1>1 DEF KeepBlock, walkVars, passVars
  <1>4. here \in Nat /\ here \in Instant /\ Day \in Seq(Segment)
    BY DayType DEF TInv, TypeOK
  <1>5. SUFFICES WholeInv'
    BY <1>1, <1>3 DEF MediaInv, InBlock
  <1>6. ASSUME NEW item \in Item, Lay(item)
        PROVE  \E s \in Segment :
                  /\ s.start = here /\ s.finish = here' /\ here <= here' /\ here' \in Nat
                  /\ s.item = item /\ s.kind = Now.kind /\ Day' = Append(Day, s)
    <2> DEFINE s == Placed(item, here, B.at, B.layout.gran, Now.kind)
    <2>1. Now.kind \in Roles /\ B \in Block /\ B.layout \in Layout
      BY <1>1, NowType, BlockType DEF TInv, Shape
    <2>2. B.at \in Int /\ B.layout.gran \in {"per_item", "per_block", "per_chapter"}
      BY <2>1 DEF Block, Layout
    <2>3. s \in Segment
      BY <1>4, <2>1, <2>2, PlacedType
    <2>4. /\ s.start = here /\ s.finish = here' /\ s.item = item /\ s.kind = Now.kind
          /\ out' = Append(out, s) /\ here' = AddNanos(here, item.dur)
      BY <1>6 DEF Placed, Lay
    <2>. HIDE DEF s
    <2>5. here <= here' /\ here' \in Nat
      <3>1. item.dur \in Nat
        BY DEF Item
      <3>. QED  BY <1>4, <2>4, <3>1, AddNanosBounds DEF Instant
    <2>6. Day' = Append(Day, s)
      BY <1>2, <1>3, <2>3, <2>4, DayGrows
    <2>. QED  BY <2>3, <2>4, <2>5, <2>6
  <1>7. ASSUME out' = out
        PROVE  Day' = Day
    BY <1>3, <1>7 DEF Day, Expanding, InBlock
  <1>8. CASE ~OnMain
    <2>1. todo \in Seq(Filling) /\ Now.kind # "main" /\ Pieces = chunks
      BY <1>1, <1>2, <1>8 DEF WholeInv, OnMain, Pieces
    <2>2. todo' \in Seq(Filling) /\ ~OnMain' /\ Pieces' = Pieces
      BY <1>3, <2>1, StillFilling, NoMainNext
    <2>3. Aired(plan.pool, Day', Pieces, here') /\ AllMeasured(plan.pool, Day')
      <3>1. CASE out' = out /\ here' = here
        BY <1>2, <1>7, <3>1 DEF WholeInv
      <3>2. CASE \E item \in Item : Lay(item)
        <4>1. PICK s \in Segment :
                 /\ s.start = here /\ s.finish = here' /\ here <= here' /\ here' \in Nat
                 /\ s.kind = Now.kind /\ Day' = Append(Day, s)
          BY <1>6, <3>2
        <4>2. IsFiller(s)
          BY <2>1, <4>1 DEF IsFiller
        <4>. QED  BY <1>2, <1>4, <4>1, <4>2, FillerNext, MoreMeasured DEF WholeInv
      <3>. QED  BY <3>1, <3>2, PlacingLays
    <2>4. Aired(plan.pool, Day, Pieces, here)' /\ AllMeasured(plan.pool, Day)'
          /\ Chain(plan.pool, Pieces)'
      BY <1>2, <1>3, <2>2, <2>3 DEF WholeInv
    <2>. QED  BY <1>2, <1>3, <2>2, <2>4 DEF WholeInv
  <1>9. CASE OnMain
    <2>1. /\ pc = "mains" /\ Now.op = "items" /\ Tail(todo) \in Seq(Filling)
          /\ Now.kind = "main" /\ Pieces = Now.list \o chunks
      BY <1>2, <1>9 DEF WholeInv, OnMain, Pieces
    <2>2. Now.list \in Seq(Item) /\ chunks \in Seq(Item)
      BY <1>1, NowType, PiecesType
    <2>3. CASE PlaceNext
      <3> DEFINE w == Rest(Tail(Now.list), Now.left, Now.over)
      <3>1. Now.list # << >> /\ Lay(Head(Now.list)) /\ todo' = <<w>> \o Tail(todo)
        BY <2>3 DEF PlaceNext
      <3>2. w.op = "items" /\ w.kind = "main" /\ w.list = Tail(Now.list)
        BY <2>1 DEF Rest
      <3>. HIDE DEF w
      <3>3. todo' # << >> /\ Head(todo') = w /\ Tail(todo') = Tail(todo)
        BY <2>1, <3>1
      <3>4. OnMain' /\ Now' = w
        BY <3>2, <3>3 DEF OnMain, Busy, Now
      <3>5. /\ Pieces # << >> /\ Pieces[1] = Head(Now.list) /\ Head(Now.list) \in Item
            /\ Tail(Pieces) = Tail(Now.list) \o chunks /\ Pieces \in Seq(Item)
        BY <2>1, <2>2, <3>1, OffTheFront
      <3>6. Pieces' = Tail(Pieces)
        BY <1>3, <3>2, <3>4, <3>5 DEF Pieces
      <3>7. PICK s \in Segment :
               /\ s.start = here /\ s.finish = here'
               /\ s.item = Pieces[1] /\ s.kind = "main" /\ Day' = Append(Day, s)
        BY <1>6, <2>1, <3>1, <3>5
      <3>8. ~IsFiller(s) /\ Measured(plan.pool, s.item)
        <4>1. 1 \in 1 .. Len(Pieces)
          BY <3>5
        <4>. QED  BY <1>2, <3>7, <4>1 DEF IsFiller, WholeInv, Chain
      <3>9. Aired(plan.pool, Append(Day, s), Tail(Pieces), s.finish)
            /\ Chain(plan.pool, Tail(Pieces))
        BY <1>2, <1>4, <3>5, <3>7, <3>8, MainNext DEF WholeInv
      <3>10. AllMeasured(plan.pool, Append(Day, s))
        BY <1>2, <1>4, <3>8, MoreMeasured DEF WholeInv
      <3>11. Aired(plan.pool, Day, Pieces, here)' /\ AllMeasured(plan.pool, Day)'
             /\ Chain(plan.pool, Pieces)'
        BY <1>3, <3>6, <3>7, <3>9, <3>10
      <3>12. pc' = "mains" /\ (Now.op)' = "items" /\ Tail(todo)' \in Seq(Filling) /\ final' = << >>
        BY <1>2, <1>3, <2>1, <3>2, <3>3, <3>4 DEF WholeInv
      <3>. QED  BY <3>4, <3>11, <3>12 DEF WholeInv
    <2>4. CASE ListDone
      <3>1. Now.list = << >> /\ todo' = Tail(todo) /\ out' = out /\ here' = here
        BY <2>4 DEF ListDone
      <3>2. ~OnMain' /\ Pieces' = chunks /\ todo' \in Seq(Filling)
        BY <1>3, <2>1, <3>1, NoMainNext
      <3>3. Pieces = chunks
        BY <2>1, <2>2, <3>1, ConcatEmptySeq
      <3>4. Aired(plan.pool, Day, Pieces, here)' /\ AllMeasured(plan.pool, Day)'
            /\ Chain(plan.pool, Pieces)'
        BY <1>2, <1>3, <1>7, <3>1, <3>2, <3>3 DEF WholeInv
      <3>. QED  BY <1>2, <1>3, <3>2, <3>4 DEF WholeInv
    <2>. QED
      BY <2>1, <2>3, <2>4 DEF Placing, DrainTake, DrainSkip, DrainEnd, LoopTake, LoopEnd
  <1>. QED  BY <1>8, <1>9

\* What the cut at midnight makes of an item.
LEMMA HalvesGoOn ==
    ASSUME NEW pool, NEW s \in Segment, IsFiller(s) \/ Measured(pool, s.item),
           NEW mid
    PROVE  IsHalved(pool, s, Half(s, s.start, mid, PreHalf(s.item, s.start), "pre"),
                             Half(s, mid, s.finish, PostHalf(s.item, s.start), "post"))
  <1> DEFINE a == Half(s, s.start, mid, PreHalf(s.item, s.start), "pre")
             b == Half(s, mid, s.finish, PostHalf(s.item, s.start), "post")
  <1>1. a.kind = s.kind /\ b.kind = s.kind
    BY DEF Half
  <1>2. /\ a.item = PreHalf(s.item, s.start) /\ b.item = PostHalf(s.item, s.start)
    BY DEF Half
  <1>3. /\ a.item.of = s.item.of /\ a.item.no = s.item.no /\ a.item.in = InPoint(s.item)
        /\ b.item.of = s.item.of /\ b.item.no = s.item.no
        /\ b.item.in = a.item.out /\ b.item.out = OutPoint(s.item)
    BY <1>2 DEF PreHalf, PostHalf, Cut
  <1>4. s.item \in Item
    BY DEF Segment
  <1>5. ~IsFiller(s) /\ s.item.out = NoPoint => Ends(pool, b.item)
    <2>. SUFFICES ASSUME ~IsFiller(s), s.item.out = NoPoint PROVE Ends(pool, b.item)
      OBVIOUS
    <2>1. s.item.in = NoPoint /\ s.item.dur \div NanosPerMilli = Full(pool, s.item)
      BY DEF Measured
    <2>2. InPoint(s.item) * NanosPerMilli + s.item.dur = s.item.dur
      BY <1>4, <2>1 DEF InPoint, Item
    <2>3. b.item.out = s.item.dur \div NanosPerMilli
      BY <1>3, <2>2 DEF OutPoint
    <2>4. Full(pool, b.item) = Full(pool, s.item)
      BY <1>3 DEF Full
    <2>. QED  BY <2>1, <2>3, <2>4 DEF Ends
  <1>. HIDE DEF a, b
  <1>6. IsHalved(pool, s, a, b)
    BY <1>1, <1>3, <1>5 DEF IsHalved, IsFiller, Follows, InPoint, OutPoint
  <1>. QED  BY <1>6 DEF a, b

LEMMA SplitMedia ==
    ASSUME TInv, MidnightInv, MediaInv, SplitNext
    PROVE  MediaInv'
  <1>1. /\ pc = "split" /\ items # << >> /\ items' = Tail(items) /\ plan' = plan /\ pc' = pc
        /\ final' = final \o SplitOf(Head(items))
    BY DEF SplitNext, SplitOf
  <1>2. PICK s \in Sound, rs \in Seq(Sound) : s = Head(items) /\ rs = Tail(items)
    BY <1>1, TailFacts DEF MidnightInv
  <1>3. /\ s \in Segment /\ rs \in Seq(Segment) /\ final \in Seq(Segment)
        /\ items \in Seq(Segment)
    BY <1>2, DayType DEF Sound, TInv, TypeOK
  <1>4. items = <<s>> \o rs
    BY <1>1, <1>2, <1>3
  <1>5. Aired(plan.pool, final \o (<<s>> \o rs), << >>, 0) /\ AllMeasured(plan.pool, items)
    BY <1>1, <1>4 DEF MediaInv
  <1>6. (IsFiller(s) \/ Measured(plan.pool, s.item)) /\ AllMeasured(plan.pool, rs)
    <2>1. /\ 1 \in 1 .. Len(items) /\ items[1] = s
          /\ \A i \in 1 .. Len(rs) : i + 1 \in 1 .. Len(items) /\ rs[i] = items[i + 1]
      BY <1>1, <1>2, <1>3
    <2>. QED  BY <1>5, <2>1 DEF AllMeasured
  <1>7. Aired(plan.pool, (final \o SplitOf(s)) \o rs, << >>, 0)
    <2>1. CASE s.finish > DayLen /\ CrossesMidnight(s.item, s.start)
      <3> DEFINE mid == NextMidnight(s.start)
                 a == Half(s, s.start, mid, PreHalf(s.item, s.start), "pre")
                 b == Half(s, mid, s.finish, PostHalf(s.item, s.start), "post")
      <3>1. s.item \in Item /\ s.start \in Instant /\ s.finish \in Instant
        BY <1>3 DEF Segment, Instant
      <3>2. mid \in Instant /\ mid > s.start /\ mid <= s.finish
        BY <2>1, <3>1, NextMidnightBounds, CutForward
      <3>3. a \in Segment /\ b \in Segment
        BY <1>3, <2>1, <3>1, <3>2, HalvesType, HalfType
      <3>4. /\ a.start = s.start /\ a.finish = mid /\ b.start = mid /\ b.finish = s.finish
            /\ b.anchor = s.anchor
        BY DEF Half
      <3>5. SplitOf(s) = <<a, b>>
        BY <2>1 DEF SplitOf
      <3>6. IsHalved(plan.pool, s, a, b)
        BY <1>3, <1>6, HalvesGoOn
      <3>. HIDE DEF a, b, mid
      <3>7. Halves(s, a, b)
        BY <3>1, <3>2, <3>4 DEF Instant, Halves
      <3>8. PICK old \in Seq(Segment), new \in Seq(Segment), n \in Nat, l \in Nat :
               /\ IsCut(old, new, n, l, s, a, b)
               /\ old = final \o (<<s>> \o rs) /\ new = (final \o <<a, b>>) \o rs
        <4>1. CutBetween(final, s, rs, a, b)
          BY <1>3, <3>3, <3>7, CutOfTheDay
        <4>. QED  BY <4>1 DEF CutBetween
      <3>9. Aired(plan.pool, new, << >>, 0)
        BY <1>3, <1>5, <3>3, <3>6, <3>8, CutAired
      <3>. QED  BY <3>5, <3>8, <3>9
    <2>2. CASE ~(s.finish > DayLen /\ CrossesMidnight(s.item, s.start))
      <3>1. SplitOf(s) = <<s>>
        BY <2>2 DEF SplitOf
      <3>2. (final \o <<s>>) \o rs = final \o (<<s>> \o rs)
        <4>1. <<s>> \in Seq(Segment)
          BY <1>3
        <4>. QED  BY <1>3, <4>1, ConcatAssociative
      <3>. QED  BY <1>5, <3>1, <3>2
    <2>. QED  BY <2>1, <2>2
  <1>8. Aired(plan.pool, final \o items, << >>, 0)' /\ AllMeasured(plan.pool, items)'
    BY <1>1, <1>2, <1>6, <1>7
  <1>. QED  BY <1>1, <1>8 DEF MediaInv, Expanding, InBlock

LEMMA PassesMedia ==
    ASSUME TInv, MidnightInv, MediaInv, Passes
    PROVE  MediaInv'
  <1>1. CASE EndSplit
    <2>1. /\ pc = "split" /\ pc' = "guide" /\ items = << >> /\ UNCHANGED <<plan, final>>
      BY <1>1 DEF EndSplit, passVars
    <2>2. final \o items = final
      BY <2>1, ConcatEmptySeq DEF TInv, TypeOK
    <2>. QED  BY <2>1, <2>2 DEF MediaInv, Expanding, InBlock
  <1>2. CASE GuideNext \/ EndGuide
    BY <1>2 DEF GuideNext, EndGuide, MediaInv, Expanding, InBlock
  <1>. QED  BY <1>1, <1>2, SplitMedia DEF Passes

LEMMA MediaStep == TInv /\ MidnightInv /\ MediaInv /\ [Next]_vars => MediaInv'
  <1>. SUFFICES ASSUME TInv, MidnightInv, MediaInv, [Next]_vars PROVE MediaInv'
    OBVIOUS
  <1>1. CASE UNCHANGED vars
    BY <1>1 DEF vars, walkVars, blockVars, passVars, MediaInv, WholeInv, Day, OnMain, Pieces,
                Busy, Now, Expanding, InBlock
  <1>. QED
    BY <1>1, WalkMedia, DefaultMedia, BlockMedia, PlacingMedia, PassesMedia DEF Next

\* Every main of a finished day is whole: its pieces take it up where it was
\* left, and the last one plays it to its end.
THEOREM MediaIsWhole == Spec => []MediaAirsWhole
  <1>1. Init => MediaInv
    <2>. SUFFICES ASSUME Init PROVE MediaInv
      OBVIOUS
    <2>1. /\ pc \in {"walk", "error"} /\ items = << >> /\ final = << >> /\ todo = << >>
          /\ chunks = << >>
      BY DEF Init
    <2>2. Day = << >> /\ ~OnMain /\ Pieces = << >> /\ ~Expanding
      BY <2>1 DEF Expanding, InBlock, Day, OnMain, Busy, Pieces
    <2>3. Aired(plan.pool, Day, Pieces, here) /\ AllMeasured(plan.pool, Day)
          /\ Chain(plan.pool, Pieces)
      BY <2>2 DEF Aired, TakenUp, AllMeasured, Chain
    <2>. QED  BY <2>1, <2>2, <2>3, NothingToDo DEF MediaInv, WholeInv
  <1>2. MediaInv => MediaAirsWhole
    <2>. SUFFICES ASSUME MediaInv, Planned PROVE MediaAirsWhole
      BY DEF MediaAirsWhole
    <2>1. Aired(plan.pool, final, << >>, 0)
      BY DEF MediaInv, Planned
    <2>2. ASSUME NEW j \in 1 .. Len(final), NEW i \in 1 .. j - 1, Linked(final, i, j)
          PROVE  i \in ResumedBy(j)
      BY <2>2 DEF Linked, Follows, ResumedBy, SameMedia
    <2>3. ASSUME NEW j \in Mains, final[j].item.in > 0
          PROVE  ResumedBy(j) # {}
      <3>1. j \in 1 .. Len(final) /\ ~IsFiller(final[j])
        BY DEF Mains
      <3>. QED  BY <2>1, <2>2, <2>3, <3>1 DEF Aired, TakenUp
    <2>4. ASSUME NEW i \in Mains,
                 final[i].item.out \notin {NoPoint, Ticks(final[i]) \div NanosPerMilli}
          PROVE  \E j \in Mains : i \in ResumedBy(j)
      <3>1. i \in 1 .. Len(final) /\ ~IsFiller(final[i])
        BY DEF Mains
      <3>2. ~Ends(plan.pool, final[i].item)
        BY <2>4 DEF Ends, Full, Ticks, Pool
      <3>3. PICK j \in i + 1 .. Len(final) : Linked(final, i, j)
        BY <2>1, <3>1, <3>2 DEF Aired
      <3>4. j \in Mains /\ i \in 1 .. j - 1 /\ j \in 1 .. Len(final)
        BY <3>1, <3>3 DEF Linked, Mains
      <3>. QED  BY <2>2, <3>3, <3>4
    <2>. QED  BY <2>3, <2>4 DEF MediaAirsWhole
  <1>. QED  BY <1>1, <1>2, MediaStep, MidnightInvariant, PTL DEF Spec

-----------------------------------------------------------------------------
(* Breaks take no more than the room the main leaves. *)

\* A block of one main with nothing but breaks around it.
OnlyBreaks ==
    /\ B.count \in {NoCount, 1} /\ B.layout.mid.wrap = << >>
    /\ B.layout.slug = 0 /\ B.layout.pre = 0 /\ B.layout.post = 0

\* The work w is done within c nanoseconds.
Within(w, c) ==
    \/ /\ w.op = "items"
       /\ \/ w.list = << >>
          \/ w.list = <<w.list[1]>> /\ w.list[1].dur <= c
    \/ w.op = "drain" /\ w.left <= c

\* There is at most one more work to do, done within c nanoseconds.
LastFits(rest, c) ==
    \/ rest = << >>
    \/ Tail(rest) = << >> /\ Within(Head(rest), c)

\* All the work to do, two at most, is done within c nanoseconds.
WorkFits(list, c) ==
    \/ list = << >>
    \/ \E a, b \in Nat : a + b <= c /\ Within(Head(list), a) /\ LastFits(Tail(list), b)

\* f gives every position a natural number.
Numbers(f) == \A i \in Nat : f[i] \in Nat

\* f[i] nanoseconds are enough for the pieces from i on and the breaks between.
Enough(f, pieces, breaks) ==
    \A i \in 1 .. Len(pieces) :
        IF i = Len(pieces) THEN pieces[i].dur <= f[i]
        ELSE breaks[i] >= 0 /\ pieces[i].dur + breaks[i] + f[i + 1] <= f[i]

\* The pieces and the breaks between them are placed within c nanoseconds.
PiecesFit(pieces, breaks, c) ==
    \E f : Numbers(f) /\ f[1] = c /\ Enough(f, pieces, breaks)

\* The length of the whole media of an item.
MediaTicks(pool, item) == ToPlayable(item.of, item.no, pool[item.of][item.no]).dur

\* d is the length of the main of the block: of what is placed first, or is to be.
FirstIs(d) ==
    IF out # << >> THEN MediaTicks(plan.pool, out[1].item) = d
    ELSE IF Busy THEN /\ Now.op = "items" /\ Now.list # << >>
                      /\ MediaTicks(plan.pool, Head(Now.list)) = d
    ELSE chunks # << >> /\ MediaTicks(plan.pool, Head(chunks)) = d

\* Before the main is picked: nothing is placed, nor to be.
Unpicked ==
    /\ out = << >> /\ chunks = << >> /\ here = B.at /\ mains \in {0, 1}
    /\ \/ todo = << >>
       \/ Now.op = "items" /\ Now.list = << >> /\ Tail(todo) = << >>

\* Once it is, what is left to place fits, if the main alone does.
Underway(d) ==
    /\ mains = 0 /\ FirstIs(d)
    /\ AddNanos(B.at, d) <= limit =>
          \E a, c \in Nat : /\ WorkFits(todo, a) /\ PiecesFit(chunks, budgets, c)
                            /\ AddNanos(here, a + c) <= limit

\* The block of one main and its breaks: the main is not picked, or all fits.
BreakInv ==
    pc \in {"mains", "post"} /\ OnlyBreaks => Unpicked \/ \E d \in Nat : Underway(d)

-----------------------------------------------------------------------------

\* One placement after another takes no longer than both in one.
LEMMA AddNanosTwice ==
    ASSUME NEW t \in Nat, NEW x \in Nat, NEW y \in Nat, NEW z \in Nat, x + y <= z
    PROVE  AddNanos(AddNanos(t, x), y) <= AddNanos(t, z)
  <1>1. PICK q \in Nat, r \in Nat : q = x \div NanosPerMicro /\ r = y \div NanosPerMicro
    BY DivBounds
  <1>2. q * NanosPerMicro <= x /\ r * NanosPerMicro <= y
    BY <1>1, DivBounds
  <1>3. PICK p \in Nat : p = z \div NanosPerMicro
    BY DivBounds
  <1>4. z < (p + 1) * NanosPerMicro
    BY <1>3, DivBounds
  <1>5. (q + r) * NanosPerMicro = q * NanosPerMicro + r * NanosPerMicro
    OBVIOUS
  <1>6. (q + r) * NanosPerMicro < (p + 1) * NanosPerMicro
    BY <1>2, <1>4, <1>5
  <1>7. q + r < p + 1
    BY <1>6, LessByFactor
  <1>. QED  BY <1>1, <1>3, <1>7 DEF AddNanos

\* m shares of `base`, the first r of them with e more.
Even(bs, m, base, e, r) == \A i \in 1 .. m : bs[i] = base + (IF i <= r THEN e ELSE 0)

\* g[i] is what the shares from i on come to, `total` all of them.
AddsUp(bs, m, total) ==
    \E g :
       /\ Numbers(g) /\ g[1] = total
       /\ \A i \in 1 .. m : bs[i] >= 0 /\ g[i] = bs[i] + g[i + 1]

LEMMA EvenShare ==
    ASSUME NEW m \in Nat, NEW base \in Nat, NEW e \in {-1, 0, 1}, base + e >= 0,
           NEW r \in Nat, r <= m, NEW bs, Even(bs, m, base, e, r)
    PROVE  AddsUp(bs, m, base * m + e * r)
  <1> DEFINE h(i) == base * (m + 1 - i) + (IF i <= r THEN e * (r + 1 - i) ELSE 0)
             g == [i \in Nat |-> IF i <= m + 1 THEN h(i) ELSE 0]
  <1>1. ASSUME NEW i \in Nat, i <= m + 1
        PROVE  h(i) \in Nat
    <2>1. CASE i <= r
      <3>1. h(i) = base * (m - r) + (base + e) * (r + 1 - i)
        BY <2>1
      <3>2. base * (m - r) \in Nat /\ (base + e) * (r + 1 - i) \in Nat
        BY <2>1
      <3>. QED  BY <3>1, <3>2
    <2>2. CASE i > r
      BY <1>1, <2>2
    <2>. QED  BY <2>1, <2>2
  <1>2. Numbers(g)
    BY <1>1 DEF Numbers
  <1>3. g[1] = base * m + e * r
    BY DEF g
  <1>4. ASSUME NEW i \in 1 .. m
        PROVE  bs[i] >= 0 /\ g[i] = bs[i] + g[i + 1]
    <2>1. g[i] = h(i) /\ g[i + 1] = h(i + 1)
      OBVIOUS
    <2>2. base * (m + 1 - i) = base + base * (m + 1 - (i + 1))
      OBVIOUS
    <2>3. e * (r + 1 - i) = e + e * (r + 1 - (i + 1))
      OBVIOUS
    <2>4. bs[i] = base + (IF i <= r THEN e ELSE 0)
      BY DEF Even
    <2>. QED  BY <2>1, <2>2, <2>3, <2>4
  <1>. HIDE DEF g
  <1>. QED  BY <1>2, <1>3, <1>4 DEF AddsUp

\* m budgets, none negative, that come to no more than the room.
Shared(bs, m, room) ==
    \E total \in Nat : total <= (IF room > 0 THEN room ELSE 0) /\ AddsUp(bs, m, total)

\* The budgets of the breaks share the room, and no more than it.
LEMMA BudgetsShare ==
    ASSUME NEW room \in Int, NEW m \in Nat \ {0}, NEW mid \in MidRoll
    PROVE  Shared(BreakBudgets(room, m, mid), m, room)
  <1> DEFINE bs == BreakBudgets(room, m, mid)
             t  == IF mid.target = 0 THEN BreakTarget ELSE mid.target
  <1>1. t \in Nat
    BY FillersAssumption DEF MidRoll
  <1>. SUFFICES Shared(bs, m, room)
    OBVIOUS
  <1>2. ASSUME NEW base \in Nat, NEW e \in {-1, 0, 1}, base + e >= 0, NEW r \in Nat, r <= m,
               Even(bs, m, base, e, r), NEW total \in Nat, total = base * m + e * r,
               total <= (IF room > 0 THEN room ELSE 0)
        PROVE  Shared(bs, m, room)
    <2>. HIDE DEF bs
    <2>1. AddsUp(bs, m, total)
      BY <1>2, EvenShare
    <2>. QED  BY <1>2, <2>1 DEF Shared
  <1>3. CASE room <= 0
    <2>1. Even(bs, m, 0, 0, 0)
      BY <1>3 DEF BreakBudgets, AutoBreakBudgets, FixedBreakBudgets, Even
    <2>2. 0 = 0 * m + 0 * 0
      OBVIOUS
    <2>. HIDE DEF bs
    <2>. QED  BY <1>2, <1>3, <2>1, <2>2
  <1>4. CASE room > 0 /\ ~mid.auto
    <2>1. PICK q \in Nat : q = room \div m
      BY <1>4, DivBounds
    <2>2. q * m <= room
      BY <1>4, <2>1, DivBounds
    <2>3. Even(bs, m, q, 0, 0)
      BY <1>4, <2>1 DEF BreakBudgets, FixedBreakBudgets, Even
    <2>4. q * m \in Nat /\ q * m = q * m + 0 * 0 /\ q * m <= (IF room > 0 THEN room ELSE 0)
      BY <1>4, <2>2
    <2>. HIDE DEF bs
    <2>. QED  BY <1>2, <2>3, <2>4
  <1>5. CASE room > 0 /\ mid.auto /\ t * m - room > 0
    <2>1. PICK over \in Nat : over = t * m - room
      BY <1>1, <1>5
    <2>2. PICK q \in Nat, r \in Nat : q = over \div m /\ r = over % m
      BY <2>1, DivBounds
    <2>3. over = q * m + r /\ r < m
      BY <2>2
    <2>4. q * m < t * m
      BY <1>1, <1>5, <2>1, <2>3
    <2>5. q < t
      BY <1>1, <2>4, LessByFactor
    <2>6. PICK base \in Nat : base = t - q
      BY <1>1, <2>5
    <2>7. bs = AutoBreakBudgets(room, m, t)
      BY <1>5 DEF BreakBudgets
    <2>8. \A i \in 1 .. m : bs[i] = t - q - (IF i <= r THEN 1 ELSE 0)
      <3>. HIDE DEF t, bs
      <3>. QED  BY <1>5, <2>1, <2>2, <2>7 DEF AutoBreakBudgets
    <2>9. base * m + (-1) * r = room
      <3>1. base * m = t * m - q * m
        BY <1>1, <2>6
      <3>. QED  BY <1>1, <2>1, <2>3, <3>1
    <2>10. base + (-1) >= 0
      BY <1>1, <2>5, <2>6
    <2>. HIDE DEF bs, t
    <2>11. Even(bs, m, base, -1, r)
      BY <1>1, <2>6, <2>8 DEF Even
    <2>12. room \in Nat /\ room <= (IF room > 0 THEN room ELSE 0) /\ r <= m
      BY <1>5, <2>3
    <2>. QED  BY <1>2, <2>9, <2>10, <2>11, <2>12
  <1>6. CASE room > 0 /\ mid.auto /\ t * m - room <= 0
    <2>1. PICK under \in Nat : under = room - t * m
      BY <1>1, <1>6
    <2>2. PICK q \in Nat, r \in Nat : q = under \div m /\ r = under % m
      BY <2>1, DivBounds
    <2>3. under = q * m + r /\ r < m
      BY <2>2
    <2>4. PICK base \in Nat : base = t + q
      BY <1>1
    <2>5. bs = AutoBreakBudgets(room, m, t)
      BY <1>6 DEF BreakBudgets
    <2>6. \A i \in 1 .. m : bs[i] = t + q + (IF i <= r THEN 1 ELSE 0)
      <3>1. room > 0 /\ ~(t * m - room > 0)
        BY <1>1, <1>6
      <3>. HIDE DEF t, bs
      <3>. QED  BY <3>1, <2>1, <2>2, <2>5 DEF AutoBreakBudgets
    <2>7. base * m + 1 * r = room
      <3>1. base * m = t * m + q * m
        BY <1>1, <2>4
      <3>. QED  BY <1>1, <2>1, <2>3, <3>1
    <2>. HIDE DEF bs, t
    <2>8. Even(bs, m, base, 1, r)
      BY <2>4, <2>6 DEF Even
    <2>9. room \in Nat /\ room <= (IF room > 0 THEN room ELSE 0) /\ r <= m /\ base + 1 >= 0
      BY <1>6, <2>3
    <2>. QED  BY <1>2, <2>7, <2>8, <2>9
  <1>. QED  BY <1>1, <1>3, <1>4, <1>5, <1>6

-----------------------------------------------------------------------------
(* The main and its breaks. *)

\* A main cut as the planner cuts it, with its budgets.
CutAt(main, mid) == IF mid.every = "none" THEN <<main>> ELSE Chunks(main, mid)

\* The pieces of a main, one behind the other: p[i] is where the i-th starts.
Consecutive(pieces, main, p) ==
    /\ Numbers(p) /\ p[1] = 0
    /\ \A i \in 1 .. Len(pieces) :
          /\ pieces[i].dur + p[i] <= p[i + 1] /\ p[i + 1] <= main.dur
          /\ pieces[i].of = main.of /\ pieces[i].no = main.no

LEMMA ChunksFollow ==
    ASSUME NEW main \in LocalItem, NEW mid \in MidRoll,
           mid.every = "minutes" => mid.interval # 0
    PROVE  \E p : Consecutive(CutAt(main, mid), main, p)
  <1> DEFINE half == main.dur \div 2
             n    == main.dur \div mid.interval
             cut  == CutAt(main, mid)
  <1>1. main.dur \in Nat /\ mid.interval \in Nat
    BY DEF LocalItem, Item, MidRoll
  <1>2. CASE cut = <<main>> \/ cut = <<Chunk(main, 0, main.dur)>>
    <2> DEFINE p == [i \in Nat |-> IF i <= 1 THEN 0 ELSE main.dur]
    <2>1. Numbers(p) /\ p[1] = 0 /\ p[2] = main.dur
      BY <1>1 DEF Numbers
    <2>2. Len(cut) = 1 /\ cut[1].dur = main.dur /\ cut[1].of = main.of /\ cut[1].no = main.no
      <3>1. CASE cut = <<main>>
        BY <3>1
      <3>2. CASE cut = <<Chunk(main, 0, main.dur)>>
        BY <1>1, <3>2 DEF Chunk, Cut
      <3>. QED  BY <1>2, <3>1, <3>2
    <2>. HIDE DEF cut, p
    <2>3. Consecutive(cut, main, p)
      BY <1>1, <2>1, <2>2 DEF Consecutive
    <2>. QED  BY <2>1, <2>3 DEF cut
  <1>3. CASE cut = <<Chunk(main, 0, half), Chunk(main, half, main.dur)>>
    <2>1. half \in Nat /\ half <= main.dur
      BY <1>1
    <2> DEFINE p == [i \in Nat |-> IF i <= 1 THEN 0 ELSE IF i = 2 THEN half ELSE main.dur]
    <2>2. Numbers(p) /\ p[1] = 0 /\ p[2] = half /\ p[3] = main.dur
      BY <1>1, <2>1 DEF Numbers
    <2>3. /\ Len(cut) = 2 /\ cut[1].dur = half /\ cut[2].dur = main.dur - half
          /\ cut[1].of = main.of /\ cut[1].no = main.no
          /\ cut[2].of = main.of /\ cut[2].no = main.no
      <3>. HIDE DEF half
      <3>. QED  BY <1>1, <1>3, <2>1 DEF Chunk, Cut
    <2>. HIDE DEF cut, p, half
    <2>4. Consecutive(cut, main, p)
      <3>1. \A i \in 1 .. Len(cut) : i = 1 \/ i = 2
        BY <2>3
      <3>. QED  BY <1>1, <2>1, <2>2, <2>3, <3>1 DEF Consecutive
    <2>. QED  BY <2>2, <2>4 DEF cut
  <1>4. CASE /\ mid.every = "minutes" /\ n > 1
             /\ cut = [i \in 1 .. n |-> Chunk(main, mid.interval * (i - 1),
                                           IF i = n THEN main.dur ELSE mid.interval * i)]
    <2>1. n \in Nat /\ n * mid.interval <= main.dur /\ n > 1
      BY <1>1, <1>4, DivBounds
    <2> DEFINE p == [i \in Nat |-> IF i <= 1 THEN 0
                                   ELSE IF i <= n THEN mid.interval * (i - 1) ELSE main.dur]
    <2>2. ASSUME NEW i \in 1 .. n
          PROVE  mid.interval * (i - 1) \in Nat /\ mid.interval * (i - 1) <= main.dur
      <3>1. mid.interval * (n - (i - 1)) \in Nat
        BY <1>1, <2>1
      <3>2. mid.interval * (i - 1) = mid.interval * n - mid.interval * (n - (i - 1))
        BY <1>1, <2>1
      <3>. QED  BY <1>1, <2>1, <3>1, <3>2
    <2>3. Numbers(p) /\ p[1] = 0 /\ p[n + 1] = main.dur
          /\ \A i \in 1 .. n : p[i] = mid.interval * (i - 1)
      <3>1. \A i \in Nat : i > 1 /\ i <= n => i \in 1 .. n
        BY <2>1
      <3>. QED  BY <1>1, <2>1, <2>2, <3>1 DEF Numbers
    <2>4. Len(cut) = n /\ \A i \in 1 .. n :
             cut[i] = Chunk(main, mid.interval * (i - 1),
                            IF i = n THEN main.dur ELSE mid.interval * i)
      BY <1>4, <2>1
    <2>. HIDE DEF cut, p, n
    <2>5. ASSUME NEW i \in 1 .. n
          PROVE  /\ cut[i].dur + p[i] <= p[i + 1] /\ p[i + 1] <= main.dur
                 /\ cut[i].of = main.of /\ cut[i].no = main.no
      <3>1. cut[i].of = main.of /\ cut[i].no = main.no
            /\ cut[i].dur = (IF i = n THEN main.dur ELSE mid.interval * i)
                             - mid.interval * (i - 1)
        BY <2>4 DEF Chunk, Cut
      <3>2. CASE i = n
        BY <1>1, <2>1, <2>2, <2>3, <3>1, <3>2
      <3>3. CASE i # n
        <4>1. i + 1 \in 1 .. n /\ mid.interval * i \in Nat /\ (i + 1) - 1 = i
          BY <1>1, <2>1, <3>3
        <4>2. p[i + 1] = mid.interval * i /\ mid.interval * i <= main.dur
          BY <2>2, <2>3, <4>1
        <4>3. p[i] = mid.interval * (i - 1) /\ mid.interval * (i - 1) \in Nat
          BY <2>2, <2>3
        <4>. QED  BY <1>1, <3>1, <3>3, <4>1, <4>2, <4>3
      <3>. QED  BY <3>1, <3>2, <3>3
    <2>6. Consecutive(cut, main, p)
      BY <2>3, <2>4, <2>5 DEF Consecutive
    <2>. QED  BY <2>3, <2>6 DEF cut
  <1>5. \/ cut = <<main>> \/ cut = <<Chunk(main, 0, main.dur)>>
        \/ cut = <<Chunk(main, 0, half), Chunk(main, half, main.dur)>>
        \/ /\ mid.every = "minutes" /\ n > 1
           /\ cut = [i \in 1 .. n |-> Chunk(main, mid.interval * (i - 1),
                                         IF i = n THEN main.dur ELSE mid.interval * i)]
    <2>1. half \in Nat
      BY <1>1
    <2>. QED  BY <2>1 DEF CutAt, Chunks, MidRoll
  <1>. QED  BY <1>2, <1>3, <1>4, <1>5

\* With the budgets of its breaks, the main takes no more than the room.
LEMMA MainFits ==
    ASSUME NEW main \in LocalItem, NEW mid \in MidRoll, NEW cut \in Seq(LocalItem), cut # << >>,
           NEW p, Consecutive(cut, main, p), NEW room \in Int
    PROVE  \E c \in Nat : /\ c <= main.dur + (IF room > 0 THEN room ELSE 0)
                           /\ PiecesFit(cut, BreakBudgets(room, Len(cut) - 1, mid), c)
  <1>1. PICK m \in Nat, dur \in Nat : Len(cut) = m + 1 /\ dur = main.dur
    <2>1. Len(cut) - 1 \in Nat /\ Len(cut) = (Len(cut) - 1) + 1
      OBVIOUS
    <2>. QED  BY <2>1 DEF LocalItem, Item
  <1>2. \A i \in 1 .. m + 1 : cut[i].dur \in Nat
    <2>1. \A i \in 1 .. m + 1 : cut[i] \in LocalItem
      BY <1>1
    <2>. QED  BY <2>1 DEF LocalItem, Item
  <1>10. PICK bs \in Seq(Int) : bs = BreakBudgets(room, m, mid) /\ Len(bs) = m
    BY BudgetsType
  <1>11. \A i \in 1 .. m : bs[i] \in Int
    BY <1>10
  <1>3. Shared(bs, m, room)
    <2>1. CASE m = 0
      <3> DEFINE g == [i \in Nat |-> 0]
      <3>1. Numbers(g) /\ g[1] = 0
        BY DEF Numbers
      <3>. HIDE DEF g
      <3>2. AddsUp(bs, m, 0)
        BY <2>1, <3>1 DEF AddsUp
      <3>. QED  BY <3>2 DEF Shared
    <2>2. CASE m # 0
      BY <1>10, <2>2, BudgetsShare
    <2>. QED  BY <2>1, <2>2
  <1>4. PICK total, g :
           /\ total \in Nat /\ Numbers(g) /\ total <= (IF room > 0 THEN room ELSE 0) /\ g[1] = total
           /\ \A i \in 1 .. m : bs[i] >= 0 /\ g[i] = bs[i] + g[i + 1]
    BY <1>3 DEF Shared, AddsUp
  <1> DEFINE f == [i \in Nat |-> IF p[i] <= dur THEN dur - p[i] + g[i] ELSE 0]
  <1>12. /\ \A i \in Nat : p[i] \in Nat /\ g[i] \in Nat
    BY <1>4 DEF Consecutive, Numbers
  <1>5. Numbers(f)
    BY <1>12 DEF Numbers
  <1>6. p[1] = 0 /\ \A i \in 1 .. m + 1 : /\ cut[i].dur + p[i] <= p[i + 1]
                                          /\ p[i + 1] <= dur
    BY <1>1 DEF Consecutive
  <1>7. f[1] = dur + total
    BY <1>4, <1>6, <1>12
  <1>8. ASSUME NEW i \in 1 .. m + 1
        PROVE  /\ i = m + 1 => cut[i].dur <= f[i]
               /\ i # m + 1 => bs[i] >= 0 /\ cut[i].dur + bs[i] + f[i + 1] <= f[i]
    <2>1. i \in Nat /\ i + 1 \in Nat
      OBVIOUS
    <2>2. PICK x \in Nat, u \in Nat, v \in Nat, y \in Nat, z \in Nat :
             /\ x = cut[i].dur /\ u = p[i] /\ v = p[i + 1] /\ y = g[i] /\ z = g[i + 1]
      BY <1>2, <1>12, <2>1
    <2>3. x + u <= v /\ v <= dur
      BY <1>6, <2>2
    <2>4. f[i] = dur - u + y /\ f[i + 1] = dur - v + z
      <3>1. p[i] <= dur /\ p[i + 1] <= dur
        <4>1. u <= dur /\ v <= dur
          BY <2>3
        <4>. QED  BY <2>2, <4>1
      <3>2. f[i] = dur - p[i] + g[i]
        BY <2>1, <3>1
      <3>3. f[i + 1] = dur - p[i + 1] + g[i + 1]
        BY <2>1, <3>1
      <3>. QED  BY <2>2, <3>2, <3>3
    <2>. HIDE DEF f
    <2>5. i = m + 1 => x <= f[i]
      BY <2>3, <2>4
    <2>6. ASSUME i # m + 1
          PROVE  bs[i] >= 0 /\ x + bs[i] + f[i + 1] <= f[i]
      <3>1. i \in 1 .. m
        BY <2>6
      <3>2. PICK w \in Int : w = bs[i]
        BY <1>11, <3>1
      <3>3. w >= 0 /\ y = w + z
        BY <1>4, <2>2, <3>1, <3>2
      <3>4. x + w + (dur - v + z) <= dur - u + y
        BY <2>3, <3>3
      <3>. QED  BY <2>4, <3>2, <3>3, <3>4
    <2>. QED  BY <2>2, <2>5, <2>6
  <1>. HIDE DEF f
  <1>9. PiecesFit(cut, bs, f[1])
    BY <1>1, <1>5, <1>8 DEF PiecesFit, Enough
  <1>. QED  BY <1>1, <1>10, <1>4, <1>7, <1>9

LEMMA NextPieceFits ==
    ASSUME NEW pieces \in Seq(LocalItem), pieces # << >>, NEW breaks \in Seq(Int),
           Len(breaks) = Len(pieces) - 1, NEW c \in Nat, PiecesFit(pieces, breaks, c)
    PROVE  /\ Len(pieces) = 1 => Head(pieces).dur <= c /\ PiecesFit(Tail(pieces), << >>, 0)
           /\ Len(pieces) > 1 =>
                 /\ Head(breaks) \in Nat
                 /\ \E k \in Nat : /\ Head(pieces).dur + Head(breaks) + k <= c
                                   /\ PiecesFit(Tail(pieces), Tail(breaks), k)
  <1>1. PICK f : Numbers(f) /\ f[1] = c /\ Enough(f, pieces, breaks)
    BY DEF PiecesFit
  <1>2. ASSUME Len(pieces) = 1
        PROVE  Head(pieces).dur <= c /\ PiecesFit(Tail(pieces), << >>, 0)
    <2> DEFINE g == [i \in Nat |-> 0]
    <2>1. Numbers(g) /\ g[1] = 0
      BY DEF Numbers
    <2>. HIDE DEF g
    <2>2. Len(Tail(pieces)) = 0 /\ Head(pieces) = pieces[1]
      BY <1>2
    <2>3. PiecesFit(Tail(pieces), << >>, 0)
      BY <2>1, <2>2 DEF PiecesFit, Enough
    <2>. QED  BY <1>1, <1>2, <2>2, <2>3 DEF Enough
  <1>3. ASSUME Len(pieces) > 1
        PROVE  /\ Head(breaks) \in Nat
               /\ \E k \in Nat : /\ Head(pieces).dur + Head(breaks) + k <= c
                                 /\ PiecesFit(Tail(pieces), Tail(breaks), k)
    <2> DEFINE g == [i \in Nat |-> f[i + 1]]
    <2>1. PICK n \in Nat \ {0} : Len(pieces) = n + 1 /\ Len(breaks) = n
      <3>1. Len(pieces) - 1 \in Nat \ {0} /\ Len(pieces) = (Len(pieces) - 1) + 1
        BY <1>3
      <3>. QED  BY <3>1
    <2>2. /\ Head(pieces) = pieces[1] /\ Len(Tail(pieces)) = n
          /\ \A i \in 1 .. n : Tail(pieces)[i] = pieces[i + 1]
      BY <2>1
    <2>3. /\ Head(breaks) = breaks[1] /\ breaks[1] \in Int /\ Len(Tail(breaks)) = n - 1
          /\ \A i \in 1 .. n - 1 : Tail(breaks)[i] = breaks[i + 1]
      BY <2>1
    <2>4. Numbers(g) /\ g[1] = f[2] /\ f[2] \in Nat /\ \A i \in Nat : g[i] = f[i + 1]
      BY <1>1 DEF Numbers
    <2>. HIDE DEF g
    <2>5. breaks[1] >= 0 /\ pieces[1].dur + breaks[1] + f[2] <= f[1]
      BY <1>1, <2>1 DEF Enough
    <2>6. Enough(g, Tail(pieces), Tail(breaks))
      <3>. SUFFICES ASSUME NEW i \in 1 .. n
                    PROVE  IF i = n THEN Tail(pieces)[i].dur <= g[i]
                           ELSE /\ Tail(breaks)[i] >= 0
                                /\ Tail(pieces)[i].dur + Tail(breaks)[i] + g[i + 1] <= g[i]
        BY <2>2 DEF Enough
      <3>1. i + 1 \in 1 .. n + 1 /\ i \in Nat /\ i + 1 \in Nat
        OBVIOUS
      <3>2. IF i + 1 = n + 1 THEN pieces[i + 1].dur <= f[i + 1]
            ELSE breaks[i + 1] >= 0 /\ pieces[i + 1].dur + breaks[i + 1] + f[(i + 1) + 1] <= f[i + 1]
        BY <1>1, <2>1, <3>1 DEF Enough
      <3>3. g[i] = f[i + 1] /\ g[i + 1] = f[(i + 1) + 1] /\ Tail(pieces)[i] = pieces[i + 1]
        BY <2>2, <2>4, <3>1
      <3>4. CASE i = n
        BY <3>2, <3>3, <3>4
      <3>5. CASE i # n
        <4>1. i \in 1 .. n - 1 /\ i + 1 # n + 1
          BY <3>5
        <4>2. Tail(breaks)[i] = breaks[i + 1]
          BY <2>3, <4>1
        <4>. QED  BY <3>2, <3>3, <3>5, <4>1, <4>2
      <3>. QED  BY <3>4, <3>5
    <2>7. PiecesFit(Tail(pieces), Tail(breaks), f[2])
      BY <2>4, <2>6 DEF PiecesFit
    <2>8. PICK k \in Nat : k = f[2]
      BY <2>4
    <2>9. Head(pieces).dur + Head(breaks) + k <= c
      BY <1>1, <2>2, <2>3, <2>5, <2>8
    <2>10. Head(breaks) \in Nat
      BY <2>3, <2>5
    <2>. QED  BY <2>7, <2>8, <2>9, <2>10
  <1>. QED  BY <1>2, <1>3

LEMMA RoomKept ==
    ASSUME NEW t \in Instant, NEW u \in Instant, NEW d \in Nat, NEW c \in Nat,
           AddNanos(t, d) <= u,
           c <= d + (IF DiffNanos(u, t) - d > 0 THEN DiffNanos(u, t) - d ELSE 0)
    PROVE  AddNanos(t, c) <= u
  <1>1. DiffNanos(u, t) \in Int
    BY DEF DiffNanos, Instant
  <1>2. CASE c <= DiffNanos(u, t)
    BY <1>2, AddNanosInside
  <1>3. CASE c > DiffNanos(u, t)
    <2>1. c <= d
      BY <1>1, <1>3
    <2>2. AddNanos(AddNanos(t, c), 0) <= AddNanos(t, d)
      BY <2>1, AddNanosTwice DEF Instant
    <2>3. AddNanos(t, c) \in Instant /\ AddNanos(t, d) \in Instant
      BY AddNanosBounds
    <2>4. AddNanos(AddNanos(t, c), 0) >= AddNanos(t, c)
          /\ AddNanos(AddNanos(t, c), 0) \in Instant
      BY <2>3, AddNanosBounds
    <2>. QED  BY <2>2, <2>3, <2>4 DEF Instant
  <1>. QED  BY <1>1, <1>2, <1>3

-----------------------------------------------------------------------------
(* The steps. *)

LEMMA WorkAhead ==
    ASSUME NEW w, NEW rest \in Seq(Work), <<w>> \o rest \in Seq(Work)
    PROVE  /\ <<w>> \o rest # << >>
           /\ Head(<<w>> \o rest) = w /\ Tail(<<w>> \o rest) = rest
  OBVIOUS

LEMMA LastIsWork ==
    ASSUME NEW rest \in Seq(Work), NEW c \in Nat, LastFits(rest, c)
    PROVE  WorkFits(rest, c)
  <1>1. CASE rest = << >>
    BY <1>1 DEF WorkFits
  <1>2. CASE rest # << >>
    <2>1. Tail(rest) = << >> /\ Within(Head(rest), c)
      BY <1>2 DEF LastFits
    <2>2. LastFits(Tail(rest), 0)
      BY <2>1 DEF LastFits
    <2>3. c + 0 <= c
      OBVIOUS
    <2>. QED  BY <2>1, <2>2, <2>3 DEF WorkFits
  <1>. QED  BY <1>1, <1>2

\* What is done of the work in hand comes off what it takes.
LEMMA PlacingFits ==
    ASSUME TInv, Placing, NEW a \in Nat, WorkFits(todo, a)
    PROVE  \E b \in Nat : /\ WorkFits(todo, b)'
                          /\ \A c \in Nat : AddNanos(here', b + c) <= AddNanos(here, a + c)
  <1>1. Busy /\ Now \in Work /\ Tail(todo) \in Seq(Work) /\ todo' \in Seq(Work)
    BY PlacingLays, NowType, TypeStep DEF Next, TInv, TypeOK
  <1>2. here \in Nat /\ Now.left \in Int /\ Now.list \in Seq(Item)
    BY <1>1, NowType DEF TInv, TypeOK, Instant
  <1>3. PICK x \in Nat, y \in Nat : x + y <= a /\ Within(Now, x) /\ LastFits(Tail(todo), y)
    BY <1>1 DEF WorkFits, Busy, Now
  <1>4. ASSUME NEW k \in Nat, NEW b \in Nat, k + b <= a, WorkFits(todo', b),
               here' = AddNanos(here, k)
        PROVE  \E z \in Nat : /\ WorkFits(todo, z)'
                              /\ \A c \in Nat : AddNanos(here', z + c) <= AddNanos(here, a + c)
    <2>1. ASSUME NEW c \in Nat
          PROVE  AddNanos(AddNanos(here, k), b + c) <= AddNanos(here, a + c)
      <3>1. k + (b + c) <= a + c
        BY <1>4
      <3>. QED  BY <1>2, <3>1, AddNanosTwice
    <2>2. WorkFits(todo, b)'
      BY <1>4 DEF WorkFits, LastFits, Within
    <2>. QED  BY <1>4, <2>1, <2>2
  <1>5. here = AddNanos(here, 0)
    BY <1>2, AddNanosExact, AddNanosInside DEF AddNanos
  <1>6. ASSUME NEW w, NEW k \in Nat, NEW b \in Nat, k + b <= x, Within(w, b),
               here' = AddNanos(here, k), todo' = <<w>> \o Tail(todo)
        PROVE  \E z \in Nat : k + z <= a /\ WorkFits(todo', z)
    <2>1. todo' # << >> /\ Head(todo') = w /\ Tail(todo') = Tail(todo)
      BY <1>1, <1>6, WorkAhead
    <2>2. b + y \in Nat /\ k + (b + y) <= a
      BY <1>3, <1>6
    <2>3. b + y <= b + y
      BY <2>2
    <2>4. WorkFits(todo', b + y)
      BY <1>3, <1>6, <2>1, <2>3 DEF WorkFits
    <2>. QED  BY <2>2, <2>4
  <1>7. ASSUME todo' = Tail(todo), here' = here
        PROVE  \E z \in Nat : 0 + z <= a /\ WorkFits(todo', z)
    <2>1. WorkFits(Tail(todo), y)
      BY <1>1, <1>3, LastIsWork
    <2>. QED  BY <1>3, <1>7, <2>1
  <1>8. \A list, left, over : /\ Rest(list, left, over).op = Now.op
                             /\ Rest(list, left, over).list = list
                             /\ Rest(list, left, over).left = left
    BY DEF Rest
  <1>9. CASE PlaceNext
    <2> DEFINE w == Rest(Tail(Now.list), Now.left, Now.over)
               k == Head(Now.list).dur
    <2>1. /\ Now.op = "items" /\ Now.list # << >> /\ here' = AddNanos(here, k)
          /\ todo' = <<w>> \o Tail(todo)
      BY <1>9 DEF PlaceNext, Lay
    <2>2. Now.list = <<Now.list[1]>> /\ Now.list[1].dur <= x
      BY <1>3, <2>1 DEF Within
    <2>3. Head(Now.list) = Now.list[1] /\ Tail(Now.list) = << >>
      <3>1. \A e : Head(<<e>>) = e /\ Tail(<<e>>) = << >>
        OBVIOUS
      <3>. QED  BY <2>2, <3>1
    <2>4. k \in Nat /\ k + 0 <= x
      BY <1>1, <2>1, <2>2, <2>3, NowFacts
    <2>5. w.op = "items" /\ w.list = << >>
      BY <2>1, <2>3 DEF Rest
    <2>. HIDE DEF w, k
    <2>6. Within(w, 0)
      BY <2>5 DEF Within
    <2>. QED  BY <1>4, <1>6, <2>1, <2>4, <2>6
  <1>10. CASE ListDone
    BY <1>4, <1>5, <1>7, <1>10 DEF ListDone
  <1>11. CASE DrainTake
    <2> DEFINE k == Head(Now.list).dur
               w == Rest(Tail(Now.list), Now.left - k, Now.over)
    <2>1. /\ Now.op = "drain" /\ Now.list # << >> /\ here' = AddNanos(here, k)
          /\ k <= Now.left /\ todo' = <<w>> \o Tail(todo)
      BY <1>11 DEF DrainTake, Lay
    <2>2. k \in Nat
      BY <1>1, <2>1, NowFacts
    <2>3. w.op = "drain" /\ w.left = Now.left - k
      BY <1>8, <2>1
    <2>. HIDE DEF w, k
    <2>4. Now.left <= x
      BY <1>3, <2>1 DEF Within
    <2>5. x - k \in Nat /\ k + (x - k) <= x /\ Within(w, x - k)
      BY <1>2, <2>1, <2>2, <2>3, <2>4 DEF Within
    <2>. QED  BY <1>4, <1>6, <2>1, <2>2, <2>5
  <1>12. CASE DrainSkip
    <2> DEFINE w == Rest(Tail(Now.list), Now.left,
                         IF Now.over = << >> THEN <<Head(Now.list)>> ELSE Now.over)
    <2>1. Now.op = "drain" /\ here' = here /\ todo' = <<w>> \o Tail(todo)
      BY <1>12 DEF DrainSkip
    <2>2. w.op = "drain" /\ w.left = Now.left
      BY <1>8, <2>1
    <2>. HIDE DEF w
    <2>3. Within(w, x) /\ 0 + x <= x
      BY <1>3, <2>1, <2>2 DEF Within
    <2>. QED  BY <1>4, <1>5, <1>6, <2>1, <2>3
  <1>13. CASE DrainEnd
    <2> DEFINE w == ItemsOf(<<TrimTo(Now.over[1], Now.left)>>, Now.kind)
    <2>1. Now.op = "drain" /\ here' = here /\ FillEnd(Now.over)
      BY <1>13 DEF DrainEnd, FillEnd
    <2>2. Now.left <= x
      BY <1>3, <2>1 DEF Within
    <2>3. w.op = "items" /\ w.list = <<w.list[1]>> /\ w.list[1].dur = Now.left
      BY DEF ItemsOf, TrimTo, Cut
    <2>4. todo' = <<w>> \o Tail(todo) \/ todo' = << >> \o Tail(todo)
      BY <2>1 DEF FillEnd
    <2>. HIDE DEF w
    <2>5. Within(w, x) /\ 0 + x <= x
      BY <2>2, <2>3 DEF Within
    <2>6. << >> \o Tail(todo) = Tail(todo)
      BY <1>1, ConcatEmptySeq
    <2>. QED  BY <1>4, <1>5, <1>6, <1>7, <2>1, <2>4, <2>5, <2>6
  <1>14. CASE LoopTake \/ LoopEnd
    BY <1>3, <1>14 DEF LoopTake, LoopEnd, Within
  <1>. QED  BY <1>9, <1>10, <1>11, <1>12, <1>13, <1>14 DEF Placing

\* The first to be placed is the main.
LEMMA PlacingFirst ==
    ASSUME TInv, Placing, NEW d, FirstIs(d)
    PROVE  FirstIs(d)'
  <1>1. Busy /\ UNCHANGED plan /\ out \in Seq(Segment)
    BY PlacingLays DEF KeepBlock, TInv, TypeOK
  <1>2. CASE out # << >>
    <2>1. out' = out \/ \E s : out' = Append(out, s)
      BY PlacingLays DEF Lay
    <2>2. out' # << >> /\ out'[1] = out[1]
      BY <1>1, <1>2, <2>1
    <2>. QED  BY <1>1, <1>2, <2>2 DEF FirstIs, MediaTicks
  <1>3. CASE out = << >>
    <2>1. Now.op = "items" /\ Now.list # << >> /\ MediaTicks(plan.pool, Head(Now.list)) = d
      BY <1>1, <1>3 DEF FirstIs
    <2>2. PlaceNext
      BY <2>1 DEF Placing, ListDone, DrainTake, DrainSkip, DrainEnd, LoopTake, LoopEnd
    <2>3. PICK s : out' = Append(out, s) /\ s.item = Head(Now.list)
      BY <2>2 DEF PlaceNext, Lay, Placed
    <2>4. out' # << >> /\ out'[1] = s
      BY <1>3, <2>3
    <2>5. MediaTicks(plan.pool, out[1].item)' = d
      BY <1>1, <2>1, <2>3, <2>4 DEF MediaTicks
    <2>. QED  BY <2>4, <2>5 DEF FirstIs
  <1>. QED  BY <1>2, <1>3

LEMMA PlacingBreaks ==
    ASSUME TInv, BreakInv, Placing
    PROVE  BreakInv'
  <1>1. Busy /\ UNCHANGED <<plan, pc, idx, limit, mains, chunks, budgets>>
    BY PlacingLays DEF KeepBlock, walkVars
  <1>2. B' = B /\ (OnlyBreaks' <=> OnlyBreaks)
    BY <1>1 DEF B, OnlyBreaks
  <1>3. CASE Unpicked
    <2>1. Now.op = "items" /\ Now.list = << >> /\ Tail(todo) = << >>
      BY <1>1, <1>3 DEF Unpicked, Busy
    <2>2. ListDone
      BY <2>1 DEF Placing, PlaceNext, DrainTake, DrainSkip, DrainEnd, LoopTake, LoopEnd
    <2>3. todo' = << >> /\ out' = out /\ here' = here
      BY <2>1, <2>2 DEF ListDone
    <2>4. out = << >> /\ chunks = << >> /\ here = B.at /\ mains \in {0, 1}
      BY <1>3 DEF Unpicked
    <2>5. Unpicked'
      BY <1>1, <1>2, <2>3, <2>4 DEF Unpicked
    <2>. QED  BY <2>5 DEF BreakInv
  <1>4. ASSUME NEW d \in Nat, Underway(d)
        PROVE  Underway(d)'
    <2>1. mains' = 0 /\ FirstIs(d)'
      BY <1>1, <1>4, PlacingFirst DEF Underway
    <2>2. ASSUME AddNanos(B.at, d) <= limit
          PROVE  \E a, c \in Nat : /\ WorkFits(todo, a)' /\ PiecesFit(chunks, budgets, c)'
                                  /\ AddNanos(here', a + c) <= limit
      <3>1. PICK a \in Nat, c \in Nat : /\ WorkFits(todo, a) /\ PiecesFit(chunks, budgets, c)
                                        /\ AddNanos(here, a + c) <= limit
        BY <1>4, <2>2 DEF Underway
      <3>2. PICK b \in Nat : /\ WorkFits(todo, b)'
                            /\ AddNanos(here', b + c) <= AddNanos(here, a + c)
        BY <3>1, PlacingFits
      <3>3. PiecesFit(chunks, budgets, c)'
        BY <1>1, <3>1 DEF PiecesFit, Enough
      <3>4. here \in Instant /\ here' \in Instant /\ limit \in Instant
        BY TypeStep DEF Next, TInv, TypeOK
      <3>5. AddNanos(here', b + c) \in Nat /\ AddNanos(here, a + c) \in Nat /\ limit \in Nat
        <4>1. b + c \in Nat /\ a + c \in Nat
          OBVIOUS
        <4>2. AddNanos(here', b + c) \in Instant /\ AddNanos(here, a + c) \in Instant
          BY <3>4, <4>1, AddNanosBounds
        <4>. QED  BY <3>4, <4>2 DEF Instant
      <3>. QED  BY <3>1, <3>2, <3>3, <3>5
    <2>. QED  BY <1>1, <1>2, <2>1, <2>2 DEF Underway
  <1>. QED  BY <1>1, <1>2, <1>3, <1>4 DEF BreakInv

LEMMA NoBumpers ==
    ASSUME TInv, NEW kind \in Kinds
    PROVE  /\ ItemsOf(Bumpers(kind, 0), kind).op = "items"
           /\ ItemsOf(Bumpers(kind, 0), kind).list = << >>
  <1>1. Bumpers(kind, 0) \in Seq(LocalItem)
    BY BumpersType DEF TInv, TypeOK
  <1>2. Bumpers(kind, 0) = << >>
    <2> DEFINE pool == DrainPool(kind, 0)
               none == [i \in 1 .. 0 |-> pool[((i - 1) % Len(pool)) + 1]]
    <2>1. Bumpers(kind, 0) = << >> \/ Bumpers(kind, 0) = none
      BY DEF Bumpers
    <2>2. none = << >>
      OBVIOUS
    <2>. QED  BY <2>1, <2>2
  <1>. QED  BY <1>2 DEF ItemsOf

\* What PickMain does, all of it in one.
LEMMA PickFacts ==
    ASSUME TInv, PickMain
    PROVE  \E main \in LocalItem, cut \in Seq(LocalItem) :
              /\ MediaTicks(plan.pool, main) = main.dur
              /\ \E p : Consecutive(cut, main, p)
              /\ cut # << >> /\ chunks' = cut
              /\ budgets' = BreakBudgets(DiffNanos(limit, here) - main.dur, Len(cut) - 1,
                                        B.layout.mid)
  <1>1. /\ InBlock /\ idx <= Len(plan.active)
        /\ ~(B.layout.mid.every = "minutes" /\ B.layout.mid.interval = 0)
    BY DEF PickMain, Deciding, InBlock, TInv, Shape
  <1>2. B \in Block /\ B.layout.mid \in MidRoll /\ B.coll \in Collections
        /\ B.coll \in DOMAIN plan.pool /\ Pool(B.coll) # << >>
    BY <1>1, BlockType DEF Block, TInv, Shape
  <1>3. PICK n \in Picks(B.coll) :
           LET main == ToPlayable(B.coll, n, Pool(B.coll)[n])
               cut  == IF B.layout.mid.every = "none" THEN <<main>>
                       ELSE Chunks(main, B.layout.mid)
               room == DiffNanos(limit, here) - main.dur
           IN  /\ chunks' = cut
               /\ budgets' = BreakBudgets(room, Len(cut) - 1, B.layout.mid)
    BY DEF PickMain
  <1> DEFINE main == ToPlayable(B.coll, n, Pool(B.coll)[n])
             cut  == CutAt(main, B.layout.mid)
  <1>4. main \in LocalItem
    BY <1>2, PickType
  <1>5. MediaTicks(plan.pool, main) = main.dur
    BY DEF MediaTicks, ToPlayable, Pool
  <1>6. /\ chunks' = cut
        /\ budgets' = BreakBudgets(DiffNanos(limit, here) - main.dur, Len(cut) - 1, B.layout.mid)
    BY <1>3 DEF CutAt
  <1>. HIDE DEF main
  <1>7. cut \in Seq(LocalItem) /\ cut # << >>
    <2>1. <<main>> \in Seq(LocalItem) /\ <<main>> # << >>
      BY <1>4
    <2>. QED  BY <1>1, <1>2, <1>4, <2>1, ChunksType DEF CutAt
  <1>8. \E p : Consecutive(cut, main, p)
    BY <1>1, <1>2, <1>4, ChunksFollow
  <1>. HIDE DEF cut
  <1>. QED  BY <1>4, <1>5, <1>6, <1>7, <1>8

LEMMA PickBreaks ==
    ASSUME TInv, BreakInv, PickMain
    PROVE  BreakInv'
  <1>1. /\ pc = "mains" /\ todo = << >> /\ mains \in Nat /\ mains > 0 /\ mains' = mains - 1
        /\ UNCHANGED <<plan, pc, idx, limit, here, out, todo>>
    BY DEF PickMain, Deciding, Busy, MainsWanted, walkVars, TInv, TypeOK
  <1>2. B' = B /\ (OnlyBreaks' <=> OnlyBreaks)
    BY <1>1 DEF B, OnlyBreaks
  <1>. SUFFICES ASSUME OnlyBreaks PROVE \E d \in Nat : Underway(d)'
    BY <1>2 DEF BreakInv
  <1>3. Unpicked
    BY <1>1 DEF BreakInv, Underway
  <1>4. PICK main \in LocalItem, cut \in Seq(LocalItem) :
           /\ MediaTicks(plan.pool, main) = main.dur
           /\ \E p : Consecutive(cut, main, p)
           /\ cut # << >> /\ chunks' = cut
           /\ budgets' = BreakBudgets(DiffNanos(limit, here) - main.dur, Len(cut) - 1,
                                     B.layout.mid)
    BY PickFacts
  <1>9. PICK p : Consecutive(cut, main, p)
    BY <1>4
  <1>5. main.dur \in Nat /\ here \in Instant /\ limit \in Instant /\ B.layout.mid \in MidRoll
        /\ DiffNanos(limit, here) - main.dur \in Int
    <2>1. main.dur \in Nat /\ here \in Instant /\ limit \in Instant
      BY DEF LocalItem, Item, TInv, TypeOK
    <2>2. B.layout.mid \in MidRoll
      BY <1>1, BlockType DEF InBlock, TInv, Shape
    <2>. QED  BY <2>1, <2>2 DEF DiffNanos, Instant
  <1>6. mains' = 0
    BY <1>1, <1>3 DEF Unpicked
  <1>7. FirstIs(main.dur)'
    <2>1. Head(cut).of = main.of /\ Head(cut).no = main.no
      <3>1. Head(cut) = cut[1] /\ 1 \in 1 .. Len(cut)
        BY <1>4
      <3>. QED  BY <1>9, <3>1 DEF Consecutive
    <2>2. MediaTicks(plan.pool, Head(cut)) = main.dur
      BY <1>4, <2>1 DEF MediaTicks
    <2>3. out' = << >> /\ ~Busy' /\ chunks' = cut /\ plan' = plan
      BY <1>1, <1>3, <1>4 DEF Unpicked, Busy
    <2>4. MediaTicks(plan.pool, Head(chunks))' = main.dur
      BY <2>2, <2>3 DEF MediaTicks
    <2>. QED  BY <1>4, <2>3, <2>4 DEF FirstIs
  <1>8. ASSUME AddNanos(B.at, main.dur) <= limit
        PROVE  \E a, c \in Nat : /\ WorkFits(todo, a)' /\ PiecesFit(chunks, budgets, c)'
                                /\ AddNanos(here', a + c) <= limit
    <2>1. PICK c \in Nat :
             /\ c <= main.dur + (IF DiffNanos(limit, here) - main.dur > 0
                                 THEN DiffNanos(limit, here) - main.dur ELSE 0)
             /\ PiecesFit(cut, BreakBudgets(DiffNanos(limit, here) - main.dur, Len(cut) - 1,
                                            B.layout.mid), c)
      BY <1>4, <1>5, <1>9, MainFits
    <2>2. here = B.at
      BY <1>3 DEF Unpicked
    <2>3. AddNanos(here, c) <= limit
      BY <1>5, <1>8, <2>1, <2>2, RoomKept
    <2>4. PiecesFit(chunks, budgets, c)'
      BY <1>4, <2>1 DEF PiecesFit, Enough
    <2>5. WorkFits(todo, 0)'
      BY <1>1 DEF WorkFits
    <2>6. 0 + c = c
      OBVIOUS
    <2>. QED  BY <1>1, <2>3, <2>4, <2>5, <2>6
  <1>. QED  BY <1>1, <1>2, <1>5, <1>6, <1>7, <1>8 DEF Underway

LEMMA ChunkBreaks ==
    ASSUME TInv, BreakInv, NextChunk
    PROVE  BreakInv'
  <1>1. /\ pc = "mains" /\ todo = << >> /\ chunks # << >> /\ ~Busy
        /\ chunks \in Seq(LocalItem) /\ budgets \in Seq(Int) /\ Len(budgets) = Len(chunks) - 1
        /\ chunks' = Tail(chunks)
        /\ UNCHANGED <<plan, pc, idx, limit, here, out, mains>>
    BY DEF NextChunk, Deciding, Busy, walkVars, TInv, TypeOK, Shape
  <1>2. B' = B /\ (OnlyBreaks' <=> OnlyBreaks)
    BY <1>1 DEF B, OnlyBreaks
  <1>. SUFFICES ASSUME OnlyBreaks PROVE \E d \in Nat : Underway(d)'
    BY <1>2 DEF BreakInv
  <1>3. PICK d \in Nat : Underway(d)
    BY <1>1 DEF BreakInv, Unpicked
  <1> DEFINE w == ItemsOf(<<Head(chunks)>>, "main")
             x == FillFrom("drain", DrainPool("mid_roll", 10), Head(budgets), TRUE, "mid_roll")
  <1>4. /\ Slug = << >>
        /\ Break(Head(budgets)) = <<x>>
    <2>1. B.layout.mid.wrap = << >> /\ B.layout.slug = 0
      BY DEF OnlyBreaks
    <2> DEFINE none == [i \in 1 .. Len(B.layout.mid.wrap) |->
                           ItemsOf(FillerPick(B.layout.mid.wrap[i]), B.layout.mid.wrap[i])]
    <2>2. none = << >>
      BY <2>1
    <2>3. Break(Head(budgets)) = none \o <<x>>
      BY DEF Break
    <2>. HIDE DEF none, x
    <2>. QED  BY <2>1, <2>2, <2>3 DEF Slug
  <1>5. /\ w.op = "items" /\ w.list = <<Head(chunks)>> /\ w.list = <<w.list[1]>>
        /\ w.list[1] = Head(chunks) /\ w.list # << >> /\ Head(w.list) = Head(chunks)
    BY DEF ItemsOf
  <1>6. x.op = "drain" /\ x.left = Head(budgets)
    BY DEF FillFrom
  <1>7. /\ todo' = <<w>> \o (IF Len(chunks) > 1 THEN Break(Head(budgets)) ELSE Slug)
        /\ budgets' = IF Len(chunks) > 1 THEN Tail(budgets) ELSE << >>
    BY DEF NextChunk
  <1>. HIDE DEF w, x
  <1>8. todo' = IF Len(chunks) > 1 THEN <<w, x>> ELSE <<w>>
    BY <1>4, <1>7
  <1>9. todo' # << >> /\ Head(todo') = w /\ Tail(todo') = IF Len(chunks) > 1 THEN <<x>> ELSE << >>
    BY <1>8
  <1>10. FirstIs(d)'
    <2>1. FirstIs(d)
      BY <1>3 DEF Underway
    <2>2. CASE out # << >>
      BY <1>1, <2>1, <2>2 DEF FirstIs, MediaTicks
    <2>3. CASE out = << >>
      <3>1. MediaTicks(plan.pool, Head(chunks)) = d
        BY <1>1, <2>1, <2>3 DEF FirstIs
      <3>2. Busy' /\ Now' = w /\ out' = << >> /\ plan' = plan
        BY <1>1, <1>9, <2>3 DEF Busy, Now
      <3>. QED  BY <1>5, <3>1, <3>2 DEF FirstIs, MediaTicks
    <2>. QED  BY <2>2, <2>3
  <1>11. ASSUME AddNanos(B.at, d) <= limit
         PROVE  \E a, c \in Nat : /\ WorkFits(todo', a) /\ PiecesFit(chunks', budgets', c)
                                 /\ AddNanos(here, a + c) <= limit
    <2>1. PICK a \in Nat, c \in Nat : PiecesFit(chunks, budgets, c) /\ AddNanos(here, a + c) <= limit
      BY <1>3, <1>11 DEF Underway
    <2>2. PICK h \in Nat : h = Head(chunks).dur
      BY <1>1 DEF LocalItem, Item
    <2>3. /\ Len(chunks) = 1 => h <= c /\ PiecesFit(Tail(chunks), << >>, 0)
          /\ Len(chunks) > 1 =>
                /\ Head(budgets) \in Nat
                /\ \E k \in Nat : /\ h + Head(budgets) + k <= c
                                  /\ PiecesFit(Tail(chunks), Tail(budgets), k)
      BY <1>1, <2>1, <2>2, NextPieceFits
    <2>4. here \in Instant /\ limit \in Instant
      BY DEF TInv, TypeOK
    <2>5. ASSUME NEW u \in Nat, u <= a + c
          PROVE  AddNanos(here, u) <= limit
      <3>1. AddNanos(AddNanos(here, u), 0) <= AddNanos(here, a + c)
        BY <2>4, <2>5, AddNanosTwice DEF Instant
      <3>2. AddNanos(here, u) \in Instant /\ AddNanos(here, a + c) \in Instant
        BY <2>4, AddNanosBounds
      <3>3. /\ AddNanos(AddNanos(here, u), 0) \in Instant
            /\ AddNanos(AddNanos(here, u), 0) >= AddNanos(here, u)
        BY <3>2, AddNanosBounds
      <3>. QED  BY <2>1, <2>4, <3>1, <3>2, <3>3 DEF Instant
    <2>6. Within(w, h)
      BY <1>5, <2>2 DEF Within
    <2>7. CASE Len(chunks) = 1
      <3>1. Tail(todo') = << >> /\ budgets' = << >>
        BY <1>7, <1>9, <2>7
      <3>2. LastFits(Tail(todo'), 0) /\ h + 0 <= h
        BY <3>1 DEF LastFits
      <3>3. WorkFits(todo', h)
        BY <1>9, <2>6, <3>2 DEF WorkFits
      <3>4. PiecesFit(chunks', budgets', 0)
        BY <1>1, <2>3, <2>7, <3>1
      <3>5. AddNanos(here, h + 0) <= limit
        BY <2>3, <2>5, <2>7
      <3>. QED  BY <3>3, <3>4, <3>5
    <2>8. CASE Len(chunks) > 1
      <3>1. PICK b \in Nat, k \in Nat :
               /\ b = Head(budgets) /\ h + b + k <= c /\ PiecesFit(Tail(chunks), Tail(budgets), k)
        BY <2>3, <2>8
      <3>2. Tail(todo') = <<x>> /\ budgets' = Tail(budgets)
        BY <1>7, <1>9, <2>8
      <3>3. Within(x, b)
        BY <1>6, <3>1 DEF Within
      <3>4. Head(<<x>>) = x /\ Tail(<<x>>) = << >>
        OBVIOUS
      <3>5. LastFits(Tail(todo'), b) /\ h + b <= h + b
        <4>1. h + b <= h + b
          OBVIOUS
        <4>2. Tail(Tail(todo')) = << >> /\ Head(Tail(todo')) = x
          BY <3>2, <3>4
        <4>. QED  BY <3>3, <4>1, <4>2 DEF LastFits
      <3>6. WorkFits(todo', h + b)
        BY <1>9, <2>6, <3>5 DEF WorkFits
      <3>7. PiecesFit(chunks', budgets', k)
        BY <1>1, <3>1, <3>2
      <3>8. AddNanos(here, (h + b) + k) <= limit
        BY <2>5, <3>1
      <3>. QED  BY <3>6, <3>7, <3>8
    <2>9. Len(chunks) = 1 \/ Len(chunks) > 1
      BY <1>1
    <2>. QED  BY <2>7, <2>8, <2>9
  <1>12. AddNanos(B.at, d)' <= limit' =>
            \E a, c \in Nat : /\ WorkFits(todo, a)' /\ PiecesFit(chunks, budgets, c)'
                             /\ AddNanos(here', a + c) <= limit'
    BY <1>1, <1>2, <1>11 DEF WorkFits, LastFits, Within, PiecesFit, Enough, AddNanos
  <1>. QED  BY <1>1, <1>3, <1>10, <1>12 DEF Underway

LEMMA EnterBreaks ==
    ASSUME TInv, EnterBlock
    PROVE  BreakInv'
  <1>1. /\ pc = "walk" /\ pc' = "mains" /\ here' = B.at /\ out' = << >>
        /\ mains' = (IF B.count = NoCount THEN 1 ELSE B.count)
        /\ todo' = <<ItemsOf(Bumpers("pre_roll", B.layout.pre), "pre_roll")>>
        /\ UNCHANGED <<plan, idx, chunks>>
    BY DEF EnterBlock, Walking, walkVars
  <1>2. B' = B /\ (OnlyBreaks' <=> OnlyBreaks) /\ chunks = << >>
    BY <1>1, Idle DEF B, OnlyBreaks, InBlock
  <1>. SUFFICES ASSUME OnlyBreaks PROVE Unpicked'
    BY <1>2 DEF BreakInv
  <1>3. mains' \in {0, 1}
    BY <1>1 DEF OnlyBreaks
  <1> DEFINE w == ItemsOf(Bumpers("pre_roll", 0), "pre_roll")
  <1>4. w.op = "items" /\ w.list = << >>
    BY NoBumpers, DayPlanAssumption
  <1>5. todo' = <<w>>
    BY <1>1 DEF OnlyBreaks
  <1>. HIDE DEF w
  <1>6. Now' = w /\ Tail(todo') = << >>
    BY <1>5 DEF Now
  <1>. QED  BY <1>1, <1>2, <1>3, <1>4, <1>6 DEF Unpicked

LEMMA EndMainsBreaks ==
    ASSUME TInv, BreakInv, EndMains
    PROVE  BreakInv'
  <1>1. /\ pc = "mains" /\ ~Busy /\ chunks = << >>
        /\ todo' = <<ItemsOf(Bumpers("post_roll", B.layout.post), "post_roll")>>
        /\ UNCHANGED <<plan, idx, limit, here, out, mains, chunks, budgets>>
    BY DEF EndMains, Deciding, walkVars
  <1>2. B' = B /\ (OnlyBreaks' <=> OnlyBreaks)
    BY <1>1 DEF B, OnlyBreaks
  <1>. SUFFICES ASSUME OnlyBreaks PROVE Unpicked' \/ \E d \in Nat : Underway(d)'
    BY <1>2 DEF BreakInv
  <1> DEFINE w == ItemsOf(Bumpers("post_roll", 0), "post_roll")
  <1>3. w.op = "items" /\ w.list = << >>
    BY NoBumpers, DayPlanAssumption
  <1>4. todo' = <<w>>
    BY <1>1 DEF OnlyBreaks
  <1>. HIDE DEF w
  <1>5. todo' # << >> /\ Head(todo') = w /\ Tail(todo') = << >> /\ Now' = w
    BY <1>4 DEF Now
  <1>6. CASE Unpicked
    <2>1. out = << >> /\ here = B.at /\ mains \in {0, 1}
      BY <1>6 DEF Unpicked
    <2>. QED  BY <1>1, <1>2, <1>3, <1>5, <2>1 DEF Unpicked
  <1>7. ASSUME NEW d \in Nat, Underway(d)
        PROVE  Underway(d)'
    <2>1. out # << >> /\ MediaTicks(plan.pool, out[1].item) = d /\ mains = 0
      BY <1>1, <1>7 DEF Underway, FirstIs
    <2>2. FirstIs(d)' /\ mains' = 0
      BY <1>1, <2>1 DEF FirstIs, MediaTicks
    <2>3. ASSUME AddNanos(B.at, d) <= limit
          PROVE  \E a, c \in Nat : /\ WorkFits(todo, a)' /\ PiecesFit(chunks, budgets, c)'
                                  /\ AddNanos(here', a + c) <= limit
      <3>1. PICK a \in Nat, c \in Nat :
               PiecesFit(chunks, budgets, c) /\ AddNanos(here, a + c) <= limit
        BY <1>7, <2>3 DEF Underway
      <3>2. Within(w, a)
        BY <1>3 DEF Within
      <3>3. LastFits(Tail(todo'), 0)
        BY <1>5 DEF LastFits
      <3>4. a + 0 <= a
        OBVIOUS
      <3>5. WorkFits(todo', a)
        BY <1>5, <3>2, <3>3, <3>4 DEF WorkFits
      <3>6. WorkFits(todo, a)'
        BY <3>5 DEF WorkFits, LastFits, Within
      <3>7. PiecesFit(chunks, budgets, c)'
        BY <1>1, <3>1 DEF PiecesFit, Enough
      <3>. QED  BY <1>1, <3>1, <3>6, <3>7
    <2>. QED  BY <1>1, <1>2, <2>2, <2>3 DEF Underway
  <1>. QED  BY <1>1, <1>6, <1>7 DEF BreakInv

LEMMA BreakStep == TInv /\ BreakInv /\ [Next]_vars => BreakInv'
  <1>. SUFFICES ASSUME TInv, BreakInv, [Next]_vars PROVE BreakInv'
    OBVIOUS
  <1>1. CASE UNCHANGED vars
    <2>1. /\ UNCHANGED <<plan, idx, limit, here, out, mains, todo, chunks, budgets, pc>>
          /\ B' = B /\ Now' = Now /\ Busy' = Busy
      BY <1>1 DEF vars, walkVars, blockVars, passVars, B, Now, Busy
    <2>2. (OnlyBreaks' <=> OnlyBreaks) /\ (Unpicked' <=> Unpicked)
      BY <2>1 DEF OnlyBreaks, Unpicked
    <2>3. ASSUME NEW d \in Nat, Underway(d)
          PROVE  Underway(d)'
      <3>1. FirstIs(d)'
        BY <2>1, <2>3 DEF Underway, FirstIs, MediaTicks
      <3>2. \A a, c \in Nat : WorkFits(todo, a) /\ PiecesFit(chunks, budgets, c) =>
                              WorkFits(todo, a)' /\ PiecesFit(chunks, budgets, c)'
        BY <2>1 DEF WorkFits, LastFits, Within, PiecesFit, Enough
      <3>. QED  BY <2>1, <2>3, <3>1, <3>2 DEF Underway
    <2>. QED  BY <2>1, <2>2, <2>3 DEF BreakInv
  <1>2. CASE \/ EnterDefault \/ DefaultFails \/ SkipGap \/ BlockFails \/ EndWalk
             \/ DefaultStep \/ ZeroInterval \/ StartFill \/ FillPool \/ EndFill \/ LeaveBlock
             \/ Passes
    <2>1. pc' \notin {"mains", "post"}
      BY <1>2 DEF EnterDefault, DefaultFails, SkipGap, BlockFails, EndWalk, Walking,
                  DefaultStep, DefaultPlace, DefaultReject, DefaultDone, LeaveDefault,
                  ZeroInterval, Fail, StartFill, FillPool, EndFill, LeaveBlock, Deciding,
                  Passes, SplitNext, EndSplit, GuideNext, EndGuide
    <2>. QED  BY <2>1 DEF BreakInv
  <1>. QED
    BY <1>1, <1>2, EnterBreaks, PickBreaks, ChunkBreaks, EndMainsBreaks, PlacingBreaks
       DEF Next, Walk, BlockStep

\* Breaks are cut to the room the main leaves: with nothing but breaks around
\* it, one main keeps the next anchor if it does alone, whatever its pieces and
\* the pools of its breaks.
THEOREM BreaksKeepAnchors == Spec => []BreaksKeepTheAnchor
  <1>1. Init => BreakInv
    BY DEF Init, BreakInv
  <1>2. TInv /\ BreakInv => BreaksKeepTheAnchor
    <2>. SUFFICES ASSUME TInv, BreakInv, pc = "post", OnlyBreaks, out # << >>,
                         AddNanos(B.at, Ticks(out[1])) <= limit
                  PROVE  here <= limit
      BY DEF BreaksKeepTheAnchor, OnlyBreaks
    <2>1. PICK d \in Nat : Underway(d)
      BY DEF BreakInv, Unpicked
    <2>2. Ticks(out[1]) = d
      BY <2>1 DEF Underway, FirstIs, MediaTicks, Ticks, Pool
    <2>3. PICK a \in Nat, c \in Nat : AddNanos(here, a + c) <= limit
      BY <2>1, <2>2 DEF Underway
    <2>4. here \in Instant /\ limit \in Instant /\ a + c \in Nat
      BY DEF TInv, TypeOK
    <2>5. AddNanos(here, a + c) >= here /\ AddNanos(here, a + c) \in Instant
      BY <2>4, AddNanosBounds
    <2>. QED  BY <2>3, <2>4, <2>5 DEF Instant
  <1>. QED  BY <1>1, <1>2, BreakStep, MidnightInvariant, PTL DEF Spec

=============================================================================

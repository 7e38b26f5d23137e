----------------------------- MODULE QueryProofs -----------------------------
(***************************************************************************)
(* What the list operators of Lists return, for every list, and what the   *)
(* parser of Query makes of a text, for every text: the tree of a          *)
(* well-formed text says of an item what the text says.                    *)
(*                                                                         *)
(* The loops over lists, the calls of the parser and the reading of a text *)
(* are functions on 0..n defined by recursion: that there is such a        *)
(* function, and what its last value is, is shown by induction, which      *)
(* rests on every set of numbers having a least one.                       *)
(***************************************************************************)
EXTENDS Query, SequenceTheorems, WellFoundedInduction, TLAPS

-----------------------------------------------------------------------------
(* Induction and recursion, with sets in the place of formulas.            *)

\* Among any numbers there is a least one.
LEMMA LeastNumber ==
    ASSUME NEW S, S \subseteq Nat, S # {}
    PROVE  \E n \in S : \A m \in S : n <= m
  <1>1. PICK n \in S : \A m \in S : ~(<<m, n>> \in OpToRel(<, Nat))
    BY WFMin, NatLessThanWellFounded
  <1>2. ASSUME NEW m \in S PROVE n <= m
    <2>1. m \in Nat /\ n \in Nat /\ ~(m < n)
      BY <1>1 DEF OpToRel
    <2>. QED  BY <2>1
  <1>. QED  BY <1>2

\* A set with 0 and, with each number, the next one has them all.
LEMMA Induction ==
    ASSUME NEW S, 0 \in S, \A n \in Nat : n \in S => n + 1 \in S
    PROVE  \A n \in Nat : n \in S
  <1> DEFINE T == {n \in Nat : n \notin S}
  <1>. SUFFICES ASSUME T # {} PROVE FALSE
    OBVIOUS
  <1>1. PICK n \in T : \A m \in T : n <= m
    BY LeastNumber
  <1>2. n - 1 \in Nat /\ n - 1 \notin T
    BY <1>1
  <1>. QED  BY <1>2

\* The same up to a last number.
LEMMA InductionTo ==
    ASSUME NEW last \in Nat, NEW S, 0 \in S, \A n \in 1 .. last : n - 1 \in S => n \in S
    PROVE  \A n \in 0 .. last : n \in S
  <1> DEFINE T == {n \in Nat : n <= last => n \in S}
  <1>1. 0 \in T
    OBVIOUS
  <1>2. ASSUME NEW n \in Nat, n \in T PROVE n + 1 \in T
    <2>. SUFFICES ASSUME n + 1 <= last PROVE n + 1 \in S
      OBVIOUS
    <2>1. n + 1 \in 1 .. last /\ (n + 1) - 1 = n /\ n \in S
      BY <1>2
    <2>. QED  BY <2>1
  <1>. HIDE DEF T
  <1>3. \A n \in Nat : n \in T
    BY <1>1, <1>2, Induction
  <1>. QED  BY <1>3 DEF T

\* f begins with base, and step leads from each of its values to the next.
Unfolds(f, base, step, last) ==
    f[0] = base /\ \A n \in 1 .. last : f[n] = step[n][f[n - 1]]

\* A step within V can be repeated.
LEMMA Recursion ==
    ASSUME NEW V, NEW base \in V, NEW last \in Nat, NEW step,
           \A n \in 1 .. last : \A v \in V : step[n][v] \in V
    PROVE  \E f \in [0 .. last -> V] : Unfolds(f, base, step, last)
  <1> DEFINE S == {m \in 0 .. last : \E f \in [0 .. m -> V] : Unfolds(f, base, step, m)}
  <1>1. 0 \in S
    <2> DEFINE f == [n \in 0 .. 0 |-> base]
    <2>1. f \in [0 .. 0 -> V] /\ Unfolds(f, base, step, 0)
      BY DEF Unfolds
    <2>. QED  BY <2>1
  <1>2. ASSUME NEW m \in 1 .. last, m - 1 \in S PROVE m \in S
    <2>1. PICK f \in [0 .. (m - 1) -> V] : Unfolds(f, base, step, m - 1)
      BY <1>2
    <2> DEFINE g == [n \in 0 .. m |-> IF n < m THEN f[n] ELSE step[m][f[m - 1]]]
    <2>2. f[m - 1] \in V /\ step[m][f[m - 1]] \in V
      BY <2>1
    <2>3. \A n \in 0 .. (m - 1) : g[n] = f[n] /\ f[n] \in V
      BY <2>1
    <2>4. g[m] = step[m][f[m - 1]]
      OBVIOUS
    <2>5. g \in [0 .. m -> V]
      BY <2>2, <2>3
    <2>. HIDE DEF g
    <2>6. g[0] = base
      BY <2>1, <2>3 DEF Unfolds
    <2>7. ASSUME NEW n \in 1 .. m PROVE g[n] = step[n][g[n - 1]]
      <3>1. CASE n = m
        BY <2>3, <2>4, <3>1
      <3>2. CASE n # m
        <4>1. n \in 1 .. (m - 1) /\ n \in 0 .. (m - 1) /\ n - 1 \in 0 .. (m - 1)
          BY <3>2
        <4>2. f[n] = step[n][f[n - 1]]
          BY <2>1, <4>1 DEF Unfolds
        <4>. QED  BY <2>3, <4>1, <4>2
      <3>. QED  BY <3>1, <3>2
    <2>. QED  BY <2>5, <2>6, <2>7 DEF Unfolds
  <1>. HIDE DEF S
  <1>3. last \in S
    BY <1>1, <1>2, InductionTo
  <1>. QED  BY <1>3 DEF S

-----------------------------------------------------------------------------
(* What is kept of a list. *)

KeepStep(list, set, T) ==
    [n \in 1 .. Len(list) |->
        [kept \in Seq(T) |-> IF list[n] \in set THEN Append(kept, list[n]) ELSE kept]]

LEMMA KeptSoFar ==
    ASSUME NEW T, NEW list \in Seq(T), NEW set
    PROVE  \E f : /\ Kept(list, set) = f[Len(list)] /\ f[0] = <<>>
                  /\ \A n \in 1 .. Len(list) :
                        f[n] = IF list[n] \in set THEN Append(f[n - 1], list[n]) ELSE f[n - 1]
  <1> DEFINE Is(f) == f = [n \in 0 .. Len(list) |->
                              IF n = 0 THEN <<>>
                              ELSE IF list[n] \in set THEN Append(f[n - 1], list[n])
                              ELSE f[n - 1]]
  <1>1. Len(list) \in Nat /\ \A n \in 1 .. Len(list) : list[n] \in T
    OBVIOUS
  <1>2. \A n \in 1 .. Len(list) : \A kept \in Seq(T) :
           /\ KeepStep(list, set, T)[n][kept]
                = IF list[n] \in set THEN Append(kept, list[n]) ELSE kept
           /\ KeepStep(list, set, T)[n][kept] \in Seq(T)
    BY <1>1 DEF KeepStep
  <1>3. PICK f \in [0 .. Len(list) -> Seq(T)] :
                Unfolds(f, <<>>, KeepStep(list, set, T), Len(list))
    <2>1. <<>> \in Seq(T)
      OBVIOUS
    <2>. QED  BY <1>1, <1>2, <2>1, Recursion
  <1>4. Is(f)
    <2>1. \A n \in 0 .. Len(list) : n = 0 \/ (n \in 1 .. Len(list) /\ n - 1 \in 0 .. Len(list))
      BY <1>1
    <2>2. \A n \in 0 .. Len(list) :
             f[n] = IF n = 0 THEN <<>>
                    ELSE IF list[n] \in set THEN Append(f[n - 1], list[n])
                    ELSE f[n - 1]
      BY <1>2, <1>3, <2>1 DEF Unfolds
    <2>3. f = [n \in 0 .. Len(list) |-> f[n]]
      BY <1>3
    <2>. QED  BY <2>2, <2>3
  <1> DEFINE g == CHOOSE f_1 : Is(f_1)
  <1>5. Is(g)
    BY <1>4
  <1>6. Kept(list, set) = g[Len(list)]
    BY DEF Kept
  <1>. HIDE DEF g
  <1>7. g[0] = <<>>
    BY <1>1, <1>5
  <1>8. ASSUME NEW n \in 1 .. Len(list)
        PROVE  g[n] = IF list[n] \in set THEN Append(g[n - 1], list[n]) ELSE g[n - 1]
    <2>1. n \in 0 .. Len(list) /\ n # 0
      BY <1>1
    <2>. QED  BY <1>5, <2>1
  <1>. QED  BY <1>6, <1>7, <1>8

\* What is kept of the first n, place for place: p[k] is where the k-th stood.
Places(kept, list, set, n, p) ==
    /\ p \in [1 .. Len(kept) -> 1 .. n]
    /\ \A k, m \in 1 .. Len(kept) : k < m => p[k] < p[m]
    /\ \A k \in 1 .. Len(kept) : kept[k] = list[p[k]] /\ list[p[k]] \in set
    /\ \A j \in 1 .. n : list[j] \in set => \E k \in 1 .. Len(kept) : p[k] = j

LEMMA OneMorePlace ==
    ASSUME NEW T, NEW kept \in Seq(T), NEW list, NEW set, NEW n \in Nat, NEW p,
           Places(kept, list, set, n, p),
           list[n + 1] \in set, list[n + 1] \in T
    PROVE  \E q : Places(Append(kept, list[n + 1]), list, set, n + 1, q)
  <1> DEFINE more == Append(kept, list[n + 1])
             q    == [k \in 1 .. Len(kept) + 1 |-> IF k <= Len(kept) THEN p[k] ELSE n + 1]
  <1>1. /\ Len(kept) \in Nat /\ Len(more) = Len(kept) + 1
        /\ \A k \in 1 .. Len(kept) : more[k] = kept[k]
        /\ more[Len(kept) + 1] = list[n + 1]
    BY AppendProperties
  <1>2. \A k \in 1 .. Len(kept) : q[k] = p[k] /\ p[k] \in 1 .. n
    BY <1>1 DEF Places
  <1>3. q[Len(kept) + 1] = n + 1
    BY <1>1
  <1>4. q \in [1 .. Len(more) -> 1 .. n + 1]
    <2>1. ASSUME NEW k \in 1 .. Len(kept) PROVE p[k] \in 1 .. n + 1
      <3>1. p[k] \in 1 .. n
        BY <1>2
      <3>. QED  BY <3>1
    <2>2. \A k \in 1 .. Len(kept) + 1 : k <= Len(kept) => k \in 1 .. Len(kept)
      BY <1>1
    <2>3. n + 1 \in 1 .. n + 1
      OBVIOUS
    <2>4. \A k \in 1 .. Len(kept) + 1 : (k <= Len(kept) => p[k] \in 1 .. n + 1) /\ n + 1 \in 1 .. n + 1
      BY <2>1, <2>2, <2>3
    <2>. QED  BY <1>1, <2>4
  <1>. HIDE DEF q, more
  <1>5. ASSUME NEW k \in 1 .. Len(more), NEW m \in 1 .. Len(more), k < m
        PROVE  q[k] < q[m]
    <2>1. k \in 1 .. Len(kept) /\ (m \in 1 .. Len(kept) \/ m = Len(kept) + 1)
      BY <1>1, <1>5
    <2>2. CASE m \in 1 .. Len(kept)
      BY <1>2, <1>5, <2>1, <2>2 DEF Places
    <2>3. CASE m = Len(kept) + 1
      BY <1>2, <1>3, <2>1, <2>3
    <2>. QED  BY <2>1, <2>2, <2>3
  <1>6. ASSUME NEW k \in 1 .. Len(more)
        PROVE  more[k] = list[q[k]] /\ list[q[k]] \in set
    <2>1. k \in 1 .. Len(kept) \/ k = Len(kept) + 1
      BY <1>1
    <2>. QED  BY <1>1, <1>2, <1>3, <2>1 DEF Places
  <1>7. ASSUME NEW j \in 1 .. n + 1, list[j] \in set
        PROVE  \E k \in 1 .. Len(more) : q[k] = j
    <2>1. CASE j = n + 1
      <3>1. Len(kept) + 1 \in 1 .. Len(more)
        BY <1>1
      <3>. QED  BY <1>3, <2>1, <3>1
    <2>2. CASE j \in 1 .. n
      <3>1. PICK k \in 1 .. Len(kept) : p[k] = j
        BY <1>7, <2>2 DEF Places
      <3>2. k \in 1 .. Len(more)
        BY <1>1
      <3>. QED  BY <1>2, <3>1, <3>2
    <2>. QED  BY <2>1, <2>2
  <1>8. Places(more, list, set, n + 1, q)
    BY <1>4, <1>5, <1>6, <1>7 DEF Places
  <1>. QED  BY <1>8 DEF more

LEMMA KeptPlaces ==
    ASSUME NEW T, NEW list \in Seq(T), NEW set
    PROVE  /\ Kept(list, set) \in Seq(T)
           /\ \E p : Places(Kept(list, set), list, set, Len(list), p)
  <1>1. Len(list) \in Nat /\ \A n \in 1 .. Len(list) : list[n] \in T
    OBVIOUS
  <1>2. PICK f : /\ Kept(list, set) = f[Len(list)] /\ f[0] = <<>>
                 /\ \A n \in 1 .. Len(list) :
                       f[n] = IF list[n] \in set THEN Append(f[n - 1], list[n]) ELSE f[n - 1]
    BY KeptSoFar
  <1> DEFINE Sound(n) == f[n] \in Seq(T) /\ \E p : Places(f[n], list, set, n, p)
             S == {n \in 0 .. Len(list) : Sound(n)}
  <1>3. 0 \in S
    <2> DEFINE p == [k \in 1 .. 0 |-> 0]
    <2>1. Places(<<>>, list, set, 0, p)
      BY DEF Places
    <2>2. <<>> \in Seq(T) /\ 0 \in 0 .. Len(list)
      BY <1>1
    <2>. QED  BY <1>2, <2>1, <2>2
  <1>4. ASSUME NEW n \in 1 .. Len(list), n - 1 \in S PROVE n \in S
    <2>1. n - 1 \in Nat /\ (n - 1) + 1 = n /\ n \in 0 .. Len(list) /\ list[n] \in T
      BY <1>1
    <2>2. f[n - 1] \in Seq(T)
      BY <1>4
    <2>3. PICK p : Places(f[n - 1], list, set, n - 1, p)
      BY <1>4
    <2>4. CASE list[n] \in set
      <3>1. f[n] = Append(f[n - 1], list[n])
        BY <1>2, <2>4
      <3>2. PICK m \in Nat : m = n - 1 /\ m + 1 = n
        BY <2>1
      <3>3. f[m] \in Seq(T) /\ Places(f[m], list, set, m, p)
            /\ list[m + 1] \in set /\ list[m + 1] \in T
        BY <2>1, <2>2, <2>3, <2>4, <3>2
      <3>4. \E q : Places(Append(f[m], list[m + 1]), list, set, m + 1, q)
        BY <3>2, <3>3, OneMorePlace
      <3>5. f[n] \in Seq(T) /\ \E q : Places(f[n], list, set, n, q)
        BY <3>1, <3>2, <3>3, <3>4
      <3>. QED  BY <2>1, <3>5
    <2>5. CASE list[n] \notin set
      <3>1. f[n] = f[n - 1]
        BY <1>2, <2>5
      <3>2. \A j \in 1 .. (n - 1) : j \in 1 .. n
        BY <2>1
      <3>3. p \in [1 .. Len(f[n]) -> 1 .. n]
        BY <2>3, <3>1, <3>2 DEF Places
      <3>4. \A j \in 1 .. n : list[j] \in set => j \in 1 .. (n - 1)
        BY <2>1, <2>5
      <3>5. Places(f[n], list, set, n, p)
        BY <2>3, <3>1, <3>3, <3>4 DEF Places
      <3>. QED  BY <2>1, <2>2, <3>1, <3>5
    <2>. QED  BY <2>4, <2>5
  <1>. HIDE DEF S
  <1>5. \A n \in 0 .. Len(list) : n \in S
    BY <1>1, <1>3, <1>4, InductionTo
  <1>6. Len(list) \in S
    BY <1>1, <1>5
  <1>. QED  BY <1>2, <1>6 DEF S

\* What is kept is what is in the set, once if it is in the list once.
LEMMA KeptFacts ==
    ASSUME NEW T, NEW list \in Seq(T), NEW set
    PROVE  /\ Kept(list, set) \in Seq(T)
           /\ ToSet(Kept(list, set)) = ToSet(list) \cap set
           /\ IsInjective(list) => IsInjective(Kept(list, set))
  <1>1. PICK p : Places(Kept(list, set), list, set, Len(list), p)
    BY KeptPlaces
  <1> DEFINE kept == Kept(list, set)
  <1>2. kept \in Seq(T)
    BY KeptPlaces
  <1>. HIDE DEF kept
  <1>3. DOMAIN kept = 1 .. Len(kept) /\ DOMAIN list = 1 .. Len(list) /\ Len(kept) \in Nat
    BY <1>2
  <1>4. ASSUME NEW k \in DOMAIN kept PROVE kept[k] \in ToSet(list) \cap set
    BY <1>1, <1>3, <1>4 DEF Places, ToSet, kept
  <1>5. ASSUME NEW j \in DOMAIN list, list[j] \in set PROVE list[j] \in ToSet(kept)
    BY <1>1, <1>3, <1>5 DEF Places, ToSet, kept
  <1>6. ASSUME IsInjective(list), NEW k \in DOMAIN kept, NEW m \in DOMAIN kept, kept[k] = kept[m]
        PROVE  k = m
    <2>1. p[k] = p[m]
      BY <1>1, <1>3, <1>6 DEF Places, IsInjective, kept
    <2>2. ~(k < m) /\ ~(m < k)
      BY <1>1, <1>3, <2>1 DEF Places, kept
    <2>. QED  BY <1>3, <2>2
  <1>7. ToSet(kept) = ToSet(list) \cap set
    BY <1>4, <1>5 DEF ToSet
  <1>. QED  BY <1>2, <1>6, <1>7 DEF IsInjective, kept

-----------------------------------------------------------------------------
(* Longer and shorter lists. *)

LEMMA JoinFacts ==
    ASSUME NEW T, NEW s \in Seq(T), NEW t \in Seq(T)
    PROVE  /\ s \o t \in Seq(T)
           /\ ToSet(s \o t) = ToSet(s) \cup ToSet(t)
           /\ IsInjective(s) /\ IsInjective(t) /\ ToSet(s) \cap ToSet(t) = {}
                => IsInjective(s \o t)
  <1> DEFINE st == s \o t
  <1>1. /\ st \in Seq(T) /\ Len(st) = Len(s) + Len(t)
        /\ \A i \in 1 .. Len(s) + Len(t) : st[i] = IF i <= Len(s) THEN s[i] ELSE t[i - Len(s)]
    BY ConcatProperties
  <1>. HIDE DEF st
  <1>2. /\ DOMAIN s = 1 .. Len(s) /\ DOMAIN t = 1 .. Len(t) /\ DOMAIN st = 1 .. Len(st)
        /\ Len(s) \in Nat /\ Len(t) \in Nat
    BY <1>1
  <1>3. \A i \in DOMAIN s : i \in DOMAIN st /\ st[i] = s[i]
    BY <1>1, <1>2
  <1>4. \A i \in DOMAIN t : i + Len(s) \in DOMAIN st /\ st[i + Len(s)] = t[i]
    BY <1>1, <1>2
  <1>5. \A i \in DOMAIN st : \/ i \in DOMAIN s
                             \/ i - Len(s) \in DOMAIN t /\ st[i] = t[i - Len(s)]
    BY <1>1, <1>2
  <1>6. ToSet(st) = ToSet(s) \cup ToSet(t)
    BY <1>3, <1>4, <1>5 DEF ToSet
  <1>7. ASSUME IsInjective(s), IsInjective(t), ToSet(s) \cap ToSet(t) = {},
               NEW i \in DOMAIN st, NEW j \in DOMAIN st, st[i] = st[j]
        PROVE  i = j
    <2>1. CASE i \in DOMAIN s /\ j \in DOMAIN s
      BY <1>3, <1>7, <2>1 DEF IsInjective
    <2>2. CASE i \notin DOMAIN s /\ j \notin DOMAIN s
      <3>1. i - Len(s) = j - Len(s)
        BY <1>5, <1>7, <2>2 DEF IsInjective
      <3>2. i \in Int /\ j \in Int /\ Len(s) \in Int
        BY <1>1, <1>2, <1>7
      <3>. QED  BY <3>1, <3>2
    <2>3. \A k \in DOMAIN st : IF k \in DOMAIN s THEN st[k] \in ToSet(s) ELSE st[k] \in ToSet(t)
      BY <1>3, <1>5 DEF ToSet
    <2>4. ~(st[i] \in ToSet(s) /\ st[j] \in ToSet(t)) /\ ~(st[i] \in ToSet(t) /\ st[j] \in ToSet(s))
      BY <1>7
    <2>. QED  BY <2>1, <2>2, <2>3, <2>4
  <1>. QED  BY <1>1, <1>6, <1>7 DEF IsInjective, st

LEMMA AppendFacts ==
    ASSUME NEW T, NEW s \in Seq(T), NEW e \in T
    PROVE  /\ Append(s, e) \in Seq(T) /\ Len(Append(s, e)) = Len(s) + 1
           /\ \A i \in 1 .. Len(s) : Append(s, e)[i] = s[i]
           /\ Append(s, e)[Len(s) + 1] = e
           /\ ToSet(Append(s, e)) = ToSet(s) \cup {e}
           /\ IsInjective(s) /\ e \notin ToSet(s) => IsInjective(Append(s, e))
  <1> DEFINE se == Append(s, e)
  <1>1. /\ se \in Seq(T) /\ Len(se) = Len(s) + 1 /\ Len(s) \in Nat
        /\ \A i \in 1 .. Len(s) : se[i] = s[i]
        /\ se[Len(s) + 1] = e
    BY AppendProperties
  <1>. HIDE DEF se
  <1>2. DOMAIN s = 1 .. Len(s) /\ DOMAIN se = 1 .. Len(s) + 1
    BY <1>1
  <1>3. ToSet(se) = ToSet(s) \cup {e}
    <2>1. \A i \in DOMAIN se : i \in DOMAIN s \/ i = Len(s) + 1
      BY <1>1, <1>2
    <2>2. Len(s) + 1 \in DOMAIN se /\ DOMAIN s \subseteq DOMAIN se
      BY <1>1, <1>2
    <2>. QED  BY <1>1, <1>2, <2>1, <2>2 DEF ToSet
  <1>4. ASSUME IsInjective(s), e \notin ToSet(s),
               NEW i \in DOMAIN se, NEW j \in DOMAIN se, se[i] = se[j]
        PROVE  i = j
    <2>1. \A k \in DOMAIN se : (k \in DOMAIN s /\ se[k] = s[k] /\ s[k] \in ToSet(s)) \/ k = Len(s) + 1
      BY <1>1, <1>2 DEF ToSet
    <2>. QED  BY <1>1, <1>4, <2>1 DEF IsInjective
  <1>. QED  BY <1>1, <1>3, <1>4 DEF IsInjective, se

LEMMA RemoveAtFacts ==
    ASSUME NEW T, NEW list \in Seq(T), NEW at \in DOMAIN list
    PROVE  /\ RemoveAt(list, at) \in Seq(T)
           /\ Len(RemoveAt(list, at)) = Len(list) - 1
           /\ \A k \in 1 .. Len(list) - 1 :
                 RemoveAt(list, at)[k] = IF k < at THEN list[k] ELSE list[k + 1]
  <1> DEFINE before == SubSeq(list, 1, at - 1)
             after  == SubSeq(list, at + 1, Len(list))
  <1>1. at \in 1 .. Len(list) /\ Len(list) \in Nat /\ \A i \in 1 .. Len(list) : list[i] \in T
    OBVIOUS
  <1>2. /\ before \in Seq(T) /\ Len(before) = at - 1
        /\ \A i \in 1 .. at - 1 : before[i] = list[i]
    <2>1. 1 \in Int /\ at - 1 \in Int /\ \A i \in 1 .. at - 1 : list[i] \in T
      BY <1>1
    <2>2. /\ before \in Seq(T) /\ Len(before) = IF 1 <= at - 1 THEN at - 1 - 1 + 1 ELSE 0
          /\ \A i \in 1 .. at - 1 - 1 + 1 : before[i] = list[1 + i - 1]
      BY <2>1, SubSeqProperties
    <2>3. at - 1 - 1 + 1 = at - 1 /\ \A i \in 1 .. at - 1 : 1 + i - 1 = i
      BY <1>1
    <2>. HIDE DEF before
    <2>. QED  BY <1>1, <2>2, <2>3
  <1>3. /\ after \in Seq(T) /\ Len(after) = Len(list) - at
        /\ \A i \in 1 .. Len(list) - at : after[i] = list[at + i]
    <2>1. at + 1 \in Int /\ Len(list) \in Int /\ \A i \in at + 1 .. Len(list) : list[i] \in T
      BY <1>1
    <2>2. /\ after \in Seq(T)
          /\ Len(after) = IF at + 1 <= Len(list) THEN Len(list) - (at + 1) + 1 ELSE 0
          /\ \A i \in 1 .. Len(list) - (at + 1) + 1 : after[i] = list[at + 1 + i - 1]
      BY <2>1, SubSeqProperties
    <2>3. Len(list) - (at + 1) + 1 = Len(list) - at /\ \A i \in 1 .. Len(list) - at : at + 1 + i - 1 = at + i
      BY <1>1
    <2>. HIDE DEF after
    <2>. QED  BY <1>1, <2>2, <2>3
  <1>4. /\ before \o after \in Seq(T) /\ Len(before \o after) = Len(before) + Len(after)
        /\ \A i \in 1 .. Len(before) + Len(after) :
              (before \o after)[i] = IF i <= Len(before) THEN before[i] ELSE after[i - Len(before)]
    BY <1>2, <1>3, ConcatProperties
  <1>5. RemoveAt(list, at) = before \o after
    BY DEF RemoveAt
  <1>. HIDE DEF before, after
  <1>6. Len(before) + Len(after) = Len(list) - 1
    BY <1>1, <1>2, <1>3
  <1>7. ASSUME NEW k \in 1 .. Len(list) - 1
        PROVE  (before \o after)[k] = IF k < at THEN list[k] ELSE list[k + 1]
    <2>1. CASE k < at
      BY <1>1, <1>2, <1>4, <1>6, <2>1
    <2>2. CASE ~(k < at)
      <3>1. k - Len(before) \in 1 .. Len(list) - at /\ at + (k - Len(before)) = k + 1 /\ ~(k <= Len(before))
        BY <1>1, <1>2, <2>2
      <3>. QED  BY <1>3, <1>4, <1>6, <2>2, <3>1
    <2>. QED  BY <2>1, <2>2
  <1>. QED  BY <1>4, <1>5, <1>6, <1>7

\* A list with an item put in.
Inserted(more, list, at, e) ==
    /\ Len(more) = Len(list) + 1
    /\ \A k \in 1 .. Len(list) + 1 :
          more[k] = IF k < at THEN list[k] ELSE IF k = at THEN e ELSE list[k - 1]

LEMMA InsertAtFacts ==
    ASSUME NEW T, NEW list \in Seq(T), NEW at \in 1 .. Len(list) + 1, NEW e \in T
    PROVE  InsertAt(list, at, e) \in Seq(T) /\ Inserted(InsertAt(list, at, e), list, at, e)
  <1> DEFINE before == SubSeq(list, 1, at - 1)
             after  == SubSeq(list, at, Len(list))
             upto   == Append(before, e)
  <1>1. at \in 1 .. Len(list) + 1 /\ Len(list) \in Nat /\ \A i \in 1 .. Len(list) : list[i] \in T
    OBVIOUS
  <1>2. /\ before \in Seq(T) /\ Len(before) = at - 1
        /\ \A i \in 1 .. at - 1 : before[i] = list[i]
    <2>1. 1 \in Int /\ at - 1 \in Int /\ \A i \in 1 .. at - 1 : list[i] \in T
      BY <1>1
    <2>2. /\ before \in Seq(T) /\ Len(before) = IF 1 <= at - 1 THEN at - 1 - 1 + 1 ELSE 0
          /\ \A i \in 1 .. at - 1 - 1 + 1 : before[i] = list[1 + i - 1]
      BY <2>1, SubSeqProperties
    <2>3. at - 1 - 1 + 1 = at - 1 /\ \A i \in 1 .. at - 1 : 1 + i - 1 = i
      BY <1>1
    <2>. HIDE DEF before
    <2>. QED  BY <1>1, <2>2, <2>3
  <1>3. /\ after \in Seq(T) /\ Len(after) = Len(list) - at + 1
        /\ \A i \in 1 .. Len(list) - at + 1 : after[i] = list[at + i - 1]
    <2>1. at \in Int /\ Len(list) \in Int /\ \A i \in at .. Len(list) : list[i] \in T
      BY <1>1
    <2>2. /\ after \in Seq(T)
          /\ Len(after) = IF at <= Len(list) THEN Len(list) - at + 1 ELSE 0
          /\ \A i \in 1 .. Len(list) - at + 1 : after[i] = list[at + i - 1]
      BY <2>1, SubSeqProperties
    <2>. HIDE DEF after
    <2>. QED  BY <1>1, <2>2
  <1>4. /\ upto \in Seq(T) /\ Len(upto) = Len(before) + 1
        /\ \A i \in 1 .. Len(before) : upto[i] = before[i]
        /\ upto[Len(before) + 1] = e
    BY <1>2, AppendFacts
  <1>5. InsertAt(list, at, e) = upto \o after
    <2>1. upto = before \o <<e>>
      BY <1>2, AppendIsConcat
    <2>. QED  BY <2>1 DEF InsertAt
  <1>. HIDE DEF before, after, upto
  <1>6. /\ upto \o after \in Seq(T) /\ Len(upto \o after) = Len(upto) + Len(after)
        /\ \A i \in 1 .. Len(upto) + Len(after) :
              (upto \o after)[i] = IF i <= Len(upto) THEN upto[i] ELSE after[i - Len(upto)]
    BY <1>3, <1>4, ConcatProperties
  <1>7. Len(upto) = at /\ Len(upto) + Len(after) = Len(list) + 1
    BY <1>1, <1>2, <1>3, <1>4
  <1>8. ASSUME NEW k \in 1 .. Len(list) + 1
        PROVE  (upto \o after)[k] = IF k < at THEN list[k] ELSE IF k = at THEN e ELSE list[k - 1]
    <2>1. CASE k < at
      <3>1. k \in 1 .. at - 1 /\ k <= Len(upto) /\ k \in 1 .. Len(before)
        BY <1>1, <1>2, <1>7, <2>1
      <3>. QED  BY <1>2, <1>4, <1>6, <1>7, <2>1, <3>1
    <2>2. CASE k = at
      BY <1>1, <1>2, <1>4, <1>6, <1>7, <2>2
    <2>3. CASE k > at
      <3>1. k - at \in 1 .. Len(list) - at + 1 /\ at + (k - at) - 1 = k - 1 /\ ~(k <= at)
        BY <1>1, <2>3
      <3>2. (upto \o after)[k] = after[k - at]
        BY <1>6, <1>7, <3>1
      <3>3. after[k - at] = list[k - 1]
        BY <1>3, <3>1
      <3>. QED  BY <1>1, <2>3, <3>2, <3>3
    <2>4. k < at \/ k = at \/ k > at
      BY <1>1
    <2>. QED  BY <2>1, <2>2, <2>3, <2>4
  <1>9. InsertAt(list, at, e) \in Seq(T) /\ Len(InsertAt(list, at, e)) = Len(list) + 1
    BY <1>5, <1>6, <1>7
  <1>. QED  BY <1>5, <1>8, <1>9 DEF Inserted

-----------------------------------------------------------------------------
(* The first of each. *)

OnceStep(list, T) ==
    [n \in 1 .. Len(list) |->
        [out \in Seq(T) |-> IF Contains(out, list[n]) THEN out ELSE Append(out, list[n])]]

LEMMA OnceSoFar ==
    ASSUME NEW T, NEW list \in Seq(T)
    PROVE  \E f : /\ Once(list) = f[Len(list)] /\ f[0] = <<>>
                  /\ \A n \in 1 .. Len(list) :
                        f[n] = IF Contains(f[n - 1], list[n]) THEN f[n - 1]
                               ELSE Append(f[n - 1], list[n])
  <1> DEFINE Is(f) == f = [n \in 0 .. Len(list) |->
                              IF n = 0 THEN <<>>
                              ELSE IF Contains(f[n - 1], list[n]) THEN f[n - 1]
                              ELSE Append(f[n - 1], list[n])]
  <1>1. Len(list) \in Nat /\ \A n \in 1 .. Len(list) : list[n] \in T
    OBVIOUS
  <1>2. \A n \in 1 .. Len(list) : \A out \in Seq(T) :
           /\ OnceStep(list, T)[n][out]
                = IF Contains(out, list[n]) THEN out ELSE Append(out, list[n])
           /\ OnceStep(list, T)[n][out] \in Seq(T)
    BY <1>1 DEF OnceStep
  <1>3. PICK f \in [0 .. Len(list) -> Seq(T)] :
                Unfolds(f, <<>>, OnceStep(list, T), Len(list))
    <2>1. <<>> \in Seq(T)
      OBVIOUS
    <2>. QED  BY <1>1, <1>2, <2>1, Recursion
  <1>4. Is(f)
    <2>1. \A n \in 0 .. Len(list) : n = 0 \/ (n \in 1 .. Len(list) /\ n - 1 \in 0 .. Len(list))
      BY <1>1
    <2>2. \A n \in 0 .. Len(list) :
             f[n] = IF n = 0 THEN <<>>
                    ELSE IF Contains(f[n - 1], list[n]) THEN f[n - 1]
                    ELSE Append(f[n - 1], list[n])
      BY <1>2, <1>3, <2>1 DEF Unfolds
    <2>3. f = [n \in 0 .. Len(list) |-> f[n]]
      BY <1>3
    <2>. QED  BY <2>2, <2>3
  <1> DEFINE g == CHOOSE f_1 : Is(f_1)
  <1>5. Is(g)
    BY <1>4
  <1>6. Once(list) = g[Len(list)]
    BY DEF Once
  <1>. HIDE DEF g
  <1>7. g[0] = <<>>
    BY <1>1, <1>5
  <1>8. ASSUME NEW n \in 1 .. Len(list)
        PROVE  g[n] = IF Contains(g[n - 1], list[n]) THEN g[n - 1] ELSE Append(g[n - 1], list[n])
    <2>1. n \in 0 .. Len(list) /\ n # 0
      BY <1>1
    <2>. QED  BY <1>5, <2>1
  <1>. QED  BY <1>6, <1>7, <1>8

\* Everything in the list is returned, and once.
LEMMA OnceFacts ==
    ASSUME NEW T, NEW list \in Seq(T)
    PROVE  /\ Once(list) \in Seq(T)
           /\ ToSet(Once(list)) = ToSet(list)
           /\ IsInjective(Once(list))
  <1>1. Len(list) \in Nat /\ DOMAIN list = 1 .. Len(list) /\ \A n \in 1 .. Len(list) : list[n] \in T
    OBVIOUS
  <1>2. PICK f : /\ Once(list) = f[Len(list)] /\ f[0] = <<>>
                 /\ \A n \in 1 .. Len(list) :
                       f[n] = IF Contains(f[n - 1], list[n]) THEN f[n - 1]
                              ELSE Append(f[n - 1], list[n])
    BY OnceSoFar
  <1> DEFINE Sound(n) == /\ f[n] \in Seq(T) /\ IsInjective(f[n])
                         /\ ToSet(f[n]) = {list[i] : i \in 1 .. n}
             S == {n \in 0 .. Len(list) : Sound(n)}
  <1>3. 0 \in S
    <2>1. <<>> \in Seq(T) /\ IsInjective(<<>>) /\ ToSet(<<>>) = {list[i] : i \in 1 .. 0}
      BY DEF IsInjective, ToSet
    <2>2. 0 \in 0 .. Len(list)
      BY <1>1
    <2>3. Sound(0)
      BY <1>2, <2>1
    <2>. QED  BY <2>2, <2>3
  <1>4. ASSUME NEW n \in 1 .. Len(list), n - 1 \in S PROVE n \in S
    <2>1. n \in 0 .. Len(list) /\ list[n] \in T /\ Sound(n - 1)
      BY <1>1, <1>4
    <2>2. 1 .. n = (1 .. (n - 1)) \cup {n}
      BY <1>1
    <2>3. {list[i] : i \in 1 .. n} = {list[i] : i \in 1 .. (n - 1)} \cup {list[n]}
      BY <2>2
    <2>4. Contains(f[n - 1], list[n]) <=> list[n] \in ToSet(f[n - 1])
      BY <2>1 DEF Contains, ToSet
    <2>5. CASE Contains(f[n - 1], list[n])
      <3>1. f[n] = f[n - 1]
        BY <1>2, <2>5
      <3>. QED  BY <2>1, <2>3, <2>4, <2>5, <3>1
    <2>6. CASE ~Contains(f[n - 1], list[n])
      <3>1. f[n] = Append(f[n - 1], list[n])
        BY <1>2, <2>6
      <3>2. /\ Append(f[n - 1], list[n]) \in Seq(T)
            /\ ToSet(Append(f[n - 1], list[n])) = ToSet(f[n - 1]) \cup {list[n]}
            /\ IsInjective(Append(f[n - 1], list[n]))
        BY <2>1, <2>4, <2>6, AppendFacts
      <3>. QED  BY <2>1, <2>3, <3>1, <3>2
    <2>. QED  BY <2>5, <2>6
  <1>. HIDE DEF S
  <1>5. \A n \in 0 .. Len(list) : n \in S
    BY <1>1, <1>3, <1>4, InductionTo
  <1>6. Len(list) \in S
    BY <1>1, <1>5
  <1>7. ToSet(list) = {list[i] : i \in 1 .. Len(list)}
    BY <1>1 DEF ToSet
  <1>. QED  BY <1>2, <1>6, <1>7 DEF S

-----------------------------------------------------------------------------
(* Part of a list. *)

\* p[k] is where in `whole` the k-th of `part` stands.
Picks(part, whole, p) ==
    /\ p \in [1 .. Len(part) -> 1 .. Len(whole)]
    /\ \A k, m \in 1 .. Len(part) : k < m => p[k] < p[m]
    /\ \A k \in 1 .. Len(part) : part[k] = whole[p[k]]

Subsequence(part, whole) == \E p : Picks(part, whole, p)

\* Nothing stands further back in a part than in the whole.
LEMMA PartIsAhead ==
    ASSUME NEW T, NEW part \in Seq(T), NEW whole \in Seq(T), Subsequence(part, whole),
           NEW k \in 1 .. Len(part)
    PROVE  \E m \in 1 .. Len(whole) : k <= m /\ whole[m] = part[k]
  <1>1. PICK p : Picks(part, whole, p)
    BY DEF Subsequence
  <1>2. Len(part) \in Nat /\ Len(whole) \in Nat
    OBVIOUS
  <1>3. \A n \in 1 .. Len(part) : p[n] \in 1 .. Len(whole)
    BY <1>1 DEF Picks
  <1> DEFINE S == {n \in 0 .. Len(part) : n # 0 => n <= p[n]}
  <1>4. 0 \in S
    BY <1>2
  <1>5. ASSUME NEW n \in 1 .. Len(part), n - 1 \in S PROVE n \in S
    <2>1. n \in 0 .. Len(part) /\ p[n] \in 1 .. Len(whole)
      BY <1>2, <1>3
    <2>2. CASE n = 1
      BY <2>1, <2>2
    <2>3. CASE n # 1
      <3>1. n - 1 \in 1 .. Len(part) /\ n - 1 < n /\ n - 1 # 0
        BY <2>3
      <3>2. n - 1 <= p[n - 1] /\ p[n - 1] < p[n] /\ p[n - 1] \in Nat /\ p[n] \in Nat
        BY <1>1, <1>3, <1>5, <2>1, <3>1 DEF Picks
      <3>. QED  BY <2>1, <3>2
    <2>. QED  BY <2>2, <2>3
  <1>. HIDE DEF S
  <1>6. \A n \in 0 .. Len(part) : n \in S
    BY <1>2, <1>4, <1>5, InductionTo
  <1>7. k \in 0 .. Len(part) /\ k # 0
    BY <1>2
  <1>8. k <= p[k]
    BY <1>6, <1>7 DEF S
  <1>. QED  BY <1>1, <1>3, <1>8 DEF Picks

LEMMA KeptOfPart ==
    ASSUME NEW T, NEW part \in Seq(T), NEW whole \in Seq(T), Subsequence(part, whole), NEW set
    PROVE  Subsequence(Kept(part, set), Kept(whole, set))
  <1>1. PICK s : Picks(part, whole, s)
    BY DEF Subsequence
  <1>2. PICK p : Places(Kept(part, set), part, set, Len(part), p)
    BY KeptPlaces
  <1>3. PICK q : Places(Kept(whole, set), whole, set, Len(whole), q)
    BY KeptPlaces
  <1> DEFINE a == Kept(part, set)
             b == Kept(whole, set)
  <1>4. a \in Seq(T) /\ b \in Seq(T)
    BY KeptPlaces
  <1>. HIDE DEF a, b
  <1>5. Len(a) \in Nat /\ Len(b) \in Nat
    BY <1>4
  <1>6. \A k \in 1 .. Len(a) : /\ p[k] \in 1 .. Len(part) /\ a[k] = part[p[k]]
                               /\ part[p[k]] \in set
    BY <1>2 DEF Places, a
  <1>7. \A i \in 1 .. Len(part) : s[i] \in 1 .. Len(whole) /\ part[i] = whole[s[i]]
    BY <1>1 DEF Picks
  <1>8. \A k \in 1 .. Len(b) : q[k] \in 1 .. Len(whole) /\ b[k] = whole[q[k]]
    BY <1>3 DEF Places, b
  <1>9. \A k \in 1 .. Len(a) : \E m \in 1 .. Len(b) : q[m] = s[p[k]]
    BY <1>3, <1>6, <1>7 DEF Places, b
  <1> DEFINE r == [k \in 1 .. Len(a) |-> CHOOSE m \in 1 .. Len(b) : q[m] = s[p[k]]]
  <1>10. \A k \in 1 .. Len(a) : r[k] \in 1 .. Len(b) /\ q[r[k]] = s[p[k]]
    BY <1>9
  <1>11. r \in [1 .. Len(a) -> 1 .. Len(b)]
    BY <1>10
  <1>. HIDE DEF r
  <1>12. ASSUME NEW k \in 1 .. Len(a), NEW m \in 1 .. Len(a), k < m PROVE r[k] < r[m]
    <2>1. p[k] < p[m]
      BY <1>2, <1>12 DEF Places, a
    <2>2. s[p[k]] < s[p[m]]
      BY <1>1, <1>6, <2>1 DEF Picks
    <2>3. q[r[k]] < q[r[m]] /\ q[r[k]] \in 1 .. Len(whole) /\ q[r[m]] \in 1 .. Len(whole)
      BY <1>8, <1>10, <2>2
    <2>4. r[k] # r[m]
      BY <2>3
    <2>5. ~(r[m] < r[k])
      <3>. SUFFICES ASSUME r[m] < r[k] PROVE FALSE
        OBVIOUS
      <3>1. q[r[m]] < q[r[k]]
        BY <1>3, <1>10 DEF Places, b
      <3>. QED  BY <2>3, <3>1
    <2>6. r[k] \in Int /\ r[m] \in Int
      BY <1>10
    <2>. QED  BY <2>4, <2>5, <2>6
  <1>13. ASSUME NEW k \in 1 .. Len(a) PROVE a[k] = b[r[k]]
    <2>1. a[k] = whole[s[p[k]]]
      BY <1>6, <1>7
    <2>2. b[r[k]] = whole[q[r[k]]]
      BY <1>8, <1>10
    <2>. QED  BY <1>10, <2>1, <2>2
  <1>14. Picks(a, b, r)
    BY <1>11, <1>12, <1>13 DEF Picks
  <1>. QED  BY <1>14 DEF Subsequence, a, b

LEMMA RemovalIsPart ==
    ASSUME NEW T, NEW list \in Seq(T), NEW at \in DOMAIN list
    PROVE  Subsequence(RemoveAt(list, at), list)
  <1> DEFINE less == RemoveAt(list, at)
             p    == [k \in 1 .. Len(list) - 1 |-> IF k < at THEN k ELSE k + 1]
  <1>1. at \in 1 .. Len(list) /\ Len(list) \in Nat
    OBVIOUS
  <1>2. /\ Len(less) = Len(list) - 1
        /\ \A k \in 1 .. Len(list) - 1 : less[k] = IF k < at THEN list[k] ELSE list[k + 1]
    BY RemoveAtFacts
  <1>. HIDE DEF less
  <1>3. p \in [1 .. Len(less) -> 1 .. Len(list)]
    <2>1. \A k \in 1 .. Len(list) - 1 : k \in 1 .. Len(list) /\ k + 1 \in 1 .. Len(list)
      BY <1>1
    <2>. QED  BY <1>2, <2>1
  <1>4. \A k, m \in 1 .. Len(less) : k < m => p[k] < p[m]
    BY <1>1, <1>2
  <1>5. \A k \in 1 .. Len(less) : less[k] = list[p[k]]
    BY <1>2
  <1>. HIDE DEF p
  <1>6. Picks(less, list, p)
    BY <1>3, <1>4, <1>5 DEF Picks
  <1>. QED  BY <1>6 DEF Subsequence, less

LEMMA PartOfInsertion ==
    ASSUME NEW T, NEW list \in Seq(T), NEW at \in 1 .. Len(list) + 1, NEW e \in T
    PROVE  Subsequence(list, InsertAt(list, at, e))
  <1> DEFINE more == InsertAt(list, at, e)
             p    == [k \in 1 .. Len(list) |-> IF k < at THEN k ELSE k + 1]
  <1>1. at \in 1 .. Len(list) + 1 /\ Len(list) \in Nat
    OBVIOUS
  <1>2. /\ Len(more) = Len(list) + 1
        /\ \A k \in 1 .. Len(list) + 1 :
              more[k] = IF k < at THEN list[k] ELSE IF k = at THEN e ELSE list[k - 1]
    <2>1. Inserted(more, list, at, e)
      BY InsertAtFacts
    <2>. HIDE DEF more
    <2>. QED  BY <2>1 DEF Inserted
  <1>. HIDE DEF more
  <1>3. p \in [1 .. Len(list) -> 1 .. Len(more)]
    <2>1. \A k \in 1 .. Len(list) : k \in 1 .. Len(list) + 1 /\ k + 1 \in 1 .. Len(list) + 1
      BY <1>1
    <2>. QED  BY <1>2, <2>1
  <1>4. \A k, m \in 1 .. Len(list) : k < m => p[k] < p[m]
    BY <1>1, <1>2
  <1>5. ASSUME NEW k \in 1 .. Len(list) PROVE list[k] = more[p[k]]
    <2>1. CASE k < at
      <3>1. k \in 1 .. Len(list) + 1 /\ p[k] = k
        BY <1>1, <2>1
      <3>. QED  BY <1>2, <2>1, <3>1
    <2>2. CASE ~(k < at)
      <3>1. k + 1 \in 1 .. Len(list) + 1 /\ p[k] = k + 1 /\ ~(k + 1 < at) /\ k + 1 # at /\ (k + 1) - 1 = k
        BY <1>1, <2>2
      <3>. QED  BY <1>2, <3>1
    <2>. QED  BY <2>1, <2>2
  <1>. HIDE DEF p
  <1>6. Picks(list, more, p)
    BY <1>3, <1>4, <1>5 DEF Picks
  <1>. QED  BY <1>6 DEF Subsequence, more

\* An item taken out, or put in, that the list does not have twice.
LEMMA RemovalOnce ==
    ASSUME NEW T, NEW list \in Seq(T), NEW at \in DOMAIN list, IsInjective(list)
    PROVE  /\ IsInjective(RemoveAt(list, at))
           /\ ToSet(RemoveAt(list, at)) = ToSet(list) \ {list[at]}
  <1> DEFINE less == RemoveAt(list, at)
  <1>1. /\ less \in Seq(T) /\ Len(less) = Len(list) - 1
        /\ \A k \in 1 .. Len(list) - 1 : less[k] = IF k < at THEN list[k] ELSE list[k + 1]
    BY RemoveAtFacts
  <1>. HIDE DEF less
  <1>2. at \in 1 .. Len(list) /\ Len(list) \in Nat /\ DOMAIN list = 1 .. Len(list)
        /\ DOMAIN less = 1 .. Len(list) - 1
    BY <1>1
  <1> DEFINE from(k) == IF k < at THEN k ELSE k + 1
  <1>3. \A k \in DOMAIN less : from(k) \in DOMAIN list /\ less[k] = list[from(k)] /\ from(k) # at
    BY <1>1, <1>2
  <1>4. \A k, m \in DOMAIN less : from(k) = from(m) => k = m
    BY <1>2
  <1>5. \A i \in DOMAIN list : i # at => \E k \in DOMAIN less : from(k) = i
    <2>. SUFFICES ASSUME NEW i \in DOMAIN list, i # at PROVE \E k \in DOMAIN less : from(k) = i
      OBVIOUS
    <2>1. CASE i < at
      <3>1. i \in DOMAIN less /\ from(i) = i
        BY <1>2, <2>1
      <3>. QED  BY <3>1
    <2>2. CASE ~(i < at)
      <3>1. i - 1 \in DOMAIN less /\ from(i - 1) = i
        BY <1>2, <2>2
      <3>. QED  BY <3>1
    <2>. QED  BY <2>1, <2>2
  <1>. HIDE DEF from
  <1>6. \A k, m \in DOMAIN less : less[k] = less[m] => k = m
    BY <1>3, <1>4 DEF IsInjective
  <1>7. ToSet(less) = ToSet(list) \ {list[at]}
    <2>1. \A k \in DOMAIN less : less[k] \in ToSet(list) /\ less[k] # list[at]
      BY <1>3 DEF IsInjective, ToSet
    <2>2. \A i \in DOMAIN list : list[i] # list[at] => \E k \in DOMAIN less : less[k] = list[i]
      BY <1>3, <1>5
    <2>. QED  BY <2>1, <2>2 DEF ToSet
  <1>. QED  BY <1>6, <1>7 DEF IsInjective, less

LEMMA InsertionOnce ==
    ASSUME NEW T, NEW list \in Seq(T), NEW at \in 1 .. Len(list) + 1, NEW e \in T,
           IsInjective(list), e \notin ToSet(list)
    PROVE  /\ IsInjective(InsertAt(list, at, e))
           /\ ToSet(InsertAt(list, at, e)) = ToSet(list) \cup {e}
  <1> DEFINE more == InsertAt(list, at, e)
  <1>1. /\ more \in Seq(T) /\ Len(more) = Len(list) + 1
        /\ \A k \in 1 .. Len(list) + 1 :
              more[k] = IF k < at THEN list[k] ELSE IF k = at THEN e ELSE list[k - 1]
    <2>1. more \in Seq(T) /\ Inserted(more, list, at, e)
      BY InsertAtFacts
    <2>. HIDE DEF more
    <2>. QED  BY <2>1 DEF Inserted
  <1>. HIDE DEF more
  <1>2. at \in 1 .. Len(list) + 1 /\ Len(list) \in Nat /\ DOMAIN list = 1 .. Len(list)
        /\ DOMAIN more = 1 .. Len(list) + 1
    BY <1>1
  <1> DEFINE from(k) == IF k < at THEN k ELSE k - 1
  <1>3. \A k \in DOMAIN more : k # at => from(k) \in DOMAIN list /\ more[k] = list[from(k)]
    BY <1>1, <1>2
  <1>4. \A k, m \in DOMAIN more : k # at /\ m # at /\ from(k) = from(m) => k = m
    BY <1>2
  <1>5. \A i \in DOMAIN list : \E k \in DOMAIN more : k # at /\ from(k) = i
    <2>. SUFFICES ASSUME NEW i \in DOMAIN list PROVE \E k \in DOMAIN more : k # at /\ from(k) = i
      OBVIOUS
    <2>1. CASE i < at
      <3>1. i \in DOMAIN more /\ from(i) = i /\ i # at
        BY <1>2, <2>1
      <3>. QED  BY <3>1
    <2>2. CASE ~(i < at)
      <3>1. i + 1 \in DOMAIN more /\ from(i + 1) = i /\ i + 1 # at
        BY <1>2, <2>2
      <3>. QED  BY <3>1
    <2>. QED  BY <2>1, <2>2
  <1>6. more[at] = e /\ at \in DOMAIN more
    BY <1>1, <1>2
  <1>. HIDE DEF from
  <1>7. \A k \in DOMAIN more : k # at => more[k] \in ToSet(list) /\ more[k] # e
    BY <1>3 DEF ToSet
  <1>8. ASSUME NEW k \in DOMAIN more, NEW m \in DOMAIN more, more[k] = more[m] PROVE k = m
    <2>1. CASE k # at /\ m # at
      BY <1>3, <1>4, <1>8, <2>1 DEF IsInjective
    <2>. QED  BY <1>6, <1>7, <1>8, <2>1
  <1>9. ToSet(more) = ToSet(list) \cup {e}
    <2>1. \A i \in DOMAIN list : \E k \in DOMAIN more : more[k] = list[i]
      BY <1>3, <1>5
    <2>. QED  BY <1>6, <1>7, <2>1 DEF ToSet
  <1>. QED  BY <1>8, <1>9 DEF IsInjective, more

-----------------------------------------------------------------------------
(* The recursive functions of Query, and what each step of theirs does.    *)

\* A round of the reading of a text, and the rounds so far.
SaysStep(text, true, parts) ==
    [lo \in DOMAIN text |-> [hi \in DOMAIN text |-> SaysFrom(text, true, parts, lo, hi)]]

NoParts(text) == [lo \in DOMAIN text |-> [hi \in DOMAIN text |-> FALSE]]

SaysTo(says, text, true, last) ==
    says = [n \in 0 .. last |-> IF n = 0 THEN NoParts(text) ELSE SaysStep(text, true, says[n - 1])]

\* The reading of a text goes on for any number of rounds.
LEMMA SaysExists ==
    ASSUME NEW text, NEW true, NEW last \in Nat
    PROVE  \E says : SaysTo(says, text, true, last)
  <1> DEFINE S == {m \in 0 .. last : \E says : SaysTo(says, text, true, m)}
  <1>1. 0 \in S
    <2> DEFINE f == [n \in 0 .. 0 |-> NoParts(text)]
    <2>1. f = [n \in 0 .. 0 |-> IF n = 0 THEN NoParts(text) ELSE SaysStep(text, true, f[n - 1])]
      OBVIOUS
    <2>2. SaysTo(f, text, true, 0)
      BY <2>1 DEF SaysTo
    <2>. QED  BY <2>2
  <1>2. ASSUME NEW m \in 1 .. last, m - 1 \in S PROVE m \in S
    <2>1. PICK f : SaysTo(f, text, true, m - 1)
      BY <1>2
    <2> DEFINE g == [n \in 0 .. m |-> IF n < m THEN f[n] ELSE SaysStep(text, true, f[m - 1])]
               G == [n \in 0 .. m |->
                        IF n = 0 THEN NoParts(text) ELSE SaysStep(text, true, g[n - 1])]
    <2>2. \A n \in 0 .. (m - 1) :
             f[n] = IF n = 0 THEN NoParts(text) ELSE SaysStep(text, true, f[n - 1])
      BY <2>1 DEF SaysTo
    <2>3. \A n \in 0 .. (m - 1) : g[n] = f[n]
      OBVIOUS
    <2>4. g[m] = SaysStep(text, true, f[m - 1]) /\ m # 0 /\ m - 1 \in 0 .. (m - 1)
      OBVIOUS
    <2>5. DOMAIN g = 0 .. m /\ g = [n \in 0 .. m |-> g[n]]
      OBVIOUS
    <2>. HIDE DEF g
    <2>6. ASSUME NEW n \in 0 .. m
          PROVE  g[n] = IF n = 0 THEN NoParts(text) ELSE SaysStep(text, true, g[n - 1])
      <3>1. CASE n = m
        BY <2>3, <2>4, <3>1
      <3>2. CASE n = 0
        <4>1. n \in 0 .. (m - 1)
          BY <3>2
        <4>. QED  BY <2>2, <2>3, <3>2, <4>1
      <3>3. CASE n # m /\ n # 0
        <4>1. n \in 0 .. (m - 1) /\ n - 1 \in 0 .. (m - 1)
          BY <3>3
        <4>. QED  BY <2>2, <2>3, <3>3, <4>1
      <3>. QED  BY <3>1, <3>2, <3>3
    <2>7. SaysTo(g, text, true, m)
      BY <2>5, <2>6 DEF SaysTo
    <2>. QED  BY <2>7
  <1>. HIDE DEF S
  <1>3. last \in S
    BY <1>1, <1>2, InductionTo
  <1>. QED  BY <1>3 DEF S


\* What a text says comes from what shorter and shorter parts of it say.
SaysBy(says, text, true) ==
    /\ Says(text, true) = says[Len(text)][1][Len(text)]
    /\ \A n \in 1 .. Len(text), lo, hi \in DOMAIN text :
          says[n][lo][hi] = SaysFrom(text, true, says[n - 1], lo, hi)

\* There is the function Says is defined by, and its values are the rounds.
LEMMA SaysSteps ==
    ASSUME NEW text, Len(text) \in Nat, NEW true
    PROVE  \E says : SaysBy(says, text, true)
  <1> DEFINE g == CHOOSE says : SaysTo(says, text, true, Len(text))
  <1>1. SaysTo(g, text, true, Len(text))
    BY SaysExists
  <1>2. Says(text, true) = g[Len(text)][1][Len(text)]
    BY DEF Says, SaysTo, SaysStep, NoParts
  <1>. HIDE DEF g
  <1>3. ASSUME NEW n \in 1 .. Len(text), NEW lo \in DOMAIN text, NEW hi \in DOMAIN text
        PROVE  g[n][lo][hi] = SaysFrom(text, true, g[n - 1], lo, hi)
    <2>1. n \in 0 .. Len(text) /\ n # 0
      OBVIOUS
    <2>2. g[n] = SaysStep(text, true, g[n - 1])
      BY <1>1, <2>1 DEF SaysTo
    <2> DEFINE parts == g[n - 1]
    <2>3. g[n] = [lo_1 \in DOMAIN text |->
                    [hi_1 \in DOMAIN text |-> SaysFrom(text, true, parts, lo_1, hi_1)]]
      BY <2>2 DEF SaysStep
    <2>. HIDE DEF parts
    <2>4. g[n][lo] = [hi_1 \in DOMAIN text |-> SaysFrom(text, true, parts, lo, hi_1)]
      BY <2>3
    <2>5. g[n][lo][hi] = SaysFrom(text, true, parts, lo, hi)
      BY <2>4
    <2>. QED  BY <2>5 DEF parts
  <1>4. SaysBy(g, text, true)
    BY <1>2, <1>3 DEF SaysBy
  <1>. QED  BY <1>4

-----------------------------------------------------------------------------
\* A round of the loops of _parse_and and _parse_or.
ChainStep(text, op, operands, had) ==
    LET right == operands[had.at + 1]
    IN  IF KindAt(text, had.at) = Word[op]
        THEN Parsed(Pair(op, had.tree, right.tree), right.at)
        ELSE had

ChainTo(f, text, op, operands, at, last) ==
    f = [n \in 0 .. last |->
            IF n = 0 THEN operands[at] ELSE ChainStep(text, op, operands, f[n - 1])]

\* So do the rounds of the loop of _parse_and and _parse_or.
LEMMA ChainExists ==
    ASSUME NEW text, NEW op, NEW operands, NEW at, NEW last \in Nat
    PROVE  \E f : ChainTo(f, text, op, operands, at, last)
  <1> DEFINE S == {m \in 0 .. last : \E f : ChainTo(f, text, op, operands, at, m)}
  <1>1. 0 \in S
    <2> DEFINE f == [n \in 0 .. 0 |-> operands[at]]
    <2>1. f = [n \in 0 .. 0 |-> IF n = 0 THEN operands[at] ELSE ChainStep(text, op, operands, f[n - 1])]
      OBVIOUS
    <2>2. ChainTo(f, text, op, operands, at, 0)
      BY <2>1 DEF ChainTo
    <2>. QED  BY <2>2
  <1>2. ASSUME NEW m \in 1 .. last, m - 1 \in S PROVE m \in S
    <2>1. PICK f : ChainTo(f, text, op, operands, at, m - 1)
      BY <1>2
    <2> DEFINE g == [n \in 0 .. m |-> IF n < m THEN f[n] ELSE ChainStep(text, op, operands, f[m - 1])]
    <2>2. \A n \in 0 .. (m - 1) : f[n] = IF n = 0 THEN operands[at] ELSE ChainStep(text, op, operands, f[n - 1])
      BY <2>1 DEF ChainTo
    <2>3. \A n \in 0 .. (m - 1) : g[n] = f[n]
      OBVIOUS
    <2>4. g[m] = ChainStep(text, op, operands, f[m - 1]) /\ m # 0 /\ m - 1 \in 0 .. (m - 1)
      OBVIOUS
    <2>5. DOMAIN g = 0 .. m /\ g = [n \in 0 .. m |-> g[n]]
      OBVIOUS
    <2>. HIDE DEF g
    <2>6. ASSUME NEW n \in 0 .. m
          PROVE  g[n] = IF n = 0 THEN operands[at] ELSE ChainStep(text, op, operands, g[n - 1])
      <3>1. CASE n = m
        BY <2>3, <2>4, <3>1
      <3>2. CASE n = 0
        <4>1. n \in 0 .. (m - 1)
          BY <3>2
        <4>. QED  BY <2>2, <2>3, <3>2, <4>1
      <3>3. CASE n # m /\ n # 0
        <4>1. n \in 0 .. (m - 1) /\ n - 1 \in 0 .. (m - 1)
          BY <3>3
        <4>. QED  BY <2>2, <2>3, <3>3, <4>1
      <3>. QED  BY <3>1, <3>2, <3>3
    <2>7. ChainTo(g, text, op, operands, at, m)
      BY <2>5, <2>6 DEF ChainTo
    <2>. QED  BY <2>7
  <1>. HIDE DEF S
  <1>3. last \in S
    BY <1>1, <1>2, InductionTo
  <1>. QED  BY <1>3 DEF S

\* There is the function Chain is defined by.
LEMMA ChainSteps ==
    ASSUME NEW text, Len(text) \in Nat, NEW op, NEW operands, NEW at
    PROVE  \E left :
              /\ Chain(text, op, operands, at) = left[Len(text)]
              /\ left[0] = operands[at]
              /\ \A n \in 1 .. Len(text) :
                    left[n] = ChainStep(text, op, operands, left[n - 1])
  <1> DEFINE g == CHOOSE f : ChainTo(f, text, op, operands, at, Len(text))
  <1>1. ChainTo(g, text, op, operands, at, Len(text))
    BY ChainExists
  <1>2. Chain(text, op, operands, at) = g[Len(text)]
    BY DEF Chain, ChainTo, ChainStep
  <1>. HIDE DEF g
  <1>3. g[0] = operands[at]
    BY <1>1 DEF ChainTo
  <1>4. ASSUME NEW n \in 1 .. Len(text)
        PROVE  g[n] = ChainStep(text, op, operands, g[n - 1])
    <2>1. n \in 0 .. Len(text) /\ n # 0
      OBVIOUS
    <2>. QED  BY <1>1, <2>1 DEF ChainTo
  <1>. QED  BY <1>2, <1>3, <1>4

-----------------------------------------------------------------------------
(* The calls of the parser, nested one deeper each time. *)

ReadsNothing(text) == [not |-> [at \in Positions(text) |-> Nothing],
                       or  |-> [at \in Positions(text) |-> Nothing]]

ParseTo(f, text, last) ==
    f = [n \in 0 .. last |-> IF n = 0 THEN ReadsNothing(text) ELSE Reads(text, f[n - 1])]

\* So do the nested calls of the parser.
LEMMA ParseExists ==
    ASSUME NEW text, NEW last \in Nat
    PROVE  \E f : ParseTo(f, text, last)
  <1> DEFINE S == {m \in 0 .. last : \E f : ParseTo(f, text, m)}
  <1>1. 0 \in S
    <2> DEFINE f == [n \in 0 .. 0 |-> ReadsNothing(text)]
    <2>1. f = [n \in 0 .. 0 |-> IF n = 0 THEN ReadsNothing(text) ELSE Reads(text, f[n - 1])]
      OBVIOUS
    <2>2. ParseTo(f, text, 0)
      BY <2>1 DEF ParseTo
    <2>. QED  BY <2>2
  <1>2. ASSUME NEW m \in 1 .. last, m - 1 \in S PROVE m \in S
    <2>1. PICK f : ParseTo(f, text, m - 1)
      BY <1>2
    <2> DEFINE g == [n \in 0 .. m |-> IF n < m THEN f[n] ELSE Reads(text, f[m - 1])]
    <2>2. \A n \in 0 .. (m - 1) : f[n] = IF n = 0 THEN ReadsNothing(text) ELSE Reads(text, f[n - 1])
      BY <2>1 DEF ParseTo
    <2>3. \A n \in 0 .. (m - 1) : g[n] = f[n]
      OBVIOUS
    <2>4. g[m] = Reads(text, f[m - 1]) /\ m # 0 /\ m - 1 \in 0 .. (m - 1)
      OBVIOUS
    <2>5. DOMAIN g = 0 .. m /\ g = [n \in 0 .. m |-> g[n]]
      OBVIOUS
    <2>. HIDE DEF g
    <2>6. ASSUME NEW n \in 0 .. m
          PROVE  g[n] = IF n = 0 THEN ReadsNothing(text) ELSE Reads(text, g[n - 1])
      <3>1. CASE n = m
        BY <2>3, <2>4, <3>1
      <3>2. CASE n = 0
        <4>1. n \in 0 .. (m - 1)
          BY <3>2
        <4>. QED  BY <2>2, <2>3, <3>2, <4>1
      <3>3. CASE n # m /\ n # 0
        <4>1. n \in 0 .. (m - 1) /\ n - 1 \in 0 .. (m - 1)
          BY <3>3
        <4>. QED  BY <2>2, <2>3, <3>3, <4>1
      <3>. QED  BY <3>1, <3>2, <3>3
    <2>7. ParseTo(g, text, m)
      BY <2>5, <2>6 DEF ParseTo
    <2>. QED  BY <2>7
  <1>. HIDE DEF S
  <1>3. last \in S
    BY <1>1, <1>2, InductionTo
  <1>. QED  BY <1>3 DEF S

\* There is the function Parse is defined by.
LEMMA ParseSteps ==
    ASSUME NEW text, Len(text) \in Nat
    PROVE  \E read :
              /\ Parse(text) = read[Len(text)].or[1]
              /\ read[0] = ReadsNothing(text)
              /\ \A n \in 1 .. Len(text) : read[n] = Reads(text, read[n - 1])
  <1> DEFINE g == CHOOSE f : ParseTo(f, text, Len(text))
  <1>1. ParseTo(g, text, Len(text))
    BY ParseExists
  <1>2. Parse(text) = g[Len(text)].or[1]
    BY DEF Parse, ParseTo, ReadsNothing
  <1>. HIDE DEF g
  <1>3. g[0] = ReadsNothing(text)
    BY <1>1 DEF ParseTo
  <1>4. ASSUME NEW n \in 1 .. Len(text) PROVE g[n] = Reads(text, g[n - 1])
    <2>1. n \in 0 .. Len(text) /\ n # 0
      OBVIOUS
    <2>. QED  BY <1>1, <2>1 DEF ParseTo
  <1>. QED  BY <1>2, <1>3, <1>4

-----------------------------------------------------------------------------
(* How many parentheses are open. *)

\* By how much a token changes that.
Opens(token) == IF token.kind = "(" THEN 1 ELSE IF token.kind = ")" THEN 0 - 1 ELSE 0

NestStep(text) == [n \in 1 .. Len(text) |-> [open \in Int |-> open + Opens(text[n])]]

\* A parenthesis opens, or closes, one.
LEMMA NestingSteps ==
    ASSUME NEW text, Len(text) \in Nat
    PROVE  /\ Nesting(text) \in [0 .. Len(text) -> Int]
           /\ \A n \in 1 .. Len(text) :
                 Nesting(text)[n] = Nesting(text)[n - 1] + Opens(text[n])
  <1> DEFINE Is(f) == f = [n \in 0..Len(text) |->
                              IF n = 0 THEN 0
                              ELSE CASE text[n].kind = "(" -> f[n - 1] + 1
                                     [] text[n].kind = ")" -> f[n - 1] - 1
                                     [] OTHER -> f[n - 1]]
  <1>1. \A n \in 1 .. Len(text) : \A open \in Int :
           /\ NestStep(text)[n][open] = open + Opens(text[n])
           /\ NestStep(text)[n][open] \in Int
    BY DEF NestStep, Opens
  <1>2. PICK f \in [0 .. Len(text) -> Int] : Unfolds(f, 0, NestStep(text), Len(text))
    <2>1. \A n \in 1 .. Len(text) : \A open \in Int : NestStep(text)[n][open] \in Int
      BY <1>1
    <2>2. 0 \in Int
      OBVIOUS
    <2>. QED  BY <2>1, <2>2, Recursion
  <1>3. Is(f)
    <2>1. \A n \in 0 .. Len(text) :
             n = 0 \/ (n \in 1 .. Len(text) /\ n - 1 \in 0 .. Len(text) /\ f[n - 1] \in Int)
      BY <1>2
    <2>2. \A n \in 1 .. Len(text) : f[n] = f[n - 1] + Opens(text[n])
      BY <1>1, <1>2, <2>1, SMTT(30) DEF Unfolds
    <2>3. \A n \in 0 .. Len(text) :
             f[n] = IF n = 0 THEN 0
                    ELSE CASE text[n].kind = "(" -> f[n - 1] + 1
                           [] text[n].kind = ")" -> f[n - 1] - 1
                           [] OTHER -> f[n - 1]
      BY <1>2, <2>1, <2>2 DEF Unfolds, Opens
    <2>4. f = [n \in 0 .. Len(text) |-> f[n]]
      BY <1>2
    <2>. QED  BY <2>3, <2>4
  <1> DEFINE g == CHOOSE f_1 : Is(f_1)
  <1>4. Is(g)
    BY <1>3
  <1>5. Nesting(text) = g
    BY DEF Nesting
  <1>. HIDE DEF g
  <1> DEFINE S == {n \in 0 .. Len(text) : g[n] \in Int}
  <1>6. 0 \in S
    BY <1>4
  <1>7. \A n \in 1 .. Len(text) :
           g[n] = CASE text[n].kind = "(" -> g[n - 1] + 1
                    [] text[n].kind = ")" -> g[n - 1] - 1
                    [] OTHER -> g[n - 1]
    <2>1. \A n \in 1 .. Len(text) : n \in 0 .. Len(text) /\ n # 0
      OBVIOUS
    <2>. QED  BY <1>4, <2>1
  <1>8. ASSUME NEW n \in 1 .. Len(text), n - 1 \in S PROVE n \in S
    BY <1>7, <1>8
  <1>. HIDE DEF S
  <1>9. \A n \in 0 .. Len(text) : n \in S
    BY <1>6, <1>8, InductionTo
  <1>10. \A n \in 0 .. Len(text) : g[n] \in Int
    BY <1>9 DEF S
  <1>11. g \in [0 .. Len(text) -> Int]
    BY <1>4, <1>10
  <1>12. \A n \in 1 .. Len(text) : g[n] = g[n - 1] + Opens(text[n])
    <2>1. \A n \in 1 .. Len(text) : g[n - 1] \in Int
      BY <1>10
    <2>. QED  BY <1>7, <2>1 DEF Opens
  <1>. QED  BY <1>5, <1>11, <1>12

-----------------------------------------------------------------------------
(* The expressions over some atoms, as high as there have been steps: those  *)
(* that hold of something of which `true` are true, and those that do not.   *)

NoneJudged == [yes |-> {}, no |-> {}]

JudgeStep(atoms, true, j) ==
    LET all == j.yes \cup j.no IN
    [yes |-> {Leaf(a) : a \in atoms \cap true}
             \cup {Not(e) : e \in j.no}
             \cup {Pair("and", l, r) : l \in j.yes, r \in j.yes}
             \cup {Pair("or", l, r) : l \in j.yes, r \in all}
             \cup {Pair("or", l, r) : l \in all, r \in j.yes},
     no  |-> {Leaf(a) : a \in atoms \ true}
             \cup {Not(e) : e \in j.yes}
             \cup {Pair("and", l, r) : l \in j.no, r \in all}
             \cup {Pair("and", l, r) : l \in all, r \in j.no}
             \cup {Pair("or", l, r) : l \in j.no, r \in j.no}]

JudgedTo(f, atoms, true, last) ==
    f = [n \in 0 .. last |->
            IF n = 0 THEN NoneJudged ELSE JudgeStep(atoms, true, f[n - 1])]

\* Expressions can be judged to any height.
LEMMA JudgedExists ==
    ASSUME NEW atoms, NEW true, NEW last \in Nat
    PROVE  \E f : JudgedTo(f, atoms, true, last)
  <1> DEFINE S == {m \in 0 .. last : \E f : JudgedTo(f, atoms, true, m)}
  <1>1. 0 \in S
    <2> DEFINE f == [n \in 0 .. 0 |-> NoneJudged]
    <2>1. f = [n \in 0 .. 0 |-> IF n = 0 THEN NoneJudged ELSE JudgeStep(atoms, true, f[n - 1])]
      OBVIOUS
    <2>2. JudgedTo(f, atoms, true, 0)
      BY <2>1 DEF JudgedTo
    <2>. QED  BY <2>2
  <1>2. ASSUME NEW m \in 1 .. last, m - 1 \in S PROVE m \in S
    <2>1. PICK f : JudgedTo(f, atoms, true, m - 1)
      BY <1>2
    <2> DEFINE g == [n \in 0 .. m |-> IF n < m THEN f[n] ELSE JudgeStep(atoms, true, f[m - 1])]
    <2>2. \A n \in 0 .. (m - 1) : f[n] = IF n = 0 THEN NoneJudged ELSE JudgeStep(atoms, true, f[n - 1])
      BY <2>1 DEF JudgedTo
    <2>3. \A n \in 0 .. (m - 1) : g[n] = f[n]
      OBVIOUS
    <2>4. g[m] = JudgeStep(atoms, true, f[m - 1]) /\ m # 0 /\ m - 1 \in 0 .. (m - 1)
      OBVIOUS
    <2>5. DOMAIN g = 0 .. m /\ g = [n \in 0 .. m |-> g[n]]
      OBVIOUS
    <2>. HIDE DEF g
    <2>6. ASSUME NEW n \in 0 .. m
          PROVE  g[n] = IF n = 0 THEN NoneJudged ELSE JudgeStep(atoms, true, g[n - 1])
      <3>1. CASE n = m
        BY <2>3, <2>4, <3>1
      <3>2. CASE n = 0
        <4>1. n \in 0 .. (m - 1)
          BY <3>2
        <4>. QED  BY <2>2, <2>3, <3>2, <4>1
      <3>3. CASE n # m /\ n # 0
        <4>1. n \in 0 .. (m - 1) /\ n - 1 \in 0 .. (m - 1)
          BY <3>3
        <4>. QED  BY <2>2, <2>3, <3>3, <4>1
      <3>. QED  BY <3>1, <3>2, <3>3
    <2>7. JudgedTo(g, atoms, true, m)
      BY <2>5, <2>6 DEF JudgedTo
    <2>. QED  BY <2>7
  <1>. HIDE DEF S
  <1>3. last \in S
    BY <1>1, <1>2, InductionTo
  <1>. QED  BY <1>3 DEF S

\* Why an expression holds, and why it does not, one step before it.
YesBy(e, j, atoms, true) ==
    \/ e.op = "atom" /\ e.atom \in atoms \cap true
    \/ e.op = "not" /\ e.expr \in j.no
    \/ e.op = "and" /\ e.left \in j.yes /\ e.right \in j.yes
    \/ /\ e.op = "or" /\ e.left \in j.yes \cup j.no /\ e.right \in j.yes \cup j.no
       /\ e.left \in j.yes \/ e.right \in j.yes

NoBy(e, j, atoms, true) ==
    \/ e.op = "atom" /\ e.atom \in atoms \ true
    \/ e.op = "not" /\ e.expr \in j.yes
    \/ /\ e.op = "and" /\ e.left \in j.yes \cup j.no /\ e.right \in j.yes \cup j.no
       /\ e.left \in j.no \/ e.right \in j.no
    \/ e.op = "or" /\ e.left \in j.no /\ e.right \in j.no

\* The parts of an expression are told apart.
LEMMA Fields ==
    /\ \A a : Leaf(a).op = "atom" /\ Leaf(a).atom = a
    /\ \A e : Not(e).op = "not" /\ Not(e).expr = e
    /\ \A op, l, r : Pair(op, l, r).op = op /\ Pair(op, l, r).left = l /\ Pair(op, l, r).right = r
  BY DEF Leaf, Not, Pair

\* An expression that holds has a reason one step before.
LEMMA WhyYes ==
    ASSUME NEW atoms, NEW true, NEW j, NEW e \in JudgeStep(atoms, true, j).yes
    PROVE  YesBy(e, j, atoms, true)
  <1> DEFINE all == j.yes \cup j.no
  <1>1. \/ \E a \in atoms \cap true : e = Leaf(a)
        \/ \E x \in j.no : e = Not(x)
        \/ \E l \in j.yes, r \in j.yes : e = Pair("and", l, r)
        \/ \E l \in j.yes, r \in all : e = Pair("or", l, r)
        \/ \E l \in all, r \in j.yes : e = Pair("or", l, r)
    BY DEF JudgeStep
  <1>2. CASE \E a \in atoms \cap true : e = Leaf(a)
    BY <1>2, Fields DEF YesBy
  <1>3. CASE \E x \in j.no : e = Not(x)
    BY <1>3, Fields DEF YesBy
  <1>4. CASE \E l \in j.yes, r \in j.yes : e = Pair("and", l, r)
    BY <1>4, Fields DEF YesBy
  <1>5. CASE \E l \in j.yes, r \in all : e = Pair("or", l, r)
    BY <1>5, Fields DEF YesBy
  <1>6. CASE \E l \in all, r \in j.yes : e = Pair("or", l, r)
    BY <1>6, Fields DEF YesBy
  <1>. QED  BY <1>1, <1>2, <1>3, <1>4, <1>5, <1>6

\* So has one that does not hold.
LEMMA WhyNo ==
    ASSUME NEW atoms, NEW true, NEW j, NEW e \in JudgeStep(atoms, true, j).no
    PROVE  NoBy(e, j, atoms, true)
  <1> DEFINE all == j.yes \cup j.no
  <1>1. \/ \E a \in atoms \ true : e = Leaf(a)
        \/ \E x \in j.yes : e = Not(x)
        \/ \E l \in j.no, r \in all : e = Pair("and", l, r)
        \/ \E l \in all, r \in j.no : e = Pair("and", l, r)
        \/ \E l \in j.no, r \in j.no : e = Pair("or", l, r)
    BY DEF JudgeStep
  <1>2. CASE \E a \in atoms \ true : e = Leaf(a)
    BY <1>2, Fields DEF NoBy
  <1>3. CASE \E x \in j.yes : e = Not(x)
    BY <1>3, Fields DEF NoBy
  <1>4. CASE \E l \in j.no, r \in all : e = Pair("and", l, r)
    BY <1>4, Fields DEF NoBy
  <1>5. CASE \E l \in all, r \in j.no : e = Pair("and", l, r)
    BY <1>5, Fields DEF NoBy
  <1>6. CASE \E l \in j.no, r \in j.no : e = Pair("or", l, r)
    BY <1>6, Fields DEF NoBy
  <1>. QED  BY <1>1, <1>2, <1>3, <1>4, <1>5, <1>6

Apart(j) == j.yes \cap j.no = {}

\* None is judged both ways one step on, if none was before.
LEMMA StaysApart ==
    ASSUME NEW atoms, NEW true, NEW j, Apart(j)
    PROVE  Apart(JudgeStep(atoms, true, j))
  <1>1. ASSUME NEW e, YesBy(e, j, atoms, true), NoBy(e, j, atoms, true) PROVE FALSE
    BY <1>1 DEF YesBy, NoBy, Apart
  <1>. QED  BY <1>1, WhyYes, WhyNo DEF Apart

Grows(j, k) == j.yes \subseteq k.yes /\ j.no \subseteq k.no

\* Of more expressions judged, more are judged one step on.
LEMMA StepGrows ==
    ASSUME NEW atoms, NEW true, NEW j, NEW k, Grows(j, k)
    PROVE  Grows(JudgeStep(atoms, true, j), JudgeStep(atoms, true, k))
  <1>1. j.yes \subseteq k.yes /\ j.no \subseteq k.no /\ j.yes \cup j.no \subseteq k.yes \cup k.no
    BY DEF Grows
  <1>2. JudgeStep(atoms, true, j).yes \subseteq JudgeStep(atoms, true, k).yes
    BY <1>1 DEF JudgeStep
  <1>3. JudgeStep(atoms, true, j).no \subseteq JudgeStep(atoms, true, k).no
    BY <1>1 DEF JudgeStep
  <1>. QED  BY <1>2, <1>3 DEF Grows

\* The expressions judged are judged once, and stay so.
LEMMA JudgedFacts ==
    ASSUME NEW atoms, NEW true, NEW last \in Nat, NEW f, JudgedTo(f, atoms, true, last)
    PROVE  /\ \A n \in 0 .. last : Apart(f[n])
           /\ \A n \in 1 .. last : /\ f[n] = JudgeStep(atoms, true, f[n - 1])
                                   /\ Grows(f[n - 1], f[n])
           /\ f[0] = NoneJudged
  <1>1. f[0] = NoneJudged
    <2>1. 0 \in 0 .. last
      OBVIOUS
    <2>. QED  BY <2>1 DEF JudgedTo
  <1>2. \A n \in 1 .. last : f[n] = JudgeStep(atoms, true, f[n - 1])
    <2>1. \A n \in 1 .. last : n \in 0 .. last /\ n # 0
      OBVIOUS
    <2>. QED  BY <2>1 DEF JudgedTo
  <1> DEFINE S == {n \in 0 .. last : Apart(f[n]) /\ (n > 0 => Grows(f[n - 1], f[n]))}
  <1>3. 0 \in S
    BY <1>1 DEF Apart, NoneJudged
  <1>4. ASSUME NEW n \in 1 .. last, n - 1 \in S PROVE n \in S
    <2>1. Apart(f[n])
      BY <1>2, <1>4, StaysApart
    <2>2. Grows(f[n - 1], f[n])
      <3>1. CASE n = 1
        BY <1>1, <3>1 DEF Grows, NoneJudged
      <3>2. CASE n # 1
        <4>1. n - 1 \in 1 .. last /\ n - 1 > 0 /\ (n - 1) - 1 = n - 2
          BY <3>2
        <4>2. Grows(f[n - 2], f[n - 1])
          BY <1>4, <4>1
        <4>3. f[n - 1] = JudgeStep(atoms, true, f[n - 2])
          BY <1>2, <4>1
        <4>4. f[n] = JudgeStep(atoms, true, f[n - 1])
          BY <1>2
        <4>. QED  BY <4>2, <4>3, <4>4, StepGrows
      <3>. QED  BY <3>1, <3>2
    <2>. QED  BY <2>1, <2>2
  <1>. HIDE DEF S
  <1>5. \A n \in 0 .. last : n \in S
    BY <1>3, <1>4, InductionTo
  <1>. QED  BY <1>1, <1>2, <1>5 DEF S

\* P is a set of expressions with all that is in them, V those of them that
\* hold.
IsValuation(P, V, atoms, true) ==
    \A e \in P :
        \/ e.op = "atom" /\ e.atom \in atoms /\ (e \in V <=> e.atom \in true)
        \/ e.op = "not" /\ e.expr \in P /\ (e \in V <=> e.expr \notin V)
        \/ /\ e.op = "and" /\ e.left \in P /\ e.right \in P
           /\ e \in V <=> e.left \in V /\ e.right \in V
        \/ /\ e.op = "or" /\ e.left \in P /\ e.right \in P
           /\ e \in V <=> e.left \in V \/ e.right \in V

\* What has been judged is a valuation.
LEMMA JudgedIsValuation ==
    ASSUME NEW atoms, NEW true, NEW last \in Nat, NEW f, JudgedTo(f, atoms, true, last)
    PROVE  IsValuation(f[last].yes \cup f[last].no, f[last].yes, atoms, true)
  <1> DEFINE k == f[last]
  <1>1. CASE last = 0
    BY <1>1, JudgedFacts DEF IsValuation, NoneJudged
  <1>2. CASE last # 0
    <2>1. last \in 1 .. last /\ last \in 0 .. last
      BY <1>2
    <2>2. PICK j : j = f[last - 1]
      OBVIOUS
    <2>3. Apart(k) /\ Grows(j, k) /\ k = JudgeStep(atoms, true, j)
      BY <2>1, <2>2, JudgedFacts
    <2>. HIDE DEF k
    <2>4. ASSUME NEW e \in k.yes PROVE YesBy(e, j, atoms, true)
      BY <2>3, <2>4, WhyYes
    <2>5. ASSUME NEW e \in k.no PROVE NoBy(e, j, atoms, true)
      BY <2>3, <2>5, WhyNo
    <2>6. ASSUME NEW e \in k.yes \cup k.no
          PROVE  \/ e.op = "atom" /\ e.atom \in atoms /\ (e \in k.yes <=> e.atom \in true)
                 \/ /\ e.op = "not" /\ e.expr \in k.yes \cup k.no
                    /\ e \in k.yes <=> e.expr \notin k.yes
                 \/ /\ e.op = "and" /\ e.left \in k.yes \cup k.no /\ e.right \in k.yes \cup k.no
                    /\ e \in k.yes <=> e.left \in k.yes /\ e.right \in k.yes
                 \/ /\ e.op = "or" /\ e.left \in k.yes \cup k.no /\ e.right \in k.yes \cup k.no
                    /\ e \in k.yes <=> e.left \in k.yes \/ e.right \in k.yes
      <3>1. j.yes \subseteq k.yes /\ j.no \subseteq k.no /\ \A x \in k.no : x \notin k.yes
        BY <2>3 DEF Apart, Grows
      <3>2. CASE e \in k.yes
        BY <2>4, <3>1, <3>2 DEF YesBy
      <3>3. CASE e \in k.no
        BY <2>5, <3>1, <3>3 DEF NoBy
      <3>. QED  BY <3>2, <3>3
    <2>7. IsValuation(k.yes \cup k.no, k.yes, atoms, true)
      BY <2>6 DEF IsValuation
    <2>. QED  BY <2>7 DEF k
  <1>. QED  BY <1>1, <1>2

\* The expression e is judged, and holds exactly if b does.
Judges(j, e, b) == (b /\ e \in j.yes) \/ (~b /\ e \in j.no)

\* What holds of an atom, a Not, an And and an Or, from their parts.
LEMMA JudgeRules ==
    ASSUME NEW atoms, NEW true, NEW j, NEW k, k = JudgeStep(atoms, true, j)
    PROVE  /\ \A a \in atoms : Judges(k, Leaf(a), a \in true)
           /\ \A e, b : Judges(j, e, b) => Judges(k, Not(e), ~b)
           /\ \A l, r, b, c : Judges(j, l, b) /\ Judges(j, r, c)
                                => /\ Judges(k, Pair("and", l, r), b /\ c)
                                   /\ Judges(k, Pair("or", l, r), b \/ c)
  <1>1. \A a \in atoms : Judges(k, Leaf(a), a \in true)
    BY DEF Judges, JudgeStep
  <1>2. /\ \A e \in j.no : Not(e) \in k.yes
        /\ \A e \in j.yes : Not(e) \in k.no
    BY DEF JudgeStep
  <1>3. /\ \A l \in j.yes, r \in j.yes : Pair("and", l, r) \in k.yes
        /\ \A l \in j.yes, r \in j.yes \cup j.no : Pair("or", l, r) \in k.yes
        /\ \A l \in j.yes \cup j.no, r \in j.yes : Pair("or", l, r) \in k.yes
    BY DEF JudgeStep
  <1>4. /\ \A l \in j.no, r \in j.yes \cup j.no : Pair("and", l, r) \in k.no
        /\ \A l \in j.yes \cup j.no, r \in j.no : Pair("and", l, r) \in k.no
        /\ \A l \in j.no, r \in j.no : Pair("or", l, r) \in k.no
    BY DEF JudgeStep
  <1>5. ASSUME NEW e, NEW b, Judges(j, e, b) PROVE Judges(k, Not(e), ~b)
    BY <1>2, <1>5 DEF Judges
  <1>6. ASSUME NEW l, NEW r, NEW b, NEW c, Judges(j, l, b), Judges(j, r, c)
        PROVE  Judges(k, Pair("and", l, r), b /\ c) /\ Judges(k, Pair("or", l, r), b \/ c)
    BY <1>3, <1>4, <1>6 DEF Judges
  <1>. QED  BY <1>1, <1>5, <1>6

-----------------------------------------------------------------------------
(* What the parser reads is balanced, has no word of a level above its own   *)
(* outside parentheses, and its expression is what its tokens say.           *)

\* A text, its atoms, the rounds of its reading and the expressions judged.
Setting(text, atoms, true, says, f) ==
    /\ Len(text) \in Nat /\ DOMAIN text = 1 .. Len(text)
    /\ \A p \in 1 .. Len(text) : text[p].kind = "atom" => text[p] \in atoms
    /\ \A n \in 1 .. Len(text), lo, hi \in 1 .. Len(text) :
          says[n][lo][hi] = SaysFrom(text, true, says[n - 1], lo, hi)
    /\ \A n \in 1 .. Len(text) :
          f[n] = JudgeStep(atoms, true, f[n - 1]) /\ Grows(f[n - 1], f[n])

\* Parentheses opened between two places are closed between them.
Balanced(text, at, to) ==
    /\ to \in at + 1 .. Len(text) + 1
    /\ Nesting(text)[to - 1] = Nesting(text)[at - 1]
    /\ \A p \in at .. to - 1 : Nesting(text)[p] >= Nesting(text)[at - 1]

\* None of the words is there outside parentheses.
Free(text, words, at, to) ==
    \A p \in at .. to - 1 :
        text[p].kind \in words => Nesting(text)[p] # Nesting(text)[at - 1]

\* The expression is judged as the text between the places says.
Meant(text, says, f, at, to, e) ==
    \A m \in 0 .. Len(text) : m >= to - at => Judges(f[m], e, says[m][at][to - 1])

\* What has been read from one place on, if anything, is read right.
Span(text, says, f, words, at, r) ==
    r.at # Stuck => /\ Balanced(text, at, r.at) /\ Free(text, words, at, r.at)
                    /\ Meant(text, says, f, at, r.at, r.tree)

\* How many are open behind each kind of token.
LEMMA NestingAt ==
    ASSUME NEW text, Len(text) \in Nat
    PROVE  /\ \A p \in 0 .. Len(text) : Nesting(text)[p] \in Int
           /\ \A p \in 1 .. Len(text) :
                 /\ text[p].kind = "(" => Nesting(text)[p] = Nesting(text)[p - 1] + 1
                 /\ text[p].kind = ")" => Nesting(text)[p] = Nesting(text)[p - 1] - 1
                 /\ text[p].kind \notin {"(", ")"} => Nesting(text)[p] = Nesting(text)[p - 1]
  <1>1. \A p \in 0 .. Len(text) : Nesting(text)[p] \in Int
    BY NestingSteps
  <1>2. ASSUME NEW p \in 1 .. Len(text)
        PROVE  /\ text[p].kind = "(" => Nesting(text)[p] = Nesting(text)[p - 1] + 1
               /\ text[p].kind = ")" => Nesting(text)[p] = Nesting(text)[p - 1] - 1
               /\ text[p].kind \notin {"(", ")"} => Nesting(text)[p] = Nesting(text)[p - 1]
    <2>1. Nesting(text)[p] = Nesting(text)[p - 1] + Opens(text[p])
      BY NestingSteps
    <2>2. Nesting(text)[p - 1] \in Int
      BY <1>1
    <2>. QED  BY <2>1, <2>2 DEF Opens
  <1>. QED  BY <1>1, <1>2

\* What is read at one token, or between two.
LEMMA Unsplit ==
    ASSUME NEW text, NEW true, NEW parts, NEW lo, NEW hi,
           \A p \in lo .. hi : text[p].kind \in {"OR", "AND"} => Nesting(text)[p] # Nesting(text)[lo - 1]
    PROVE  SaysFrom(text, true, parts, lo, hi)
              = CASE text[lo].kind = "NOT" -> ~parts[lo + 1][hi]
                  [] text[lo].kind = "(" -> parts[lo + 1][hi - 1]
                  [] OTHER -> text[lo] \in true
  <1>1. SplitsAt(text, lo, hi, "OR") = {} /\ SplitsAt(text, lo, hi, "AND") = {}
    BY DEF SplitsAt
  <1>. QED  BY <1>1 DEF SaysFrom

\* A span of one token has that token only.
LEMMA OneToken ==
    \A n \in Nat : \A at \in 1 .. n : \A p \in at .. (at + 1) - 1 : p = at
  OBVIOUS

\* An atom is read right.
LEMMA AtomSpan ==
    ASSUME NEW text, NEW atoms, NEW true, NEW says, NEW f, Setting(text, atoms, true, says, f),
           NEW at \in 1 .. Len(text), text[at].kind = "atom"
    PROVE  Span(text, says, f, {"OR", "AND"}, at, Parsed(Leaf(text[at]), at + 1))
  <1>1. Len(text) \in Nat /\ text[at] \in atoms
    BY DEF Setting
  <1>2. Nesting(text)[at] = Nesting(text)[at - 1] /\ Nesting(text)[at - 1] \in Int
    BY <1>1, NestingAt
  <1>3. \A p \in at .. (at + 1) - 1 : p = at
    BY <1>1, OneToken, Zenon
  <1>4. Balanced(text, at, at + 1)
    BY <1>1, <1>2, <1>3 DEF Balanced
  <1>5. Free(text, {"OR", "AND"}, at, at + 1)
    BY <1>3 DEF Free
  <1>6. ASSUME NEW m \in 0 .. Len(text), m >= (at + 1) - at
        PROVE  Judges(f[m], Leaf(text[at]), says[m][at][(at + 1) - 1])
    <2>1. m \in 1 .. Len(text) /\ (at + 1) - 1 = at
      BY <1>1, <1>6
    <2>2. says[m][at][at] = SaysFrom(text, true, says[m - 1], at, at)
      BY <2>1 DEF Setting
    <2>3. SaysFrom(text, true, says[m - 1], at, at) = (text[at] \in true)
      <3>1. \A p \in at .. at : text[p].kind \in {"OR", "AND"}
                                  => Nesting(text)[p] # Nesting(text)[at - 1]
        OBVIOUS
      <3>. QED  BY <3>1, Unsplit
    <2>4. f[m] = JudgeStep(atoms, true, f[m - 1])
      BY <2>1 DEF Setting
    <2>5. Judges(f[m], Leaf(text[at]), text[at] \in true)
      BY <1>1, <2>4, JudgeRules
    <2>. QED  BY <2>1, <2>2, <2>3, <2>5
  <1>7. Meant(text, says, f, at, at + 1, Leaf(text[at]))
    BY <1>6 DEF Meant
  <1>. QED  BY <1>4, <1>5, <1>7 DEF Span, Parsed

\* So is what is in parentheses, if it was without them.
LEMMA ParenSpan ==
    ASSUME NEW text, NEW atoms, NEW true, NEW says, NEW f, Setting(text, atoms, true, says, f),
           NEW at \in 1 .. Len(text), text[at].kind = "(",
           NEW r, Span(text, says, f, {}, at + 1, r), KindAt(text, r.at) = ")"
    PROVE  Span(text, says, f, {"OR", "AND"}, at, Parsed(r.tree, r.at + 1))
  <1>1. PICK to, O : to = r.at /\ O = Nesting(text)
    OBVIOUS
  <1>2. Len(text) \in Nat /\ DOMAIN text = 1 .. Len(text)
    BY DEF Setting
  <1>3. to \in 1 .. Len(text) /\ text[to].kind = ")" /\ to # Stuck
    BY <1>1, <1>2 DEF KindAt, Stuck
  <1>4. Balanced(text, at + 1, to) /\ Meant(text, says, f, at + 1, to, r.tree)
    BY <1>1, <1>3 DEF Span
  <1>5. /\ to \in at + 2 .. Len(text) /\ O[to - 1] = O[at]
        /\ \A p \in at + 1 .. to - 1 : O[p] >= O[at]
    BY <1>1, <1>3, <1>4 DEF Balanced
  <1>6. O[at] = O[at - 1] + 1 /\ O[to] = O[to - 1] - 1
        /\ \A p \in 0 .. Len(text) : O[p] \in Int
    BY <1>1, <1>2, <1>3, NestingAt
  <1>7. O[to] = O[at - 1] /\ O[at - 1] \in Int
    BY <1>2, <1>3, <1>5, <1>6
  <1>8. ASSUME NEW p \in at .. (to + 1) - 1
        PROVE  O[p] >= O[at - 1] /\ (text[p].kind \in {"OR", "AND"} => O[p] # O[at - 1])
    <2>1. p = at \/ p = to \/ p \in at + 1 .. to - 1
      BY <1>3, <1>5
    <2>2. CASE p = at
      BY <1>6, <1>7, <2>2
    <2>3. CASE p = to
      BY <1>3, <1>7, <2>3
    <2>4. CASE p \in at + 1 .. to - 1
      <3>1. p \in 0 .. Len(text) /\ O[p] >= O[at] /\ O[p] \in Int
        BY <1>3, <1>5, <1>6, <2>4
      <3>. QED  BY <1>6, <1>7, <3>1
    <2>. QED  BY <2>1, <2>2, <2>3, <2>4
  <1>9. Balanced(text, at, to + 1)
    BY <1>1, <1>2, <1>3, <1>5, <1>7, <1>8 DEF Balanced
  <1>10. Free(text, {"OR", "AND"}, at, to + 1)
    BY <1>1, <1>8 DEF Free
  <1>11. ASSUME NEW m \in 0 .. Len(text), m >= (to + 1) - at
         PROVE  Judges(f[m], r.tree, says[m][at][(to + 1) - 1])
    <2>1. /\ m \in 1 .. Len(text) /\ (to + 1) - 1 = to
          /\ m - 1 \in 0 .. Len(text) /\ m - 1 >= to - (at + 1)
      BY <1>2, <1>3, <1>5, <1>11
    <2>2. says[m][at][to] = SaysFrom(text, true, says[m - 1], at, to)
      BY <1>3, <2>1 DEF Setting
    <2>3. SaysFrom(text, true, says[m - 1], at, to) = says[m - 1][at + 1][to - 1]
      <3>1. \A p \in at .. to : text[p].kind \in {"OR", "AND"}
                                  => Nesting(text)[p] # Nesting(text)[at - 1]
        BY <1>1, <1>8, <2>1
      <3>. QED  BY <3>1, Unsplit
    <2>4. Judges(f[m - 1], r.tree, says[m - 1][at + 1][to - 1])
      BY <1>4, <2>1 DEF Meant
    <2>5. Judges(f[m], r.tree, says[m - 1][at + 1][to - 1])
      <3>1. Grows(f[m - 1], f[m])
        BY <2>1 DEF Setting
      <3>. QED  BY <2>4, <3>1 DEF Judges, Grows
    <2>. QED  BY <2>1, <2>2, <2>3, <2>5
  <1>12. Meant(text, says, f, at, to + 1, r.tree)
    BY <1>11 DEF Meant
  <1>. QED  BY <1>1, <1>9, <1>10, <1>12 DEF Span, Parsed

\* So is a Not, if what it negates was.
LEMMA NotSpan ==
    ASSUME NEW text, NEW atoms, NEW true, NEW says, NEW f, Setting(text, atoms, true, says, f),
           NEW at \in 1 .. Len(text), text[at].kind = "NOT",
           NEW r, Span(text, says, f, {"OR", "AND"}, at + 1, r)
    PROVE  Span(text, says, f, {"OR", "AND"}, at, Parsed(Not(r.tree), r.at))
  <1>. SUFFICES ASSUME r.at # Stuck
                PROVE  /\ Balanced(text, at, r.at) /\ Free(text, {"OR", "AND"}, at, r.at)
                       /\ Meant(text, says, f, at, r.at, Not(r.tree))
    BY DEF Span, Parsed
  <1>1. PICK to, O : to = r.at /\ O = Nesting(text)
    OBVIOUS
  <1>2. Len(text) \in Nat /\ DOMAIN text = 1 .. Len(text)
    BY DEF Setting
  <1>4. /\ Balanced(text, at + 1, to) /\ Free(text, {"OR", "AND"}, at + 1, to)
        /\ Meant(text, says, f, at + 1, to, r.tree)
    BY <1>1 DEF Span
  <1>5. /\ to \in at + 2 .. Len(text) + 1 /\ O[to - 1] = O[at]
        /\ \A p \in at + 1 .. to - 1 : O[p] >= O[at]
        /\ \A p \in at + 1 .. to - 1 : text[p].kind \in {"OR", "AND"} => O[p] # O[at]
    BY <1>1, <1>2, <1>4 DEF Balanced, Free
  <1>6. O[at] = O[at - 1] /\ O[at] \in Int
    BY <1>1, <1>2, NestingAt
  <1>8. ASSUME NEW p \in at .. to - 1
        PROVE  O[p] >= O[at - 1] /\ (text[p].kind \in {"OR", "AND"} => O[p] # O[at - 1])
    <2>1. p = at \/ p \in at + 1 .. to - 1
      BY <1>2, <1>5
    <2>2. CASE p = at
      BY <1>6, <2>2
    <2>3. CASE p \in at + 1 .. to - 1
      BY <1>5, <1>6, <2>3
    <2>. QED  BY <2>1, <2>2, <2>3
  <1>9. Balanced(text, at, to)
    BY <1>1, <1>2, <1>5, <1>6, <1>8 DEF Balanced
  <1>10. Free(text, {"OR", "AND"}, at, to)
    BY <1>1, <1>8 DEF Free
  <1>11. ASSUME NEW m \in 0 .. Len(text), m >= to - at
         PROVE  Judges(f[m], Not(r.tree), says[m][at][to - 1])
    <2>1. /\ m \in 1 .. Len(text) /\ to - 1 \in 1 .. Len(text)
          /\ m - 1 \in 0 .. Len(text) /\ m - 1 >= to - (at + 1)
      BY <1>2, <1>5, <1>11
    <2>2. says[m][at][to - 1] = SaysFrom(text, true, says[m - 1], at, to - 1)
      BY <2>1 DEF Setting
    <2>3. SaysFrom(text, true, says[m - 1], at, to - 1) = ~says[m - 1][at + 1][to - 1]
      <3>1. \A p \in at .. to - 1 : text[p].kind \in {"OR", "AND"}
                                      => Nesting(text)[p] # Nesting(text)[at - 1]
        BY <1>1, <1>8
      <3>. QED  BY <3>1, Unsplit
    <2>4. Judges(f[m - 1], r.tree, says[m - 1][at + 1][to - 1])
      BY <1>4, <2>1 DEF Meant
    <2>5. f[m] = JudgeStep(atoms, true, f[m - 1])
      BY <2>1 DEF Setting
    <2>6. Judges(f[m], Not(r.tree), ~says[m - 1][at + 1][to - 1])
      BY <2>4, <2>5, JudgeRules
    <2>. QED  BY <2>2, <2>3, <2>6
  <1>12. Meant(text, says, f, at, to, Not(r.tree))
    BY <1>11 DEF Meant
  <1>. QED  BY <1>1, <1>9, <1>10, <1>12

\* The words that are outside parentheses neither in what a level reads nor in
\* its operands.
Above(op) == IF op = "and" THEN {"OR"} ELSE {}
Inside(op) == IF op = "and" THEN {"OR", "AND"} ELSE {"OR"}

\* The greatest is what no other is greater than.
LEMMA LastOne ==
    ASSUME NEW S, S \subseteq Int, NEW q \in S, \A p \in S : q >= p
    PROVE  Max(S) = q
  <1>1. \A x \in S : (\A y \in S : x >= y) => x = q
    OBVIOUS
  <1>. QED  BY <1>1 DEF Max

\* Split at the last of a level's words.
LEMMA SplitAt ==
    ASSUME NEW text, NEW true, NEW parts, NEW lo \in Int, NEW hi \in Int, NEW q \in lo .. hi,
           NEW op \in {"and", "or"}, text[q].kind = Word[op],
           Nesting(text)[q] = Nesting(text)[lo - 1],
           \A p \in lo .. hi : text[p].kind \in Above(op) => Nesting(text)[p] # Nesting(text)[lo - 1],
           \A p \in q + 1 .. hi : text[p].kind = Word[op] => Nesting(text)[p] # Nesting(text)[lo - 1]
    PROVE  SaysFrom(text, true, parts, lo, hi)
              = IF op = "and" THEN parts[lo][q - 1] /\ parts[q + 1][hi]
                              ELSE parts[lo][q - 1] \/ parts[q + 1][hi]
  <1> DEFINE S == SplitsAt(text, lo, hi, Word[op])
  <1>1. q \in S
    BY DEF SplitsAt
  <1>2. ASSUME NEW p \in S PROVE q >= p
    BY <1>2 DEF SplitsAt
  <1>3. S \subseteq Int
    BY DEF SplitsAt
  <1>4. Max(S) = q /\ S # {}
    BY <1>1, <1>2, <1>3, LastOne
  <1>5. CASE op = "and"
    <2>1. SplitsAt(text, lo, hi, "OR") = {}
      BY <1>5 DEF SplitsAt, Above
    <2>2. S = SplitsAt(text, lo, hi, "AND")
      BY <1>5 DEF Word
    <2>. HIDE DEF S
    <2>. QED  BY <1>4, <1>5, <2>1, <2>2 DEF SaysFrom
  <1>6. CASE op = "or"
    <2>1. S = SplitsAt(text, lo, hi, "OR")
      BY <1>6 DEF Word
    <2>. HIDE DEF S
    <2>. QED  BY <1>4, <1>6, <2>1 DEF SaysFrom
  <1>. QED  BY <1>5, <1>6

\* The words of the two levels.
LEMMA Words ==
    /\ Above("and") = Inside("or") /\ Above("or") = {} /\ Inside("and") = {"OR", "AND"}
    /\ \A op \in {"and", "or"} : /\ Above(op) \subseteq Inside(op)
                                 /\ Word[op] \in Inside(op) \ Above(op)
                                 /\ Word[op] \notin {"(", ")", "end"}
  BY DEF Above, Inside, Word

\* Two operands that are read right make, with the word between them, what is
\* read right.
LEMMA TieSpan ==
    ASSUME NEW text, NEW atoms, NEW true, NEW says, NEW f, Setting(text, atoms, true, says, f),
           NEW op \in {"and", "or"}, NEW at \in Positions(text),
           NEW had, Span(text, says, f, Above(op), at, had), KindAt(text, had.at) = Word[op],
           NEW right, Span(text, says, f, Inside(op), had.at + 1, right)
    PROVE  Span(text, says, f, Above(op), at,
                Parsed(Pair(op, had.tree, right.tree), right.at))
  <1>. SUFFICES ASSUME right.at # Stuck
                PROVE  /\ Balanced(text, at, right.at) /\ Free(text, Above(op), at, right.at)
                       /\ Meant(text, says, f, at, right.at, Pair(op, had.tree, right.tree))
    BY DEF Span, Parsed
  <1>1. PICK q, to, O : q = had.at /\ to = right.at /\ O = Nesting(text)
    OBVIOUS
  <1>2. Len(text) \in Nat /\ DOMAIN text = 1 .. Len(text) /\ at \in 1 .. Len(text) + 1
    BY DEF Setting, Positions
  <1>3. q \in 1 .. Len(text) /\ text[q].kind = Word[op] /\ q # Stuck
    <2>1. q \in DOMAIN text
      BY <1>1, Words DEF KindAt
    <2>. QED  BY <1>1, <1>2, <2>1 DEF KindAt, Stuck
  <1>4. /\ Balanced(text, at, q) /\ Free(text, Above(op), at, q)
        /\ Meant(text, says, f, at, q, had.tree)
        /\ Balanced(text, q + 1, to) /\ Free(text, Inside(op), q + 1, to)
        /\ Meant(text, says, f, q + 1, to, right.tree)
    BY <1>1, <1>3 DEF Span
  <1>5. /\ q \in at + 1 .. Len(text) + 1 /\ O[q - 1] = O[at - 1]
        /\ \A p \in at .. q - 1 : O[p] >= O[at - 1]
        /\ \A p \in at .. q - 1 : text[p].kind \in Above(op) => O[p] # O[at - 1]
    BY <1>1, <1>4 DEF Balanced, Free
  <1>6. /\ to \in q + 2 .. Len(text) + 1 /\ O[to - 1] = O[q]
        /\ \A p \in q + 1 .. to - 1 : O[p] >= O[q]
        /\ \A p \in q + 1 .. to - 1 : text[p].kind \in Inside(op) => O[p] # O[q]
    <2>1. (q + 1) + 1 = q + 2 /\ (q + 1) - 1 = q
      BY <1>2, <1>3
    <2>. QED  BY <1>1, <1>4, <2>1 DEF Balanced, Free
  <1>7. O[q] = O[at - 1] /\ O[q] \in Int
    <2>1. text[q].kind \notin {"(", ")"}
      BY <1>3, Words
    <2>2. O[q] = O[q - 1]
      BY <1>1, <1>2, <1>3, <2>1, NestingAt
    <2>3. O[q] \in Int
      <3>1. q \in 0 .. Len(text)
        BY <1>2, <1>3
      <3>. QED  BY <1>1, <1>2, <3>1, NestingAt
    <2>. QED  BY <1>5, <2>2, <2>3
  <1>8. \A p \in at .. to - 1 : p \in at .. q - 1 \/ p = q \/ p \in q + 1 .. to - 1
    BY <1>2, <1>3, <1>6
  <1>9. \A p \in at .. to - 1 : O[p] >= O[at - 1]
    BY <1>5, <1>6, <1>7, <1>8
  <1>10. \A p \in at .. to - 1 : text[p].kind \in Above(op) => O[p] # O[at - 1]
    <2>1. Above(op) \subseteq Inside(op) /\ text[q].kind \notin Above(op)
      BY <1>3, Words
    <2>. QED  BY <1>5, <1>6, <1>7, <1>8, <2>1
  <1>11. Balanced(text, at, to)
    <2>1. to \in at + 1 .. Len(text) + 1
      BY <1>2, <1>3, <1>5, <1>6
    <2>. QED  BY <1>1, <1>6, <1>7, <1>9, <2>1 DEF Balanced
  <1>12. Free(text, Above(op), at, to)
    BY <1>1, <1>10 DEF Free
  <1>13. ASSUME NEW m \in 0 .. Len(text), m >= to - at
         PROVE  Judges(f[m], Pair(op, had.tree, right.tree), says[m][at][to - 1])
    <2>1. /\ m \in 1 .. Len(text) /\ to - 1 \in 1 .. Len(text) /\ at \in 1 .. Len(text)
          /\ m - 1 \in 0 .. Len(text) /\ m - 1 >= q - at /\ m - 1 >= to - (q + 1)
          /\ q \in at .. to - 1 /\ at \in Int /\ to - 1 \in Int
      BY <1>2, <1>3, <1>5, <1>6, <1>13
    <2>2. says[m][at][to - 1] = SaysFrom(text, true, says[m - 1], at, to - 1)
      BY <2>1 DEF Setting
    <2> DEFINE parts == says[m - 1]
    <2>3. SaysFrom(text, true, parts, at, to - 1)
             = IF op = "and" THEN parts[at][q - 1] /\ parts[q + 1][to - 1]
                             ELSE parts[at][q - 1] \/ parts[q + 1][to - 1]
      <3>1. \A p \in q + 1 .. to - 1 : text[p].kind = Word[op]
                                         => Nesting(text)[p] # Nesting(text)[at - 1]
        BY <1>1, <1>6, <1>7, Words
      <3>2. \A p \in at .. to - 1 : text[p].kind \in Above(op)
                                      => Nesting(text)[p] # Nesting(text)[at - 1]
        BY <1>1, <1>10
      <3>3. Nesting(text)[q] = Nesting(text)[at - 1]
        BY <1>1, <1>7
      <3>. HIDE DEF parts
      <3>. QED  BY <1>3, <2>1, <3>1, <3>2, <3>3, SplitAt
    <2>4. Judges(f[m - 1], had.tree, parts[at][q - 1])
      BY <1>4, <2>1 DEF Meant
    <2>5. Judges(f[m - 1], right.tree, parts[q + 1][to - 1])
      BY <1>4, <2>1 DEF Meant
    <2>6. f[m] = JudgeStep(atoms, true, f[m - 1])
      BY <2>1 DEF Setting
    <2>. HIDE DEF parts
    <2>7. /\ Judges(f[m], Pair("and", had.tree, right.tree),
                    parts[at][q - 1] /\ parts[q + 1][to - 1])
          /\ Judges(f[m], Pair("or", had.tree, right.tree),
                    parts[at][q - 1] \/ parts[q + 1][to - 1])
      BY <2>4, <2>5, <2>6, JudgeRules
    <2>8. SaysFrom(text, true, parts, at, to - 1) = says[m][at][to - 1]
      BY <2>2 DEF parts
    <2>9. CASE op = "and"
      BY <2>3, <2>7, <2>8, <2>9
    <2>10. CASE op = "or"
      BY <2>3, <2>7, <2>8, <2>10
    <2>. QED  BY <2>9, <2>10
  <1>14. Meant(text, says, f, at, to, Pair(op, had.tree, right.tree))
    BY <1>13 DEF Meant
  <1>. QED  BY <1>1, <1>11, <1>12, <1>14

\* All the rounds of the loop keep what it has read right.
LEMMA ChainSpan ==
    ASSUME NEW text, NEW atoms, NEW true, NEW says, NEW f, Setting(text, atoms, true, says, f),
           NEW op \in {"and", "or"}, NEW operands,
           \A p \in Positions(text) : Span(text, says, f, Inside(op), p, operands[p]),
           NEW at \in Positions(text)
    PROVE  Span(text, says, f, Above(op), at, Chain(text, op, operands, at))
  <1>1. Len(text) \in Nat /\ DOMAIN text = 1 .. Len(text)
    BY DEF Setting
  <1>2. PICK left :
           /\ Chain(text, op, operands, at) = left[Len(text)]
           /\ left[0] = operands[at]
           /\ \A n \in 1 .. Len(text) : left[n] = ChainStep(text, op, operands, left[n - 1])
    BY <1>1, ChainSteps
  <1> DEFINE S == {n \in 0 .. Len(text) : Span(text, says, f, Above(op), at, left[n])}
  <1>3. 0 \in S
    <2>1. Span(text, says, f, Inside(op), at, left[0])
      BY <1>2
    <2>2. Span(text, says, f, Above(op), at, left[0])
      BY <2>1, Words DEF Span, Free
    <2>. QED  BY <1>1, <2>2
  <1>4. ASSUME NEW n \in 1 .. Len(text), n - 1 \in S PROVE n \in S
    <2>1. PICK had : had = left[n - 1]
      OBVIOUS
    <2>2. Span(text, says, f, Above(op), at, had)
      BY <1>4, <2>1
    <2>3. left[n] = ChainStep(text, op, operands, had)
      BY <1>2, <2>1
    <2>4. CASE KindAt(text, had.at) = Word[op]
      <3>1. had.at + 1 \in Positions(text)
        <4>1. had.at \in 1 .. Len(text)
          BY <1>1, <2>4, Words DEF KindAt
        <4>. QED  BY <1>1, <4>1 DEF Positions
      <3>2. PICK right : right = operands[had.at + 1]
        OBVIOUS
      <3>3. Span(text, says, f, Inside(op), had.at + 1, right)
        BY <3>1, <3>2
      <3>4. left[n] = Parsed(Pair(op, had.tree, right.tree), right.at)
        BY <2>3, <2>4, <3>2 DEF ChainStep
      <3>5. Span(text, says, f, Above(op), at, left[n])
        BY <2>2, <2>4, <3>3, <3>4, TieSpan
      <3>. QED  BY <1>1, <3>5
    <2>5. CASE KindAt(text, had.at) # Word[op]
      BY <1>1, <2>2, <2>3, <2>5 DEF ChainStep
    <2>. QED  BY <2>4, <2>5
  <1>. HIDE DEF S
  <1>5. Len(text) \in S
    <2>1. \A n \in 0 .. Len(text) : n \in S
      BY <1>1, <1>3, <1>4, InductionTo
    <2>. QED  BY <1>1, <2>1
  <1>. QED  BY <1>2, <1>5 DEF S

\* What the calls one level down read is right.
ReadsRight(text, says, f, read) ==
    \A at \in Positions(text) : /\ Span(text, says, f, {"OR", "AND"}, at, read.not[at])
                                /\ Span(text, says, f, {}, at, read.or[at])

\* So do the calls one level further out.
LEMMA ReadsSpan ==
    ASSUME NEW text, NEW atoms, NEW true, NEW says, NEW f, Setting(text, atoms, true, says, f),
           NEW later, ReadsRight(text, says, f, later)
    PROVE  ReadsRight(text, says, f, Reads(text, later))
  <1> DEFINE nots == [at \in Positions(text) |-> ParseNot(text, later, at)]
             ands == [at \in Positions(text) |-> Chain(text, "and", nots, at)]
             ors  == [at \in Positions(text) |-> Chain(text, "or", ands, at)]
  <1>1. Reads(text, later).not = nots /\ Reads(text, later).or = ors
    BY DEF Reads
  <1>2. Len(text) \in Nat /\ DOMAIN text = 1 .. Len(text)
    BY DEF Setting
  <1>3. ASSUME NEW at \in Positions(text)
        PROVE  Span(text, says, f, {"OR", "AND"}, at, ParseNot(text, later, at))
    <2>1. KindAt(text, at) # "end" => at \in 1 .. Len(text) /\ text[at].kind = KindAt(text, at)
      BY <1>2 DEF KindAt
    <2>2. at \in 1 .. Len(text) => at + 1 \in Positions(text)
      BY <1>2 DEF Positions
    <2>3. CASE KindAt(text, at) = "NOT"
      <3>1. PICK r : r = later.not[at + 1]
        OBVIOUS
      <3>2. ParseNot(text, later, at) = Parsed(Not(r.tree), r.at)
        BY <2>3, <3>1 DEF ParseNot
      <3>3. Span(text, says, f, {"OR", "AND"}, at + 1, r)
        BY <2>1, <2>2, <2>3, <3>1 DEF ReadsRight
      <3>. QED  BY <2>1, <2>3, <3>2, <3>3, NotSpan
    <2>4. CASE KindAt(text, at) = "("
      <3>1. PICK r : r = later.or[at + 1]
        OBVIOUS
      <3>2. ParseNot(text, later, at)
               = Parsed(r.tree, IF KindAt(text, r.at) = ")" THEN r.at + 1 ELSE Stuck)
        BY <2>4, <3>1 DEF ParseNot, ParseTerm
      <3>3. Span(text, says, f, {}, at + 1, r)
        BY <2>1, <2>2, <2>4, <3>1 DEF ReadsRight
      <3>4. CASE KindAt(text, r.at) = ")"
        BY <2>1, <2>4, <3>2, <3>3, <3>4, ParenSpan
      <3>5. CASE KindAt(text, r.at) # ")"
        BY <3>2, <3>5 DEF Span, Parsed
      <3>. QED  BY <3>4, <3>5
    <2>5. CASE KindAt(text, at) = "atom"
      <3>1. ParseNot(text, later, at) = Parsed(Leaf(text[at]), at + 1)
        BY <2>5 DEF ParseNot, ParseTerm
      <3>. QED  BY <2>1, <2>5, <3>1, AtomSpan
    <2>6. CASE KindAt(text, at) \notin {"NOT", "(", "atom"}
      <3>1. ParseNot(text, later, at) = Nothing
        BY <2>6 DEF ParseNot, ParseTerm
      <3>. QED  BY <3>1 DEF Span, Nothing, Parsed
    <2>. QED  BY <2>3, <2>4, <2>5, <2>6
  <1>4. \A at \in Positions(text) : Span(text, says, f, Inside("and"), at, nots[at])
    BY <1>3, Words
  <1>. HIDE DEF nots
  <1>5. \A at \in Positions(text) : Span(text, says, f, Inside("or"), at, ands[at])
    BY <1>4, ChainSpan, Words
  <1>. HIDE DEF ands
  <1>6. \A at \in Positions(text) : Span(text, says, f, {}, at, ors[at])
    BY <1>5, ChainSpan, Words
  <1>. HIDE DEF ors
  <1>7. \A at \in Positions(text) : Span(text, says, f, {"OR", "AND"}, at, nots[at])
    BY <1>4, Words
  <1>. QED  BY <1>1, <1>6, <1>7 DEF ReadsRight

\* A text is read right, from its first token on.
LEMMA ParseSpan ==
    ASSUME NEW text, NEW atoms, NEW true, NEW says, NEW f, Setting(text, atoms, true, says, f)
    PROVE  Span(text, says, f, {}, 1, Parse(text))
  <1>1. Len(text) \in Nat
    BY DEF Setting
  <1>2. PICK read : /\ Parse(text) = read[Len(text)].or[1]
                    /\ read[0] = ReadsNothing(text)
                    /\ \A n \in 1 .. Len(text) : read[n] = Reads(text, read[n - 1])
    BY <1>1, ParseSteps
  <1> DEFINE S == {n \in 0 .. Len(text) : ReadsRight(text, says, f, read[n])}
  <1>3. 0 \in S
    <2>1. /\ read[0].not = [at \in Positions(text) |-> Nothing]
          /\ read[0].or = [at \in Positions(text) |-> Nothing]
      <3>1. /\ ReadsNothing(text).not = [at \in Positions(text) |-> Nothing]
            /\ ReadsNothing(text).or = [at \in Positions(text) |-> Nothing]
        BY DEF ReadsNothing
      <3>2. read[0] = ReadsNothing(text)
        BY <1>2
      <3>. QED  BY <3>1, <3>2
    <2>2. Nothing.at = Stuck
      BY DEF Nothing, Parsed
    <2>3. ReadsRight(text, says, f, read[0])
      <3>1. \A at \in Positions(text) : read[0].not[at] = Nothing /\ read[0].or[at] = Nothing
        BY <2>1
      <3>. QED  BY <2>2, <3>1 DEF ReadsRight, Span
    <2>. QED  BY <1>1, <2>3
  <1>4. ASSUME NEW n \in 1 .. Len(text), n - 1 \in S PROVE n \in S
    <2>1. ReadsRight(text, says, f, read[n - 1])
      BY <1>4
    <2>2. ReadsRight(text, says, f, Reads(text, read[n - 1]))
      BY <2>1, ReadsSpan
    <2>. QED  BY <1>1, <1>2, <2>2
  <1>. HIDE DEF S
  <1>5. Len(text) \in S
    <2>1. \A n \in 0 .. Len(text) : n \in S
      BY <1>1, <1>3, <1>4, InductionTo
    <2>. QED  BY <1>1, <2>1
  <1>6. 1 \in Positions(text)
    BY <1>1 DEF Positions
  <1>7. ReadsRight(text, says, f, read[Len(text)])
    BY <1>5 DEF S
  <1>. QED  BY <1>2, <1>6, <1>7 DEF ReadsRight

\* The tree parse_query makes of a text that it reads to the end holds of an
\* item exactly when the text says so: NOT binds before AND, AND before OR,
\* and parentheses before all.  P and V are a set of expressions with all that
\* is in them, and those of them that hold.
THEOREM ParsesWhatItSays ==
    ASSUME NEW text, Len(text) \in Nat, DOMAIN text = 1 .. Len(text), NEW atoms, NEW true,
           \A p \in 1 .. Len(text) : text[p].kind = "atom" => text[p] \in atoms,
           Parse(text).at = Len(text) + 1
    PROVE  \E P, V : /\ IsValuation(P, V, atoms, true)
                     /\ Parse(text).tree \in P
                     /\ Parse(text).tree \in V <=> Says(text, true)
  <1>1. PICK says : SaysBy(says, text, true)
    BY SaysSteps
  <1>2. PICK f : JudgedTo(f, atoms, true, Len(text))
    BY JudgedExists
  <1>3. /\ \A n \in 0 .. Len(text) : Apart(f[n])
        /\ \A n \in 1 .. Len(text) : /\ f[n] = JudgeStep(atoms, true, f[n - 1])
                                     /\ Grows(f[n - 1], f[n])
    BY <1>2, JudgedFacts
  <1>4. Setting(text, atoms, true, says, f)
    BY <1>1, <1>3 DEF Setting, SaysBy
  <1>5. PICK N, e : N = Len(text) /\ e = Parse(text).tree
    OBVIOUS
  <1>6. Meant(text, says, f, 1, N + 1, e)
    <2>1. Span(text, says, f, {}, 1, Parse(text))
      BY <1>4, ParseSpan
    <2>2. N + 1 # Stuck
      BY <1>5 DEF Stuck
    <2>. QED  BY <1>5, <2>1, <2>2 DEF Span
  <1>7. Judges(f[N], e, Says(text, true))
    <2>1. N \in 0 .. Len(text) /\ N >= (N + 1) - 1 /\ (N + 1) - 1 = N
      BY <1>5
    <2>2. Judges(f[N], e, says[N][1][(N + 1) - 1])
      BY <1>6, <2>1 DEF Meant
    <2>. QED  BY <1>1, <1>5, <2>1, <2>2 DEF SaysBy
  <1>8. IsValuation(f[N].yes \cup f[N].no, f[N].yes, atoms, true)
    BY <1>2, <1>5, JudgedIsValuation
  <1>9. Apart(f[N])
    BY <1>3, <1>5
  <1>10. e \in f[N].yes \cup f[N].no /\ (e \in f[N].yes <=> Says(text, true))
    BY <1>7, <1>9 DEF Judges, Apart
  <1>. QED  BY <1>5, <1>8, <1>10

=============================================================================

------------------------------ MODULE SseProofs ------------------------------
(***************************************************************************)
(* What holds of the SSE processor for any messages on any threads, any    *)
(* reads of them and any tearing of chunks.                                *)
(***************************************************************************)
EXTENDS SseProcessor, SequenceTheorems, FiniteSetTheorems, WellFoundedInduction, TLAPS

\* A set with 0 and with the successor of each of its members holds every
\* natural number.
LEMMA SetInduction ==
  ASSUME NEW T, 0 \in T, \A n \in Nat : n \in T => n + 1 \in T
  PROVE  Nat \subseteq T
<1> SUFFICES ASSUME Nat \ T # {}
             PROVE  FALSE
  OBVIOUS
<1> DEFINE R == OpToRel(<, Nat)
<1>1. \E x \in Nat \ T : \A y \in Nat \ T : <<y, x>> \notin R
  <2>1. IsWellFoundedOn(R, Nat)
    BY NatLessThanWellFounded
  <2> HIDE DEF R
  <2> QED
    BY <2>1, WFMin
<1>2. PICK x \in Nat \ T : \A y \in Nat \ T : ~(y < x)
  BY <1>1 DEF OpToRel
<1>3. x # 0 /\ x - 1 \in Nat /\ x - 1 < x
  OBVIOUS
<1> QED
  BY <1>2, <1>3

\* What a recursion computes from base in n steps exists.
LEMMA RecursionExists ==
  ASSUME NEW V, NEW base \in V, NEW n \in Nat, NEW step \in [1 .. n -> [V -> V]]
  PROVE  \E g \in [0 .. n -> V] : g[0] = base /\ \A i \in 1 .. n : g[i] = step[i][g[i - 1]]
<1> DEFINE Good(g, k) == g[0] = base /\ \A i \in 1 .. k : g[i] = step[i][g[i - 1]]
           T == {k \in Nat : k <= n => \E g \in [0 .. k -> V] : Good(g, k)}
<1>1. 0 \in T
  <2>1. [i \in 0 .. 0 |-> base] \in [0 .. 0 -> V] /\ Good([i \in 0 .. 0 |-> base], 0)
    OBVIOUS
  <2> QED
    BY <2>1
<1>2. ASSUME NEW k \in Nat, k \in T
      PROVE  k + 1 \in T
  <2>1. CASE ~(k + 1 <= n)
    BY <2>1
  <2>2. CASE k + 1 <= n
    <3>1. k <= n
      BY <2>2
    <3>2. \E g \in [0 .. k -> V] : Good(g, k)
      <4> HIDE DEF Good
      <4> QED
        BY <1>2, <3>1
    <3>3. PICK g \in [0 .. k -> V] : Good(g, k)
      BY <3>2
    <3> DEFINE h == [i \in 0 .. k + 1 |-> IF i = k + 1 THEN step[k + 1][g[k]] ELSE g[i]]
    <3>4. k + 1 \in 1 .. n /\ g[k] \in V
      BY <2>2
    <3>5. step[k + 1][g[k]] \in V
      BY <3>4
    <3>6. h \in [0 .. k + 1 -> V]
      BY <3>5
    <3>7. \A i \in 0 .. k : h[i] = g[i]
      OBVIOUS
    <3>8. h[k + 1] = step[k + 1][h[k]]
      BY <3>7
    <3>9. h[0] = base
      BY <3>3, <3>7
    <3>10. ASSUME NEW i \in 1 .. k + 1
           PROVE  h[i] = step[i][h[i - 1]]
      <4> HIDE DEF h
      <4>1. CASE i = k + 1
        BY <3>8, <4>1
      <4>2. CASE i # k + 1
        <5>1. i \in 1 .. k /\ i \in 0 .. k /\ i - 1 \in 0 .. k
          BY <4>2
        <5> QED
          BY <3>3, <3>7, <5>1
      <4> QED
        BY <4>1, <4>2
    <3>11. Good(h, k + 1)
      BY <3>9, <3>10
    <3>12. \E x \in [0 .. k + 1 -> V] : Good(x, k + 1)
      <4> HIDE DEF h, Good
      <4> QED
        BY <3>6, <3>11
    <3> HIDE DEF Good
    <3> QED
      BY <3>12
  <2> QED
    BY <2>1, <2>2
<1>3. Nat \subseteq T
  <2> HIDE DEF T
  <2> QED
    BY <1>1, <1>2, SetInduction
<1>4. n \in T
  BY <1>3
<1>5. \E g \in [0 .. n -> V] : Good(g, n)
  <2> HIDE DEF Good
  <2> QED
    BY <1>4
<1> QED
  BY <1>5

-----------------------------------------------------------------------------
\* Sequences

LEMMA ConcatMembers ==
  ASSUME NEW S, NEW s \in Seq(S), NEW t \in Seq(S)
  PROVE  ToSet(s \o t) = ToSet(s) \union ToSet(t)
<1>1. /\ s \o t \in Seq(S) /\ Len(s) \in Nat /\ Len(t) \in Nat /\ Len(s \o t) = Len(s) + Len(t)
      /\ DOMAIN s = 1 .. Len(s) /\ DOMAIN t = 1 .. Len(t) /\ DOMAIN (s \o t) = 1 .. Len(s) + Len(t)
  BY ConcatProperties, LenProperties
<1>2. \A i \in 1 .. Len(s) : (s \o t)[i] = s[i]
  BY <1>1, ConcatProperties
<1>3. \A i \in 1 .. Len(t) : Len(s) + i \in DOMAIN (s \o t) /\ (s \o t)[Len(s) + i] = t[i]
  BY <1>1, ConcatProperties
<1>4. \A i \in DOMAIN (s \o t) : i \in 1 .. Len(s) \/ (i - Len(s) \in 1 .. Len(t) /\ i = Len(s) + (i - Len(s)))
  BY <1>1
<1>5. ASSUME NEW x \in ToSet(s \o t)
      PROVE  x \in ToSet(s) \union ToSet(t)
  <2>1. PICK i \in DOMAIN (s \o t) : x = (s \o t)[i]
    BY DEF ToSet
  <2>2. CASE i \in 1 .. Len(s)
    BY <1>1, <1>2, <2>1, <2>2 DEF ToSet
  <2>3. CASE i - Len(s) \in 1 .. Len(t) /\ i = Len(s) + (i - Len(s))
    <3>1. x = t[i - Len(s)]
      BY <1>3, <2>1, <2>3
    <3> QED
      BY <1>1, <2>3, <3>1 DEF ToSet
  <2> QED
    BY <1>4, <2>2, <2>3
<1>6. ASSUME NEW x \in ToSet(s)
      PROVE  x \in ToSet(s \o t)
  <2>1. PICK i \in 1 .. Len(s) : x = s[i]
    BY <1>1 DEF ToSet
  <2>2. i \in DOMAIN (s \o t)
    BY <1>1
  <2> QED
    BY <1>2, <2>1, <2>2 DEF ToSet
<1>7. ASSUME NEW x \in ToSet(t)
      PROVE  x \in ToSet(s \o t)
  <2>1. PICK i \in 1 .. Len(t) : x = t[i]
    BY <1>1 DEF ToSet
  <2> QED
    BY <1>3, <2>1 DEF ToSet
<1> QED
  BY <1>5, <1>6, <1>7

\* g is what has been joined after each of some sequences.
Joins(g, ss, S) ==
  /\ g \in [0 .. Len(ss) -> Seq(S)]
  /\ g[0] = <<>>
  /\ \A i \in 1 .. Len(ss) : g[i] = g[i - 1] \o ss[i]

LEMMA JoinsExist ==
  ASSUME NEW S, NEW ss \in Seq(Seq(S))
  PROVE  \E g : Joins(g, ss, S)
<1>1. PICK V, n, none : V = Seq(S) /\ n = Len(ss) /\ none = <<>>
  OBVIOUS
<1>2. none \in V /\ n \in Nat
  BY <1>1
<1>3. PICK step : step = [i \in 1 .. n |-> [x \in V |-> x \o ss[i]]]
  OBVIOUS
<1>4. (\A x, y \in V : x \o y \in V) /\ \A i \in 1 .. n : ss[i] \in V
  BY <1>1, ConcatProperties
<1>5. step \in [1 .. n -> [V -> V]]
  BY <1>3, <1>4
<1>6. PICK g \in [0 .. n -> V] : g[0] = none /\ \A i \in 1 .. n : g[i] = step[i][g[i - 1]]
  <2>1. none \in V /\ n \in Nat
    BY <1>2
  <2> QED
    BY <1>5, <2>1, RecursionExists, SMTT(30)
<1>7. ASSUME NEW i \in 1 .. n
      PROVE  g[i] = g[i - 1] \o ss[i]
  <2>1. i - 1 \in 0 .. n
    BY <1>2
  <2>2. g[i - 1] \in V
    BY <1>6, <2>1
  <2>3. step[i][g[i - 1]] = g[i - 1] \o ss[i]
    BY <1>3, <2>2
  <2> QED
    BY <1>6, <2>3
<1> QED
  BY <1>1, <1>6, <1>7 DEF Joins

LEMMA JoinsFlatten ==
  ASSUME NEW S, NEW ss \in Seq(Seq(S)), NEW g, Joins(g, ss, S)
  PROVE  FlattenSeq(ss) = g[Len(ss)]
<1> DEFINE n == Len(ss)
           P(h) == h = [i \in 1 .. n |-> IF i = 1 THEN ss[i] ELSE h[i - 1] \o ss[i]]
           f == CHOOSE h : P(h)
           r == [i \in 1 .. n |-> g[i]]
<1>1. n \in Nat /\ \A i \in 1 .. n : ss[i] \in Seq(S)
  OBVIOUS
<1>2. CASE n = 0
  <2>1. ss = <<>>
    BY <1>2, EmptySeq
  <2> QED
    BY <1>2, <2>1 DEF FlattenSeq, Joins
<1>3. CASE n # 0
  <2>1. g[1] = ss[1]
    <3>1. 1 \in 1 .. n /\ 1 - 1 = 0
      BY <1>1, <1>3
    <3>2. g[1] = <<>> \o ss[1] /\ ss[1] \in Seq(S)
      BY <1>1, <3>1 DEF Joins
    <3> QED
      BY <3>2, ConcatEmptySeq
  <2>2. ASSUME NEW i \in 1 .. n
        PROVE  r[i] = IF i = 1 THEN ss[i] ELSE r[i - 1] \o ss[i]
    <3>1. CASE i = 1
      BY <2>1, <3>1
    <3>2. CASE i # 1
      <4>1. i - 1 \in 1 .. n
        BY <1>1, <3>2
      <4>2. g[i] = g[i - 1] \o ss[i]
        BY DEF Joins
      <4> QED
        BY <3>2, <4>1, <4>2
    <3> QED
      BY <3>1, <3>2
  <2>3. P(r)
    BY <1>1, <2>2
  <2>4. P(f)
    <3> HIDE DEF P
    <3> QED
      BY <2>3
  <2>5. FlattenSeq(ss) = f[n]
    BY <1>3 DEF FlattenSeq
  <2>6. \A h : P(h) => \A i \in 1 .. n : h[i] = IF i = 1 THEN ss[i] ELSE h[i - 1] \o ss[i]
    OBVIOUS
  <2>7. f[n] = r[n]
    <3> DEFINE T == {i \in Nat : i + 1 <= n => f[i + 1] = r[i + 1]}
    <3>1. \A i \in 1 .. n : f[i] = IF i = 1 THEN ss[i] ELSE f[i - 1] \o ss[i]
      BY <2>4, <2>6
    <3> HIDE DEF P, f, r
    <3>2. 0 \in T
      BY <1>1, <2>2, <3>1
    <3>3. ASSUME NEW i \in Nat, i \in T
          PROVE  i + 1 \in T
      <4> SUFFICES ASSUME i + 2 <= n
                   PROVE  f[i + 2] = r[i + 2]
        BY <1>1
      <4>1. i + 2 \in 1 .. n /\ i + 2 # 1 /\ (i + 2) - 1 = i + 1 /\ f[i + 1] = r[i + 1]
        BY <1>1, <3>3
      <4> QED
        BY <2>2, <3>1, <4>1
    <3>4. Nat \subseteq T
      <4> HIDE DEF T
      <4> QED
        BY <3>2, <3>3, SetInduction
    <3>5. n - 1 \in Nat /\ (n - 1) + 1 = n /\ n <= n
      BY <1>1, <1>3
    <3>6. n - 1 \in T
      BY <3>4, <3>5
    <3> QED
      BY <3>5, <3>6
  <2>8. r[n] = g[n]
    BY <1>1, <1>3
  <2> HIDE DEF f, r
  <2> QED
    BY <2>5, <2>7, <2>8
<1> QED
  BY <1>2, <1>3

\* Joining one more adds it at the end.
LEMMA FlattenAppend ==
  ASSUME NEW S, NEW ss \in Seq(Seq(S)), NEW s \in Seq(S)
  PROVE  FlattenSeq(Append(ss, s)) = FlattenSeq(ss) \o s /\ FlattenSeq(ss) \in Seq(S)
<1> DEFINE n == Len(ss)
           tt == Append(ss, s)
<1>1. PICK g : Joins(g, ss, S)
  BY JoinsExist
<1>2. /\ n \in Nat /\ tt \in Seq(Seq(S)) /\ Len(tt) = n + 1
      /\ \A i \in 1 .. n : tt[i] = ss[i]
      /\ tt[n + 1] = s
  OBVIOUS
<1>3. FlattenSeq(ss) = g[n] /\ g[n] \in Seq(S)
  <2>1. FlattenSeq(ss) = g[n]
    BY <1>1, JoinsFlatten
  <2>2. g \in [0 .. n -> Seq(S)]
    BY <1>1 DEF Joins
  <2>3. n \in 0 .. n
    BY <1>2
  <2> QED
    BY <2>1, <2>2, <2>3
<1> DEFINE h == [i \in 0 .. n + 1 |-> IF i = n + 1 THEN g[n] \o s ELSE g[i]]
<1>4. g[n] \o s \in Seq(S)
  BY <1>3, ConcatProperties
<1>5. h \in [0 .. n + 1 -> Seq(S)]
  BY <1>1, <1>2, <1>4 DEF Joins
<1>6. (\A i \in 0 .. n : h[i] = g[i]) /\ h[n + 1] = g[n] \o s
  BY <1>2
<1> HIDE DEF tt, h
<1>7. ASSUME NEW i \in 1 .. n + 1
      PROVE  h[i] = h[i - 1] \o tt[i]
  <2>1. CASE i = n + 1
    <3>1. h[n] = g[n] /\ i - 1 = n
      BY <1>2, <1>6, <2>1
    <3> QED
      BY <1>2, <1>6, <2>1, <3>1
  <2>2. CASE i # n + 1
    <3>1. i \in 1 .. n /\ i \in 0 .. n /\ i - 1 \in 0 .. n
      BY <1>2, <2>2
    <3>2. g[i] = g[i - 1] \o ss[i]
      BY <1>1, <3>1 DEF Joins
    <3> QED
      BY <1>2, <1>6, <3>1, <3>2
  <2> QED
    BY <2>1, <2>2
<1>8. h[0] = <<>>
  BY <1>1, <1>2, <1>6 DEF Joins
<1>9. Joins(h, tt, S)
  BY <1>2, <1>5, <1>7, <1>8 DEF Joins
<1>10. FlattenSeq(tt) = h[n + 1]
  BY <1>2, <1>9, JoinsFlatten
<1> QED
  BY <1>3, <1>6, <1>10 DEF tt

LEMMA FlattenEmpty == FlattenSeq(<<>>) = <<>>
BY DEF FlattenSeq

LEMMA AppendMembers ==
  ASSUME NEW S, NEW s \in Seq(S), NEW e \in S
  PROVE  ToSet(Append(s, e)) = ToSet(s) \union {e}
<1>1. /\ Len(s) \in Nat /\ DOMAIN s = 1 .. Len(s) /\ DOMAIN Append(s, e) = 1 .. Len(s) + 1
      /\ Append(s, e)[Len(s) + 1] = e /\ \A a \in 1 .. Len(s) : Append(s, e)[a] = s[a]
  BY AppendProperties, LenProperties
<1>2. 1 .. Len(s) + 1 = (1 .. Len(s)) \union {Len(s) + 1}
  BY <1>1
<1> QED
  BY <1>1, <1>2 DEF ToSet

\* Joining sequences of one element or none: the members, in their order.
LEMMA FlattenPicked ==
  ASSUME NEW S, NEW ss \in Seq(Seq(S)), NEW C \in SUBSET (1 .. Len(ss)), NEW elt \in [1 .. Len(ss) -> S],
         \A i \in 1 .. Len(ss) : ss[i] = IF i \in C THEN <<elt[i]>> ELSE <<>>,
         NEW R \in [S -> Nat], \A i, j \in C : i < j => R[elt[i]] < R[elt[j]]
  PROVE  /\ FlattenSeq(ss) \in Seq(S)
         /\ ToSet(FlattenSeq(ss)) = {elt[i] : i \in C}
         /\ \A a, b \in DOMAIN FlattenSeq(ss) : a < b => R[FlattenSeq(ss)[a]] < R[FlattenSeq(ss)[b]]
<1> DEFINE n == Len(ss)
           Good(s, k) == /\ ToSet(s) = {elt[i] : i \in C \intersect (1 .. k)}
                         /\ \A a, b \in DOMAIN s : a < b => R[s[a]] < R[s[b]]
<1>1. PICK g : Joins(g, ss, S)
  BY JoinsExist
<1>2. n \in Nat /\ \A i \in 0 .. n : g[i] \in Seq(S)
  <2>1. n \in Nat
    OBVIOUS
  <2>2. g \in [0 .. n -> Seq(S)]
    BY <1>1 DEF Joins
  <2> QED
    BY <2>1, <2>2
<1> DEFINE T == {k \in Nat : k <= n => Good(g[k], k)}
<1>3. 0 \in T
  <2>1. g[0] = <<>> /\ C \intersect (1 .. 0) = {}
    BY <1>1 DEF Joins
  <2>2. ToSet(<<>>) = {}
    BY DEF ToSet
  <2>3. {elt[i] : i \in {}} = {}
    OBVIOUS
  <2> QED
    BY <2>1, <2>2, <2>3
<1>4. ASSUME NEW k \in Nat, k \in T
      PROVE  k + 1 \in T
  <2> SUFFICES ASSUME k + 1 <= n
               PROVE  Good(g[k + 1], k + 1)
    OBVIOUS
  <2>1. k + 1 \in 1 .. n /\ k \in 0 .. n /\ k <= n /\ (k + 1) - 1 = k
    BY <1>2
  <2>2. Good(g[k], k)
    BY <1>4, <2>1
  <2>3. g[k + 1] = g[k] \o ss[k + 1] /\ g[k] \in Seq(S)
    BY <1>1, <1>2, <2>1 DEF Joins
  <2>4. CASE k + 1 \notin C
    <3>1. g[k + 1] = g[k]
      BY <2>1, <2>3, <2>4, ConcatEmptySeq
    <3>2. C \intersect (1 .. k + 1) = C \intersect (1 .. k)
      BY <2>4
    <3> QED
      BY <2>2, <3>1, <3>2
  <2>5. CASE k + 1 \in C
    <3> DEFINE e == elt[k + 1]
               s == g[k]
    <3>1. e \in S /\ g[k + 1] = s \o <<e>>
      BY <2>1, <2>3, <2>5
    <3> HIDE DEF e
    <3>2. g[k + 1] = Append(s, e)
      BY <2>3, <3>1, AppendIsConcat
    <3>3. /\ Len(s) \in Nat /\ DOMAIN s = 1 .. Len(s) /\ DOMAIN Append(s, e) = 1 .. Len(s) + 1
          /\ Append(s, e)[Len(s) + 1] = e /\ \A a \in 1 .. Len(s) : Append(s, e)[a] = s[a]
      BY <2>3, <3>1, AppendProperties, LenProperties
    <3>4. ToSet(g[k + 1]) = ToSet(s) \union {e}
      <4>1. s \in Seq(S) /\ e \in S
        BY <2>3, <3>1
      <4> HIDE DEF s
      <4>2. ToSet(Append(s, e)) = ToSet(s) \union {e}
        BY <4>1, AppendMembers
      <4> QED
        BY <3>2, <4>2
    <3>5. C \intersect (1 .. k + 1) = (C \intersect (1 .. k)) \union {k + 1}
      BY <2>5
    <3>6. ToSet(g[k + 1]) = {elt[i] : i \in C \intersect (1 .. k + 1)}
      <4>1. {elt[i] : i \in C \intersect (1 .. k + 1)} = {elt[i] : i \in C \intersect (1 .. k)} \union {elt[k + 1]}
        BY <2>5, <3>5
      <4> QED
        BY <2>2, <3>4, <4>1 DEF e
    <3>7. \A a \in 1 .. Len(s) : R[s[a]] < R[e]
      <4> SUFFICES ASSUME NEW a \in 1 .. Len(s)
                   PROVE  R[s[a]] < R[e]
        OBVIOUS
      <4>1. s[a] \in ToSet(s)
        BY <3>3 DEF ToSet
      <4>2. PICK i \in C \intersect (1 .. k) : s[a] = elt[i]
        BY <2>2, <4>1
      <4>3. i < k + 1
        BY <4>2
      <4> QED
        BY <2>5, <4>2, <4>3 DEF e
    <3>8. ASSUME NEW a \in DOMAIN g[k + 1], NEW b \in DOMAIN g[k + 1], a < b
          PROVE  R[g[k + 1][a]] < R[g[k + 1][b]]
      <4>1. a \in 1 .. Len(s)
        BY <3>2, <3>3, <3>8
      <4>2. CASE b \in 1 .. Len(s)
        BY <2>2, <3>2, <3>3, <3>8, <4>1, <4>2
      <4>3. CASE b = Len(s) + 1
        <5>1. g[k + 1][b] = e /\ g[k + 1][a] = s[a]
          BY <3>2, <3>3, <4>1, <4>3
        <5> QED
          BY <3>7, <4>1, <5>1
      <4>4. b \in 1 .. Len(s) \/ b = Len(s) + 1
        BY <3>2, <3>3
      <4> QED
        BY <4>2, <4>3, <4>4
    <3> QED
      BY <3>6, <3>8
  <2> QED
    BY <2>4, <2>5
<1>5. Nat \subseteq T
  <2> HIDE DEF T
  <2> QED
    BY <1>3, <1>4, SetInduction
<1>6. Good(g[n], n)
  <2>1. n \in T
    <3> HIDE DEF T
    <3> QED
      BY <1>2, <1>5
  <2>2. n <= n
    BY <1>2
  <2> QED
    BY <2>1, <2>2
<1>7. FlattenSeq(ss) = g[n] /\ g[n] \in Seq(S)
  <2>1. n \in 0 .. n
    BY <1>2
  <2> QED
    BY <1>1, <1>2, <2>1, JoinsFlatten
<1>8. C \intersect (1 .. n) = C
  OBVIOUS
<1> QED
  BY <1>6, <1>7, <1>8

-----------------------------------------------------------------------------
\* The events of a read

\* Events of m, in their order, each after the first lo and none after the first hi.
Fresh(es, m, lo, hi) ==
  /\ es \in Seq(SSEEvent)
  /\ \A i \in DOMAIN es : es[i].msg = m /\ es[i].n \in lo + 1 .. hi
  /\ \A i, j \in DOMAIN es : i < j => es[i].n < es[j].n

\* Where the deltas of one kind are.
Chosen(es, part) == {i \in DOMAIN es : es[i].type = part /\ es[i].parsed}

Rising(s) == \A a, b \in DOMAIN s : a < b => s[a][2] < s[b][2]

LEMMA PiecesOfRead ==
  ASSUME NEW es, NEW m \in Messages, NEW lo \in Nat, NEW hi \in Nat, Fresh(es, m, lo, hi), NEW part \in Parts
  PROVE  /\ Pieces(es, part) \in Seq(Piece)
         /\ ToSet(Pieces(es, part)) = {<<m, es[i].n>> : i \in Chosen(es, part)}
         /\ Rising(Pieces(es, part))
<1> DEFINE n   == Len(es)
           C   == Chosen(es, part)
           elt == [i \in 1 .. n |-> <<es[i].msg, es[i].n>>]
           ss  == [i \in DOMAIN es |-> IF es[i].type = part /\ es[i].parsed THEN <<<<es[i].msg, es[i].n>>>> ELSE <<>>]
           R   == [p \in Piece |-> p[2]]
<1>1. n \in Nat /\ DOMAIN es = 1 .. n /\ \A i \in 1 .. n : es[i] \in SSEEvent
  BY LenProperties DEF Fresh
<1>2. \A i \in 1 .. n : <<es[i].msg, es[i].n>> \in Piece
  BY <1>1 DEF SSEEvent, Piece
<1>3. elt \in [1 .. n -> Piece] /\ R \in [Piece -> Nat] /\ C \in SUBSET (1 .. n)
  BY <1>1, <1>2 DEF Piece, Chosen
<1>4. \A i \in 1 .. n : ss[i] = IF i \in C THEN <<elt[i]>> ELSE <<>>
  BY <1>1 DEF Chosen
<1>5. ss \in Seq(Seq(Piece)) /\ Len(ss) = n
  <2>1. \A i \in 1 .. n : ss[i] \in Seq(Piece)
    BY <1>1, <1>2
  <2>2. ss \in [1 .. n -> Seq(Piece)]
    BY <1>1, <2>1
  <2> HIDE DEF ss, n
  <2> QED
    BY <1>1, <2>2
<1>6. \A i, j \in C : i < j => R[elt[i]] < R[elt[j]]
  <2> SUFFICES ASSUME NEW i \in C, NEW j \in C, i < j
               PROVE  R[elt[i]] < R[elt[j]]
    OBVIOUS
  <2>1. i \in 1 .. n /\ j \in 1 .. n
    BY <1>3
  <2>2. R[elt[i]] = es[i].n /\ R[elt[j]] = es[j].n
    BY <1>2, <2>1
  <2> QED
    BY <1>1, <2>1, <2>2 DEF Fresh
<1>7. Pieces(es, part) = FlattenSeq(ss)
  BY DEF Pieces
<1>8. \A i \in C : elt[i] = <<m, es[i].n>>
  BY <1>1, <1>3 DEF Fresh
<1> HIDE DEF ss, elt, R, C
<1>9. /\ FlattenSeq(ss) \in Seq(Piece)
      /\ ToSet(FlattenSeq(ss)) = {elt[i] : i \in C}
      /\ \A a, b \in DOMAIN FlattenSeq(ss) : a < b => R[FlattenSeq(ss)[a]] < R[FlattenSeq(ss)[b]]
  BY <1>3, <1>4, <1>5, <1>6, FlattenPicked
<1>10. Rising(FlattenSeq(ss))
  <2>1. \A a \in DOMAIN FlattenSeq(ss) : FlattenSeq(ss)[a] \in Piece
    BY <1>9
  <2>2. \A p \in Piece : R[p] = p[2]
    BY DEF R
  <2> QED
    BY <1>9, <2>1, <2>2 DEF Rising
<1>11. {elt[i] : i \in C} = {<<m, es[i].n>> : i \in C}
  BY <1>8
<1> QED
  BY <1>7, <1>9, <1>10, <1>11 DEF C

LEMMA NextEventsFresh ==
  ASSUME TypeOK, NEW m \in Messages, NEW n \in Nat, Available(m, n)
  PROVE  /\ Fresh(NextEvents(m, n), m, read[m], read[m] + n)
         /\ Len(NextEvents(m, n)) = n /\ DOMAIN NextEvents(m, n) = 1 .. n
         /\ \A i \in 1 .. n : /\ read[m] + i \in DOMAIN Script[m]
                              /\ NextEvents(m, n)[i] = [type |-> Script[m][read[m] + i], msg |-> m, n |-> read[m] + i,
                                                       parsed |-> TRUE]
<1> DEFINE es == NextEvents(m, n)
<1>1. Script[m] \in Seq(Types) /\ Len(Script[m]) \in Nat /\ read[m] \in Nat
  BY SseAssumption DEF TypeOK
<1>2. \A i \in 1 .. n : read[m] + i \in 1 .. Len(Script[m]) /\ read[m] + i \in Nat \ {0}
  BY <1>1 DEF Available
<1>3. \A i \in 1 .. n : es[i] = [type |-> Script[m][read[m] + i], msg |-> m, n |-> read[m] + i, parsed |-> TRUE]
  BY DEF NextEvents
<1>4. \A i \in 1 .. n : Script[m][read[m] + i] \in Types
  BY <1>1, <1>2
<1>5. ASSUME NEW i \in 1 .. n
      PROVE  es[i] \in SSEEvent /\ es[i].msg = m /\ es[i].n = read[m] + i
  <2>1. es[i] = [type |-> Script[m][read[m] + i], msg |-> m, n |-> read[m] + i, parsed |-> TRUE]
    BY <1>3
  <2>2. Script[m][read[m] + i] \in Types /\ read[m] + i \in Nat \ {0}
    BY <1>2, <1>4
  <2> HIDE DEF es
  <2> QED
    BY <2>1, <2>2 DEF SSEEvent
<1>6. es \in [1 .. n -> SSEEvent]
  BY <1>5 DEF NextEvents
<1> HIDE DEF es
<1>7. es \in Seq(SSEEvent) /\ Len(es) = n /\ DOMAIN es = 1 .. n
  BY <1>6
<1>8. \A i \in 1 .. n : es[i].msg = m /\ es[i].n = read[m] + i
  BY <1>5
<1>9. Fresh(es, m, read[m], read[m] + n)
  BY <1>1, <1>7, <1>8 DEF Fresh
<1> QED
  BY <1>1, <1>2, <1>3, <1>7, <1>9, LenProperties DEF es

LEMMA TornEventsFresh ==
  ASSUME TypeOK, NEW m \in Messages, NEW n \in Nat \ {0}, Available(m, n), NEW es \in TornEvents(m, n)
  PROVE  Fresh(es, m, read[m], read[m] + n) /\ es # NextEvents(m, n)
<1> DEFINE all  == NextEvents(m, n)
           most == NextEvents(m, n - 1)
           last == all[n]
<1>1. read[m] \in Nat /\ n - 1 \in Nat /\ Available(m, n - 1) /\ Len(Script[m]) \in Nat
  BY SseAssumption DEF TypeOK, Available
<1>2. /\ Fresh(all, m, read[m], read[m] + n) /\ DOMAIN all = 1 .. n /\ Len(all) = n
      /\ all[n] = [type |-> Script[m][read[m] + n], msg |-> m, n |-> read[m] + n, parsed |-> TRUE]
      /\ read[m] + n \in DOMAIN Script[m]
  BY NextEventsFresh
<1>3. /\ Fresh(most, m, read[m], read[m] + (n - 1)) /\ DOMAIN most = 1 .. n - 1 /\ Len(most) = n - 1
      /\ most \in Seq(SSEEvent)
  BY <1>1, NextEventsFresh DEF Fresh
<1>4. last \in SSEEvent /\ last.n = read[m] + n /\ last.msg = m /\ last.parsed = TRUE /\ n \in 1 .. n
  BY <1>2 DEF Fresh
<1>5. \/ es = most
      \/ \E type \in {last.type, "other"} : es = Append(most, [last EXCEPT !.type = type, !.parsed = FALSE])
  BY DEF TornEvents
<1> HIDE DEF all, most
<1>6. CASE es = most
  <2>1. \A i \in DOMAIN most : most[i].msg = m /\ most[i].n \in read[m] + 1 .. read[m] + n
    BY <1>1, <1>3 DEF Fresh
  <2>2. Len(es) # Len(all)
    BY <1>2, <1>3, <1>6
  <2> QED
    BY <1>3, <1>6, <2>1, <2>2 DEF Fresh, all
<1>7. ASSUME NEW type \in {last.type, "other"}, es = Append(most, [last EXCEPT !.type = type, !.parsed = FALSE])
      PROVE  Fresh(es, m, read[m], read[m] + n) /\ es # all
  <2> DEFINE e == [last EXCEPT !.type = type, !.parsed = FALSE]
  <2>1. type \in Types
    BY <1>4 DEF SSEEvent, Types
  <2>2. e \in SSEEvent /\ e.msg = m /\ e.n = read[m] + n /\ e.parsed = FALSE
    BY <1>4, <2>1 DEF SSEEvent
  <2> HIDE DEF e
  <2>3. es = Append(most, e)
    BY <1>7 DEF e
  <2>4. /\ es \in Seq(SSEEvent) /\ DOMAIN es = 1 .. n /\ es[n] = e
        /\ \A i \in 1 .. n - 1 : es[i] = most[i]
    <3>1. Len(most) + 1 = n
      BY <1>3
    <3> QED
      BY <1>3, <2>2, <2>3, <3>1, AppendProperties, LenProperties
  <2>5. \A i \in 1 .. n : es[i].msg = m /\ es[i].n \in read[m] + 1 .. read[m] + n
    <3> SUFFICES ASSUME NEW i \in 1 .. n
                 PROVE  es[i].msg = m /\ es[i].n \in read[m] + 1 .. read[m] + n
      OBVIOUS
    <3>1. CASE i = n
      BY <1>1, <2>2, <2>4, <3>1
    <3>2. CASE i # n
      <4>1. i \in 1 .. n - 1
        BY <3>2
      <4>2. most[i].msg = m /\ most[i].n \in read[m] + 1 .. read[m] + (n - 1)
        BY <1>3, <4>1 DEF Fresh
      <4> QED
        BY <1>1, <2>4, <4>1, <4>2
    <3> QED
      BY <3>1, <3>2
  <2>6. \A i, j \in 1 .. n : i < j => es[i].n < es[j].n
    <3> SUFFICES ASSUME NEW i \in 1 .. n, NEW j \in 1 .. n, i < j
                 PROVE  es[i].n < es[j].n
      OBVIOUS
    <3>1. i \in 1 .. n - 1 /\ most[i].n \in read[m] + 1 .. read[m] + (n - 1) /\ es[i] = most[i]
      <4>1. i \in 1 .. n - 1
        OBVIOUS
      <4> QED
        BY <1>3, <2>4, <4>1 DEF Fresh
    <3>2. CASE j = n
      BY <1>1, <2>2, <2>4, <3>1, <3>2
    <3>3. CASE j # n
      <4>1. j \in 1 .. n - 1
        BY <3>3
      <4> QED
        BY <1>3, <2>4, <3>1, <4>1 DEF Fresh
    <3> QED
      BY <3>2, <3>3
  <2>7. es # all
    BY <1>4, <2>2, <2>4
  <2> QED
    BY <2>4, <2>5, <2>6, <2>7 DEF Fresh
<1> QED
  BY <1>5, <1>6, <1>7 DEF all

LEMMA NoMembers ==
  ASSUME NEW S, NEW s \in Seq(S), ToSet(s) = {}
  PROVE  s = <<>>
<1>1. Len(s) \in Nat /\ DOMAIN s = 1 .. Len(s)
  BY LenProperties
<1>2. ~(1 \in DOMAIN s)
  BY DEF ToSet
<1>3. Len(s) = 0
  BY <1>1, <1>2
<1> QED
  BY <1>3, EmptySeq

\* A read without deltas adds nothing.
LEMMA NoPieces ==
  ASSUME NEW es, NEW m \in Messages, NEW lo \in Nat, NEW hi \in Nat, Fresh(es, m, lo, hi), NEW part \in Parts,
         \A i \in DOMAIN es : es[i].type # part
  PROVE  Pieces(es, part) = <<>>
<1>1. Chosen(es, part) = {}
  BY DEF Chosen
<1>2. {<<m, es[i].n>> : i \in Chosen(es, part)} = {}
  BY <1>1
<1>3. Pieces(es, part) \in Seq(Piece) /\ ToSet(Pieces(es, part)) = {<<m, es[i].n>> : i \in Chosen(es, part)}
  BY PiecesOfRead
<1>4. ToSet(Pieces(es, part)) = {}
  BY <1>2, <1>3
<1> QED
  BY <1>3, <1>4, NoMembers

LEMMA StartIdsTyped ==
  ASSUME NEW es \in Seq(SSEEvent)
  PROVE  /\ StartIds(es) \subseteq Messages
         /\ StartIds(es) # {} => (CHOOSE m \in StartIds(es) : TRUE) \in StartIds(es)
<1>1. \A e \in ToSet(es) : e \in SSEEvent
  BY DEF ToSet
<1>2. StartIds(es) \subseteq Messages
  BY <1>1 DEF StartIds, SSEEvent
<1> QED
  BY <1>2

TypesOf(es) == {es[i].type : i \in DOMAIN es}

LEMMA AccumulateTyped ==
  ASSUME NEW acc \in Accumulator, NEW es, NEW m \in Messages, NEW lo \in Nat, NEW hi \in Nat, Fresh(es, m, lo, hi)
  PROVE  /\ Accumulate(acc, es) \in Accumulator
         /\ \A part \in Parts : Accumulate(acc, es).content[part] = acc.content[part] \o Pieces(es, part)
         /\ ToSet(Accumulate(acc, es).events) = ToSet(acc.events) \union TypesOf(es)
<1> DEFINE new == Accumulate(acc, es)
           ty  == [i \in DOMAIN es |-> es[i].type]
           id  == IF acc.message_id = NoId /\ StartIds(es) # {} THEN CHOOSE x \in StartIds(es) : TRUE
                  ELSE acc.message_id
           co  == [part \in Parts |-> acc.content[part] \o Pieces(es, part)]
<1>1. es \in Seq(SSEEvent) /\ Len(es) \in Nat /\ DOMAIN es = 1 .. Len(es) /\ \A i \in DOMAIN es : es[i] \in SSEEvent
  BY LenProperties DEF Fresh
<1>2. acc.message_id \in Messages \union {NoId} /\ acc.content \in [Parts -> Seq(Piece)] /\ acc.events \in Seq(Types)
  BY DEF Accumulator
<1>3. id \in Messages \union {NoId}
  BY <1>1, <1>2, StartIdsTyped
<1>4. \A part \in Parts : acc.content[part] \o Pieces(es, part) \in Seq(Piece)
  BY <1>2, PiecesOfRead, ConcatProperties
<1>5. co \in [Parts -> Seq(Piece)]
  BY <1>4
<1>6. ty \in Seq(Types) /\ ToSet(ty) = TypesOf(es)
  <2>1. \A i \in DOMAIN es : es[i].type \in Types
    BY <1>1 DEF SSEEvent
  <2>2. ty \in [1 .. Len(es) -> Types]
    BY <1>1, <2>1
  <2>3. ToSet(ty) = TypesOf(es)
    BY DEF ToSet, TypesOf
  <2> HIDE DEF ty
  <2> QED
    BY <1>1, <2>2, <2>3
<1>7. new = [message_id |-> id, content |-> co, events |-> acc.events \o ty]
  BY DEF Accumulate
<1> HIDE DEF ty, id, co
<1>8. acc.events \o ty \in Seq(Types) /\ ToSet(acc.events \o ty) = ToSet(acc.events) \union TypesOf(es)
  BY <1>2, <1>6, ConcatProperties, ConcatMembers
<1>9. new.message_id = id /\ new.content = co /\ new.events = acc.events \o ty
  BY <1>7
<1>10. \A part \in Parts : co[part] = acc.content[part] \o Pieces(es, part)
  BY DEF co
<1>11. new \in Accumulator
  BY <1>3, <1>5, <1>7, <1>8 DEF Accumulator
<1> QED
  BY <1>8, <1>9, <1>10, <1>11

LEMMA EmptyTyped == Empty \in Accumulator /\ (\A part \in Parts : Empty.content[part] = <<>>) /\ Content(Empty) = {}
<1>1. [part \in Parts |-> <<>>] \in [Parts -> Seq(Piece)] /\ <<>> \in Seq(Types)
  OBVIOUS
<1>2. Empty \in Accumulator /\ \A part \in Parts : Empty.content[part] = <<>>
  BY <1>1 DEF Empty, Accumulator
<1>3. ToSet(<<>>) = {}
  BY DEF ToSet
<1> QED
  BY <1>2, <1>3 DEF Content

\* The accumulator that a read comes to, before and after.
Before(k) == IF k \in DOMAIN sse_buffers THEN sse_buffers[k] ELSE Empty
After(k, es) == Accumulate(Before(k), es)

Lands(t, es, k) ==
  /\ k \in AccumulatorsFor(t, es)
  /\ sse_buffers' = Store(k, After(k, es))
  /\ merged' = IF IsComplete(After(k, es)) /\ HasMeaningfulContent(After(k, es))
               THEN Append(merged, [thread |-> t, acc |-> After(k, es)]) ELSE merged

\* What a read does to the accumulators.
LEMMA DeliverCases ==
  ASSUME TypeOK, NEW m \in Messages, NEW n \in Nat, NEW es, Fresh(es, m, read[m], read[m] + n), Deliver(m, n, es)
  PROVE  \/ UNCHANGED <<sse_buffers, merged>> /\ (\A part \in Parts : Pieces(es, part) = <<>>)
           /\ (es = <<>> \/ \A i \in DOMAIN es : es[i].type = "meta")
         \/ \E k \in AccumulatorsFor(ThreadOf[m], es) : Lands(ThreadOf[m], es, k)
<1>1. read[m] \in Nat /\ read[m] + n \in Nat
  BY DEF TypeOK
<1>2. CASE es = <<>>
  <2>1. \A part \in Parts : Pieces(es, part) = <<>>
    BY <1>1, <1>2, NoPieces
  <2> QED
    BY <1>2, <2>1 DEF Deliver
<1>3. CASE es # <<>> /\ Skipped(ThreadOf[m], es)
  <2>1. \A i \in DOMAIN es : es[i].type = "meta"
    BY <1>3 DEF Skipped, ToSet
  <2>2. \A part \in Parts : part # "meta"
    BY DEF Parts
  <2>3. \A part \in Parts : Pieces(es, part) = <<>>
    BY <1>1, <2>1, <2>2, NoPieces
  <2> QED
    BY <1>3, <2>1, <2>3 DEF Deliver, Process
<1>4. CASE es # <<>> /\ ~Skipped(ThreadOf[m], es)
  BY <1>4 DEF Deliver, Process, Lands, Before, After
<1> QED
  BY <1>2, <1>3, <1>4

LEMMA AccumulatorsTyped ==
  ASSUME TypeOK, NEW es \in Seq(SSEEvent), NEW t \in Threads, NEW k \in AccumulatorsFor(t, es)
  PROVE  k \in Keys /\ k[1] = t
<1>1. ConnectionId(t, es) \in Keys /\ ConnectionId(t, es)[1] = t
  BY StartIdsTyped DEF ConnectionId, Keys
<1>2. k = ConnectionId(t, es) \/ (k \in DOMAIN sse_buffers /\ k[1] = t)
  BY DEF AccumulatorsFor
<1> QED
  BY <1>1, <1>2 DEF TypeOK

LEMMA BeforeTyped ==
  ASSUME TypeOK, NEW k
  PROVE  Before(k) \in Accumulator
BY EmptyTyped DEF TypeOK, Before

LEMMA AfterTyped ==
  ASSUME TypeOK, NEW k, NEW es, NEW m \in Messages, NEW n \in Nat, Fresh(es, m, read[m], read[m] + n)
  PROVE  /\ After(k, es) \in Accumulator
         /\ \A part \in Parts : After(k, es).content[part] = Before(k).content[part] \o Pieces(es, part)
         /\ ToSet(After(k, es).events) = ToSet(Before(k).events) \union TypesOf(es)
<1>1. read[m] \in Nat /\ read[m] + n \in Nat /\ Before(k) \in Accumulator
  BY BeforeTyped DEF TypeOK
<1> QED
  BY <1>1, AccumulateTyped DEF After

\* The map after a read.
LEMMA StoreKeys ==
  ASSUME NEW k, NEW acc
  PROVE  /\ IsComplete(acc) => /\ DOMAIN Store(k, acc) = DOMAIN sse_buffers \ {k}
                               /\ \A x \in DOMAIN sse_buffers \ {k} : Store(k, acc)[x] = sse_buffers[x]
         /\ ~IsComplete(acc) => /\ DOMAIN Store(k, acc) = DOMAIN sse_buffers \union {k}
                                /\ Store(k, acc)[k] = acc
                                /\ \A x \in DOMAIN sse_buffers \ {k} : Store(k, acc)[x] = sse_buffers[x]
BY DEF Store

\* What any step is: a read of some events of one message.
LEMMA StepCases ==
  ASSUME TypeOK, Next
  PROVE  \E m \in Messages : \E n \in 1 .. MaxRead : \E es :
           /\ Available(m, n) /\ Deliver(m, n, es) /\ Fresh(es, m, read[m], read[m] + n)
           /\ torn' \in 0 .. MaxTorn
<1>1. PICK m \in Messages, n \in 1 .. MaxRead : Read(m, n) \/ ReadTorn(m, n)
  BY DEF Next
<1>2. n \in Nat \ {0} /\ MaxTorn \in Nat /\ torn \in 0 .. MaxTorn
  BY SseAssumption DEF TypeOK
<1>3. CASE Read(m, n)
  <2>1. Fresh(NextEvents(m, n), m, read[m], read[m] + n)
    BY <1>2, <1>3, NextEventsFresh DEF Read
  <2> QED
    BY <1>2, <1>3, <2>1 DEF Read
<1>4. CASE ReadTorn(m, n)
  <2>1. PICK es \in TornEvents(m, n) : Deliver(m, n, es)
    BY <1>4 DEF ReadTorn
  <2>2. Available(m, n) /\ torn' = torn + 1 /\ torn < MaxTorn
    BY <1>4 DEF ReadTorn
  <2>3. Fresh(es, m, read[m], read[m] + n)
    BY <1>2, <2>2, TornEventsFresh
  <2> QED
    BY <1>2, <2>1, <2>2, <2>3
<1> QED
  BY <1>1, <1>3, <1>4

LEMMA TypesAtFirst == Init => TypeOK
<1> SUFFICES ASSUME Init
             PROVE  TypeOK
  OBVIOUS
<1>1. read \in [Messages -> Nat] /\ \A m \in Messages : read[m] <= Len(Script[m])
  <2>1. \A m \in Messages : Script[m] \in Seq(Types)
    BY SseAssumption
  <2>2. \A m \in Messages : Len(Script[m]) \in Nat
    BY <2>1, LenProperties
  <2> QED
    BY <2>2 DEF Init
<1>2. torn \in 0 .. MaxTorn
  BY SseAssumption DEF Init
<1>3. DOMAIN sse_buffers = {} /\ sse_buffers \in [DOMAIN sse_buffers -> Accumulator]
  BY DEF Init
<1>4. merged \in Seq([thread : Threads, acc : Accumulator])
  BY DEF Init
<1>5. fed \in [Threads -> [Parts -> Seq(Piece)]]
  BY DEF Init
<1> QED
  BY <1>1, <1>2, <1>3, <1>4, <1>5 DEF Init, TypeOK

LEMMA DeliverTypes ==
  ASSUME TypeOK, NEW m \in Messages, NEW n \in Nat, Available(m, n), NEW es, Fresh(es, m, read[m], read[m] + n),
         Deliver(m, n, es), torn' \in 0 .. MaxTorn
  PROVE  TypeOK'
<1> DEFINE t == ThreadOf[m]
           Merged == [thread : Threads, acc : Accumulator]
<1>1. t \in Threads /\ es \in Seq(SSEEvent)
  BY SseAssumption DEF Fresh
<1>2. read' \in [Messages -> Nat] /\ \A l \in Messages : read'[l] <= Len(Script[l])
  <2>1. read' = [read EXCEPT ![m] = read[m] + n]
    BY DEF Deliver
  <2> QED
    BY <2>1 DEF TypeOK, Available
<1>3. fed' \in [Threads -> [Parts -> Seq(Piece)]]
  <2>1. fed[t] \in [Parts -> Seq(Piece)] /\ fed \in [Threads -> [Parts -> Seq(Piece)]]
    BY <1>1 DEF TypeOK
  <2>2. \A part \in Parts : Pieces(es, part) \in Seq(Piece)
    <3>1. read[m] \in Nat /\ read[m] + n \in Nat
      BY DEF TypeOK
    <3> QED
      BY <3>1, PiecesOfRead
  <2>3. \A part \in Parts : fed[t][part] \o Pieces(es, part) \in Seq(Piece)
    BY <2>1, <2>2, ConcatProperties
  <2>4. fed' = [fed EXCEPT ![t] = [part \in Parts |-> fed[t][part] \o Pieces(es, part)]]
    BY DEF Deliver
  <2> HIDE DEF t
  <2> QED
    BY <2>1, <2>3, <2>4
<1>4. disturbed' \subseteq Threads
  BY <1>1 DEF Deliver, TypeOK
<1>5. ASSUME NEW k \in AccumulatorsFor(t, es), Lands(t, es, k)
      PROVE  /\ DOMAIN sse_buffers' \subseteq Keys
             /\ sse_buffers' \in [DOMAIN sse_buffers' -> Accumulator]
             /\ merged' \in Seq(Merged)
  <2> DEFINE acc == After(k, es)
  <2>1. acc \in Accumulator /\ k \in Keys
    BY <1>1, <1>5, AfterTyped, AccumulatorsTyped
  <2>2. sse_buffers' = Store(k, acc)
    BY <1>5 DEF Lands
  <2> HIDE DEF acc
  <2>3. /\ DOMAIN sse_buffers' \subseteq Keys
        /\ \A x \in DOMAIN sse_buffers' : sse_buffers'[x] \in Accumulator
    <3>1. DOMAIN sse_buffers \subseteq Keys /\ \A x \in DOMAIN sse_buffers : sse_buffers[x] \in Accumulator
      BY DEF TypeOK
    <3>2. CASE IsComplete(acc)
      <4>1. DOMAIN sse_buffers' = DOMAIN sse_buffers \ {k}
        BY <2>2, <3>2, StoreKeys
      <4>2. \A x \in DOMAIN sse_buffers \ {k} : sse_buffers'[x] = sse_buffers[x]
        BY <2>2, <3>2, StoreKeys
      <4> QED
        BY <3>1, <4>1, <4>2
    <3>3. CASE ~IsComplete(acc)
      <4>1. DOMAIN sse_buffers' = DOMAIN sse_buffers \union {k} /\ sse_buffers'[k] = acc
        BY <2>2, <3>3, StoreKeys
      <4>2. \A x \in DOMAIN sse_buffers \ {k} : sse_buffers'[x] = sse_buffers[x]
        BY <2>2, <3>3, StoreKeys
      <4> QED
        BY <2>1, <3>1, <4>1, <4>2
    <3> QED
      BY <3>2, <3>3
  <2>5. sse_buffers' = [x \in DOMAIN sse_buffers' |-> sse_buffers'[x]]
    BY <2>2 DEF Store
  <2>6. sse_buffers' \in [DOMAIN sse_buffers' -> Accumulator]
    BY <2>3, <2>5
  <2>7. merged' \in Seq(Merged)
    <3>1. [thread |-> t, acc |-> acc] \in Merged
      BY <1>1, <2>1
    <3>2. merged' = Append(merged, [thread |-> t, acc |-> acc]) \/ merged' = merged
      BY <1>5 DEF Lands, acc
    <3>3. merged \in Seq(Merged)
      BY DEF TypeOK
    <3> HIDE DEF Merged
    <3> QED
      BY <3>1, <3>2, <3>3, AppendProperties
  <2> QED
    BY <2>3, <2>6, <2>7
<1>6. CASE UNCHANGED <<sse_buffers, merged>>
  BY <1>2, <1>3, <1>4, <1>6 DEF TypeOK
<1>7. CASE \E k \in AccumulatorsFor(t, es) : Lands(t, es, k)
  BY <1>2, <1>3, <1>4, <1>5, <1>7 DEF TypeOK
<1> QED
  BY <1>6, <1>7, DeliverCases

LEMMA StepTypes ==
  ASSUME TypeOK, [Next]_vars
  PROVE  TypeOK'
<1>1. CASE Next
  BY <1>1, StepCases, DeliverTypes
<1>2. CASE UNCHANGED vars
  BY <1>2 DEF TypeOK, vars
<1> QED
  BY <1>1, <1>2

\* Every variable of the SSE processor stays within its type: each accumulator has
\* a key of its thread, and an id that was seen or none (process of SSEProcessor).
THEOREM SseTypes == Spec => []TypeOK
<1>1. TypeOK /\ [Next]_vars => TypeOK'
  BY StepTypes
<1> QED
  BY TypesAtFirst, <1>1, PTL DEF Spec

-----------------------------------------------------------------------------
\* Where content is

MergedWith(piece) == {i \in DOMAIN merged : piece \in Content(merged[i].acc)}
HeldWith(piece) == {k \in DOMAIN sse_buffers : piece \in Content(sse_buffers[k])}

OnePlace(piece) ==
  \/ HeldWith(piece) = {} /\ \E i : MergedWith(piece) = {i}
  \/ MergedWith(piece) = {} /\ \E k : HeldWith(piece) = {k}

WasRead(piece) == piece[2] <= read[piece[1]]

\* Every piece of content was read, what was read is in one place, and an
\* accumulator with content is worth passing on.
Kept ==
  /\ \A t \in Threads, part \in Parts : \A piece \in ToSet(fed[t][part]) : WasRead(piece) /\ OnePlace(piece)
  /\ \A i \in DOMAIN merged : \A piece \in Content(merged[i].acc) : WasRead(piece)
  /\ \A k \in DOMAIN sse_buffers :
       /\ \A piece \in Content(sse_buffers[k]) : WasRead(piece)
       /\ Content(sse_buffers[k]) # {} => Parts \intersect ToSet(sse_buffers[k].events) # {}

LEMMA OnePlaceCopies ==
  ASSUME NEW piece, OnePlace(piece)
  PROVE  Copies(piece) = 1
<1>1. Copies(piece) = Cardinality(MergedWith(piece)) + Cardinality(HeldWith(piece))
  BY DEF Copies, MergedWith, HeldWith
<1>2. Cardinality({}) = 0 /\ \A x : Cardinality({x}) = 1
  BY FS_EmptySet, FS_Singleton
<1>3. CASE HeldWith(piece) = {} /\ \E i : MergedWith(piece) = {i}
  <2>1. Cardinality(MergedWith(piece)) = 1 /\ Cardinality(HeldWith(piece)) = 0
    BY <1>2, <1>3
  <2> QED
    BY <1>1, <2>1
<1>4. CASE MergedWith(piece) = {} /\ \E k : HeldWith(piece) = {k}
  <2>1. Cardinality(MergedWith(piece)) = 0 /\ Cardinality(HeldWith(piece)) = 1
    BY <1>2, <1>4
  <2> QED
    BY <1>1, <2>1
<1> QED
  BY <1>3, <1>4 DEF OnePlace

\* What a read adds to an accumulator.
New(es) == UNION {ToSet(Pieces(es, part)) : part \in Parts}

LEMMA NewUnread ==
  ASSUME NEW es, NEW m \in Messages, NEW lo \in Nat, NEW hi \in Nat, Fresh(es, m, lo, hi), NEW piece \in New(es)
  PROVE  /\ piece[1] = m /\ piece[2] \in lo + 1 .. hi
         /\ Parts \intersect TypesOf(es) # {}
<1>1. PICK part \in Parts : piece \in ToSet(Pieces(es, part))
  BY DEF New
<1>2. PICK i \in Chosen(es, part) : piece = <<m, es[i].n>>
  BY <1>1, PiecesOfRead
<1>3. i \in DOMAIN es /\ es[i].type = part
  BY <1>2 DEF Chosen
<1>4. part \in TypesOf(es)
  BY <1>3 DEF TypesOf
<1> QED
  BY <1>2, <1>3, <1>4 DEF Fresh

LEMMA AfterContent ==
  ASSUME TypeOK, NEW k, NEW es, NEW m \in Messages, NEW n \in Nat, Fresh(es, m, read[m], read[m] + n)
  PROVE  Content(After(k, es)) = Content(Before(k)) \union New(es)
<1>1. Before(k) \in Accumulator /\ read[m] \in Nat /\ read[m] + n \in Nat
  BY BeforeTyped DEF TypeOK
<1>2. ASSUME NEW part \in Parts
      PROVE  ToSet(After(k, es).content[part]) = ToSet(Before(k).content[part]) \union ToSet(Pieces(es, part))
  <2>1. Before(k).content[part] \in Seq(Piece)
    BY <1>1 DEF Accumulator
  <2>2. Pieces(es, part) \in Seq(Piece)
    BY <1>1, PiecesOfRead
  <2>3. After(k, es).content[part] = Before(k).content[part] \o Pieces(es, part)
    BY AfterTyped
  <2> QED
    BY <2>1, <2>2, <2>3, ConcatMembers
<1> QED
  BY <1>2 DEF Content, New

\* An accumulator with content is worth passing on after a read too.
LEMMA AfterMeaningful ==
  ASSUME TypeOK, Kept, NEW k, NEW es, NEW m \in Messages, NEW n \in Nat, Fresh(es, m, read[m], read[m] + n),
         Content(After(k, es)) # {}
  PROVE  Parts \intersect ToSet(After(k, es).events) # {}
<1>1. ToSet(After(k, es).events) = ToSet(Before(k).events) \union TypesOf(es)
  BY AfterTyped
<1>2. CASE New(es) # {}
  <2>1. read[m] \in Nat /\ read[m] + n \in Nat
    BY DEF TypeOK
  <2> QED
    BY <1>1, <1>2, <2>1, NewUnread
<1>3. CASE Content(Before(k)) # {}
  <2>1. k \in DOMAIN sse_buffers
    BY <1>3, EmptyTyped DEF Before
  <2> QED
    BY <1>1, <1>3, <2>1 DEF Before, Kept
<1> QED
  BY <1>2, <1>3, AfterContent

\* How a read moves a piece of content.
LEMMA Moved ==
  ASSUME TypeOK, Kept, NEW t, NEW k, NEW es, NEW m \in Messages, NEW n \in Nat, Fresh(es, m, read[m], read[m] + n),
         Lands(t, es, k), NEW p
  PROVE  /\ p \in Content(After(k, es)) <=> k \in HeldWith(p) \/ p \in New(es)
         /\ (IsComplete(After(k, es)) /\ p \in Content(After(k, es))) =>
              MergedWith(p)' = MergedWith(p) \union {Len(merged) + 1} /\ HeldWith(p)' = HeldWith(p) \ {k}
         /\ (IsComplete(After(k, es)) /\ p \notin Content(After(k, es))) =>
              MergedWith(p)' = MergedWith(p) /\ HeldWith(p)' = HeldWith(p) \ {k}
         /\ ~IsComplete(After(k, es)) =>
              /\ MergedWith(p)' = MergedWith(p)
              /\ HeldWith(p)' = IF p \in Content(After(k, es)) THEN HeldWith(p) \union {k} ELSE HeldWith(p) \ {k}
<1> DEFINE acc == After(k, es)
           r   == [thread |-> t, acc |-> acc]
<1>1. p \in Content(acc) <=> k \in HeldWith(p) \/ p \in New(es)
  <2>1. p \in Content(Before(k)) <=> k \in HeldWith(p)
    BY EmptyTyped DEF Before, HeldWith
  <2> QED
    BY <2>1, AfterContent
<1>2. sse_buffers' = Store(k, acc)
  BY DEF Lands
<1>3. p \in Content(acc) => HasMeaningfulContent(acc)
  BY AfterMeaningful DEF HasMeaningfulContent
<1>4. merged' = IF IsComplete(acc) /\ HasMeaningfulContent(acc) THEN Append(merged, r) ELSE merged
  BY DEF Lands
<1>5. merged \in Seq([thread : Threads, acc : Accumulator]) /\ Len(merged) \in Nat /\ DOMAIN merged = 1 .. Len(merged)
  BY LenProperties DEF TypeOK
<1>6. r.acc = acc
  OBVIOUS
<1> HIDE DEF acc, r
<1>7. merged' = merged => MergedWith(p)' = MergedWith(p)
  BY DEF MergedWith
<1>8. ASSUME merged' = Append(merged, r)
      PROVE  MergedWith(p)' = IF p \in Content(acc) THEN MergedWith(p) \union {Len(merged) + 1} ELSE MergedWith(p)
  <2>1. DOMAIN merged' = 1 .. Len(merged) + 1 /\ merged'[Len(merged) + 1] = r
    BY <1>5, <1>8
  <2>2. \A i \in 1 .. Len(merged) : merged'[i] = merged[i]
    BY <1>5, <1>8
  <2>3. MergedWith(p)' = {i \in 1 .. Len(merged) + 1 : p \in Content(merged'[i].acc)}
    <3>1. MergedWith(p)' = {i \in DOMAIN merged' : p \in Content(merged'[i].acc)}
      BY DEF MergedWith, Content
    <3> QED
      BY <2>1, <3>1
  <2>4. MergedWith(p) = {i \in 1 .. Len(merged) : p \in Content(merged[i].acc)}
    BY <1>5 DEF MergedWith
  <2>5. \A i \in 1 .. Len(merged) : p \in Content(merged'[i].acc) <=> p \in Content(merged[i].acc)
    BY <2>2
  <2>6. p \in Content(merged'[Len(merged) + 1].acc) <=> p \in Content(acc)
    BY <1>6, <2>1
  <2> QED
    BY <1>5, <2>3, <2>4, <2>5, <2>6
<1>9. CASE IsComplete(acc)
  <2>1. DOMAIN sse_buffers' = DOMAIN sse_buffers \ {k} /\ \A x \in DOMAIN sse_buffers \ {k} : sse_buffers'[x] = sse_buffers[x]
    BY <1>2, <1>9, StoreKeys
  <2>2. HeldWith(p)' = HeldWith(p) \ {k}
    <3>1. HeldWith(p)' = {x \in DOMAIN sse_buffers' : p \in Content(sse_buffers'[x])}
      BY DEF HeldWith, Content
    <3> QED
      BY <2>1, <3>1 DEF HeldWith
  <2> QED
    BY <1>1, <1>3, <1>4, <1>7, <1>8, <1>9, <2>2 DEF acc
<1>10. CASE ~IsComplete(acc)
  <2>1. /\ DOMAIN sse_buffers' = DOMAIN sse_buffers \union {k} /\ sse_buffers'[k] = acc
        /\ \A x \in DOMAIN sse_buffers \ {k} : sse_buffers'[x] = sse_buffers[x]
    BY <1>2, <1>10, StoreKeys
  <2>2. HeldWith(p)' = IF p \in Content(acc) THEN HeldWith(p) \union {k} ELSE HeldWith(p) \ {k}
    <3>1. HeldWith(p)' = {x \in DOMAIN sse_buffers' : p \in Content(sse_buffers'[x])}
      BY DEF HeldWith, Content
    <3> QED
      BY <2>1, <3>1 DEF HeldWith
  <2> QED
    BY <1>1, <1>4, <1>7, <1>10, <2>2 DEF acc
<1> QED
  BY <1>9, <1>10 DEF acc

\* A piece that was in one place and not read again, or was in none and is read, is in one place.
LEMMA StaysInOnePlace ==
  ASSUME TypeOK, Kept, NEW t, NEW k, NEW es, NEW m \in Messages, NEW n \in Nat, Fresh(es, m, read[m], read[m] + n),
         Lands(t, es, k), NEW p,
         IF p \in New(es) THEN HeldWith(p) = {} /\ MergedWith(p) = {} ELSE OnePlace(p)
  PROVE  OnePlace(p)'
<1> DEFINE acc == After(k, es)
<1> HIDE DEF acc
<1>1. /\ p \in Content(acc) <=> k \in HeldWith(p) \/ p \in New(es)
      /\ (IsComplete(acc) /\ p \in Content(acc)) =>
           MergedWith(p)' = MergedWith(p) \union {Len(merged) + 1} /\ HeldWith(p)' = HeldWith(p) \ {k}
      /\ (IsComplete(acc) /\ p \notin Content(acc)) =>
           MergedWith(p)' = MergedWith(p) /\ HeldWith(p)' = HeldWith(p) \ {k}
      /\ ~IsComplete(acc) =>
           /\ MergedWith(p)' = MergedWith(p)
           /\ HeldWith(p)' = IF p \in Content(acc) THEN HeldWith(p) \union {k} ELSE HeldWith(p) \ {k}
  BY Moved DEF acc
<1>2. OnePlace(p)' <=> (HeldWith(p)' = {} /\ \E i : MergedWith(p)' = {i})
                      \/ (MergedWith(p)' = {} /\ \E j : HeldWith(p)' = {j})
  BY DEF OnePlace
<1>3. CASE p \in Content(acc)
  <2>1. MergedWith(p) = {} /\ (HeldWith(p) = {} \/ HeldWith(p) = {k})
    BY <1>1, <1>3 DEF OnePlace
  <2>2. CASE IsComplete(acc)
    <3>1. MergedWith(p)' = {Len(merged) + 1} /\ HeldWith(p)' = {}
      BY <1>1, <1>3, <2>1, <2>2
    <3> QED
      BY <1>2, <3>1
  <2>3. CASE ~IsComplete(acc)
    <3>1. MergedWith(p)' = {} /\ HeldWith(p)' = {k}
      BY <1>1, <1>3, <2>1, <2>3
    <3> QED
      BY <1>2, <3>1
  <2> QED
    BY <2>2, <2>3
<1>4. CASE p \notin Content(acc)
  <2>1. k \notin HeldWith(p) /\ OnePlace(p)
    BY <1>1, <1>4
  <2>2. MergedWith(p)' = MergedWith(p) /\ HeldWith(p)' = HeldWith(p)
    BY <1>1, <1>4, <2>1
  <2> QED
    BY <1>2, <2>1, <2>2 DEF OnePlace
<1> QED
  BY <1>3, <1>4

\* What was read stays read.
LEMMA ReadMore ==
  ASSUME TypeOK, NEW m \in Messages, NEW n \in Nat, Available(m, n), NEW es, Deliver(m, n, es)
  PROVE  /\ \A l \in Messages : read[l] \in Nat /\ read'[l] = IF l = m THEN read[l] + n ELSE read[l]
         /\ \A p \in Piece : WasRead(p) => WasRead(p)'
<1>1. read' = [read EXCEPT ![m] = @ + n]
  BY DEF Deliver
<1>2. m \in DOMAIN read
  BY DEF TypeOK
<1> QED
  BY <1>1, <1>2 DEF TypeOK, WasRead, Piece

LEMMA KeptAtFirst == Init => Kept
BY DEF Init, Kept, ToSet

\* What a thread has read, after a read.
LEMMA FedMore ==
  ASSUME TypeOK, NEW m \in Messages, NEW n \in Nat, NEW es, Fresh(es, m, read[m], read[m] + n), Deliver(m, n, es),
         NEW t \in Threads, NEW part \in Parts
  PROVE  /\ fed[t][part] \in Seq(Piece) /\ Pieces(es, part) \in Seq(Piece)
         /\ fed'[t][part] = IF t = ThreadOf[m] THEN fed[t][part] \o Pieces(es, part) ELSE fed[t][part]
<1>1. fed' = [fed EXCEPT ![ThreadOf[m]] = [x \in Parts |-> fed[ThreadOf[m]][x] \o Pieces(es, x)]]
  BY DEF Deliver
<1>2. fed \in [Threads -> [Parts -> Seq(Piece)]] /\ read[m] \in Nat /\ read[m] + n \in Nat
  BY DEF TypeOK
<1>3. fed[t] \in [Parts -> Seq(Piece)]
  BY <1>2
<1>4. fed[t][part] \in Seq(Piece) /\ Pieces(es, part) \in Seq(Piece)
  BY <1>2, <1>3, PiecesOfRead
<1>5. fed'[t] = IF t = ThreadOf[m] THEN [x \in Parts |-> fed[t][x] \o Pieces(es, x)] ELSE fed[t]
  BY <1>1, <1>2
<1> QED
  BY <1>4, <1>5

LEMMA FedOfReader ==
  ASSUME TypeOK, NEW m \in Messages, NEW n \in Nat, NEW es, Fresh(es, m, read[m], read[m] + n), Deliver(m, n, es),
         NEW part \in Parts
  PROVE  /\ fed[ThreadOf[m]][part] \in Seq(Piece) /\ Pieces(es, part) \in Seq(Piece)
         /\ fed'[ThreadOf[m]][part] = fed[ThreadOf[m]][part] \o Pieces(es, part)
<1>1. ThreadOf[m] \in Threads
  BY SseAssumption
<1>2. fed[ThreadOf[m]][part] \in Seq(Piece) /\ Pieces(es, part) \in Seq(Piece)
  BY <1>1, FedMore
<1>3. fed' = [fed EXCEPT ![ThreadOf[m]] = [x \in Parts |-> fed[ThreadOf[m]][x] \o Pieces(es, x)]]
  BY DEF Deliver
<1>4. fed \in [Threads -> [Parts -> Seq(Piece)]]
  BY DEF TypeOK
<1>5. fed'[ThreadOf[m]] = [x \in Parts |-> fed[ThreadOf[m]][x] \o Pieces(es, x)]
  BY <1>1, <1>3, <1>4
<1> QED
  BY <1>2, <1>5

\* What is read is in no place yet.
LEMMA NewNowhere ==
  ASSUME TypeOK, Kept, NEW es, NEW m \in Messages, NEW n \in Nat, Fresh(es, m, read[m], read[m] + n), NEW p \in New(es)
  PROVE  HeldWith(p) = {} /\ MergedWith(p) = {} /\ ~WasRead(p) /\ p \in Piece
<1>1. read[m] \in Nat /\ read[m] + n \in Nat
  BY DEF TypeOK
<1>2. p[1] = m /\ p[2] \in read[m] + 1 .. read[m] + n
  BY <1>1, NewUnread
<1>3. ~WasRead(p)
  BY <1>1, <1>2 DEF WasRead
<1>4. HeldWith(p) = {} /\ MergedWith(p) = {}
  BY <1>3 DEF Kept, HeldWith, MergedWith
<1>5. p \in Piece
  <2>1. PICK part \in Parts : p \in ToSet(Pieces(es, part))
    BY DEF New
  <2>2. Pieces(es, part) \in Seq(Piece)
    BY <1>1, PiecesOfRead
  <2> QED
    BY <2>1, <2>2 DEF ToSet
<1> QED
  BY <1>3, <1>4, <1>5

LEMMA ContentTyped ==
  ASSUME NEW acc \in Accumulator
  PROVE  Content(acc) \subseteq Piece
<1>1. \A part \in Parts : acc.content[part] \in Seq(Piece)
  BY DEF Accumulator
<1> QED
  BY <1>1 DEF Content, ToSet

LEMMA MergedTyped ==
  ASSUME TypeOK, NEW i \in DOMAIN merged
  PROVE  merged[i].thread \in Threads /\ merged[i].acc \in Accumulator
<1> DEFINE Merged == [thread : Threads, acc : Accumulator]
<1>1. merged \in Seq(Merged)
  BY DEF TypeOK
<1>2. merged[i] \in Merged
  <2> HIDE DEF Merged
  <2> QED
    BY <1>1, LenProperties
<1> QED
  BY <1>2

LEMMA DeliverKept ==
  ASSUME TypeOK, Kept, NEW m \in Messages, NEW n \in Nat, Available(m, n), NEW es,
         Fresh(es, m, read[m], read[m] + n), Deliver(m, n, es)
  PROVE  Kept'
<1> DEFINE t == ThreadOf[m]
<1>1. t \in Threads /\ es \in Seq(SSEEvent)
  BY SseAssumption DEF Fresh
<1>2. \A p \in Piece : WasRead(p) => WasRead(p)'
  BY ReadMore
<1>3. \A p \in New(es) : p \in Piece /\ WasRead(p)'
  <2> SUFFICES ASSUME NEW p \in New(es)
               PROVE  p \in Piece /\ WasRead(p)'
    OBVIOUS
  <2>1. read[m] \in Nat /\ read[m] + n \in Nat /\ read'[m] = read[m] + n
    BY ReadMore
  <2>2. p[1] = m /\ p[2] \in read[m] + 1 .. read[m] + n
    BY <2>1, NewUnread
  <2> QED
    BY <2>1, <2>2, NewNowhere DEF WasRead
<1>4. ASSUME NEW u \in Threads, NEW part \in Parts, NEW p \in ToSet(fed'[u][part])
      PROVE  p \in New(es) \/ (p \in Piece /\ WasRead(p) /\ OnePlace(p))
  <2>1. fed[u][part] \in Seq(Piece) /\ Pieces(es, part) \in Seq(Piece)
    BY FedMore
  <2>2. ToSet(fed'[u][part]) \subseteq ToSet(fed[u][part]) \union ToSet(Pieces(es, part))
    <3>1. CASE u = ThreadOf[m]
      <4>1. fed'[u][part] = fed[u][part] \o Pieces(es, part)
        BY <3>1, FedOfReader
      <4> QED
        BY <2>1, <4>1, ConcatMembers
    <3>2. CASE u # ThreadOf[m]
      <4>1. fed'[u][part] = fed[u][part]
        BY <3>2, FedMore
      <4> QED
        BY <4>1
    <3> QED
      BY <3>1, <3>2
  <2>3. ToSet(Pieces(es, part)) \subseteq New(es)
    BY DEF New
  <2>4. ToSet(fed[u][part]) \subseteq Piece
    BY <2>1 DEF ToSet
  <2> QED
    BY <2>2, <2>3, <2>4 DEF Kept
<1>5. CASE UNCHANGED <<sse_buffers, merged>> /\ \A part \in Parts : Pieces(es, part) = <<>>
  <2>1. New(es) = {}
    <3>1. ToSet(<<>>) = {}
      BY DEF ToSet
    <3> QED
      BY <1>5, <3>1 DEF New
  <2>2. \A p : OnePlace(p) => OnePlace(p)'
    BY <1>5 DEF OnePlace, HeldWith, MergedWith
  <2>3. \A u \in Threads, part \in Parts : \A p \in ToSet(fed'[u][part]) : WasRead(p)' /\ OnePlace(p)'
    BY <1>2, <1>4, <2>1, <2>2
  <2>4. \A i \in DOMAIN merged : Content(merged[i].acc) \subseteq Piece
    <3>1. \A i \in DOMAIN merged : merged[i].acc \in Accumulator
      BY MergedTyped
    <3> QED
      BY <3>1, ContentTyped
  <2>5. \A k \in DOMAIN sse_buffers : Content(sse_buffers[k]) \subseteq Piece
    BY ContentTyped DEF TypeOK
  <2> QED
    BY <1>2, <1>5, <2>3, <2>4, <2>5 DEF Kept
<1>6. ASSUME NEW k \in AccumulatorsFor(t, es), Lands(t, es, k)
      PROVE  Kept'
  <2> DEFINE acc == After(k, es)
             r   == [thread |-> t, acc |-> acc]
  <2>1. acc \in Accumulator
    BY AfterTyped
  <2>2. \A p \in Content(acc) : p \in Piece /\ WasRead(p)'
    <3>1. Content(acc) = Content(Before(k)) \union New(es)
      BY AfterContent
    <3>2. \A p \in Content(Before(k)) : WasRead(p)
      BY EmptyTyped DEF Before, Kept
    <3>3. Content(Before(k)) \subseteq Piece
      BY BeforeTyped, ContentTyped
    <3> QED
      BY <1>2, <1>3, <3>1, <3>2, <3>3
  <2>3. Content(acc) # {} => Parts \intersect ToSet(acc.events) # {}
    BY AfterMeaningful
  <2>4. sse_buffers' = Store(k, acc) /\ (merged' = Append(merged, r) \/ merged' = merged) /\ r.acc = acc
    BY <1>6 DEF Lands
  <2> HIDE DEF acc, r
  <2>5. \A u \in Threads, part \in Parts : \A p \in ToSet(fed'[u][part]) : WasRead(p)' /\ OnePlace(p)'
    <3> SUFFICES ASSUME NEW u \in Threads, NEW part \in Parts, NEW p \in ToSet(fed'[u][part])
                 PROVE  WasRead(p)' /\ OnePlace(p)'
      OBVIOUS
    <3>1. IF p \in New(es) THEN HeldWith(p) = {} /\ MergedWith(p) = {} ELSE OnePlace(p)
      BY <1>4, NewNowhere
    <3>2. OnePlace(p)'
      BY <1>6, <3>1, StaysInOnePlace
    <3> QED
      BY <1>2, <1>3, <1>4, <3>2
  <2>6. ASSUME NEW i \in DOMAIN merged', NEW p \in Content(merged'[i].acc)
        PROVE  WasRead(p)'
    <3>1. merged \in Seq([thread : Threads, acc : Accumulator]) /\ Len(merged) \in Nat /\ DOMAIN merged = 1 .. Len(merged)
      BY LenProperties DEF TypeOK
    <3>2. (i \in DOMAIN merged /\ merged'[i] = merged[i]) \/ merged'[i] = r
      <4>1. CASE merged' = Append(merged, r)
        BY <2>6, <3>1, <4>1
      <4>2. CASE merged' = merged
        BY <2>6, <4>2
      <4> QED
        BY <2>4, <4>1, <4>2
    <3>3. CASE i \in DOMAIN merged /\ merged'[i] = merged[i]
      <4>1. merged[i].acc \in Accumulator
        BY <3>3, MergedTyped
      <4>2. p \in Piece /\ WasRead(p)
        BY <2>6, <3>3, <4>1, ContentTyped DEF Kept
      <4> QED
        BY <1>2, <4>2
    <3>4. CASE merged'[i] = r
      BY <2>2, <2>4, <2>6, <3>4
    <3> QED
      BY <3>2, <3>3, <3>4
  <2>7. ASSUME NEW x \in DOMAIN sse_buffers'
        PROVE  /\ \A p \in Content(sse_buffers'[x]) : WasRead(p)'
               /\ Content(sse_buffers'[x]) # {} => Parts \intersect ToSet(sse_buffers'[x].events) # {}
    <3>1. (x \in DOMAIN sse_buffers /\ sse_buffers'[x] = sse_buffers[x]) \/ sse_buffers'[x] = acc
      <4>1. CASE IsComplete(acc)
        <5>1. sse_buffers' = [y \in DOMAIN sse_buffers \ {k} |-> sse_buffers[y]]
          BY <2>4, <4>1 DEF Store
        <5> QED
          BY <2>7, <5>1
      <4>2. CASE ~IsComplete(acc)
        <5>1. DOMAIN sse_buffers' = DOMAIN sse_buffers \union {k} /\ sse_buffers'[k] = acc
          BY <2>4, <4>2, StoreKeys
        <5>2. \A y \in DOMAIN sse_buffers \ {k} : sse_buffers'[y] = sse_buffers[y]
          BY <2>4, <4>2, StoreKeys
        <5> QED
          BY <2>7, <5>1, <5>2
      <4> QED
        BY <4>1, <4>2
    <3>2. CASE x \in DOMAIN sse_buffers /\ sse_buffers'[x] = sse_buffers[x]
      <4>1. Content(sse_buffers[x]) \subseteq Piece
        BY <3>2, ContentTyped DEF TypeOK
      <4> QED
        BY <1>2, <3>2, <4>1 DEF Kept
    <3>3. CASE sse_buffers'[x] = acc
      BY <2>2, <2>3, <3>3
    <3> QED
      BY <3>1, <3>2, <3>3
  <2>8. Kept' <=> /\ \A u \in Threads, part \in Parts : \A p \in ToSet(fed'[u][part]) : WasRead(p)' /\ OnePlace(p)'
                  /\ \A i \in DOMAIN merged' : \A p \in Content(merged'[i].acc) : WasRead(p)'
                  /\ \A x \in DOMAIN sse_buffers' :
                       /\ \A p \in Content(sse_buffers'[x]) : WasRead(p)'
                       /\ Content(sse_buffers'[x]) # {} => Parts \intersect ToSet(sse_buffers'[x].events) # {}
    BY DEF Kept, Content, ToSet
  <2> QED
    BY <2>5, <2>6, <2>7, <2>8
<1> QED
  BY <1>5, <1>6, DeliverCases

LEMMA StepKept ==
  ASSUME TypeOK, Kept, [Next]_vars
  PROVE  Kept'
<1>1. CASE Next
  BY <1>1, StepCases, DeliverKept
<1>2. CASE UNCHANGED vars
  <2>1. UNCHANGED <<read, sse_buffers, merged, fed>>
    BY <1>2 DEF vars
  <2>2. \A p : (WasRead(p) <=> WasRead(p)') /\ (OnePlace(p) <=> OnePlace(p)')
    BY <2>1 DEF WasRead, OnePlace, HeldWith, MergedWith
  <2> QED
    BY <2>1, <2>2 DEF Kept
<1> QED
  BY <1>1, <1>2

LEMMA AlwaysKept == Spec => []Kept
<1>1. TypeOK /\ Kept /\ [Next]_vars => Kept'
  BY StepKept
<1> QED
  BY KeptAtFirst, SseTypes, <1>1, PTL DEF Spec

\* No content that was parsed is lost or passed on twice, on any thread, whatever
\* messages overlap there and whatever chunks are torn (process of SSEProcessor:
\* accumulators found, completed, merged and removed).
THEOREM ContentIsKept == Spec => []ContentKept
<1>1. Kept => ContentKept
  BY OnePlaceCopies DEF Kept, ContentKept
<1> QED
  BY AlwaysKept, <1>1, PTL

-----------------------------------------------------------------------------
\* The threads that are undisturbed

\* Content of one kind and of one message, in its order and from its first hi events.
From(s, m, part, hi) ==
  /\ Rising(s)
  /\ \A a \in DOMAIN s : s[a][1] = m /\ s[a][2] \in 1 .. hi /\ Script[m][s[a][2]] = part

\* An accumulator with content of one message only, in order, under its id.
Own(acc, m, hi) ==
  /\ acc.message_id = m \/ (acc.message_id = NoId /\ Long(m))
  /\ \A part \in Parts : From(acc.content[part], m, part, hi)

Reads(t, m) == ThreadOf[m] = t /\ Underway(m)

OneUnderway(t) == \A l, m \in Messages : Reads(t, l) /\ Reads(t, m) => l = m

OneHeld(t) == \A j, k \in Held(t) : j = k

HeldOwn(t) == \A k \in Held(t) : ~IsComplete(sse_buffers[k]) /\ \E m \in Messages : Reads(t, m) /\ Own(sse_buffers[k], m, read[m])

CutIfLong(t) == Held(t) = {} => \A m \in Messages : Reads(t, m) => Long(m)

Named(t) ==
  \A i \in DOMAIN merged : merged[i].thread = t =>
    \A piece \in Content(merged[i].acc) :
      merged[i].acc.message_id = piece[1] \/ (merged[i].acc.message_id = NoId /\ Long(piece[1]))

Ordered(t) == \A part \in Parts : fed[t][part] = Passed(t, part) \o StillHeld(t, part)

\* What holds of a thread that is undisturbed.
Calm(t) == OneUnderway(t) /\ OneHeld(t) /\ HeldOwn(t) /\ CutIfLong(t) /\ Named(t) /\ Ordered(t)

AllCalm == \A t \in Threads \ disturbed : Calm(t)

\* A read of some events of m, whole, by a thread with nothing else to read.
LEMMA StartsOfRead ==
  ASSUME TypeOK, NEW m \in Messages, NEW n \in Nat \ {0}, Available(m, n)
  PROVE  StartIds(NextEvents(m, n)) = IF read[m] = 0 THEN {m} ELSE {}
<1> DEFINE es == NextEvents(m, n)
<1>1. /\ es \in Seq(SSEEvent) /\ DOMAIN es = 1 .. n /\ read[m] \in Nat
      /\ \A i \in 1 .. n : /\ read[m] + i \in DOMAIN Script[m]
                           /\ es[i] = [type |-> Script[m][read[m] + i], msg |-> m, n |-> read[m] + i, parsed |-> TRUE]
  BY NextEventsFresh DEF Fresh, TypeOK
<1> HIDE DEF es
<1>2. \A i \in 1 .. n : es[i].type = "message_start" <=> read[m] + i = 1
  <2> SUFFICES ASSUME NEW i \in 1 .. n
               PROVE  es[i].type = "message_start" <=> read[m] + i = 1
    OBVIOUS
  <2>1. read[m] + i \in DOMAIN Script[m] /\ es[i].type = Script[m][read[m] + i]
    BY <1>1
  <2> QED
    BY <2>1, StreamAssumption
<1>3. ToSet(es) = {es[i] : i \in 1 .. n}
  BY <1>1 DEF ToSet
<1>4. CASE read[m] = 0
  <2>1. 1 \in 1 .. n /\ es[1].type = "message_start" /\ es[1].parsed
    BY <1>1, <1>2, <1>4
  <2>2. \A e \in ToSet(es) : e.msg = m
    BY <1>1, <1>3
  <2>3. es[1] \in {x \in ToSet(es) : x.type = "message_start" /\ x.parsed} /\ es[1].msg = m
    BY <1>3, <2>1, <2>2
  <2>4. StartIds(es) = {m}
    BY <2>2, <2>3 DEF StartIds
  <2> QED
    BY <1>4, <2>4 DEF es
<1>5. CASE read[m] # 0
  <2>1. \A i \in 1 .. n : es[i].type # "message_start"
    BY <1>1, <1>2, <1>5
  <2>2. StartIds(es) = {}
    BY <1>3, <2>1 DEF StartIds
  <2> QED
    BY <1>5, <2>2 DEF es
<1> QED
  BY <1>4, <1>5

\* Such a read has the end of m exactly if there is no more of m.
LEMMA EndOfRead ==
  ASSUME TypeOK, NEW m \in Messages, NEW n \in Nat \ {0}, Available(m, n)
  PROVE  /\ {"message_stop", "error"} \intersect TypesOf(NextEvents(m, n)) # {} <=> read[m] + n = Len(Script[m])
         /\ (\A i \in 1 .. n : NextEvents(m, n)[i].type = "meta") => read[m] + n # Len(Script[m])
<1> DEFINE es == NextEvents(m, n)
<1>1. /\ DOMAIN es = 1 .. n /\ read[m] \in Nat
      /\ \A i \in 1 .. n : /\ read[m] + i \in DOMAIN Script[m]
                           /\ es[i] = [type |-> Script[m][read[m] + i], msg |-> m, n |-> read[m] + i, parsed |-> TRUE]
  BY NextEventsFresh DEF TypeOK
<1>2. /\ Script[m] \in Seq(Types) /\ Len(Script[m]) \in Nat /\ DOMAIN Script[m] = 1 .. Len(Script[m])
      /\ read[m] + n <= Len(Script[m])
  BY SseAssumption, LenProperties DEF Available
<1> HIDE DEF es
<1>3. \A i \in 1 .. n : es[i].type \in {"message_stop", "error"} <=> read[m] + i = Len(Script[m])
  <2> SUFFICES ASSUME NEW i \in 1 .. n
               PROVE  es[i].type \in {"message_stop", "error"} <=> read[m] + i = Len(Script[m])
    OBVIOUS
  <2>1. read[m] + i \in DOMAIN Script[m] /\ es[i].type = Script[m][read[m] + i]
    BY <1>1
  <2> QED
    BY <2>1, StreamAssumption
<1>4. n \in 1 .. n
  OBVIOUS
<1>5. CASE read[m] + n = Len(Script[m])
  <2>1. es[n].type \in {"message_stop", "error"}
    BY <1>3, <1>4, <1>5
  <2>2. es[n].type \in TypesOf(es) /\ es[n].type # "meta"
    BY <1>1, <1>4, <2>1 DEF TypesOf
  <2> QED
    BY <1>4, <1>5, <2>1, <2>2 DEF es
<1>6. CASE read[m] + n # Len(Script[m])
  <2>1. \A i \in 1 .. n : es[i].type \notin {"message_stop", "error"}
    BY <1>1, <1>2, <1>3, <1>6
  <2>2. \A x \in TypesOf(es) : x \notin {"message_stop", "error"}
    BY <1>1, <2>1 DEF TypesOf
  <2> QED
    BY <1>6, <2>2 DEF es
<1> QED
  BY <1>5, <1>6

\* A message with more content than is kept of it is long.
LEMMA LongIfCut ==
  ASSUME NEW m \in Messages, NEW part \in Parts, NEW s \in Seq(Piece), NEW hi \in Nat, hi <= Len(Script[m]),
         From(s, m, part, hi), Len(s) > MaxText
  PROVE  Long(m)
<1> DEFINE places == {i \in DOMAIN Script[m] : Script[m][i] = part}
           place  == [a \in 1 .. Len(s) |-> s[a][2]]
<1>1. /\ Len(Script[m]) \in Nat /\ DOMAIN Script[m] = 1 .. Len(Script[m]) /\ MaxText \in Nat
      /\ Len(s) \in Nat /\ DOMAIN s = 1 .. Len(s)
  BY SseAssumption, LenProperties
<1>2. \A a \in 1 .. Len(s) : s[a][2] \in 1 .. hi /\ Script[m][s[a][2]] = part
  BY <1>1 DEF From
<1>3. \A a \in 1 .. Len(s) : place[a] = s[a][2] /\ place[a] \in places
  BY <1>1, <1>2
<1>4. \A a, b \in 1 .. Len(s) : a # b => place[a] # place[b]
  <2> SUFFICES ASSUME NEW a \in 1 .. Len(s), NEW b \in 1 .. Len(s), a # b
               PROVE  s[a][2] # s[b][2]
    OBVIOUS
  <2>1. s[a][2] \in Nat /\ s[b][2] \in Nat
    BY <1>2
  <2>2. a < b \/ b < a
    OBVIOUS
  <2>3. s[a][2] < s[b][2] \/ s[b][2] < s[a][2]
    BY <1>1, <2>2 DEF From, Rising
  <2> QED
    BY <2>1, <2>3
<1>5. place \in Injection(1 .. Len(s), places)
  <2>1. place \in [1 .. Len(s) -> places]
    BY <1>3
  <2> HIDE DEF place, places
  <2>2. \A a, b \in 1 .. Len(s) : place[a] = place[b] => a = b
    BY <1>4
  <2>3. IsInjective(place)
    BY <2>1, <2>2 DEF IsInjective
  <2> QED
    BY <2>1, <2>3 DEF Injection
<1>6. IsFiniteSet(places)
  <2>1. 1 \in Int /\ Len(Script[m]) \in Int
    BY <1>1
  <2>2. IsFiniteSet(1 .. Len(Script[m]))
    BY <2>1, FS_Interval
  <2>3. places \subseteq 1 .. Len(Script[m])
    BY <1>1
  <2> HIDE DEF places
  <2> QED
    BY <2>2, <2>3, FS_Subset
<1> HIDE DEF places, place
<1>7. Cardinality(1 .. Len(s)) = Len(s)
  <2>1. Cardinality(1 .. Len(s)) = IF 1 > Len(s) THEN 0 ELSE Len(s) - 1 + 1
    BY <1>1, FS_Interval
  <2> QED
    BY <1>1, <2>1
<1>8. Cardinality(1 .. Len(s)) <= Cardinality(places)
  BY <1>5, <1>6, FS_Injection
<1>9. Cardinality(places) \in Nat
  BY <1>6, FS_CardinalityType
<1>10. Cardinality(places) > MaxText
  BY <1>1, <1>7, <1>8, <1>9
<1> QED
  BY <1>10 DEF Long, places

\* What a whole read has of a message.
LEMMA FromRead ==
  ASSUME TypeOK, NEW m \in Messages, NEW n \in Nat, Available(m, n), NEW part \in Parts
  PROVE  /\ From(Pieces(NextEvents(m, n), part), m, part, read[m] + n)
         /\ \A a \in DOMAIN Pieces(NextEvents(m, n), part) : Pieces(NextEvents(m, n), part)[a][2] > read[m]
<1> DEFINE es == NextEvents(m, n)
           ps == Pieces(es, part)
<1>1. /\ Fresh(es, m, read[m], read[m] + n) /\ read[m] \in Nat /\ read[m] + n \in Nat /\ DOMAIN es = 1 .. n
      /\ \A i \in 1 .. n : es[i] = [type |-> Script[m][read[m] + i], msg |-> m, n |-> read[m] + i, parsed |-> TRUE]
  BY NextEventsFresh DEF TypeOK
<1> HIDE DEF es
<1>2. /\ ToSet(ps) = {<<m, es[i].n>> : i \in Chosen(es, part)}
      /\ Rising(ps)
  BY <1>1, PiecesOfRead
<1>3. ASSUME NEW a \in DOMAIN ps
      PROVE  ps[a][1] = m /\ ps[a][2] \in read[m] + 1 .. read[m] + n /\ Script[m][ps[a][2]] = part
  <2>1. ps[a] \in ToSet(ps)
    BY DEF ToSet
  <2>2. PICK i \in Chosen(es, part) : ps[a] = <<m, es[i].n>>
    BY <1>2, <2>1
  <2>3. i \in 1 .. n /\ es[i].type = part
    BY <1>1, <2>2 DEF Chosen
  <2>4. es[i].n = read[m] + i /\ Script[m][read[m] + i] = part
    BY <1>1, <2>3
  <2> QED
    BY <1>1, <2>2, <2>3, <2>4
<1> QED
  BY <1>1, <1>2, <1>3 DEF From, es

\* Content followed by later content.
LEMMA FromConcat ==
  ASSUME NEW m, NEW part, NEW lo \in Nat, NEW hi \in Nat, lo <= hi, NEW s \in Seq(Piece), NEW t \in Seq(Piece),
         From(s, m, part, lo), From(t, m, part, hi), \A a \in DOMAIN t : t[a][2] > lo
  PROVE  From(s \o t, m, part, hi)
<1>1. /\ Len(s) \in Nat /\ DOMAIN s = 1 .. Len(s) /\ Len(t) \in Nat /\ DOMAIN t = 1 .. Len(t)
      /\ DOMAIN (s \o t) = 1 .. Len(s) + Len(t)
      /\ \A i \in 1 .. Len(s) + Len(t) : (s \o t)[i] = IF i <= Len(s) THEN s[i] ELSE t[i - Len(s)]
  BY LenProperties, ConcatProperties
<1>2. \A a \in 1 .. Len(s) : s[a][1] = m /\ s[a][2] \in 1 .. lo /\ s[a][2] \in 1 .. hi /\ Script[m][s[a][2]] = part
  BY <1>1 DEF From
<1>3. \A a \in 1 .. Len(t) : t[a][1] = m /\ t[a][2] \in 1 .. hi /\ t[a][2] > lo /\ Script[m][t[a][2]] = part
  BY <1>1 DEF From
<1> DEFINE st == s \o t
<1>4. \A i \in 1 .. Len(s) : st[i] = s[i]
  BY <1>1
<1>5. \A i \in Len(s) + 1 .. Len(s) + Len(t) : i - Len(s) \in 1 .. Len(t) /\ st[i] = t[i - Len(s)]
  BY <1>1
<1>6. DOMAIN st = 1 .. Len(s) + Len(t)
  BY <1>1
<1> HIDE DEF st
<1>7. \A i \in DOMAIN st : i \in 1 .. Len(s) \/ i \in Len(s) + 1 .. Len(s) + Len(t)
  BY <1>1, <1>6
<1>8. \A i \in DOMAIN st : st[i][1] = m /\ st[i][2] \in 1 .. hi /\ Script[m][st[i][2]] = part
  <2> SUFFICES ASSUME NEW i \in DOMAIN st
               PROVE  st[i][1] = m /\ st[i][2] \in 1 .. hi /\ Script[m][st[i][2]] = part
    OBVIOUS
  <2>1. CASE i \in 1 .. Len(s)
    BY <1>2, <1>4, <2>1
  <2>2. CASE i \in Len(s) + 1 .. Len(s) + Len(t)
    BY <1>3, <1>5, <2>2
  <2> QED
    BY <1>7, <2>1, <2>2
<1>9. ASSUME NEW a \in DOMAIN st, NEW b \in DOMAIN st, a < b
      PROVE  st[a][2] < st[b][2]
  <2>1. CASE a \in 1 .. Len(s) /\ b \in 1 .. Len(s)
    <3>1. s[a][2] < s[b][2]
      BY <1>1, <1>9, <2>1 DEF From, Rising
    <3> QED
      BY <1>4, <2>1, <3>1
  <2>2. CASE a \in 1 .. Len(s) /\ b \in Len(s) + 1 .. Len(s) + Len(t)
    <3>1. st[a][2] \in 1 .. lo /\ st[b][2] \in 1 .. hi /\ st[b][2] > lo
      BY <1>2, <1>3, <1>4, <1>5, <2>2
    <3> QED
      BY <3>1
  <2>3. CASE a \in Len(s) + 1 .. Len(s) + Len(t) /\ b \in Len(s) + 1 .. Len(s) + Len(t)
    <3>1. a - Len(s) < b - Len(s)
      BY <1>1, <1>9, <2>3
    <3>2. t[a - Len(s)][2] < t[b - Len(s)][2]
      BY <1>1, <1>5, <2>3, <3>1 DEF From, Rising
    <3> QED
      BY <1>5, <2>3, <3>2
  <2> QED
    BY <1>1, <1>7, <1>9, <2>1, <2>2, <2>3
<1> QED
  BY <1>8, <1>9 DEF From, Rising, st

\* An accumulator of a message's content after a read of more of it.
LEMMA FromMore ==
  ASSUME TypeOK, NEW m \in Messages, NEW n \in Nat, Available(m, n), NEW acc \in Accumulator, NEW part \in Parts,
         From(acc.content[part], m, part, read[m])
  PROVE  From(Accumulate(acc, NextEvents(m, n)).content[part], m, part, read[m] + n)
<1>1. read[m] \in Nat /\ read[m] + n \in Nat /\ read[m] <= read[m] + n
  BY DEF TypeOK
<1>2. Fresh(NextEvents(m, n), m, read[m], read[m] + n)
  BY NextEventsFresh
<1>3. acc.content[part] \in Seq(Piece) /\ Pieces(NextEvents(m, n), part) \in Seq(Piece)
  BY <1>1, <1>2, PiecesOfRead DEF Accumulator
<1>4. Accumulate(acc, NextEvents(m, n)).content[part] = acc.content[part] \o Pieces(NextEvents(m, n), part)
  BY <1>1, <1>2, AccumulateTyped
<1> QED
  BY <1>1, <1>3, <1>4, FromRead, FromConcat

\* In what a calm thread holds no message has ended, and it is of the message
\* that is underway.
LEMMA HeldOfCalm ==
  ASSUME TypeOK, NEW t \in Threads, Calm(t), NEW k \in Held(t)
  PROVE  /\ k \in DOMAIN sse_buffers /\ k[1] = t /\ Held(t) = {k} /\ sse_buffers[k] \in Accumulator
         /\ {"message_stop", "error"} \intersect ToSet(sse_buffers[k].events) = {}
         /\ \A part \in Parts : StillHeld(t, part) = sse_buffers[k].content[part]
         /\ \E m \in Messages : Reads(t, m) /\ Own(sse_buffers[k], m, read[m])
<1>1. k \in DOMAIN sse_buffers /\ k[1] = t /\ sse_buffers[k] \in Accumulator
  BY DEF Held, TypeOK
<1>2. Held(t) = {k}
  BY DEF Calm, OneHeld
<1>3. {"message_stop", "error"} \intersect ToSet(sse_buffers[k].events) = {}
  BY DEF Calm, HeldOwn, IsComplete
<1>4. \E m \in Messages : Reads(t, m) /\ Own(sse_buffers[k], m, read[m])
  BY DEF Calm, HeldOwn
<1>5. (CHOOSE x \in Held(t) : TRUE) = k
  BY <1>2
<1>6. \A part \in Parts : StillHeld(t, part) = sse_buffers[k].content[part]
  BY <1>5 DEF StillHeld
<1> QED
  BY <1>1, <1>2, <1>3, <1>4, <1>6

\* What a calm thread reads goes to what it holds, if it holds anything.
LEMMA OwnAfter ==
  ASSUME TypeOK, NEW m \in Messages, NEW n \in Nat \ {0}, Available(m, n), Calm(ThreadOf[m]), ~Overlaps(m),
         NEW k \in AccumulatorsFor(ThreadOf[m], NextEvents(m, n))
  PROVE  /\ Own(After(k, NextEvents(m, n)), m, read[m] + n)
         /\ Held(ThreadOf[m]) \subseteq {k}
         /\ \A part \in Parts : Before(k).content[part] = StillHeld(ThreadOf[m], part)
         /\ {"message_stop", "error"} \intersect ToSet(Before(k).events) = {}
<1> DEFINE t  == ThreadOf[m]
           es == NextEvents(m, n)
<1>1. t \in Threads /\ Calm(t) /\ read[m] \in Nat /\ read[m] + n <= Len(Script[m]) /\ Len(Script[m]) \in Nat
  BY SseAssumption, LenProperties DEF TypeOK, Available
<1>2. StartIds(es) = IF read[m] = 0 THEN {m} ELSE {}
  BY StartsOfRead
<1>3. k[1] = t /\ k \in AccumulatorsFor(t, es) /\ Before(k) \in Accumulator
  BY <1>1, NextEventsFresh, AccumulatorsTyped, BeforeTyped DEF Fresh
<1>4. After(k, es) = Accumulate(Before(k), es)
  BY DEF After
<1>5. ASSUME NEW l \in Messages, Reads(t, l), read[m] = 0
      PROVE  FALSE
  <2>1. l # m
    BY <1>5 DEF Reads, Underway
  <2> QED
    BY <1>5, <2>1 DEF Reads, Overlaps
<1>6. ASSUME NEW l \in Messages, Reads(t, l)
      PROVE  l = m
  <2>1. read[m] # 0
    BY <1>5, <1>6
  <2>2. Reads(t, m)
    BY <1>1, <2>1 DEF Reads, Underway
  <2> QED
    BY <1>1, <1>6, <2>2 DEF Calm, OneUnderway
<1>7. CASE Held(t) = {}
  <2>1. k \notin DOMAIN sse_buffers
    BY <1>3, <1>7 DEF Held
  <2>2. Before(k) = Empty
    BY <2>1 DEF Before
  <2>3. \A part \in Parts : Empty.content[part] = <<>> /\ StillHeld(t, part) = <<>>
    BY <1>7, EmptyTyped DEF StillHeld
  <2>4. Empty.message_id = NoId /\ ToSet(Empty.events) = {}
    BY DEF Empty, ToSet
  <2>5. \A part \in Parts : From(Empty.content[part], m, part, read[m])
    BY <2>3 DEF From, Rising
  <2>6. After(k, es).message_id = IF StartIds(es) # {} THEN CHOOSE l \in StartIds(es) : TRUE ELSE NoId
    BY <1>4, <2>2, <2>4 DEF Accumulate
  <2>7. After(k, es).message_id = m \/ (After(k, es).message_id = NoId /\ Long(m))
    <3>1. CASE read[m] = 0
      BY <1>2, <2>6, <3>1
    <3>2. CASE read[m] # 0
      <4>1. Reads(t, m)
        BY <1>1, <3>2 DEF Reads, Underway
      <4>2. Long(m)
        BY <1>1, <1>7, <4>1 DEF Calm, CutIfLong
      <4> QED
        BY <1>2, <2>6, <3>2, <4>2
    <3> QED
      BY <3>1, <3>2
  <2>8. \A part \in Parts : From(After(k, es).content[part], m, part, read[m] + n)
    BY <1>3, <1>4, <2>2, <2>5, FromMore
  <2> QED
    BY <1>7, <2>2, <2>3, <2>4, <2>7, <2>8 DEF Own
<1>8. CASE Held(t) # {}
  <2>1. PICK j : j \in Held(t)
    BY <1>8
  <2>2. PICK l \in Messages : Reads(t, l) /\ Own(sse_buffers[j], l, read[l])
    BY <1>1, <2>1, HeldOfCalm
  <2>3. l = m /\ read[m] # 0 /\ StartIds(es) = {}
    BY <1>2, <1>5, <1>6, <2>2
  <2>4. {x \in DOMAIN sse_buffers : x[1] = t /\ "message_stop" \notin ToSet(sse_buffers[x].events)} = {j}
    <3>1. /\ Held(t) = {j} /\ j \in DOMAIN sse_buffers /\ j[1] = t
          /\ {"message_stop", "error"} \intersect ToSet(sse_buffers[j].events) = {}
      BY <1>1, <2>1, HeldOfCalm
    <3> QED
      BY <3>1 DEF Held
  <2>5. k = j
    BY <1>3, <2>3, <2>4 DEF AccumulatorsFor
  <2>6. /\ k \in DOMAIN sse_buffers /\ Held(t) = {k} /\ {"message_stop", "error"} \intersect ToSet(sse_buffers[k].events) = {}
        /\ \A part \in Parts : StillHeld(t, part) = sse_buffers[k].content[part]
    <3>1. k \in Held(t) /\ t \in Threads /\ Calm(t)
      BY <1>1, <2>1, <2>5
    <3> HIDE DEF t
    <3> QED
      BY <3>1, HeldOfCalm
  <2>7. Before(k) = sse_buffers[k]
    BY <2>6 DEF Before
  <2>8. Own(Before(k), m, read[m])
    BY <2>2, <2>3, <2>5, <2>7
  <2>9. After(k, es).message_id = Before(k).message_id
    BY <1>4, <2>3 DEF Accumulate
  <2>10. \A part \in Parts : From(After(k, es).content[part], m, part, read[m] + n)
    BY <1>3, <1>4, <2>8, FromMore DEF Own
  <2> QED
    BY <2>6, <2>7, <2>8, <2>9, <2>10 DEF Own
<1> QED
  BY <1>7, <1>8

\* What a thread's merged events have after a read.
LEMMA PassedMore ==
  ASSUME TypeOK, NEW r \in [thread : Threads, acc : Accumulator], NEW u \in Threads, NEW part \in Parts
  PROVE  /\ Passed(u, part) \in Seq(Piece)
         /\ merged' = merged => Passed(u, part)' = Passed(u, part)
         /\ merged' = Append(merged, r) =>
              Passed(u, part)' = Passed(u, part) \o (IF r.thread = u THEN r.acc.content[part] ELSE <<>>)
<1> DEFINE Of(x)  == IF x.thread = u THEN x.acc.content[part] ELSE <<>>
           Ofs(s) == [i \in DOMAIN s |-> Of(s[i])]
           R      == [thread : Threads, acc : Accumulator]
<1>1. Passed(u, part) = FlattenSeq(Ofs(merged)) /\ Passed(u, part)' = FlattenSeq(Ofs(merged'))
  BY DEF Passed
<1>2. \A x \in R : Of(x) \in Seq(Piece)
  BY DEF Accumulator
<1>3. merged \in Seq(R) /\ r \in R
  BY DEF TypeOK
<1> HIDE DEF Of, R
<1>4. Len(merged) \in Nat /\ DOMAIN merged = 1 .. Len(merged) /\ \A i \in 1 .. Len(merged) : merged[i] \in R
  BY <1>3, LenProperties, ElementOfSeq
<1>5. Ofs(merged) \in Seq(Seq(Piece)) /\ Len(Ofs(merged)) = Len(merged)
  BY <1>2, <1>4
<1>6. Of(r) \in Seq(Piece)
  BY <1>2, <1>3
<1>7. FlattenSeq(Append(Ofs(merged), Of(r))) = FlattenSeq(Ofs(merged)) \o Of(r) /\ FlattenSeq(Ofs(merged)) \in Seq(Piece)
  <2> HIDE DEF Ofs
  <2> QED
    BY <1>5, <1>6, FlattenAppend
<1>8. Ofs(Append(merged, r)) = Append(Ofs(merged), Of(r))
  <2>1. /\ DOMAIN Append(merged, r) = 1 .. Len(merged) + 1 /\ Append(merged, r)[Len(merged) + 1] = r
        /\ \A i \in 1 .. Len(merged) : Append(merged, r)[i] = merged[i]
    BY <1>3, <1>4, AppendProperties, LenProperties
  <2>2. Ofs(Append(merged, r)) = [i \in 1 .. Len(merged) + 1 |-> IF i > Len(merged) THEN Of(r) ELSE Of(merged[i])]
    <3>1. \A i \in 1 .. Len(merged) + 1 : Append(merged, r)[i] = IF i > Len(merged) THEN r ELSE merged[i]
      BY <1>4, <2>1
    <3> QED
      BY <2>1, <3>1
  <2>3. Append(Ofs(merged), Of(r)) = [i \in 1 .. Len(merged) + 1 |-> IF i > Len(merged) THEN Of(r) ELSE Of(merged[i])]
    BY <1>4, <1>5, <1>6
  <2> QED
    BY <2>2, <2>3
<1> QED
  BY <1>1, <1>7, <1>8 DEF Of

\* What the thread of a read has to read after it, if the read is not of a
\* message beside another.
LEMMA ReadsAfter ==
  ASSUME TypeOK, NEW m \in Messages, NEW n \in Nat \ {0}, Available(m, n), NEW es, Deliver(m, n, es)
  PROVE  /\ ~Overlaps(m) => \A l \in Messages : Reads(ThreadOf[m], l)' => l = m
         /\ Reads(ThreadOf[m], m)' <=> read[m] + n # Len(Script[m])
         /\ \A u \in Threads \ {ThreadOf[m]}, l \in Messages : Reads(u, l)' <=> Reads(u, l)
         /\ \A l \in Messages : ThreadOf[l] # ThreadOf[m] => read'[l] = read[l]
         /\ read'[m] = read[m] + n
<1>1. \A l \in Messages : read[l] \in Nat /\ read'[l] = IF l = m THEN read[l] + n ELSE read[l]
  BY ReadMore
<1>2. \A l \in Messages : Len(Script[l]) \in Nat
  BY SseAssumption, LenProperties
<1>3. \A u, l : Reads(u, l)' <=> ThreadOf[l] = u /\ read'[l] \in 1 .. Len(Script[l]) - 1
  BY DEF Reads, Underway
<1>4. \A u, l : Reads(u, l) <=> ThreadOf[l] = u /\ read[l] \in 1 .. Len(Script[l]) - 1
  BY DEF Reads, Underway
<1>5. ~Overlaps(m) => \A l \in Messages : Reads(ThreadOf[m], l)' => l = m
  BY <1>1, <1>3 DEF Overlaps, Underway
<1>6. read[m] + n <= Len(Script[m])
  BY DEF Available
<1>7. Reads(ThreadOf[m], m)' <=> read[m] + n # Len(Script[m])
  BY <1>1, <1>2, <1>3, <1>6
<1>8. \A u \in Threads \ {ThreadOf[m]}, l \in Messages : Reads(u, l)' <=> Reads(u, l)
  BY <1>1, <1>3, <1>4
<1> QED
  BY <1>1, <1>5, <1>7, <1>8

\* What the threads hold after a read.
LEMMA HeldAfter ==
  ASSUME NEW t, NEW es, NEW k, k[1] = t, Lands(t, es, k)
  PROVE  /\ \A u : u # t => Held(u)' = Held(u) /\ \A x \in Held(u) : sse_buffers'[x] = sse_buffers[x]
         /\ IsComplete(After(k, es)) => Held(t)' = Held(t) \ {k}
         /\ ~IsComplete(After(k, es)) => Held(t)' = Held(t) \union {k} /\ sse_buffers'[k] = After(k, es)
<1> DEFINE acc == After(k, es)
<1>1. sse_buffers' = Store(k, acc)
  BY DEF Lands
<1> HIDE DEF acc
<1>2. \A u : Held(u)' = {x \in DOMAIN sse_buffers' : x[1] = u} /\ Held(u) = {x \in DOMAIN sse_buffers : x[1] = u}
  BY DEF Held
<1>3. CASE IsComplete(acc)
  <2>1. DOMAIN sse_buffers' = DOMAIN sse_buffers \ {k}
    BY <1>1, <1>3, StoreKeys
  <2>2. \A x \in DOMAIN sse_buffers \ {k} : sse_buffers'[x] = sse_buffers[x]
    BY <1>1, <1>3, StoreKeys
  <2> QED
    BY <1>2, <1>3, <2>1, <2>2 DEF acc
<1>4. CASE ~IsComplete(acc)
  <2>1. DOMAIN sse_buffers' = DOMAIN sse_buffers \union {k} /\ sse_buffers'[k] = acc
    BY <1>1, <1>4, StoreKeys
  <2>2. \A x \in DOMAIN sse_buffers \ {k} : sse_buffers'[x] = sse_buffers[x]
    BY <1>1, <1>4, StoreKeys
  <2> QED
    BY <1>2, <1>4, <2>1, <2>2 DEF acc
<1> QED
  BY <1>3, <1>4 DEF acc

\* A read leaves the other threads as they are.
LEMMA CalmElsewhere ==
  ASSUME TypeOK, NEW m \in Messages, NEW n \in Nat \ {0}, Available(m, n), NEW es,
         Fresh(es, m, read[m], read[m] + n), Deliver(m, n, es), NEW u \in Threads \ {ThreadOf[m]}, Calm(u)
  PROVE  Calm(u)'
<1> DEFINE t == ThreadOf[m]
<1>1. t \in Threads
  BY SseAssumption
<1>2. /\ Held(u)' = Held(u) /\ \A x \in Held(u) : sse_buffers'[x] = sse_buffers[x]
      /\ \/ merged' = merged
         \/ \E acc \in Accumulator : merged' = Append(merged, [thread |-> t, acc |-> acc])
  <2>1. CASE UNCHANGED <<sse_buffers, merged>>
    BY <2>1 DEF Held
  <2>2. ASSUME NEW k \in AccumulatorsFor(t, es), Lands(t, es, k)
        PROVE  /\ Held(u)' = Held(u) /\ \A x \in Held(u) : sse_buffers'[x] = sse_buffers[x]
               /\ \/ merged' = merged
                  \/ \E acc \in Accumulator : merged' = Append(merged, [thread |-> t, acc |-> acc])
    <3>1. k[1] = t /\ After(k, es) \in Accumulator
      BY <1>1, <2>2, AccumulatorsTyped, AfterTyped DEF Fresh
    <3>2. Held(u)' = Held(u) /\ \A x \in Held(u) : sse_buffers'[x] = sse_buffers[x]
      BY <2>2, <3>1, HeldAfter
    <3> QED
      BY <2>2, <3>1, <3>2 DEF Lands
  <2> QED
    BY <2>1, <2>2, DeliverCases
<1>3. \A part \in Parts : fed'[u][part] = fed[u][part] /\ Passed(u, part)' = Passed(u, part)
  <2> SUFFICES ASSUME NEW part \in Parts
               PROVE  fed'[u][part] = fed[u][part] /\ Passed(u, part)' = Passed(u, part)
    OBVIOUS
  <2>1. fed'[u][part] = fed[u][part]
    BY FedMore
  <2>2. CASE merged' = merged
    BY <2>1, <2>2 DEF Passed
  <2>3. ASSUME NEW acc \in Accumulator, merged' = Append(merged, [thread |-> t, acc |-> acc])
        PROVE  Passed(u, part)' = Passed(u, part)
    <3> DEFINE r == [thread |-> t, acc |-> acc]
    <3>1. r \in [thread : Threads, acc : Accumulator] /\ r.thread # u /\ merged' = Append(merged, r)
      BY <1>1, <2>3
    <3> HIDE DEF r
    <3>2. Passed(u, part) \in Seq(Piece) /\ Passed(u, part)' = Passed(u, part) \o <<>>
      BY <3>1, PassedMore
    <3> QED
      BY <3>2, ConcatEmptySeq
  <2> QED
    BY <1>2, <2>1, <2>2, <2>3
<1>4. \A l \in Messages : (Reads(u, l)' <=> Reads(u, l)) /\ (Reads(u, l) => read'[l] = read[l])
  BY ReadsAfter DEF Reads
<1>5. OneUnderway(u)'
  BY <1>4 DEF Calm, OneUnderway
<1>6. OneHeld(u)'
  BY <1>2 DEF Calm, OneHeld
<1>7. HeldOwn(u)'
  <2> SUFFICES ASSUME NEW k \in Held(u)'
               PROVE  ~IsComplete(sse_buffers'[k]) /\ \E l \in Messages : Reads(u, l)' /\ Own(sse_buffers'[k], l, read'[l])
    BY DEF HeldOwn, IsComplete, TooLong, Own, From
  <2>1. k \in Held(u) /\ sse_buffers'[k] = sse_buffers[k]
    BY <1>2
  <2> QED
    BY <1>4, <2>1 DEF Calm, HeldOwn
<1>8. CutIfLong(u)'
  BY <1>2, <1>4 DEF Calm, CutIfLong, Long
<1>9. Named(u)'
  <2> SUFFICES ASSUME NEW i \in DOMAIN merged', merged'[i].thread = u, NEW p \in Content(merged'[i].acc)
               PROVE  merged'[i].acc.message_id = p[1] \/ (merged'[i].acc.message_id = NoId /\ Long(p[1]))
    BY DEF Named, Content, Long
  <2>1. i \in DOMAIN merged /\ merged'[i] = merged[i]
    <3>1. CASE merged' = merged
      BY <3>1
    <3>2. ASSUME NEW acc \in Accumulator, merged' = Append(merged, [thread |-> t, acc |-> acc])
          PROVE  i \in DOMAIN merged /\ merged'[i] = merged[i]
      <4>1. merged \in Seq([thread : Threads, acc : Accumulator]) /\ Len(merged) \in Nat /\ DOMAIN merged = 1 .. Len(merged)
        BY LenProperties DEF TypeOK
      <4>2. i \in 1 .. Len(merged) + 1 /\ merged'[Len(merged) + 1].thread = t
        BY <3>2, <4>1
      <4>3. i # Len(merged) + 1
        BY <4>2
      <4> QED
        BY <3>2, <4>1, <4>2, <4>3
    <3> QED
      BY <1>2, <3>1, <3>2
  <2> QED
    BY <2>1 DEF Calm, Named
<1>10. Ordered(u)'
  <2>1. \A part \in Parts : StillHeld(u, part)' = StillHeld(u, part)
    <3> SUFFICES ASSUME NEW part \in Parts
                 PROVE  StillHeld(u, part)' = StillHeld(u, part)
      OBVIOUS
    <3>1. Held(u) # {} => sse_buffers'[CHOOSE x \in Held(u) : TRUE] = sse_buffers[CHOOSE x \in Held(u) : TRUE]
      BY <1>2
    <3> QED
      BY <1>2, <3>1 DEF StillHeld
  <2> QED
    BY <1>3, <2>1 DEF Calm, Ordered
<1> QED
  BY <1>5, <1>6, <1>7, <1>8, <1>9, <1>10 DEF Calm

\* Pings and message_deltas neither begin nor end a message.
LEMMA MetaWithin ==
  ASSUME TypeOK, NEW m \in Messages, NEW n \in Nat \ {0}, Available(m, n),
         \A i \in DOMAIN NextEvents(m, n) : NextEvents(m, n)[i].type = "meta"
  PROVE  read[m] # 0 /\ read[m] + n # Len(Script[m])
<1> DEFINE es == NextEvents(m, n)
<1>1. /\ DOMAIN es = 1 .. n /\ read[m] \in Nat
      /\ \A i \in 1 .. n : /\ read[m] + i \in DOMAIN Script[m]
                           /\ es[i] = [type |-> Script[m][read[m] + i], msg |-> m, n |-> read[m] + i, parsed |-> TRUE]
  BY NextEventsFresh DEF TypeOK
<1>2. read[m] + n # Len(Script[m])
  BY <1>1, EndOfRead
<1>3. 1 \in 1 .. n /\ es[1].type = "meta"
  BY <1>1
<1>4. read[m] + 1 \in DOMAIN Script[m] /\ Script[m][read[m] + 1] = "meta"
  BY <1>1, <1>3
<1>5. read[m] + 1 # 1
  BY <1>4, StreamAssumption
<1> QED
  BY <1>1, <1>2, <1>5

\* A read that is dropped leaves its thread calm.
LEMMA CalmSkipped ==
  ASSUME TypeOK, NEW m \in Messages, NEW n \in Nat \ {0}, Available(m, n), NEW es,
         Fresh(es, m, read[m], read[m] + n), Deliver(m, n, es), Calm(ThreadOf[m]), ~Overlaps(m),
         read[m] # 0, read[m] + n # Len(Script[m]),
         UNCHANGED <<sse_buffers, merged>>, \A part \in Parts : Pieces(es, part) = <<>>
  PROVE  Calm(ThreadOf[m])'
<1> DEFINE t == ThreadOf[m]
<1>1. t \in Threads /\ read[m] \in Nat /\ read[m] + n \in Nat
  BY SseAssumption DEF TypeOK
<1>4. Reads(t, m)
  <2>1. read[m] + n <= Len(Script[m]) /\ Len(Script[m]) \in Nat
    BY SseAssumption, LenProperties DEF Available
  <2> QED
    BY <1>1, <2>1 DEF Reads, Underway
<1>5. (\A l \in Messages : Reads(t, l)' => l = m) /\ Reads(t, m)' /\ read'[m] = read[m] + n
  BY ReadsAfter
<1>6. Held(t)' = Held(t)
  BY DEF Held
<1>7. OneUnderway(t)'
  BY <1>5 DEF OneUnderway
<1>8. OneHeld(t)'
  BY <1>6 DEF Calm, OneHeld
<1>9. HeldOwn(t)'
  <2> SUFFICES ASSUME NEW k \in Held(t)
               PROVE  ~IsComplete(sse_buffers[k]) /\ Own(sse_buffers[k], m, read'[m])
    <3>1. HeldOwn(t)' <=> \A k \in Held(t)' :
            ~IsComplete(sse_buffers'[k]) /\ \E l \in Messages : Reads(t, l)' /\ Own(sse_buffers'[k], l, read'[l])
      BY DEF HeldOwn, IsComplete, TooLong, Own, From
    <3> QED
      BY <1>5, <1>6, <3>1
  <2>1. PICK l \in Messages : Reads(t, l) /\ Own(sse_buffers[k], l, read[l]) /\ ~IsComplete(sse_buffers[k])
    BY DEF Calm, HeldOwn
  <2>2. Own(sse_buffers[k], m, read[m])
    BY <1>4, <2>1 DEF Calm, OneUnderway
  <2>3. \A x \in 1 .. read[m] : x \in 1 .. read[m] + n
    BY <1>1
  <2> QED
    BY <1>5, <2>1, <2>2, <2>3 DEF Own, From
<1>10. CutIfLong(t)'
  BY <1>4, <1>5, <1>6 DEF Calm, CutIfLong, Long
<1>11. Named(t)'
  BY DEF Calm, Named, Content, Long
<1>12. Ordered(t)'
  <2> SUFFICES ASSUME NEW part \in Parts
               PROVE  fed'[t][part] = Passed(t, part) \o StillHeld(t, part)
    BY <1>6 DEF Ordered, Passed, StillHeld
  <2> DEFINE ps == Pieces(es, part)
  <2>1. fed[t][part] \in Seq(Piece) /\ fed'[t][part] = fed[t][part] \o ps
    BY FedOfReader
  <2>2. ps = <<>>
    OBVIOUS
  <2> HIDE DEF ps
  <2>3. fed'[t][part] = fed[t][part]
    BY <2>1, <2>2, ConcatEmptySeq
  <2> QED
    BY <2>3 DEF Calm, Ordered
<1> QED
  BY <1>7, <1>8, <1>9, <1>10, <1>11, <1>12 DEF Calm

\* A message that is complete before its end is long.
LEMMA CutMeansLong ==
  ASSUME TypeOK, NEW m \in Messages, NEW n \in Nat \ {0}, Available(m, n), NEW es, NEW k,
         Fresh(es, m, read[m], read[m] + n),
         {"message_stop", "error"} \intersect TypesOf(es) # {} <=> read[m] + n = Len(Script[m]),
         Own(After(k, es), m, read[m] + n), {"message_stop", "error"} \intersect ToSet(Before(k).events) = {}
  PROVE  /\ IsComplete(After(k, es)) /\ read[m] + n # Len(Script[m]) => Long(m)
         /\ ~IsComplete(After(k, es)) => read[m] + n # Len(Script[m])
<1> DEFINE acc == After(k, es)
<1>1. acc \in Accumulator /\ ToSet(acc.events) = ToSet(Before(k).events) \union TypesOf(es)
  BY AfterTyped
<1>2. read[m] + n \in Nat /\ read[m] + n <= Len(Script[m])
  BY DEF TypeOK, Available
<1>3. Own(acc, m, read[m] + n)
  OBVIOUS
<1> HIDE DEF acc
<1>4. ASSUME IsComplete(acc), read[m] + n # Len(Script[m])
      PROVE  Long(m)
  <2>1. {"message_stop", "error"} \intersect ToSet(acc.events) = {}
    BY <1>1, <1>4
  <2>2. PICK part \in Parts : Len(acc.content[part]) > MaxText
    BY <1>4, <2>1 DEF IsComplete, TooLong
  <2>3. acc.content[part] \in Seq(Piece) /\ From(acc.content[part], m, part, read[m] + n)
    BY <1>1, <1>3 DEF Accumulator, Own
  <2> QED
    BY <1>2, <2>2, <2>3, LongIfCut
<1>5. ~IsComplete(acc) => read[m] + n # Len(Script[m])
  BY <1>1 DEF IsComplete
<1> QED
  BY <1>4, <1>5 DEF acc

\* The content stays in order.
LEMMA OrderedAfter ==
  ASSUME TypeOK, Kept, NEW m \in Messages, NEW n \in Nat, NEW es, NEW k,
         Fresh(es, m, read[m], read[m] + n), Deliver(m, n, es), Ordered(ThreadOf[m]),
         Lands(ThreadOf[m], es, k), k[1] = ThreadOf[m], Held(ThreadOf[m]) \subseteq {k},
         \A part \in Parts : Before(k).content[part] = StillHeld(ThreadOf[m], part)
  PROVE  Ordered(ThreadOf[m])'
<1> DEFINE t   == ThreadOf[m]
           acc == After(k, es)
           r   == [thread |-> t, acc |-> acc]
<1>1. /\ t \in Threads /\ acc \in Accumulator /\ r \in [thread : Threads, acc : Accumulator]
      /\ r.thread = t /\ r.acc = acc
  BY SseAssumption, AfterTyped
<1> SUFFICES ASSUME NEW part \in Parts
             PROVE  fed'[t][part] = Passed(t, part)' \o StillHeld(t, part)'
  BY DEF Ordered
<1> DEFINE b  == Before(k).content[part]
           ps == Pieces(es, part)
           a  == acc.content[part]
           f  == fed[t][part]
           p  == Passed(t, part)
<1>2. b \in Seq(Piece) /\ a \in Seq(Piece)
  BY <1>1, BeforeTyped DEF Accumulator
<1>3. ps \in Seq(Piece) /\ fed'[t][part] = f \o ps
  BY FedOfReader
<1>4. a = b \o ps
  BY AfterTyped
<1>5. f = p \o b
  BY DEF Ordered
<1>6. p \in Seq(Piece)
  BY <1>1, PassedMore
<1>7. fed'[t][part] = p \o a
  <2> HIDE DEF f, p, b, ps, a
  <2>1. b \in Seq(Piece) /\ ps \in Seq(Piece) /\ p \in Seq(Piece)
    BY <1>2, <1>3, <1>6
  <2>2. (p \o b) \o ps = p \o (b \o ps)
    BY <2>1, ConcatAssociative
  <2> QED
    BY <1>3, <1>4, <1>5, <2>2
<1>8. /\ IsComplete(acc) => Held(t)' = {}
      /\ ~IsComplete(acc) => Held(t)' = {k} /\ sse_buffers'[k] = acc
  BY HeldAfter
<1>9. merged' = IF IsComplete(acc) /\ HasMeaningfulContent(acc) THEN Append(merged, r) ELSE merged
  BY DEF Lands
<1>10. StillHeld(t, part)' = IF Held(t)' = {} THEN <<>> ELSE sse_buffers'[CHOOSE x \in Held(t)' : TRUE].content[part]
  BY DEF StillHeld
<1>11. CASE ~IsComplete(acc)
  <2>1. StillHeld(t, part)' = a
    BY <1>8, <1>10, <1>11
  <2>2. Passed(t, part)' = p
    BY <1>1, <1>9, <1>11, PassedMore
  <2> QED
    BY <1>7, <2>1, <2>2
<1>12. CASE IsComplete(acc)
  <2>1. StillHeld(t, part)' = <<>>
    BY <1>8, <1>10, <1>12
  <2>2. Passed(t, part)' = p \o a
    <3>1. CASE HasMeaningfulContent(acc)
      <4>1. merged' = Append(merged, r)
        BY <1>9, <1>12, <3>1
      <4> HIDE DEF r
      <4>2. Passed(t, part)' = p \o (IF r.thread = t THEN r.acc.content[part] ELSE <<>>)
        BY <1>1, <4>1, PassedMore
      <4> QED
        BY <1>1, <4>2
    <3>2. CASE ~HasMeaningfulContent(acc)
      <4>1. Passed(t, part)' = p
        BY <1>1, <1>9, <3>2, PassedMore
      <4>2. Content(acc) = {}
        BY <3>2, AfterMeaningful DEF HasMeaningfulContent
      <4>3. ToSet(a) = {}
        BY <4>2 DEF Content
      <4> HIDE DEF a, p
      <4>4. a = <<>>
        BY <1>2, <4>3, NoMembers
      <4> QED
        BY <1>6, <4>1, <4>4, ConcatEmptySeq
    <3> QED
      BY <3>1, <3>2
  <2>3. p \o a \in Seq(Piece)
    <3> HIDE DEF p, a
    <3> QED
      BY <1>2, <1>6, ConcatProperties
  <2> QED
    BY <1>7, <2>1, <2>2, <2>3, ConcatEmptySeq
<1> QED
  BY <1>11, <1>12

\* A read that is accumulated leaves its thread calm.
LEMMA CalmLands ==
  ASSUME TypeOK, Kept, NEW m \in Messages, NEW n \in Nat \ {0}, Available(m, n), NEW es, NEW k,
         Fresh(es, m, read[m], read[m] + n), Deliver(m, n, es), Calm(ThreadOf[m]), ~Overlaps(m),
         Lands(ThreadOf[m], es, k), k[1] = ThreadOf[m],
         {"message_stop", "error"} \intersect TypesOf(es) # {} <=> read[m] + n = Len(Script[m]),
         Own(After(k, es), m, read[m] + n), {"message_stop", "error"} \intersect ToSet(Before(k).events) = {},
         Held(ThreadOf[m]) \subseteq {k},
         \A part \in Parts : Before(k).content[part] = StillHeld(ThreadOf[m], part)
  PROVE  Calm(ThreadOf[m])'
<1> DEFINE t   == ThreadOf[m]
           acc == After(k, es)
           r   == [thread |-> t, acc |-> acc]
<1>1. /\ t \in Threads /\ acc \in Accumulator /\ r \in [thread : Threads, acc : Accumulator]
      /\ r.thread = t /\ r.acc = acc
  BY SseAssumption, AfterTyped
<1>2. /\ IsComplete(acc) /\ read[m] + n # Len(Script[m]) => Long(m)
      /\ ~IsComplete(acc) => read[m] + n # Len(Script[m])
  BY CutMeansLong
<1>3. (\A l \in Messages : Reads(t, l)' => l = m) /\ (Reads(t, m)' <=> read[m] + n # Len(Script[m])) /\ read'[m] = read[m] + n
  BY ReadsAfter
<1>4. /\ IsComplete(acc) => Held(t)' = {}
      /\ ~IsComplete(acc) => Held(t)' = {k} /\ sse_buffers'[k] = acc
  <2>1. /\ IsComplete(acc) => Held(t)' = Held(t) \ {k}
        /\ ~IsComplete(acc) => Held(t)' = Held(t) \union {k} /\ sse_buffers'[k] = acc
    BY HeldAfter
  <2>2. Held(t) \subseteq {k}
    OBVIOUS
  <2> HIDE DEF t, acc
  <2> QED
    BY <2>1, <2>2
<1>5. OneUnderway(t)'
  BY <1>3 DEF OneUnderway
<1>6. OneHeld(t)'
  BY <1>4 DEF OneHeld
<1>7. HeldOwn(t)'
  <2>1. HeldOwn(t)' <=> \A x \in Held(t)' :
          ~IsComplete(sse_buffers'[x]) /\ \E l \in Messages : Reads(t, l)' /\ Own(sse_buffers'[x], l, read'[l])
    BY DEF HeldOwn, IsComplete, TooLong, Own, From
  <2>2. CASE IsComplete(acc)
    BY <1>4, <2>1, <2>2
  <2>3. CASE ~IsComplete(acc)
    <3>1. Reads(t, m)' /\ Own(acc, m, read'[m])
      BY <1>2, <1>3, <2>3
    <3> HIDE DEF t, acc
    <3> QED
      BY <1>4, <2>1, <2>3, <3>1
  <2> QED
    BY <2>2, <2>3
<1>8. CutIfLong(t)'
  <2> SUFFICES ASSUME Held(t)' = {}, Reads(t, m)'
               PROVE  Long(m)
    BY <1>3 DEF CutIfLong, Long
  <2> QED
    BY <1>2, <1>3, <1>4
<1>9. merged' = IF IsComplete(acc) /\ HasMeaningfulContent(acc) THEN Append(merged, r) ELSE merged
  BY DEF Lands
<1>10. Own(acc, m, read[m] + n)
  OBVIOUS
<1>11. Named(t)'
  <2> HIDE DEF r, acc, t
  <2> SUFFICES ASSUME NEW i \in DOMAIN merged', merged'[i].thread = t, NEW p \in Content(merged'[i].acc)
               PROVE  merged'[i].acc.message_id = p[1] \/ (merged'[i].acc.message_id = NoId /\ Long(p[1]))
    BY DEF Named, Content, Long
  <2>1. (i \in DOMAIN merged /\ merged'[i] = merged[i]) \/ merged'[i] = r
    <3>1. merged \in Seq([thread : Threads, acc : Accumulator]) /\ Len(merged) \in Nat /\ DOMAIN merged = 1 .. Len(merged)
      BY LenProperties DEF TypeOK
    <3>2. CASE merged' = Append(merged, r)
      BY <3>1, <3>2
    <3>3. CASE merged' = merged
      BY <3>3
    <3> QED
      BY <1>9, <3>2, <3>3
  <2>2. CASE i \in DOMAIN merged /\ merged'[i] = merged[i]
    BY <2>2 DEF Calm, Named, t
  <2>3. CASE merged'[i] = r
    <3>1. PICK part \in Parts : p \in ToSet(acc.content[part])
      BY <1>1, <2>3 DEF Content
    <3>2. p[1] = m
      BY <1>10, <3>1 DEF Own, From, ToSet
    <3> QED
      BY <1>1, <1>10, <2>3, <3>2 DEF Own
  <2> QED
    BY <2>1, <2>2, <2>3
<1> QED
  BY <1>5, <1>6, <1>7, <1>8, <1>11, OrderedAfter DEF Calm

LEMMA DeliverCalm ==
  ASSUME TypeOK, Kept, AllCalm, NEW m \in Messages, NEW n \in Nat \ {0}, Available(m, n), NEW es,
         Fresh(es, m, read[m], read[m] + n), Deliver(m, n, es)
  PROVE  AllCalm'
<1> DEFINE t == ThreadOf[m]
<1>1. disturbed' = IF es # NextEvents(m, n) \/ Overlaps(m) THEN disturbed \union {t} ELSE disturbed
  BY DEF Deliver
<1> SUFFICES ASSUME NEW u \in Threads \ disturbed'
             PROVE  Calm(u)'
  BY DEF AllCalm
<1>2. u \in Threads \ disturbed /\ Calm(u)
  BY <1>1 DEF AllCalm
<1>3. CASE u # t
  BY <1>2, <1>3, CalmElsewhere
<1>4. CASE u = t
  <2>1. es = NextEvents(m, n) /\ ~Overlaps(m)
    BY <1>1, <1>4
  <2>2. Calm(t)
    BY <1>2, <1>4
  <2>3. DOMAIN es = 1 .. n /\ es # <<>>
    BY <2>1, NextEventsFresh
  <2>4. CASE UNCHANGED <<sse_buffers, merged>> /\ (\A part \in Parts : Pieces(es, part) = <<>>)
               /\ (es = <<>> \/ \A i \in DOMAIN es : es[i].type = "meta")
    <3>1. read[m] # 0 /\ read[m] + n # Len(Script[m])
      BY <2>1, <2>3, <2>4, MetaWithin
    <3>2. Calm(t)'
      BY <2>1, <2>2, <2>4, <3>1, CalmSkipped
    <3> QED
      BY <1>4, <3>2
  <2>5. ASSUME NEW k \in AccumulatorsFor(t, es), Lands(t, es, k)
        PROVE  Calm(t)'
    <3>1. k[1] = t
      BY <2>5, SseAssumption, AccumulatorsTyped DEF Fresh
    <3>2. /\ Own(After(k, es), m, read[m] + n) /\ Held(t) \subseteq {k}
          /\ \A part \in Parts : Before(k).content[part] = StillHeld(t, part)
          /\ {"message_stop", "error"} \intersect ToSet(Before(k).events) = {}
      BY <2>1, <2>2, <2>5, OwnAfter
    <3>3. {"message_stop", "error"} \intersect TypesOf(es) # {} <=> read[m] + n = Len(Script[m])
      BY <2>1, EndOfRead
    <3> QED
      BY <2>1, <2>2, <2>5, <3>1, <3>2, <3>3, CalmLands
  <2> QED
    BY <1>4, <2>4, <2>5, DeliverCases
<1> QED
  BY <1>3, <1>4

LEMMA StepCalm ==
  ASSUME TypeOK, Kept, AllCalm, [Next]_vars
  PROVE  AllCalm'
<1>1. CASE Next
  <2>1. PICK m \in Messages, n \in 1 .. MaxRead :
               \E es : Available(m, n) /\ Deliver(m, n, es) /\ Fresh(es, m, read[m], read[m] + n)
    BY <1>1, StepCases
  <2>2. n \in Nat \ {0}
    BY SseAssumption
  <2> QED
    BY <2>1, <2>2, DeliverCalm
<1>2. CASE UNCHANGED vars
  <2>1. UNCHANGED <<read, sse_buffers, merged, fed, disturbed>>
    BY <1>2 DEF vars
  <2>2. \A t : Held(t)' = Held(t) /\ \A l : Reads(t, l)' <=> Reads(t, l)
    BY <2>1 DEF Held, Reads, Underway
  <2>3. \A t : OneUnderway(t) => OneUnderway(t)'
    BY <2>2 DEF OneUnderway
  <2>4. \A t : OneHeld(t) => OneHeld(t)'
    BY <2>2 DEF OneHeld
  <2>5. \A t : HeldOwn(t) => HeldOwn(t)'
    <3>1. \A t : HeldOwn(t)' <=> \A k \in Held(t)' :
            ~IsComplete(sse_buffers'[k]) /\ \E l \in Messages : Reads(t, l)' /\ Own(sse_buffers'[k], l, read'[l])
      BY DEF HeldOwn, IsComplete, TooLong, Own, From
    <3> QED
      BY <2>1, <2>2, <3>1 DEF HeldOwn
  <2>6. \A t : CutIfLong(t) => CutIfLong(t)'
    BY <2>2 DEF CutIfLong, Long
  <2>7. \A t : Named(t) => Named(t)'
    BY <2>1 DEF Named, Content, Long
  <2>8. \A t : Ordered(t) => Ordered(t)'
    <3>1. \A t, part : Passed(t, part)' = Passed(t, part) /\ StillHeld(t, part)' = StillHeld(t, part)
      BY <2>1 DEF Passed, StillHeld, Held
    <3> QED
      BY <2>1, <3>1 DEF Ordered
  <2> QED
    BY <2>1, <2>3, <2>4, <2>5, <2>6, <2>7, <2>8 DEF AllCalm, Calm
<1> QED
  BY <1>1, <1>2

LEMMA CalmAtFirst == Init => AllCalm
<1> SUFFICES ASSUME Init, NEW t \in Threads
             PROVE  Calm(t)
  BY DEF AllCalm
<1>1. /\ \A m \in Messages : read[m] = 0
      /\ DOMAIN sse_buffers = {} /\ merged = <<>> /\ \A part \in Parts : fed[t][part] = <<>>
  BY DEF Init
<1>2. Held(t) = {}
  BY <1>1 DEF Held
<1>3. \A m \in Messages : ~Reads(t, m)
  BY <1>1 DEF Reads, Underway
<1>4. \A part \in Parts : Passed(t, part) = <<>>
  <2> SUFFICES ASSUME NEW part \in Parts
               PROVE  Passed(t, part) = <<>>
    OBVIOUS
  <2> DEFINE ss == [i \in DOMAIN merged |-> IF merged[i].thread = t THEN merged[i].acc.content[part] ELSE <<>>]
  <2>1. ss = <<>>
    BY <1>1
  <2>2. Passed(t, part) = FlattenSeq(ss)
    BY DEF Passed
  <2> HIDE DEF ss
  <2> QED
    BY <2>1, <2>2, FlattenEmpty
<1>5. Ordered(t)
  <2>1. <<>> \o <<>> = <<>>
    OBVIOUS
  <2> QED
    BY <1>1, <1>2, <1>4, <2>1 DEF Ordered, StillHeld
<1> QED
  BY <1>1, <1>2, <1>3, <1>5 DEF Calm, OneUnderway, OneHeld, HeldOwn, CutIfLong, Named

LEMMA AlwaysCalm == Spec => []AllCalm
<1>1. TypeOK /\ Kept /\ AllCalm /\ [Next]_vars => AllCalm'
  BY StepCalm
<1> QED
  BY <1>1, CalmAtFirst, SseTypes, AlwaysKept, PTL DEF Spec

-----------------------------------------------------------------------------

\* What a thread without torn reads and without messages side by side has read
\* is passed on in that order, nothing lost or doubled, up to what its only
\* accumulator still has (accumulate_content, process).
THEOREM SseInOrder == Spec => []InOrder
<1>1. AllCalm => InOrder
  BY DEF AllCalm, Calm, OneHeld, Ordered, InOrder
<1> QED
  BY <1>1, AlwaysCalm, PTL

\* No accumulator of an undisturbed thread outlives its message: the event that
\* ends the message, an error too, removes it (is_sse_complete).
THEOREM SseNothingHeld == Spec => []NothingHeld
<1>1. AllCalm => NothingHeld
  BY DEF AllCalm, Calm, HeldOwn, Reads, NothingHeld
<1> QED
  BY <1>1, AlwaysCalm, PTL

\* A merged event of an undisturbed thread bears the id of the message it is of,
\* or none if that message was cut for its length (generate_connection_id).
THEOREM SseRightId == Spec => []RightId
<1>1. TypeOK /\ AllCalm => RightId
  <2> SUFFICES ASSUME TypeOK, AllCalm, NEW i \in DOMAIN merged, merged[i].thread \notin disturbed,
                      NEW p \in Content(merged[i].acc)
               PROVE  merged[i].acc.message_id = p[1] \/ (merged[i].acc.message_id = NoId /\ Long(p[1]))
    BY DEF RightId
  <2>1. Named(merged[i].thread)
    BY MergedTyped DEF AllCalm, Calm
  <2> QED
    BY <2>1 DEF Named
<1> QED
  BY <1>1, AlwaysCalm, SseTypes, PTL
=============================================================================

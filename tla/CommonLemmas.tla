---------------------------- MODULE CommonLemmas ----------------------------
(***************************************************************************)
(* Facts about natural numbers and sequences that the proofs of several    *)
(* components share: induction, in a form that speaks of sets, and what    *)
(* FlattenSeq of SequencesExt returns.                                     *)
(***************************************************************************)
EXTENDS Integers, Sequences, SequencesExt, SequenceTheorems, WellFoundedInduction, TLAPS

\* A set of naturals that is not empty has a least element.
LEMMA NatLeast ==
  ASSUME NEW T, T \subseteq Nat, T # {}
  PROVE  \E x \in T : \A y \in T : x <= y
<1> DEFINE R == OpToRel(<, Nat)
<1>1. IsWellFoundedOn(R, Nat)
  BY NatLessThanWellFounded, Zenon
<1>2. PICK x \in T : \A y \in T : <<y, x>> \notin R
  <2> HIDE DEF R
  <2> QED BY <1>1, WFMin
<1>3. \A y \in T : ~(y < x)
  BY <1>2 DEF OpToRel
<1> QED
  BY <1>3

\* A set that holds 0 and the successor of each of its naturals holds them all.
LEMMA SetInduction ==
  ASSUME NEW T, 0 \in T, \A n \in Nat : n \in T => n + 1 \in T
  PROVE  \A n \in Nat : n \in T
<1> DEFINE B == Nat \ T
<1> SUFFICES ASSUME B # {} PROVE FALSE
  OBVIOUS
<1>1. PICK x \in B : \A y \in B : x <= y
  BY NatLeast
<1>2. x # 0 /\ x - 1 \in Nat
  OBVIOUS
<1>3. x - 1 \in T
  BY <1>1, <1>2
<1> QED
  BY <1>2, <1>3

-----------------------------------------------------------------------------
(***************************************************************************)
(* Division of naturals.                                                   *)
(***************************************************************************)

\* Division with remainder.
LEMMA DivMod ==
  ASSUME NEW a \in Nat, NEW d \in Nat \ {0}
  PROVE  /\ a \div d \in Nat /\ a % d \in 0..d - 1
         /\ a = d * (a \div d) + (a % d)
  OBVIOUS

\* What a quotient is, from the bounds it has to meet.
LEMMA DivIs ==
  ASSUME NEW a \in Nat, NEW d \in Nat \ {0}, NEW q \in Nat, d * q <= a, a < d * q + d
  PROVE  a \div d = q
  OBVIOUS

\* A quotient grows with the dividend.
LEMMA DivMonotonic ==
  ASSUME NEW a \in Nat, NEW b \in Nat, NEW d \in Nat \ {0}, a <= b
  PROVE  a \div d <= b \div d
  OBVIOUS

\* A common factor is taken out of a comparison.
LEMMA MultCancel ==
  ASSUME NEW x \in Nat, NEW y \in Nat, NEW z \in Nat, NEW d \in Nat \ {0},
         d * x + d * y <= d * z
  PROVE  x + y <= z
<1>1. d * (x + y) <= d * z
  OBVIOUS
<1>2. ASSUME z < x + y PROVE FALSE
  <2>1. d * (z + 1) <= d * (x + y)
    BY <1>2
  <2> QED
    BY <1>1, <2>1
<1> QED
  BY <1>2

-----------------------------------------------------------------------------
(***************************************************************************)
(* Sequences and the functions they are.                                   *)
(***************************************************************************)

\* A function on 1..n is a sequence of length n.
LEMMA FunctionIsSeq ==
  ASSUME NEW S, NEW n \in Nat, NEW f \in [1..n -> S]
  PROVE  f \in Seq(S) /\ Len(f) = n
<1>1. f \in Seq(S)
  BY SeqDef
<1>2. DOMAIN f = 1..n /\ DOMAIN f = 1..Len(f) /\ Len(f) \in Nat
  BY <1>1, LenProperties
<1> QED
  BY <1>1, <1>2

\* What a sequence is made of says which sets it is a sequence over.
LEMMA SeqOver ==
  ASSUME NEW S, NEW T, NEW s \in Seq(S), \A k \in 1..Len(s) : s[k] \in T
  PROVE  s \in Seq(T)
<1>1. Len(s) \in Nat /\ s \in [1..Len(s) -> T]
  BY LenProperties
<1> QED
  BY <1>1, FunctionIsSeq

-----------------------------------------------------------------------------
(***************************************************************************)
(* FlattenSeq. A flattening of seqs is the function by whose recursion     *)
(* FlattenSeq is defined: f[i] is the first i sequences, put together.     *)
(***************************************************************************)

Joined(f, seqs, i) == IF i = 1 THEN seqs[i] ELSE f[i - 1] \o seqs[i]

\* The recursion of FlattenSeq after its first sequence.
LEMMA JoinedLater ==
  ASSUME NEW f, NEW seqs, NEW i, i # 1
  PROVE  Joined(f, seqs, i) = f[i - 1] \o seqs[i]
  BY Zenon DEF Joined

IsFlattening(f, seqs) == f = [i \in 1..Len(seqs) |-> Joined(f, seqs, i)]

\* Its values, up to the n-th
Flattens(f, seqs, n) ==
  \A i \in 1..n : f[i] = Joined(f, seqs, i)

\* One more sequence can be joined to a flattening of n.
LEMMA FlatteningExtends ==
  ASSUME NEW S, NEW seqs \in Seq(Seq(S)), NEW n \in Nat, n + 1 <= Len(seqs),
         NEW f \in [1..n -> Seq(S)], Flattens(f, seqs, n)
  PROVE  \E g \in [1..n + 1 -> Seq(S)] : Flattens(g, seqs, n + 1)
<1> DEFINE last == IF n = 0 THEN seqs[1] ELSE f[n] \o seqs[n + 1]
           g == [i \in 1..n + 1 |-> IF i <= n THEN f[i] ELSE last]
<1>1. last \in Seq(S)
  <2>1. seqs[n + 1] \in Seq(S)
    OBVIOUS
  <2>2. CASE n = 0
    BY <2>1, <2>2
  <2>3. CASE n # 0
    <3>1. f[n] \in Seq(S)
      BY <2>3
    <3>2. f[n] \o seqs[n + 1] \in Seq(S)
      BY <2>1, <3>1
    <3> QED
      BY <2>3, <3>2
  <2> QED
    BY <2>2, <2>3
<1>2. g \in [1..n + 1 -> Seq(S)]
  <2> HIDE DEF last
  <2> QED BY <1>1
<1>3. ASSUME NEW i \in 1..n + 1
      PROVE  g[i] = Joined(g, seqs, i)
  <2>1. CASE i <= n
    <3>1. f[i] = Joined(f, seqs, i)
      BY <2>1 DEF Flattens
    <3>2. g[i] = f[i]
      BY <2>1
    <3>3. i # 1 => g[i - 1] = f[i - 1]
      BY <2>1
    <3> HIDE DEF g
    <3> QED
      BY <3>1, <3>2, <3>3, Zenon DEF Joined
  <2>2. CASE i = n + 1
    <3>1. g[i] = last
      BY <2>2
    <3>2. i # 1 => g[i - 1] = f[n]
      BY <2>2
    <3> QED
      BY <2>2, <3>1, <3>2 DEF Joined
  <2>3. i <= n \/ i = n + 1
    OBVIOUS
  <2> HIDE DEF g
  <2> QED
    BY <2>1, <2>2, <2>3
<1> HIDE DEF g
<1> QED
  BY <1>2, <1>3 DEF Flattens

\* So the function by which FlattenSeq is defined exists, for every sequence of
\* sequences.
LEMMA FlatteningExists ==
  ASSUME NEW S, NEW seqs \in Seq(Seq(S))
  PROVE  \E f \in [1..Len(seqs) -> Seq(S)] : IsFlattening(f, seqs)
<1> DEFINE T == {n \in Nat : n <= Len(seqs) =>
                   \E f \in [1..n -> Seq(S)] : Flattens(f, seqs, n)}
<1>1. 0 \in T
  <2>1. [i \in 1..0 |-> <<>>] \in [1..0 -> Seq(S)]
    OBVIOUS
  <2>2. Flattens([i \in 1..0 |-> <<>>], seqs, 0)
    BY DEF Flattens
  <2> QED
    BY <2>1, <2>2
<1>2. ASSUME NEW n \in Nat, n \in T
      PROVE  n + 1 \in T
  <2> SUFFICES ASSUME n + 1 <= Len(seqs)
               PROVE  \E f \in [1..n + 1 -> Seq(S)] : Flattens(f, seqs, n + 1)
    OBVIOUS
  <2>1. n <= Len(seqs)
    OBVIOUS
  <2>2. PICK f \in [1..n -> Seq(S)] : Flattens(f, seqs, n)
    BY <1>2, <2>1
  <2> QED
    BY <2>2, FlatteningExtends
<1>3. Len(seqs) \in T
  <2>1. Len(seqs) \in Nat
    OBVIOUS
  <2> HIDE DEF T
  <2> QED
    BY <1>1, <1>2, <2>1, SetInduction
<1>4. PICK f \in [1..Len(seqs) -> Seq(S)] : Flattens(f, seqs, Len(seqs))
  BY <1>3
<1>5. IsFlattening(f, seqs)
  BY <1>4 DEF IsFlattening, Flattens
<1> QED
  BY <1>5

\* The first n elements are the same.
Agree(s, t, n) == \A i \in 1..n : s[i] = t[i]

\* There is but one.
LEMMA FlatteningUnique ==
  ASSUME NEW f, NEW g, NEW s, NEW t, NEW n \in Nat, n <= Len(s), n <= Len(t),
         Len(s) \in Nat, Len(t) \in Nat,
         IsFlattening(f, s), IsFlattening(g, t), Agree(s, t, n)
  PROVE  Agree(f, g, n)
<1> DEFINE T == {i \in Nat : i \in 1..n => f[i] = g[i]}
<1>1. 0 \in T
  OBVIOUS
<1>2. ASSUME NEW i \in Nat, i \in T
      PROVE  i + 1 \in T
  <2> SUFFICES ASSUME i + 1 \in 1..n PROVE f[i + 1] = g[i + 1]
    OBVIOUS
  <2>1. PICK j : j = i + 1
    OBVIOUS
  <2>2. j \in 1..Len(s) /\ j \in 1..Len(t) /\ s[j] = t[j] /\ (j # 1 => f[j - 1] = g[j - 1])
    BY <1>2, <2>1 DEF Agree
  <2>3. f[j] = Joined(f, s, j) /\ g[j] = Joined(g, t, j)
    BY <2>2, Zenon DEF IsFlattening
  <2>4. Joined(f, s, j) = Joined(g, t, j)
    <3>1. CASE j = 1
      BY <2>2, <3>1, Zenon DEF Joined
    <3>2. CASE j # 1
      <4>1. f[j - 1] = g[j - 1] /\ s[j] = t[j]
        BY <2>2, <3>2
      <4>2. Joined(f, s, j) = f[j - 1] \o s[j]
        BY <3>2, JoinedLater
      <4>3. Joined(g, t, j) = g[j - 1] \o t[j]
        BY <3>2, JoinedLater
      <4> QED
        BY <4>1, <4>2, <4>3
    <3> QED
      BY <3>1, <3>2
  <2> QED
    BY <2>1, <2>3, <2>4
<1>3. \A i \in Nat : i \in T
  <2> HIDE DEF T
  <2> QED BY <1>1, <1>2, SetInduction
<1> QED
  BY <1>3 DEF Agree

\* And FlattenSeq is its last value.
LEMMA FlattenSeqIs ==
  ASSUME NEW S, NEW seqs \in Seq(Seq(S)), seqs # <<>>
  PROVE  \E f \in [1..Len(seqs) -> Seq(S)] :
           IsFlattening(f, seqs) /\ FlattenSeq(seqs) = f[Len(seqs)]
<1> DEFINE f == CHOOSE f : IsFlattening(f, seqs)
<1>1. IsFlattening(f, seqs)
  BY FlatteningExists
<1>2. FlattenSeq(seqs) = f[Len(seqs)]
  BY DEF FlattenSeq, IsFlattening, Joined
<1>3. PICK g \in [1..Len(seqs) -> Seq(S)] : IsFlattening(g, seqs)
  BY FlatteningExists
<1>4. g[Len(seqs)] = f[Len(seqs)]
  <2> HIDE DEF f
  <2>1. Len(seqs) \in Nat /\ Len(seqs) <= Len(seqs) /\ Agree(seqs, seqs, Len(seqs))
    BY DEF Agree
  <2>2. Agree(g, f, Len(seqs))
    BY <1>1, <1>3, <2>1, FlatteningUnique
  <2>3. Len(seqs) \in 1..Len(seqs)
    OBVIOUS
  <2> QED
    BY <2>2, <2>3 DEF Agree
<1> HIDE DEF f
<1> QED
  BY <1>2, <1>3, <1>4

\* Nothing, flattened.
LEMMA FlattenEmpty == FlattenSeq(<<>>) = <<>>
  BY DEF FlattenSeq

\* The elements of a flattening are those of its parts.
LEMMA FlattenType ==
  ASSUME NEW S, NEW seqs \in Seq(Seq(S))
  PROVE  FlattenSeq(seqs) \in Seq(S)
<1>1. CASE seqs = <<>>
  BY <1>1, FlattenEmpty, <<>> \in Seq(S)
<1>2. CASE seqs # <<>>
  <2>1. PICK f \in [1..Len(seqs) -> Seq(S)] :
          IsFlattening(f, seqs) /\ FlattenSeq(seqs) = f[Len(seqs)]
    BY <1>2, FlattenSeqIs
  <2>2. Len(seqs) \in 1..Len(seqs)
    BY <1>2
  <2>3. f[Len(seqs)] \in Seq(S)
    BY <2>2, Zenon
  <2> QED
    BY <2>1, <2>3, Zenon
<1> QED
  BY <1>1, <1>2

\* One sequence more
LEMMA FlattenAppend ==
  ASSUME NEW S, NEW seqs \in Seq(Seq(S)), NEW s \in Seq(S)
  PROVE  FlattenSeq(Append(seqs, s)) = FlattenSeq(seqs) \o s
<1>0. PICK all : all = Append(seqs, s)
  OBVIOUS
<1>1. all \in Seq(Seq(S)) /\ all # <<>> /\ Len(all) = Len(seqs) + 1 /\ Len(all) \in Nat
  <2>1. Len(seqs) \in Nat
    OBVIOUS
  <2> QED
    BY <1>0, <2>1, AppendProperties
<1>2. PICK g \in [1..Len(all) -> Seq(S)] :
        IsFlattening(g, all) /\ FlattenSeq(all) = g[Len(all)]
  BY <1>1, FlattenSeqIs
<1>3. g[Len(all)] = Joined(g, all, Len(all))
  <2>1. Len(all) \in 1..Len(all)
    BY <1>1
  <2> QED BY <1>2, <2>1, Zenon DEF IsFlattening
<1>4. all[Len(all)] = s
  BY <1>0, <1>1, AppendProperties
<1>5. CASE seqs = <<>>
  BY <1>0, <1>1, <1>2, <1>3, <1>4, <1>5, FlattenEmpty DEF Joined
<1>6. CASE seqs # <<>>
  <2>1. PICK f \in [1..Len(seqs) -> Seq(S)] :
          IsFlattening(f, seqs) /\ FlattenSeq(seqs) = f[Len(seqs)]
    BY <1>6, FlattenSeqIs
  <2>2. Agree(seqs, all, Len(seqs))
    BY <1>0, AppendProperties DEF Agree
  <2>3. Len(seqs) \in Nat /\ Len(all) \in Nat /\ Len(seqs) <= Len(all) /\ Len(seqs) # 0
    BY <1>1, <1>6
  <2>4. Agree(f, g, Len(seqs))
    <3>1. Len(seqs) <= Len(seqs)
      BY <2>3
    <3> QED
      BY <1>2, <2>1, <2>2, <2>3, <3>1, FlatteningUnique
  <2>5. g[Len(all) - 1] = FlattenSeq(seqs)
    BY <1>1, <2>1, <2>3, <2>4 DEF Agree
  <2>6. Len(all) # 1
    BY <1>1, <2>3
  <2>7. Joined(g, all, Len(all)) = g[Len(all) - 1] \o all[Len(all)]
    BY <2>6, JoinedLater, Zenon
  <2>8. FlattenSeq(all) = FlattenSeq(seqs) \o s
    BY <1>2, <1>3, <1>4, <2>5, <2>7, Zenon
  <2> QED
    BY <1>0, <2>8, Zenon
<1> QED
  BY <1>5, <1>6

\* Two sequences without repetitions or common elements make one without
\* repetitions.
LEMMA ConcatInjective ==
  ASSUME NEW S, NEW s \in Seq(S), NEW t \in Seq(S), IsInjective(s), IsInjective(t),
         \A a \in 1..Len(s), b \in 1..Len(t) : s[a] # t[b]
  PROVE  IsInjective(s \o t)
<1>1. PICK u : u = s \o t
  OBVIOUS
<1>2. /\ Len(s) \in Nat /\ Len(t) \in Nat
      /\ Len(u) = Len(s) + Len(t) /\ DOMAIN u = 1..Len(u)
      /\ DOMAIN s = 1..Len(s) /\ DOMAIN t = 1..Len(t)
      /\ \A k \in 1..Len(u) : u[k] = IF k <= Len(s) THEN s[k] ELSE t[k - Len(s)]
  BY <1>1, ConcatProperties, LenProperties
<1>3. ASSUME NEW a \in 1..Len(u), NEW b \in 1..Len(u), u[a] = u[b]
      PROVE  a = b
  <2>1. CASE a <= Len(s) /\ b <= Len(s)
    BY <1>2, <1>3, <2>1 DEF IsInjective
  <2>2. CASE ~(a <= Len(s)) /\ ~(b <= Len(s))
    <3>1. a - Len(s) \in 1..Len(t) /\ b - Len(s) \in 1..Len(t)
      BY <1>2, <2>2
    <3>2. t[a - Len(s)] = t[b - Len(s)]
      BY <1>2, <1>3, <2>2
    <3> QED
      BY <1>2, <3>1, <3>2 DEF IsInjective
  <2>3. CASE a <= Len(s) /\ ~(b <= Len(s))
    <3>1. a \in 1..Len(s) /\ b - Len(s) \in 1..Len(t) /\ s[a] = t[b - Len(s)]
      BY <1>2, <1>3, <2>3
    <3> QED
      BY <3>1
  <2>4. CASE ~(a <= Len(s)) /\ b <= Len(s)
    <3>1. b \in 1..Len(s) /\ a - Len(s) \in 1..Len(t) /\ s[b] = t[a - Len(s)]
      BY <1>2, <1>3, <2>4
    <3> QED
      BY <3>1
  <2> QED
    BY <2>1, <2>2, <2>3, <2>4
<1> QED
  BY <1>1, <1>2, <1>3 DEF IsInjective

\* The elements of the first n sequences
Elements(seqs, n) == UNION {{seqs[i][k] : k \in 1..Len(seqs[i])} : i \in 1..n}

\* More sequences have more elements.
LEMMA ElementsGrow ==
  ASSUME NEW seqs, NEW n \in Nat, NEW m \in Nat, n <= m
  PROVE  Elements(seqs, n) \subseteq Elements(seqs, m)
<1> DEFINE E(i) == {seqs[i][k] : k \in 1..Len(seqs[i])}
<1>1. \A i \in 1..n : i \in 1..m
  OBVIOUS
<1>2. UNION {E(i) : i \in 1..n} \subseteq UNION {E(i) : i \in 1..m}
  <2> HIDE DEF E
  <2> QED BY <1>1
<1> QED
  BY <1>2 DEF Elements

\* Sequences of distinct elements that have none in common make one of
\* distinct elements.
LEMMA FlattenInjective ==
  ASSUME NEW S, NEW seqs \in Seq(Seq(S)),
         \A i \in 1..Len(seqs) : IsInjective(seqs[i]),
         \A i, j \in 1..Len(seqs) : i # j =>
           \A a \in 1..Len(seqs[i]), b \in 1..Len(seqs[j]) : seqs[i][a] # seqs[j][b]
  PROVE  IsInjective(FlattenSeq(seqs))
<1>1. CASE seqs = <<>>
  <2>1. IsInjective(<<>>)
    BY DEF IsInjective
  <2> QED
    BY <1>1, <2>1, FlattenEmpty
<1>2. CASE seqs # <<>>
  <2>1. PICK f \in [1..Len(seqs) -> Seq(S)] :
          IsFlattening(f, seqs) /\ FlattenSeq(seqs) = f[Len(seqs)]
    BY <1>2, FlattenSeqIs
  <2> DEFINE T == {n \in Nat : n \in 1..Len(seqs) =>
                     f[n] \in Seq(Elements(seqs, n)) /\ IsInjective(f[n])}
  <2>2. 0 \in T
    OBVIOUS
  <2>3. ASSUME NEW n \in Nat, n \in T
        PROVE  n + 1 \in T
    <3> SUFFICES ASSUME n + 1 \in 1..Len(seqs)
                 PROVE  f[n + 1] \in Seq(Elements(seqs, n + 1)) /\ IsInjective(f[n + 1])
      OBVIOUS
    <3>1. PICK j : j = n + 1
      OBVIOUS
    <3>2. j \in 1..Len(seqs) /\ (j # 1 => n \in 1..Len(seqs) /\ j - 1 = n)
      BY <3>1
    <3>3. f[j] = Joined(f, seqs, j)
      BY <2>1, <3>2, Zenon DEF IsFlattening
    <3>4. seqs[j] \in Seq(S)
      BY <3>2
    <3>5. seqs[j] \in Seq(Elements(seqs, j))
      <4>1. \A k \in 1..Len(seqs[j]) : seqs[j][k] \in Elements(seqs, j)
        BY <3>2 DEF Elements
      <4> QED
        BY <3>4, <4>1, SeqOver
    <3>6. CASE j = 1
      <4>1. f[j] = seqs[j]
        BY <3>3, <3>6 DEF Joined
      <4> QED
        BY <3>1, <3>2, <3>5, <4>1
    <3>7. CASE j # 1
      <4>1. f[j] = f[n] \o seqs[j]
        BY <3>2, <3>3, <3>7, JoinedLater
      <4>2. f[n] \in Seq(Elements(seqs, n)) /\ IsInjective(f[n])
        BY <2>3, <3>2, <3>7
      <4>3. Elements(seqs, n) \subseteq Elements(seqs, j)
        <5>1. j \in Nat /\ n <= j
          BY <3>1
        <5> QED
          BY <5>1, ElementsGrow
      <4>4. f[n] \in Seq(Elements(seqs, j))
        BY <4>2, <4>3
      <4>5. f[j] \in Seq(Elements(seqs, j))
        BY <3>5, <4>1, <4>4, ConcatProperties
      <4>6. ASSUME NEW a \in 1..Len(f[n]), NEW b \in 1..Len(seqs[j])
            PROVE  f[n][a] # seqs[j][b]
        <5>1. f[n][a] \in Elements(seqs, n)
          BY <4>2
        <5>2. PICK i \in 1..n : \E k \in 1..Len(seqs[i]) : f[n][a] = seqs[i][k]
          BY <5>1 DEF Elements
        <5>3. i \in 1..Len(seqs) /\ i # j
          BY <3>1, <3>2
        <5> QED
          BY <3>2, <5>2, <5>3
      <4>7. IsInjective(seqs[j])
        BY <3>2
      <4>8. IsInjective(f[n] \o seqs[j])
        BY <3>5, <4>2, <4>4, <4>6, <4>7, ConcatInjective
      <4> QED
        BY <3>1, <4>1, <4>5, <4>8
    <3> QED
      BY <3>6, <3>7
  <2>4. \A n \in Nat : n \in T
    <3> HIDE DEF T
    <3> QED BY <2>2, <2>3, SetInduction
  <2>5. Len(seqs) \in Nat /\ Len(seqs) \in 1..Len(seqs)
    BY <1>2
  <2> QED
    BY <2>1, <2>4, <2>5
<1> QED
  BY <1>1, <1>2
-----------------------------------------------------------------------------
(***************************************************************************)
(* Where a sequence is in a flattening: behind those before it.            *)
(***************************************************************************)

Flat(seqs, n) == FlattenSeq(SubSeq(seqs, 1, n))

\* The first n sequences, joined, are a sequence.
LEMMA FlatType ==
  ASSUME NEW S, NEW seqs \in Seq(Seq(S)), NEW n \in 0..Len(seqs)
  PROVE  Flat(seqs, n) \in Seq(S) /\ Len(Flat(seqs, n)) \in Nat
<1>1. SubSeq(seqs, 1, n) \in Seq(Seq(S))
  OBVIOUS
<1>2. Flat(seqs, n) \in Seq(S)
  BY <1>1, FlattenType DEF Flat
<1> QED
  BY <1>2, LenProperties

\* None of them joined, and all of them.
LEMMA FlatAll ==
  ASSUME NEW S, NEW seqs \in Seq(Seq(S))
  PROVE  Flat(seqs, 0) = <<>> /\ Flat(seqs, Len(seqs)) = FlattenSeq(seqs)
<1>1. SubSeq(seqs, 1, 0) = <<>> /\ SubSeq(seqs, 1, Len(seqs)) = seqs
  OBVIOUS
<1> QED
  BY <1>1, FlattenEmpty DEF Flat

\* The next one is put at the end.
LEMMA FlatNext ==
  ASSUME NEW S, NEW seqs \in Seq(Seq(S)), NEW n \in Nat, n + 1 <= Len(seqs)
  PROVE  Flat(seqs, n + 1) = Flat(seqs, n) \o seqs[n + 1]
<1>1. PICK p : p = SubSeq(seqs, 1, n)
  OBVIOUS
<1>2. p \in Seq(Seq(S)) /\ seqs[n + 1] \in Seq(S)
  BY <1>1
<1>3. SubSeq(seqs, 1, n + 1) = Append(p, seqs[n + 1])
  BY <1>1
<1>4. FlattenSeq(Append(p, seqs[n + 1])) = FlattenSeq(p) \o seqs[n + 1]
  BY <1>2, FlattenAppend
<1> QED
  BY <1>1, <1>3, <1>4, Zenon DEF Flat

\* Where the elements of one part are in the flattening.
LEMMA FlattenAt ==
  ASSUME NEW S, NEW seqs \in Seq(Seq(S)), NEW n \in Nat, n + 1 <= Len(seqs)
  PROVE  /\ Len(Flat(seqs, n + 1)) = Len(Flat(seqs, n)) + Len(seqs[n + 1])
         /\ Len(Flat(seqs, n + 1)) <= Len(FlattenSeq(seqs))
         /\ \A k \in 1..Len(seqs[n + 1]) :
              FlattenSeq(seqs)[Len(Flat(seqs, n)) + k] = seqs[n + 1][k]
<1>1. PICK before \in Seq(S) : before = Flat(seqs, n)
  BY FlatType
<1>2. PICK s \in Seq(S) : s = seqs[n + 1]
  OBVIOUS
<1>3. PICK end \in Nat : end = Len(before) + Len(s)
  OBVIOUS
<1> DEFINE Holds(t) == end <= Len(t) /\ \A k \in 1..Len(s) : t[Len(before) + k] = s[k]
           T == {m \in Nat : (n + 1) + m <= Len(seqs) => Holds(Flat(seqs, (n + 1) + m))}
<1>4. Len(before \o s) = end /\ Holds(before \o s)
  BY <1>3
<1>5. 0 \in T
  <2>1. Flat(seqs, n + 1) = before \o s
    BY <1>1, <1>2, FlatNext
  <2>2. (n + 1) + 0 = n + 1
    OBVIOUS
  <2> HIDE DEF Holds
  <2> QED
    BY <1>4, <2>1, <2>2
<1>6. ASSUME NEW m \in Nat, m \in T PROVE m + 1 \in T
  <2> SUFFICES ASSUME (n + 1) + (m + 1) <= Len(seqs) PROVE Holds(Flat(seqs, (n + 1) + (m + 1)))
    OBVIOUS
  <2>1. PICK i \in Nat : i = (n + 1) + m /\ i + 1 = (n + 1) + (m + 1) /\ i + 1 <= Len(seqs) /\ i <= Len(seqs)
    OBVIOUS
  <2>2. PICK t \in Seq(S) : t = Flat(seqs, i)
    BY <2>1, FlatType
  <2>3. Holds(t)
    <3> HIDE DEF Holds
    <3> QED BY <1>6, <2>1, <2>2
  <2>4. PICK u \in Seq(S) : u = seqs[i + 1]
    BY <2>1
  <2>5. Flat(seqs, i + 1) = t \o u
    BY <2>1, <2>2, <2>4, FlatNext
  <2>6. Holds(t \o u)
    <3>1. Len(t \o u) = Len(t) + Len(u) /\ end <= Len(t \o u)
      BY <2>3
    <3>2. ASSUME NEW k \in 1..Len(s) PROVE (t \o u)[Len(before) + k] = s[k]
      <4>1. Len(before) + k \in 1..Len(t)
        BY <1>3, <2>3
      <4>2. (t \o u)[Len(before) + k] = t[Len(before) + k]
        BY <4>1
      <4> QED
        BY <2>3, <4>2
    <3> QED
      BY <3>1, <3>2
  <2> HIDE DEF Holds
  <2> QED
    BY <2>1, <2>5, <2>6
<1>7. \A m \in Nat : m \in T
  <2> HIDE DEF T
  <2> QED BY <1>5, <1>6, SetInduction
<1>8. PICK m \in Nat : (n + 1) + m = Len(seqs) /\ (n + 1) + m <= Len(seqs)
  <2>1. Len(seqs) \in Nat
    OBVIOUS
  <2>2. PICK d : d = Len(seqs) - (n + 1)
    OBVIOUS
  <2>3. d \in Nat /\ (n + 1) + d = Len(seqs) /\ (n + 1) + d <= Len(seqs)
    BY <2>1, <2>2
  <2> QED
    BY <2>3, Zenon
<1>9. Holds(FlattenSeq(seqs))
  <2>1. Holds(Flat(seqs, (n + 1) + m))
    <3> HIDE DEF Holds
    <3> QED BY <1>7, <1>8
  <2>2. Flat(seqs, (n + 1) + m) = FlattenSeq(seqs)
    BY <1>8, FlatAll
  <2> HIDE DEF Holds
  <2> QED
    BY <2>1, <2>2
<1>10. Flat(seqs, n + 1) = before \o s
  BY <1>1, <1>2, FlatNext
<1> QED
  BY <1>1, <1>2, <1>3, <1>4, <1>9, <1>10


=============================================================================

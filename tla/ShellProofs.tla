---------------------------- MODULE ShellProofs -----------------------------
(***************************************************************************)
(* Proofs about Shell, for every alphabet, every set of commands and files *)
(* and every width of terminal and prompt.                                 *)
(***************************************************************************)
EXTENDS Shell, CommonLemmas, FiniteSetTheorems

Chars == Keys \ {Backspace}

-----------------------------------------------------------------------------
(***************************************************************************)
(* Counting keys.                                                          *)
(***************************************************************************)

\* From behind i up to j, how many more characters than backspaces
Excess(keys, i, j) == Count(keys, i + 1, j, Chars) - Count(keys, i + 1, j, {Backspace})

Hits(keys, i, j, S) == {k \in i..j : keys[k] \in S}

\* A count of keys is a natural number.
LEMMA CountType ==
  ASSUME NEW keys, NEW i \in Nat, NEW j \in Nat, NEW S
  PROVE  /\ IsFiniteSet(Hits(keys, i, j, S))
         /\ Count(keys, i, j, S) = Cardinality(Hits(keys, i, j, S))
         /\ Count(keys, i, j, S) \in Nat
<1>1. IsFiniteSet(i..j)
  BY FS_Interval
<1>2. Hits(keys, i, j, S) \subseteq i..j
  BY DEF Hits
<1>3. IsFiniteSet(Hits(keys, i, j, S))
  BY <1>1, <1>2, FS_Subset
<1> QED
  BY <1>3, FS_CardinalityType DEF Count, Hits

\* A count over two ranges is the sum of theirs.
LEMMA CountSplit ==
  ASSUME NEW keys, NEW i \in Nat, NEW m \in Nat, NEW n \in Nat, NEW j \in Nat, NEW S,
         i <= n, n = m + 1, m <= j
  PROVE  Count(keys, i, j, S) = Count(keys, i, m, S) + Count(keys, n, j, S)
<1>1. PICK A : A = Hits(keys, i, m, S)
  OBVIOUS
<1>2. PICK B : B = Hits(keys, n, j, S)
  OBVIOUS
<1>3. Hits(keys, i, j, S) = A \cup B /\ A \cap B = {}
  BY <1>1, <1>2 DEF Hits
<1>4. IsFiniteSet(A) /\ IsFiniteSet(B)
  BY <1>1, <1>2, CountType
<1>5. Cardinality(A) \in Nat /\ Cardinality(B) \in Nat /\ Cardinality(A \cap B) = 0
  BY <1>3, <1>4, FS_CardinalityType, FS_EmptySet
<1>6. Cardinality(A \cup B) = Cardinality(A) + Cardinality(B)
  <2>1. Cardinality(A \cup B) = Cardinality(A) + Cardinality(B) - Cardinality(A \cap B)
    BY <1>4, FS_Union, Zenon
  <2> QED
    BY <1>5, <2>1
<1>7. /\ Count(keys, i, j, S) = Cardinality(A \cup B)
      /\ Count(keys, i, m, S) = Cardinality(A)
      /\ Count(keys, n, j, S) = Cardinality(B)
  BY <1>1, <1>2, <1>3, CountType
<1> QED
  BY <1>6, <1>7

\* The count of one key.
LEMMA CountOne ==
  ASSUME NEW keys, NEW j \in Nat, NEW S
  PROVE  Count(keys, j, j, S) = IF keys[j] \in S THEN 1 ELSE 0
<1> DEFINE C == {k \in j..j : keys[k] \in S}
<1>1. CASE keys[j] \in S
  <2>1. C = {j}
    BY <1>1
  <2> QED
    BY <1>1, <2>1, FS_Singleton DEF Count
<1>2. CASE keys[j] \notin S
  <2>1. C = {}
    BY <1>2
  <2> QED
    BY <1>2, <2>1, FS_EmptySet DEF Count
<1> QED
  BY <1>1, <1>2

\* An excess of characters over backspaces is an integer.
LEMMA ExcessType ==
  ASSUME NEW keys, NEW i \in Nat, NEW j \in Nat
  PROVE  Excess(keys, i, j) \in Int
<1>1. PICK a \in Nat : a = i + 1
  OBVIOUS
<1>2. Count(keys, a, j, Chars) \in Nat /\ Count(keys, a, j, {Backspace}) \in Nat
  BY CountType
<1> QED
  BY <1>1, <1>2 DEF Excess

\* The excess over two ranges is the sum of theirs.
LEMMA ExcessSplit ==
  ASSUME NEW keys, NEW i \in Nat, NEW m \in Nat, NEW j \in Nat, i <= m, m <= j
  PROVE  Excess(keys, i, j) = Excess(keys, i, m) + Excess(keys, m, j)
<1>1. PICK a \in Nat : a = i + 1
  OBVIOUS
<1>2. PICK b \in Nat : b = m + 1
  OBVIOUS
<1>3. \A S : /\ Count(keys, a, j, S) = Count(keys, a, m, S) + Count(keys, b, j, S)
             /\ Count(keys, a, m, S) \in Nat /\ Count(keys, b, j, S) \in Nat
  <2>1. a <= b
    BY <1>1, <1>2
  <2> QED
    BY <1>2, <2>1, CountSplit, CountType
<1> QED
  BY <1>1, <1>2, <1>3 DEF Excess

\* Nothing has no excess.
LEMMA ExcessNone ==
  ASSUME NEW keys, NEW i \in Nat
  PROVE  Excess(keys, i, i) = 0
<1>1. \A S : {k \in i + 1..i : keys[k] \in S} = {}
  OBVIOUS
<1>2. \A S : Count(keys, i + 1, i, S) = 0
  BY <1>1, FS_EmptySet DEF Count
<1> QED
  BY <1>2 DEF Excess

\* A character adds one to the excess and a backspace takes one away.
LEMMA ExcessNext ==
  ASSUME NEW keys, NEW i \in Nat, NEW j \in Nat, i <= j, keys[j + 1] \in Keys
  PROVE  Excess(keys, i, j + 1) = Excess(keys, i, j) + (IF keys[j + 1] = Backspace THEN -1 ELSE 1)
<1>1. Excess(keys, i, j + 1) = Excess(keys, i, j) + Excess(keys, j, j + 1)
  BY ExcessSplit
<1>2. Excess(keys, j, j + 1) = IF keys[j + 1] = Backspace THEN -1 ELSE 1
  BY CountOne DEF Excess, Chars
<1> QED
  BY <1>1, <1>2

\* It depends on the keys in between only.
LEMMA ExcessPrefix ==
  ASSUME NEW keys, NEW more, NEW i \in Nat, NEW j \in Nat,
         \A k \in i + 1..j : more[k] = keys[k]
  PROVE  Excess(more, i, j) = Excess(keys, i, j)
<1>1. \A S : {k \in i + 1..j : more[k] \in S} = {k \in i + 1..j : keys[k] \in S}
  OBVIOUS
<1> QED
  BY <1>1 DEF Excess, Count

\* A character survives unless backspaces ever outnumber the characters typed
\* after it.
LEMMA SurvivesIff ==
  ASSUME NEW keys \in Seq(Keys), NEW i \in 1..Len(keys)
  PROVE  Survives(keys, i) <=>
           keys[i] # Backspace /\ \A j \in i + 1..Len(keys) : Excess(keys, i, j) >= 0
<1>1. PICK a \in Nat : a = i + 1
  OBVIOUS
<1>2. ASSUME NEW j \in a..Len(keys)
      PROVE  Count(keys, a, j, {Backspace}) <= Count(keys, a, j, Chars) <=> Excess(keys, i, j) >= 0
  <2>1. Count(keys, a, j, Chars) \in Nat /\ Count(keys, a, j, {Backspace}) \in Nat
    <3>1. j \in Nat
      OBVIOUS
    <3> QED
      BY <3>1, CountType
  <2> QED
    BY <1>1, <2>1 DEF Excess
<1> QED
  BY <1>1, <1>2, Zenon DEF Survives, Chars

-----------------------------------------------------------------------------
(***************************************************************************)
(* Which characters survive a key more.                                    *)
(***************************************************************************)

\* As many backspaces as characters follow the last character that is left.
LEMMA LastSurvivor ==
  ASSUME NEW keys \in Seq(Keys), NEW i \in Left(keys), \A j \in Left(keys) : j <= i
  PROVE  Excess(keys, i, Len(keys)) = 0
<1> DEFINE n == Len(keys)
           T == {m \in i..n : Excess(keys, i, m) <= 0}
           U == {n - m : m \in T}
<1>1. i \in 1..n /\ n \in Nat /\ Survives(keys, i)
  BY DEF Left
<1>2. \A j \in i + 1..n : Excess(keys, i, j) >= 0
  BY <1>1, SurvivesIff
<1>3. Excess(keys, i, i) = 0 /\ i \in T
  BY <1>1, ExcessNone
<1>4. U \subseteq Nat /\ U # {}
  BY <1>1, <1>3
<1>5. PICK u \in U : \A y \in U : u <= y
  <2> HIDE DEF U
  <2> QED BY <1>4, NatLeast
<1>6. PICK m \in T : u = n - m
  OBVIOUS
<1>7. ASSUME NEW j \in T PROVE j <= m
  <2>1. n - j \in U
    OBVIOUS
  <2>2. u <= n - j
    BY <1>5, <2>1
  <2>3. j \in Int /\ m \in Int
    BY <1>1, <1>6
  <2> QED
    BY <1>1, <1>6, <2>2, <2>3
<1>8. m \in i..n /\ m \in Nat /\ Excess(keys, i, m) = 0
  <2>1. m \in i..n /\ Excess(keys, i, m) <= 0 /\ (m = i \/ m \in i + 1..n)
    BY <1>1, <1>6
  <2>2. Excess(keys, i, m) \in Int
    BY <1>1, <2>1, ExcessType
  <2> QED
    BY <1>1, <1>2, <1>3, <2>1, <2>2
<1>9. CASE m = n
  BY <1>8, <1>9
<1>10. CASE m # n
  <2>1. m + 1 \in i + 1..n /\ m + 1 \in i..n /\ m + 1 \notin T /\ m + 1 \in 1..n
    BY <1>1, <1>7, <1>8, <1>10
  <2>2. keys[m + 1] \in Keys
    BY <2>1
  <2>3. Excess(keys, i, m + 1) \in Int /\ Excess(keys, i, m + 1) > 0
    BY <1>1, <2>1, ExcessType
  <2>4. Excess(keys, i, m + 1) = 0 + (IF keys[m + 1] = Backspace THEN -1 ELSE 1)
    BY <1>1, <1>8, <2>2, ExcessNext
  <2>5. keys[m + 1] # Backspace /\ Excess(keys, i, m + 1) = 1
    BY <2>3, <2>4
  <2>6. ASSUME NEW j \in (m + 1) + 1..n PROVE Excess(keys, m + 1, j) >= 0
    <3>1. j \in Nat /\ j \in i..n /\ j \notin T /\ i <= m + 1 /\ m + 1 <= j
      BY <1>1, <1>7, <1>8
    <3>2. Excess(keys, i, j) = Excess(keys, i, m + 1) + Excess(keys, m + 1, j)
      BY <1>1, <1>8, <3>1, ExcessSplit
    <3>3. Excess(keys, i, j) \in Int /\ Excess(keys, m + 1, j) \in Int /\ Excess(keys, i, j) > 0
      BY <1>1, <1>8, <3>1, ExcessType
    <3> QED
      BY <2>5, <3>2, <3>3
  <2>7. m + 1 \in Left(keys)
    BY <2>1, <2>5, <2>6, SurvivesIff DEF Left
  <2> QED
    BY <1>1, <1>8, <2>7
<1> QED
  BY <1>9, <1>10

\* Every earlier one has a character to spare.
LEMMA EarlierSurvivor ==
  ASSUME NEW keys \in Seq(Keys), NEW i \in Left(keys), NEW k \in Left(keys), i < k
  PROVE  Excess(keys, i, Len(keys)) >= 1
<1> DEFINE n == Len(keys)
<1>1. /\ i \in 1..n /\ k \in 1..n /\ n \in Nat /\ Survives(keys, i) /\ Survives(keys, k)
      /\ k - 1 \in Nat /\ (k - 1) + 1 = k /\ i <= k - 1
  BY DEF Left
<1>2. Excess(keys, k, n) >= 0 /\ Excess(keys, k, n) \in Int
  <2>1. k = n \/ n \in k + 1..n
    BY <1>1
  <2> QED
    BY <1>1, <2>1, SurvivesIff, ExcessNone, ExcessType
<1>3. Excess(keys, i, k - 1) >= 0 /\ Excess(keys, i, k - 1) \in Int
  <2>1. k - 1 = i \/ k - 1 \in i + 1..n
    BY <1>1
  <2>2. \A j \in i + 1..n : Excess(keys, i, j) >= 0
    BY <1>1, SurvivesIff
  <2>3. Excess(keys, i, i) = 0
    BY <1>1, ExcessNone
  <2>4. Excess(keys, i, k - 1) \in Int
    BY <1>1, ExcessType
  <2> QED
    BY <2>1, <2>2, <2>3, <2>4
<1>4. Excess(keys, i, k) = Excess(keys, i, k - 1) + 1
  <2>1. keys[k] \in Keys /\ keys[k] # Backspace
    BY <1>1, SurvivesIff
  <2>2. Excess(keys, i, (k - 1) + 1) = Excess(keys, i, k - 1) + (IF keys[(k - 1) + 1] = Backspace THEN -1 ELSE 1)
    BY <1>1, <2>1, ExcessNext
  <2> QED
    BY <1>1, <2>1, <2>2
<1>5. Excess(keys, i, n) = Excess(keys, i, k) + Excess(keys, k, n)
  BY <1>1, ExcessSplit
<1> QED
  BY <1>2, <1>3, <1>4, <1>5

\* One key more
LEMMA SurvivesMore ==
  ASSUME NEW keys \in Seq(Keys), NEW c \in Keys, NEW more, more = Append(keys, c)
  PROVE  /\ more \in Seq(Keys) /\ Len(more) = Len(keys) + 1 /\ more[Len(keys) + 1] = c
         /\ \A i \in 1..Len(keys) : more[i] = keys[i]
         /\ \A i \in 1..Len(keys) :
              /\ Survives(more, i) <=>
                   Survives(keys, i) /\ (c = Backspace => Excess(keys, i, Len(keys)) >= 1)
              /\ Survives(keys, i) => Excess(keys, i, Len(keys)) >= 0
         /\ Survives(more, Len(keys) + 1) <=> c # Backspace
<1> DEFINE n == Len(keys)
<1>1. /\ more \in Seq(Keys) /\ Len(more) = n + 1 /\ more[n + 1] = c /\ n \in Nat
      /\ \A i \in 1..n : more[i] = keys[i]
  OBVIOUS
<1>2. ASSUME NEW i \in 1..n
      PROVE  /\ Survives(more, i) <=>
                  Survives(keys, i) /\ (c = Backspace => Excess(keys, i, n) >= 1)
             /\ Survives(keys, i) => Excess(keys, i, n) >= 0
  <2>0. i \in Nat /\ n \in Nat /\ i <= n
    BY <1>1
  <2>1. ASSUME NEW j \in i + 1..n PROVE Excess(more, i, j) = Excess(keys, i, j)
    <3>1. j \in Nat /\ \A k \in i + 1..j : more[k] = keys[k]
      BY <1>1, <2>0
    <3> HIDE DEF n
    <3> QED
      BY <2>0, <3>1, ExcessPrefix
  <2>2. Excess(more, i, n) = Excess(keys, i, n) /\ Excess(keys, i, n) \in Int
    <3>1. \A k \in i + 1..n : more[k] = keys[k]
      BY <1>1, <2>0
    <3> HIDE DEF n
    <3> QED
      BY <2>0, <3>1, ExcessPrefix, ExcessType
  <2>3. Excess(more, i, n + 1) = Excess(keys, i, n) + (IF c = Backspace THEN -1 ELSE 1)
    <3>1. more[n + 1] \in Keys
      BY <1>1
    <3>3. Excess(more, i, n + 1) = Excess(more, i, n) + (IF more[n + 1] = Backspace THEN -1 ELSE 1)
      <4> HIDE DEF n
      <4> QED BY <2>0, <3>1, ExcessNext
    <3> QED
      BY <1>1, <2>2, <3>3
  <2>4. Survives(keys, i) => Excess(keys, i, n) >= 0
    <3>1. i = n \/ n \in i + 1..n
      BY <1>1
    <3> QED
      BY <1>1, <3>1, SurvivesIff, ExcessNone
  <2>5. Survives(more, i) <=>
          more[i] # Backspace /\ \A j \in i + 1..n + 1 : Excess(more, i, j) >= 0
    <3>1. i \in 1..Len(more)
      BY <1>1
    <3> QED
      BY <1>1, <3>1, SurvivesIff
  <2>6. \A j \in i + 1..n + 1 : j \in i + 1..n \/ j = n + 1
    BY <1>1
  <2>7. n + 1 \in i + 1..n + 1 /\ \A j \in i + 1..n : j \in i + 1..n + 1
    BY <1>1
  <2>8. Excess(more, i, n + 1) >= 0 <=> (IF c = Backspace THEN Excess(keys, i, n) >= 1 ELSE Excess(keys, i, n) >= -1)
    BY <2>2, <2>3
  <2> QED
    BY <1>1, <2>1, <2>2, <2>4, <2>5, <2>6, <2>7, <2>8, SurvivesIff
<1>3. Survives(more, n + 1) <=> c # Backspace
  <2>1. n + 1 \in 1..Len(more) /\ \A j \in (n + 1) + 1..Len(more) : FALSE
    BY <1>1
  <2> QED
    BY <1>1, <2>1, SurvivesIff
<1> QED
  BY <1>1, <1>2, <1>3
\* A character is left until it is taken back.
LEMMA LeftCharacter ==
  ASSUME NEW keys \in Seq(Keys), NEW c \in Chars, NEW more, more = Append(keys, c)
  PROVE  Left(more) = Left(keys) \cup {Len(keys) + 1}
<1>1. c \in Keys /\ c # Backspace /\ Len(keys) \in Nat
  BY DEF Chars
<1>2. /\ Len(more) = Len(keys) + 1
      /\ \A i \in 1..Len(keys) : Survives(more, i) <=> Survives(keys, i)
      /\ Survives(more, Len(keys) + 1)
  BY <1>1, SurvivesMore
<1>3. 1..Len(more) = 1..Len(keys) \cup {Len(keys) + 1}
  BY <1>1, <1>2
<1> QED
  BY <1>2, <1>3, Zenon DEF Left

\* A backspace takes back the last character that is left.
LEMMA LeftBackspace ==
  ASSUME NEW keys \in Seq(Keys), NEW more, more = Append(keys, Backspace)
  PROVE  /\ Left(keys) = {} => Left(more) = {}
         /\ \A m \in Left(keys) :
              (\A j \in Left(keys) : j <= m) => Left(more) = Left(keys) \ {m}
<1>1. Backspace \in Keys /\ Len(keys) \in Nat
  BY DEF Keys
<1>2. /\ Len(more) = Len(keys) + 1
      /\ \A i \in 1..Len(keys) :
           Survives(more, i) <=> Survives(keys, i) /\ Excess(keys, i, Len(keys)) >= 1
      /\ ~Survives(more, Len(keys) + 1)
  BY <1>1, SurvivesMore
<1>3. 1..Len(more) = 1..Len(keys) \cup {Len(keys) + 1}
  BY <1>1, <1>2
<1>4. Left(more) = {i \in Left(keys) : Excess(keys, i, Len(keys)) >= 1}
  BY <1>2, <1>3, Zenon DEF Left
<1>5. ASSUME NEW m \in Left(keys), \A j \in Left(keys) : j <= m
      PROVE  Left(more) = Left(keys) \ {m}
  <2>1. ~(Excess(keys, m, Len(keys)) >= 1)
    BY <1>5, LastSurvivor
  <2>2. \A i \in Left(keys) : i # m => i < m
    BY <1>5 DEF Left
  <2>3. \A i \in Left(keys) : i # m => Excess(keys, i, Len(keys)) >= 1
    BY <2>2, EarlierSurvivor
  <2> QED
    BY <1>4, <2>1, <2>3
<1> QED
  BY <1>4, <1>5

-----------------------------------------------------------------------------
(***************************************************************************)
(* The edited line. p says which key each of its characters comes from.    *)
(***************************************************************************)

Line(p, s, keys) ==
  /\ p \in [1..Len(s) -> Left(keys)]
  /\ \A a, b \in 1..Len(s) : a < b => p[a] < p[b]
  /\ \A i \in Left(keys) : \E a \in 1..Len(s) : p[a] = i
  /\ \A a \in 1..Len(s) : s[a] = keys[p[a]]

\* The place of a surviving character is its number among the survivors.
LEMMA LinePlace ==
  ASSUME NEW keys \in Seq(Keys), NEW s \in Seq(Keys), NEW p, Line(p, s, keys),
         NEW a \in 1..Len(s)
  PROVE  Place(keys, p[a]) = a
<1> DEFINE T == {k \in Left(keys) : k <= p[a]}
           f == [b \in 1..a |-> p[b]]
<1>1. Len(s) \in Nat /\ a \in Nat /\ \A b \in 1..a : b \in 1..Len(s)
  OBVIOUS
<1>2. \A b \in 1..Len(s) : p[b] \in Left(keys) /\ p[b] \in Nat
  BY DEF Line, Left
<1>3. \A b \in 1..a : b < a \/ b = a
  BY <1>1
<1>4. \A b \in 1..a : p[b] \in T
  BY <1>1, <1>2, <1>3 DEF Line
<1>5. \A b, c \in 1..a : p[b] = p[c] => b = c
  <2> SUFFICES ASSUME NEW b \in 1..a, NEW c \in 1..a, p[b] = p[c], b # c PROVE FALSE
    OBVIOUS
  <2>1. b < c \/ c < b
    OBVIOUS
  <2> QED
    BY <1>1, <1>2, <2>1 DEF Line
<1>6. \A k \in T : \E b \in 1..a : p[b] = k
  <2> SUFFICES ASSUME NEW k \in T PROVE \E b \in 1..a : p[b] = k
    OBVIOUS
  <2>1. PICK b \in 1..Len(s) : p[b] = k
    BY DEF Line
  <2>2. ~(a < b)
    BY <1>2, <2>1 DEF Line
  <2>3. b \in 1..a
    BY <1>1, <2>2
  <2> QED
    BY <2>1, <2>3
<1>7. f \in Bijection(1..a, T)
  <2> HIDE DEF T
  <2> QED
    BY <1>4, <1>5, <1>6 DEF Bijection, Injection, Surjection, IsInjective
<1>8. IsFiniteSet(1..a) /\ Cardinality(1..a) = a
  BY <1>1, FS_Interval
<1>9. Cardinality(T) = a
  <2> HIDE DEF T, f
  <2>1. ExistsBijection(1..a, T)
    BY <1>7, Zenon DEF ExistsBijection
  <2> QED
    BY <1>8, <2>1, FS_Bijection
<1> QED
  BY <1>9 DEF Place

\* So a line with a witness is the edited line.
LEMMA LineIsEdited ==
  ASSUME NEW keys \in Seq(Keys), NEW s \in Seq(Keys), NEW p, Line(p, s, keys)
  PROVE  s = Edited(keys)
<1>1. Len(s) \in Nat /\ DOMAIN s = 1..Len(s) /\ s = [n \in 1..Len(s) |-> s[n]]
  BY LenProperties
<1>0. \A a \in 1..Len(s) : Place(keys, p[a]) = a
  BY LinePlace
<1>2. \A a, b \in 1..Len(s) : p[a] = p[b] => a = b
  BY <1>0, Zenon
<1>3. Cardinality(Left(keys)) = Len(s)
  <2>1. p \in Bijection(1..Len(s), Left(keys))
    BY <1>2 DEF Line, Bijection, Injection, Surjection, IsInjective
  <2>2. ExistsBijection(1..Len(s), Left(keys))
    BY <2>1, Zenon DEF ExistsBijection
  <2>3. IsFiniteSet(1..Len(s)) /\ Cardinality(1..Len(s)) = Len(s)
    BY <1>1, FS_Interval
  <2> QED
    BY <2>2, <2>3, FS_Bijection
<1>4. ASSUME NEW n \in 1..Len(s)
      PROVE  s[n] = keys[CHOOSE i \in Left(keys) : Place(keys, i) = n]
  <2> DEFINE x == CHOOSE i \in Left(keys) : Place(keys, i) = n
  <2>1. p[n] \in Left(keys) /\ Place(keys, p[n]) = n
    BY <1>0 DEF Line
  <2>2. x \in Left(keys) /\ Place(keys, x) = n
    BY <2>1, Zenon
  <2>3. PICK b \in 1..Len(s) : p[b] = x
    BY <2>2 DEF Line
  <2>4. Place(keys, x) = b
    BY <1>0, <2>3, Zenon
  <2>5. x = p[n]
    BY <2>2, <2>3, <2>4
  <2> QED
    BY <2>5 DEF Line
<1>5. Edited(keys) = [n \in 1..Len(s) |-> keys[CHOOSE i \in Left(keys) : Place(keys, i) = n]]
  BY <1>3, Zenon DEF Edited
<1>6. [n \in 1..Len(s) |-> s[n]] = [n \in 1..Len(s) |-> keys[CHOOSE i \in Left(keys) : Place(keys, i) = n]]
  BY <1>4, Zenon
<1> QED
  BY <1>1, <1>5, <1>6, Zenon
\* Nothing typed gives the empty line.
LEMMA LineEmpty == Line(<<>>, <<>>, <<>>)
<1>1. Left(<<>>) = {}
  BY DEF Left
<1> QED
  BY <1>1 DEF Line

\* A character is put at the end of the line.
LEMMA LineCharacter ==
  ASSUME NEW keys \in Seq(Keys), NEW s \in Seq(Chars), NEW p, Line(p, s, keys), NEW c \in Chars
  PROVE  \E q : Line(q, Append(s, c), Append(keys, c))
<1>1. PICK more : more = Append(keys, c)
  OBVIOUS
<1>2. PICK t : t = Append(s, c)
  OBVIOUS
<1>3. PICK n \in Nat : n = Len(s)
  OBVIOUS
<1>4. PICK k \in Nat : k = Len(keys) + 1
  OBVIOUS
<1>5. /\ Len(t) = n + 1 /\ t[n + 1] = c
      /\ \A a \in 1..n : t[a] = s[a]
  BY <1>2, <1>3
<1>6. more[k] = c /\ \A i \in 1..Len(keys) : more[i] = keys[i]
  BY <1>1, <1>4
<1>7. Left(more) = Left(keys) \cup {k} /\ \A i \in Left(keys) : i \in 1..Len(keys) /\ i < k
  <2>1. Left(more) = Left(keys) \cup {k}
    BY <1>1, <1>4, LeftCharacter
  <2>2. \A i \in Left(keys) : i \in 1..Len(keys) /\ i < k
    BY <1>4 DEF Left
  <2> QED
    BY <2>1, <2>2
<1> DEFINE q == [a \in 1..n + 1 |-> IF a <= n THEN p[a] ELSE k]
<1>8. /\ \A a \in 1..n : q[a] = p[a] /\ p[a] \in Left(keys) /\ s[a] = keys[p[a]]
      /\ q[n + 1] = k
      /\ \A a, b \in 1..n : a < b => p[a] < p[b]
      /\ \A i \in Left(keys) : \E a \in 1..n : p[a] = i
  BY <1>3 DEF Line
<1>9. /\ \A a \in 1..n + 1 : a \in 1..n \/ a = n + 1
      /\ \A a \in 1..n : a \in 1..n + 1 /\ a < n + 1
      /\ n + 1 \in 1..n + 1 /\ ~(n + 1 < n + 1) /\ \A a \in 1..n : ~(n + 1 < a)
  OBVIOUS
<1>10. q \in [1..n + 1 -> Left(more)]
  BY <1>7, <1>8, <1>9
<1> HIDE DEF q
<1>11. \A a, b \in 1..n + 1 : a < b => q[a] < q[b]
  BY <1>7, <1>8, <1>9, Zenon
<1>12. \A i \in Left(more) : \E a \in 1..n + 1 : q[a] = i
  BY <1>7, <1>8, <1>9, Zenon
<1>13. \A a \in 1..n + 1 : t[a] = more[q[a]]
  BY <1>5, <1>6, <1>7, <1>8, <1>9, Zenon
<1>14. Line(q, t, more)
  BY <1>5, <1>10, <1>11, <1>12, <1>13, Zenon DEF Line
<1> QED
  BY <1>1, <1>2, <1>14, Zenon

\* A backspace takes the last survivor away, or does nothing.
LEMMA LineBackspace ==
  ASSUME NEW keys \in Seq(Keys), NEW s \in Seq(Chars), NEW p, Line(p, s, keys)
  PROVE  \E q : Line(q, IF s = <<>> THEN s ELSE Front(s), Append(keys, Backspace))
<1>1. PICK more : more = Append(keys, Backspace)
  OBVIOUS
<1>2. \A i \in 1..Len(keys) : more[i] = keys[i]
  BY <1>1
<1>3. \A i \in Left(keys) : i \in 1..Len(keys) /\ i \in Nat
  BY DEF Left
<1>4. CASE s = <<>>
  <2>1. Left(keys) = {} /\ Left(more) = {}
    <3>1. Left(keys) = {}
      BY <1>4 DEF Line
    <3> QED
      BY <1>1, <3>1, LeftBackspace
  <2>2. Line(p, s, more)
    BY <1>4, <2>1 DEF Line
  <2> QED
    BY <1>1, <1>4, <2>2
<1>5. CASE s # <<>>
  <2>1. PICK n \in Nat : n + 1 = Len(s)
    <3>1. Len(s) \in Nat /\ Len(s) # 0
      BY <1>5
    <3> QED
      BY <3>1, Len(s) - 1 \in Nat
  <2>2. PICK t : t = Front(s)
    OBVIOUS
  <2>3. Len(t) = n /\ \A a \in 1..n : t[a] = s[a]
    BY <2>1, <2>2 DEF Front
  <2>4. PICK m : m = p[n + 1]
    OBVIOUS
  <2>5. /\ p \in [1..n + 1 -> Left(keys)]
        /\ \A a, b \in 1..n + 1 : a < b => p[a] < p[b]
        /\ \A i \in Left(keys) : \E a \in 1..n + 1 : p[a] = i
        /\ \A a \in 1..n + 1 : s[a] = keys[p[a]]
    BY <2>1 DEF Line
  <2>6. m \in Left(keys)
    BY <2>4, <2>5
  <2>7. \A a \in 1..n : p[a] < m /\ p[a] # m /\ p[a] <= m /\ p[a] \in Left(keys)
    <3> SUFFICES ASSUME NEW a \in 1..n PROVE p[a] < m /\ p[a] # m /\ p[a] <= m /\ p[a] \in Left(keys)
      OBVIOUS
    <3>1. a \in 1..n + 1 /\ n + 1 \in 1..n + 1 /\ a < n + 1
      OBVIOUS
    <3>2. p[a] \in Left(keys) /\ p[a] < m
      BY <2>4, <2>5, <3>1
    <3> QED
      BY <1>3, <2>6, <3>2
  <2>8. \A i \in Left(keys) : i = m \/ \E a \in 1..n : p[a] = i
    <3>1. \A a \in 1..n + 1 : a \in 1..n \/ a = n + 1
      OBVIOUS
    <3> QED
      BY <2>4, <2>5, <3>1, Zenon
  <2>9. \A i \in Left(keys) : i <= m
    BY <1>3, <2>6, <2>7, <2>8
  <2>10. Left(more) = Left(keys) \ {m}
    BY <1>1, <2>6, <2>9, LeftBackspace
  <2> DEFINE q == [a \in 1..n |-> p[a]]
  <2>11. \A a \in 1..n : a \in 1..n + 1
    OBVIOUS
  <2>12. Line(q, t, more)
    <3>1. q \in [1..n -> Left(more)]
      BY <2>7, <2>10
    <3>2. \A a, b \in 1..n : a < b => q[a] < q[b]
      BY <2>5, <2>11
    <3>3. \A i \in Left(more) : \E a \in 1..n : q[a] = i
      BY <2>8, <2>10
    <3>4. \A a \in 1..n : t[a] = more[q[a]]
      BY <1>2, <1>3, <2>3, <2>5, <2>7, <2>11
    <3> QED
      BY <2>3, <3>1, <3>2, <3>3, <3>4, Zenon DEF Line
  <2> QED
    BY <1>1, <1>5, <2>2, <2>12
<1> QED
  BY <1>4, <1>5
-----------------------------------------------------------------------------
(***************************************************************************)
(* The inductive invariant: the buffer is made of characters that are left *)
(* of those typed, each in its place.                                      *)
(***************************************************************************)

Glyphs == Keys \cup {"prompt"}
Displays == [row : [0..Width - 1 -> Glyphs], col : 0..Width]

ShellTypeOK ==
  /\ buffer \in Seq(Chars) /\ typed \in Seq(Keys) /\ count \in Nat
  /\ row \in [0..Width - 1 -> Glyphs] /\ col \in 0..Width
  /\ state \in {"ready", "panic"}

Edits == state = "ready" => \E p : Line(p, buffer, typed)

\* The terminal stays a terminal.
LEMMA EmitType ==
  ASSUME NEW t \in Displays, NEW c \in Keys
  PROVE  Emit(t, c) \in Displays
<1>1. /\ t.row \in [0..Width - 1 -> Glyphs] /\ t.col \in 0..Width
      /\ t = [row |-> t.row, col |-> t.col] /\ c \in Glyphs /\ Space \in Glyphs
  BY DEF Displays, Glyphs, Keys, Whitespace
<1>2. Width \in Nat /\ Width >= 2
  BY ShellAssumption
<1>3. CASE c = Backspace
  <2>1. (IF t.col = 0 THEN 0 ELSE IF t.col = Width THEN t.col - 2 ELSE t.col - 1) \in 0..Width
    BY <1>1, <1>2
  <2>2. Emit(t, c) = [t EXCEPT !.col = IF @ = 0 THEN 0 ELSE IF @ = Width THEN @ - 2 ELSE @ - 1]
    BY <1>3 DEF Emit, Backspace, Tab
  <2> QED
    BY <1>1, <2>1, <2>2 DEF Displays
<1>4. CASE c = Tab
  <2>1. TabStop(t.col) \in 0..Width
    BY <1>1, <1>2 DEF TabStop
  <2>2. c # Backspace
    BY <1>4 DEF Tab, Backspace
  <2> QED
    BY <1>1, <1>2, <1>4, <2>1, <2>2 DEF Emit, Displays
<1>5. CASE c # Backspace /\ c # Tab
  <2>1. Emit(t, c) = IF t.col = Width
                       THEN [row |-> [BlankRow EXCEPT ![0] = c], col |-> 1]
                       ELSE [row |-> [t.row EXCEPT ![t.col] = c], col |-> t.col + 1]
    BY <1>5 DEF Emit
  <2>2. BlankRow \in [0..Width - 1 -> Glyphs] /\ [BlankRow EXCEPT ![0] = c] \in [0..Width - 1 -> Glyphs]
    BY <1>1 DEF BlankRow
  <2>3. [t.row EXCEPT ![t.col] = c] \in [0..Width - 1 -> Glyphs]
    BY <1>1
  <2>4. 1 \in 0..Width /\ (t.col # Width => t.col + 1 \in 0..Width)
    BY <1>1, <1>2
  <2> QED
    BY <2>1, <2>2, <2>3, <2>4 DEF Displays
<1> QED
  BY <1>3, <1>4, <1>5

\* The prompt fits the terminal.
LEMMA PromptType == PromptRow \in [0..Width - 1 -> Glyphs] /\ PromptLen \in 0..Width
  BY ShellAssumption DEF PromptRow, Glyphs, Keys, Whitespace

\* The buffer is empty at first.
LEMMA InitEdits == Init => ShellTypeOK /\ Edits
<1> SUFFICES ASSUME Init PROVE ShellTypeOK /\ Edits
  OBVIOUS
<1>1. ShellTypeOK
  BY PromptType DEF Init, ShellTypeOK
<1>2. Edits
  BY LineEmpty DEF Init, Edits
<1> QED
  BY <1>1, <1>2

\* Every key edits the buffer as it edits the line.
LEMMA KeyEdits ==
  ASSUME ShellTypeOK, Edits, NEW key \in Keys, interpret(key)
  PROVE  ShellTypeOK' /\ Edits'
<1>0. /\ state = "ready" /\ count' \in Nat /\ Terminal \in Displays
      /\ typed' = IF key = Return THEN <<>> ELSE Append(typed, key)
      /\ Space \in Keys /\ Backspace \in Keys
  BY DEF interpret, ShellTypeOK, Terminal, Displays, Keys, Whitespace
<1>1. PICK p : Line(p, buffer, typed)
  BY <1>0 DEF Edits
<1>2. CASE key = Return /\ return
  <2>1. typed' = <<>> /\ typed' \in Seq(Keys)
    BY <1>0, <1>2
  <2>2. CASE ran'.command = readelf /\ ran'.argument \notin Files
    BY <1>0, <1>2, <2>1, <2>2 DEF return, ShellTypeOK, Edits
  <2>3. CASE ~(ran'.command = readelf /\ ran'.argument \notin Files)
    <3>1. row' = PromptRow /\ col' = PromptLen /\ buffer' = <<>> /\ state' = state
      BY <1>2, <2>3 DEF return
    <3>2. Edits'
      BY <2>1, <3>1, LineEmpty, Zenon DEF Edits
    <3>3. <<>> \in Seq(Chars)
      OBVIOUS
    <3> QED
      BY <1>0, <2>1, <3>1, <3>2, <3>3, PromptType, Zenon DEF ShellTypeOK
  <2> QED
    BY <2>2, <2>3
<1>3. CASE key = Backspace /\ backspace
  <2>1. typed' = Append(typed, Backspace) /\ typed' \in Seq(Keys)
    BY <1>0, <1>3 DEF Return, Backspace, ShellTypeOK
  <2>2. buffer' = (IF buffer = <<>> THEN buffer ELSE Front(buffer)) /\ state' = state
    BY <1>3 DEF backspace
  <2>3. Edits'
    <3>1. PICK q : Line(q, IF buffer = <<>> THEN buffer ELSE Front(buffer), Append(typed, Backspace))
      BY <1>1, LineBackspace DEF ShellTypeOK
    <3>2. Line(q, buffer', typed')
      BY <2>1, <2>2, <3>1, Zenon
    <3> QED
      BY <3>2 DEF Edits
  <2>4. buffer' \in Seq(Chars)
    <3>1. CASE buffer = <<>>
      BY <2>2, <3>1 DEF ShellTypeOK
    <3>2. CASE buffer # <<>>
      BY <2>2, <3>2 DEF ShellTypeOK, Front
    <3> QED
      BY <3>1, <3>2
  <2>5. row' \in [0..Width - 1 -> Glyphs] /\ col' \in 0..Width
    <3>1. CASE buffer = <<>>
      BY <1>3, <3>1 DEF ShellTypeOK, backspace
    <3>2. CASE buffer # <<>>
      <4>1. PICK t : t = Emit(Emit(Emit(Terminal, Backspace), Space), Backspace)
        OBVIOUS
      <4>2. t \in Displays
        BY <1>0, <4>1, EmitType
      <4>3. row' = t.row /\ col' = t.col
        BY <1>3, <3>2, <4>1 DEF backspace, write
      <4> QED
        BY <4>2, <4>3 DEF Displays
    <3> QED
      BY <3>1, <3>2
  <2> QED
    BY <1>0, <2>1, <2>2, <2>3, <2>4, <2>5 DEF ShellTypeOK
<1>4. CASE key \notin {Return, Backspace} /\ character(key)
  <2>1. typed' = Append(typed, key) /\ typed' \in Seq(Keys) /\ key \in Chars
    BY <1>0, <1>4 DEF ShellTypeOK, Chars
  <2>2. buffer' = Append(buffer, key) /\ buffer' \in Seq(Chars) /\ state' = state
    BY <1>4, <2>1 DEF character, ShellTypeOK
  <2>3. Edits'
    <3>1. PICK q : Line(q, Append(buffer, key), Append(typed, key))
      BY <1>1, <2>1, LineCharacter DEF ShellTypeOK
    <3>2. Line(q, buffer', typed')
      BY <2>1, <2>2, <3>1, Zenon
    <3> QED
      BY <3>2 DEF Edits
  <2>4. row' \in [0..Width - 1 -> Glyphs] /\ col' \in 0..Width
    <3>1. PICK t : t = Emit(Terminal, key)
      OBVIOUS
    <3>2. t \in Displays
      BY <1>0, <3>1, EmitType
    <3>3. row' = t.row /\ col' = t.col
      BY <1>4, <3>1 DEF character, write
    <3> QED
      BY <3>2, <3>3 DEF Displays
  <2> QED
    BY <1>0, <2>1, <2>2, <2>3, <2>4 DEF ShellTypeOK
<1> QED
  BY <1>2, <1>3, <1>4 DEF interpret

\* And no other step changes the buffer.
LEMMA NextEdits == ShellTypeOK /\ Edits /\ [Next]_vars => ShellTypeOK' /\ Edits'
<1> SUFFICES ASSUME ShellTypeOK, Edits, [Next]_vars PROVE ShellTypeOK' /\ Edits'
  OBVIOUS
<1>1. CASE Next
  BY <1>1, KeyEdits DEF Next
<1>2. CASE UNCHANGED vars
  BY <1>2 DEF vars, ShellTypeOK, Edits
<1> QED
  BY <1>1, <1>2

\* So the buffer is the edited line.
LEMMA EditsBuffer == ShellTypeOK /\ Edits => BufferIsEditedLine
<1>1. Seq(Chars) \subseteq Seq(Keys)
  BY SeqOver DEF Chars
<1> QED
  BY <1>1, LineIsEdited DEF ShellTypeOK, Edits, BufferIsEditedLine

\* Shell::interpret keeps in the buffer exactly the characters that were
\* typed since the last prompt and not taken back, in their order, whatever
\* keys are pressed and however many.
THEOREM Buffer == Spec => []BufferIsEditedLine
<1>1. Spec => [](ShellTypeOK /\ Edits)
  BY InitEdits, NextEdits, PTL DEF Spec
<1> QED
  BY <1>1, EditsBuffer, PTL
-----------------------------------------------------------------------------
(***************************************************************************)
(* What the user sees.                                                     *)
(***************************************************************************)

Cell(s, c) ==
  CASE c < PromptLen -> "prompt"
    [] c \in PromptLen..PromptLen + Len(s) - 1 -> s[c - PromptLen + 1]
    [] OTHER -> Space

Shows(t, s) ==
  /\ t.col = PromptLen + Len(s)
  /\ \A c \in 0..Width - 1 : t.row[c] = Cell(s, c)

\* The cells of the prompt, of the line and behind it
LEMMA CellIs ==
  ASSUME NEW s \in Seq(Chars), NEW c \in Nat
  PROVE  /\ c < PromptLen => Cell(s, c) = "prompt"
         /\ PromptLen <= c /\ c < PromptLen + Len(s) => Cell(s, c) = s[c - PromptLen + 1]
         /\ PromptLen + Len(s) <= c => Cell(s, c) = Space
<1>1. PromptLen \in Nat /\ Len(s) \in Nat
  BY ShellAssumption
<1>2. /\ c \in PromptLen..PromptLen + Len(s) - 1 <=> PromptLen <= c /\ c < PromptLen + Len(s)
      /\ ~(c < PromptLen /\ PromptLen <= c)
      /\ PromptLen + Len(s) <= c => ~(c < PromptLen) /\ ~(c < PromptLen + Len(s))
  BY <1>1
<1> QED
  BY <1>2 DEF Cell

\* An echoed character shows behind the others.
LEMMA EchoShows ==
  ASSUME NEW t \in Displays, NEW s \in Seq(Chars), NEW c \in Chars, c # Tab,
         Shows(t, s), PromptLen + Len(s) < Width
  PROVE  Shows(Emit(t, c), Append(s, c))
<1>1. PICK u : u = Append(s, c)
  OBVIOUS
<1>2. /\ Len(s) \in Nat /\ PromptLen \in Nat /\ Width \in Nat /\ u \in Seq(Chars)
      /\ Len(u) = Len(s) + 1 /\ u[Len(s) + 1] = c /\ \A i \in 1..Len(s) : u[i] = s[i]
  BY <1>1, ShellAssumption
<1>3. PICK k \in 0..Width - 1 : k = PromptLen + Len(s)
  BY <1>2
<1>4. t.col = k /\ t.row \in [0..Width - 1 -> Glyphs] /\ \A d \in 0..Width - 1 : t.row[d] = Cell(s, d)
  BY <1>3 DEF Shows, Displays
<1>5. Emit(t, c) = [row |-> [t.row EXCEPT ![k] = c], col |-> k + 1]
  BY <1>2, <1>4 DEF Emit, Chars
<1>6. ASSUME NEW d \in 0..Width - 1
      PROVE  [t.row EXCEPT ![k] = c][d] = Cell(u, d)
  <2>0. d \in Nat
    OBVIOUS
  <2>1. CASE d < PromptLen
    <3>1. Cell(u, d) = "prompt" /\ Cell(s, d) = "prompt" /\ d # k
      BY <1>2, <1>3, <2>0, <2>1, CellIs
    <3> QED
      BY <1>4, <3>1
  <2>2. CASE PromptLen <= d /\ d < k
    <3>1. /\ Cell(u, d) = u[d - PromptLen + 1] /\ Cell(s, d) = s[d - PromptLen + 1]
          /\ d - PromptLen + 1 \in 1..Len(s)
      BY <1>2, <1>3, <2>0, <2>2, CellIs
    <3> QED
      <4>1. [t.row EXCEPT ![k] = c][d] = Cell(s, d)
        BY <1>4, <2>2
      <4>2. u[d - PromptLen + 1] = s[d - PromptLen + 1]
        BY <1>2, <3>1
      <4> QED
        BY <3>1, <4>1, <4>2
  <2>3. CASE d = k
    <3>1. Cell(u, d) = u[d - PromptLen + 1] /\ d - PromptLen + 1 = Len(s) + 1
      BY <1>2, <1>3, <2>0, <2>3, CellIs
    <3> QED
      BY <1>2, <1>4, <2>3, <3>1
  <2>4. CASE k < d
    <3>1. Cell(u, d) = Space /\ Cell(s, d) = Space
      BY <1>2, <1>3, <2>0, <2>4, CellIs
    <3> QED
      BY <1>4, <2>4, <3>1
  <2> QED
    BY <1>2, <2>0, <2>1, <2>2, <2>3, <2>4
<1>7. Shows(Emit(t, c), u)
  BY <1>2, <1>3, <1>5, <1>6 DEF Shows
<1> QED
  BY <1>1, <1>7

\* Backspace, space, backspace wipes the last character.
LEMMA WipeShows ==
  ASSUME NEW t \in Displays, NEW s \in Seq(Chars), s # <<>>,
         Shows(t, s), PromptLen + Len(s) < Width
  PROVE  Shows(Emit(Emit(Emit(t, Backspace), Space), Backspace), Front(s))
<1>1. PICK u : u = Front(s)
  OBVIOUS
<1>2. /\ Len(s) \in Nat /\ PromptLen \in Nat \ {0} /\ Width \in Nat /\ u \in Seq(Chars)
      /\ Len(s) = Len(u) + 1 /\ Len(u) \in Nat /\ \A i \in 1..Len(u) : u[i] = s[i]
  <2>1. PromptLen \in Nat \ {0} /\ Width \in Nat
    BY ShellAssumption
  <2>2. Len(s) \in Nat \ {0}
    OBVIOUS
  <2>3. u = SubSeq(s, 1, Len(s) - 1)
    BY <1>1 DEF Front
  <2>4. u \in Seq(Chars) /\ Len(u) = Len(s) - 1
    <3>1. PICK n \in Nat : n = Len(s) - 1
      BY <2>2
    <3>2. u = SubSeq(s, 1, n) /\ n <= Len(s)
      BY <2>2, <2>3, <3>1
    <3>3. Len(u) = n
      BY <3>2
    <3>4. u \in Seq(Chars)
      BY <2>2, <3>1, <3>2
    <3> QED
      BY <3>1, <3>3, <3>4
  <2>5. \A i \in 1..Len(u) : u[i] = s[i]
    BY <2>2, <2>3, <2>4
  <2> QED
    BY <2>1, <2>2, <2>4, <2>5
<1>3. PICK k \in 0..Width - 1 : k = PromptLen + Len(u)
  BY <1>2
<1>4. /\ t.col = k + 1 /\ k + 1 < Width /\ k # 0
      /\ t.row \in [0..Width - 1 -> Glyphs] /\ \A d \in 0..Width - 1 : t.row[d] = Cell(s, d)
      /\ t = [row |-> t.row, col |-> t.col]
  BY <1>2, <1>3 DEF Shows, Displays
<1>5. Emit(t, Backspace) = [row |-> t.row, col |-> k]
  BY <1>2, <1>3, <1>4 DEF Emit, Backspace, Tab
<1>6. PICK r : r = [t.row EXCEPT ![k] = Space]
  OBVIOUS
<1>7. Emit([row |-> t.row, col |-> k], Space) = [row |-> r, col |-> k + 1]
  <2>1. Space # Backspace /\ Space # Tab /\ k # Width
    BY <1>2, <1>3 DEF Backspace, Tab, Space
  <2>2. \A v : Emit(v, Space) = IF v.col = Width
                                  THEN [row |-> [BlankRow EXCEPT ![0] = Space], col |-> 1]
                                  ELSE [row |-> [v.row EXCEPT ![v.col] = Space], col |-> v.col + 1]
    BY <2>1 DEF Emit
  <2>3. PICK v : v = [row |-> t.row, col |-> k]
    OBVIOUS
  <2>4. v.row = t.row /\ v.col = k
    BY <2>3
  <2>5. Emit(v, Space) = [row |-> [v.row EXCEPT ![v.col] = Space], col |-> v.col + 1]
    BY <2>1, <2>2, <2>4, Zenon
  <2> QED
    BY <1>6, <2>3, <2>4, <2>5, Zenon
<1>8. Emit([row |-> r, col |-> k + 1], Backspace) = [row |-> r, col |-> k]
  BY <1>2, <1>3, <1>4 DEF Emit, Backspace, Tab
<1>9. ASSUME NEW d \in 0..Width - 1
      PROVE  r[d] = Cell(u, d)
  <2>0. d \in Nat
    OBVIOUS
  <2>1. CASE d < PromptLen
    <3>1. Cell(u, d) = "prompt" /\ Cell(s, d) = "prompt" /\ d # k
      BY <1>2, <1>3, <2>0, <2>1, CellIs
    <3> QED
      BY <1>4, <1>6, <3>1
  <2>2. CASE PromptLen <= d /\ d < k
    <3>1. /\ Cell(u, d) = u[d - PromptLen + 1] /\ Cell(s, d) = s[d - PromptLen + 1]
          /\ d - PromptLen + 1 \in 1..Len(u)
      BY <1>2, <1>3, <2>0, <2>2, CellIs
    <3> QED
      BY <1>2, <1>4, <1>6, <2>2, <3>1
  <2>3. CASE d = k
    <3>1. Cell(u, d) = Space
      BY <1>2, <1>3, <2>0, <2>3, CellIs
    <3> QED
      BY <1>4, <1>6, <2>3, <3>1
  <2>4. CASE k < d
    <3>1. Cell(u, d) = Space /\ Cell(s, d) = Space
      BY <1>2, <1>3, <2>0, <2>4, CellIs
    <3> QED
      BY <1>4, <1>6, <2>4, <3>1
  <2> QED
    BY <1>2, <2>0, <2>1, <2>2, <2>3, <2>4
<1>10. Shows([row |-> r, col |-> k], u)
  BY <1>3, <1>9 DEF Shows
<1> QED
  BY <1>1, <1>5, <1>7, <1>8, <1>10, Zenon

\* The prompt shows an empty line.
LEMMA PromptShows == Shows([row |-> PromptRow, col |-> PromptLen], <<>>)
<1>1. <<>> \in Seq(Chars) /\ Len(<<>>) = 0 /\ PromptLen \in Nat /\ Width \in Nat
  BY ShellAssumption
<1>2. ASSUME NEW c \in 0..Width - 1
      PROVE  PromptRow[c] = Cell(<<>>, c)
  <2>1. c \in Nat
    OBVIOUS
  <2>2. /\ c < PromptLen => Cell(<<>>, c) = "prompt"
        /\ PromptLen + Len(<<>>) <= c => Cell(<<>>, c) = Space
    BY <1>1, <2>1, CellIs
  <2> QED
    BY <1>1, <2>1, <2>2 DEF PromptRow
<1> QED
  BY <1>1, <1>2 DEF Shows

\* A terminal that shows the buffer.
LEMMA ShowsScreen == Shows(Terminal, buffer) /\ (Fits /\ state = "ready") => ScreenShowsBuffer
  BY DEF Shows, Terminal, ScreenShowsBuffer, Cell

\* A line that fits after a key has fitted before it.
LEMMA FitsBefore ==
  ASSUME ShellTypeOK, NEW key \in Keys, typed' = Append(typed, key), Fits'
  PROVE  /\ Fits /\ key # Tab
         /\ PromptLen + Len(Edited(typed)) < Width
         /\ PromptLen + Len(Edited(typed')) < Width
<1>1. PICK k \in Nat : k = Len(typed)
  BY DEF ShellTypeOK
<1>2. PICK more : more = typed'
  OBVIOUS
<1>3. /\ typed \in Seq(Keys) /\ more \in Seq(Keys)
      /\ Len(more) = k + 1 /\ more[k + 1] = key /\ \A i \in 1..k : more[i] = typed[i]
  BY <1>1, <1>2 DEF ShellTypeOK
<1>4. ASSUME NEW n \in 0..k
      PROVE  SubSeq(more, 1, n) = SubSeq(typed, 1, n)
  BY <1>1, <1>3
<1>5. SubSeq(typed, 1, k) = typed /\ SubSeq(more, 1, k + 1) = more
  BY <1>1, <1>3
<1>6. \A n \in 0..k + 1 : /\ PromptLen + Len(Edited(SubSeq(more, 1, n))) < Width
                          /\ n > 0 => more[n] # Tab
  BY <1>2, <1>3 DEF Fits
<1>7. /\ k \in 0..k + 1 /\ k + 1 \in 0..k + 1 /\ k + 1 > 0 /\ k \in 0..k
      /\ \A n \in 0..k : n \in 0..k + 1 /\ (n > 0 => n \in 1..k)
  OBVIOUS
<1>8. key # Tab
  BY <1>3, <1>6, <1>7
<1>9. Fits
  BY <1>1, <1>3, <1>4, <1>6, <1>7 DEF Fits
<1>10. PromptLen + Len(Edited(typed)) < Width
  BY <1>4, <1>5, <1>6, <1>7
<1>11. PromptLen + Len(Edited(more)) < Width
  BY <1>5, <1>6, <1>7
<1> QED
  BY <1>2, <1>8, <1>9, <1>10, <1>11
Screen == Fits /\ state = "ready" => Shows(Terminal, buffer)

\* Every key leaves the terminal showing the buffer, if it fits and holds no
\* tab.
LEMMA KeyScreen ==
  ASSUME ShellTypeOK, Edits, ShellTypeOK', Edits', Screen, NEW key \in Keys, interpret(key)
  PROVE  Screen'
<1> SUFFICES ASSUME Fits', state' = "ready" PROVE Shows(Terminal', buffer')
  BY DEF Screen
<1>1. /\ state = "ready" /\ typed' = IF key = Return THEN <<>> ELSE Append(typed, key)
      /\ Terminal \in Displays /\ buffer \in Seq(Chars) /\ Len(buffer) \in Nat
  BY DEF interpret, ShellTypeOK, Terminal, Displays
<1>2. CASE key = Return /\ return
  <2>1. row' = PromptRow /\ col' = PromptLen /\ buffer' = <<>>
    BY <1>1, <1>2 DEF return
  <2>2. Terminal' = [row |-> PromptRow, col |-> PromptLen]
    BY <2>1 DEF Terminal
  <2> QED
    BY <2>1, <2>2, PromptShows, Zenon
<1>3. ASSUME key # Return
      PROVE  key # Tab /\ Shows(Terminal, buffer) /\ PromptLen + Len(buffer) < Width
  <2>1. typed' = Append(typed, key)
    BY <1>1, <1>3
  <2>2. Fits /\ key # Tab /\ PromptLen + Len(Edited(typed)) < Width
    BY <2>1, FitsBefore
  <2>3. buffer = Edited(typed)
    BY <1>1, EditsBuffer DEF BufferIsEditedLine
  <2> QED
    BY <1>1, <2>2, <2>3 DEF Screen
<1>4. CASE key = Backspace /\ backspace
  <2>1. Shows(Terminal, buffer) /\ PromptLen + Len(buffer) < Width
    BY <1>3, <1>4 DEF Backspace, Return
  <2>2. CASE buffer = <<>>
    BY <1>4, <2>1, <2>2 DEF backspace, Terminal
  <2>3. CASE buffer # <<>>
    <3>1. PICK t : t = Emit(Emit(Emit(Terminal, Backspace), Space), Backspace)
      OBVIOUS
    <3>2. row' = t.row /\ col' = t.col /\ buffer' = Front(buffer)
      BY <1>4, <2>3, <3>1 DEF backspace, write
    <3>3. Shows(t, buffer')
      BY <1>1, <2>1, <2>3, <3>1, <3>2, WipeShows
    <3> QED
      BY <3>2, <3>3 DEF Shows, Terminal
  <2> QED
    BY <2>2, <2>3
<1>5. CASE key \notin {Return, Backspace} /\ character(key)
  <2>1. /\ Shows(Terminal, buffer) /\ PromptLen + Len(buffer) < Width
        /\ key # Tab /\ key \in Chars
    BY <1>3, <1>5 DEF Chars
  <2>2. PICK t : t = Emit(Terminal, key)
    OBVIOUS
  <2>3. row' = t.row /\ col' = t.col /\ buffer' = Append(buffer, key)
    BY <1>5, <2>2 DEF character, write
  <2>4. Shows(t, buffer')
    BY <1>1, <2>1, <2>2, <2>3, EchoShows
  <2> QED
    BY <2>3, <2>4 DEF Shows, Terminal
<1> QED
  BY <1>2, <1>4, <1>5 DEF interpret

\* And no other step writes to the terminal.
LEMMA NextScreen ==
  ShellTypeOK /\ Edits /\ ShellTypeOK' /\ Edits' /\ Screen /\ [Next]_vars => Screen'
<1> SUFFICES ASSUME ShellTypeOK, Edits, ShellTypeOK', Edits', Screen, [Next]_vars PROVE Screen'
  OBVIOUS
<1>1. CASE Next
  BY <1>1, KeyScreen DEF Next
<1>2. CASE UNCHANGED vars
  BY <1>2 DEF vars, Screen, Fits, Terminal
<1> QED
  BY <1>1, <1>2

\* As long as the line has fitted into its row and no tab was typed, the row
\* shows the prompt and then exactly what Shell::interpret has in its buffer.
THEOREM ScreenShows == Spec => []ScreenShowsBuffer
<1>1. Init => Screen
  <2> SUFFICES ASSUME Init PROVE Shows(Terminal, buffer)
    BY DEF Screen
  <2>1. buffer = <<>> /\ Terminal = [row |-> PromptRow, col |-> PromptLen]
    BY DEF Init, Terminal
  <2> QED
    BY <2>1, PromptShows, Zenon
<1>2. Screen => ScreenShowsBuffer
  BY ShowsScreen DEF Screen, ScreenShowsBuffer
<1> QED
  BY <1>1, <1>2, InitEdits, NextEdits, NextScreen, PTL DEF Spec

-----------------------------------------------------------------------------
(***************************************************************************)
(* What a return runs.                                                     *)
(***************************************************************************)

Spaces(line) == {i \in 1..Len(line) : line[i] \in Whitespace}

\* The line is cut before its first white space, if it has one.
LEMMA SplitIs ==
  ASSUME NEW line \in Seq(Chars)
  PROVE  \E cut \in 0..Len(line) :
           /\ \A i \in 1..cut : line[i] \notin Whitespace
           /\ cut = Len(line) \/ line[cut + 1] \in Whitespace
           /\ split_once(line) = [command |-> SubSeq(line, 1, cut),
                                  argument |-> SubSeq(line, cut + 2, Len(line))]
<1>1. PICK k \in Nat : k = Len(line)
  OBVIOUS
<1>2. split_once(line) =
        LET i == IF Spaces(line) # {} THEN Min(Spaces(line)) ELSE 0
        IN  IF i = 0 THEN [command |-> line, argument |-> <<>>]
            ELSE [command |-> SubSeq(line, 1, i - 1), argument |-> SubSeq(line, i + 1, Len(line))]
  BY DEF split_once, SelectInSeq, IsWhitespace, Spaces
<1>3. CASE Spaces(line) = {}
  <2>1. split_once(line) = [command |-> line, argument |-> <<>>]
    BY <1>2, <1>3
  <2>2. SubSeq(line, 1, k) = line
    BY <1>1
  <2>3. SubSeq(line, k + 2, k) = <<>>
    BY <1>1
  <2>4. \A i \in 1..k : line[i] \notin Whitespace
    BY <1>1, <1>3 DEF Spaces
  <2>5. k \in 0..k
    OBVIOUS
  <2> QED
    BY <1>1, <2>1, <2>2, <2>3, <2>4, <2>5, Zenon
<1>4. CASE Spaces(line) # {}
  <2>1. PICK i : i = Min(Spaces(line))
    OBVIOUS
  <2>2. Spaces(line) \subseteq Nat
    BY DEF Spaces
  <2>3. i \in Spaces(line) /\ \A j \in Spaces(line) : i <= j
    <3>1. \E x \in Spaces(line) : \A y \in Spaces(line) : x <= y
      BY <1>4, <2>2, NatLeast
    <3> QED
      BY <2>1, <3>1, Zenon DEF Min
  <2>4. i \in 1..k /\ line[i] \in Whitespace
    BY <1>1, <2>3 DEF Spaces
  <2>5. split_once(line) = [command |-> SubSeq(line, 1, i - 1), argument |-> SubSeq(line, i + 1, k)]
    BY <1>1, <1>2, <1>4, <2>1, <2>4
  <2>6. PICK cut \in 0..k : cut + 1 = i /\ i - 1 = cut /\ i + 1 = cut + 2
    BY <2>4, i - 1 \in 0..k
  <2>7. \A j \in 1..cut : line[j] \notin Whitespace
    <3> SUFFICES ASSUME NEW j \in 1..cut, line[j] \in Whitespace PROVE FALSE
      OBVIOUS
    <3>1. j \in 1..Len(line) /\ ~(i <= j)
      BY <1>1, <2>4, <2>6
    <3> QED
      BY <2>3, <3>1 DEF Spaces
  <2> QED
    BY <1>1, <2>4, <2>5, <2>6, <2>7
<1> QED
  BY <1>3, <1>4
\* Where the first word ends.
LEMMA CutIs ==
  ASSUME NEW line \in Seq(Chars), NEW cut \in 0..Len(line),
         \A i \in 1..cut : line[i] \notin Whitespace,
         cut = Len(line) \/ line[cut + 1] \in Whitespace
  PROVE  Cut(line) = cut
<1>1. PICK k \in Nat : k = Len(line)
  OBVIOUS
<1>2. cut \in 0..k /\ cut + 1 \in 1..cut + 1
  BY <1>1
<1>3. Word(line, cut) /\ ~Word(line, cut + 1)
  BY <1>1, <1>2 DEF Word
<1>4. ASSUME NEW n \in 0..k, Word(line, n), ~Word(line, n + 1)
      PROVE  n = cut
  <2>1. ~(n < cut)
    <3> SUFFICES ASSUME n < cut PROVE FALSE
      OBVIOUS
    <3>1. n + 1 \in 0..k /\ \A i \in 1..n + 1 : i \in 1..cut
      BY <1>1, <1>2
    <3> QED
      BY <1>1, <1>4, <3>1 DEF Word
  <2>2. ~(cut < n)
    <3> SUFFICES ASSUME cut < n PROVE FALSE
      OBVIOUS
    <3>1. cut + 1 \in 1..n /\ cut # k
      BY <1>2
    <3> QED
      BY <1>1, <1>4, <3>1 DEF Word
  <2> QED
    BY <1>2, <2>1, <2>2
<1>5. Cut(line) = CHOOSE n \in 0..k : Word(line, n) /\ ~Word(line, n + 1)
  BY <1>1, Zenon DEF Cut
<1> QED
  BY <1>2, <1>3, <1>4, <1>5, Zenon

\* Return runs the command that the line's first word names, with the rest as
\* its arguments.
LEMMA ReturnRuns ==
  ASSUME ShellTypeOK, Edits, NEW key \in Keys, interpret(key), typed' = <<>>
  PROVE  RunsLine(Edited(typed))
<1>1. state = "ready" /\ buffer = Edited(typed) /\ buffer \in Seq(Chars)
  BY EditsBuffer DEF interpret, ShellTypeOK, BufferIsEditedLine
<1>2. key = Return
  <2>1. Append(typed, key) # <<>>
    BY DEF ShellTypeOK
  <2> QED
    BY <2>1 DEF interpret
<1>3. return
  BY <1>2 DEF interpret, Return, Backspace
<1>4. PICK cut \in 0..Len(buffer) :
        /\ \A i \in 1..cut : buffer[i] \notin Whitespace
        /\ cut = Len(buffer) \/ buffer[cut + 1] \in Whitespace
        /\ split_once(buffer) = [command |-> SubSeq(buffer, 1, cut),
                                 argument |-> SubSeq(buffer, cut + 2, Len(buffer))]
  BY <1>1, SplitIs
<1>5. Cut(buffer) = cut
  BY <1>1, <1>4, CutIs
<1>6. PICK command : command = SubSeq(buffer, 1, cut)
  OBVIOUS
<1>7. PICK argument : argument = SubSeq(buffer, cut + 2, Len(buffer))
  OBVIOUS
<1>8. split_once(buffer) = [command |-> command, argument |-> argument]
  BY <1>4, <1>6, <1>7, Zenon
<1>9. ran' = IF command \in Commands THEN [command |-> command, argument |-> argument]
             ELSE [command |-> <<>>, argument |-> <<>>]
  BY <1>3, <1>8 DEF return, Known
<1>10. readelf \in Commands /\ readelf # <<>>
  BY ShellAssumption
<1>11. state' = "panic" <=> (ran'.command = readelf /\ ran'.argument \notin Files)
  BY <1>1, <1>3 DEF return
<1>12. /\ IF command \in Commands THEN ran' = [command |-> command, argument |-> argument]
          ELSE ran'.command = <<>>
       /\ state' = "panic" <=> (command = readelf /\ argument \notin Files)
  BY <1>9, <1>10, <1>11
<1> QED
  BY <1>1, <1>5, <1>6, <1>7, <1>12, Zenon DEF RunsLine

\* A return runs the word the edited line begins with if it is a command, with
\* what follows the first white space as its argument; Shell::interpret panics
\* only where readelf is given a file it cannot decode.
THEOREM ReturnRunsLine == Spec => RunsWhatWasTyped
<1>1. ShellTypeOK /\ Edits /\ [Next]_vars =>
        [count' # count /\ typed' = <<>> /\ typed # <<>> => RunsLine(Edited(typed))]_vars
  BY ReturnRuns DEF Next
<1> QED
  BY <1>1, InitEdits, NextEdits, PTL DEF Spec, RunsWhatWasTyped


=============================================================================

---------------------------- MODULE InitrdProofs ----------------------------
(***************************************************************************)
(* Proofs about Initrd, for every block size and every set of archives.    *)
(***************************************************************************)
EXTENDS Initrd, CommonLemmas

-----------------------------------------------------------------------------
(***************************************************************************)
(* Where everything is in an archive.                                      *)
(***************************************************************************)

IsArchive(a) ==
  /\ a \in Seq(Range(a))
  /\ \A i \in 1..Len(a) : a[i].size \in Nat

Parts(a) == [i \in 1..Len(a) |-> MemberBlocks(a[i])]
Stuff(a) == {Zero} \cup UNION {Range(MemberBlocks(a[i])) : i \in 1..Len(a)}

\* The blocks before the header of the next member, after n of them
Position(a, n) == Len(Flat(Parts(a), n))

\* The blocks of a member's data.
LEMMA DataType ==
  ASSUME NEW m, m.size \in Nat
  PROVE  /\ Blocks(m.size) \in Nat /\ Len(DataBlocks(m)) = Blocks(m.size)
         /\ DataBlocks(m) \in Seq(Range(DataBlocks(m)))
<1>1. Blocks(m.size) \in Nat
  BY InitrdAssumption DEF Blocks
<1>2. PICK n \in Nat : n = Blocks(m.size)
  BY <1>1
<1>3. PICK d : d = DataBlocks(m)
  OBVIOUS
<1>4. DOMAIN d = 1..n /\ d = [k \in 1..n |-> d[k]]
  BY <1>2, <1>3 DEF DataBlocks
<1>5. d \in [1..n -> Range(d)]
  BY <1>4 DEF Range
<1>6. d \in Seq(Range(d)) /\ Len(d) = n
  BY <1>5, FunctionIsSeq
<1> QED
  BY <1>2, <1>3, <1>6

\* A member is its header block and then its data.
LEMMA MemberType ==
  ASSUME NEW m, m.size \in Nat
  PROVE  /\ MemberBlocks(m) \in Seq(Range(MemberBlocks(m)))
         /\ Len(MemberBlocks(m)) = 1 + Blocks(m.size)
         /\ MemberBlocks(m)[1] = HeaderBlock(m)
         /\ \A k \in 1..Blocks(m.size) : MemberBlocks(m)[1 + k] = DataBlocks(m)[k]
<1>1. PICK n \in Nat : n = Blocks(m.size)
  BY DataType
<1>2. PICK d : d = DataBlocks(m)
  OBVIOUS
<1>3. PICK h : h = HeaderBlock(m)
  OBVIOUS
<1>4. d \in Seq(Range(d) \cup {h}) /\ Len(d) = n
  <2>1. d \in Seq(Range(d)) /\ Len(d) = n
    BY <1>1, <1>2, DataType
  <2> QED
    BY <2>1, SeqOver
<1>5. PICK b : b = <<h>> \o d
  OBVIOUS
<1>6. <<h>> \in Seq(Range(d) \cup {h}) /\ Len(<<h>>) = 1 /\ <<h>>[1] = h
  OBVIOUS
<1>7. /\ b \in Seq(Range(d) \cup {h}) /\ Len(b) = 1 + n /\ b[1] = h
      /\ \A k \in 1..n : b[1 + k] = d[k]
  BY <1>4, <1>5, <1>6
<1>8. b \in Seq(Range(b))
  <2>1. \A k \in 1..Len(b) : b[k] \in Range(b)
    BY <1>7 DEF Range
  <2> QED
    BY <1>7, <2>1, SeqOver
<1>9. b = MemberBlocks(m)
  BY <1>2, <1>3, <1>5 DEF MemberBlocks
<1> QED
  BY <1>1, <1>2, <1>3, <1>7, <1>8, <1>9

\* The end of an archive is two blocks of zeros.
LEMMA EndType ==
  ASSUME NEW a
  PROVE  <<Zero, Zero>> \in Seq(Stuff(a)) /\ Len(<<Zero, Zero>>) = 2 /\ <<Zero, Zero>>[1] = Zero
<1>1. Zero \in Stuff(a)
  BY Zenon DEF Stuff
<1>2. PICK z : z = Zero
  OBVIOUS
<1>3. <<z, z>> \in Seq(Stuff(a)) /\ Len(<<z, z>>) = 2 /\ <<z, z>>[1] = z
  BY <1>1, <1>2
<1> QED
  BY <1>2, <1>3

\* An archive is the blocks of its members, one after the other.
LEMMA PartsType ==
  ASSUME NEW a, IsArchive(a)
  PROVE  /\ Parts(a) \in Seq(Seq(Stuff(a))) /\ Len(Parts(a)) = Len(a) /\ Len(a) \in Nat
         /\ \A i \in 1..Len(a) : Parts(a)[i] = MemberBlocks(a[i])
<1>1. Len(a) \in Nat
  BY DEF IsArchive
<1>2. ASSUME NEW i \in 1..Len(a) PROVE MemberBlocks(a[i]) \in Seq(Stuff(a))
  <2>1. PICK b : b = MemberBlocks(a[i])
    OBVIOUS
  <2>2. b \in Seq(Range(b))
    BY <2>1, MemberType DEF IsArchive
  <2>3. Range(b) \subseteq Stuff(a)
    BY <2>1 DEF Stuff
  <2>4. \A k \in 1..Len(b) : b[k] \in Stuff(a)
    BY <2>2, <2>3
  <2> QED
    BY <2>1, <2>2, <2>4, SeqOver
<1>3. Parts(a) \in [1..Len(a) -> Seq(Stuff(a))]
  BY <1>2 DEF Parts
<1> QED
  BY <1>1, <1>3, FunctionIsSeq DEF Parts

\* Where a member begins, what is there and where the next one begins.
LEMMA PositionNext ==
  ASSUME NEW a, IsArchive(a), NEW n \in Nat, n + 1 <= Len(a)
  PROVE  /\ Position(a, n) \in Nat
         /\ Position(a, n + 1) = Position(a, n) + 1 + Blocks(a[n + 1].size)
         /\ Blocks(a[n + 1].size) \in Nat
         /\ Tar(a)[Position(a, n) + 1] = HeaderBlock(a[n + 1])
         /\ SubSeq(Tar(a), Position(a, n) + 2, Position(a, n) + 1 + Blocks(a[n + 1].size))
              = DataBlocks(a[n + 1])
<1>1. PICK p : p = Parts(a)
  OBVIOUS
<1>2. p \in Seq(Seq(Stuff(a))) /\ Len(p) = Len(a) /\ Len(a) \in Nat
  BY <1>1, PartsType
<1>3. PICK m : m = a[n + 1] /\ m.size \in Nat
  BY <1>2 DEF IsArchive
<1>4. p[n + 1] = MemberBlocks(m)
  BY <1>1, <1>2, <1>3, PartsType
<1>5. PICK f : f = FlattenSeq(p)
  OBVIOUS
<1>6. f \in Seq(Stuff(a))
  BY <1>2, <1>5, FlattenType
<1>7. PICK x \in Nat : x = Len(Flat(p, n))
  <2>1. n \in 0..Len(p)
    BY <1>2
  <2> QED
    BY <1>2, <2>1, FlatType
<1>8. PICK b \in Nat : b = Blocks(m.size)
  BY <1>3, DataType
<1>9. PICK s : s = MemberBlocks(m)
  OBVIOUS
<1>10. Len(s) = 1 + b /\ s[1] = HeaderBlock(m) /\ \A k \in 1..b : s[1 + k] = DataBlocks(m)[k]
  BY <1>3, <1>8, <1>9, MemberType
<1>11. /\ Len(Flat(p, n + 1)) = x + (1 + b) /\ x + (1 + b) <= Len(f)
       /\ \A k \in 1..1 + b : f[x + k] = s[k]
  <2>1. n + 1 <= Len(p)
    BY <1>2
  <2>2. /\ Len(Flat(p, n + 1)) = Len(Flat(p, n)) + Len(p[n + 1])
        /\ Len(Flat(p, n + 1)) <= Len(FlattenSeq(p))
        /\ \A k \in 1..Len(p[n + 1]) : FlattenSeq(p)[Len(Flat(p, n)) + k] = p[n + 1][k]
    BY <1>2, <2>1, FlattenAt
  <2> QED
    BY <1>4, <1>5, <1>7, <1>9, <1>10, <2>2
<1>12. PICK t : t = Tar(a)
  OBVIOUS
<1>13. t = f \o <<Zero, Zero>>
  BY <1>1, <1>5, <1>12 DEF Tar, Parts
<1>14. t \in Seq(Stuff(a)) /\ Len(t) = Len(f) + 2 /\ \A k \in 1..Len(f) : t[k] = f[k]
  <2>1. <<Zero, Zero>> \in Seq(Stuff(a)) /\ Len(<<Zero, Zero>>) = 2
    BY EndType
  <2> QED
    BY <1>6, <1>13, <2>1
<1>15. \A k \in 1..1 + b : x + k \in 1..Len(f) /\ t[x + k] = s[k]
  <2> SUFFICES ASSUME NEW k \in 1..1 + b PROVE x + k \in 1..Len(f) /\ t[x + k] = s[k]
    OBVIOUS
  <2>1. x + k \in 1..Len(f)
    <3>1. Len(f) \in Nat
      BY <1>6
    <3> QED
      BY <1>11, <3>1
  <2> QED
    BY <1>11, <1>14, <2>1
<1>16. t[x + 1] = HeaderBlock(m)
  BY <1>10, <1>15
<1>17. SubSeq(t, x + 2, x + 1 + b) = DataBlocks(m)
  <2>1. PICK u : u = SubSeq(t, x + 2, x + 1 + b)
    OBVIOUS
  <2>2. x + 1 + b <= Len(t)
    BY <1>6, <1>11, <1>14
  <2>3. u \in Seq(Stuff(a)) /\ Len(u) = b /\ \A k \in 1..b : u[k] = t[x + 1 + k]
    BY <1>14, <2>1, <2>2
  <2>4. \A k \in 1..b : u[k] = DataBlocks(m)[k]
    <3> SUFFICES ASSUME NEW k \in 1..b PROVE u[k] = DataBlocks(m)[k]
      OBVIOUS
    <3>1. 1 + k \in 1..1 + b /\ x + (1 + k) = x + 1 + k
      OBVIOUS
    <3>2. t[x + 1 + k] = s[1 + k]
      BY <1>15, <3>1
    <3> QED
      BY <1>10, <2>3, <3>2
  <2>5. DataBlocks(m) \in Seq(Range(DataBlocks(m))) /\ Len(DataBlocks(m)) = b
    BY <1>3, <1>8, DataType
  <2>6. DataBlocks(m) = [k \in 1..b |-> DataBlocks(m)[k]] /\ u = [k \in 1..b |-> u[k]]
    <3>1. DOMAIN DataBlocks(m) = 1..b
      BY <1>8 DEF DataBlocks
    <3> QED
      BY <2>3, <2>5, <3>1, LenProperties
  <2>7. u = DataBlocks(m)
    BY <2>4, <2>6
  <2> QED
    BY <2>1, <2>7
<1> QED
  BY <1>1, <1>3, <1>7, <1>8, <1>11, <1>12, <1>16, <1>17 DEF Position

\* Behind the last member is the end.
LEMMA PositionEnd ==
  ASSUME NEW a, IsArchive(a)
  PROVE  Tar(a)[Position(a, Len(a)) + 1] = Zero /\ Position(a, 0) = 0
<1>1. PICK p : p = Parts(a)
  OBVIOUS
<1>2. p \in Seq(Seq(Stuff(a))) /\ Len(p) = Len(a)
  BY <1>1, PartsType
<1>3. PICK f \in Seq(Stuff(a)) : f = FlattenSeq(p)
  BY <1>2, FlattenType
<1>4. Flat(p, 0) = <<>> /\ Flat(p, Len(a)) = f
  BY <1>2, <1>3, FlatAll
<1>5. Tar(a) = f \o <<Zero, Zero>>
  BY <1>1, <1>3 DEF Tar, Parts
<1>6. (f \o <<Zero, Zero>>)[Len(f) + 1] = Zero
  <2>1. <<Zero, Zero>> \in Seq(Stuff(a)) /\ Len(<<Zero, Zero>>) = 2 /\ <<Zero, Zero>>[1] = Zero
    BY EndType
  <2>2. PICK z : z = <<Zero, Zero>>
    OBVIOUS
  <2>3. (f \o z)[Len(f) + 1] = z[1]
    BY <2>1, <2>2
  <2> QED
    BY <2>1, <2>2, <2>3
<1> QED
  BY <1>1, <1>4, <1>5, <1>6 DEF Position

\* LoadsAll says where a member begins by the length of the archive before it.
LEMMA BeforeIs ==
  ASSUME IsArchive(archive), NEW n \in 0..Len(archive)
  PROVE  Before(n + 1) = Position(archive, n)
<1>1. PICK a : a = archive
  OBVIOUS
<1>2. PICK u : u = SubSeq(a, 1, n)
  OBVIOUS
<1>3. Len(a) \in Nat /\ a \in Seq(Range(a))
  BY <1>1 DEF IsArchive
<1>4. Len(u) = n /\ \A i \in 1..n : u[i] = a[i]
  BY <1>1, <1>2, <1>3
<1>5. PICK p : p = Parts(a)
  OBVIOUS
<1>6. p \in Seq(Seq(Stuff(a))) /\ Len(p) = Len(a) /\ \A i \in 1..Len(a) : p[i] = MemberBlocks(a[i])
  BY <1>1, <1>5, PartsType
<1>7. SubSeq(p, 1, n) = [i \in 1..Len(u) |-> MemberBlocks(u[i])]
  <2>1. SubSeq(p, 1, n) = [i \in 1..n |-> p[i]]
    BY <1>1, <1>3, <1>6
  <2>2. \A i \in 1..n : p[i] = MemberBlocks(u[i])
    BY <1>1, <1>3, <1>4, <1>6
  <2> QED
    BY <1>4, <2>1, <2>2
<1>8. PICK f \in Seq(Stuff(a)) : f = Flat(p, n)
  BY <1>1, <1>6, FlatType
<1>9. Tar(u) = f \o <<Zero, Zero>>
  BY <1>7, <1>8, Zenon DEF Tar, Flat
<1>10. Len(f \o <<Zero, Zero>>) = Len(f) + 2 /\ Len(f) \in Nat
  BY <1>8
<1>11. Before(n + 1) = Len(Tar(u)) - 2
  <2>1. (n + 1) - 1 = n
    OBVIOUS
  <2> QED
    BY <1>1, <1>2, <2>1 DEF Before
<1> QED
  BY <1>1, <1>5, <1>8, <1>9, <1>10, <1>11 DEF Position
-----------------------------------------------------------------------------
(***************************************************************************)
(* The walk. As many members as there are files have been walked through.  *)
(***************************************************************************)

File(m) == [header |-> m, data |-> DataBlocks(m)]
Kept(a, n) == [i \in 1..n |-> File(a[i])]

\* The file pushed after the first n is that of the member n + 1.
LEMMA KeptNext ==
  ASSUME NEW a, NEW n \in Nat
  PROVE  Len(Kept(a, n)) = n /\ Append(Kept(a, n), File(a[n + 1])) = Kept(a, n + 1)
<1>1. PICK k : k = Kept(a, n)
  OBVIOUS
<1>2. k = [i \in 1..n |-> k[i]] /\ DOMAIN k = 1..n /\ \A i \in 1..n : k[i] = File(a[i])
  BY <1>1 DEF Kept
<1>3. PICK S : S = {File(a[i]) : i \in 1..n + 1}
  OBVIOUS
<1>4. k \in [1..n -> S] /\ File(a[n + 1]) \in S
  BY <1>2, <1>3
<1>5. k \in Seq(S) /\ Len(k) = n
  BY <1>4, FunctionIsSeq
<1>6. PICK e : e = File(a[n + 1])
  OBVIOUS
<1>7. PICK t : t = Append(k, e)
  OBVIOUS
<1>8. t \in Seq(S) /\ Len(t) = n + 1 /\ t[n + 1] = e /\ \A i \in 1..n : t[i] = k[i]
  BY <1>4, <1>5, <1>6, <1>7
<1>9. t = [i \in 1..n + 1 |-> t[i]]
  BY <1>8, LenProperties
<1>10. \A i \in 1..n + 1 : t[i] = File(a[i])
  <2>1. \A i \in 1..n + 1 : i \in 1..n \/ i = n + 1
    OBVIOUS
  <2> QED
    BY <1>2, <1>6, <1>8, <2>1, Zenon
<1>11. t = Kept(a, n + 1)
  BY <1>9, <1>10, Zenon DEF Kept
<1> QED
  BY <1>1, <1>5, <1>6, <1>7, <1>11

Walked ==
  /\ IsArchive(archive)
  /\ Len(files) \in 0..Len(archive)
  /\ files = Kept(archive, Len(files))
  /\ pc = "block" => address = Position(archive, Len(files))
  /\ pc = "data" =>
       /\ Len(files) < Len(archive) /\ header = archive[Len(files) + 1]
       /\ address = Position(archive, Len(files)) + 1
  /\ pc \in {"trace", "date"} =>
       /\ Len(files) < Len(archive) /\ header = archive[Len(files) + 1]
       /\ data = DataBlocks(header)
       /\ address = Position(archive, Len(files) + 1)
  /\ pc \in {"loaded", "missing"} => Len(files) = Len(archive)

\* The walk has not begun.
LEMMA InitWalked == Init => Walked
<1> SUFFICES ASSUME Init PROVE Walked
  OBVIOUS
<1>1. IsArchive(archive) /\ pc = "block" /\ address = 0 /\ files = <<>>
  BY InitrdAssumption DEF Init, IsArchive
<1>2. Len(files) = 0 /\ Len(archive) \in Nat /\ 0 \in 0..Len(archive)
  BY <1>1 DEF IsArchive
<1>3. files = Kept(archive, 0)
  BY <1>1 DEF Kept
<1>4. Position(archive, 0) = 0
  BY <1>1, PositionEnd
<1> QED
  BY <1>1, <1>2, <1>3, <1>4 DEF Walked

\* What is at the address of a header
LEMMA WalkedAt ==
  ASSUME Walked
  PROVE  LET n == Len(files) IN
         /\ n \in Nat /\ Len(archive) \in Nat /\ n <= Len(archive)
         /\ n < Len(archive) =>
              /\ n + 1 \in 1..Len(archive)
              /\ Memory[Position(archive, n) + 1] = HeaderBlock(archive[n + 1])
              /\ Memory[Position(archive, n) + 1] # Zero
              /\ Position(archive, n) \in Nat /\ Blocks(archive[n + 1].size) \in Nat
              /\ Position(archive, n + 1) = Position(archive, n) + 1 + Blocks(archive[n + 1].size)
              /\ SubSeq(Memory, Position(archive, n) + 2,
                                Position(archive, n) + 1 + Blocks(archive[n + 1].size))
                   = DataBlocks(archive[n + 1])
         /\ n = Len(archive) => Memory[Position(archive, n) + 1] = Zero
<1>1. PICK n \in Nat : n = Len(files) /\ Len(archive) \in Nat /\ n <= Len(archive)
  BY DEF Walked, IsArchive
<1>2. IsArchive(archive)
  BY DEF Walked
<1>3. ASSUME n < Len(archive)
      PROVE  /\ n + 1 \in 1..Len(archive)
             /\ Memory[Position(archive, n) + 1] = HeaderBlock(archive[n + 1])
             /\ Position(archive, n) \in Nat /\ Blocks(archive[n + 1].size) \in Nat
             /\ Position(archive, n + 1) = Position(archive, n) + 1 + Blocks(archive[n + 1].size)
             /\ SubSeq(Memory, Position(archive, n) + 2,
                               Position(archive, n) + 1 + Blocks(archive[n + 1].size))
                  = DataBlocks(archive[n + 1])
  <2>1. n + 1 <= Len(archive) /\ n + 1 \in 1..Len(archive)
    BY <1>1, <1>3
  <2> QED
    BY <1>2, <2>1, PositionNext DEF Memory
<1>4. \A m : HeaderBlock(m) # Zero
  <2>1. \A m : HeaderBlock(m).kind = "header" /\ Zero.kind = "zero"
    BY DEF HeaderBlock, Zero
  <2> QED
    BY <2>1
<1>5. ASSUME n = Len(archive) PROVE Memory[Position(archive, n) + 1] = Zero
  BY <1>2, <1>5, PositionEnd DEF Memory
<1> QED
  BY <1>1, <1>3, <1>4, <1>5

\* Parse_header reads a header where there is one, or the end where there is
\* none.
LEMMA HeaderWalked ==
  ASSUME Walked, parse_header
  PROVE  Walked'
<1>1. PICK n \in Nat : n = Len(files) /\ Len(archive) \in Nat /\ n <= Len(archive)
  BY WalkedAt
<1>2. /\ pc = "block" /\ archive' = archive /\ files' = files
      /\ address = Position(archive, n) /\ Memory[address + 1] # Zero
  BY <1>1 DEF parse_header, Walked, Block
<1>3. n < Len(archive) /\ Memory[address + 1] = HeaderBlock(archive[n + 1]) /\ address \in Nat
  BY <1>1, <1>2, WalkedAt
<1>4. Memory[address + 1].kind = "header" /\ Memory[address + 1].of = archive[n + 1]
  BY <1>3 DEF HeaderBlock
<1>5. \/ pc' = "panic"
      \/ pc' = "data" /\ header' = archive[n + 1] /\ address' = address + 1
  BY <1>4 DEF parse_header, Block
<1> QED
  BY <1>1, <1>2, <1>3, <1>5 DEF Walked, Position

\* Parse_data takes the member's data, all of it and no more.
LEMMA DataWalked ==
  ASSUME Walked, parse_data
  PROVE  Walked'
<1>1. PICK n \in Nat : n = Len(files) /\ Len(archive) \in Nat /\ n <= Len(archive)
  BY WalkedAt
<1>2. /\ pc = "data" /\ archive' = archive /\ files' = files /\ header' = header
      /\ pc' = "trace" /\ address' = address + Blocks(header.size)
      /\ data' = SubSeq(Memory, address + 1, address + Blocks(header.size))
      /\ n < Len(archive) /\ header = archive[n + 1] /\ address = Position(archive, n) + 1
  BY <1>1 DEF parse_data, Walked
<1>3. PICK b \in Nat : b = Blocks(header.size)
  BY <1>1, <1>2, WalkedAt
<1>4. PICK x \in Nat : x = Position(archive, n)
  BY <1>1, <1>2, WalkedAt
<1>5. /\ Position(archive, n + 1) = x + 1 + b
      /\ SubSeq(Memory, x + 2, x + 1 + b) = DataBlocks(header)
  BY <1>1, <1>2, <1>3, <1>4, WalkedAt
<1>6. address + 1 = x + 2 /\ address + b = x + 1 + b
  BY <1>2, <1>4
<1>7. data' = DataBlocks(header) /\ address' = Position(archive, n + 1)
  BY <1>2, <1>3, <1>5, <1>6
<1> QED
  BY <1>1, <1>2, <1>7 DEF Walked

\* Push keeps the member in its turn.
LEMMA PushWalked ==
  ASSUME Walked, push
  PROVE  Walked'
<1>1. PICK n \in Nat : n = Len(files) /\ Len(archive) \in Nat /\ n <= Len(archive)
  BY WalkedAt
<1>2. /\ pc = "date" /\ archive' = archive /\ address' = address /\ pc' = "block"
      /\ files' = Append(files, [header |-> header, data |-> data])
      /\ n < Len(archive) /\ header = archive[n + 1] /\ data = DataBlocks(header)
      /\ address = Position(archive, n + 1) /\ files = Kept(archive, n)
  BY <1>1 DEF push, Walked
<1>3. files' = Append(Kept(archive, n), File(archive[n + 1]))
  BY <1>2, Zenon DEF File
<1>4. files' = Kept(archive, n + 1)
  BY <1>3, KeptNext
<1>5. Len(files') = n + 1
  BY <1>4, KeptNext
<1>6. n + 1 \in 0..Len(archive)
  BY <1>1, <1>2
<1> QED
  BY <1>2, <1>4, <1>5, <1>6 DEF Walked

\* No step leaves the walk elsewhere than between members.
LEMMA NextWalked == Walked /\ [Next]_vars => Walked'
<1> SUFFICES ASSUME Walked, [Next]_vars PROVE Walked'
  OBVIOUS
<1>1. CASE trace \/ convert
  <2>1. /\ archive' = archive /\ address' = address /\ header' = header /\ data' = data
        /\ files' = files /\ pc \in {"trace", "date"} /\ pc' \in {"date", "panic"}
    BY <1>1 DEF trace, convert
  <2> QED
    BY <2>1 DEF Walked
<1>2. CASE eof
  <2>1. /\ archive' = archive /\ address' = address /\ header' = header /\ data' = data
        /\ files' = files /\ pc = "block" /\ pc' = "loaded" /\ Memory[address + 1] = Zero
    BY <1>2 DEF eof, Block
  <2>2. Len(files) = Len(archive)
    BY <2>1, WalkedAt DEF Walked
  <2> QED
    BY <2>1, <2>2 DEF Walked
<1>3. ASSUME NEW path \in Paths, get_data(path) PROVE Walked'
  <2>1. /\ archive' = archive /\ address' = address /\ header' = header /\ data' = data
        /\ files' = files /\ pc = "loaded" /\ pc' \in {"loaded", "missing"}
    BY <1>3 DEF get_data
  <2> QED
    BY <2>1 DEF Walked
<1>4. CASE UNCHANGED vars
  BY <1>4 DEF vars, Walked
<1> QED
  BY <1>1, <1>2, <1>3, <1>4, HeaderWalked, DataWalked, PushWalked DEF Next, Load

\* The walk is on a member's border in every state.
LEMMA Walks == Spec => []Walked
  BY InitWalked, NextWalked, PTL DEF Spec

\* Initrd::new meets every member where the archive has it and loads them all
\* in order with their own data, whatever the members hold and however long
\* they are, and never takes a block of data for a header or for the end.
THEOREM AllLoaded == Spec => []LoadsAll
<1>1. Walked => LoadsAll
  <2> SUFFICES ASSUME Walked PROVE LoadsAll
    OBVIOUS
  <2>1. pc = "block" => address = Before(Len(files) + 1)
    BY BeforeIs DEF Walked
  <2>2. pc \in {"loaded", "missing"} =>
          files = [i \in 1..Len(archive) |->
                     [header |-> archive[i], data |-> DataBlocks(archive[i])]]
    BY Zenon DEF Walked, Kept, File
  <2> QED
    BY <2>1, <2>2 DEF LoadsAll
<1> QED
  BY <1>1, Walks, PTL
-----------------------------------------------------------------------------
(***************************************************************************)
(* Lookups.                                                                *)
(***************************************************************************)

Finds(i) == archive[i].name = found.path
Looked ==
  /\ pc \notin {"loaded", "missing"} => found = NotAsked
  /\ pc = "loaded" /\ found # NotAsked =>
       \E i \in 1..Len(archive) : Finds(i) /\ found.data = DataBlocks(archive[i])
  /\ pc = "missing" => \A i \in 1..Len(archive) : ~Finds(i)

\* Get_data answers with the first file of that name.
LEMMA GetLooked ==
  ASSUME Walked, Looked, NEW path \in Paths, get_data(path)
  PROVE  Looked'
<1>1. /\ pc = "loaded" /\ archive' = archive
      /\ files = Kept(archive, Len(archive)) /\ Len(files) = Len(archive) /\ Len(archive) \in Nat
  BY DEF get_data, Walked, IsArchive
<1> DEFINE I == {i \in 1..Len(files) : files[i].header.name = path}
<1>2. PICK i : i = IF I # {} THEN Min(I) ELSE 0
  OBVIOUS
<1>3. IF i # 0 THEN found' = [path |-> path, data |-> files[i].data] /\ pc' = pc
      ELSE found' = [path |-> path, data |-> <<>>] /\ pc' = "missing"
  BY <1>2 DEF get_data, SelectInSeq
<1>4. \A k \in 1..Len(archive) : files[k].header = archive[k] /\ files[k].data = DataBlocks(archive[k])
  BY <1>1 DEF Kept, File
<1>5. CASE I # {}
  <2>1. i \in I
    <3>1. I \subseteq Nat
      OBVIOUS
    <3>2. \E x \in I : \A y \in I : x <= y
      <4> HIDE DEF I
      <4> QED BY <1>5, <3>1, NatLeast
    <3>3. i = Min(I)
      BY <1>2, <1>5
    <3> HIDE DEF I
    <3> QED
      BY <3>2, <3>3, Zenon DEF Min
  <2>2. i \in 1..Len(archive) /\ i # 0 /\ archive[i].name = path
    BY <1>1, <1>4, <2>1
  <2>3. found'.path = path /\ found'.data = DataBlocks(archive[i]) /\ pc' = "loaded"
    BY <1>1, <1>3, <1>4, <2>2
  <2> QED
    BY <1>1, <2>2, <2>3 DEF Looked, Finds
<1>6. CASE I = {}
  <2>1. found'.path = path /\ pc' = "missing"
    BY <1>2, <1>3, <1>6
  <2>2. \A k \in 1..Len(archive) : archive[k].name # path
    BY <1>1, <1>4, <1>6
  <2> QED
    BY <1>1, <2>1, <2>2 DEF Looked, Finds
<1> QED
  BY <1>5, <1>6

\* No other step changes an answer.
LEMMA NextLooked == Walked /\ Looked /\ [Next]_vars => Looked'
<1> SUFFICES ASSUME Walked, Looked, [Next]_vars PROVE Looked'
  OBVIOUS
<1>1. CASE Load
  <2>1. /\ found' = found /\ archive' = archive
        /\ pc \notin {"loaded", "missing"} /\ pc' # "missing"
    BY <1>1 DEF Load, parse_header, parse_data, trace, convert, push, eof
  <2> QED
    BY <2>1 DEF Looked
<1>2. CASE UNCHANGED vars
  BY <1>2 DEF vars, Looked, Finds
<1> QED
  BY <1>1, <1>2, GetLooked DEF Next

\* Initrd::get_data gives a file its own data under its own path, unless a
\* longer path leaves the same name, and panics only if no file has the path
\* as its name, for every archive and any number of lookups.
THEOREM Lookups == Spec => []LookupRight
<1>1. Init => Looked
  BY DEF Init, Looked
<1>2. Looked => LookupRight
  <2> SUFFICES ASSUME Looked PROVE LookupRight
    OBVIOUS
  <2> DEFINE Here == {i \in 1..Len(archive) : archive[i].path = found.path}
             Named == {i \in 1..Len(archive) : archive[i].name = found.path}
  <2>1. found # NotAsked /\ pc = "loaded" /\ Named \subseteq Here =>
          \E i \in Here : found.data = DataBlocks(archive[i])
    BY DEF Looked, Finds
  <2>2. pc = "missing" => Here \intersect Named = {}
    BY DEF Looked, Finds
  <2> QED
    BY <2>1, <2>2 DEF LookupRight
<1> QED
  BY <1>1, <1>2, InitWalked, NextWalked, NextLooked, PTL DEF Spec
-----------------------------------------------------------------------------
(***************************************************************************)
(* The calendar. March(y) counts the days up to the first of March.        *)
(***************************************************************************)

March(y) == 365 * y + y \div 4 - y \div 100 + y \div 400

\* The days from the first of March to the first of the m-th month
MarchTo == <<306, 337, 0, 31, 61, 92, 122, 153, 184, 214, 245, 275>>

\* How a quotient of years changes from a year to the next: by the leap day.
LEMMA DivNext ==
  ASSUME NEW y \in Nat, NEW d \in Nat \ {0}
  PROVE  (y + 1) \div d = (y \div d) + (IF (y + 1) % d = 0 THEN 1 ELSE 0)
<1>1. PICK q \in Nat : q = y \div d
  BY DivMod
<1>2. PICK r \in 0..d - 1 : r = y % d
  BY DivMod
<1>3. y = d * q + r
  BY <1>1, <1>2, DivMod
<1>4. PICK p \in Nat : p = (y + 1) \div d
  BY DivMod
<1>5. PICK s \in 0..d - 1 : s = (y + 1) % d
  BY DivMod
<1>6. y + 1 = d * p + s
  BY <1>4, <1>5, DivMod
<1>7. CASE r + 1 < d
  <2>1. p = q
    <3>1. d * q <= y + 1 /\ y + 1 < d * q + d
      BY <1>3, <1>7
    <3> QED
      BY <1>4, <3>1, DivIs
  <2>2. s = r + 1
    BY <1>3, <1>6, <2>1
  <2> QED
    BY <1>1, <1>4, <1>5, <2>1, <2>2
<1>8. CASE r + 1 = d
  <2>1. d * (q + 1) = d * q + d
    OBVIOUS
  <2>2. p = q + 1
    <3>1. d * (q + 1) <= y + 1 /\ y + 1 < d * (q + 1) + d
      BY <1>3, <1>8, <2>1
    <3> QED
      BY <1>4, <3>1, DivIs
  <2>3. s = 0
    BY <1>3, <1>6, <1>8, <2>1, <2>2
  <2> QED
    BY <1>1, <1>4, <1>5, <2>2, <2>3
<1> QED
  BY <1>7, <1>8

\* A count of days is a number.
LEMMA MarchType == ASSUME NEW y \in Nat PROVE March(y) \in Int
<1>1. y \div 4 \in Nat /\ y \div 100 \in Nat /\ y \div 400 \in Nat
  BY DivMod
<1> QED
  BY <1>1 DEF March

\* From March to March it is a year, with the leap day at its end.
LEMMA MarchNext ==
  ASSUME NEW y \in Nat
  PROVE  March(y + 1) = March(y) + DaysPerYear(y + 1)
<1>1. PICK z \in Nat : z = y + 1
  OBVIOUS
<1>2. /\ z \div 4 = (y \div 4) + (IF z % 4 = 0 THEN 1 ELSE 0)
      /\ z \div 100 = (y \div 100) + (IF z % 100 = 0 THEN 1 ELSE 0)
      /\ z \div 400 = (y \div 400) + (IF z % 400 = 0 THEN 1 ELSE 0)
  BY <1>1, DivNext
<1>3. z % 100 = 0 => z % 4 = 0
  OBVIOUS
<1>4. z % 400 = 0 => z % 100 = 0
  OBVIOUS
<1>5. y \div 4 \in Nat /\ y \div 100 \in Nat /\ y \div 400 \in Nat
  BY DivMod
<1>6. PICK a \in Nat : a = y \div 4
  BY <1>5
<1>7. PICK b \in Nat : b = y \div 100
  BY <1>5
<1>8. PICK c \in Nat : c = y \div 400
  BY <1>5
<1>9. March(z) = 365 * z + z \div 4 - z \div 100 + z \div 400 /\ March(y) = 365 * y + a - b + c
  BY <1>6, <1>7, <1>8 DEF March
<1>10. CASE z % 4 # 0
  <2>1. z % 100 # 0 /\ z % 400 # 0 /\ DaysPerYear(z) = 365
    BY <1>3, <1>4, <1>10 DEF DaysPerYear, is_leap_year
  <2>2. z \div 4 = a /\ z \div 100 = b /\ z \div 400 = c
    BY <1>2, <1>6, <1>7, <1>8, <1>10, <2>1
  <2> QED
    BY <1>1, <1>9, <2>1, <2>2
<1>11. CASE z % 4 = 0 /\ z % 100 # 0
  <2>1. z % 400 # 0 /\ DaysPerYear(z) = 366
    BY <1>4, <1>11 DEF DaysPerYear, is_leap_year
  <2>2. z \div 4 = a + 1 /\ z \div 100 = b /\ z \div 400 = c
    BY <1>2, <1>6, <1>7, <1>8, <1>11, <2>1
  <2> QED
    BY <1>1, <1>9, <2>1, <2>2
<1>12. CASE z % 4 = 0 /\ z % 100 = 0 /\ z % 400 # 0
  <2>1. DaysPerYear(z) = 365
    BY <1>12 DEF DaysPerYear, is_leap_year
  <2>2. z \div 4 = a + 1 /\ z \div 100 = b + 1 /\ z \div 400 = c
    BY <1>2, <1>6, <1>7, <1>8, <1>12
  <2> QED
    BY <1>1, <1>9, <2>1, <2>2
<1>13. CASE z % 4 = 0 /\ z % 100 = 0 /\ z % 400 = 0
  <2>1. DaysPerYear(z) = 366
    BY <1>13 DEF DaysPerYear, is_leap_year
  <2>2. z \div 4 = a + 1 /\ z \div 100 = b + 1 /\ z \div 400 = c + 1
    BY <1>2, <1>6, <1>7, <1>8, <1>13
  <2> QED
    BY <1>1, <1>9, <2>1, <2>2
<1> QED
  BY <1>10, <1>11, <1>12, <1>13

\* The reference's count of days, by the month.
LEMMA DayNumberIs ==
  ASSUME NEW y \in Nat \ {0}, NEW m \in 1..12, NEW d \in Int
  PROVE  DayNumber(y, m, d) = March(IF m <= 2 THEN y - 1 ELSE y) + MarchTo[m] + d - EpochDay
<1>1. PICK z \in Nat : z = IF m <= 2 THEN y - 1 ELSE y
  OBVIOUS
<1>2. (153 * ((m + 9) % 12) + 2) \div 5 = MarchTo[m]
  <2>1. \/ m = 1 \/ m = 2 \/ m = 3 \/ m = 4 \/ m = 5 \/ m = 6
        \/ m = 7 \/ m = 8 \/ m = 9 \/ m = 10 \/ m = 11 \/ m = 12
    OBVIOUS
  <2>2. /\ 10 % 12 = 10 /\ 11 % 12 = 11 /\ 12 % 12 = 0 /\ 13 % 12 = 1 /\ 14 % 12 = 2
        /\ 15 % 12 = 3 /\ 16 % 12 = 4 /\ 17 % 12 = 5 /\ 18 % 12 = 6 /\ 19 % 12 = 7
        /\ 20 % 12 = 8 /\ 21 % 12 = 9
    OBVIOUS
  <2>3. /\ 1532 \div 5 = 306 /\ 1685 \div 5 = 337 /\ 2 \div 5 = 0 /\ 155 \div 5 = 31
        /\ 308 \div 5 = 61 /\ 461 \div 5 = 92 /\ 614 \div 5 = 122 /\ 767 \div 5 = 153
        /\ 920 \div 5 = 184 /\ 1073 \div 5 = 214 /\ 1226 \div 5 = 245 /\ 1379 \div 5 = 275
    OBVIOUS
  <2> QED
    BY <2>1, <2>2, <2>3 DEF MarchTo
<1>3. DayNumber(y, m, d) = 365 * z + z \div 4 - z \div 100 + z \div 400 + MarchTo[m] + d - EpochDay
  BY <1>1, <1>2, SMT DEF DayNumber
<1> QED
  BY <1>1, <1>3, SMT DEF March
\* A year has 365 or 366 days.
LEMMA LeapYears == ASSUME NEW y \in Nat PROVE DaysPerYear(y) \in {365, 366}
  BY DEF DaysPerYear

\* A year begins as many days after another as that one has.
LEMMA YearNext ==
  ASSUME NEW y \in Nat \ {0}
  PROVE  YearStart(y) \in Int /\ YearStart(y + 1) = YearStart(y) + DaysPerYear(y)
<1>1. PICK x \in Nat : x + 1 = y /\ y - 1 = x
  BY y - 1 \in Nat
<1>2. March(y) = March(x) + DaysPerYear(y) /\ March(x) \in Int
  BY <1>1, MarchNext, MarchType
<1>3. DaysPerYear(y) \in Int
  BY LeapYears
<1>4. YearStart(y) = March(x) + 306 + 1 - EpochDay
  <2>1. MarchTo[1] = 306
    BY DEF MarchTo
  <2>2. DayNumber(y, 1, 1) = March(IF 1 <= 2 THEN y - 1 ELSE y) + MarchTo[1] + 1 - EpochDay
    BY DayNumberIs
  <2> QED
    BY <1>1, <2>1, <2>2 DEF YearStart
<1>5. YearStart(y + 1) = March(y) + 306 + 1 - EpochDay
  <2>1. MarchTo[1] = 306 /\ y + 1 \in Nat \ {0} /\ (y + 1) - 1 = y
    BY DEF MarchTo
  <2>2. DayNumber(y + 1, 1, 1) = March(IF 1 <= 2 THEN (y + 1) - 1 ELSE y + 1) + MarchTo[1] + 1 - EpochDay
    BY <2>1, DayNumberIs
  <2> QED
    BY <2>1, <2>2 DEF YearStart
<1>6. EpochDay \in Int
  BY SMT DEF EpochDay
<1> QED
  BY <1>2, <1>3, <1>4, <1>5, <1>6

\* The months of the table are those of the calendar.
LEMMA MonthNext ==
  ASSUME NEW y \in Nat \ {0}, NEW m \in 1..12
  PROVE  /\ DayNumber(y, m, 1) \in Int /\ days_per_month(y)[m] \in 28..31
         /\ MonthEnd(y, m) = DayNumber(y, m, 1) + days_per_month(y)[m]
<1>1. PICK x \in Nat : x + 1 = y /\ y - 1 = x
  BY y - 1 \in Nat
<1>2. March(y) = March(x) + DaysPerYear(y) /\ March(x) \in Int /\ March(y) \in Int
  BY <1>1, MarchNext, MarchType
<1>3. PICK e \in Int : e = EpochDay
  BY SMT DEF EpochDay
<1>4. \/ m = 1 \/ m = 2 \/ m = 3 \/ m = 4 \/ m = 5 \/ m = 6
      \/ m = 7 \/ m = 8 \/ m = 9 \/ m = 10 \/ m = 11 \/ m = 12
  OBVIOUS
<1>5. DayNumber(y, m, 1) = March(IF m <= 2 THEN x ELSE y) + MarchTo[m] + 1 - e
  BY <1>1, <1>3, DayNumberIs
<1>6. CASE m = 12
  <2>1. days_per_month(y)[12] = 31 /\ MarchTo[12] = 275 /\ MarchTo[1] = 306
    BY DEF days_per_month, MarchTo
  <2>2. MonthEnd(y, m) = DayNumber(y + 1, 1, 1)
    BY <1>6 DEF MonthEnd, YearStart
  <2>3. DayNumber(y + 1, 1, 1) = March(y) + 306 + 1 - e
    <3>1. y + 1 \in Nat \ {0} /\ (y + 1) - 1 = y
      OBVIOUS
    <3>2. DayNumber(y + 1, 1, 1) = March(IF 1 <= 2 THEN (y + 1) - 1 ELSE y + 1) + MarchTo[1] + 1 - EpochDay
      BY <3>1, DayNumberIs
    <3> QED
      BY <1>3, <2>1, <3>1, <3>2
  <2> QED
    BY <1>2, <1>3, <1>5, <1>6, <2>1, <2>2, <2>3
<1>7. CASE m # 12
  <2>1. PICK k \in 2..12 : k = m + 1
    BY <1>7
  <2>2. DayNumber(y, k, 1) = March(IF k <= 2 THEN x ELSE y) + MarchTo[k] + 1 - e
    BY <1>1, <1>3, DayNumberIs
  <2>3. MonthEnd(y, m) = DayNumber(y, k, 1)
    BY <1>7, <2>1 DEF MonthEnd
  <2>4. CASE m = 2
    <3>1. MarchTo[2] = 337 /\ MarchTo[3] = 0 /\ k = 3
      BY <2>1, <2>4 DEF MarchTo
    <3>2. days_per_month(y)[2] = DaysPerYear(y) - 337
      BY DEF days_per_month, DaysPerYear
    <3>3. DaysPerYear(y) \in {365, 366}
      BY LeapYears
    <3>4. DayNumber(y, 2, 1) = March(x) + 337 + 1 - e /\ DayNumber(y, 3, 1) = March(y) + 0 + 1 - e
      BY <1>5, <2>2, <2>4, <3>1
    <3> QED
      BY <1>2, <2>3, <2>4, <3>1, <3>2, <3>3, <3>4
  <2>5. CASE m = 1
    <3>1. MarchTo[1] = 306 /\ MarchTo[2] = 337 /\ k = 2 /\ days_per_month(y)[1] = 31
      BY <2>1, <2>5 DEF MarchTo, days_per_month
    <3> QED
      BY <1>2, <1>5, <2>2, <2>3, <2>5, <3>1
  <2>6. CASE m \notin {1, 2, 12}
    <3>1. ~(m <= 2) /\ ~(k <= 2)
      BY <2>1, <2>6
    <3>2. days_per_month(y)[m] \in 28..31 /\ MarchTo[m] \in Int /\ MarchTo[k] = MarchTo[m] + days_per_month(y)[m]
      <4>1. /\ MarchTo[3] = 0 /\ MarchTo[4] = 31 /\ MarchTo[5] = 61 /\ MarchTo[6] = 92
            /\ MarchTo[7] = 122 /\ MarchTo[8] = 153 /\ MarchTo[9] = 184 /\ MarchTo[10] = 214
            /\ MarchTo[11] = 245 /\ MarchTo[12] = 275
        BY DEF MarchTo
      <4>2. /\ days_per_month(y)[3] = 31 /\ days_per_month(y)[4] = 30 /\ days_per_month(y)[5] = 31
            /\ days_per_month(y)[6] = 30 /\ days_per_month(y)[7] = 31 /\ days_per_month(y)[8] = 31
            /\ days_per_month(y)[9] = 30 /\ days_per_month(y)[10] = 31 /\ days_per_month(y)[11] = 30
        BY DEF days_per_month
      <4> QED
        BY <1>4, <2>1, <2>6, <4>1, <4>2
    <3>3. DayNumber(y, m, 1) = March(y) + MarchTo[m] + 1 - e /\ DayNumber(y, k, 1) = March(y) + MarchTo[k] + 1 - e
      BY <1>5, <2>2, <3>1
    <3> QED
      BY <1>2, <2>3, <3>2, <3>3
  <2> QED
    BY <1>7, <2>4, <2>5, <2>6
<1> QED
  BY <1>6, <1>7

\* The epoch is the first day of 1970.
LEMMA FirstYear == YearStart(Epoch) = 0
<1>1. March(1969) + 306 + 1 - EpochDay = 0
  BY SMT DEF March, EpochDay
<1>2. DayNumber(1970, 1, 1) = March(IF 1 <= 2 THEN 1970 - 1 ELSE 1970) + MarchTo[1] + 1 - EpochDay
  BY DayNumberIs, SMT
<1>3. MarchTo[1] = 306
  BY DEF MarchTo
<1> QED
  BY <1>1, <1>2, <1>3, SMT DEF YearStart, Epoch
\* Bounds on the first days of two years.
LEMMA YearGrows ==
  ASSUME NEW y \in Nat \ {0}, NEW k \in Nat
  PROVE  /\ YearStart(y) \in Int /\ YearStart(y + k) \in Int
         /\ YearStart(y) + 365 * k <= YearStart(y + k)
         /\ YearStart(y + k) <= YearStart(y) + 366 * k
<1> DEFINE Holds(j) == /\ YearStart(y + j) \in Int
                       /\ YearStart(y) + 365 * j <= YearStart(y + j)
                       /\ YearStart(y + j) <= YearStart(y) + 366 * j
           T == {j \in Nat : Holds(j)}
<1>1. PICK s \in Int : s = YearStart(y)
  BY YearNext
<1>2. 0 \in T
  <2>1. y + 0 = y
    OBVIOUS
  <2> QED
    BY <1>1, <2>1
<1>3. ASSUME NEW j \in Nat, j \in T PROVE j + 1 \in T
  <2>1. PICK z \in Nat \ {0} : z = y + j /\ z + 1 = y + (j + 1)
    OBVIOUS
  <2>2. PICK u \in Int : u = YearStart(z) /\ s + 365 * j <= u /\ u <= s + 366 * j
    BY <1>1, <1>3, <2>1
  <2>3. YearStart(z + 1) = u + DaysPerYear(z) /\ DaysPerYear(z) \in {365, 366}
    BY <2>2, YearNext, LeapYears
  <2>4. /\ YearStart(z + 1) \in Int /\ s + 365 * (j + 1) <= YearStart(z + 1)
        /\ YearStart(z + 1) <= s + 366 * (j + 1)
    BY <2>2, <2>3
  <2> QED
    BY <1>1, <2>1, <2>4
<1>4. \A j \in Nat : j \in T
  <2> HIDE DEF T
  <2> QED BY <1>2, <1>3, SetInduction
<1> QED
  BY <1>1, <1>4

\* Later years begin later.
LEMMA YearMonotonic ==
  ASSUME NEW y \in Nat \ {0}, NEW z \in Nat, y <= z
  PROVE  YearStart(y) <= YearStart(z)
<1>1. PICK k \in Nat : z = y + k
  BY z - y \in Nat
<1>2. YearStart(y) \in Int /\ YearStart(z) \in Int /\ YearStart(y) + 365 * k <= YearStart(z)
  BY <1>1, YearGrows
<1> QED
  BY <1>2

\* The year of an instant is the one that has begun and whose next has not.
LEMMA YearOfIs ==
  ASSUME NEW t, t.days \in Nat, NEW y \in Nat, y >= Epoch,
         YearStart(y) <= t.days, t.days < YearStart(y + 1)
  PROVE  YearOf(t) = y
<1>1. PICK d \in Nat : d = t.days
  OBVIOUS
<1>2. PICK e \in Nat \ {0} : e = Epoch
  BY SMT DEF Epoch
<1>3. PICK k \in Nat : y = e + k
  BY <1>2, y - e \in Nat
<1>4. YearStart(e) = 0
  BY <1>2, FirstYear
<1>5. 365 * k <= d
  <2>1. YearStart(e + k) \in Int /\ YearStart(e) + 365 * k <= YearStart(e + k)
    BY YearGrows
  <2> QED
    BY <1>1, <1>3, <1>4, <2>1
<1>6. d < 366 * k + 366
  <2>1. YearStart(e + (k + 1)) \in Int /\ YearStart(e + (k + 1)) <= YearStart(e) + 366 * (k + 1)
    BY YearGrows, k + 1 \in Nat
  <2>2. y + 1 = e + (k + 1)
    BY <1>3
  <2>3. d < YearStart(e + (k + 1))
    BY <1>1, <2>2
  <2> QED
    BY <1>4, <2>1, <2>3
<1>7. d \div 366 <= k /\ k <= d \div 365
  <2>1. d < 365 * k + 365 * (d + 1)
    BY <1>5
  <2>2. PICK q \in Nat : q = d \div 366 /\ 366 * q <= d
    BY DivMod
  <2>3. PICK p \in Nat : p = d \div 365 /\ d < 365 * p + 365
    BY DivMod
  <2>4. q <= k
    BY <1>6, <2>2
  <2>5. k <= p
    BY <1>5, <2>3
  <2> QED
    BY <2>2, <2>3, <2>4, <2>5
<1> DEFINE R == e + d \div 366 .. e + d \div 365
           Q(z) == YearStart(z) <= d /\ d < YearStart(z + 1)
<1>8. y \in R
  <2>1. d \div 366 \in Nat /\ d \div 365 \in Nat
    BY DivMod
  <2> QED
    BY <1>3, <1>7, <2>1
<1>9. \A z \in R : z \in Nat /\ z >= e
  <2>1. d \div 366 \in Nat /\ d \div 365 \in Nat
    BY DivMod
  <2> QED
    BY <2>1
<1>10. ASSUME NEW z \in R, Q(z) PROVE z = y
  <2>0. z \in Nat \ {0} /\ y \in Nat \ {0}
    BY <1>2, <1>3, <1>9
  <2>1. YearStart(y) \in Int /\ YearStart(z) \in Int /\ YearStart(y + 1) \in Int /\ YearStart(z + 1) \in Int
    BY <2>0, YearNext, y + 1 \in Nat \ {0}, z + 1 \in Nat \ {0}
  <2>2. ~(z < y)
    <3> SUFFICES ASSUME z < y PROVE FALSE
      OBVIOUS
    <3>1. YearStart(z + 1) <= YearStart(y)
      BY <2>0, YearMonotonic, z + 1 \in Nat \ {0}, z + 1 <= y
    <3> QED
      BY <1>1, <1>10, <2>1, <3>1
  <2>3. ~(y < z)
    <3> SUFFICES ASSUME y < z PROVE FALSE
      OBVIOUS
    <3>1. YearStart(y + 1) <= YearStart(z)
      BY <2>0, YearMonotonic, y + 1 \in Nat \ {0}, y + 1 <= z
    <3> QED
      BY <1>1, <1>10, <2>1, <3>1
  <2> QED
    BY <2>0, <2>2, <2>3
<1>11. YearOf(t) = CHOOSE z \in R : Q(z)
  BY <1>1, <1>2, Zenon DEF YearOf
<1>12. Q(y)
  BY <1>1
<1> HIDE DEF R, Q
<1> QED
  BY <1>8, <1>10, <1>11, <1>12, Zenon

-----------------------------------------------------------------------------
(***************************************************************************)
(* The permissions in a log line.                                          *)
(***************************************************************************)

\* How many digits a permission number has.
LEMMA NumberIs ==
  ASSUME NEW n \in Nat, n < 1000
  PROVE  /\ NumberOfDigits(n) \in 1..3
         /\ NumberOfDigits(n) = 3 => n >= 100
<1>1. /\ Powers[1] = 1 /\ Powers[2] = 10 /\ Powers[3] = 100 /\ Powers[4] = 1000
      /\ Powers[5] = 10000
  BY SMT DEF Powers
<1> DEFINE P(k) == n < Powers[k + 1] /\ (k = 1 \/ n >= Powers[k])
<1>2. /\ P(1) <=> n < 10
      /\ P(2) <=> n < 100 /\ n >= 10
      /\ P(3) <=> n < 1000 /\ n >= 100
      /\ P(4) => n >= 1000
  BY <1>1, SMT
<1>3. P(1) \/ P(2) \/ P(3)
  <2> HIDE DEF P
  <2> QED BY <1>2, SMT
<1>4. \E k \in 1..4 : P(k)
  <2> HIDE DEF P
  <2> QED BY <1>3, SMT
<1>5. NumberOfDigits(n) = CHOOSE k \in 1..4 : P(k)
  BY SMT DEF NumberOfDigits
<1>6. NumberOfDigits(n) \in 1..4 /\ P(NumberOfDigits(n))
  <2> HIDE DEF P
  <2> QED BY <1>4, <1>5, Zenon
<1>7. PICK k \in 1..4 : k = NumberOfDigits(n) /\ P(k)
  BY <1>6, SMT
<1>8. k = 1 \/ k = 2 \/ k = 3 \/ k = 4
  BY SMT
<1>9. k # 4 /\ (k = 3 => n >= 100)
  <2> HIDE DEF P
  <2> QED BY <1>2, <1>7, <1>8, SMT
<1> QED
  BY <1>7, <1>9, SMT

\* Without special bits, the three digits that are indexed are the permissions.
LEMMA PermissionsRight ==
  ASSUME NEW m, m.mode \in [1..4 -> 0..7], m.mode[1] = 0, HasPermissions(m)
  PROVE  permissions(m) = [k \in 1..3 |-> parse_permission(m.mode[k + 1])]
<1>1. PICK a \in 0..7, b \in 0..7, c \in 0..7 : a = m.mode[2] /\ b = m.mode[3] /\ c = m.mode[4]
  OBVIOUS
<1>2. PICK n \in Nat : n = 100 * a + 10 * b + c /\ n < 1000 /\ parse_integer(m.mode) = n
  <2>1. parse_integer(m.mode) = 1000 * 0 + 100 * a + 10 * b + c
    BY <1>1, SMT DEF parse_integer
  <2>2. PICK n : n = 1000 * 0 + 100 * a + 10 * b + c
    OBVIOUS
  <2>3. n \in Nat /\ n < 1000 /\ n = 100 * a + 10 * b + c
    BY <2>2, SMT
  <2> QED
    BY <2>1, <2>2, <2>3, SMT
<1>3. PICK s : s = digits(n)
  OBVIOUS
<1>4. PICK k \in 1..3 : k = NumberOfDigits(n) /\ (k = 3 => n >= 100)
  BY <1>2, NumberIs
<1>5. s = [i \in 1..k |-> (n \div Powers[k - i + 1]) % 10]
  BY <1>3, <1>4 DEF digits
<1>6. Len(s) = k
  <2>1. s \in [1..k -> {s[i] : i \in 1..k}]
    BY <1>5
  <2> QED
    BY <2>1, FunctionIsSeq
<1>7. k = 3
  <2>1. Len(s) >= 3
    BY <1>2, <1>3, Zenon DEF HasPermissions
  <2> QED
    BY <1>6, <2>1
<1>8. Powers[1] = 1 /\ Powers[2] = 10 /\ Powers[3] = 100
  BY SMT DEF Powers
<1>9. s[1] = (n \div 100) % 10 /\ s[2] = (n \div 10) % 10 /\ s[3] = (n \div 1) % 10
  BY <1>5, <1>7, <1>8
<1>10. n \div 100 = a /\ n \div 10 = 10 * a + b /\ n \div 1 = n
  <2>1. n \div 100 = a
    BY <1>2, DivIs, 100 * a <= n, n < 100 * a + 100
  <2>2. n \div 10 = 10 * a + b
    BY <1>2, DivIs, 10 * (10 * a + b) <= n, n < 10 * (10 * a + b) + 10, 10 * a + b \in Nat
  <2>3. n \div 1 = n
    BY DivIs
  <2> QED
    BY <2>1, <2>2, <2>3
<1>11. a % 10 = a /\ (10 * a + b) % 10 = b /\ n % 10 = c
  BY <1>2
<1>12. s[1] = m.mode[2] /\ s[2] = m.mode[3] /\ s[3] = m.mode[4]
  BY <1>1, <1>9, <1>10, <1>11
<1>13. \A i \in 1..3 : s[i] = m.mode[i + 1]
  <2>1. \A i \in 1..3 : i = 1 \/ i = 2 \/ i = 3
    OBVIOUS
  <2> QED
    BY <1>12, <2>1
<1>14. permissions(m) = [i \in 1..3 |-> parse_permission(s[i])]
  BY <1>2, <1>3, Zenon DEF permissions
<1> QED
  BY <1>13, <1>14, Zenon
-----------------------------------------------------------------------------
(***************************************************************************)
(* The date in a log line. As long as no year is taken away that was not   *)
(* there, what is left of the count is the instant without the years and   *)
(* the months taken away.                                                  *)
(***************************************************************************)

Members(a) ==
  \A i \in 1..Len(a) : a[i].mode \in [1..4 -> 0..7] /\ a[i].mtime \in Instants

YearLeft(t) ==
  /\ seconds = [days |-> t.days - YearStart(year), rest |-> t.rest]
  /\ seconds.days >= 0
  /\ year_days = IF year = Epoch THEN 0 ELSE DaysPerYear(year - 1)
  /\ month = 1

MonthLeft(t) ==
  /\ month \in 1..13
  /\ month # 13 =>
       /\ seconds = [days |-> t.days - DayNumber(year, month, 1), rest |-> t.rest]
       /\ seconds.days >= 0

Dates(t) ==
  /\ phase \in {"years", "months", "done"}
  /\ year \in Nat /\ year >= Epoch
  /\ phase = "years" => YearLeft(t)
  /\ phase = "months" => MonthLeft(t)
  /\ phase = "done" => IsDateOf(t, date)

Sound(t) == checked \/ ~Underflows(t)

Dated ==
  /\ Members(archive) /\ checked \in BOOLEAN
  /\ pc \notin {"date", "panic"} => Idle
  /\ pc = "date" => HasPermissions(header)
  /\ pc = "date" /\ Sound(header.mtime) => Dates(header.mtime)

\* A year is taken away that was not there exactly at the instants of Underflows.
LEMMA Underflow ==
  ASSUME NEW t, t.days \in Nat, t.rest \in Nat, year \in Nat, year >= Epoch, YearLeft(t),
         Exceeds(seconds, year_days), seconds.days < DaysPerYear(year)
  PROVE  Underflows(t)
<1>1. PICK e \in Nat \ {0} : e = Epoch
  BY SMT DEF Epoch
<1>2. year \in Nat \ {0} /\ YearStart(year) \in Int
      /\ YearStart(year + 1) = YearStart(year) + DaysPerYear(year)
      /\ DaysPerYear(year) \in {365, 366}
  BY <1>1, YearNext, LeapYears
<1>3. /\ seconds.days = t.days - YearStart(year) /\ seconds.rest = t.rest
      /\ seconds.days >= 0 /\ seconds.days \in Int
  BY <1>2 DEF YearLeft
<1>4. YearStart(year) <= t.days /\ t.days < YearStart(year + 1)
  BY <1>2, <1>3
<1>5. YearOf(t) = year
  BY <1>4, YearOfIs
<1>6. DayOfYear(t) = seconds.days
  BY <1>3, <1>5 DEF DayOfYear
<1>7. CASE year = Epoch
  <2>1. ~(seconds.days = 0 /\ seconds.rest = 0)
    BY <1>3, <1>7 DEF YearLeft, Exceeds
  <2> QED
    BY <1>3, <1>5, <1>6, <1>7, <2>1 DEF Underflows
<1>8. CASE year # Epoch
  <2>1. PICK d \in Int : d = DaysPerYear(year - 1) /\ d \in {365, 366}
    BY <1>2, LeapYears, year - 1 \in Nat
  <2>2. seconds.days > d \/ (seconds.days = d /\ seconds.rest > 0)
    BY <1>8, <2>1 DEF YearLeft, Exceeds
  <2>3. seconds.days = 365 /\ seconds.rest > 0
    BY <1>2, <1>3, <2>1, <2>2
  <2> QED
    BY <1>3, <1>5, <1>6, <2>3 DEF Underflows
<1> QED
  BY <1>7, <1>8

\* The loop over years takes whole years away from the instant.
LEMMA YearsDate ==
  ASSUME NEW t, t.days \in Nat, t.rest \in Nat, checked \in BOOLEAN, Sound(t), Dates(t), years
  PROVE  phase' = "panic" \/ Dates(t)'
<1>1. phase = "years" /\ YearLeft(t) /\ year \in Nat /\ year >= Epoch
  BY DEF years, Dates
<1>2. PICK e \in Nat \ {0} : e = Epoch
  BY SMT DEF Epoch
<1>3. year \in Nat \ {0} /\ YearStart(year) \in Int
      /\ YearStart(year + 1) = YearStart(year) + DaysPerYear(year)
      /\ DaysPerYear(year) \in {365, 366}
  BY <1>1, <1>2, YearNext, LeapYears
<1>4. /\ seconds = [days |-> t.days - YearStart(year), rest |-> t.rest]
      /\ seconds.days = t.days - YearStart(year) /\ seconds.days >= 0 /\ month = 1
  BY <1>1, <1>3 DEF YearLeft
<1>5. CASE ~Exceeds(seconds, year_days)
  <2>1. /\ phase' = "months" /\ seconds' = seconds /\ year' = year /\ month' = month
    BY <1>5 DEF years
  <2>2. DayNumber(year, 1, 1) = YearStart(year)
    BY DEF YearStart
  <2>3. MonthLeft(t)'
    BY <1>4, <2>1, <2>2 DEF MonthLeft
  <2> QED
    BY <1>1, <2>1, <2>3 DEF Dates
<1>6. CASE Exceeds(seconds, year_days) /\ seconds.days < DaysPerYear(year)
  <2>1. Underflows(t)
    BY <1>1, <1>6, Underflow
  <2>2. checked
    BY <2>1 DEF Sound
  <2> QED
    BY <1>6, <2>2 DEF years
<1>7. CASE Exceeds(seconds, year_days) /\ ~(seconds.days < DaysPerYear(year))
  <2>1. /\ seconds' = [seconds EXCEPT !.days = @ - DaysPerYear(year)]
        /\ year' = year + 1 /\ phase' = phase /\ month' = month
        /\ year_days' = DaysPerYear(year)
    BY <1>7 DEF years
  <2>2. seconds' = [days |-> t.days - YearStart(year + 1), rest |-> t.rest]
    <3>1. (t.days - YearStart(year)) - DaysPerYear(year) = t.days - YearStart(year + 1)
      BY <1>3
    <3>2. seconds' = [days |-> (t.days - YearStart(year)) - DaysPerYear(year), rest |-> t.rest]
      BY <1>4, <2>1
    <3> QED
      BY <3>1, <3>2
  <2>3. seconds'.days >= 0
    BY <1>3, <1>4, <1>7, <2>1
  <2>4. year' \in Nat /\ year' >= Epoch /\ year' # Epoch /\ year' - 1 = year
    BY <1>1, <1>2, <2>1
  <2>5. YearLeft(t)'
    BY <1>4, <2>1, <2>2, <2>3, <2>4 DEF YearLeft
  <2> QED
    BY <1>1, <2>1, <2>4, <2>5 DEF Dates
<1> QED
  BY <1>5, <1>6, <1>7

\* The time of day, from its hours, minutes and seconds.
LEMMA ClockRight ==
  ASSUME NEW r \in 0..SecondsPerDay - 1
  PROVE  /\ r \div 3600 \in 0..23 /\ (r % 3600) \div 60 \in 0..59 /\ r % 60 \in 0..59
         /\ ((r \div 3600) * 60 + ((r % 3600) \div 60)) * 60 + (r % 60) = r
<1>1. r \in Nat /\ r < 86400
  BY SMT DEF SecondsPerDay
<1>2. /\ r \div 3600 \in Nat /\ r % 3600 \in 0..3599
      /\ r = 3600 * (r \div 3600) + (r % 3600)
  BY <1>1, SMT
<1>h. PICK h \in Nat : h = r \div 3600
  BY <1>2, SMT
<1>q. PICK q \in Nat : q = r % 3600
  BY <1>2, SMT
<1>p. q \in 0..3599
  BY <1>2, <1>q, SMT
<1>r. r = 3600 * h + q
  BY <1>2, <1>h, <1>q, SMT
<1>3. /\ q \div 60 \in Nat /\ q % 60 \in 0..59
      /\ q = 60 * (q \div 60) + (q % 60)
  BY <1>p, SMT
<1>m. PICK m \in Nat : m = q \div 60
  BY <1>3, SMT
<1>s. PICK s \in 0..59 : s = q % 60
  BY <1>3, SMT
<1>t. q = 60 * m + s
  BY <1>3, <1>m, <1>s, SMT
<1>4. h \in 0..23 /\ m \in 0..59
  BY <1>1, <1>p, <1>r, <1>t, SMT
<1>5. r % 60 = s
  BY <1>1, <1>r, <1>t, SMT
<1>6. (h * 60 + m) * 60 + s = r
  BY <1>r, <1>t, SMT
<1> QED
  BY <1>h, <1>q, <1>m, <1>4, <1>5, <1>6, SMT

\* The loop over months takes whole months away and leaves the day.
LEMMA MonthsDate ==
  ASSUME NEW t, t.days \in Nat, t.rest \in 0..SecondsPerDay - 1, Dates(t), months
  PROVE  phase' = "panic" \/ Dates(t)'
<1>1. phase = "months" /\ MonthLeft(t) /\ year \in Nat /\ year >= Epoch /\ year' = year
  BY DEF months, Dates
<1>2. year \in Nat \ {0}
  BY <1>1, SMT DEF Epoch
<1>3. CASE month > 12
  BY <1>3 DEF months
<1>4. CASE ~(month > 12)
  <2>1. PICK m \in 1..12 : m = month
    BY <1>1, <1>4 DEF MonthLeft
  <2>2. PICK n \in Int : n = DayNumber(year, m, 1)
    BY <1>2, MonthNext
  <2>3. PICK d \in 28..31 : d = days_per_month(year)[m] /\ MonthEnd(year, m) = n + d
    BY <1>2, <2>2, MonthNext
  <2>4. /\ seconds = [days |-> t.days - n, rest |-> t.rest]
        /\ seconds.days = t.days - n /\ seconds.days >= 0
    BY <1>1, <2>1, <2>2 DEF MonthLeft
  <2>5. CASE seconds.days >= d
    <3>1. /\ seconds' = [seconds EXCEPT !.days = @ - d]
          /\ month' = month + 1 /\ phase' = phase
      BY <1>4, <2>1, <2>3, <2>5 DEF months
    <3>2. month' \in 1..13 /\ month' = m + 1
      BY <2>1, <3>1
    <3>3. m # 12 => DayNumber(year, m + 1, 1) = n + d
      BY <2>3 DEF MonthEnd
    <3>4. m + 1 # 13 => m # 12
      OBVIOUS
    <3>5. (t.days - n) - d = t.days - (n + d)
      BY <2>2, <2>3
    <3>6. seconds' = [days |-> (t.days - n) - d, rest |-> t.rest] /\ seconds'.days >= 0
      BY <2>4, <2>5, <3>1
    <3>7. MonthLeft(t)'
      BY <1>1, <3>2, <3>3, <3>4, <3>5, <3>6 DEF MonthLeft
    <3> QED
      BY <1>1, <3>1, <3>7 DEF Dates
  <2>6. CASE ~(seconds.days >= d)
    <3>1. date' = Clock(seconds) /\ phase' = "done"
      BY <1>4, <2>1, <2>3, <2>6 DEF months
    <3>2. PICK r \in 0..SecondsPerDay - 1 : r = t.rest
      OBVIOUS
    <3>3. PICK c : c = Clock(seconds)
      OBVIOUS
    <3>4. /\ c.year = year /\ c.month = m /\ c.day = seconds.days + 1
          /\ c.hour = r \div 3600 /\ c.minute = (r % 3600) \div 60 /\ c.second = r % 60
      BY <2>1, <2>4, <3>2, <3>3 DEF Clock
    <3>5. DayNumber(year, m, seconds.days + 1) = t.days
      <4>1. seconds.days + 1 \in Int
        BY <2>4
      <4>2. PICK z : z = March(IF m <= 2 THEN year - 1 ELSE year) + MarchTo[m]
        OBVIOUS
      <4>3. z \in Int /\ EpochDay \in Int
        <5>1. March(IF m <= 2 THEN year - 1 ELSE year) \in Int
          BY <1>2, MarchType, year - 1 \in Nat
        <5>2. MarchTo[m] \in Int
          <6>1. \/ m = 1 \/ m = 2 \/ m = 3 \/ m = 4 \/ m = 5 \/ m = 6
                \/ m = 7 \/ m = 8 \/ m = 9 \/ m = 10 \/ m = 11 \/ m = 12
            OBVIOUS
          <6> QED
            BY <6>1 DEF MarchTo
        <5>3. EpochDay \in Int
          BY SMT DEF EpochDay
        <5> QED
          BY <4>2, <5>1, <5>2, <5>3
      <4>4. n = z + 1 - EpochDay /\ DayNumber(year, m, seconds.days + 1) = z + (seconds.days + 1) - EpochDay
        BY <1>2, <2>2, <4>1, <4>2, DayNumberIs
      <4> QED
        BY <2>4, <4>1, <4>3, <4>4
    <3>6. t.days < MonthEnd(year, m)
      BY <2>2, <2>3, <2>4, <2>6
    <3>7. IsDateOf(t, c)
      <4>1. c.day >= 1 /\ c.month \in 1..12
        BY <2>4, <3>4
      <4>2. /\ c.hour \in 0..23 /\ c.minute \in 0..59 /\ c.second \in 0..59
            /\ (c.hour * 60 + c.minute) * 60 + c.second = t.rest
        BY <3>2, <3>4, ClockRight
      <4>3. DayNumber(c.year, c.month, c.day) = t.days /\ t.days < MonthEnd(c.year, c.month)
        BY <3>4, <3>5, <3>6
      <4> QED
        BY <4>1, <4>2, <4>3, Zenon DEF IsDateOf
    <3>8. IsDateOf(t, date')
      BY <3>1, <3>3, <3>7
    <3> QED
      BY <1>1, <3>1, <3>8 DEF Dates
  <2> QED
    BY <2>5, <2>6
<1> QED
  BY <1>3, <1>4
\* No date has been asked for.
LEMMA InitDated == Init => Dated
<1> SUFFICES ASSUME Init PROVE Dated
  OBVIOUS
<1>1. Members(archive)
  BY InitrdAssumption DEF Init, Members
<1> QED
  BY <1>1 DEF Init, Dated

\* The two parts of an instant.
LEMMA InstantType ==
  ASSUME NEW t \in Instants
  PROVE  t.days \in Nat /\ t.rest \in 0..SecondsPerDay - 1 /\ t.rest \in Nat /\ t = [days |-> t.days, rest |-> t.rest]
<1>1. t \in [days : 0..WrapDays, rest : 0..SecondsPerDay - 1]
  BY DEF Instants
<1>2. WrapDays \in Nat /\ SecondsPerDay \in Nat
  BY SMT DEF WrapDays, SecondsPerDay
<1> QED
  BY <1>1, <1>2

\* The log line of a member asks for the date of the member's instant.
LEMMA TraceDated ==
  ASSUME Walked, Dated, trace
  PROVE  Dated'
<1>1. /\ pc = "trace" /\ archive' = archive /\ header' = header /\ Idle
      /\ Members(archive) /\ checked \in BOOLEAN
  BY DEF trace, Dated
<1>2. CASE ~HasPermissions(header)
  <2>1. pc' = "panic" /\ checked' = checked
    BY <1>2 DEF trace, tvars
  <2> QED
    BY <1>1, <2>1 DEF Dated
<1>3. CASE HasPermissions(header)
  <2>1. /\ pc' = "date" /\ checked' = checked /\ seconds' = header.mtime /\ phase' = "years"
        /\ year' = year /\ year_days' = year_days /\ month' = month
    BY <1>3 DEF trace, parse_timestamp
  <2>2. year = Epoch /\ year_days = 0 /\ month = 1
    BY <1>1 DEF Idle
  <2>3. header.mtime \in Instants
    <3>1. Len(files) + 1 \in 1..Len(archive) /\ header = archive[Len(files) + 1]
      BY <1>1, WalkedAt DEF Walked
    <3> QED
      BY <1>1, <3>1 DEF Members
  <2>4. PICK t : t = header.mtime
    OBVIOUS
  <2>5. t.days \in Nat /\ t = [days |-> t.days, rest |-> t.rest]
    BY <2>3, <2>4, InstantType
  <2>6. YearStart(Epoch) = 0 /\ t.days - YearStart(Epoch) = t.days
    BY <2>5, FirstYear
  <2>7. YearLeft(t)'
    BY <2>1, <2>2, <2>4, <2>5, <2>6 DEF YearLeft
  <2>8. Epoch \in Nat /\ Epoch >= Epoch
    BY SMT DEF Epoch
  <2>9. Dates(t)'
    BY <2>1, <2>2, <2>7, <2>8 DEF Dates
  <2> QED
    BY <1>1, <1>3, <2>1, <2>4, <2>9 DEF Dated
<1> QED
  BY <1>2, <1>3

\* A turn of a loop of parse_timestamp keeps the invariant of the conversion.
LEMMA ConvertDated ==
  ASSUME Walked, Dated, convert
  PROVE  Dated'
<1>1. /\ pc = "date" /\ archive' = archive /\ header' = header /\ checked' = checked
      /\ Members(archive) /\ checked \in BOOLEAN /\ HasPermissions(header)
      /\ pc' = IF phase' = "panic" THEN "panic" ELSE "date"
  BY DEF convert, Dated, years, months
<1>2. CASE phase' = "panic"
  BY <1>1, <1>2 DEF Dated
<1>3. CASE phase' # "panic"
  <2>1. PICK t : t = header.mtime
    OBVIOUS
  <2>2. t.days \in Nat /\ t.rest \in 0..SecondsPerDay - 1 /\ t.rest \in Nat
    <3>1. Len(files) + 1 \in 1..Len(archive) /\ header = archive[Len(files) + 1]
      BY <1>1, WalkedAt DEF Walked
    <3>2. header.mtime \in Instants
      BY <1>1, <3>1 DEF Members
    <3> QED
      BY <2>1, <3>2, InstantType
  <2>3. ASSUME Sound(t) PROVE Dates(t)'
    <3>1. Dates(t)
      BY <1>1, <2>1, <2>3 DEF Dated
    <3>2. CASE years
      BY <1>1, <1>3, <2>2, <2>3, <3>1, <3>2, YearsDate
    <3>3. CASE months
      BY <1>3, <2>2, <3>1, <3>3, MonthsDate
    <3> QED
      BY <3>2, <3>3 DEF convert
  <2>4. Sound(t)' <=> Sound(t)
    BY <1>1 DEF Sound
  <2> QED
    BY <1>1, <1>3, <2>1, <2>3, <2>4 DEF Dated
<1> QED
  BY <1>2, <1>3

\* No other step disturbs it.
LEMMA NextDated == Walked /\ Dated /\ [Next]_vars => Dated'
<1> SUFFICES ASSUME Walked, Dated, [Next]_vars PROVE Dated'
  OBVIOUS
<1>1. CASE parse_header \/ parse_data \/ eof \/ \E path \in Paths : get_data(path)
  <2>1. /\ pc \notin {"date", "panic"} /\ pc' # "date" /\ archive' = archive /\ tvars' = tvars
    BY <1>1 DEF parse_header, parse_data, eof, get_data
  <2> QED
    BY <2>1 DEF Dated, Idle, tvars
<1>2. CASE push
  <2>1. pc' = "block" /\ archive' = archive /\ checked' = checked /\ Idle'
    BY <1>2 DEF push, Return, Idle
  <2> QED
    BY <2>1 DEF Dated
<1>3. CASE UNCHANGED vars
  BY <1>3 DEF vars, tvars, Dated, Idle, Sound, Dates, YearLeft, MonthLeft
<1> QED
  BY <1>1, <1>2, <1>3, TraceDated, ConvertDated DEF Next, Load

-----------------------------------------------------------------------------
(***************************************************************************)
(* The lines logged.                                                       *)
(***************************************************************************)

\* What ListingRight says of the line logged for a member
Shown(m, line) ==
  /\ m.mode[1] = 0 => line.permissions = [k \in 1..3 |-> parse_permission(m.mode[k + 1])]
  /\ checked \/ ~Underflows(m.mtime) => IsDateOf(m.mtime, line.date)

Listed ==
  /\ shown \in Seq(Range(shown)) /\ Len(shown) = Len(files)
  /\ \A i \in 1..Len(shown) : Shown(archive[i], shown[i])

\* A sequence, with one more element.
LEMMA AppendRange ==
  ASSUME NEW s, s \in Seq(Range(s)), NEW e
  PROVE  /\ Append(s, e) \in Seq(Range(Append(s, e)))
         /\ Len(Append(s, e)) = Len(s) + 1 /\ Append(s, e)[Len(s) + 1] = e
         /\ \A i \in 1..Len(s) : Append(s, e)[i] = s[i]
<1>1. PICK S : S = Range(s) \cup {e}
  OBVIOUS
<1>2. s \in Seq(S) /\ e \in S
  BY <1>1, SeqOver
<1>3. PICK t : t = Append(s, e)
  OBVIOUS
<1>4. /\ t \in Seq(S) /\ Len(t) = Len(s) + 1 /\ t[Len(s) + 1] = e
      /\ \A i \in 1..Len(s) : t[i] = s[i]
  BY <1>2, <1>3
<1>5. \A i \in 1..Len(t) : t[i] \in Range(t)
  BY <1>4 DEF Range
<1>6. t \in Seq(Range(t))
  BY <1>4, <1>5, SeqOver
<1> QED
  BY <1>3, <1>4, <1>6

\* Push shows the line of the member it pushes.
LEMMA PushListed ==
  ASSUME Walked, Dated, Listed, push
  PROVE  Listed'
<1>1. PICK n \in Nat : n = Len(files) /\ n = Len(shown)
  BY WalkedAt DEF Listed
<1>2. /\ pc = "date" /\ archive' = archive /\ checked' = checked
      /\ n + 1 \in 1..Len(archive) /\ header = archive[n + 1] /\ phase = "done"
      /\ shown' = Append(shown, [permissions |-> permissions(header), date |-> date])
      /\ files' = Append(files, [header |-> header, data |-> data])
      /\ Members(archive)
  BY <1>1, WalkedAt DEF push, Return, Walked, Dated
<1>3. PICK e : e = [permissions |-> permissions(header), date |-> date]
  OBVIOUS
<1>4. /\ shown' \in Seq(Range(shown')) /\ Len(shown') = n + 1 /\ shown'[n + 1] = e
      /\ \A i \in 1..n : shown'[i] = shown[i]
  BY <1>1, <1>2, <1>3, AppendRange DEF Listed
<1>5. Len(files') = n + 1
  <2>1. files' = Append(Kept(archive, n), File(archive[n + 1]))
    BY <1>1, <1>2, Zenon DEF Walked, File
  <2> QED
    BY <2>1, KeptNext
<1>6. Shown(header, e)
  <2>1. header.mode[1] = 0 => permissions(header) = [k \in 1..3 |-> parse_permission(header.mode[k + 1])]
    BY <1>2, PermissionsRight DEF Members, Dated
  <2>2. Sound(header.mtime) => IsDateOf(header.mtime, date)
    BY <1>2 DEF Dated, Dates
  <2>3. e.permissions = permissions(header) /\ e.date = date
    BY <1>3
  <2> QED
    BY <2>1, <2>2, <2>3 DEF Shown, Sound
<1>7. ASSUME NEW i \in 1..n + 1 PROVE Shown(archive[i], shown'[i])
  <2>1. i \in 1..n \/ i = n + 1
    OBVIOUS
  <2>2. \A j \in 1..n : Shown(archive[j], shown[j])
    BY <1>1 DEF Listed
  <2> QED
    BY <1>2, <1>4, <1>6, <2>1, <2>2, Zenon
<1>8. ASSUME NEW i \in 1..Len(shown') PROVE Shown(archive[i], shown[i])'
  <2>1. i \in 1..n + 1
    BY <1>4
  <2>2. Shown(archive[i], shown'[i])
    BY <1>7, <2>1
  <2> QED
    BY <1>2, <2>2, Zenon DEF Shown
<1> QED
  BY <1>2, <1>4, <1>5, <1>8, Zenon DEF Listed

\* No other step shows a line.
LEMMA NextListed == Walked /\ Dated /\ Listed /\ [Next]_vars => Listed'
<1> SUFFICES ASSUME Walked, Dated, Listed, [Next]_vars PROVE Listed'
  OBVIOUS
<1>1. CASE parse_header \/ parse_data \/ eof \/ trace \/ convert \/ \E path \in Paths : get_data(path)
  <2>1. archive' = archive /\ shown' = shown /\ files' = files /\ checked' = checked
    BY <1>1 DEF parse_header, parse_data, eof, trace, convert, get_data, tvars,
                parse_timestamp, years, months
  <2> QED
    BY <2>1 DEF Listed, Shown
<1>2. CASE UNCHANGED vars
  BY <1>2 DEF vars, tvars, Listed, Shown
<1> QED
  BY <1>1, <1>2, PushListed DEF Next, Load

\* Every line that is logged has the permissions of its member, if it has no
\* special bits, and the date of its instant in the Gregorian calendar, unless
\* File::parse_timestamp underflowed in a build without overflow checks: for
\* every 32-bit instant and every mode.
THEOREM Listing == Spec => []ListingRight
<1>1. Init => Listed
  BY DEF Init, Listed
<1>2. Listed => ListingRight
  BY DEF Listed, Shown, ListingRight
<1> QED
  BY <1>1, <1>2, InitWalked, NextWalked, InitDated, NextDated, NextListed, PTL DEF Spec

-----------------------------------------------------------------------------
(***************************************************************************)
(* Where parse_timestamp stops.                                            *)
(***************************************************************************)

\* What the loop over years compares with when it has come to year y, and
\* whether it then takes that year away
Most(y) == IF y = Epoch THEN 0 ELSE DaysPerYear(y - 1)
Turn(y, t) == Exceeds([days |-> t.days - YearStart(y), rest |-> t.rest], Most(y))

\* Turn, written out.
LEMMA TurnIs ==
  ASSUME NEW t, NEW y
  PROVE  Turn(y, t) <=> \/ t.days - YearStart(y) > Most(y)
                        \/ t.days - YearStart(y) = Most(y) /\ t.rest > 0
BY DEF Turn, Exceeds

\* The year after a leap year is none.
LEMMA LeapAlone == ASSUME NEW y \in Nat, DaysPerYear(y) = 366 PROVE DaysPerYear(y + 1) = 365
<1>1. y % 4 = 0
  BY SMT DEF DaysPerYear, is_leap_year
<1>2. (y + 1) % 4 # 0 /\ (y + 1) % 400 # 0
  BY <1>1, SMT
<1> QED
  BY <1>2 DEF DaysPerYear, is_leap_year

\* What a year is to the calendar and to the code
LEMMA YearFacts ==
  ASSUME NEW y \in Nat, y >= Epoch
  PROVE  /\ y \in Nat \ {0} /\ y + 1 \in Nat
         /\ YearStart(y) \in Int /\ YearStart(y + 1) = YearStart(y) + DaysPerYear(y)
         /\ DaysPerYear(y) \in {365, 366}
         /\ Leap(y) <=> DaysPerYear(y) = 366
<1>1. y \in Nat \ {0} /\ y + 1 \in Nat
  BY SMT DEF Epoch
<1>2. YearStart(y) \in Int /\ YearStart(y + 1) = YearStart(y) + DaysPerYear(y) /\ DaysPerYear(y) \in {365, 366}
  BY <1>1, YearNext, LeapYears
<1>3. Leap(y) <=> DaysPerYear(y) = 366
  BY <1>2 DEF Leap
<1> QED
  BY <1>1, <1>2, <1>3

\* A year whose end the loop did not see: the instant is one of Overruns.
LEMMA StopsEarly ==
  ASSUME NEW t, t.days \in Nat, t.rest \in Nat, NEW y \in Nat, y >= Epoch,
         ~Turn(y, t), YearStart(y + 1) <= t.days
  PROVE  Overruns(t)
<1>1. PICK e \in Nat : e = Epoch
  BY SMT DEF Epoch
<1>2. PICK s \in Int, d \in {365, 366} :
        /\ s = YearStart(y) /\ d = DaysPerYear(y) /\ YearStart(y + 1) = s + d
        /\ y + 1 \in Nat /\ (Leap(y) <=> d = 366)
  BY YearFacts
<1>3. PICK td \in Nat, r \in Nat : td = t.days /\ r = t.rest
  OBVIOUS
<1>4. td >= s + d
  BY <1>2, <1>3
<1>5. ~(td - s > Most(y)) /\ ~(td - s = Most(y) /\ r > 0)
  BY <1>2, <1>3, TurnIs
<1>6. y # Epoch
  <2> SUFFICES ASSUME y = Epoch PROVE FALSE
    OBVIOUS
  <2>1. Most(y) = 0
    BY DEF Most
  <2> QED
    BY <1>4, <1>5, <2>1
<1>7. y - 1 \in Nat /\ y - 1 >= Epoch /\ (y - 1) + 1 = y
  BY <1>1, <1>6
<1>8. PICK p \in {365, 366} : p = DaysPerYear(y - 1) /\ (Leap(y - 1) <=> p = 366)
  BY <1>7, YearFacts
<1>9. Most(y) = p
  BY <1>6, <1>8 DEF Most
<1>10. p = 366 => d = 365
  BY <1>2, <1>7, <1>8, LeapAlone
<1>11. td - s <= p /\ (td - s = p => r = 0)
  BY <1>5, <1>9
<1>12. PICK k \in Int : k = td - (s + d)
  OBVIOUS
<1>13. \/ k = 0 /\ r = 0 /\ d = 365
       \/ p = 366 /\ (k = 0 \/ (k = 1 /\ r = 0))
  BY <1>4, <1>10, <1>11, <1>12
<1>14. YearOf(t) = y + 1
  <2>1. y + 1 >= Epoch
    BY <1>1
  <2>2. PICK f \in {365, 366} : YearStart((y + 1) + 1) = (s + d) + f
    BY <1>2, <2>1, YearFacts
  <2>3. td < (s + d) + f
    BY <1>12, <1>13
  <2> QED
    BY <1>2, <1>3, <1>4, <2>1, <2>2, <2>3, YearOfIs
<1>15. DayOfYear(t) = k
  BY <1>2, <1>3, <1>12, <1>14 DEF DayOfYear
<1>16. y + 1 >= Epoch + 2 /\ (y + 1) - 1 = y /\ (y + 1) - 2 = y - 1
  BY <1>1, <1>7
<1> QED
  BY <1>2, <1>3, <1>8, <1>13, <1>14, <1>15, <1>16 DEF Overruns

\* A year that the loop stopped in, and not too early: the instant is none of
\* those that go wrong.
LEMMA StopsRight ==
  ASSUME NEW t, t.days \in Nat, t.rest \in Nat, NEW y \in Nat, y >= Epoch,
         ~Turn(y, t), y > Epoch => Turn(y - 1, t),
         YearStart(y) <= t.days, t.days < YearStart(y + 1)
  PROVE  ~Overruns(t) /\ ~Underflows(t)
<1>1. PICK e \in Nat : e = Epoch
  BY SMT DEF Epoch
<1>2. PICK s \in Int, d \in {365, 366} :
        /\ s = YearStart(y) /\ d = DaysPerYear(y) /\ YearStart(y + 1) = s + d
  BY YearFacts
<1>3. PICK td \in Nat, r \in Nat : td = t.days /\ r = t.rest
  OBVIOUS
<1>4. YearOf(t) = y
  BY YearOfIs
<1>5. PICK k \in Nat : k = td - s /\ k < d
  BY <1>2, <1>3
<1>6. DayOfYear(t) = k
  BY <1>2, <1>3, <1>4, <1>5 DEF DayOfYear
<1>7. ~(k > Most(y)) /\ ~(k = Most(y) /\ r > 0)
  BY <1>2, <1>3, <1>5, TurnIs
<1>8. CASE y = Epoch
  <2>1. k = 0 /\ r = 0
    <3>1. Most(y) = 0
      BY <1>8 DEF Most
    <3> QED
      BY <1>7, <3>1
  <2>2. ~Underflows(t)
    BY <1>3, <1>4, <1>6, <2>1 DEF Underflows
  <2>3. ~(y >= Epoch + 2)
    BY <1>1, <1>8
  <2> QED
    BY <1>4, <2>2, <2>3 DEF Overruns
<1>9. CASE y # Epoch
  <2>1. y - 1 \in Nat /\ y - 1 >= Epoch /\ (y - 1) + 1 = y /\ y > Epoch
    BY <1>1, <1>9
  <2>2. PICK p \in {365, 366}, q \in Int :
          /\ p = DaysPerYear(y - 1) /\ (Leap(y - 1) <=> p = 366)
          /\ q = YearStart(y - 1) /\ s = q + p
    BY <1>2, <2>1, YearFacts
  <2>3. Most(y) = p
    BY <1>9, <2>2 DEF Most
  <2>4. p = 366 => d = 365
    BY <1>2, <2>1, <2>2, LeapAlone
  <2>5. k <= p /\ (k = p => r = 0)
    BY <1>7, <2>3
  <2>6. ~Underflows(t)
    <3>1. ~(k = 365 /\ r > 0)
      BY <1>5, <2>4, <2>5
    <3> QED
      BY <1>3, <1>4, <1>6, <1>9, <3>1 DEF Underflows
  <2>7. ASSUME y >= Epoch + 2
        PROVE  ~(\/ k = 0 /\ r = 0 /\ ~Leap(y - 1)
                 \/ Leap(y - 2) /\ (k = 0 \/ (k = 1 /\ r = 0)))
    <3>1. y - 2 \in Nat /\ y - 2 >= Epoch /\ (y - 2) + 1 = y - 1 /\ (y - 1) - 1 = y - 2 /\ y - 1 # Epoch
      BY <1>1, <2>7
    <3>2. PICK o \in {365, 366} : o = DaysPerYear(y - 2) /\ (Leap(y - 2) <=> o = 366)
      BY <3>1, YearFacts
    <3>3. o = 366 => p = 365
      BY <2>2, <3>1, <3>2, LeapAlone
    <3>4. Most(y - 1) = o
      BY <3>1, <3>2 DEF Most
    <3>5. td - q > o \/ (td - q = o /\ r > 0)
      BY <1>3, <2>1, <2>2, <3>4, TurnIs
    <3>6. k + p > o \/ (k + p = o /\ r > 0)
      BY <1>5, <2>2, <3>5
    <3> QED
      BY <2>2, <3>2, <3>3, <3>6
  <2>8. ~Overruns(t)
    BY <1>3, <1>4, <1>6, <2>7 DEF Overruns
  <2> QED
    BY <2>6, <2>8
<1> QED
  BY <1>8, <1>9

\* No instant is of both kinds.
LEMMA NotBoth == ASSUME NEW t, Underflows(t) PROVE ~Overruns(t)
<1>1. PICK e \in Nat : e = Epoch
  BY SMT DEF Epoch
<1>2. ~(Epoch >= Epoch + 2)
  BY <1>1
<1> QED
  BY <1>2 DEF Underflows, Overruns

\* Every day is in a year.
LEMMA YearExists ==
  ASSUME NEW d \in Nat
  PROVE  \E y \in Nat : y >= Epoch /\ YearStart(y) <= d /\ d < YearStart(y + 1)
<1> DEFINE N == {n \in Nat : \E y \in Nat : y >= Epoch /\ YearStart(y) <= n /\ n < YearStart(y + 1)}
<1>1. 0 \in N
  <2>1. Epoch \in Nat /\ Epoch >= Epoch
    BY SMT DEF Epoch
  <2>2. PICK k \in {365, 366} : YearStart(Epoch + 1) = 0 + k
    BY <2>1, FirstYear, YearFacts
  <2>3. YearStart(Epoch) <= 0 /\ 0 < YearStart(Epoch + 1)
    BY <2>2, FirstYear
  <2> QED
    BY <2>1, <2>3
<1>2. ASSUME NEW n \in Nat, n \in N PROVE n + 1 \in N
  <2>1. PICK y \in Nat : y >= Epoch /\ YearStart(y) <= n /\ n < YearStart(y + 1)
    BY <1>2
  <2>2. PICK s \in Int, k \in {365, 366} : s = YearStart(y) /\ YearStart(y + 1) = s + k /\ y + 1 \in Nat
    BY <2>1, YearFacts
  <2>3. CASE n + 1 < s + k
    <3>1. YearStart(y) <= n + 1 /\ n + 1 < YearStart(y + 1)
      BY <2>1, <2>2, <2>3
    <3> QED
      BY <2>1, <3>1
  <2>4. CASE ~(n + 1 < s + k)
    <3>1. n + 1 = s + k
      BY <2>1, <2>2, <2>4
    <3>2. y + 1 >= Epoch
      BY <2>1, SMT DEF Epoch
    <3>3. PICK j \in {365, 366} : YearStart((y + 1) + 1) = (s + k) + j
      BY <2>2, <3>2, YearFacts
    <3>4. YearStart(y + 1) <= n + 1 /\ n + 1 < YearStart((y + 1) + 1)
      BY <2>2, <3>1, <3>3
    <3> QED
      BY <2>2, <3>2, <3>4
  <2> QED
    BY <2>3, <2>4
<1> HIDE DEF N
<1>3. \A n \in Nat : n \in N
  BY <1>1, <1>2, SetInduction
<1> QED
  BY <1>3 DEF N

\* A leap year and the one 136 years after it
LEMMA CenturyOn ==
  ASSUME NEW y \in Nat, y % 4 = 0
  PROVE  March(y + 136) - March(y) \in 49672..49675
<1>1. PICK a \in Nat, b \in Nat, c \in Nat, k \in Nat, m \in Nat, n \in Nat :
        /\ a = y \div 4 /\ b = y \div 100 /\ c = y \div 400
        /\ k = (y + 136) \div 4 /\ m = (y + 136) \div 100 /\ n = (y + 136) \div 400
  BY SMT
<1>2. k = a + 34
  BY <1>1, SMT
<1>3. m - b \in 1..2
  BY <1>1, SMT
<1>4. n - c \in 0..1
  BY <1>1, SMT
<1>5. March(y) = 365 * y + a - b + c /\ March(y + 136) = 365 * (y + 136) + k - m + n
  BY <1>1 DEF March
<1> QED
  BY <1>2, <1>3, <1>4, <1>5

\* The first years that 32 bits do not reach
LEMMA LaterYears == YearStart(2106) = 49673 /\ YearStart(2107) = 50038 /\ YearStart(2108) = 50403
<1>1. /\ DayNumber(2106, 1, 1) = March(2105) + 306 + 1 - EpochDay
      /\ DayNumber(2107, 1, 1) = March(2106) + 306 + 1 - EpochDay
      /\ DayNumber(2108, 1, 1) = March(2107) + 306 + 1 - EpochDay
  <2>1. MarchTo[1] = 306
    BY DEF MarchTo
  <2>2. /\ 2106 \in Nat \ {0} /\ 2107 \in Nat \ {0} /\ 2108 \in Nat \ {0} /\ 1 \in 1..12 /\ 1 \in Int
        /\ 2106 - 1 = 2105 /\ 2107 - 1 = 2106 /\ 2108 - 1 = 2107 /\ 1 <= 2
    OBVIOUS
  <2> QED
    BY <2>1, <2>2, DayNumberIs
<1>2. March(2105) = 768835 /\ March(2106) = 769200 /\ March(2107) = 769565
  BY SMT DEF March
<1> QED
  BY <1>1, <1>2, SMT DEF YearStart, EpochDay

\* An instant that underflows is, 2^32 seconds later, on a day that does not.
LEMMA LaterSane ==
  ASSUME NEW t \in Instants, NEW u, u = Later(t)
  PROVE  /\ u.days \in Nat /\ u.rest \in Nat /\ u.rest \in 0..SecondsPerDay - 1
         /\ u.days >= t.days + 49710
         /\ Underflows(t) => ~Underflows(u)
<1>1. PICK td \in Nat, r \in Nat : td = t.days /\ r = t.rest /\ r < 86400
  <2>1. t.days \in Nat /\ t.rest \in 0..SecondsPerDay - 1
    BY InstantType
  <2>2. SecondsPerDay - 1 = 86399
    BY SMT DEF SecondsPerDay
  <2>3. t.rest \in Nat /\ t.rest < 86400
    BY <2>1, <2>2
  <2> QED
    BY <2>1, <2>3
<1>2. PICK c \in Nat, r2 \in Nat :
        c = (r + 23296) \div 86400 /\ r2 = (r + 23296) % 86400 /\ c <= 1 /\ r2 < 86400
  <2>1. ASSUME NEW n \in Nat, n < 172800
        PROVE  /\ n \div 86400 \in Nat /\ n \div 86400 <= 1
               /\ n % 86400 \in Nat /\ n % 86400 < 86400
    BY <2>1, SMT
  <2>2. r + 23296 \in Nat /\ r + 23296 < 172800
    BY <1>1, SMT
  <2>3. /\ (r + 23296) \div 86400 \in Nat /\ (r + 23296) \div 86400 <= 1
        /\ (r + 23296) % 86400 \in Nat /\ (r + 23296) % 86400 < 86400
    BY <2>1, <2>2, SMT
  <2> QED
    BY <2>3, SMT
<1>3. td + 49710 + c \in Nat
  BY <1>2, SMT
<1>4. u = [days |-> td + 49710 + c, rest |-> r2]
  BY <1>1, <1>2, SMT DEF Later, WrapDays, WrapRest, SecondsPerDay
<1>5. u.days = td + 49710 + c /\ u.rest = r2
  BY <1>4, SMT
<1>6. SecondsPerDay - 1 = 86399
  BY SMT DEF SecondsPerDay
<1>7. /\ u.days \in Nat /\ u.rest \in Nat /\ u.rest \in 0..SecondsPerDay - 1
      /\ u.days >= t.days + 49710
  <2>1. u.rest \in Nat /\ u.rest < 86400 /\ u.days \in Nat /\ u.days >= td + 49710
    BY <1>2, <1>3, <1>5, SMT
  <2> QED
    BY <1>1, <1>6, <2>1, SMT
<1>8. ASSUME Underflows(t) PROVE ~Underflows(u)
  <2>1. PICK y \in Nat : y >= Epoch /\ YearStart(y) <= td /\ td < YearStart(y + 1)
    BY YearExists, SMT
  <2>2. YearOf(t) = y
    BY <1>1, <2>1, YearOfIs, SMT
  <2>3. PICK s \in Int, d \in {365, 366} :
          s = YearStart(y) /\ YearStart(y + 1) = s + d /\ d = DaysPerYear(y) /\ y \in Nat \ {0} /\ y + 1 \in Nat
    BY <2>1, YearFacts, SMT
  <2>4. DayOfYear(t) = td - s
    BY <1>1, <2>2, <2>3, SMT DEF DayOfYear
  <2>5. y = Epoch \/ td - s = 365
    BY <1>8, <2>2, <2>4, SMT DEF Underflows
  <2>6. ASSUME NEW z \in Nat, z > Epoch, YearStart(z) <= u.days, u.days < YearStart(z) + 365
        PROVE  ~Underflows(u)
    <3>1. z >= Epoch
      BY <2>6, SMT DEF Epoch
    <3>2. PICK sz \in Int, dz \in {365, 366} : sz = YearStart(z) /\ YearStart(z + 1) = sz + dz
      BY <3>1, YearFacts, SMT
    <3>3. u.days < YearStart(z + 1)
      BY <1>7, <2>6, <3>2, SMT
    <3>4. YearOf(u) = z
      BY <1>7, <2>6, <3>1, <3>3, YearOfIs, SMT
    <3>5. DayOfYear(u) # 365
      BY <1>7, <2>6, <3>2, <3>4, SMT DEF DayOfYear
    <3>6. z # Epoch
      BY <2>6, SMT DEF Epoch
    <3> QED
      BY <3>4, <3>5, <3>6, SMT DEF Underflows
  <2>7. CASE y = Epoch
    <3>1. s = 0 /\ td < 366
      BY <2>1, <2>3, <2>7, FirstYear, SMT
    <3>2. d = 365
      BY <2>3, <2>7, SMT DEF Epoch, DaysPerYear, is_leap_year
    <3>3. td < 365
      BY <2>1, <2>3, <3>1, <3>2, SMT
    <3>4. 2106 > Epoch /\ 2107 > Epoch
      BY SMT DEF Epoch
    <3>5. CASE u.days < 50038
      <4>1. YearStart(2106) <= u.days /\ u.days < YearStart(2106) + 365
        BY <1>2, <1>5, <3>5, LaterYears, SMT
      <4> QED
        BY <2>6, <3>4, <4>1, SMT
    <3>6. CASE ~(u.days < 50038)
      <4>1. YearStart(2107) <= u.days /\ u.days < YearStart(2107) + 365
        BY <1>2, <1>5, <1>7, <3>3, <3>6, LaterYears, SMT
      <4> QED
        BY <2>6, <3>4, <4>1, SMT
    <3> QED
      BY <3>5, <3>6, SMT
  <2>8. CASE td - s = 365
    <3>1. d = 366
      BY <2>1, <2>3, <2>8, SMT
    <3>2. y % 4 = 0
      BY <2>3, <3>1, SMT DEF DaysPerYear, is_leap_year
    <3>3. PICK a \in Int, b \in Int, m \in Int :
            a = March(y) /\ b = March(y + 136) /\ m = March(y - 1)
      BY <2>3, MarchType, y - 1 \in Nat, y + 136 \in Nat, SMT
    <3>4. b - a \in 49672..49675
      BY <3>2, <3>3, CenturyOn, SMT
    <3>5. a = m + 366
      <4>1. y - 1 \in Nat /\ (y - 1) + 1 = y
        BY <2>3, SMT
      <4>2. March((y - 1) + 1) = March(y - 1) + DaysPerYear((y - 1) + 1)
        BY <4>1, MarchNext
      <4>3. March(y) = March(y - 1) + DaysPerYear(y)
        BY <4>1, <4>2, Zenon
      <4> QED
        BY <2>3, <3>1, <3>3, <4>3, Zenon
    <3>6. /\ DayNumber(y, 1, 1) = m + 306 + 1 - EpochDay
          /\ DayNumber(y + 137, 1, 1) = b + 306 + 1 - EpochDay
      <4>1. MarchTo[1] = 306
        BY SMT DEF MarchTo
      <4>2. y + 137 \in Nat \ {0} /\ 1 \in 1..12 /\ 1 \in Int /\ (y + 137) - 1 = y + 136 /\ 1 <= 2
        BY <2>3, SMT
      <4> QED
        BY <2>3, <3>3, <4>1, <4>2, DayNumberIs, SMT
    <3>7. EpochDay \in Int
      BY SMT DEF EpochDay
    <3>8. YearStart(y + 137) - s = b - m
      BY <2>3, <3>3, <3>6, <3>7, SMT DEF YearStart
    <3>9. PICK sz \in Int : sz = YearStart(y + 137) /\ sz - s = b - m
      <4>1. YearStart(y + 137) \in Int
        BY <3>3, <3>6, <3>7, SMT DEF YearStart
      <4> QED
        BY <3>8, <4>1, SMT
    <3>10. u.days = s + 365 + 49710 + c
      BY <1>2, <1>5, <2>8, <2>3, SMT
    <3>11. sz <= u.days /\ u.days < sz + 365
      BY <1>2, <3>4, <3>5, <3>9, <3>10, SMT
    <3>12. y + 137 \in Nat /\ y + 137 > Epoch
      BY <2>1, SMT DEF Epoch
    <3> QED
      BY <2>6, <3>9, <3>11, <3>12, SMT
  <2> QED
    BY <2>5, <2>7, <2>8, SMT
<1> QED
  BY <1>7, <1>8, SMT

\* What is left of the count belongs to instant t, and the loop over years took
\* away every year it passed because it had to: it stopped in the last one.
Halts(t) ==
  /\ phase \in {"years", "months", "done"}
  /\ year \in Nat /\ year >= Epoch
  /\ year > Epoch => Turn(year - 1, t)
  /\ phase = "years" => YearLeft(t)
  /\ phase \in {"months", "done"} => ~Turn(year, t) /\ YearStart(year) <= t.days
  /\ phase = "months" => MonthLeft(t) /\ (month = 13 => YearStart(year + 1) <= t.days)
  /\ phase = "done" => t.days < YearStart(year + 1)

\* The loop's comparison is Turn.
LEMMA TurnLeft ==
  ASSUME NEW t, YearLeft(t)
  PROVE  Exceeds(seconds, year_days) <=> Turn(year, t)
<1>1. seconds = [days |-> t.days - YearStart(year), rest |-> t.rest] /\ year_days = Most(year)
  BY DEF YearLeft, Most
<1> QED
  BY <1>1 DEF Turn

\* A turn of the loop over years that takes a year away that is there, or none.
LEMMA YearsHalts ==
  ASSUME NEW t, t.days \in Nat, t.rest \in Nat, Halts(t), years,
         Exceeds(seconds, year_days) => ~(seconds.days < DaysPerYear(year))
  PROVE  Halts(t)'
<1>1. phase = "years" /\ YearLeft(t) /\ year \in Nat /\ year >= Epoch /\ (year > Epoch => Turn(year - 1, t))
  BY DEF years, Halts
<1>2. PICK e \in Nat \ {0} : e = Epoch
  BY SMT DEF Epoch
<1>3. PICK s \in Int, d \in {365, 366} : s = YearStart(year) /\ d = DaysPerYear(year) /\ YearStart(year + 1) = s + d
  BY <1>1, YearFacts
<1>4. PICK td \in Nat, r \in Nat : td = t.days /\ r = t.rest
  OBVIOUS
<1>5. seconds = [days |-> td - s, rest |-> r] /\ seconds.days = td - s /\ td - s >= 0 /\ month = 1
  BY <1>1, <1>3, <1>4 DEF YearLeft
<1>6. CASE ~Exceeds(seconds, year_days)
  <2>1. phase' = "months" /\ seconds' = seconds /\ year' = year /\ month' = month
    BY <1>6, <1>1 DEF years
  <2>2. DayNumber(year, 1, 1) = YearStart(year)
    BY DEF YearStart
  <2>3. MonthLeft(t)' /\ month' # 13
    BY <1>3, <1>4, <1>5, <2>1, <2>2 DEF MonthLeft
  <2>4. ~Turn(year, t)
    BY <1>1, <1>6, TurnLeft
  <2>5. YearStart(year) <= t.days
    BY <1>3, <1>4, <1>5
  <2> QED
    BY <1>1, <2>1, <2>3, <2>4, <2>5 DEF Halts
<1>7. CASE Exceeds(seconds, year_days)
  <2>1. /\ seconds' = [seconds EXCEPT !.days = @ - d]
        /\ year' = year + 1 /\ phase' = "years" /\ month' = month /\ year_days' = d
    BY <1>1, <1>3, <1>7 DEF years
  <2>2. seconds' = [days |-> td - (s + d), rest |-> r] /\ td - (s + d) >= 0
    <3>1. (td - s) - d = td - (s + d) /\ (td - s) - d >= 0
      BY <1>3, <1>4, <1>5, <1>7
    <3>2. seconds' = [days |-> (td - s) - d, rest |-> r]
      BY <1>5, <2>1
    <3> QED
      BY <3>1, <3>2
  <2>3. year' \in Nat /\ year' >= Epoch /\ year' # Epoch /\ year' - 1 = year
    BY <1>1, <1>2, <2>1
  <2>4. YearLeft(t)'
    <3>1. seconds'.days >= 0
      BY <2>2
    <3>2. seconds' = [days |-> t.days - YearStart(year'), rest |-> t.rest]
      BY <1>3, <1>4, <2>1, <2>2
    <3>3. year_days' = DaysPerYear(year' - 1)
      BY <1>3, <2>1, <2>3
    <3> QED
      BY <1>5, <2>1, <2>3, <3>1, <3>2, <3>3 DEF YearLeft
  <2>5. Turn(year' - 1, t)
    BY <1>1, <1>7, <2>3, TurnLeft
  <2> QED
    BY <2>1, <2>3, <2>4, <2>5 DEF Halts
<1> QED
  BY <1>6, <1>7

\* A turn of the loop over years that takes a year away that is not there: what
\* is left belongs to the instant 2^32 seconds later.
LEMMA YearsWrap ==
  ASSUME NEW t \in Instants, Halts(t), years, ~checked,
         Exceeds(seconds, year_days), seconds.days < DaysPerYear(year), NEW u, u = Later(t)
  PROVE  Halts(u)'
<1>1. phase = "years" /\ YearLeft(t) /\ year \in Nat /\ year >= Epoch
  BY DEF years, Halts
<1>2. PICK e \in Nat \ {0} : e = Epoch
  BY SMT DEF Epoch
<1>3. PICK s \in Int, d \in {365, 366} : s = YearStart(year) /\ d = DaysPerYear(year) /\ YearStart(year + 1) = s + d
  BY <1>1, YearFacts
<1>4. PICK td \in Nat, r \in Nat : td = t.days /\ r = t.rest
  BY InstantType
<1>5. seconds = [days |-> td - s, rest |-> r] /\ seconds.days = td - s /\ seconds.rest = r /\ td - s >= 0 /\ month = 1
  BY <1>1, <1>3, <1>4 DEF YearLeft
<1>6. PICK w \in Nat : w = WrapDays /\ w > 1000
  BY SMT DEF WrapDays
<1>7. PICK q \in Nat, z \in Nat : q = (r + WrapRest) \div SecondsPerDay /\ z = (r + WrapRest) % SecondsPerDay
  <2>1. ASSUME NEW n \in Nat PROVE n \div SecondsPerDay \in Nat /\ n % SecondsPerDay \in Nat
    BY SMT DEF SecondsPerDay
  <2>2. PICK n \in Nat : n = r + WrapRest
    BY SMT DEF WrapRest
  <2> QED
    BY <2>1, <2>2
<1>8. u = [days |-> td + w + q, rest |-> z]
  BY <1>4, <1>6, <1>7 DEF Later
<1>9. Later(seconds) = [days |-> (td - s) + w + q, rest |-> z]
  BY <1>5, <1>6, <1>7 DEF Later
<1>10. u.days = td + w + q /\ u.rest = z
  BY <1>8
<1>11. /\ seconds' = Wrapped(seconds, d)
       /\ year' = year + 1 /\ phase' = "years" /\ month' = month /\ year_days' = d
  BY <1>1, <1>3 DEF years
<1>12. seconds' = [days |-> (td + w + q) - (s + d), rest |-> z] /\ (td + w + q) - (s + d) >= 0
  <2>1. ((td - s) + w + q) - d = (td + w + q) - (s + d) /\ (td + w + q) - (s + d) >= 0
    BY <1>3, <1>5, <1>6
  <2>2. seconds' = [days |-> ((td - s) + w + q) - d, rest |-> z]
    BY <1>9, <1>11 DEF Wrapped
  <2> QED
    BY <2>1, <2>2
<1>13. year' \in Nat /\ year' >= Epoch /\ year' # Epoch /\ year' - 1 = year
  BY <1>1, <1>2, <1>11
<1>14. YearLeft(u)'
  <2>1. seconds'.days >= 0
    BY <1>12
  <2>2. seconds' = [days |-> u.days - YearStart(year'), rest |-> u.rest]
    BY <1>3, <1>10, <1>11, <1>12
  <2>3. year_days' = DaysPerYear(year' - 1)
    BY <1>3, <1>11, <1>13
  <2> QED
    BY <1>5, <1>11, <1>13, <2>1, <2>2, <2>3 DEF YearLeft
<1>15. Turn(year, u)
  <2>1. Most(year) \in {0, 365, 366}
    <3>1. year = Epoch \/ year - 1 \in Nat
      BY <1>1, <1>2
    <3> QED
      BY <3>1, LeapYears DEF Most
  <2>2. u.days - YearStart(year) > Most(year)
    BY <1>3, <1>5, <1>6, <1>10, <2>1
  <2> QED
    BY <2>2, TurnIs
<1>16. Turn(year' - 1, u)
  BY <1>13, <1>15
<1> QED
  BY <1>11, <1>13, <1>14, <1>16 DEF Halts

\* No month ends after its year.
LEMMA MonthInYear ==
  ASSUME NEW y \in Nat \ {0}, NEW m \in 1..12
  PROVE  MonthEnd(y, m) <= YearStart(y + 1)
<1>1. PICK x \in Nat : x + 1 = y /\ y - 1 = x
  BY y - 1 \in Nat
<1>2. PICK a \in Int, b \in Int, d \in {365, 366} : a = March(x) /\ b = March(y) /\ b = a + d
  BY <1>1, MarchNext, MarchType, LeapYears
<1>3. PICK e \in Int : e = EpochDay
  BY SMT DEF EpochDay
<1>4. YearStart(y + 1) = b + 306 + 1 - e
  <2>1. y + 1 \in Nat \ {0} /\ (y + 1) - 1 = y /\ MarchTo[1] = 306
    BY DEF MarchTo
  <2>2. DayNumber(y + 1, 1, 1) = March(IF 1 <= 2 THEN (y + 1) - 1 ELSE y + 1) + MarchTo[1] + 1 - EpochDay
    BY <2>1, DayNumberIs
  <2>3. DayNumber(y + 1, 1, 1) = March(y) + 306 + 1 - EpochDay
    BY <2>1, <2>2
  <2> QED
    BY <1>2, <1>3, <2>3, Zenon DEF YearStart
<1>5. CASE m = 12
  BY <1>2, <1>3, <1>4, <1>5 DEF MonthEnd
<1>6. CASE m # 12
  <2>1. PICK k \in 2..12 : k = m + 1
    BY <1>6
  <2>2. MonthEnd(y, m) = March(IF k <= 2 THEN x ELSE y) + MarchTo[k] + 1 - e
    BY <1>1, <1>3, <1>6, <2>1, DayNumberIs DEF MonthEnd
  <2>3. CASE k = 2
    <3>1. MarchTo[2] = 337
      BY DEF MarchTo
    <3>2. MonthEnd(y, m) = a + 337 + 1 - e
      BY <1>2, <2>2, <2>3, <3>1
    <3> QED
      BY <1>2, <1>3, <1>4, <3>2
  <2>4. CASE k # 2
    <3>1. MarchTo[k] \in Int /\ MarchTo[k] <= 275
      <4>1. /\ MarchTo[3] = 0 /\ MarchTo[4] = 31 /\ MarchTo[5] = 61 /\ MarchTo[6] = 92
            /\ MarchTo[7] = 122 /\ MarchTo[8] = 153 /\ MarchTo[9] = 184 /\ MarchTo[10] = 214
            /\ MarchTo[11] = 245 /\ MarchTo[12] = 275
        BY DEF MarchTo
      <4>2. \/ k = 3 \/ k = 4 \/ k = 5 \/ k = 6 \/ k = 7 \/ k = 8 \/ k = 9
            \/ k = 10 \/ k = 11 \/ k = 12
        BY <2>4
      <4> QED
        BY <4>1, <4>2
    <3>2. MonthEnd(y, m) = b + MarchTo[k] + 1 - e
      <4>1. ~(k <= 2)
        BY <2>4
      <4> QED
        BY <1>2, <2>2, <4>1, Zenon
    <3> QED
      BY <1>2, <1>3, <1>4, <3>1, <3>2
  <2> QED
    BY <2>3, <2>4
<1> QED
  BY <1>5, <1>6

\* A turn of the loop over months finds no month only where the loop over years
\* stopped too early.
LEMMA MonthsHalts ==
  ASSUME NEW t, t.days \in Nat, t.rest \in Nat, Halts(t), months
  PROVE  (phase' = "panic" /\ Overruns(t)) \/ Halts(t)'
<1>1. /\ phase = "months" /\ MonthLeft(t) /\ year \in Nat /\ year >= Epoch /\ year' = year
      /\ (year > Epoch => Turn(year - 1, t)) /\ ~Turn(year, t) /\ YearStart(year) <= t.days
      /\ (month = 13 => YearStart(year + 1) <= t.days)
  BY DEF months, Halts
<1>2. year \in Nat \ {0}
  BY <1>1, SMT DEF Epoch
<1>3. CASE month > 12
  <2>1. month = 13
    BY <1>1, <1>3 DEF MonthLeft
  <2>2. Overruns(t)
    BY <1>1, <2>1, StopsEarly
  <2> QED
    BY <1>3, <2>2 DEF months
<1>4. CASE ~(month > 12)
  <2>1. PICK m \in 1..12 : m = month
    BY <1>1, <1>4 DEF MonthLeft
  <2>2. PICK n \in Int : n = DayNumber(year, m, 1)
    BY <1>2, MonthNext
  <2>3. PICK d \in 28..31 : d = days_per_month(year)[m] /\ MonthEnd(year, m) = n + d
    BY <1>2, <2>2, MonthNext
  <2>4. PICK td \in Nat, r \in Nat : td = t.days /\ r = t.rest
    OBVIOUS
  <2>5. seconds = [days |-> td - n, rest |-> r] /\ seconds.days = td - n /\ td - n >= 0
    BY <1>1, <2>1, <2>2, <2>4 DEF MonthLeft
  <2>6. CASE seconds.days >= d
    <3>1. /\ seconds' = [seconds EXCEPT !.days = @ - d]
          /\ month' = month + 1 /\ phase' = phase
      BY <1>4, <2>1, <2>3, <2>6 DEF months
    <3>2. month' \in 1..13 /\ month' = m + 1
      BY <2>1, <3>1
    <3>3. m # 12 => DayNumber(year, m + 1, 1) = n + d
      BY <2>3 DEF MonthEnd
    <3>4. m + 1 # 13 => m # 12
      OBVIOUS
    <3>5. (td - n) - d = td - (n + d) /\ (td - n) - d >= 0
      BY <2>5, <2>6
    <3>6. seconds' = [days |-> (td - n) - d, rest |-> r] /\ seconds'.days = (td - n) - d
      BY <2>5, <3>1
    <3>7. MonthLeft(t)'
      BY <1>1, <2>4, <3>2, <3>3, <3>4, <3>5, <3>6 DEF MonthLeft
    <3>8. month' = 13 => YearStart(year + 1) <= t.days
      <4>1. m = 12 => YearStart(year + 1) = n + d
        BY <2>3 DEF MonthEnd
      <4> QED
        BY <2>4, <3>2, <3>5, <4>1
    <3> QED
      BY <1>1, <3>1, <3>7, <3>8 DEF Halts
  <2>7. CASE ~(seconds.days >= d)
    <3>1. phase' = "done"
      BY <1>4, <2>1, <2>3, <2>7 DEF months
    <3>2. n + d <= YearStart(year + 1) /\ YearStart(year + 1) \in Int
      BY <1>1, <1>2, <2>3, MonthInYear, YearFacts
    <3>3. t.days < YearStart(year + 1)
      BY <2>4, <2>5, <2>7, <3>2
    <3> QED
      BY <1>1, <3>1, <3>3 DEF Halts
  <2> QED
    BY <2>6, <2>7
<1> QED
  BY <1>3, <1>4

\* What Loggable says of a member's instant
Convertible(t) == IF Underflows(t) THEN ~checked /\ ~Overruns(Later(t)) ELSE ~Overruns(t)

\* The conversion is that of the instant, or of the one it has wrapped to.
Converting(t) == Halts(t) \/ (~checked /\ Underflows(t) /\ Halts(Later(t)))

\* A turn of a loop panics only at an instant that cannot be converted.
LEMMA TurnOutcome ==
  ASSUME NEW t \in Instants, checked \in BOOLEAN, Converting(t), years \/ months
  PROVE  (phase' = "panic" /\ ~Convertible(t)) \/ (Converting(t)' /\ phase' # "panic")
<1>1. t.days \in Nat /\ t.rest \in Nat /\ t.rest \in 0..SecondsPerDay - 1
  BY InstantType
<1>2. PICK u : u = Later(t)
  OBVIOUS
<1>3. u.days \in Nat /\ u.rest \in Nat /\ (Underflows(t) => ~Underflows(u))
  BY <1>2, LaterSane
<1>4. checked' = checked
  BY DEF years, months
<1>5. /\ Halts(t)' => Converting(t)' /\ phase' # "panic"
      /\ ~checked /\ Underflows(t) /\ Halts(u)' => Converting(t)' /\ phase' # "panic"
  BY <1>2, <1>4 DEF Converting, Halts
<1>6. CASE Halts(t) /\ years
  <2>1. CASE Exceeds(seconds, year_days) /\ seconds.days < DaysPerYear(year)
    <3>1. year \in Nat /\ year >= Epoch /\ YearLeft(t)
      BY <1>6 DEF Halts, years
    <3>2. Underflows(t)
      BY <1>1, <2>1, <3>1, Underflow
    <3>3. CASE checked
      <4>1. phase' = "panic"
        BY <1>6, <2>1, <3>3 DEF years
      <4> QED
        BY <3>2, <3>3, <4>1 DEF Convertible
    <3>4. CASE ~checked
      <4>1. Halts(u)'
        BY <1>2, <1>6, <2>1, <3>4, YearsWrap
      <4> QED
        BY <1>5, <3>2, <3>4, <4>1
    <3> QED
      BY <3>3, <3>4
  <2>2. CASE ~(Exceeds(seconds, year_days) /\ seconds.days < DaysPerYear(year))
    BY <1>1, <1>5, <1>6, <2>2, YearsHalts
  <2> QED
    BY <2>1, <2>2
<1>7. CASE Halts(t) /\ months
  <2>1. (phase' = "panic" /\ Overruns(t)) \/ Halts(t)'
    BY <1>1, <1>7, MonthsHalts
  <2>2. Overruns(t) => ~Convertible(t)
    BY NotBoth DEF Convertible
  <2> QED
    BY <1>5, <2>1, <2>2
<1>8. CASE ~checked /\ Underflows(t) /\ Halts(u) /\ years
  <2>1. year \in Nat /\ year >= Epoch /\ YearLeft(u)
    BY <1>8 DEF Halts, years
  <2>2. ~(Exceeds(seconds, year_days) /\ seconds.days < DaysPerYear(year))
    BY <1>3, <1>8, <2>1, Underflow
  <2>3. Halts(u)'
    BY <1>3, <1>8, <2>2, YearsHalts
  <2> QED
    BY <1>5, <1>8, <2>3
<1>9. CASE ~checked /\ Underflows(t) /\ Halts(u) /\ months
  <2>1. (phase' = "panic" /\ Overruns(u)) \/ Halts(u)'
    BY <1>3, <1>9, MonthsHalts
  <2>2. Overruns(u) => ~Convertible(t)
    BY <1>2, <1>9 DEF Convertible
  <2> QED
    BY <1>5, <1>9, <2>1, <2>2
<1> QED
  BY <1>2, <1>6, <1>7, <1>8, <1>9 DEF Converting

\* A conversion that ends is that of an instant that can be converted.
LEMMA DoneOutcome ==
  ASSUME NEW t \in Instants, Converting(t), phase = "done"
  PROVE  Convertible(t)
<1>1. t.days \in Nat /\ t.rest \in Nat
  BY InstantType
<1>2. PICK u : u = Later(t)
  OBVIOUS
<1>3. u.days \in Nat /\ u.rest \in Nat
  BY <1>2, LaterSane
<1>4. CASE Halts(t)
  <2>1. ~Overruns(t) /\ ~Underflows(t)
    BY <1>1, <1>4, StopsRight DEF Halts
  <2> QED
    BY <2>1 DEF Convertible
<1>5. CASE ~checked /\ Underflows(t) /\ Halts(u)
  <2>1. ~Overruns(u)
    BY <1>3, <1>5, StopsRight DEF Halts
  <2> QED
    BY <1>2, <1>5, <2>1 DEF Convertible
<1> QED
  BY <1>2, <1>4, <1>5 DEF Converting

\* The permissions have three digits unless the special bits and the owner's
\* are all zero.
LEMMA PermissionsThere ==
  ASSUME NEW m, m.mode \in [1..4 -> 0..7]
  PROVE  HasPermissions(m) <=> (m.mode[1] # 0 \/ m.mode[2] # 0)
<1>1. PICK z \in 0..7, a \in 0..7, b \in 0..7, c \in 0..7 :
        z = m.mode[1] /\ a = m.mode[2] /\ b = m.mode[3] /\ c = m.mode[4]
  <2>1. m.mode[1] \in 0..7 /\ m.mode[2] \in 0..7 /\ m.mode[3] \in 0..7 /\ m.mode[4] \in 0..7
    OBVIOUS
  <2> QED
    BY <2>1, Zenon
<1>2. PICK n : n = 1000 * z + 100 * a + 10 * b + c
  OBVIOUS
<1>3. parse_integer(m.mode) = n
  BY <1>1, <1>2, SMT DEF parse_integer
<1>4. n \in Nat /\ n < 10000 /\ (n >= 100 <=> (z # 0 \/ a # 0))
  BY <1>2, SMT
<1>5. PICK k \in 1..4 : k = NumberOfDigits(n) /\ (k >= 3 <=> n >= 100)
  <2>1. /\ Powers[1] = 1 /\ Powers[2] = 10 /\ Powers[3] = 100 /\ Powers[4] = 1000
        /\ Powers[5] = 10000
    BY SMT DEF Powers
  <2> DEFINE P(k) == n < Powers[k + 1] /\ (k = 1 \/ n >= Powers[k])
  <2>2. /\ P(1) <=> n < 10
        /\ P(2) <=> n < 100 /\ n >= 10
        /\ P(3) <=> n < 1000 /\ n >= 100
        /\ P(4) <=> n < 10000 /\ n >= 1000
    BY <2>1, SMT
  <2>3. P(1) \/ P(2) \/ P(3) \/ P(4)
    <3> HIDE DEF P
    <3> QED BY <1>4, <2>2, SMT
  <2>4. \E k \in 1..4 : P(k)
    <3> HIDE DEF P
    <3> QED BY <2>3, SMT
  <2>5. NumberOfDigits(n) = CHOOSE k \in 1..4 : P(k)
    BY SMT DEF NumberOfDigits
  <2>6. NumberOfDigits(n) \in 1..4 /\ P(NumberOfDigits(n))
    <3> HIDE DEF P
    <3> QED BY <2>4, <2>5, Zenon
  <2>7. PICK k \in 1..4 : k = NumberOfDigits(n) /\ P(k)
    BY <2>6, SMT
  <2>8. k = 1 \/ k = 2 \/ k = 3 \/ k = 4
    BY SMT
  <2>9. k >= 3 <=> n >= 100
    <3> HIDE DEF P
    <3> QED BY <1>4, <2>2, <2>7, <2>8, SMT
  <2> QED
    BY <2>7, <2>9, SMT
<1>6. PICK s : s = digits(n)
  OBVIOUS
<1>7. s = [i \in 1..k |-> (n \div Powers[k - i + 1]) % 10]
  BY <1>5, <1>6 DEF digits
<1>8. Len(s) = k
  <2>1. s \in [1..k -> {s[i] : i \in 1..k}]
    BY <1>7
  <2> QED
    BY <2>1, FunctionIsSeq
<1>9. HasPermissions(m) <=> Len(s) >= 3
  BY <1>3, <1>6, Zenon DEF HasPermissions
<1> QED
  BY <1>1, <1>4, <1>5, <1>8, <1>9

-----------------------------------------------------------------------------
(***************************************************************************)
(* How the walk ends.                                                      *)
(***************************************************************************)

Decided ==
  /\ pc \in {"data", "trace", "date"} => header.text
  /\ pc = "date" => Converting(header.mtime)
  /\ \A i \in 1..Len(files) : Loggable(archive[i])
  /\ pc = "panic" => \E i \in 1..Len(archive) : ~Loggable(archive[i])

\* The member at hand.
LEMMA AtHand ==
  ASSUME Walked, Dated, pc \in {"data", "trace", "date"}
  PROVE  /\ Len(files) \in Nat /\ Len(files) + 1 \in 1..Len(archive)
         /\ header = archive[Len(files) + 1]
         /\ header.mode \in [1..4 -> 0..7] /\ header.mtime \in Instants
<1>1. /\ Len(files) \in Nat /\ Len(files) + 1 \in 1..Len(archive)
      /\ header = archive[Len(files) + 1]
  BY WalkedAt DEF Walked
<1> QED
  BY <1>1 DEF Dated, Members

\* Loggable, with the names of the proof.
LEMMA LoggableIs ==
  ASSUME NEW m, m.mode \in [1..4 -> 0..7]
  PROVE  Loggable(m) <=> m.text /\ HasPermissions(m) /\ Convertible(m.mtime)
BY PermissionsThere DEF Loggable, Convertible

\* Parse_header panics at a string that is not UTF-8.
LEMMA HeaderDecided ==
  ASSUME Walked, Decided, parse_header
  PROVE  Decided'
<1>1. /\ pc = "block" /\ archive' = archive /\ files' = files /\ checked' = checked
      /\ Block(address) # Zero
  BY DEF parse_header, tvars
<1>2. Len(files) \in Nat /\ Len(files) + 1 \in 1..Len(archive) /\ Block(address) = HeaderBlock(archive[Len(files) + 1])
  <2>1. address = Position(archive, Len(files))
    BY <1>1 DEF Walked
  <2>2. Len(files) < Len(archive)
    BY <1>1, <2>1, WalkedAt DEF Block
  <2> QED
    BY <2>1, <2>2, WalkedAt DEF Block
<1>3. PICK m : m = archive[Len(files) + 1]
  OBVIOUS
<1>4. Block(address).kind = "header" /\ Block(address).of = m
  BY <1>2, <1>3 DEF HeaderBlock
<1>5. \A i \in 1..Len(archive) : Loggable(archive[i])' <=> Loggable(archive[i])
  BY <1>1 DEF Loggable
<1>6. Len(files) <= Len(archive)
  BY <1>2
<1>7. \A i \in 1..Len(files) : Loggable(archive[i])'
  BY <1>2, <1>5, <1>6 DEF Decided
<1>8. CASE m.text
  <2>1. header' = m /\ pc' = "data"
    BY <1>4, <1>8 DEF parse_header
  <2> QED
    BY <1>1, <1>7, <1>8, <2>1 DEF Decided
<1>9. CASE ~m.text
  <2>1. pc' = "panic"
    BY <1>4, <1>9 DEF parse_header
  <2>2. ~Loggable(archive[Len(files) + 1])
    BY <1>3, <1>9 DEF Loggable
  <2>3. \E i \in 1..Len(archive) : ~Loggable(archive[i])'
    BY <1>2, <1>5, <2>2
  <2> QED
    BY <1>1, <1>7, <2>1, <2>3 DEF Decided
<1> QED
  BY <1>8, <1>9

\* Trace panics without permissions, and asks for the date of the member.
LEMMA TraceDecided ==
  ASSUME Walked, Dated, Decided, trace
  PROVE  Decided'
<1>1. /\ pc = "trace" /\ archive' = archive /\ files' = files /\ header' = header /\ checked' = checked
  BY DEF trace, tvars, parse_timestamp
<1>2. /\ Len(files) \in Nat /\ Len(files) + 1 \in 1..Len(archive)
      /\ header = archive[Len(files) + 1] /\ header.text
      /\ header.mode \in [1..4 -> 0..7] /\ header.mtime \in Instants
  BY <1>1, AtHand DEF Decided
<1>3. \A i \in 1..Len(archive) : Loggable(archive[i])' <=> Loggable(archive[i])
  BY <1>1 DEF Loggable
<1>4. Len(files) <= Len(archive)
  BY <1>2
<1>5. \A i \in 1..Len(files) : Loggable(archive[i])'
  BY <1>2, <1>3, <1>4 DEF Decided
<1>6. CASE ~HasPermissions(header)
  <2>1. pc' = "panic"
    BY <1>6 DEF trace
  <2>2. ~Loggable(archive[Len(files) + 1])
    BY <1>2, <1>6, LoggableIs
  <2>3. \E i \in 1..Len(archive) : ~Loggable(archive[i])'
    BY <1>2, <1>3, <2>2
  <2> QED
    BY <1>1, <1>5, <2>1, <2>3 DEF Decided
<1>7. CASE HasPermissions(header)
  <2>1. /\ pc' = "date" /\ seconds' = header.mtime /\ phase' = "years"
        /\ year' = year /\ year_days' = year_days /\ month' = month
    BY <1>7 DEF trace, parse_timestamp
  <2>2. year = Epoch /\ year_days = 0 /\ month = 1
    BY <1>1 DEF Dated, Idle
  <2>3. PICK t : t = header.mtime
    OBVIOUS
  <2>4. t.days \in Nat /\ t = [days |-> t.days, rest |-> t.rest]
    BY <1>2, <2>3, InstantType
  <2>5. YearStart(Epoch) = 0 /\ t.days - YearStart(Epoch) = t.days
    BY <2>4, FirstYear
  <2>6. YearLeft(t)'
    BY <2>1, <2>2, <2>3, <2>4, <2>5 DEF YearLeft
  <2>7. Epoch \in Nat /\ Epoch >= Epoch /\ ~(Epoch > Epoch)
    BY SMT DEF Epoch
  <2>8. Halts(t)'
    BY <2>1, <2>2, <2>6, <2>7 DEF Halts
  <2>9. Converting(header.mtime)'
    BY <1>1, <2>3, <2>8 DEF Converting
  <2> QED
    BY <1>1, <1>2, <1>5, <2>1, <2>9 DEF Decided
<1> QED
  BY <1>6, <1>7

\* Convert panics at an instant that cannot be converted.
LEMMA ConvertDecided ==
  ASSUME Walked, Dated, Decided, convert
  PROVE  Decided'
<1>1. /\ pc = "date" /\ archive' = archive /\ files' = files /\ header' = header /\ checked' = checked
      /\ pc' = IF phase' = "panic" THEN "panic" ELSE "date"
      /\ checked \in BOOLEAN /\ (years \/ months)
  BY DEF convert, years, months, Dated
<1>2. /\ Len(files) \in Nat /\ Len(files) + 1 \in 1..Len(archive)
      /\ header = archive[Len(files) + 1] /\ header.text
      /\ header.mode \in [1..4 -> 0..7] /\ header.mtime \in Instants
  BY <1>1, AtHand DEF Decided
<1>3. \A i \in 1..Len(archive) : Loggable(archive[i])' <=> Loggable(archive[i])
  BY <1>1 DEF Loggable
<1>4. Len(files) <= Len(archive)
  BY <1>2
<1>5. \A i \in 1..Len(files) : Loggable(archive[i])'
  BY <1>2, <1>3, <1>4 DEF Decided
<1>6. PICK t \in Instants : t = header.mtime
  BY <1>2
<1>7. Converting(t)
  BY <1>1, <1>6 DEF Decided
<1>8. CASE phase' = "panic" /\ ~Convertible(t)
  <2>1. ~Loggable(archive[Len(files) + 1])
    BY <1>2, <1>6, <1>8, LoggableIs
  <2>2. \E i \in 1..Len(archive) : ~Loggable(archive[i])'
    BY <1>2, <1>3, <2>1
  <2> QED
    BY <1>1, <1>5, <1>8, <2>2 DEF Decided
<1>9. CASE Converting(t)' /\ phase' # "panic"
  <2>1. Converting(header.mtime)'
    BY <1>1, <1>6, <1>9 DEF Converting
  <2> QED
    BY <1>1, <1>2, <1>5, <1>9, <2>1 DEF Decided
<1> QED
  BY <1>1, <1>7, <1>8, <1>9, TurnOutcome

\* Push keeps a member that can be logged.
LEMMA PushDecided ==
  ASSUME Walked, Dated, Decided, push
  PROVE  Decided'
<1>1. /\ pc = "date" /\ archive' = archive /\ header' = header /\ checked' = checked /\ pc' = "block"
      /\ phase = "done" /\ files' = Append(files, [header |-> header, data |-> data])
      /\ HasPermissions(header)
  BY DEF push, Return, Dated
<1>2. /\ Len(files) \in Nat /\ Len(files) + 1 \in 1..Len(archive)
      /\ header = archive[Len(files) + 1] /\ header.text
      /\ header.mode \in [1..4 -> 0..7] /\ header.mtime \in Instants
  BY <1>1, AtHand DEF Decided
<1>3. Convertible(header.mtime)
  <2>1. PICK t \in Instants : t = header.mtime
    BY <1>2
  <2>2. Converting(t)
    BY <1>1, <2>1 DEF Decided
  <2> QED
    BY <1>1, <2>1, <2>2, DoneOutcome
<1>4. Loggable(archive[Len(files) + 1])
  BY <1>1, <1>2, <1>3, LoggableIs
<1>5. \A i \in 1..Len(archive) : Loggable(archive[i])' <=> Loggable(archive[i])
  BY <1>1 DEF Loggable
<1>6. Len(files') = Len(files) + 1
  <2>1. /\ files = Kept(archive, Len(files)) /\ header = archive[Len(files) + 1]
        /\ data = DataBlocks(header)
    BY <1>1 DEF Walked
  <2>2. files' = Kept(archive, Len(files) + 1)
    BY <1>1, <1>2, <2>1, KeptNext DEF File
  <2> QED
    BY <1>2, <2>2, KeptNext
<1>7. \A i \in 1..Len(files) + 1 : Loggable(archive[i])'
  BY <1>2, <1>4, <1>5 DEF Decided
<1> QED
  BY <1>1, <1>6, <1>7 DEF Decided

\* No other step decides anything.
LEMMA NextDecided == Walked /\ Dated /\ Decided /\ [Next]_vars => Decided'
<1> SUFFICES ASSUME Walked, Dated, Decided, [Next]_vars PROVE Decided'
  OBVIOUS
<1>1. CASE parse_data \/ eof \/ \E path \in Paths : get_data(path)
  <2>1. /\ pc' \notin {"date", "panic"} /\ archive' = archive /\ files' = files /\ checked' = checked
        /\ header' = header /\ (pc' \in {"data", "trace"} => pc = "data")
    BY <1>1 DEF parse_data, eof, get_data, tvars
  <2>2. \A i : Loggable(archive[i])' <=> Loggable(archive[i])
    BY <2>1 DEF Loggable
  <2> QED
    BY <2>1, <2>2 DEF Decided
<1>2. CASE UNCHANGED vars
  BY <1>2 DEF vars, tvars, Decided, Loggable, Converting, Halts, YearLeft, MonthLeft
<1> QED
  BY <1>1, <1>2, HeaderDecided, TraceDecided, ConvertDecided, PushDecided DEF Next, Load

\* How Initrd::new ends: with every member loaded only if a line can be logged
\* for every one of them, and in a panic only if there is one it cannot.
EndsRight ==
  /\ pc \in {"loaded", "missing"} => \A i \in 1..Len(archive) : Loggable(archive[i])
  /\ pc = "panic" => \E i \in 1..Len(archive) : ~Loggable(archive[i])

\* The safety half of LoadsIfLoggable: where the walk ends, it ends as that says,
\* for every archive, every 32-bit instant and both builds.
THEOREM Ends == Spec => []EndsRight
<1>1. Init => Decided
  BY DEF Init, Decided
<1>2. Walked /\ Decided => EndsRight
  BY DEF Walked, Decided, EndsRight
<1> QED
  BY <1>1, <1>2, InitWalked, NextWalked, InitDated, NextDated, NextDecided, PTL DEF Spec

\* LoadsIfLoggable, as far as it is safety: if the walk ends at all, the ramdisk
\* loads exactly if every member can be logged.
THEOREM LoadsIfItEnds == Spec /\ <>(pc \in {"loaded", "panic"}) => LoadsIfLoggable
<1>1. EndsRight /\ pc \in {"loaded", "panic"} =>
        /\ pc \in {"loaded", "panic"}
        /\ pc = "loaded" <=> \A i \in 1..Len(archive) : Loggable(archive[i])
  BY DEF EndsRight
<1> QED
  BY <1>1, Ends, PTL DEF LoadsIfLoggable

=============================================================================

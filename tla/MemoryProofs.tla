---------------------------- MODULE MemoryProofs ----------------------------
(***************************************************************************)
(* Proofs about Memory, for every page size, fan-out, heap and memory map  *)
(* that MemoryAssumption allows: no frame has two owners, memory comes up  *)
(* only with the whole heap mapped and panics only for want of frames, and *)
(* memory management implements AddressSpace.                              *)
(***************************************************************************)
EXTENDS Memory, CommonLemmas, FiniteSetTheorems

\* The pages of the heap's bytes are the pages from the first to the last.
LEMMA HeapPagesAre ==
  /\ FirstPage \in Nat /\ LastPage \in Nat /\ FirstPage <= LastPage
  /\ HeapPages = FirstPage..LastPage
<1> DEFINE last == HEAP_START + HEAP_SIZE - 1
<1>1. PageSize \in Nat \ {0} /\ HEAP_START \in Nat /\ last \in Nat /\ HEAP_START <= last
  BY MemoryAssumption
<1>2. FirstPage \in Nat /\ LastPage \in Nat /\ FirstPage <= LastPage
  BY <1>1, DivMod, DivMonotonic DEF FirstPage, LastPage, Page
<1>3. ASSUME NEW a \in HEAP_START..last
      PROVE  Page(a) \in FirstPage..LastPage
  <2>1. a \in Nat /\ HEAP_START <= a /\ a <= last
    BY <1>1
  <2>2. a \div PageSize \in Nat
    BY <1>1, <2>1, DivMod
  <2>3. HEAP_START \div PageSize <= a \div PageSize /\ a \div PageSize <= last \div PageSize
    BY <1>1, <2>1, DivMonotonic, Zenon
  <2> QED
    BY <1>2, <2>2, <2>3 DEF FirstPage, LastPage, Page
<1>4. ASSUME NEW p \in FirstPage..LastPage
      PROVE  \E a \in HEAP_START..last : Page(a) = p
  <2>1. p \in Nat
    BY <1>2
  <2>2. CASE p = FirstPage
    BY <1>1, <2>2 DEF FirstPage
  <2>3. CASE FirstPage < p
    <3> DEFINE a == PageSize * p
    <3>1. HEAP_START < PageSize * FirstPage + PageSize
      BY <1>1, DivMod DEF FirstPage, Page
    <3>2. PageSize * FirstPage + PageSize <= a
      BY <1>1, <1>2, <2>1, <2>3
    <3>3. PageSize * LastPage <= last
      <4>1. /\ last = PageSize * (last \div PageSize) + (last % PageSize)
            /\ last % PageSize \in 0..PageSize - 1
        BY <1>1, DivMod, Zenon
      <4> QED
        BY <1>1, <1>2, <4>1 DEF LastPage, Page
    <3>4. a <= PageSize * LastPage
      BY <1>1, <1>2, <2>1
    <3>5. a \in Nat /\ HEAP_START <= a /\ a <= last
      BY <1>1, <1>2, <2>1, <3>1, <3>2, <3>3, <3>4
    <3>6. Page(a) = p
      BY <1>1, <2>1, <3>5, DivIs DEF Page
    <3> QED
      BY <1>1, <3>5, <3>6
  <2> QED
    BY <1>2, <2>1, <2>2, <2>3
<1> QED
  BY <1>2, <1>3, <1>4 DEF HeapPages

-----------------------------------------------------------------------------
(***************************************************************************)
(* The frames the allocator walks.                                         *)
(***************************************************************************)

\* The frames of an entry of the memory map that lie in it with all of
\* their bytes
Whole(e) ==
  IF e.usable
    THEN (e.base + PageSize - 1) \div PageSize .. (e.base + e.length) \div PageSize - 1
    ELSE {}

UsableOf(map) == UNION {Whole(map[i]) : i \in 1..Len(map)}

Piece(e) == IF e.usable THEN Frames(e) ELSE <<>>

\* The frames of a usable region, by number.
LEMMA FramesType ==
  ASSUME NEW map \in Maps, NEW i \in 1..Len(map), map[i].usable
  PROVE  /\ map[i].base \in Nat /\ map[i].length \in Nat
         /\ map[i].base \div PageSize \in Nat /\ map[i].length \div PageSize \in Nat
         /\ map[i].base = PageSize * (map[i].base \div PageSize)
         /\ map[i].length = PageSize * (map[i].length \div PageSize)
         /\ Len(Frames(map[i])) = map[i].length \div PageSize
         /\ Frames(map[i]) \in Seq(Nat)
         /\ \A k \in 1..Len(Frames(map[i])) :
              Frames(map[i])[k] = map[i].base \div PageSize + k - 1
<1>0. map \in Seq([base : Nat, length : Nat, usable : BOOLEAN])
  BY MemoryAssumption
<1>1. /\ map[i].base \in Nat /\ map[i].length \in Nat /\ PageSize \in Nat \ {0}
      /\ map[i].base % PageSize = 0 /\ map[i].length % PageSize = 0
  <2>1. map[i] \in [base : Nat, length : Nat, usable : BOOLEAN]
    BY <1>0, ElementOfSeq
  <2> QED
    BY <2>1, MemoryAssumption
<1>2. /\ map[i].base \div PageSize \in Nat /\ map[i].length \div PageSize \in Nat
      /\ map[i].base = PageSize * (map[i].base \div PageSize)
      /\ map[i].length = PageSize * (map[i].length \div PageSize)
  <2>1. ASSUME NEW a \in Nat, a % PageSize = 0
        PROVE  a \div PageSize \in Nat /\ a = PageSize * (a \div PageSize)
    <3>1. a = PageSize * (a \div PageSize) + (a % PageSize) /\ a \div PageSize \in Nat
      BY <1>1, DivMod, Zenon
    <3> QED
      BY <1>1, <2>1, <3>1
  <2> QED
    BY <1>1, <2>1
<1>3. Frames(map[i]) \in [1..map[i].length \div PageSize -> Nat]
  BY <1>2 DEF Frames
<1>4. Frames(map[i]) \in Seq(Nat) /\ Len(Frames(map[i])) = map[i].length \div PageSize
  BY <1>2, <1>3, FunctionIsSeq
<1> QED
  BY <1>1, <1>2, <1>4 DEF Frames

\* Every frame the allocator walks is whole, and it walks none of them twice.
LEMMA UsableFrames ==
  ASSUME NEW map \in Maps
  PROVE  usable_frames(map) \in Seq(UsableOf(map)) /\ IsInjective(usable_frames(map))
<1> DEFINE pieces == [i \in 1..Len(map) |-> IF map[i].usable THEN Frames(map[i]) ELSE <<>>]
<1>1. Len(map) \in Nat /\ PageSize \in Nat \ {0}
  BY MemoryAssumption
<1>2. ASSUME NEW i \in 1..Len(map), map[i].usable
      PROVE  Frames(map[i]) \in Seq(UsableOf(map)) /\ IsInjective(Frames(map[i]))
  <2>1. PICK b, n : b = map[i].base \div PageSize /\ n = map[i].length \div PageSize
    OBVIOUS
  <2>2. /\ b \in Nat /\ n \in Nat
        /\ map[i].base = PageSize * b /\ map[i].length = PageSize * n
        /\ Frames(map[i]) \in Seq(Nat) /\ Len(Frames(map[i])) = n
        /\ \A k \in 1..n : Frames(map[i])[k] = b + k - 1
    BY <1>2, <2>1, FramesType
  <2>3. (map[i].base + PageSize - 1) \div PageSize = b
    <3>1. PICK c \in Nat : c = PageSize * b
      BY <1>1, <2>2
    <3>2. /\ c + PageSize - 1 \in Nat /\ PageSize * b <= c + PageSize - 1
          /\ c + PageSize - 1 < PageSize * b + PageSize
      BY <1>1, <3>1
    <3>3. (c + PageSize - 1) \div PageSize = b
      BY <1>1, <2>2, <3>2, DivIs
    <3> QED
      BY <2>2, <3>1, <3>3, Zenon
  <2>4. (map[i].base + map[i].length) \div PageSize = b + n
    <3>1. b + n \in Nat /\ PageSize * (b + n) \in Nat /\ PageSize * (b + n) = PageSize * b + PageSize * n
      BY <1>1, <2>2
    <3>2. PageSize * (b + n) < PageSize * (b + n) + PageSize
      BY <1>1, <3>1
    <3>3. (PageSize * (b + n)) \div PageSize = b + n
      BY <1>1, <3>1, <3>2, DivIs
    <3> QED
      BY <2>2, <3>1, <3>3
  <2>5. \A k \in 1..n : Frames(map[i])[k] \in Whole(map[i])
    BY <1>2, <2>2, <2>3, <2>4 DEF Whole
  <2>6. Whole(map[i]) \subseteq UsableOf(map)
    BY Zenon DEF UsableOf
  <2>7. Frames(map[i]) \in Seq(UsableOf(map))
    BY <2>2, <2>5, <2>6, SeqOver
  <2> QED
    BY <2>2, <2>7 DEF IsInjective
<1>3. pieces \in Seq(Seq(UsableOf(map))) /\ Len(pieces) = Len(map)
  <2>1. pieces \in [1..Len(map) -> Seq(UsableOf(map))]
    BY <1>2
  <2> QED
    BY <1>1, <2>1, FunctionIsSeq
<1>4. \A i \in 1..Len(pieces) : IsInjective(pieces[i])
  <2>1. IsInjective(<<>>)
    BY DEF IsInjective
  <2> QED
    BY <1>2, <1>3, <2>1
<1>5. ASSUME NEW i \in 1..Len(pieces), NEW j \in 1..Len(pieces), i # j,
             NEW k \in 1..Len(pieces[i]), NEW l \in 1..Len(pieces[j])
      PROVE  pieces[i][k] # pieces[j][l]
  <2>1. i \in 1..Len(map) /\ j \in 1..Len(map) /\ map[i].usable /\ map[j].usable
    BY <1>3
  <2>2. pieces[i] = Frames(map[i]) /\ pieces[j] = Frames(map[j])
    BY <2>1
  <2>3. PICK b, n : b = map[i].base \div PageSize /\ n = map[i].length \div PageSize
    OBVIOUS
  <2>4. PICK c, m : c = map[j].base \div PageSize /\ m = map[j].length \div PageSize
    OBVIOUS
  <2>5. /\ b \in Nat /\ n \in Nat
        /\ map[i].base = PageSize * b /\ map[i].length = PageSize * n
        /\ k \in 1..n /\ pieces[i][k] = b + k - 1
    BY <2>1, <2>2, <2>3, FramesType
  <2>6. /\ c \in Nat /\ m \in Nat
        /\ map[j].base = PageSize * c /\ map[j].length = PageSize * m
        /\ l \in 1..m /\ pieces[j][l] = c + l - 1
    BY <2>1, <2>2, <2>4, FramesType
  <2>7. \/ PageSize * b + PageSize * n <= PageSize * c
        \/ PageSize * c + PageSize * m <= PageSize * b
    BY <1>5, <2>1, <2>5, <2>6, MemoryAssumption
  <2>8. b + n <= c \/ c + m <= b
    BY <1>1, <2>5, <2>6, <2>7, MultCancel
  <2> QED
    BY <2>5, <2>6, <2>8
<1>6. usable_frames(map) = FlattenSeq(pieces)
  BY DEF usable_frames
<1> HIDE DEF pieces
<1>7. FlattenSeq(pieces) \in Seq(UsableOf(map))
  BY <1>3, FlattenType
<1>8. IsInjective(FlattenSeq(pieces))
  BY <1>3, <1>4, <1>5, FlattenInjective
<1> QED
  BY <1>6, <1>7, <1>8

-----------------------------------------------------------------------------
(***************************************************************************)
(* The inductive invariant.                                                *)
(***************************************************************************)

All == {Entry(l, p) : l \in 1..4, p \in FirstPage..LastPage}

\* The entries of the pages that are done, and those of the page at hand
\* that map_to has walked past
Behind == {Entry(l, p) : l \in 1..4, p \in FirstPage..page - 1}
Above == {Entry(l, page) : l \in level + 1..4}

Supply == Len(usable_frames(memory_map))

\* The allocator has given the frame away.
Handed(f) == \E i \in 1..next : i <= Supply /\ f = usable_frames(memory_map)[i]

MTypeOK ==
  /\ memory_map \in Maps
  /\ next \in Nat
  /\ page \in FirstPage..LastPage + 1
  /\ level \in 1..4
  /\ pc \in {"frame", "table", "heap", "up", "panic"}
  /\ entries = [e \in DOMAIN entries |-> entries[e]]

\* Exactly the entries on the way to the pages done so far are there.
Shape ==
  /\ pc = "frame" => page <= LastPage /\ DOMAIN entries = Behind
  /\ pc = "table" => page <= LastPage /\ DOMAIN entries = Behind \union Above
  /\ pc \in {"heap", "up"} => page = LastPage + 1 /\ DOMAIN entries = Behind

FromAllocator ==
  /\ \A e \in DOMAIN entries : Handed(entries[e])
  /\ pc = "table" => Handed(frame)

\* Each frame the allocator gave away is behind an entry, or waits.
Count ==
  pc # "panic" =>
    /\ next <= Supply
    /\ next = Cardinality(DOMAIN entries) + (IF pc = "table" THEN 1 ELSE 0)

\* The boot panics only if memory is short of the heap's need.
PanicsIfShort == pc = "panic" => Supply < Needed

\* Memory that is up has the whole heap mapped, and had the frames for it.
UpIfEnough == pc = "up" => HeapMapped /\ Needed <= Supply

MInv ==
  /\ MTypeOK /\ Shape /\ FromAllocator /\ Count /\ PanicsIfShort /\ NoFrameTwice

\* The table entry that maps a page, at each of the four levels.
LEMMA EntryIs ==
  ASSUME NEW l \in 1..4, NEW p \in Nat
  PROVE  /\ Span[l] \in Nat \ {0}
         /\ Entry(l, p) = <<l, p \div Span[l]>>
         /\ l = 1 => Entry(l, p) = <<1, p>>
<1>1. Fanout \in Nat \ {0}
  BY MemoryAssumption
<1>2. Fanout * Fanout \in Nat \ {0}
  BY <1>1
<1>3. Fanout * Fanout * Fanout \in Nat \ {0}
  BY <1>1, <1>2
<1>4. Span[l] \in Nat \ {0} /\ (l = 1 => Span[l] = 1)
  <2>1. l = 1 \/ l = 2 \/ l = 3 \/ l = 4
    OBVIOUS
  <2> QED
    BY <1>1, <1>2, <1>3, <2>1 DEF Span
<1>5. l = 1 => p \div Span[l] = p
  BY <1>4
<1> QED
  BY <1>4, <1>5 DEF Entry

\* The heap needs finitely many entries.
LEMMA AllFinite == IsFiniteSet(All)
<1>1. ASSUME NEW l \in 1..4, NEW p \in FirstPage..LastPage
      PROVE  Entry(l, p) \in (1..4) \X (0..LastPage)
  <2>1. p \in Nat /\ LastPage \in Nat /\ p <= LastPage
    BY HeapPagesAre
  <2>2. p \div Span[l] \in 0..p
    <3>1. PICK d \in Nat \ {0} : d = Span[l]
      BY <2>1, EntryIs
    <3>2. p = d * (p \div d) + (p % d) /\ p \div d \in Nat /\ p % d \in 0..d - 1
      BY <2>1, DivMod
    <3>3. PICK q \in Nat : q = p \div d
      BY <3>2
    <3>4. q <= d * q
      BY <3>1, <3>3
    <3> QED
      BY <2>1, <3>1, <3>2, <3>3, <3>4
  <2> QED
    BY <2>1, <2>2, EntryIs
<1>2. IsFiniteSet((1..4) \X (0..LastPage))
  <2>1. 1 \in Int /\ 4 \in Int /\ 0 \in Int /\ LastPage \in Int
    BY HeapPagesAre
  <2>2. IsFiniteSet(1..4) /\ IsFiniteSet(0..LastPage)
    BY <2>1, FS_Interval
  <2> QED
    BY <2>2, FS_Product
<1>3. All \subseteq (1..4) \X (0..LastPage)
  BY <1>1 DEF All
<1> QED
  BY <1>2, <1>3, FS_Subset

\* And Needed is their number.
LEMMA NeededIs == Needed = Cardinality(All) /\ Needed \in Nat
<1>1. {Entry(l, p) : l \in 1..4, p \in HeapPages} = All
  <2>1. HeapPages = FirstPage..LastPage
    BY HeapPagesAre
  <2> QED
    BY <2>1 DEF All
<1>2. Needed = Cardinality(All)
  BY <1>1 DEF Needed
<1> QED
  BY <1>2, AllFinite, FS_CardinalityType

\* A set that lacks an element of a finite one is smaller.
LEMMA CardinalityBelow ==
  ASSUME NEW S, NEW T, IsFiniteSet(T), S \subseteq T, NEW x \in T, x \notin S
  PROVE  /\ IsFiniteSet(S) /\ Cardinality(S) \in Nat /\ Cardinality(T) \in Nat
         /\ Cardinality(S) + 1 <= Cardinality(T)
<1>1. IsFiniteSet(S) /\ Cardinality(S) \in Nat /\ Cardinality(T) \in Nat
  BY FS_Subset, FS_CardinalityType
<1>2. Cardinality(S \union {x}) = Cardinality(S) + 1
  BY <1>1, FS_AddElement
<1>3. Cardinality(S \union {x}) <= Cardinality(T)
  <2>1. S \union {x} \in SUBSET T
    OBVIOUS
  <2> QED
    BY <2>1, FS_Subset
<1> QED
  BY <1>1, <1>2, <1>3

\* The entries behind the page at hand are entries of the heap, and the
\* page's own entry is not among them.
LEMMA EntriesAhead ==
  ASSUME page \in FirstPage..LastPage, level \in 1..4
  PROVE  /\ page \in Nat
         /\ Behind \union Above \subseteq All
         /\ \A l \in 1..4 : Entry(l, page) \in All
         /\ Entry(1, page) \notin Behind \union Above
         /\ level # 1 => Entry(1, page) # Entry(level, page)
<1>1. page \in Nat /\ FirstPage \in Nat /\ LastPage \in Nat
  BY HeapPagesAre
<1>2. Behind \subseteq All
  <2>1. FirstPage..page - 1 \subseteq FirstPage..LastPage
    BY <1>1
  <2> QED
    BY <2>1 DEF Behind, All
<1>3. \A l \in 1..4 : Entry(l, page) \in All
  BY DEF All
<1>4. Above \subseteq All
  BY <1>3 DEF Above
<1>5. Entry(1, page) = <<1, page>>
  BY <1>1, EntryIs
<1>6. Entry(1, page) \notin Behind
  <2> SUFFICES ASSUME NEW l \in 1..4, NEW p \in FirstPage..page - 1, Entry(l, p) = <<1, page>>
               PROVE  FALSE
    BY <1>5 DEF Behind
  <2>1. p \in Nat /\ p # page
    BY <1>1
  <2>2. l = 1
    BY <2>1, EntryIs
  <2> QED
    BY <2>1, <2>2, EntryIs
<1>7. Entry(1, page) \notin Above
  <2> SUFFICES ASSUME NEW l \in level + 1..4, Entry(l, page) = <<1, page>>
               PROVE  FALSE
    BY <1>5 DEF Above
  <2>1. l \in 1..4 /\ l # 1
    OBVIOUS
  <2> QED
    BY <1>1, <2>1, EntryIs
<1>8. level # 1 => Entry(1, page) # Entry(level, page)
  BY <1>1, <1>5, EntryIs
<1> QED
  BY <1>1, <1>2, <1>3, <1>4, <1>6, <1>7, <1>8

\* The frames of the map, as MInv needs to know them
LEMMA SupplyType ==
  ASSUME memory_map \in Maps
  PROVE  /\ Supply \in Nat
         /\ \A i, j \in 1..Supply :
              usable_frames(memory_map)[i] = usable_frames(memory_map)[j] => i = j
<1>1. PICK s : s = usable_frames(memory_map)
  OBVIOUS
<1>2. s \in Seq(UsableOf(memory_map)) /\ IsInjective(s)
  BY <1>1, UsableFrames
<1>3. Len(s) \in Nat /\ DOMAIN s = 1..Len(s)
  BY <1>2, LenProperties
<1>4. \A i, j \in 1..Len(s) : s[i] = s[j] => i = j
  BY <1>2, <1>3 DEF IsInjective
<1> QED
  BY <1>1, <1>3, <1>4 DEF Supply

\* The invariant holds before the first page.
LEMMA MInvInit == Init => MInv
<1> SUFFICES ASSUME Init PROVE MInv
  OBVIOUS
<1> USE DEF Init
<1>1. DOMAIN entries = {}
  OBVIOUS
<1>2. FirstPage \in Nat /\ LastPage \in Nat /\ FirstPage <= LastPage
  BY HeapPagesAre
<1>3. MTypeOK
  BY <1>1, <1>2 DEF MTypeOK
<1>4. Behind = {}
  BY <1>2 DEF Behind
<1>5. Shape
  BY <1>1, <1>2, <1>4 DEF Shape
<1>6. FromAllocator /\ NoFrameTwice /\ PanicsIfShort
  BY <1>1 DEF FromAllocator, NoFrameTwice, PanicsIfShort
<1>7. Count
  BY <1>1, SupplyType, FS_EmptySet DEF Count
<1> QED
  BY <1>3, <1>5, <1>6, <1>7 DEF MInv

\* What a fresh frame is: one that no entry has, and not the one that waits
LEMMA FreshFrame ==
  ASSUME MInv, HasFrame
  PROVE  /\ next + 1 \in 1..Supply
         /\ NextFrame = usable_frames(memory_map)[next + 1]
         /\ \A e \in DOMAIN entries : entries[e] # NextFrame
         /\ pc = "table" => frame # NextFrame
<1>1. next + 1 \in 1..Supply /\ next \in Nat
  BY SupplyType DEF MInv, MTypeOK, HasFrame, Supply
<1>2. ASSUME NEW f, Handed(f) PROVE f # NextFrame
  <2>1. PICK i \in 1..next : i <= Supply /\ f = usable_frames(memory_map)[i]
    BY <1>2 DEF Handed
  <2>2. i \in 1..Supply /\ i # next + 1
    BY <1>1, <2>1
  <2> QED
    BY <1>1, <2>1, <2>2, SupplyType DEF NextFrame, MInv, MTypeOK
<1> QED
  BY <1>1, <1>2 DEF NextFrame, MInv, FromAllocator

\* The entries made so far are finitely many.
LEMMA DomainFinite ==
  ASSUME MInv, pc \in {"frame", "table"}
  PROVE  IsFiniteSet(DOMAIN entries) /\ Cardinality(DOMAIN entries) \in Nat
<1>1. page \in FirstPage..LastPage /\ level \in 1..4
  BY HeapPagesAre DEF MInv, MTypeOK, Shape
<1>2. DOMAIN entries \subseteq All
  BY <1>1, EntriesAhead DEF MInv, Shape
<1> QED
  BY <1>2, AllFinite, FS_Subset, FS_CardinalityType

\* A panic for want of a frame: more entries are needed than have frames.
LEMMA ShortOfFrames ==
  ASSUME MInv, ~HasFrame,
         \/ pc = "frame"
         \/ pc = "table" /\ level # 1 /\ ~Present(level, page)
  PROVE  Supply < Needed
<1>1. page \in FirstPage..LastPage /\ level \in 1..4
  BY HeapPagesAre DEF MInv, MTypeOK, Shape
<1>2. Supply \in Nat /\ next \in Nat /\ next <= Supply /\ ~(next < Supply)
  BY SupplyType DEF MInv, MTypeOK, Count, HasFrame, Supply
<1>3. next = Supply
  BY <1>2
<1>4. IsFiniteSet(All) /\ Needed = Cardinality(All)
  BY AllFinite, NeededIs
<1>5. Entry(1, page) \in All /\ Entry(level, page) \in All
  BY <1>1, EntriesAhead
<1>6. CASE pc = "frame"
  <2>1. DOMAIN entries = Behind /\ next = Cardinality(DOMAIN entries) + 0
    BY <1>6 DEF MInv, Shape, Count
  <2>2. DOMAIN entries \subseteq All /\ Entry(1, page) \notin DOMAIN entries
    BY <1>1, <2>1, EntriesAhead
  <2>3. Cardinality(DOMAIN entries) + 1 <= Cardinality(All)
        /\ Cardinality(DOMAIN entries) \in Nat /\ Cardinality(All) \in Nat
    BY <1>4, <1>5, <2>2, CardinalityBelow
  <2> QED
    BY <1>3, <1>4, <2>1, <2>3
<1>7. CASE pc = "table" /\ level # 1 /\ ~Present(level, page)
  <2>1. DOMAIN entries = Behind \union Above /\ next = Cardinality(DOMAIN entries) + 1
    BY <1>7 DEF MInv, Shape, Count
  <2>2. PICK more : more = DOMAIN entries \union {Entry(level, page)}
    OBVIOUS
  <2>3. /\ DOMAIN entries \subseteq All /\ Entry(level, page) \notin DOMAIN entries
        /\ more \subseteq All /\ Entry(1, page) \notin more
    BY <1>1, <1>5, <1>7, <2>1, <2>2, EntriesAhead DEF Present
  <2>4. Cardinality(more) + 1 <= Cardinality(All) /\ Cardinality(All) \in Nat
    BY <1>4, <1>5, <2>3, CardinalityBelow
  <2>5. IsFiniteSet(DOMAIN entries) /\ Cardinality(DOMAIN entries) \in Nat
    BY <1>4, <1>5, <2>3, CardinalityBelow
  <2>6. Cardinality(more) = Cardinality(DOMAIN entries) + 1
    BY <2>2, <2>3, <2>5, FS_AddElement
  <2> QED
    BY <1>3, <1>4, <2>1, <2>4, <2>5, <2>6
<1> QED
  BY <1>6, <1>7

\* A frame that was handed out stays handed out.
LEMMA HandedLater ==
  ASSUME MTypeOK, next' \in {next, next + 1}, UNCHANGED memory_map, NEW f, Handed(f)
  PROVE  Handed(f)'
<1>1. PICK i \in 1..next : i <= Supply /\ f = usable_frames(memory_map)[i]
  BY DEF Handed
<1>2. i \in 1..next'
  BY DEF MTypeOK
<1> QED
  BY <1>1, <1>2 DEF Handed, Supply

\* Allocate_frame keeps the invariant.
LEMMA AllocateFrameStep == MInv /\ allocate_frame => MInv'
<1> SUFFICES ASSUME MInv, allocate_frame PROVE MInv'
  OBVIOUS
<1>0. MTypeOK /\ Shape /\ FromAllocator /\ Count /\ NoFrameTwice
  BY DEF MInv
<1>1. pc = "frame" /\ next' = next + 1 /\ UNCHANGED <<memory_map, entries, page>>
  BY DEF allocate_frame
<1>2. Supply' = Supply /\ Behind' = Behind /\ Needed' = Needed
  BY <1>1 DEF Supply, Behind, Needed, Entry
<1>3. CASE HasFrame
  <2>1. frame' = NextFrame /\ level' = 4 /\ pc' = "table"
    BY <1>3 DEF allocate_frame
  <2>2. MTypeOK'
    BY <1>0, <1>1, <2>1 DEF MTypeOK
  <2>3. Shape'
    <3>1. Above' = {}
      BY <2>1 DEF Above
    <3> QED
      BY <1>0, <1>1, <1>2, <2>1, <3>1 DEF Shape
  <2>4. FromAllocator'
    <3>1. \A e \in DOMAIN entries' : Handed(entries[e])'
      BY <1>0, <1>1, HandedLater DEF FromAllocator
    <3>2. Handed(frame)'
      BY <1>0, <1>1, <1>2, <1>3, <2>1, FreshFrame DEF Handed, MTypeOK
    <3> QED
      BY <3>1, <3>2 DEF FromAllocator
  <2>5. Count'
    <3>1. Cardinality(DOMAIN entries) \in Nat
      BY <1>1, DomainFinite
    <3> QED
      BY <1>0, <1>1, <1>2, <1>3, <2>1, <3>1, FreshFrame DEF Count, MTypeOK
  <2>6. NoFrameTwice'
    BY <1>0, <1>1, <1>3, <2>1, FreshFrame DEF NoFrameTwice
  <2> QED
    BY <2>1, <2>2, <2>3, <2>4, <2>5, <2>6 DEF MInv, PanicsIfShort
<1>4. CASE ~HasFrame
  <2>1. pc' = "panic" /\ UNCHANGED <<frame, level>>
    BY <1>4 DEF allocate_frame
  <2>2. Supply < Needed
    BY <1>1, <1>4, ShortOfFrames
  <2>3. FromAllocator'
    BY <1>0, <1>1, <2>1, HandedLater DEF FromAllocator
  <2> QED
    BY <1>0, <1>1, <1>2, <2>1, <2>2, <2>3
       DEF MInv, MTypeOK, Shape, Count, PanicsIfShort, NoFrameTwice
<1> QED
  BY <1>3, <1>4

\* Create_next_table keeps the invariant.
LEMMA CreateNextTableStep == MInv /\ create_next_table => MInv'
<1> SUFFICES ASSUME MInv, create_next_table PROVE MInv'
  OBVIOUS
<1>0. MTypeOK /\ Shape /\ FromAllocator /\ Count /\ NoFrameTwice
  BY DEF MInv
<1>1. pc = "table" /\ level > 1 /\ UNCHANGED <<memory_map, page, frame>>
  BY DEF create_next_table
<1>2. Supply' = Supply /\ Behind' = Behind /\ Needed' = Needed
  BY <1>1 DEF Supply, Behind, Needed, Entry
<1>3. level \in 2..4 /\ level \in 1..4 /\ page \in FirstPage..LastPage
  BY <1>0, <1>1, HeapPagesAre DEF MTypeOK, Shape
<1>4. DOMAIN entries = Behind \union Above
  BY <1>0, <1>1 DEF Shape
<1>5. level' = level - 1 => Above' = Above \union {Entry(level, page)}
  <2> SUFFICES ASSUME level' = level - 1 PROVE Above' = Above \union {Entry(level, page)}
    OBVIOUS
  <2>1. level' + 1..4 = (level + 1..4) \union {level}
    BY <1>3
  <2> QED
    BY <1>1, <2>1 DEF Above, Entry
<1>6. CASE Present(level, page)
  <2>1. UNCHANGED <<next, entries, pc>> /\ level' = level - 1
    BY <1>6 DEF create_next_table
  <2>2. Shape'
    BY <1>0, <1>1, <1>2, <1>4, <1>5, <1>6, <2>1 DEF Shape, Present
  <2>3. FromAllocator'
    BY <1>0, <1>1, <2>1, HandedLater DEF FromAllocator
  <2> QED
    BY <1>0, <1>1, <1>2, <1>3, <2>1, <2>2, <2>3 DEF MInv, MTypeOK, Count, PanicsIfShort, NoFrameTwice
<1>7. CASE ~Present(level, page) /\ HasFrame
  <2>1. /\ next' = next + 1 /\ entries' = SetEntry(level, page, NextFrame)
        /\ level' = level - 1 /\ UNCHANGED pc
    BY <1>7 DEF create_next_table
  <2>2. PICK new : new = Entry(level, page)
    OBVIOUS
  <2>3. /\ DOMAIN entries' = DOMAIN entries \union {new} /\ new \notin DOMAIN entries
        /\ entries' = [e \in DOMAIN entries' |-> entries'[e]]
        /\ entries'[new] = NextFrame
        /\ \A e \in DOMAIN entries : entries'[e] = entries[e]
    <3>1. PICK next_entries : next_entries = SetEntry(level, page, NextFrame)
      OBVIOUS
    <3>2. /\ DOMAIN next_entries = DOMAIN entries \union {new}
          /\ next_entries = [e \in DOMAIN next_entries |-> next_entries[e]]
          /\ next_entries[new] = NextFrame
          /\ \A e \in DOMAIN entries : e # new => next_entries[e] = entries[e]
      BY <2>2, <3>1 DEF SetEntry
    <3>3. new \notin DOMAIN entries
      BY <1>7, <2>2 DEF Present
    <3> QED
      BY <2>1, <3>1, <3>2, <3>3
  <2>4. MTypeOK'
    BY <1>0, <1>1, <1>3, <2>1, <2>3 DEF MTypeOK
  <2>5. Shape'
    BY <1>0, <1>1, <1>2, <1>4, <1>5, <2>1, <2>2, <2>3 DEF Shape
  <2>6. FromAllocator'
    <3>1. ASSUME NEW e \in DOMAIN entries'
          PROVE  Handed(entries[e])'
      <4>1. CASE e = new
        BY <1>0, <1>1, <1>2, <1>7, <2>1, <2>3, <4>1, FreshFrame DEF Handed, MTypeOK
      <4>2. CASE e \in DOMAIN entries
        <5>1. PICK f : f = entries[e] /\ f = entries'[e]
          BY <2>3, <4>2
        <5>2. Handed(f)
          BY <1>0, <4>2, <5>1 DEF FromAllocator
        <5>3. Handed(f)'
          BY <1>0, <1>1, <2>1, <5>2, HandedLater
        <5> QED
          BY <5>1, <5>3 DEF Handed
      <4> QED
        BY <2>3, <4>1, <4>2
    <3>2. Handed(frame)'
      BY <1>0, <1>1, <2>1, HandedLater DEF FromAllocator
    <3> QED
      BY <3>1, <3>2 DEF FromAllocator
  <2>7. Count'
    <3>1. IsFiniteSet(DOMAIN entries) /\ Cardinality(DOMAIN entries) \in Nat
      BY <1>1, DomainFinite
    <3>2. Cardinality(DOMAIN entries') = Cardinality(DOMAIN entries) + 1
      BY <2>3, <3>1, FS_AddElement
    <3> QED
      BY <1>0, <1>1, <1>2, <1>7, <2>1, <3>1, <3>2, FreshFrame DEF Count, MTypeOK
  <2>8. NoFrameTwice'
    BY <1>0, <1>1, <1>7, <2>1, <2>3, FreshFrame DEF NoFrameTwice
  <2> QED
    BY <1>1, <2>1, <2>4, <2>5, <2>6, <2>7, <2>8 DEF MInv, PanicsIfShort
<1>8. CASE ~Present(level, page) /\ ~HasFrame
  <2>1. next' = next + 1 /\ pc' = "panic" /\ UNCHANGED <<entries, level>>
    BY <1>8 DEF create_next_table
  <2>2. Supply < Needed
    BY <1>1, <1>3, <1>8, ShortOfFrames
  <2>3. FromAllocator'
    BY <1>0, <1>1, <2>1, HandedLater DEF FromAllocator
  <2> QED
    BY <1>0, <1>1, <1>2, <2>1, <2>2, <2>3
       DEF MInv, MTypeOK, Shape, Count, PanicsIfShort, NoFrameTwice
<1> QED
  BY <1>6, <1>7, <1>8

\* Map_page keeps the invariant.
LEMMA MapPageStep == MInv /\ map_page => MInv'
<1> SUFFICES ASSUME MInv, map_page PROVE MInv'
  OBVIOUS
<1>0. MTypeOK /\ Shape /\ FromAllocator /\ Count /\ NoFrameTwice
  BY DEF MInv
<1>1. pc = "table" /\ level = 1 /\ UNCHANGED <<memory_map, next, level, frame>>
  BY DEF map_page
<1>2. Supply' = Supply /\ Needed' = Needed
  BY <1>1 DEF Supply, Needed, Entry
<1>3. level \in 1..4 /\ page \in FirstPage..LastPage /\ page \in Nat
      /\ FirstPage \in Nat /\ LastPage \in Nat
  BY <1>0, <1>1, HeapPagesAre DEF MTypeOK, Shape
<1>4. DOMAIN entries = Behind \union Above
  BY <1>0, <1>1 DEF Shape
<1>5. PICK new : new = Entry(1, page)
  OBVIOUS
<1>6. new \notin DOMAIN entries /\ ~Present(1, page)
  BY <1>3, <1>4, <1>5, EntriesAhead DEF Present
<1>7. /\ entries' = SetEntry(1, page, frame) /\ page' = page + 1
      /\ pc' = IF page = LastPage THEN "heap" ELSE "frame"
  BY <1>6 DEF map_page
<1>8. /\ DOMAIN entries' = DOMAIN entries \union {new}
      /\ entries' = [e \in DOMAIN entries' |-> entries'[e]]
      /\ entries'[new] = frame
      /\ \A e \in DOMAIN entries : entries'[e] = entries[e]
  <2>1. PICK t : t = SetEntry(1, page, frame)
    OBVIOUS
  <2>2. /\ DOMAIN t = DOMAIN entries \union {new}
        /\ t = [e \in DOMAIN t |-> t[e]]
        /\ t[new] = frame
        /\ \A e \in DOMAIN entries : e # new => t[e] = entries[e]
    BY <1>5, <2>1 DEF SetEntry
  <2> QED
    BY <1>6, <1>7, <2>1, <2>2
<1>9. Behind' = Behind \union Above \union {new}
  <2>1. Behind' = {Entry(l, p) : l \in 1..4, p \in FirstPage..page}
    <3>1. page' - 1 = page
      BY <1>3, <1>7
    <3> QED
      BY <3>1 DEF Behind, Entry
  <2>2. FirstPage..page = (FirstPage..page - 1) \union {page}
    BY <1>3
  <2>3. 1..4 = (2..4) \union {1}
    OBVIOUS
  <2>4. Above = {Entry(l, page) : l \in 2..4}
    BY <1>1 DEF Above
  <2>5. ASSUME NEW l \in 1..4, NEW p \in FirstPage..page
        PROVE  Entry(l, p) \in Behind \union Above \union {new}
    <3>1. CASE p \in FirstPage..page - 1
      BY <3>1 DEF Behind
    <3>2. CASE p = page /\ l \in 2..4
      BY <2>4, <3>2
    <3>3. CASE p = page /\ l = 1
      BY <1>5, <3>3
    <3> QED
      BY <2>2, <2>3, <3>1, <3>2, <3>3
  <2>6. ASSUME NEW x \in Behind \union Above \union {new}
        PROVE  \E l \in 1..4, p \in FirstPage..page : x = Entry(l, p)
    <3>1. page \in FirstPage..page
      BY <1>3
    <3>2. CASE x \in Behind
      BY <2>2, <3>2 DEF Behind
    <3>3. CASE x \in Above
      BY <2>4, <3>1, <3>3
    <3>4. CASE x = new
      BY <1>5, <3>1, <3>4
    <3> QED
      BY <3>2, <3>3, <3>4
  <2> QED
    BY <2>1, <2>5, <2>6
<1>10. MTypeOK'
  BY <1>0, <1>1, <1>3, <1>7, <1>8 DEF MTypeOK
<1>11. Shape'
  BY <1>1, <1>3, <1>4, <1>7, <1>8, <1>9 DEF Shape
<1>12. FromAllocator'
  <2>1. ASSUME NEW e \in DOMAIN entries'
        PROVE  Handed(entries[e])'
    <3>1. PICK f : f = entries'[e]
      OBVIOUS
    <3>2. Handed(f)
      BY <1>0, <1>1, <1>8, <3>1 DEF FromAllocator
    <3>3. Handed(f)'
      BY <1>0, <1>1, <3>2, HandedLater
    <3> QED
      BY <3>1, <3>3 DEF Handed
  <2>2. pc' # "table"
    BY <1>7
  <2> QED
    BY <2>1, <2>2 DEF FromAllocator
<1>13. Count'
  <2>1. IsFiniteSet(DOMAIN entries) /\ Cardinality(DOMAIN entries) \in Nat
    BY <1>1, DomainFinite
  <2>2. Cardinality(DOMAIN entries') = Cardinality(DOMAIN entries) + 1
    BY <1>6, <1>8, <2>1, FS_AddElement
  <2>3. pc' # "table" /\ pc' # "panic"
    BY <1>7
  <2> QED
    BY <1>0, <1>1, <1>2, <2>1, <2>2, <2>3 DEF Count
<1>14. NoFrameTwice'
  BY <1>0, <1>1, <1>7, <1>8 DEF NoFrameTwice
<1>15. PanicsIfShort'
  BY <1>7 DEF PanicsIfShort
<1> QED
  BY <1>10, <1>11, <1>12, <1>13, <1>14, <1>15 DEF MInv

\* Init_heap keeps the invariant.
LEMMA InitHeapStep == MInv /\ init_heap => MInv'
<1> SUFFICES ASSUME MInv, init_heap PROVE MInv'
  OBVIOUS
<1>0. MTypeOK /\ Shape /\ FromAllocator /\ Count /\ NoFrameTwice
  BY DEF MInv
<1>1. pc = "heap" /\ UNCHANGED <<memory_map, next, entries, page, level, frame>>
  BY DEF init_heap
<1>2. Present(1, Page(HEAP_START))
  <2>1. FirstPage \in FirstPage..page - 1 /\ 1 \in 1..4
    BY <1>0, <1>1, HeapPagesAre DEF Shape
  <2>2. Entry(1, FirstPage) \in Behind
    BY <2>1 DEF Behind
  <2> QED
    BY <1>0, <1>1, <2>2 DEF Shape, Present, FirstPage
<1>3. pc' = "up"
  BY <1>2 DEF init_heap
<1>4. Supply' = Supply /\ Behind' = Behind
  BY <1>1 DEF Supply, Behind, Entry
<1>5. FromAllocator'
  BY <1>0, <1>1, <1>3, HandedLater DEF FromAllocator
<1> QED
  BY <1>0, <1>1, <1>3, <1>4, <1>5 DEF MInv, MTypeOK, Shape, Count, NoFrameTwice, PanicsIfShort

\* Every step keeps the invariant.
LEMMA MInvNext == MInv /\ [Next]_vars => MInv'
<1>1. MInv /\ UNCHANGED vars => MInv'
  BY DEF vars, MInv, MTypeOK, Shape, Behind, Above, Entry, FromAllocator, Handed, Supply,
         Count, PanicsIfShort, Needed, NoFrameTwice
<1> QED
  BY <1>1, AllocateFrameStep, CreateNextTableStep, MapPageStep, InitHeapStep DEF Next

\* The inductive invariant of the memory manager holds in every state.
LEMMA MInvAlways == Spec => []MInv
  BY MInvInit, MInvNext, PTL DEF Spec

-----------------------------------------------------------------------------
(***************************************************************************)
(* The theorems.                                                           *)
(***************************************************************************)

\* For every page size, fan-out, heap and memory map, no frame is handed out
\* for two page-table entries, and the frame that waits for its page while
\* map_to takes frames for tables is none of those.
THEOREM FramesOnce == Spec => []NoFrameTwice
<1>1. MInv => NoFrameTwice
  BY DEF MInv
<1> QED
  BY <1>1, MInvAlways, PTL

\* With every entry made, no frame was used twice, so there were enough of
\* them.
LEMMA UpIsEnough == MInv => UpIfEnough
<1> SUFFICES ASSUME MInv, pc = "up" PROVE HeapMapped /\ Needed <= Supply
  BY DEF UpIfEnough
<1>1. page = LastPage + 1 /\ DOMAIN entries = Behind
  BY DEF MInv, Shape
<1>2. page - 1 = LastPage /\ HeapPages = FirstPage..LastPage
  BY <1>1, HeapPagesAre
<1>3. DOMAIN entries = All
  BY <1>1, <1>2 DEF Behind, All
<1>4. HeapMapped
  BY <1>2, <1>3 DEF HeapMapped, All
<1>5. next <= Supply /\ next = Cardinality(All) + 0
  BY <1>3 DEF MInv, Count
<1> QED
  BY <1>4, <1>5, NeededIs

\* The safety half of ComesUpIffEnough, for every memory map: when memory is
\* up, the whole heap is mapped and the map held the frames for that; when
\* the boot panics, it did not. No other cause of a panic is reachable: no
\* page is mapped twice, and the heap's first byte can be written.
THEOREM UpOrShort == Spec => [](UpIfEnough /\ PanicsIfShort)
<1>1. MInv => PanicsIfShort
  BY DEF MInv
<1> QED
  BY <1>1, UpIsEnough, MInvAlways, PTL

\* ComesUpIffEnough, as far as it is safety: if the boot gets past its memory at
\* all, it has the whole heap mapped or it has panicked, as the number of frames
\* says.
THEOREM UpIffEnoughIfItEnds == Spec /\ <>(pc \in {"up", "panic"}) => ComesUpIffEnough
<1>1. MInv => Supply \in Nat /\ Needed \in Nat
  BY NeededIs, SupplyType DEF MInv, MTypeOK
<1>2. MInv /\ UpIfEnough /\ PanicsIfShort /\ pc \in {"up", "panic"} =>
        IF Needed <= Len(usable_frames(memory_map)) THEN pc = "up" /\ HeapMapped
                                                    ELSE pc = "panic"
  BY <1>1 DEF UpIfEnough, PanicsIfShort, Supply
<1> QED
  BY <1>2, UpOrShort, MInvAlways, PTL DEF ComesUpIffEnough

-----------------------------------------------------------------------------

\* A frame that was handed out lies in usable memory.
LEMMA HandedUsable ==
  ASSUME memory_map \in Maps, NEW f, Handed(f)
  PROVE  f \in UsableMemory
<1>1. PICK i \in 1..next : i <= Supply /\ f = usable_frames(memory_map)[i]
  BY DEF Handed
<1>2. PICK s : s = usable_frames(memory_map)
  OBVIOUS
<1>3. s \in Seq(UsableOf(memory_map)) /\ Len(s) = Supply /\ Supply \in Nat
  BY <1>2, UsableFrames, SupplyType DEF Supply
<1>4. i \in 1..Len(s)
  BY <1>1, <1>3
<1>5. f \in UsableOf(memory_map)
  BY <1>1, <1>2, <1>3, <1>4, ElementOfSeq
<1> QED
  BY <1>5 DEF UsableOf, Whole, UsableMemory

\* The owners of the frames, as the refinement names them
Free == UsableMemory \ Range(entries)
Tables == {entries[e] : e \in {d \in DOMAIN entries : d[1] > 1}}
Mapped == [p \in {q \in HeapPages : Present(1, q)} |-> entries[Entry(1, p)]]

\* At first nobody owns a frame, in both specifications.
LEMMA OwnedInit == Init => Owned!Init
<1> SUFFICES ASSUME Init PROVE Owned!Init
  OBVIOUS
<1>1. DOMAIN entries = {}
  BY DEF Init
<1>2. UsableMemory \ Range(entries) \in SUBSET Nat
  <2> SUFFICES ASSUME NEW f \in UsableMemory PROVE f \in Nat
    OBVIOUS
  <2>1. PICK i \in 1..Len(memory_map) : f \in Whole(memory_map[i])
    BY DEF UsableMemory, Whole
  <2>2. PageSize \in Nat \ {0} /\ memory_map[i].base \in Nat
    <3>1. memory_map \in Seq([base : Nat, length : Nat, usable : BOOLEAN])
      BY MemoryAssumption DEF Init
    <3>2. memory_map[i] \in [base : Nat, length : Nat, usable : BOOLEAN]
      BY <3>1, ElementOfSeq
    <3> QED
      BY <3>2, MemoryAssumption
  <2>3. (memory_map[i].base + PageSize - 1) \div PageSize \in Nat
    <3>1. memory_map[i].base + PageSize - 1 \in Nat
      BY <2>2
    <3> QED
      BY <2>2, <3>1, DivMod
  <2> QED
    BY <2>1, <2>3 DEF Whole
<1>3. {entries[e] : e \in {d \in DOMAIN entries : d[1] > 1}} = {}
  BY <1>1
<1>4. [p \in {q \in HeapPages : Present(1, q)} |-> entries[Entry(1, p)]] = [p \in {} |-> 0]
  BY <1>1 DEF Present
<1> QED
  BY <1>2, <1>3, <1>4 DEF Owned!Init

\* A new entry adds its frame to those in use.
LEMMA RangeGrows ==
  ASSUME NEW g, NEW h, NEW new, NEW f,
         DOMAIN h = DOMAIN g \union {new}, h[new] = f,
         \A e \in DOMAIN g : h[e] = g[e]
  PROVE  Range(h) = Range(g) \union {f}
  BY DEF Range

\* Every step gives one frame an owner, or none.
LEMMA OwnedStep == MInv /\ [Next]_vars => [Owned!Next]_<<Free, Tables, Mapped>>
<1> SUFFICES ASSUME MInv, [Next]_vars PROVE [Owned!Next]_<<Free, Tables, Mapped>>
  OBVIOUS
<1>0. MTypeOK /\ Shape /\ FromAllocator /\ NoFrameTwice /\ memory_map \in Maps
  BY DEF MInv, MTypeOK
<1>1. ASSUME UNCHANGED <<memory_map, entries>>
      PROVE  UNCHANGED <<Free, Tables, Mapped>>
  BY <1>1 DEF Free, Tables, Mapped, UsableMemory, Present, Entry
<1>2. CASE create_next_table /\ entries' # entries
  <2>1. /\ pc = "table" /\ level > 1 /\ ~Present(level, page) /\ HasFrame
        /\ entries' = SetEntry(level, page, NextFrame) /\ UNCHANGED memory_map
    BY <1>2 DEF create_next_table
  <2>2. PICK new, f : new = Entry(level, page) /\ f = NextFrame
    OBVIOUS
  <2>3. /\ DOMAIN entries' = DOMAIN entries \union {new} /\ new \notin DOMAIN entries
        /\ entries'[new] = f
        /\ \A e \in DOMAIN entries : entries'[e] = entries[e]
    BY <2>1, <2>2 DEF SetEntry, Present
  <2>4. new[1] = level /\ level \in 1..4 /\ level # 1 /\ page \in Nat
    BY <1>0, <2>1, <2>2, HeapPagesAre, EntryIs DEF MTypeOK
  <2>5. f \in UsableMemory /\ f \notin Range(entries)
    <3>1. f \notin Range(entries)
      BY <2>1, <2>2, FreshFrame DEF Range
    <3>2. PICK s : s = usable_frames(memory_map)
      OBVIOUS
    <3>3. s \in Seq(UsableOf(memory_map)) /\ next + 1 \in 1..Len(s) /\ f = s[next + 1]
      BY <1>0, <2>1, <2>2, <3>2, UsableFrames, FreshFrame DEF Supply
    <3>4. f \in UsableOf(memory_map)
      BY <3>3, ElementOfSeq
    <3> QED
      BY <3>1, <3>4 DEF UsableOf, Whole, UsableMemory
  <2>6. UsableMemory' = UsableMemory
    BY <2>1 DEF UsableMemory
  <2>7. Free' = Free \ {f}
    BY <2>3, <2>6, RangeGrows DEF Free
  <2>8. Tables' = Tables \union {f}
    BY <2>1, <2>3, <2>4 DEF Tables
  <2>9. Mapped' = Mapped
    <3>1. ASSUME NEW q \in HeapPages PROVE Entry(1, q) # new
      <4>1. q \in Nat
        BY HeapPagesAre
      <4>2. Entry(1, q)[1] = 1
        BY <4>1, EntryIs
      <4> QED
        BY <2>4, <4>2
    <3>2. \A q \in HeapPages : Present(1, q)' = Present(1, q)
      BY <2>3, <3>1 DEF Present, Entry
    <3>3. \A q \in HeapPages : Present(1, q) => entries'[Entry(1, q)] = entries[Entry(1, q)]
      BY <2>3 DEF Present
    <3> QED
      BY <3>2, <3>3 DEF Mapped, Entry
  <2>10. f \in Free
    BY <2>5 DEF Free
  <2> QED
    BY <2>7, <2>8, <2>9, <2>10 DEF Owned!Next, Owned!AddTable, Free, Tables, Mapped
<1>3. CASE map_page /\ entries' # entries
  <2>1. /\ pc = "table" /\ ~Present(1, page)
        /\ entries' = SetEntry(1, page, frame) /\ UNCHANGED memory_map
    BY <1>3 DEF map_page
  <2>2. PICK new, f : new = Entry(1, page) /\ f = frame
    OBVIOUS
  <2>3. /\ DOMAIN entries' = DOMAIN entries \union {new} /\ new \notin DOMAIN entries
        /\ entries'[new] = f
        /\ \A e \in DOMAIN entries : entries'[e] = entries[e]
    BY <2>1, <2>2 DEF SetEntry, Present
  <2>4. page \in Nat /\ page \in HeapPages /\ new = <<1, page>>
    BY <1>0, <2>1, <2>2, HeapPagesAre, EntryIs DEF MTypeOK, Shape
  <2>5. f \in UsableMemory /\ f \notin Range(entries)
    <3>1. f \notin Range(entries)
      BY <1>0, <2>1, <2>2 DEF NoFrameTwice, Range
    <3> QED
      BY <1>0, <2>1, <2>2, <3>1, HandedUsable DEF FromAllocator
  <2>6. UsableMemory' = UsableMemory
    BY <2>1 DEF UsableMemory
  <2>7. Free' = Free \ {f}
    BY <2>3, <2>6, RangeGrows DEF Free
  <2>8. Tables' = Tables
    BY <2>3, <2>4 DEF Tables
  <2>9. /\ page \in HeapPages \ DOMAIN Mapped
        /\ Mapped' = [q \in DOMAIN Mapped \union {page} |-> IF q = page THEN f ELSE Mapped[q]]
    <3>1. ASSUME NEW q \in HeapPages PROVE Entry(1, q) = new <=> q = page
      <4>1. q \in Nat
        BY HeapPagesAre
      <4>2. Entry(1, q) = <<1, q>>
        BY <4>1, EntryIs
      <4> QED
        BY <2>4, <4>2
    <3>2. \A q \in HeapPages : Present(1, q)' <=> Present(1, q) \/ q = page
      BY <2>3, <3>1 DEF Present, Entry
    <3>3. \A q \in HeapPages : Present(1, q) => entries'[Entry(1, q)] = entries[Entry(1, q)]
      BY <2>3 DEF Present
    <3>4. entries'[Entry(1, page)] = f
      BY <2>2, <2>3
    <3>5. DOMAIN Mapped = {q \in HeapPages : Present(1, q)}
      BY DEF Mapped
    <3>6. DOMAIN Mapped' = DOMAIN Mapped \union {page} /\ page \notin DOMAIN Mapped
      BY <2>1, <2>4, <3>2, <3>5 DEF Mapped
    <3> QED
      BY <2>4, <3>2, <3>3, <3>4, <3>5, <3>6 DEF Mapped, Entry
  <2>10. f \in Free
    BY <2>5 DEF Free
  <2> QED
    BY <2>7, <2>8, <2>9, <2>10 DEF Owned!Next, Owned!MapPage, Free, Tables, Mapped
<1>4. UNCHANGED memory_map
  BY DEF Next, allocate_frame, create_next_table, map_page, init_heap, vars
<1>5. \/ create_next_table /\ entries' # entries
      \/ map_page /\ entries' # entries
      \/ UNCHANGED entries
  BY DEF Next, allocate_frame, init_heap, vars
<1> QED
  BY <1>1, <1>2, <1>3, <1>4, <1>5

\* Memory management keeps the promise of AddressSpace, for every memory map:
\* a frame is free, or a page table, or behind one page; it never goes back,
\* and only whole frames of usable memory get an owner.
THEOREM Owners == Spec => OwnedSpec
<1>1. MInv /\ [Next]_vars => [Owned!Next]_<<UsableMemory \ Range(entries),
        {entries[e] : e \in {d \in DOMAIN entries : d[1] > 1}},
        [p \in {q \in HeapPages : Present(1, q)} |-> entries[Entry(1, p)]]>>
  BY OwnedStep DEF Free, Tables, Mapped
<1> QED
  BY <1>1, OwnedInit, MInvAlways, PTL DEF Spec, OwnedSpec, Owned!Spec
=============================================================================

------------------------------- MODULE Memory -------------------------------
(***************************************************************************)
(* Memory management of kernel/src/memory.rs: initialize maps the pages of *)
(* the kernel heap. One bump allocator over the boot loader's memory map   *)
(* supplies the frames behind the pages and the frames of the page tables  *)
(* that map them, in the order in which map_to asks for them.              *)
(*                                                                         *)
(* A frame is its number. A page-table entry is named by its level and by  *)
(* the pages it covers: entries[<<l, i>>] is the frame the level-l entry   *)
(* for the pages p with p \div Span[l] = i points to.                      *)
(***************************************************************************)
EXTENDS Integers, Sequences, FiniteSets, SequencesExt

CONSTANTS PageSize,     \* 4096
          Fanout,       \* 512: entries in a page table
          HEAP_START, HEAP_SIZE,
          Maps          \* the memory maps a boot loader may hand over

VARIABLES memory_map,   \* sequence of [base, length, usable]
          next,         \* PhysicalManager::next
          entries,      \* the page-table entries present below the heap
          page,         \* the page allocate_pages is at
          level,        \* the level map_to has reached
          frame,        \* the frame allocated for the page
          pc            \* "frame", "table", "heap", "up" or "panic"

vars == <<memory_map, next, entries, page, level, frame, pc>>

\* The frames of an entry of the memory map
Frames(e) == [k \in 1..e.length \div PageSize |-> e.base \div PageSize + k - 1]

\* Walks every entry, not the usable ones only.
usable_frames_All(map) ==
  FlattenSeq([i \in 1..Len(map) |-> Frames(map[i])])

\* The frames of usable memory, in the order of the memory map
usable_frames(map) ==
  FlattenSeq([i \in 1..Len(map) |->
                IF map[i].usable THEN Frames(map[i]) ELSE <<>>])

\* The boot loader's promise: usable entries are made of whole pages and do
\* not overlap.
ASSUME MemoryAssumption ==
  /\ PageSize \in Nat \ {0} /\ Fanout \in Nat \ {0}
  /\ HEAP_START \in Nat /\ HEAP_SIZE \in Nat \ {0}
  /\ \A map \in Maps :
       /\ map \in Seq([base : Nat, length : Nat, usable : BOOLEAN])
       /\ \A i \in 1..Len(map) : map[i].usable =>
            /\ map[i].base % PageSize = 0 /\ map[i].length % PageSize = 0
            /\ \A j \in 1..Len(map) : i # j /\ map[j].usable =>
                 \/ map[i].base + map[i].length <= map[j].base
                 \/ map[j].base + map[j].length <= map[i].base

Page(address) == address \div PageSize

\* Takes the byte behind the heap for its last one.
LastPage_Past == Page(HEAP_START + HEAP_SIZE)

\* Page::range_inclusive of the pages of the heap's first and last byte
FirstPage == Page(HEAP_START)
LastPage == Page(HEAP_START + HEAP_SIZE - 1)

\* The pages that an entry of each level covers
Span == <<1, Fanout, Fanout * Fanout, Fanout * Fanout * Fanout>>

Entry(l, p) == <<l, p \div Span[l]>>
Present(l, p) == Entry(l, p) \in DOMAIN entries
SetEntry(l, p, f) ==
  [e \in DOMAIN entries \union {Entry(l, p)} |->
     IF e = Entry(l, p) THEN f ELSE entries[e]]

-----------------------------------------------------------------------------

\* PhysicalManager::allocate_frame: the next frame, if there is one; next
\* moves on in any case.
HasFrame == next < Len(usable_frames(memory_map))
NextFrame == usable_frames(memory_map)[next + 1]

\* The frame behind the page comes first; unwrap panics without one.
allocate_frame ==
  /\ pc = "frame"
  /\ next' = next + 1
  /\ IF HasFrame
       THEN /\ frame' = NextFrame
            /\ level' = 4
            /\ pc' = "table"
       ELSE pc' = "panic" /\ UNCHANGED <<frame, level>>
  /\ UNCHANGED <<memory_map, entries, page>>

\* The allocator is passed by value: the frame is handed out once more.
create_next_table_ByValue ==
  /\ pc = "table" /\ level > 1
  /\ level' = level - 1
  /\ IF Present(level, page)
       THEN UNCHANGED <<entries, pc>>
       ELSE IF HasFrame
         THEN /\ entries' = SetEntry(level, page, NextFrame)
              /\ UNCHANGED pc
         ELSE pc' = "panic" /\ UNCHANGED entries
  /\ UNCHANGED <<memory_map, next, page, frame>>

\* One level of map_to's walk: the table below is there already, or it gets
\* a frame of its own from the same allocator.
create_next_table ==
  /\ pc = "table" /\ level > 1
  /\ IF Present(level, page)
       THEN UNCHANGED <<next, entries>> /\ level' = level - 1 /\ UNCHANGED pc
       ELSE /\ next' = next + 1
            /\ IF HasFrame
                 THEN /\ entries' = SetEntry(level, page, NextFrame)
                      /\ level' = level - 1
                      /\ UNCHANGED pc
                 ELSE pc' = "panic" /\ UNCHANGED <<entries, level>>
  /\ UNCHANGED <<memory_map, page, frame>>

\* The end of map_to: a page that is mapped already is an error, and unwrap
\* panics on it. The loop goes on to the next page of the range.
map_page ==
  /\ pc = "table" /\ level = 1
  /\ IF Present(1, page)
       THEN pc' = "panic" /\ UNCHANGED <<entries, page>>
       ELSE /\ entries' = SetEntry(1, page, frame)
            /\ page' = page + 1
            /\ pc' = IF page = LastPage THEN "heap" ELSE "frame"
  /\ UNCHANGED <<memory_map, next, level, frame>>

\* ALLOCATOR.init writes the heap's first hole, at its start.
init_heap ==
  /\ pc = "heap"
  /\ pc' = IF Present(1, Page(HEAP_START)) THEN "up" ELSE "panic"
  /\ UNCHANGED <<memory_map, next, entries, page, level, frame>>

Init ==
  /\ memory_map \in Maps
  /\ next = 0
  /\ entries = [e \in {} |-> 0]
  /\ page = FirstPage
  /\ level = 4
  /\ frame = 0
  /\ pc = "frame"

Next == allocate_frame \/ create_next_table \/ map_page \/ init_heap

\* Boot is one thread of straight-line code: it never stops between steps.
Spec == Init /\ [][Next]_vars /\ WF_vars(Next)

-----------------------------------------------------------------------------
(***************************************************************************)
(* Properties.                                                             *)
(***************************************************************************)

HeapPages == {Page(a) : a \in HEAP_START..HEAP_START + HEAP_SIZE - 1}

\* Page tables and heap pages come out of one allocator, in an order that
\* depends on which tables are there: no frame is handed out for two of them,
\* and none is the frame that waits while map_to builds the tables for it.
NoFrameTwice ==
  /\ \A d, e \in DOMAIN entries : entries[d] = entries[e] => d = e
  /\ pc = "table" => \A e \in DOMAIN entries : entries[e] # frame

\* Every byte of the heap can be reached through all four levels, and no page
\* outside it is mapped.
HeapMapped == DOMAIN entries = {Entry(l, p) : l \in 1..4, p \in HeapPages}

\* The frames the heap takes: one for each page, one for each table
Needed == Cardinality({Entry(l, p) : l \in 1..4, p \in HeapPages})

\* Memory comes up, with the whole heap mapped, if and only if the memory map
\* has that many usable frames (1029 for the heap of memory.rs), however they
\* are cut into entries; if not, the boot panics.
ComesUpIffEnough ==
  <>(IF Needed <= Len(usable_frames(memory_map)) THEN pc = "up" /\ HeapMapped
                                                 ELSE pc = "panic")

\* The frames that lie in usable memory with all of their bytes
UsableMemory ==
  UNION {LET piece == memory_map[i] IN
         IF piece.usable
           THEN (piece.base + PageSize - 1) \div PageSize ..
                (piece.base + piece.length) \div PageSize - 1
           ELSE {} : i \in 1..Len(memory_map)}

\* Every frame has one owner, and keeps it. Only memory that the boot loader
\* calls usable is ever given one, whatever the order and the cut of the map.
Owned == INSTANCE AddressSpace WITH
  Pages  <- HeapPages,
  free   <- UsableMemory \ Range(entries),
  tables <- {entries[e] : e \in {d \in DOMAIN entries : d[1] > 1}},
  mapped <- [p \in {q \in HeapPages : Present(1, q)} |-> entries[Entry(1, p)]]

OwnedSpec == Owned!Spec

=============================================================================

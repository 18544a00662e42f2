---------------------------- MODULE AddressSpace ----------------------------
(***************************************************************************)
(* What memory management promises: every frame of usable memory has one   *)
(* owner. It is free, or it is a page table, or it backs one page; and     *)
(* nothing takes a frame back.                                             *)
(***************************************************************************)
EXTENDS Integers, Functions

CONSTANT Pages          \* the pages that may be mapped

VARIABLES free,         \* frames without an owner
          tables,       \* frames that hold page tables
          mapped        \* the pages mapped so far, each to its frame

Init ==
  /\ free \in SUBSET Nat
  /\ tables = {}
  /\ mapped = [p \in {} |-> 0]

AddTable ==
  \E f \in free :
    /\ free' = free \ {f}
    /\ tables' = tables \union {f}
    /\ UNCHANGED mapped

MapPage ==
  \E f \in free, p \in Pages \ DOMAIN mapped :
    /\ free' = free \ {f}
    /\ mapped' = [q \in DOMAIN mapped \union {p} |->
                    IF q = p THEN f ELSE mapped[q]]
    /\ UNCHANGED tables

Next == AddTable \/ MapPage

Spec == Init /\ [][Next]_<<free, tables, mapped>>

=============================================================================

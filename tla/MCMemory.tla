------------------------------ MODULE MCMemory ------------------------------
(***************************************************************************)
(* Memory maps of a machine with a few pages of memory: usable pieces, in  *)
(* both orders, between and behind pieces that are not usable.             *)
(***************************************************************************)
EXTENDS Memory

Piece(base, pages, usable) ==
  [base |-> base * PageSize, length |-> pages * PageSize, usable |-> usable]

MCMaps ==
  LET Three(a, b, c) ==
        <<Piece(0, a, TRUE), Piece(a, b, FALSE), Piece(a + b, c, TRUE)>>
  IN  {Three(a, b, c) : a \in 0..8, b \in 0..2, c \in 0..8} \union
      {Reverse(Three(a, 1, c)) : a \in 1..8, c \in 4..8} \union
      {<<[base |-> 1, length |-> 3, usable |-> FALSE], Piece(4, n, TRUE)>> :
         n \in 10..15}

=============================================================================

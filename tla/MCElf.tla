------------------------------- MODULE MCElf --------------------------------
(***************************************************************************)
(* Files with 16-bit arithmetic scaled down to 256: four entries of 64     *)
(* bytes reach the end of it. The tables are anywhere: behind the header,  *)
(* over each other, behind the end, and at an offset that overflows.       *)
(***************************************************************************)
EXTENDS Elf

Tables(numbers) ==
  [offset : {0, 64, U64 - 8}, size : {0, 56, 64}, number : numbers]

MCFiles ==
  [length : {63, 64, 120, 319, 320, 384, 385},
   ph : Tables({0, 1, 2, 6}), sh : Tables({0, 1, 4, 5})]

=============================================================================

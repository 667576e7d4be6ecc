----------------------------- MODULE MCAntenna ------------------------------
(***************************************************************************)
(* A ground program and a satellite program.  Blocks of 3 bytes; a letter  *)
(* F may stand anywhere in a file.                                         *)
(***************************************************************************)
EXTENDS Antenna

Both == {"ground", "satellite"}
Other == [p \in Both |-> IF p = "ground" THEN "satellite" ELSE "ground"]
OddAndEven == [p \in Both |-> IF p = "ground" THEN 1 ELSE 10]

a == F + 1
b == F + 2

\* Files of no, one and two blocks, and lines in the other direction.
WholeBlocks ==
  [p \in Both |-> IF p = "ground" THEN {<<>>, <<F, a, b>>, <<a, b, F, b, F, a>>} ELSE {}]
LinesBack == [p \in Both |-> IF p = "ground" THEN {} ELSE {<<a>>, <<a, b, a>>}]
TwoAndOne == [p \in Both |-> IF p = "ground" THEN 2 ELSE 1]

\* A file that does not end at the end of a block.
WithTail == [p \in Both |-> IF p = "ground" THEN {<<a, b, F, b>>} ELSE {}]
NoLines == [p \in Both |-> {}]

=============================================================================

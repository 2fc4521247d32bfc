-------------------------------- MODULE Tally --------------------------------
(***************************************************************************)
(* What a byte counter stands for: the bytes of everything it covers,      *)
(* counted one by one. The tool memory and the disk prefix cache keep such *)
(* a counter by additions and subtractions; a property compares the two.   *)
(***************************************************************************)
EXTENDS Integers, FiniteSets

\* The bytes of an x of size n.
Units(x, n) == {x} \X (1..n)

\* The bytes of the members of S, size[x] being the size of x.
AllUnits(size, S) == UNION {Units(x, size[x]) : x \in S}

Tally(size, S) == Cardinality(AllUnits(size, S))

=============================================================================

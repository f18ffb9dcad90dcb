-------------------------------- MODULE Lists --------------------------------
(***************************************************************************)
(* Taking entries out of a list or an ordered dict.                        *)
(***************************************************************************)
EXTENDS Integers, Sequences, FiniteSets

\* The j-th of a set of places.
Nth(places, j) == CHOOSE i \in places : Cardinality({h \in places : h <= i}) = j

\* What is left of a list that keeps only its entries at some places, in their order.
Kept(list, places) == [j \in 1 .. Cardinality(places) |-> list[Nth(places, j)]]
=============================================================================

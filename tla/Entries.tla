------------------------------ MODULE Entries ------------------------------
(***************************************************************************)
(* The part of a sequence that a property is about: its entries at some    *)
(* positions, in order.  SelectSeq, with a set of positions in place of a  *)
(* test, so that the provers can reason about what is selected.            *)
(***************************************************************************)
EXTENDS Integers, Sequences, FiniteSets

\* How many of the positions I are at most i.
Rank(I, i) == Cardinality(I \cap 1..i)

\* The j-th of the positions I.
Nth(I, j) == CHOOSE i \in I : Rank(I, i) = j

\* The entries of s at the positions I.
EntriesAt(s, I) == [j \in 1..Cardinality(I) |-> s[Nth(I, j)]]
=============================================================================

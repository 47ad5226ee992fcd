---------------------------- MODULE Subsequences ----------------------------
(***************************************************************************)
(* The elements of a sequence that a loop keeps, in their order.           *)
(*                                                                         *)
(* SelectSeq says the same; here the k-th element that is kept is named by *)
(* its position, which proofs can count.                                   *)
(***************************************************************************)
EXTENDS Integers, Sequences, FiniteSets

\* How many members of I are at most i.
Rank(I, i) == Cardinality({j \in I : j <= i})

\* The k-th smallest member of I, a finite set of integers.
Nth(I, k) == CHOOSE i \in I : Rank(I, i) = k

\* The elements of s at the positions I.
ElementsAt(s, I) == [k \in 1 .. Cardinality(I) |-> s[Nth(I, k)]]

\* The elements of s that are in S.
Kept(s, S) == ElementsAt(s, {i \in DOMAIN s : s[i] \in S})

=============================================================================

------------------------------ MODULE Listing ------------------------------
(***************************************************************************)
(* Sequences made of the members of a set, with the set in the place of a  *)
(* test or an ordering operator, so that what they are can be proved       *)
(* (Listing_proofs).                                                       *)
(***************************************************************************)
EXTENDS Naturals, Sequences, FiniteSets

\* The elements of s that are in S, in the order in which they are in s.
Keep(s, S) ==
    LET upTo[n \in 0 .. Len(s)] ==
          IF n = 0 THEN <<>>
          ELSE IF s[n] \in S THEN Append(upTo[n - 1], s[n])
          ELSE upTo[n - 1]
    IN upTo[Len(s)]

\* The numbers in S, sorted.
Ascending(S) ==
    [n \in 1 .. Cardinality(S) |-> CHOOSE x \in S : Cardinality({y \in S : y < x}) = n - 1]
=============================================================================

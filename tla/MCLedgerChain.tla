--------------------------- MODULE MCLedgerChain ---------------------------
(* LedgerChain with user turns only. *)
EXTENDS LedgerChain

ThreeRequests == {1, 2, 3}
NoRules == [r \in ThreeRequests |-> <<>>]
NoResults == {}
TwoOfEach == [k \in Sections |-> 2]
OneByte == [k \in Sections |-> 1]
=============================================================================

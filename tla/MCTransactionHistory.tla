----------------------- MODULE MCTransactionHistory -----------------------
(* An instance of TransactionHistory for TLC. *)
EXTENDS TransactionHistory, TLC

\* The ids are interchangeable.
Symmetry == Permutations(Ids)
=============================================================================

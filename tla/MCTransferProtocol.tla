------------------------ MODULE MCTransferProtocol ------------------------
(* Instances of TransferProtocol for TLC. *)
EXTENDS TransferProtocol, TLC

Symmetry == Permutations(Transfers)

\* Everything the model can do to a transfer.  "ttl" would add nothing but its
\* history: AdminUnlock releases any lock at any time as well.
Everything == (Disturbances \ {"ttl"}) \cup FaultKinds
=============================================================================

--------------------------- MODULE MCSurfaceLock ---------------------------
(* Instances of SurfaceLock for TLC. *)
EXTENDS SurfaceLock, TLC

Symmetry == Permutations(Indices) \cup Permutations(Jobs) \cup Permutations(HoldIds)
=============================================================================

----------------------------- MODULE MCExports -----------------------------
(* A download, a managed and a local transfer. *)
EXTENDS Exports

CONSTANTS d1, m1, l1
=============================================================================

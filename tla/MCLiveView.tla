----------------------------- MODULE MCLiveView -----------------------------
(* An instance of LiveView for TLC. *)
EXTENDS LiveView
=============================================================================

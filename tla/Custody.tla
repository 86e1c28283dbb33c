------------------------------ MODULE Custody ------------------------------
(***************************************************************************)
(* What a cross-instance transfer promises about one platform, without     *)
(* the controller, the messages or the lock registry that keep it.         *)
(*                                                                         *)
(* The original platform is live, frozen in place, or gone.  Exports are   *)
(* snapshots; an export is exact while the original is still the frozen    *)
(* platform it was taken from.  A destination copy of an export is         *)
(* validated when it has passed the import checks and gone live.           *)
(*                                                                         *)
(* The promise: the original is only ever removed while it is frozen and   *)
(* some exact export of it already lives on a destination.                 *)
(***************************************************************************)

CONSTANT Exports    \* the identities of the exports of this platform

VARIABLES
  original,         \* "live", "frozen" or "gone"
  exact,            \* the exports that equal the frozen (or removed) original
  validated         \* the exports of which a destination copy went live

vars == <<original, exact, validated>>

TypeOK ==
  /\ original \in {"live", "frozen", "gone"}
  /\ exact \subseteq Exports
  /\ validated \subseteq Exports

Init ==
  /\ original = "live"
  /\ exact = {}
  /\ validated = {}

\* The platform is frozen; an export may be taken of it in the same step.
Freeze ==
  /\ original = "live"
  /\ original' = "frozen"
  /\ \E S \in SUBSET Exports : exact' = S
  /\ UNCHANGED validated

\* One more export of the platform as it stands frozen.
Snapshot ==
  /\ original = "frozen"
  /\ \E e \in Exports : exact' = exact \cup {e}
  /\ UNCHANGED <<original, validated>>

\* The freeze ends: the platform changes and no export is exact any longer.
Thaw ==
  /\ original = "frozen"
  /\ original' = "live"
  /\ exact' = {}
  /\ UNCHANGED validated

\* A destination copy of an export passes its checks and goes live.
Validate ==
  /\ \E e \in Exports : validated' = validated \cup {e}
  /\ UNCHANGED <<original, exact>>

\* The original is removed in favour of a validated exact copy.
Delete ==
  /\ original = "frozen"
  /\ exact \cap validated # {}
  /\ original' = "gone"
  /\ UNCHANGED <<exact, validated>>

Next == Freeze \/ Snapshot \/ Thaw \/ Validate \/ Delete

Spec == Init /\ [][Next]_vars

-----------------------------------------------------------------------------
\* The content of the platform is never lost: once the original is gone, an
\* exact copy of it is live.
ContentSurvives == original = "gone" => exact \cap validated # {}
=============================================================================

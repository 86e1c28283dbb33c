--------------------------- MODULE MCGatewayConfig ---------------------------
(* Two instances, the configuration of one always too large for a single command. *)
EXTENDS GatewayConfig, TLC

CONSTANTS i1, i2

MCSizes == [i \in {i1, i2} |-> IF i = i1 THEN {"chunked"} ELSE {"single"}]
MCFound == HubNames \X ({i1, i2} \X HubNames)
MCSelections == {<<i1, i2>>}
Symmetry == Permutations(Canvases) \cup Permutations(MultiNames)
=============================================================================

---------------------------- MODULE GatewayGraph ----------------------------
(***************************************************************************)
(* Gateway links as the canvas draws and edits them, and the rule of the   *)
(* Multi Cluster mode, which the canvas and the controller share.          *)
(*                                                                         *)
(* A gateway is an instance and a name.  A link is directed, an edge of    *)
(* the canvas is the pair of both directions.                              *)
(***************************************************************************)
EXTENDS Naturals, Sequences

CONSTANTS Instances, MultiNames, HubNames

ASSUME GatewayGraphAssumption == MultiNames \cap HubNames = {} /\ HubNames # {}

Modes == {"one_gate", "multi"}
Gateways == MultiNames \cup HubNames
NamesFor(mode) == IF mode = "multi" THEN MultiNames ELSE HubNames

\* The keys of GatewayEdits and of the controller's gatewayLinks.  What they map to is a
\* set of directed links; a key that is absent has none.
Keys == Instances \X Gateways
Edits == SUBSET (Keys \X Keys)
Targets(edits, k) == {b \in Keys : <<k, b>> \in edits}
Of(edits, i) == {l \in edits : l[1][1] = i}

-----------------------------------------------------------------------------
(* Rules *)

\* checkMultiModeLink: the gateway would carry two destinations, or a destination that
\* another gateway of the instance has already.
CheckMultiModeLink(targets, others) ==
  \/ \E t, u \in targets : t # u
  \/ \E t \in targets, u \in others : u[1] = t[1]

\* What the other gateways of the instance point at.
Others(edits, k, names) == {l[2] : l \in {m \in edits : /\ m[1][1] = k[1] /\ m[1] # k
                                                      /\ m[1][2] \in names}}

\* multiModeViolation: the same rule, from both ends; a link that is there already counts
\* twice.
MultiModeViolation(edits, a, b) ==
  \E end \in {<<a, b>>, <<b, a>>} :
    \/ Targets(edits, end[1]) # {}
    \/ CheckMultiModeLink({end[2]}, Others(edits, end[1], Gateways))

ConnectionRefusal(edits, a, b, mode) ==
  a[1] = b[1] \/ (mode = "multi" /\ MultiModeViolation(edits, a, b))

-----------------------------------------------------------------------------
(* Edits *)

BothWays(a, b) == {<<a, b>>, <<b, a>>}
ApplyConnect(edits, a, b) == IF a[1] = b[1] THEN edits ELSE edits \cup BothWays(a, b)

\* Mutant: the link back stays.
ApplyDisconnectOneWay(edits, a, b) == edits \ {<<a, b>>}

ApplyDisconnect(edits, a, b) == edits \ BothWays(a, b)

\* buildEdges: a link in either direction draws the edge.
BuildEdges(edits) == {{l[1], l[2]} : l \in edits}

\* planBulkLink, for one pair of instances.
BulkStep(edits, i, j, gateway, mode, connect) ==
  LET a == <<i, gateway>>
      b == <<j, gateway>>
  IN  IF ~connect THEN ApplyDisconnect(edits, a, b)
      ELSE IF mode = "multi" /\ MultiModeViolation(edits, a, b) THEN edits
      ELSE ApplyConnect(edits, a, b)

\* planBulkLink: its two nested loops over the selected instances as one.  Round k looks at
\* the pair of places a(k), b(k), which has its turn if a(k) is the earlier place.
PlanBulkLink(edits, ids, gateway, mode, connect) ==
  LET size == Len(ids)
      a(k) == 1 + ((k - 1) \div size)
      b(k) == 1 + ((k - 1) % size)
      next[k \in 0..size * size] ==
        IF k = 0 THEN edits
        ELSE IF a(k) < b(k)
        THEN BulkStep(next[k - 1], ids[a(k)], ids[b(k)], gateway, mode, connect)
        ELSE next[k - 1]
  IN  next[size * size]

DirtyKeys(edits, baseline) ==
  {l[1] : l \in (edits \ baseline) \cup (baseline \ edits)}

\* editsFromLinks, of the rows the controller answers: those of the active names.
EditsFromLinks(links, names) == {l \in links : l[1][2] \in names}

TwoWay(links) == \A l \in links : <<l[2], l[1]>> \in links
=============================================================================

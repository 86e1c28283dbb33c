---------------------------- MODULE GatewayConfig ----------------------------
(***************************************************************************)
(* Gateway links on their way from the canvases to the games.              *)
(*                                                                         *)
(* A canvas edits a copy and saves the gateways that changed, one request  *)
(* per instance, one after the other.  The controller checks a request,    *)
(* changes its map, writes the map to its file and pushes what the         *)
(* instance needs; an instance that starts pulls the same.  A delivery     *)
(* reaches the game as one RCON command, or, over a size, as a staged      *)
(* series of them.                                                         *)
(***************************************************************************)
EXTENDS GatewayGraph, Integers

CONSTANTS
  Canvases,
  Sizes,        \* how the configuration of an instance may be sent: "single", "chunked"
  Chunks,       \* in how many chunks
  Found,        \* cluster-wide links of an older version in the file, per gateway name
  Selections,   \* the instances a user may have selected, in the order of the nodes
  Slots,        \* deliveries under way at a time
  MaxClicks,    \* edits made in all
  MaxDeliveries,\* deliveries to an instance
  Disturbances, \* what may go wrong
  MaxFaults     \* how often

Kinds == {"write", "command", "reply", "prune", "link", "game", "controller", "mode"}

ASSUME GatewayConfigAssumption ==
  /\ Found \subseteq Gateways \X Keys
  /\ Canvases \cap {"load", "pull", "nobody"} = {}
  /\ Sizes \in [Instances -> SUBSET {"single", "chunked"}] /\ Chunks \in Nat \ {0}
  /\ Selections \subseteq Seq(Instances) /\ Slots \in Nat /\ MaxClicks \in Nat
  /\ MaxDeliveries \in Nat /\ Disturbances \subseteq Kinds /\ MaxFaults \in Nat

VARIABLES
  mode,         \* surface_export.gateway_mode
  canvas,       \* per canvas: its mode, edits and baseline, and its save under way
  links,        \* gatewayLinks, in the memory of the controller
  disk,         \* the gateway file
  writes,       \* snapshots waiting for the file, with the canvas whose request made them
  status,       \* per instance: its game, and whether the controller hears of it
  delivery,     \* configurations under way
  inbox,        \* those the instance has not begun, in their order
  staging,      \* the one staging slot of each game
  game,         \* what each game applied
  clicks, faults,
  sent,         \* (history) number of the last delivery to each instance
  told,         \* (history) the last delivery has the instance's links, and did not fail
  torn          \* (history) a save failed, was cut short, overlapped another, or began
                \* from a stale copy

env == <<clicks, faults>>
server == <<links, disk, writes>>
net == <<delivery, inbox, staging, game>>
vars == <<mode, canvas, server, status, net, env, sent, told, torn>>

Idle == [ph |-> "idle", todo |-> {}, at |-> "none", snap |-> {}, failed |-> FALSE]
Free == [ph |-> "free"]
NoStaging == [token |-> 0, got |-> 0]

\* resolveGateways and gatewayNamesFor: what a delivery to the instance carries.  The name
\* and the online mark of a target are left out.
Resolved(i) == [links |-> Of(links, i), mode |-> mode]
IsOnline(i) == status[i].running /\ status[i].heard

\* loadGatewayConfig: cluster-wide links become links of every instance but the target's,
\* in place of those it had.
Migrated(file) ==
  {l \in Keys \X Keys : <<l[1][2], l[2]>> \in file.legacy /\ l[1][1] # l[2][1]}
Loaded(file) ==
  Migrated(file) \cup {l \in file.links : \A m \in Migrated(file) : m[1] # l[1]}
File(snapshot) == [links |-> snapshot, legacy |-> {}]
Migration(file) ==
  IF file.legacy = {} THEN <<>> ELSE <<[links |-> Loaded(file), by |-> "load"]>>

Init ==
  /\ mode \in Modes
  /\ disk = [links |-> {}, legacy |-> Found]
  /\ links = Loaded(disk) /\ writes = Migration(disk)
  /\ canvas = [c \in Canvases |->
       [mode |-> mode, edits |-> {}, baseline |-> {}, save |-> Idle]]
  /\ status = [i \in Instances |-> [running |-> TRUE, heard |-> TRUE, pull |-> "done"]]
  /\ delivery = [s \in 1..Slots |-> Free] /\ inbox = [i \in Instances |-> <<>>]
  /\ staging = [i \in Instances |-> NoStaging]
  /\ game = [i \in Instances |-> [no |-> 0, got |-> Resolved(i)]]
  /\ clicks = 0 /\ faults = 0
  /\ sent = [i \in Instances |-> 0] /\ told = [i \in Instances |-> TRUE]
  /\ torn = ~TwoWay(links)

Fault(kind) ==
  kind \in Disturbances /\ faults < MaxFaults /\ faults' = faults + 1 /\ UNCHANGED clicks

-----------------------------------------------------------------------------
(* Canvas *)

Click(c, edits) ==
  /\ edits # canvas[c].edits /\ clicks < MaxClicks /\ clicks' = clicks + 1
  /\ canvas' = [canvas EXCEPT ![c].edits = edits]
  /\ UNCHANGED <<mode, server, status, net, faults, sent, told, torn>>

\* load, when the page opens.
Load(c) ==
  /\ canvas[c].save.ph = "idle"
  /\ LET loaded == EditsFromLinks(links, NamesFor(mode))
     IN  canvas' = [canvas EXCEPT ![c] =
           [mode |-> mode, edits |-> loaded, baseline |-> loaded, save |-> Idle]]
  /\ UNCHANGED <<mode, server, status, net, env, sent, told, torn>>

\* onConnect, of what isValidConnection lets through.
Connect(c) ==
  \E a, b \in Instances \X NamesFor(canvas[c].mode) :
    /\ ~ConnectionRefusal(canvas[c].edits, a, b, canvas[c].mode)
    /\ Click(c, ApplyConnect(canvas[c].edits, a, b))

\* onEdgeClick; onEdgesDelete is a series of these.
EdgeClick(c) ==
  \E a, b \in Keys : /\ {a, b} \in BuildEdges(canvas[c].edits)
                     /\ Click(c, ApplyDisconnect(canvas[c].edits, a, b))

\* bulkLink, on the first gateway of the mode.
BulkLink(c) ==
  \E ids \in Selections, g \in NamesFor(canvas[c].mode), connect \in BOOLEAN :
    Click(c, PlanBulkLink(canvas[c].edits, ids, g, canvas[c].mode, connect))

Revert(c) ==
  /\ canvas[c].save.ph = "idle" /\ canvas[c].edits # canvas[c].baseline
  /\ canvas' = [canvas EXCEPT ![c].edits = canvas[c].baseline]
  /\ UNCHANGED <<mode, server, status, net, env, sent, told, torn>>

Saving(c) == canvas[c].save.ph # "idle"

\* save: one request per instance with gateways that changed.
BeginSave(c) ==
  LET dirty == DirtyKeys(canvas[c].edits, canvas[c].baseline)
  IN  /\ ~Saving(c) /\ dirty # {}
      /\ canvas' = [canvas EXCEPT ![c].save =
           [Idle EXCEPT !.ph = "saving", !.todo = {k[1] : k \in dirty}, !.snap = canvas[c].edits]]
      /\ torn' = (torn \/ canvas[c].baseline # EditsFromLinks(links, NamesFor(canvas[c].mode))
                       \/ \E d \in Canvases : Saving(d))
      /\ UNCHANGED <<mode, server, status, net, env, sent, told>>

\* The baseline follows only a save that has not failed anywhere.
EndSave(c) ==
  LET save == canvas[c].save
  IN  /\ save.ph = "saving" /\ save.todo = {}
      /\ canvas' = [canvas EXCEPT ![c].save = Idle,
                                  ![c].baseline = IF save.failed THEN @ ELSE save.snap]
      /\ torn' = (torn \/ save.failed)
      /\ UNCHANGED <<mode, server, status, net, env, sent, told>>

Answered(save, ok) == [save EXCEPT !.ph = "saving", !.at = "none", !.failed = @ \/ ~ok]

-----------------------------------------------------------------------------
(* Controller *)

Submitted(c, i) ==
  {k \in DirtyKeys(canvas[c].save.snap, canvas[c].baseline) : k[1] = i}
Proposed(c, i) ==
  {l \in links : l[1] \notin Submitted(c, i)} \cup
  {l \in Keys \X Keys : l \in canvas[c].save.snap /\ l[1] \in Submitted(c, i) /\ l[2][1] # i}

\* Mutant: the links stored for the other gateways are not looked at.
RefusedByName(c, i) == \E k \in Submitted(c, i) : k[2] \notin NamesFor(mode)

\* handleSetGatewayLinkRequest, the checks.
Refused(c, i) ==
  \/ \E k \in Submitted(c, i) : k[2] \notin NamesFor(mode)
  \/ /\ mode = "multi"
     /\ \E k \in Submitted(c, i) :
          CheckMultiModeLink(Targets(Proposed(c, i), k), Others(Proposed(c, i), k, MultiNames))

HandleSet(c) ==
  \E i \in canvas[c].save.todo :
    /\ canvas[c].save.ph = "saving"
    /\ IF Refused(c, i)
       THEN /\ canvas' = [canvas EXCEPT ![c].save.todo = @ \ {i}, ![c].save.failed = TRUE]
            /\ UNCHANGED <<server, told>>
       ELSE /\ links' = Proposed(c, i)
            /\ writes' = Append(writes, [links |-> links', by |-> c])
            /\ canvas' = [canvas EXCEPT ![c].save.ph = "writing",
                                        ![c].save.todo = @ \ {i}, ![c].save.at = i]
            /\ told' = [told EXCEPT ![i] = FALSE]
            /\ UNCHANGED disk
    /\ UNCHANGED <<mode, status, net, env, sent, torn>>

\* persistGatewayConfig: the queue writes one snapshot after the other.
Write ==
  /\ writes # <<>> /\ writes' = Tail(writes)
  /\ disk' = File(Head(writes).links)
  /\ canvas' = [c \in Canvases |->
       IF Head(writes).by = c THEN [canvas[c] EXCEPT !.save.ph = "pushing"] ELSE canvas[c]]
  /\ UNCHANGED <<mode, links, status, net, env, sent, told, torn>>

WriteFails ==
  /\ writes # <<>> /\ Fault("write") /\ writes' = Tail(writes)
  /\ canvas' = [c \in Canvases |->
       IF Head(writes).by = c
       THEN [canvas[c] EXCEPT !.save = Answered(@, FALSE)] ELSE canvas[c]]
  /\ UNCHANGED <<mode, links, disk, status, net, sent, told, torn>>

\* The links are resolved when the message leaves, whoever asked for it.
Dispatch(i, to) ==
  \E s \in 1..Slots, size \in Sizes[i] :
    /\ delivery[s] = Free /\ \A t \in 1..(s - 1) : delivery[t] # Free
    /\ sent[i] < MaxDeliveries
    /\ delivery' = [delivery EXCEPT ![s] =
         [ph |-> IF size = "single" THEN "single" ELSE "begin",
          at |-> i, to |-> to, no |-> sent[i] + 1, got |-> Resolved(i), next |-> 1]]
    /\ inbox' = [inbox EXCEPT ![i] = Append(@, s)]
    /\ sent' = [sent EXCEPT ![i] = @ + 1]
    /\ told' = [told EXCEPT ![i] = TRUE]
    /\ UNCHANGED <<staging, game>>

\* pushGatewayConfigToInstance: an instance that is not online is passed over, as a success.
Push(c) ==
  LET i == canvas[c].save.at
  IN  /\ canvas[c].save.ph = "pushing"
      /\ IF IsOnline(i)
         THEN /\ Dispatch(i, c)
              /\ canvas' = [canvas EXCEPT ![c].save.ph = "waiting"]
         ELSE /\ canvas' = [canvas EXCEPT ![c].save = Answered(@, TRUE)]
              /\ UNCHANGED <<net, sent, told>>
      /\ UNCHANGED <<mode, server, status, env, torn>>

-----------------------------------------------------------------------------
(* Instance and game *)

\* onStart: the first pull, and one more if it failed; running is told after the first.
Pull(i) ==
  /\ status[i].pull \in {"ask", "ask_again"} /\ status[i].heard
  /\ Dispatch(i, "pull")
  /\ status' = [status EXCEPT ![i].pull = IF @ = "ask" THEN "wait" ELSE "wait_again"]
  /\ UNCHANGED <<mode, canvas, server, env, torn>>

Running(i) ==
  /\ ~status[i].running /\ status[i].heard /\ status[i].pull \in {"ask_again", "wait_again", "done"}
  /\ status' = [status EXCEPT ![i].running = TRUE]
  /\ UNCHANGED <<mode, canvas, server, net, env, sent, told, torn>>

PullAfter(pull, ok) == IF ok \/ pull = "wait_again" THEN "done" ELSE "ask_again"

\* Mutant: the token of a chunk or a commit is not compared with the slot's.
CommandAnyToken(d) ==
  LET here == staging[d.at]
      as(ok, stage, applied) ==
        [ok |-> ok, staging |-> stage,
         game |-> IF applied THEN [no |-> d.no, got |-> d.got] ELSE game[d.at]]
  IN  CASE d.ph = "single" -> as(TRUE, here, TRUE)
        [] d.ph = "begin"  -> as(TRUE, [token |-> d.no, got |-> 0], FALSE)
        [] d.ph = "chunk"  -> as(TRUE, here, FALSE)
        [] d.ph = "commit" -> as(TRUE, NoStaging, TRUE)

\* What one command does in the game: configure_gateways, or begin, chunk and commit of
\* the staging slot, which a later begin takes over.
Command(d) ==
  LET here == staging[d.at]
      mine == here.token = d.no
      as(ok, stage, applied) ==
        [ok |-> ok, staging |-> stage,
         game |-> IF applied THEN [no |-> d.no, got |-> d.got] ELSE game[d.at]]
  IN  CASE d.ph = "single" -> as(TRUE, here, TRUE)
        [] d.ph = "begin"  -> as(TRUE, [token |-> d.no, got |-> 0], FALSE)
        [] d.ph = "chunk"  -> as(mine, IF mine THEN [here EXCEPT !.got = @ + 1] ELSE here, FALSE)
        [] d.ph = "commit" -> LET whole == mine /\ here.got = Chunks
                              IN  as(whole, IF mine THEN NoStaging ELSE here, whole)

\* The first command of a delivery is given in the order the deliveries came.
MayRun(s) ==
  /\ delivery[s] # Free
  /\ LET d == delivery[s]
     IN  d.ph \in {"single", "begin"} => inbox[d.at] # <<>> /\ Head(inbox[d.at]) = s

Taken(s) ==
  LET d == delivery[s]
  IN  IF d.ph \in {"single", "begin"} THEN [inbox EXCEPT ![d.at] = Tail(@)] ELSE inbox

Apply(d, effect) ==
  /\ staging' = [staging EXCEPT ![d.at] = effect.staging]
  /\ game' = [game EXCEPT ![d.at] = effect.game]

\* Mutant: the reply of the game is not looked at.
EndUnchecked(s, ok) ==
  LET d == delivery[s]
  IN  /\ delivery' = [delivery EXCEPT ![s] = Free]
      /\ canvas' = [c \in Canvases |->
           IF d.to = c THEN [canvas[c] EXCEPT !.save = Answered(@, TRUE)] ELSE canvas[c]]
      /\ status' = IF d.to = "pull" THEN [status EXCEPT ![d.at].pull = "done"] ELSE status
      /\ UNCHANGED told

\* The handler ends: its answer goes to the canvas that waits, or ends the pull.  An answer
\* that the configuration was not applied is a warning, and not a failure of the save.
End(s, ok) ==
  LET d == delivery[s]
  IN  /\ delivery' = [delivery EXCEPT ![s] = Free]
      /\ canvas' = [c \in Canvases |->
           IF d.to = c THEN [canvas[c] EXCEPT !.save = Answered(@, TRUE)] ELSE canvas[c]]
      /\ status' = IF d.to = "pull" THEN [status EXCEPT ![d.at].pull = PullAfter(@, ok)]
                   ELSE status
      /\ told' = [told EXCEPT ![d.at] = @ /\ (ok \/ d.no # sent[d.at])]

Advance(s) ==
  LET d == delivery[s]
  IN  /\ delivery' = [delivery EXCEPT ![s] =
           IF d.ph = "chunk" /\ d.next < Chunks THEN [d EXCEPT !.next = @ + 1]
           ELSE [d EXCEPT !.ph = IF d.ph = "begin" THEN "chunk" ELSE "commit"]]
      /\ UNCHANGED <<canvas, status, told>>

Run(s) ==
  /\ MayRun(s) /\ inbox' = Taken(s)
  /\ LET d == delivery[s]
         effect == Command(d)
     IN  /\ Apply(d, effect)
         /\ IF effect.ok /\ d.ph \in {"begin", "chunk"} THEN Advance(s) ELSE End(s, effect.ok)
  /\ UNCHANGED <<mode, server, env, sent, torn>>

LoseCommand(s) ==
  /\ MayRun(s) /\ Fault("command") /\ inbox' = Taken(s) /\ End(s, FALSE)
  /\ UNCHANGED <<mode, server, staging, game, sent, torn>>

LoseReply(s) ==
  /\ MayRun(s) /\ Fault("reply") /\ inbox' = Taken(s)
  /\ Apply(delivery[s], Command(delivery[s])) /\ End(s, FALSE)
  /\ UNCHANGED <<mode, server, sent, torn>>

\* A staging slot that is too old goes.
Prune(i) ==
  /\ staging[i] # NoStaging /\ Fault("prune")
  /\ staging' = [staging EXCEPT ![i] = NoStaging]
  /\ UNCHANGED <<mode, canvas, server, status, delivery, inbox, game, sent, told, torn>>

-----------------------------------------------------------------------------
(* Environment *)

LinkDown(i) ==
  /\ status[i].heard /\ Fault("link")
  /\ status' = [status EXCEPT ![i].heard = FALSE]
  /\ UNCHANGED <<mode, canvas, server, net, sent, told, torn>>

LinkUp(i) ==
  /\ ~status[i].heard
  /\ status' = [status EXCEPT ![i].heard = TRUE]
  /\ UNCHANGED <<mode, canvas, server, net, env, sent, told, torn>>

\* Mutant: what is lost stays in the inbox.
LostKept(i, slots) ==
  /\ delivery' = [s \in 1..Slots |-> IF s \in slots THEN Free ELSE delivery[s]]
  /\ UNCHANGED inbox

\* Those who wait for one of the lost deliveries are told that it failed.
Lost(i, slots) ==
  /\ delivery' = [s \in 1..Slots |-> IF s \in slots THEN Free ELSE delivery[s]]
  /\ inbox' = [inbox EXCEPT ![i] = <<>>]

\* A game that starts has the configuration of its save: the last, or the first.
GameRestart(i) ==
  LET slots == {s \in 1..Slots : delivery[s] # Free /\ delivery[s].at = i}
  IN  /\ Fault("game") /\ Lost(i, slots)
      /\ canvas' = [c \in Canvases |->
           IF \E s \in slots : delivery[s].to = c
           THEN [canvas[c] EXCEPT !.save = Answered(@, TRUE)] ELSE canvas[c]]
      /\ status' = [status EXCEPT ![i] = [@ EXCEPT !.running = FALSE, !.pull = "ask"]]
      /\ staging' = [staging EXCEPT ![i] = NoStaging]
      /\ \E older \in BOOLEAN :
           /\ older => game[i].no > 0
           /\ game' = [game EXCEPT ![i] =
                IF older THEN [no |-> 0, got |-> [links |-> {}, mode |-> mode]] ELSE @]
      /\ told' = [told EXCEPT ![i] = FALSE]
      /\ UNCHANGED <<mode, server, sent, torn>>

\* The requests under way fail; what the instances have not begun is lost.
ControllerRestart ==
  LET slots == {s \in 1..Slots : delivery[s] # Free /\ \E n \in DOMAIN inbox[delivery[s].at] :
                                    inbox[delivery[s].at][n] = s}
      loaded == Loaded(disk)
  IN  /\ Fault("controller")
      /\ links' = loaded
      /\ writes' = Migration(disk)
      /\ canvas' = [c \in Canvases |->
           IF canvas[c].save.ph \in {"writing", "pushing", "waiting"}
           THEN [canvas[c] EXCEPT !.save = Answered(@, FALSE)] ELSE canvas[c]]
      /\ delivery' = [s \in 1..Slots |->
           IF s \in slots \/ delivery[s] = Free THEN Free
           ELSE IF delivery[s].to = "pull" THEN delivery[s]
           ELSE [delivery[s] EXCEPT !.to = "nobody"]]
      /\ inbox' = [i \in Instances |-> <<>>]
      /\ status' = [i \in Instances |->
           IF \E s \in slots : delivery[s].at = i /\ delivery[s].to = "pull"
           THEN [status[i] EXCEPT !.pull = PullAfter(@, FALSE)] ELSE status[i]]
      /\ told' = [i \in Instances |-> told[i] /\ Of(loaded, i) = Of(links, i)
                                             /\ \A s \in slots : delivery[s].at # i]
      /\ torn' = (torn \/ \E c \in Canvases : Saving(c))
      /\ UNCHANGED <<mode, disk, staging, game, sent>>

\* The setting is read each time; nothing is pushed when it changes.
SwitchMode ==
  /\ Fault("mode") /\ mode' \in Modes \ {mode}
  /\ told' = [i \in Instances |-> FALSE]
  /\ UNCHANGED <<canvas, server, status, net, sent, torn>>

Next ==
  \/ \E c \in Canvases :
       \/ Load(c) \/ BulkLink(c) \/ Connect(c) \/ EdgeClick(c) \/ Revert(c)
       \/ BeginSave(c) \/ HandleSet(c) \/ Push(c) \/ EndSave(c)
  \/ Write \/ WriteFails
  \/ \E i \in Instances : \/ Pull(i) \/ Running(i) \/ Prune(i)
                          \/ LinkDown(i) \/ LinkUp(i) \/ GameRestart(i)
  \/ \E s \in 1..Slots : Run(s) \/ LoseCommand(s) \/ LoseReply(s)
  \/ ControllerRestart
  \/ SwitchMode

Spec == Init /\ [][Next]_vars

-----------------------------------------------------------------------------
(* Properties *)

SaveType ==
  [ph : {"idle", "saving", "writing", "pushing", "waiting"}, todo : SUBSET Instances,
   at : Instances \cup {"none"}, snap : Edits, failed : BOOLEAN]
Configs == [links : Edits, mode : Modes]
DeliveryType ==
  [ph : {"single", "begin", "chunk", "commit"}, at : Instances,
   to : Canvases \cup {"pull", "nobody"}, no : Nat, got : Configs,
   next : Nat]

\* Every variable has its type, and a slot of the inbox a delivery to that instance.
TypeOK ==
  /\ mode \in Modes
  /\ \A c \in Canvases : /\ canvas[c].mode \in Modes /\ canvas[c].save \in SaveType
                         /\ canvas[c].edits \in Edits /\ canvas[c].baseline \in Edits
  /\ links \in Edits /\ disk.links \in Edits /\ disk.legacy \subseteq Gateways \X Keys
  /\ \A n \in DOMAIN writes : writes[n].links \in Edits /\ writes[n].by \in Canvases \cup {"load"}
  /\ \A s \in 1..Slots : delivery[s] = Free \/ delivery[s] \in DeliveryType
  /\ \A i \in Instances : \A n \in DOMAIN inbox[i] :
       delivery[inbox[i][n]] # Free /\ delivery[inbox[i][n]].at = i
  /\ \A i \in Instances : staging[i].got \in 0..Chunks /\ game[i].got \in Configs

\* In Multi Cluster mode a gateway carries one destination, and no two gateways of an
\* instance point at the same one: of what the controller holds, whichever canvas sent what.
MultiModeOk ==
  \A l, m \in links :
    l[1][1] = m[1][1] /\ l[1][2] \in MultiNames /\ m[1][2] \in MultiNames =>
      IF l[1] = m[1] THEN l[2] = m[2] ELSE l[2][1] # m[2][1]

\* Once nothing is on its way to an instance, its game has what the controller would send
\* it now, if that was sent since it last changed, and not answered with a failure.
NewestWins ==
  \A i \in Instances :
    told[i] /\ (\A s \in 1..Slots : delivery[s] = Free \/ delivery[s].at # i)
      => game[i].got = Resolved(i)

\* Both ends of an edge are saved: what the controller holds is two-way, as long as no save
\* failed, was cut short, overlapped another or began from a stale copy.
LinksTwoWay == ~torn /\ (\A c \in Canvases : ~Saving(c)) => TwoWay(links)

\* A game goes back to an older configuration only when it starts.
ConfigNeverRegresses ==
  [][\A i \in Instances :
       game'[i].no < game[i].no => ~status'[i].running /\ status'[i].pull = "ask"]_vars
=============================================================================

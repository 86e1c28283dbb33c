------------------------------ MODULE LiveView ------------------------------
(***************************************************************************)
(* A page of the web interface and the controller that keeps it up to      *)
(* date.  The page subscribes to trees of platforms and to summaries of    *)
(* transfers, then fetches both; pushes and answers share one ordered      *)
(* link, which may drop, resume what it had not delivered, or start anew.  *)
(* The controller builds a tree by asking every instance, which takes      *)
(* time: several trees are under way at once, and each is numbered when it *)
(* is finished.                                                            *)
(*                                                                         *)
(* The content of a tree is, for each instance, a version of its platforms *)
(* and the content of a summary is a version of the transfer.              *)
(***************************************************************************)
EXTENDS Integers, Sequences, FiniteSets

CONSTANTS
  Instances,    \* instances of the cluster, each on a host of its own
  Transfers,    \* operations
  Slots,        \* live synchronisations a page may have under way
  Errors,       \* whether the handler of a request may throw
  MaxVersion,   \* bound on the changes of an instance
  MaxSteps,     \* bound on the steps of a transfer, and of both
  MaxMounts,    \* bound on the mounting and unmounting of the page
  MaxFaults     \* bound on drops, restarts and errors

ASSUME LiveViewAssumption ==
  /\ {MaxVersion, MaxSteps, MaxMounts, MaxFaults} \subseteq Nat
  /\ IsFiniteSet(Slots) /\ Slots \subseteq Nat /\ Slots # {}
  /\ Errors \in BOOLEAN

VARIABLES
  world,        \* the version of the platforms of each instance
  host,         \* the connection of each host to the controller
  status,       \* the version the controller knows of each transfer, 0: none
  active,       \* activeTransfers
  due,          \* treeBroadcastLimiter has an action to run
  builds,       \* calls of buildPlatformTree under way, oldest first
  treeRevision, transferRevision, logRevision,
  subscription, \* the entry of the page's link in surfaceExportSubscriptions
  replies,      \* lists computed and not yet sent
  opened,       \* logs read for the page and not yet sent
  link,         \* the link between page and controller
  up,           \* requests on their way to the controller
  down,         \* pushes and answers on their way to the page
  mounted,      \* the page has callbacks
  page,         \* the state of the plugin of the page
  syncs,        \* syncLiveState calls under way
  lastEvent,    \* lastConnectionEvent
  generation,   \* resubscribeGeneration
  timer,        \* resubscribeTimer is set
  mayViewLogs,  \* the user has the permission VIEW_LOGS
  mounts, faults,
  told,         \* (history) transfers the page was told of in this session
  missed        \* (history) transfers of which it may not know the present state

game   == <<world, host>>
server == <<active, due, builds, treeRevision, transferRevision, logRevision,
            subscription, replies, opened>>
queues == <<link, up, down>>
client == <<page, syncs, lastEvent, generation, timer>>
seen   == <<told, missed>>
vars   == <<game, status, server, queues, mounted, client, mayViewLogs, mounts, faults, seen>>

\* What a tree says of an instance: its version, or one of these.
Offline == -1
Failed  == -2
Trees   == [Instances -> Int]

None == [tree |-> FALSE, transfers |-> FALSE, logs |-> FALSE]
Subscriptions == [tree : BOOLEAN, transfers : BOOLEAN, logs : BOOLEAN]
LiveStatuses  == {"live", "reconnecting", "offline", "degraded"}
Outcomes      == {"subscribed", "unsubscribed", "skipped", "failed", "none"}

\* A tree being built, for whom, and the instances whose answer it awaits.
Purposes == {"broadcast", "subscribe", "fetch", "nobody"}
Builds   == [for : Purposes, id : Slots, awaits : SUBSET Instances, tree : Trees]

Requests == [kind : {"subscribe"}, id : Slots, enable : BOOLEAN, logs : BOOLEAN]
              \cup [kind : {"tree", "list"}, id : Slots]
TreeEvents     == [kind : {"tree"}, revision : Nat, tree : Trees]
TransferEvents == [kind : {"transfer", "log"}, revision : Nat, t : Transfers, v : Nat]
Logs           == [kind : {"opened"}, t : Transfers, v : Nat]
Answers == [kind : {"ok", "denied", "error", "fetchError"}, id : Slots]
             \cup [kind : {"treeAnswer"}, id : Slots, revision : Nat, tree : Trees]
             \cup [kind : {"listAnswer"}, id : Slots, list : [Transfers -> Nat]]

\* A synchronisation: its step, what it asked for, the summaries that were replaced
\* since it began to fetch, the tree it was answered, and the generation of the
\* retry loop it belongs to (0: none, it was started by a component).
Idle  == [step |-> "idle", enable |-> FALSE, touched |-> {}, revision |-> 0,
          tree |-> [i \in Instances |-> Offline], loop |-> 0]
Syncs == [step : {"idle", "subscribe", "plain", "tree", "list"}, enable : BOOLEAN,
          touched : SUBSET Transfers, revision : Nat, tree : Trees, loop : Nat]

Connected == link = "up"

Truth == [i \in Instances |-> IF host[i] = "up" THEN world[i] ELSE Offline]

-----------------------------------------------------------------------------
(* Controller *)

\* buildPlatformTree, up to its await: the instances of connected hosts are asked.
Build(for, id) ==
  [for |-> for, id |-> id, awaits |-> {i \in Instances : host[i] = "up"},
   tree |-> [i \in Instances |-> Offline]]

Push(filter, events) == down' = IF filter THEN down \o events ELSE down
\* broadcastToSubscribers of one transfer: a summary, and an entry of its log.
TransferPushes(t, v, to) ==
  (IF to.transfers
   THEN <<[kind |-> "transfer", revision |-> transferRevision + 1, t |-> t, v |-> v]>>
   ELSE <<>>)
  \o (IF to.logs THEN <<[kind |-> "log", revision |-> logRevision + 1, t |-> t, v |-> v]>>
      ELSE <<>>)

\* Mutant: a subscription without logs is deleted.
HasAnyLogs(wanted) == wanted.logs

\* hasAny: a subscription to nothing is deleted.
HasAny(wanted) == wanted.tree \/ wanted.transfers \/ wanted.logs

\* handleSetSurfaceExportSubscriptionRequest up to its await.
SetSubscription(r) ==
  LET wanted == [tree |-> r.enable, transfers |-> r.enable, logs |-> r.logs]
  IN  IF r.logs /\ ~mayViewLogs
      THEN /\ Push(TRUE, <<[kind |-> "denied", id |-> r.id]>>)
           /\ UNCHANGED <<subscription, builds>>
      ELSE /\ subscription' = IF HasAny(wanted) THEN wanted ELSE None
           /\ IF ~HasAny(wanted)
              THEN Push(TRUE, <<[kind |-> "ok", id |-> r.id]>>) /\ UNCHANGED builds
              ELSE builds' = Append(builds, Build("subscribe", r.id)) /\ UNCHANGED down

\* Builds whose last answer came go on before the controller takes up anything else.
Complete == {n \in DOMAIN builds : builds[n].awaits = {}}

\* The controller takes the next request of the page.
Handle ==
  /\ Complete = {} /\ Connected /\ up # <<>> /\ up' = Tail(up)
  /\ LET r == Head(up) IN
     \/ /\ r.kind = "subscribe" /\ SetSubscription(r) /\ UNCHANGED replies
     \/ /\ r.kind = "tree" /\ builds' = Append(builds, Build("fetch", r.id))
        /\ UNCHANGED <<subscription, replies, down>>
     \/ /\ r.kind = "list"
        /\ replies' = replies \cup {[kind |-> "listAnswer", id |-> r.id, list |-> status]}
        /\ UNCHANGED <<subscription, builds, down>>
  /\ UNCHANGED <<game, status, active, due, treeRevision, transferRevision, logRevision, link,
                 opened, mounted, client, mayViewLogs, mounts, faults, seen>>

\* The handler of a request throws.
HandleFails ==
  /\ Errors /\ Connected /\ up # <<>> /\ up' = Tail(up)
  /\ faults < MaxFaults /\ faults' = faults + 1
  /\ LET kind == IF Head(up).kind = "subscribe" THEN "error" ELSE "fetchError"
     IN  Push(TRUE, <<[kind |-> kind, id |-> Head(up).id]>>)
  /\ UNCHANGED <<game, status, server, link, mounted, client, mayViewLogs, mounts, seen>>

\* A list that was computed is sent.
SendReply ==
  /\ \E r \in replies : replies' = replies \ {r} /\ Push(TRUE, <<r>>)
  /\ UNCHANGED <<game, status, active, due, builds, treeRevision, transferRevision, logRevision,
                 subscription, opened, link, up, mounted, client, mayViewLogs, mounts, faults, seen>>

\* The page asks for the log of a transfer it lists (loadTransactionLog), which tells
\* of the transfer what the controller knows; then the log is sent.  Bound: one at a
\* time, and none after the last fault.
OpenLog(t) ==
  /\ Complete = {} /\ Connected /\ mayViewLogs /\ mounted
  /\ page.summaries[t] > 0 /\ status[t] > 0 /\ faults < MaxFaults
  /\ opened = {} /\ \A n \in DOMAIN down : down[n].kind # "opened"
  /\ opened' = {[kind |-> "opened", t |-> t, v |-> status[t]]}
  /\ UNCHANGED <<game, status, active, due, builds, treeRevision, transferRevision, logRevision,
                 subscription, replies, queues, mounted, client, mayViewLogs, mounts, faults, seen>>
SendLog ==
  /\ \E r \in opened : opened' = opened \ {r} /\ Push(TRUE, <<r>>)
  /\ UNCHANGED <<game, status, active, due, builds, treeRevision, transferRevision, logRevision,
                 subscription, replies, link, up, mounted, client, mayViewLogs, mounts, faults, seen>>

\* The limiter runs emitTreeUpdate, which builds a tree if anyone wants one.
Broadcast ==
  /\ Complete = {} /\ due /\ due' = FALSE
  /\ builds' = IF subscription.tree
               THEN Append(builds, Build("broadcast", CHOOSE s \in Slots : TRUE))
               ELSE builds
  /\ UNCHANGED <<game, status, active, treeRevision, transferRevision, logRevision, subscription,
                 replies, opened, queues, mounted, client, mayViewLogs, mounts, faults, seen>>

\* requestInstancePlatforms: an instance answers its requests in the order they came.
InstanceAnswers(i) ==
  /\ Complete = {} /\ host[i] = "up"
  /\ \E n \in DOMAIN builds :
       /\ i \in builds[n].awaits
       /\ \A m \in 1..n - 1 : i \notin builds[m].awaits
       /\ builds' = [builds EXCEPT ![n].awaits = @ \ {i}, ![n].tree[i] = world[i]]
  /\ UNCHANGED <<game, status, active, due, treeRevision, transferRevision, logRevision,
                 subscription, replies, opened, queues, mounted, client, mayViewLogs,
                 mounts, faults, seen>>

\* A tree is complete: it gets the next revision and goes to who asked for it.  A
\* subscriber is also sent the active transfers, and its answer.
BuildDone ==
  \E n \in Complete :
    /\ \A m \in Complete : n <= m
    /\ LET b     == builds[n]
           event == [kind |-> "tree", revision |-> treeRevision + 1, tree |-> b.tree]
       IN  /\ treeRevision' = treeRevision + 1
           /\ builds' = SubSeq(builds, 1, n - 1) \o SubSeq(builds, n + 1, Len(builds))
           /\ CASE b.for = "broadcast" ->
                     Push(subscription.tree, <<event>>) /\ UNCHANGED transferRevision
                [] b.for = "subscribe" ->
                     \E order \in [1..Cardinality(active) -> active] :
                       /\ \A t \in active : \E k \in DOMAIN order : order[k] = t
                       /\ transferRevision' = transferRevision + Cardinality(active)
                       /\ Push(TRUE,
                            <<event>>
                            \o [k \in DOMAIN order |->
                                 [kind |-> "transfer", revision |-> transferRevision + k,
                                  t |-> order[k], v |-> status[order[k]]]]
                            \o <<[kind |-> "ok", id |-> b.id]>>)
                [] b.for = "fetch" ->
                     /\ Push(TRUE, <<[kind |-> "treeAnswer", id |-> b.id,
                                      revision |-> treeRevision + 1, tree |-> b.tree]>>)
                     /\ UNCHANGED transferRevision
                [] b.for = "nobody" -> UNCHANGED <<down, transferRevision>>
  /\ UNCHANGED <<game, status, active, due, logRevision, subscription, replies, opened, link,
                 up, mounted, client, mayViewLogs, mounts, faults, seen>>

\* onHostConnectionEvent, onInstanceStatusChanged, handlePlatformStateChanged.
QueueTreeBroadcast == due' = TRUE

\* Bound: what changes of an instance and of a transfer, together.
Within(i, t) == world[i] + status[t] < MaxSteps

\* The platforms of an instance change, and it says so (PlatformStateChangedEvent).
PlatformsChange(i) ==
  /\ host[i] = "up" /\ world[i] < MaxVersion /\ \A t \in Transfers : Within(i, t)
  /\ world' = [world EXCEPT ![i] = @ + 1] /\ QueueTreeBroadcast
  /\ UNCHANGED <<host, status, active, builds, treeRevision, transferRevision, logRevision,
                 subscription, replies, opened, queues, mounted, client, mayViewLogs,
                 mounts, faults, seen>>

\* A transfer starts or takes a step, and is broadcast.
TransferSteps(t) ==
  /\ status[t] < MaxSteps /\ \A i \in Instances : Within(i, t)
  /\ t \in active \/ status[t] = 0
  /\ status' = [status EXCEPT ![t] = @ + 1] /\ active' = active \cup {t}
  /\ LET pushes == TransferPushes(t, status'[t], subscription)
     IN  Push(TRUE, pushes)
  /\ transferRevision' = transferRevision + 1 /\ logRevision' = logRevision + 1
  /\ UNCHANGED <<game, due, builds, treeRevision, subscription, replies, opened, link, up,
                 mounted, client, mayViewLogs, mounts, faults, seen>>

\* The link of a host drops: what was asked of it is still awaited, until the link
\* resumes or its session is lost.
HostDrops(i) ==
  /\ host[i] = "up" /\ faults < MaxFaults /\ faults' = faults + 1
  /\ host' = [host EXCEPT ![i] = "dropped"] /\ QueueTreeBroadcast
  /\ UNCHANGED <<world, status, active, builds, treeRevision, transferRevision, logRevision,
                 subscription, replies, opened, queues, mounted, client, mayViewLogs,
                 mounts, seen>>
HostResumes(i) ==
  /\ host[i] = "dropped" /\ host' = [host EXCEPT ![i] = "up"] /\ QueueTreeBroadcast
  /\ UNCHANGED <<world, status, active, builds, treeRevision, transferRevision, logRevision,
                 subscription, replies, opened, queues, mounted, client, mayViewLogs,
                 mounts, faults, seen>>
HostLost(i) ==
  /\ Complete = {} /\ host[i] = "dropped" /\ host' = [host EXCEPT ![i] = "lost"] /\ QueueTreeBroadcast
  /\ builds' = [n \in DOMAIN builds |->
       IF i \in builds[n].awaits
       THEN [builds[n] EXCEPT !.awaits = @ \ {i}, !.tree[i] = Failed] ELSE builds[n]]
  /\ UNCHANGED <<world, status, active, treeRevision, transferRevision, logRevision,
                 subscription, replies, opened, queues, mounted, client, mayViewLogs,
                 mounts, faults, seen>>

-----------------------------------------------------------------------------
(* Page *)

\* Mutant: the outcome is shown as the status.
NextLiveStatusIsOutcome(previous, connected, event, outcome) ==
  IF outcome = "none" THEN previous ELSE outcome

\* nextLiveStatus.
NextLiveStatus(previous, connected, event, outcome) ==
  CASE outcome = "none" /\ event = "close" -> "offline"
    [] outcome = "none" /\ event = "drop" -> "reconnecting"
    [] (outcome # "none" \/ event \notin {"close", "drop"}) /\ ~connected ->
         IF event = "close" THEN "offline" ELSE "reconnecting"
    [] connected /\ outcome = "failed" -> "degraded"
    [] connected /\ outcome = "subscribed" -> "live"
    [] connected /\ outcome = "skipped" -> "reconnecting"
    [] OTHER -> previous
ShouldRetryResubscribe(live, connected) == connected /\ live = "degraded"

\* syncLiveState up to its first await, by a component (loop = 0) or the retry loop.
Start(base, table, queue, loop) ==
  \E s \in {x \in Slots : /\ table[x].step = "idle"
                          /\ \A y \in Slots : table[y].step = "idle" => x <= y} :
    /\ syncs' = [table EXCEPT ![s] =
         [Idle EXCEPT !.step = "subscribe", !.enable = mounted', !.loop = loop]]
    /\ up' = Append(queue, [kind |-> "subscribe", id |-> s, enable |-> mounted',
                            logs |-> mounted' /\ base.canViewLogs])
    /\ page' = base
\* Without a connection it is skipped.
Skip ==
  /\ page' = [page EXCEPT !.live = NextLiveStatus(@, FALSE, lastEvent, "skipped")]
  /\ UNCHANGED <<syncs, up>>

\* useSurfaceExportState: onUpdate and offUpdate.
Mount ==
  /\ mounts < MaxMounts /\ mounts' = mounts + 1 /\ mounted' = ~mounted
  /\ \/ Connected /\ Start(page, syncs, up, 0)
     \/ ~Connected /\ Skip
  /\ UNCHANGED <<game, status, server, link, down, lastEvent, generation, timer, mayViewLogs,
                 faults, seen>>

\* The end of a synchronisation: syncAndReport, and the retry loop.
Finish(s, base, outcome, replaced) ==
  LET live == NextLiveStatus(base.live, Connected, lastEvent, outcome) IN
  /\ page' = [base EXCEPT !.live = live]
  /\ syncs' = [x \in Slots |->
       IF x = s THEN Idle ELSE [syncs[x] EXCEPT !.touched = @ \cup replaced]]
  /\ timer' = (timer \/ /\ syncs[s].loop = generation
                        /\ ShouldRetryResubscribe(live, Connected))

\* refreshSnapshots begins.
Refresh(s) ==
  /\ syncs' = [syncs EXCEPT ![s].step = "tree", ![s].touched = {}]
  /\ up' = Append(up, [kind |-> "tree", id |-> s])
  /\ UNCHANGED <<page, timer>>

\* decideSnapshot: the tree of an answer is taken if it is newer than the last.
WithSnapshot(base, revision, tree) ==
  IF revision > base.lastTree
  THEN [base EXCEPT !.tree = tree, !.lastTree = revision] ELSE base

\* Mutant: what was pushed meanwhile is not kept.
WithListReplaced(base, list, touched) == [base EXCEPT !.summaries = list]

\* The list of an answer, under the summaries that were replaced meanwhile.
WithList(base, list, touched) ==
  [base EXCEPT !.summaries =
     [t \in Transfers |-> IF t \in touched THEN base.summaries[t] ELSE list[t]]]

\* The answers that a synchronisation awaits.
AnswerOk(m) ==
  /\ m.kind = "ok" /\ syncs[m.id].step \in {"subscribe", "plain"}
  /\ \/ syncs[m.id].enable /\ Refresh(m.id)
     \/ ~syncs[m.id].enable /\ Finish(m.id, page, "unsubscribed", {}) /\ UNCHANGED up
AnswerDenied(m) ==
  /\ m.kind = "denied" /\ syncs[m.id].step = "subscribe"
  /\ page' = [page EXCEPT !.canViewLogs = FALSE]
  /\ syncs' = [syncs EXCEPT ![m.id].step = "plain"]
  /\ up' = Append(up, [kind |-> "subscribe", id |-> m.id, enable |-> syncs[m.id].enable,
                       logs |-> FALSE])
  /\ UNCHANGED timer
AnswerError(m) ==
  m.kind = "error" /\ Finish(m.id, page, "failed", {}) /\ UNCHANGED up
\* refreshSnapshots catches what its requests throw: the page has subscribed all the same.
AnswerFetchError(m) ==
  /\ m.kind = "fetchError" /\ Finish(m.id, page, "subscribed", {}) /\ UNCHANGED <<up, told>>
  /\ missed' = Transfers
AnswerTree(m) ==
  /\ m.kind = "treeAnswer"
  /\ \/ /\ page.canViewLogs
        /\ syncs' = [syncs EXCEPT ![m.id].step = "list", ![m.id].tree = m.tree,
                                  ![m.id].revision = m.revision]
        /\ up' = Append(up, [kind |-> "list", id |-> m.id])
        /\ UNCHANGED <<page, timer>>
     \/ /\ ~page.canViewLogs /\ UNCHANGED up
        /\ Finish(m.id, WithSnapshot(page, m.revision, m.tree), "subscribed", {})
AnswerList(m) ==
  /\ m.kind = "listAnswer" /\ UNCHANGED up
  /\ LET s == syncs[m.id]
     IN  Finish(m.id,
                WithSnapshot(WithList(page, m.list, s.touched), s.revision, s.tree),
                "subscribed", Transfers)
  /\ told' = Transfers /\ missed' = missed \cap syncs[m.id].touched

\* handleTreeUpdate.
TreeUpdate(m) ==
  /\ m.kind = "tree"
  /\ page' = WithSnapshot(page, m.revision, m.tree) /\ UNCHANGED <<syncs, up, timer>>
\* mergeTransferSummary.
Touch(t) ==
  /\ syncs' = [s \in Slots |-> [syncs[s] EXCEPT !.touched = @ \cup {t}]]
  /\ told' = told \cup {t}
\* handleTransferUpdate and handleLogUpdate.
TransferUpdate(m) ==
  /\ m.kind = "transfer" /\ UNCHANGED <<up, timer>>
  /\ IF m.revision > page.lastTransfer
     THEN /\ page' = [page EXCEPT !.summaries[m.t] = m.v, !.lastTransfer = m.revision]
          /\ Touch(m.t) /\ missed' = missed \ {m.t}
     ELSE UNCHANGED <<page, syncs, seen>>
LogUpdate(m) ==
  /\ m.kind = "log" /\ UNCHANGED <<up, timer>>
  /\ IF m.revision > page.lastLog
     THEN /\ page' = [page EXCEPT !.summaries[m.t] = m.v, !.lastLog = m.revision]
          /\ Touch(m.t) /\ missed' = missed \ {m.t}
     ELSE UNCHANGED <<page, syncs, seen>>

\* loadTransactionLog: whatever the log tells of the transfer is taken.
LogOpened(m) ==
  /\ m.kind = "opened" /\ UNCHANGED <<up, timer>>
  /\ page' = [page EXCEPT !.summaries[m.t] = m.v] /\ Touch(m.t)
  /\ missed' = IF m.v < page.summaries[m.t] THEN missed \cup {m.t} ELSE missed

Receive ==
  /\ Connected /\ down # <<>> /\ down' = Tail(down)
  /\ LET m == Head(down) IN
     \/ /\ AnswerOk(m) \/ AnswerDenied(m) \/ AnswerError(m) \/ AnswerTree(m) \/ TreeUpdate(m)
        /\ UNCHANGED seen
     \/ AnswerFetchError(m) \/ AnswerList(m)
     \/ TransferUpdate(m) \/ LogUpdate(m) \/ LogOpened(m)
  /\ UNCHANGED <<game, status, server, link, mounted, lastEvent, generation, mayViewLogs, mounts,
                 faults>>

\* resubscribeUntilLive, after its delay.
TimerFires ==
  /\ timer /\ timer' = FALSE /\ UNCHANGED mounted
  /\ Connected /\ Start(page, syncs, up, generation)
  /\ UNCHANGED <<game, status, server, link, down, lastEvent, generation, mayViewLogs, mounts,
                 faults, seen>>

-----------------------------------------------------------------------------
(* The link *)

\* The link drops: nothing is lost yet.
LinkDrops ==
  /\ Connected /\ faults < MaxFaults /\ faults' = faults + 1
  /\ link' = "dropped" /\ lastEvent' = "drop"
  /\ generation' = generation + 1 /\ timer' = FALSE
  /\ page' = [page EXCEPT !.live = NextLiveStatus(@, FALSE, "drop", "none")]
  /\ UNCHANGED <<game, status, server, up, down, mounted, syncs, mayViewLogs, mounts, seen>>

\* It resumes within its session: everything queued is delivered.
LinkResumes ==
  /\ link = "dropped" /\ link' = "up" /\ lastEvent' = "resume"
  /\ generation' = generation + 1 /\ timer' = FALSE
  /\ UNCHANGED mounted /\ Start(page, syncs, up, generation')
  /\ UNCHANGED <<game, status, server, down, mayViewLogs, mounts, faults, seen>>

\* The session is over (onControlConnectionEvent "close"); the page may be told.
Orphaned(queue) ==
  [n \in DOMAIN queue |->
     IF queue[n].for \in {"subscribe", "fetch"} THEN [queue[n] EXCEPT !.for = "nobody"]
     ELSE queue[n]]
SessionLost ==
  /\ link = "dropped" /\ link' = "lost"
  /\ subscription' = None /\ builds' = Orphaned(builds) /\ replies' = {} /\ opened' = {}
  /\ lastEvent' \in {lastEvent, "close"}
  /\ page' = [page EXCEPT !.live = NextLiveStatus(@, FALSE, lastEvent', "none")]
  /\ generation' = generation + 1
  /\ UNCHANGED <<game, status, active, due, treeRevision, transferRevision, logRevision, up, down,
                 mounted, syncs, timer, mayViewLogs, mounts, faults, seen>>

\* Mutant: the watermarks outlive their session.
FreshNever(base) == base

\* freshRevisionWatermarks.
Fresh(base) == [base EXCEPT !.lastTree = 0, !.lastTransfer = 0, !.lastLog = 0]

\* A new session: requests of the old one fail, and the retry loop starts.
LinkConnects ==
  /\ link = "lost" /\ link' = "up" /\ lastEvent' = "connect"
  /\ generation' = generation + 1 /\ timer' = FALSE
  /\ down' = <<>> /\ UNCHANGED mounted
  /\ Start(Fresh(page), [s \in Slots |-> Idle], <<>>, generation')
  /\ told' = {} /\ missed' = {}
  /\ UNCHANGED <<game, status, server, mayViewLogs, mounts, faults>>

\* What is known of the transfers after a restart, from the rows of the audit ledger:
\* of one that was active its start, unless that was not written yet, or its end.
Known ==
  {f \in [Transfers -> 0..MaxSteps] : \A t \in Transfers :
     /\ f[t] <= status[t] /\ f[t] \in {0, 1, status[t]}
     /\ t \in active \/ f[t] = status[t]}

\* The controller starts anew, with no records and revisions from zero; the hosts
\* connect, and the trees that were being built are forgotten.
ControllerRestarts ==
  /\ faults < MaxFaults /\ faults' = faults + 1
  /\ active' = {} /\ builds' = <<>> /\ subscription' = None
  /\ replies' = {} /\ opened' = {} /\ status' \in Known
  /\ treeRevision' = 0 /\ transferRevision' = 0 /\ logRevision' = 0
  /\ QueueTreeBroadcast
  /\ link' = "lost" /\ lastEvent' = IF Connected THEN "drop" ELSE lastEvent
  /\ page' = [page EXCEPT !.live = NextLiveStatus(@, FALSE, lastEvent', "none")]
  /\ generation' = generation + 1 /\ timer' = FALSE
  /\ UNCHANGED <<game, up, down, mounted, syncs, mayViewLogs, mounts, seen>>

-----------------------------------------------------------------------------
Init ==
  /\ world = [i \in Instances |-> 0] /\ host = [i \in Instances |-> "up"]
  /\ status = [t \in Transfers |-> 0] /\ active = {} /\ due = FALSE /\ builds = <<>>
  /\ treeRevision = 0 /\ transferRevision = 0 /\ logRevision = 0
  /\ subscription = None /\ replies = {} /\ opened = {}
  /\ link = "lost" /\ up = <<>> /\ down = <<>> /\ mounted = FALSE
  /\ page = [tree |-> [i \in Instances |-> Offline], summaries |-> [t \in Transfers |-> 0],
             lastTree |-> 0, lastTransfer |-> 0, lastLog |-> 0,
             canViewLogs |-> TRUE, live |-> "reconnecting"]
  /\ syncs = [s \in Slots |-> Idle] /\ lastEvent = "none" /\ generation = 0 /\ timer = FALSE
  /\ mayViewLogs \in BOOLEAN /\ mounts = 0 /\ faults = 0
  /\ told = {} /\ missed = {}

Next ==
  \/ Handle \/ HandleFails \/ SendReply \/ SendLog \/ Broadcast \/ BuildDone
  \/ \E i \in Instances : \/ InstanceAnswers(i) \/ PlatformsChange(i)
                          \/ HostDrops(i) \/ HostResumes(i) \/ HostLost(i)
  \/ \E t \in Transfers : TransferSteps(t) \/ OpenLog(t)
  \/ Mount \/ Receive \/ TimerFires
  \/ LinkDrops \/ LinkResumes \/ SessionLost \/ LinkConnects \/ ControllerRestarts

\* What the controller, the instances and the page have to do gets done; a dropped
\* link comes back or its session ends, and the page connects again.
Fairness ==
  /\ WF_vars(Handle) /\ WF_vars(SendReply) /\ WF_vars(SendLog) /\ WF_vars(Broadcast) /\ WF_vars(BuildDone)
  /\ \A i \in Instances : WF_vars(InstanceAnswers(i)) /\ WF_vars(HostResumes(i) \/ HostLost(i))
  /\ WF_vars(Receive) /\ WF_vars(TimerFires)
  /\ WF_vars(LinkResumes \/ SessionLost) /\ WF_vars(LinkConnects)
Spec == Init /\ [][Next]_vars /\ Fairness

-----------------------------------------------------------------------------
(* Properties *)

\* Type correctness of the controller, the link and the page.
TypeOK ==
  /\ world \in [Instances -> Nat] /\ host \in [Instances -> {"up", "dropped", "lost"}]
  /\ status \in [Transfers -> Nat] /\ active \subseteq Transfers /\ due \in BOOLEAN
  /\ builds \in Seq(Builds)
  /\ {treeRevision, transferRevision, logRevision, generation, mounts, faults} \subseteq Nat
  /\ subscription \in Subscriptions /\ replies \subseteq Answers /\ opened \subseteq Logs
  /\ link \in {"up", "dropped", "lost"}
  /\ up \in Seq(Requests) /\ down \in Seq(TreeEvents \cup TransferEvents \cup Logs \cup Answers)
  /\ mounted \in BOOLEAN /\ timer \in BOOLEAN /\ mayViewLogs \in BOOLEAN
  /\ page \in [tree : Trees, summaries : [Transfers -> Nat], lastTree : Nat,
               lastTransfer : Nat, lastLog : Nat, canViewLogs : BOOLEAN, live : LiveStatuses]
  /\ syncs \in [Slots -> Syncs]
  /\ lastEvent \in {"none", "connect", "drop", "resume", "close"}
  /\ told \subseteq Transfers /\ missed \subseteq Transfers

Settled == \A s \in Slots : syncs[s].step = "idle"

\* "Subscribed - the page updates on its own": a page that shows live, and waits for
\* no answer, has its subscription at the controller.
LiveMeansSubscribed ==
  Connected /\ mounted /\ Settled /\ page.live = "live" =>
    subscription.tree /\ subscription.transfers /\ (subscription.logs <=> page.canViewLogs)

\* What the page was told of a transfer in this session it never puts back to an older
\* state, whatever answer of whatever request arrives when (revision gates and
\* entriesChangedSince), unless the user opens the log of the transfer, whose answer has
\* no gate.
Arrives(kind, t) ==
  down # <<>> /\ Head(down).kind = kind /\ Head(down).t = t /\ down' = Tail(down)
SummariesNeverRegress ==
  [][\A t \in told : page'.summaries[t] >= page.summaries[t] \/ Arrives("opened", t)]_vars

\* A synchronisation that failed is tried again, if the retry loop began it.
Abandoned == page.live = "degraded" /\ ~timer /\ Settled

\* When nothing changes any more, the page shows what is, and says so, whichever tree
\* was built while another was, and whatever was pushed while an answer was awaited;
\* except of transfers it last read in an overtaken log, or could not fetch.
PageCatchesUp ==
  <>[](mounted /\ ~Abandoned =>
         /\ page.live = "live" /\ page.tree = Truth
         /\ mayViewLogs => \A t \in Transfers \ missed : page.summaries[t] = status[t])
=============================================================================

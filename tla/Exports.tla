------------------------------- MODULE Exports -------------------------------
(***************************************************************************)
(* Exports on their way from the game of an instance to the controller's   *)
(* store, and what is done with them there: a download, a transfer that    *)
(* the controller manages, or a transfer that the game asked for and the   *)
(* instance starts when the export is there.  One job is one export.       *)
(*                                                                         *)
(* The mark that an export is managed by the controller is set at the      *)
(* instance when the game has answered the command that began the export,  *)
(* and looked at when the finished export has been fetched from the game.  *)
(***************************************************************************)
EXTENDS Integers, Sequences, FiniteSets, SequencesExt

CONSTANTS
  Downloads, Managed, Local,  \* the exports, by who asked and what for
  Keep,         \* exports that the cache of the game keeps: resolve_keep_count
  MaxStorage,   \* surface_export.max_storage_size
  Behind,       \* exports of an instance whose clock is behind the others'
  Saved,        \* exports during which the game is saved, and not only when it stops
  Disturbances, \* what may go wrong
  MaxFaults     \* how often

Jobs == Downloads \cup Managed \cup Local
Transfers == Managed \cup Local
Kinds == {"reply", "census", "offline", "unlock", "timeout", "import", "resend", "instance",
          "controller"}

ASSUME ExportsAssumption ==
  /\ Downloads \cap Transfers = {} /\ Managed \cap Local = {}
  /\ Keep \in Nat \ {0} /\ MaxStorage \in Nat \ {0} /\ Behind \subseteq Jobs /\ Saved \subseteq Jobs
  /\ Disturbances \subseteq Kinds /\ MaxFaults \in Nat

VARIABLES
  handler,      \* the controller's handler of each request
  told,         \* what the user was told
  job,          \* the export in the game
  locked,       \* exports whose platform is locked
  cache,        \* the cache_seq of each export in platform_exports, 0 of the others
  seq,          \* platform_export_seq
  notices,      \* completions sent and not yet handled
  replies,      \* RCON replies to the instance, in order
  managed,      \* controllerManagedTransferExports
  link,         \* messages from the instance to the controller, in order
  store,        \* platformStorage, by timestamp
  record,       \* the transfer of each export in activeTransfers, by what a new one may do
  faults,
  taken,        \* (history) exports that a destination began to import
  orphans       \* (history) exports whose answer or mark was lost, or sent again by hand

instance == <<notices, replies, managed>>
world == <<job, locked, cache, seq>>
controller == <<handler, told, store, record>>
history == <<taken, orphans>>
vars == <<controller, world, instance, link, faults, history>>

Init ==
  /\ handler = [j \in Jobs |-> "idle"] /\ told = [j \in Jobs |-> "nothing"]
  /\ job = [j \in Jobs |-> "none"] /\ locked = {}
  /\ cache = [j \in Jobs |-> 0] /\ seq = 0
  /\ notices = {} /\ replies = <<>> /\ managed = {} /\ link = <<>>
  /\ store = <<>> /\ record = [j \in Jobs |-> "none"]
  /\ faults = 0 /\ taken = {} /\ orphans = {}

Fault(kind) == kind \in Disturbances /\ faults < MaxFaults /\ faults' = faults + 1

Answer(j, what) == handler' = [handler EXCEPT ![j] = "done"] /\ told' = [told EXCEPT ![j] = what]

-----------------------------------------------------------------------------
(* Request *)

\* handleExportPlatformForDownloadRequest, handleStartPlatformTransferRequest, up to the
\* request to the instance.
Request(j) ==
  /\ j \notin Local /\ handler[j] = "idle"
  /\ handler' = [handler EXCEPT ![j] = "asked"]
  /\ UNCHANGED <<told, store, record, world, instance, link, faults, history>>

\* The game begins the export, and locks the platform; exportPlatform waits for the reply.
Begin(j) ==
  /\ job' = [job EXCEPT ![j] = "running"] /\ locked' = locked \cup {j}
  /\ UNCHANGED <<cache, seq>>

ExportPlatform(j, heard) ==
  /\ handler[j] = "asked" /\ job[j] = "none" /\ Begin(j)
  /\ replies' = Append(replies, [kind |-> "exported", of |-> j, good |-> heard])
  /\ orphans' = IF heard THEN orphans ELSE orphans \cup {j}
  /\ UNCHANGED <<controller, notices, managed, link, taken>>

AskedInGame(j) ==
  /\ j \in Local /\ job[j] = "none" /\ Begin(j)
  /\ UNCHANGED <<controller, instance, link, faults, history>>

-----------------------------------------------------------------------------
(* Game *)

Newer(exports, j) == {k \in Jobs : exports[k] > exports[j]}

\* Mutant: locks do not protect.
PrunedUnprotected(exports, locks) ==
  [j \in Jobs |-> IF Cardinality(Newer(exports, j)) < Keep THEN exports[j] ELSE 0]

\* prune_to_configured_cap: the newest are kept, and those a lock refers to.
Pruned(exports, locks) ==
  [j \in Jobs |-> IF Cardinality(Newer(exports, j)) < Keep \/ j \in locks THEN exports[j] ELSE 0]

\* The platform of a download is unlocked before the cache is pruned.
Complete(j) ==
  LET locks == IF j \in Downloads THEN locked \ {j} ELSE locked
  IN  /\ job[j] = "running" /\ job' = [job EXCEPT ![j] = "complete"]
      /\ seq' = seq + 1 /\ cache' = Pruned([cache EXCEPT ![j] = seq + 1], locks)
      /\ locked' = locks
      /\ notices' = notices \cup {j}
      /\ UNCHANGED <<controller, replies, managed, link, faults, history>>

\* The notice of an aborted export has an id that handleExportComplete refuses.
CensusAbort(j) ==
  /\ job[j] = "running" /\ Fault("census")
  /\ job' = [job EXCEPT ![j] = "aborted"] /\ locked' = locked \ {j}
  /\ UNCHANGED <<controller, cache, seq, instance, link, history>>

\* By a player, or because the lock is too old.
Unlock(j) ==
  /\ j \in locked /\ Fault("unlock") /\ locked' = locked \ {j}
  /\ UNCHANGED <<controller, job, cache, seq, instance, link, history>>

-----------------------------------------------------------------------------
(* Instance *)

\* handleExportComplete, up to the reply of get_export_json.
Fetch(j) ==
  /\ j \in notices /\ notices' = notices \ {j}
  /\ replies' = Append(replies, [kind |-> "fetched", of |-> j, good |-> cache[j] > 0])
  /\ UNCHANGED <<controller, world, managed, link, faults, history>>

\* Mutant: a request without a destination is marked too.
ExportedMarksAll(reply) ==
  /\ managed' = IF reply.good THEN managed \cup {reply.of} ELSE managed
  /\ link' = Append(link, [kind |-> "response", of |-> reply.of, good |-> reply.good])

\* handleExportPlatformRequest: the mark, and the answer to the controller.
Exported(reply) ==
  /\ managed' = IF reply.good /\ reply.of \in Managed THEN managed \cup {reply.of} ELSE managed
  /\ link' = Append(link, [kind |-> "response", of |-> reply.of, good |-> reply.good])

\* Mutant: the mark is not looked at.
FetchedUnchecked(reply) ==
  /\ managed' = IF reply.good THEN managed \ {reply.of} ELSE managed
  /\ link' = IF ~reply.good THEN link
             ELSE link \o <<[kind |-> "export", of |-> reply.of, good |-> TRUE]>>
                       \o (IF reply.of \in Transfers
                           THEN <<[kind |-> "transfer", of |-> reply.of, good |-> TRUE]>>
                           ELSE <<>>)

\* handleExportComplete, the rest: the export goes to the controller, and a transfer that
\* is not marked is asked for.
Fetched(reply) ==
  LET j == reply.of
      asks == j \in Transfers /\ j \notin managed
  IN  /\ managed' = IF reply.good THEN managed \ {j} ELSE managed
      /\ link' = IF ~reply.good THEN link
                 ELSE link \o <<[kind |-> "export", of |-> j, good |-> TRUE]>>
                           \o (IF asks THEN <<[kind |-> "transfer", of |-> j, good |-> TRUE]>>
                               ELSE <<>>)

Reply ==
  /\ replies # <<>> /\ replies' = Tail(replies)
  /\ IF Head(replies).kind = "exported" THEN Exported(Head(replies)) ELSE Fetched(Head(replies))
  /\ UNCHANGED <<controller, world, notices, faults, history>>

-----------------------------------------------------------------------------
(* Controller *)

\* The stored exports without that of j.
Without(exports, j) ==
  IF Contains(exports, j)
  THEN RemoveAt(exports, CHOOSE n \in 1..Len(exports) : exports[n] = j) ELSE exports

\* Order of the timestamps, which the instances give.  An export of the same id is replaced.
Stored(exports, j) ==
  IF j \in Behind THEN <<j>> \o Without(exports, j) ELSE Append(Without(exports, j), j)

\* handlePlatformExport and cleanupOldExports.
PlatformExport(j) ==
  LET exports == Stored(store, j)
  IN  store' = IF Len(exports) > MaxStorage
               THEN SubSeq(exports, Len(exports) - MaxStorage + 1, Len(exports)) ELSE exports

\* What transferPlatform makes of the record, up to the message to the destination: refused,
\* already active, or sent.
Verdict(j, online) ==
  IF ~Contains(store, j) \/ ~online \/ record[j] = "closed" THEN "refused"
  ELSE IF record[j] \in {"sending", "stuck", "open"} THEN "active" ELSE "sent"

\* The record, and the source: whoever asked unlocks it after a refusal.
TransferPlatform(j, verdict) ==
  /\ record' = IF verdict = "sent" THEN [record EXCEPT ![j] = "sending"] ELSE record
  /\ locked' = IF verdict = "refused" THEN locked \ {j} ELSE locked

Receive(online) ==
  LET msg == Head(link)
      j == msg.of
  IN  /\ link # <<>> /\ link' = Tail(link)
      /\ CASE msg.kind = "response" ->
                /\ IF handler[j] # "asked" THEN UNCHANGED <<handler, told>>
                   ELSE IF msg.good
                        THEN handler' = [handler EXCEPT ![j] = "waiting"] /\ UNCHANGED told
                        ELSE Answer(j, "failed")
                /\ UNCHANGED <<store, record, locked>>
           [] msg.kind = "export" ->
                PlatformExport(j) /\ UNCHANGED <<handler, told, record, locked>>
           [] msg.kind = "transfer" ->
                TransferPlatform(j, Verdict(j, online)) /\ UNCHANGED <<handler, told, store>>
      /\ UNCHANGED <<job, cache, seq, instance, history>>

\* waitForStoredExport has found the export.  A transfer that is sent awaits the answer of
\* the destination.
Found(j, online) ==
  LET verdict == Verdict(j, online)
  IN  /\ handler[j] = "waiting" /\ Contains(store, j)
      /\ IF j \in Downloads THEN Answer(j, "ok") /\ UNCHANGED <<record, locked>>
         ELSE /\ TransferPlatform(j, verdict)
              /\ CASE verdict = "sent" ->
                        handler' = [handler EXCEPT ![j] = "sending"] /\ UNCHANGED told
                   [] verdict = "active" -> Answer(j, "ok")
                   [] verdict = "refused" -> Answer(j, "failed")
      /\ UNCHANGED <<store, job, cache, seq, instance, link, history>>

\* A stored export is transferred by its id, from the command line, which leaves the source
\* alone when it is refused.
Resend(j) ==
  /\ Contains(store, j) /\ Verdict(j, TRUE) # "refused" /\ Fault("resend")
  /\ TransferPlatform(j, Verdict(j, TRUE))
  /\ orphans' = orphans \cup {j}
  /\ UNCHANGED <<handler, told, store, job, cache, seq, instance, link, taken>>

\* The answer of the destination, for the handler that waits for it if there is one.
Ended(j, what) ==
  IF handler[j] = "sending" THEN Answer(j, what) ELSE UNCHANGED <<handler, told>>

ImportAccepted(j) ==
  /\ record[j] = "sending" /\ record' = [record EXCEPT ![j] = "open"]
  /\ taken' = taken \cup {j} /\ Ended(j, "ok")
  /\ UNCHANGED <<store, world, instance, link, faults, orphans>>

\* handleImportFailure.  The import goes on if only the reply of its game was lost.
ImportRefused(j, lost) ==
  /\ record[j] = "sending" /\ record' = [record EXCEPT ![j] = "failed"]
  /\ IF lost THEN taken' = taken \cup {j} /\ orphans' = orphans \cup {j}
     ELSE UNCHANGED history
  /\ locked' = locked \ {j} /\ Ended(j, "failed")
  /\ UNCHANGED <<store, job, cache, seq, instance, link>>

\* Mutant: the source is kept locked, but the user is told that the transfer failed.
SessionLostFails(j, reached) ==
  /\ record[j] = "sending" /\ Fault("import") /\ record' = [record EXCEPT ![j] = "open"]
  /\ taken' = (IF reached THEN taken \cup {j} ELSE taken) /\ Ended(j, "failed")
  /\ UNCHANGED <<store, world, instance, link, orphans>>

\* The session is lost: the import may have reached the destination, its verdict is awaited.
SessionLost(j, reached) ==
  /\ record[j] = "sending" /\ Fault("import") /\ record' = [record EXCEPT ![j] = "open"]
  /\ taken' = (IF reached THEN taken \cup {j} ELSE taken) /\ Ended(j, "ok")
  /\ UNCHANGED <<store, world, instance, link, orphans>>

\* The import could not be sent, or the start not be recorded: the record stays as it is.
SendFailed(j) ==
  /\ record[j] = "sending" /\ Fault("import") /\ record' = [record EXCEPT ![j] = "stuck"]
  /\ locked' = locked \ {j} /\ Ended(j, "failed")
  /\ UNCHANGED <<store, job, cache, seq, instance, link, history>>

\* The transfer ends by a verdict or the timeout.  A copy may be left, which bars a retry;
\* the stored export goes with a completed transfer.
Settled(j, how) ==
  /\ record[j] = "open" /\ (how = "closed" => j \in taken)
  /\ record' = [record EXCEPT ![j] = how]
  /\ locked' = locked \ {j}
  /\ store' \in {store} \cup IF how = "closed" THEN {Without(store, j)} ELSE {}
  /\ UNCHANGED <<handler, told, job, cache, seq, instance, link, faults, history>>

\* Mutant: the wait of a download has no deadline.
TimedOutTransfer(j) ==
  /\ j \in Managed /\ handler[j] = "waiting" /\ ~Contains(store, j)
  /\ Answer(j, "failed")
  /\ locked' = locked \ {j}
  /\ UNCHANGED <<store, record, job, cache, seq, instance, link, history>>

\* waitForStoredExport gives up; a transfer unlocks its source.
TimedOut(j) ==
  /\ handler[j] = "waiting" /\ ~Contains(store, j)
  /\ Answer(j, "failed")
  /\ locked' = IF j \in Managed THEN locked \ {j} ELSE locked
  /\ UNCHANGED <<store, record, job, cache, seq, instance, link, history>>

\* Whatever could still bring the export is over.
Lost(j) ==
  /\ j \notin notices /\ job[j] # "running"
  /\ \A n \in DOMAIN replies : replies[n].of # j
  /\ \A n \in DOMAIN link : link[n].of # j

-----------------------------------------------------------------------------
(* Restarts *)

\* The game resumes from its save.  An export that ran when it stopped, or during another save,
\* may run again, wherever it had got to; one that the save does not have yet is as good as
\* ended.  Only the order of the exports in the cache matters, so the counter goes on from
\* the last.
InstanceRestart ==
  LET begun == {j \in Jobs : job[j] # "none"}
      saved == {j \in begun : job[j] = "running" \/ j \in Saved}
  IN  /\ Fault("instance")
      /\ replies' = <<>> /\ notices' = {} /\ managed' = {}
      /\ \E again \in SUBSET saved :
           /\ job' = [j \in Jobs |-> IF j \in again THEN "running"
                                     ELSE IF job[j] = "running" THEN "aborted" ELSE job[j]]
           /\ locked' = locked \cup again
           /\ cache' = [j \in Jobs |-> IF j \in again THEN 0 ELSE cache[j]]
      /\ seq' \in {cache'[j] : j \in Jobs} /\ \A j \in Jobs : cache'[j] <= seq'
      /\ handler' = [j \in Jobs |-> IF handler[j] = "asked" THEN "done" ELSE handler[j]]
      /\ told' = [j \in Jobs |-> IF handler[j] = "asked" THEN "failed" ELSE told[j]]
      /\ orphans' = orphans \cup (begun \cap Managed)
      /\ UNCHANGED <<store, record, link, taken>>

\* The stored exports are read from their file; requests under way break, and nobody knows
\* what became of an import that was sent.
ControllerRestart ==
  LET broken == {j \in Jobs : handler[j] \in {"asked", "waiting", "sending"}}
  IN  /\ Fault("controller")
      /\ link' = <<>> /\ record' = [j \in Jobs |-> "none"]
      /\ handler' = [j \in Jobs |-> IF j \in broken THEN "done" ELSE handler[j]]
      /\ told' = [j \in Jobs |-> IF j \notin broken THEN told[j]
                                 ELSE IF handler[j] = "sending" THEN "unknown" ELSE "failed"]
      /\ taken' \in {taken \cup sent : sent \in SUBSET {j \in Jobs : record[j] = "sending"}}
      /\ UNCHANGED <<store, world, instance, orphans>>

Online(online, kind) == IF online THEN UNCHANGED faults ELSE Fault(kind)

Next ==
  \/ \E j \in Jobs :
       \/ Request(j) \/ AskedInGame(j) \/ Complete(j) \/ Fetch(j) \/ CensusAbort(j) \/ Unlock(j)
       \/ \E heard \in BOOLEAN : ExportPlatform(j, heard) /\ Online(heard, "reply")
       \/ \E online \in BOOLEAN : Found(j, online) /\ Online(online, "offline")
       \/ Resend(j) \/ ImportAccepted(j) \/ SendFailed(j)
       \/ \E lost \in BOOLEAN : ImportRefused(j, lost) /\ Online(~lost, "import")
       \/ \E reached \in BOOLEAN : SessionLost(j, reached)
       \/ \E how \in {"failed", "closed"} : Settled(j, how)
       \/ TimedOut(j) /\ IF Lost(j) THEN UNCHANGED faults ELSE Fault("timeout")
  \/ Reply \/ (\E online \in BOOLEAN : Receive(online) /\ Online(online, "offline"))
  \/ InstanceRestart \/ ControllerRestart

\* The game works on its jobs, the instance on replies and notices, the controller on
\* messages and on handlers that wait, with a deadline, and a destination answers.
Fairness ==
  /\ WF_vars(Reply) /\ WF_vars(Receive(TRUE) /\ UNCHANGED faults)
  /\ \A j \in Jobs : /\ WF_vars(ExportPlatform(j, TRUE) /\ UNCHANGED faults)
                     /\ WF_vars(Complete(j)) /\ WF_vars(Fetch(j))
                     /\ WF_vars(Found(j, TRUE) /\ UNCHANGED faults)
                     /\ WF_vars(ImportAccepted(j) \/ (ImportRefused(j, FALSE) /\ UNCHANGED faults))
                     /\ WF_vars(TimedOut(j) /\ Lost(j) /\ UNCHANGED faults)

Spec == Init /\ [][Next]_vars /\ Fairness

-----------------------------------------------------------------------------
(* Properties *)

Replies == [kind : {"exported", "fetched"}, of : Jobs, good : BOOLEAN]
Messages == [kind : {"response", "export", "transfer"}, of : Jobs, good : BOOLEAN]

\* Every variable has its type; the store holds an export once, and no two exports of the
\* cache have the same number.
TypeOK ==
  /\ handler \in [Jobs -> {"idle", "asked", "waiting", "sending", "done"}]
  /\ told \in [Jobs -> {"nothing", "ok", "failed", "unknown"}]
  /\ job \in [Jobs -> {"none", "running", "complete", "aborted"}]
  /\ locked \subseteq Jobs /\ notices \subseteq Jobs /\ managed \subseteq Managed
  /\ replies \in Seq(Replies) /\ link \in Seq(Messages)
  /\ store \in Seq(Jobs) /\ IsInjective(store)
  /\ seq \in Nat /\ cache \in [Jobs -> 0..seq]
  /\ \A j, k \in Jobs : cache[j] = cache[k] /\ cache[j] # 0 => j = k
  /\ record \in [Jobs -> {"none", "sending", "stuck", "open", "failed", "closed"}]
  /\ faults \in Nat /\ taken \subseteq Jobs /\ orphans \subseteq Jobs

\* If the user was told that a transfer failed, no destination began to import its export,
\* then or later.  Left out are exports whose answer or mark was lost, for which the instance
\* starts a transfer that the controller reported as failed or the import goes on without its
\* record, and exports that somebody sent again by their id.
TransferAsAnswered ==
  \A j \in Managed \ orphans : told[j] = "failed" => j \notin taken

\* The cache never drops the finished export of a locked platform before it is fetched.
LockedExportCached ==
  \A j \in notices \cap locked : cache[j] > 0

\* Who asks for an export is told how it ended.
RequestSettles == \A j \in Jobs \ Local : handler[j] = "asked" ~> told[j] # "nothing"
=============================================================================

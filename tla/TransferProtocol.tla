-------------------------- MODULE TransferProtocol --------------------------
(***************************************************************************)
(* The transfer of one platform from its source instance to a destination: *)
(* the lock and the exports on the source, the controller's                *)
(* TransferOrchestrator with its transfer records, timers and coroutines,  *)
(* the imports on the destination, and the messages between the three.     *)
(*                                                                         *)
(* A transfer is named by its export: the job id of the export on the      *)
(* source is the key of the stored export and of the transfer record on    *)
(* the controller, and it is the id in the source's transfer lock.  Each   *)
(* call of transferPlatform that passes the retry guard is an attempt.     *)
(*                                                                         *)
(* A lock freezes the platform, so an export taken under a lock equals the *)
(* platform until the lock is released.  SurfaceLock models the lock       *)
(* itself, and the command by which a player may defeat it.                *)
(*                                                                         *)
(* The orchestrator is one JavaScript thread: code between two awaits is   *)
(* one step, and any other handler may run at an await.                    *)
(***************************************************************************)
EXTENDS Integers, Sequences, FiniteSets

CONSTANTS
  Transfers,       \* the exports of the platform, and so the transfers
  MaxAttempts,     \* bound on the attempts at one transfer
  MaxFaults,       \* bound on the faults of one behaviour
  MaxStored,       \* surface_export.max_storage_size
  Environment,     \* what may disturb a transfer (Disturbances, FaultKinds)
  NoLock           \* the platform has no entry in storage.locked_platforms

\* "timeout": a controller timer runs out while the awaited work goes on;
\* "ttl": a source lock reaches its deadline;
\* "admin": a player locks and unlocks the platform by command;
\* "plain": the platform is also exported without a destination;
\* "ctl": an operator starts the transfer of a stored export, again or anew.
Disturbances == {"timeout", "ttl", "admin", "plain", "ctl"}

\* Failures of the environment, each where the code meets it.
FaultKinds == {"lost_export", "offline", "lost_answer", "lost_session", "send_error",
               "garbled_verdict", "lost_verdict", "lost_source", "stuck_delete", "restart"}

\* What neither misreports an outcome nor lets anyone but the transfer and the
\* deadline end its lock.
Interruptions == {"ttl", "plain", "lost_export", "offline", "lost_session", "send_error",
                  "lost_source", "restart"}

\* The faults that may take the export, the record or the request by which the
\* transfer would have ended its lock.
Severing == {"lost_export", "lost_source", "restart"}

ASSUME ConstantsAssumption ==
  /\ MaxAttempts \in Nat \ {0}
  /\ MaxFaults \in Nat
  /\ MaxStored \in Nat \ {0}
  /\ Environment \subseteq Disturbances \cup FaultKinds
  /\ NoLock \notin Transfers \cup {"manual", "export"}
  /\ Transfers \cap {"manual", "export"} = {}

VARIABLES
  \* the source instance
  alive,           \* the original platform exists
  lock,            \* its entry in storage.locked_platforms, by owner
  exact,           \* (history) the exports equal to the locked original
  expired,         \* (history) the transfers whose lock reached its deadline
  export,          \* the export jobs
  \* the controller
  starting,        \* the flows waiting to call transferPlatform
  stored,          \* platformStorage
  rec,             \* activeTransfers: the current record of each transfer
  timers,          \* the armed validation timeouts, by attempt
  tries,           \* the attempts admitted so far
  call,            \* the transferPlatform coroutine of each attempt
  handlers,        \* the handleTransferValidation coroutines under way
  \* the destination and the messages
  import,          \* the import of each attempt, from request to outcome
  reply,           \* the destination's answer to the import request
  verdicts,        \* TransferValidationEvents on their way
  srcLink,         \* requests to the source instance, in order
  faults           \* how many faults have happened, and whether a severing one

source     == <<alive, lock, exact, expired, export>>
controller == <<starting, stored, rec, timers, tries, call, handlers>>
network    == <<import, reply, verdicts, srcLink, faults>>
vars       == <<source, controller, network>>

Attempts == 1..MaxAttempts

LockOwners  == {NoLock, "manual", "export"} \cup Transfers
Expirable   == {"export"} \cup Transfers
LiveStatus  == {"transporting", "awaiting_validation"}
Statuses    == LiveStatus \cup
               {"none", "completed", "failed", "cleanup_failed", "error"}
Failures    == {"failure", "failure_orphan", "failure_preserved"}
Verdicts    == [t : Transfers, a : Attempts, kind : {"success"} \cup Failures]
Calls       == {"none", "archiving", "sending", "done"}
Imports     == {"none", "sent", "importing", "live", "discarded", "orphan", "preserved",
                "dropped"}
Records     == [attempt : 0..MaxAttempts, status : Statuses,
                preserved : BOOLEAN, timer : 0..MaxAttempts]
Handlers    == [t : Transfers, rec : 0..MaxAttempts, from : Attempts,
                kind : {"success", "timeout"} \cup Failures,
                pc : {"request", "ok", "error", "threw", "cleanup"}]
\* by is the handler that awaits the answer, or Rollback for an unlock that no
\* handler awaits.
Rollback    == <<0, 0, "rollback">>
Requests    == [op : {"delete", "unlock"}, t : Transfers,
                by : (0..MaxAttempts) \X (0..MaxAttempts) \X
                     ({"rollback", "success", "timeout"} \cup Failures)]

Faults       == [count : 0..MaxFaults, severed : BOOLEAN]

NoRecord     == [attempt |-> 0, status |-> "none", preserved |-> FALSE, timer |-> 0]
NewRecord(a) == [attempt |-> a, status |-> "transporting", preserved |-> FALSE,
                 timer |-> 0]

TypeOK ==
  /\ alive \in BOOLEAN
  /\ lock \in LockOwners
  /\ exact \subseteq Transfers /\ expired \subseteq Transfers
  /\ export \in [Transfers -> {"none", "managed", "transfer", "plain", "done"}]
  /\ starting \in [Transfers -> {"none", "store", "request"}]
  /\ stored \subseteq Transfers
  /\ rec \in [Transfers -> Records]
  /\ timers \in [Transfers -> SUBSET Attempts]
  /\ tries \in [Transfers -> 0..MaxAttempts]
  /\ call \in [Transfers -> [Attempts -> Calls]]
  /\ handlers \subseteq Handlers
  /\ import \in [Transfers -> [Attempts -> Imports]]
  /\ reply \in [Transfers -> [Attempts -> {"none", "ok", "fail"}]]
  /\ verdicts \subseteq Verdicts
  /\ srcLink \in Seq(Requests)
  /\ faults \in Faults

Init ==
  /\ alive = TRUE /\ lock = NoLock /\ exact = {} /\ expired = {}
  /\ export = [t \in Transfers |-> "none"]
  /\ starting = [t \in Transfers |-> "none"]
  /\ stored = {} /\ handlers = {} /\ verdicts = {}
  /\ rec = [t \in Transfers |-> NoRecord]
  /\ timers = [t \in Transfers |-> {}]
  /\ tries = [t \in Transfers |-> 0]
  /\ call = [t \in Transfers |-> [a \in Attempts |-> "none"]]
  /\ import = [t \in Transfers |-> [a \in Attempts |-> "none"]]
  /\ reply = [t \in Transfers |-> [a \in Attempts |-> "none"]]
  /\ srcLink = <<>> /\ faults = [count |-> 0, severed |-> FALSE]

-----------------------------------------------------------------------------
(* Helpers *)

Fault(kind) ==
  /\ kind \in Environment /\ faults.count < MaxFaults
  /\ faults' = [count |-> faults.count + 1, severed |-> faults.severed \/ kind \in Severing]

CopyLive(t) == \E a \in Attempts : import[t][a] = "live"

\* Nothing of transfer t is on its way to or from the destination.
Quiet(t) ==
  /\ \A a \in Attempts : /\ import[t][a] \notin {"sent", "importing"}
                         /\ call[t][a] # "sending"
  /\ \A v \in verdicts : v.t # t

Request(op, t, by) == srcLink' = Append(srcLink, [op |-> op, t |-> t, by |-> by])

\* unlock_platform with a valid entry: the registry entry goes and the
\* platform runs again, whoever owned the lock.
ReleaseLock ==
  /\ lock' = NoLock
  /\ exact' = {}

\* A session ends: the requests behind some point are never executed.
CutSourceLink == \E n \in 0..Len(srcLink) : srcLink' = SubSeq(srcLink, 1, n)

SetStatus(t, status) == rec' = [rec EXCEPT ![t].status = status]

-----------------------------------------------------------------------------
(* The source instance: exports, locks and their expiry *)

\* A transfer export: ExportPipeline.queue refuses a platform that has any lock,
\* and locks it under the job id.  "managed" exports were asked for by the
\* controller, which now waits for the store; after a "transfer" export the
\* instance will ask for the transfer.
LockAndExport(t, via) ==
  /\ alive /\ lock = NoLock /\ export[t] = "none"
  /\ lock' = t
  /\ exact' = {t}
  /\ export' = [export EXCEPT ![t] = via]
  /\ starting' = [starting EXCEPT ![t] = IF via = "managed" THEN "store" ELSE "none"]
  /\ UNCHANGED <<alive, expired, stored, rec, timers, tries, call, handlers, network>>

\* An export without destination locks the platform only if nobody has; over
\* another's lock it goes on all the same.
PlainExport(t) ==
  /\ "plain" \in Environment
  /\ alive /\ export[t] = "none"
  /\ export' = [export EXCEPT ![t] = "plain"]
  /\ lock' = IF lock = NoLock THEN "export" ELSE lock
  /\ exact' = exact \cup {t}
  /\ UNCHANGED <<alive, expired, controller, network>>

\* The export reaches the controller, which evicts others over its cap.
Store(t) ==
  \E S \in SUBSET stored :
    /\ Cardinality(S \cup {t}) <= MaxStored
    /\ Cardinality(stored \cup {t}) <= MaxStored => S = stored
    /\ stored' = S \cup {t}

\* ExportPipeline.complete and handleExportComplete.  A plain export ends by
\* unlocking the platform, whoever locked it; a transfer export leaves the lock.
ExportStored(t) ==
  /\ export[t] \in {"managed", "transfer", "plain"}
  /\ export' = [export EXCEPT ![t] = "done"]
  /\ Store(t)
  /\ IF export[t] = "plain" /\ alive
       THEN ReleaseLock /\ UNCHANGED starting
       ELSE /\ UNCHANGED <<lock, exact>>
            /\ starting' = IF export[t] = "transfer"
                             THEN [starting EXCEPT ![t] = "request"] ELSE starting
  /\ UNCHANGED <<alive, expired, rec, timers, tries, call, handlers, network>>

\* The census of a transfer export fails: the platform is unlocked and no export
\* is sent.
CensusAbort(t) ==
  /\ export[t] \in {"managed", "transfer"}
  /\ export' = [export EXCEPT ![t] = "done"]
  /\ IF alive THEN ReleaseLock ELSE UNCHANGED <<lock, exact>>
  /\ UNCHANGED <<alive, expired, controller, network>>

\* The finished export is lost between the game and the controller.
ExportLost(t) ==
  /\ export[t] \in {"managed", "transfer"}
  /\ Fault("lost_export")
  /\ export' = [export EXCEPT ![t] = "done"]
  /\ UNCHANGED <<alive, expired, lock, exact, controller, import, reply, verdicts, srcLink>>

\* scan_transfer_expiries: a transfer or export lock past its deadline is released,
\* never a player's, and without a look at what became of the transfer.  The
\* deadline itself, 36000 ticks after the lock, is not modelled.
LockExpires ==
  /\ "ttl" \in Environment
  /\ alive /\ lock \in Expirable
  /\ ReleaseLock
  /\ expired' = expired \cup (Transfers \cap {lock})
  /\ UNCHANGED <<alive, export, controller, network>>

AdminLock ==
  /\ "admin" \in Environment
  /\ alive /\ lock = NoLock
  /\ lock' = "manual"
  /\ UNCHANGED <<alive, expired, exact, export, controller, network>>

AdminUnlock ==
  /\ "admin" \in Environment
  /\ alive /\ lock # NoLock
  /\ ReleaseLock
  /\ UNCHANGED <<alive, expired, export, controller, network>>

-----------------------------------------------------------------------------
(* The controller: starting a transfer *)

\* transferPlatform past its guards: a fresh record replaces the current one (a
\* timeout of the old record stays armed) and the import request is sent.
SendImport(t, a) ==
  /\ rec' = [rec EXCEPT ![t] = NewRecord(a)]
  /\ call' = [call EXCEPT ![t][a] = "sending"]
  /\ import' = [import EXCEPT ![t][a] = "sent"]

\* The call comes from the flow that was waiting to start t, or from ctl.
Caller(t) ==
  \/ starting[t] # "none" /\ starting' = [starting EXCEPT ![t] = "none"]
  \/ "ctl" \in Environment /\ UNCHANGED starting

\* The guard of transferPlatform on an existing record: none, or a failed one
\* whose destination was not preserved.
MayTry(t) ==
  /\ t \in stored
  /\ rec[t].status = "none" \/ (rec[t].status = "failed" /\ ~rec[t].preserved)

\* A first attempt: no log of this id is on disk, so nothing is awaited between
\* the guard and the new record.
StartFirst(t) ==
  /\ MayTry(t) /\ tries[t] = 0
  /\ Caller(t)
  /\ tries' = [tries EXCEPT ![t] = 1]
  /\ SendImport(t, 1)
  /\ UNCHANGED <<source, stored, timers, handlers,
                 reply, verdicts, srcLink, faults>>

\* A later attempt passes the guard, then awaits archiveRecycledTransferId.
AdmitRetry(t) ==
  /\ MayTry(t) /\ tries[t] \in 1..(MaxAttempts - 1)
  /\ Caller(t)
  /\ tries' = [tries EXCEPT ![t] = @ + 1]
  /\ call' = [call EXCEPT ![t][tries[t] + 1] = "archiving"]
  /\ UNCHANGED <<source, stored, rec, timers, handlers, network>>

\* The awaited archiving is over; the guard is not evaluated again.
StartRetry(t, a) ==
  /\ call[t][a] = "archiving"
  /\ SendImport(t, a)
  /\ UNCHANGED <<source, starting, stored, timers, tries, handlers,
                 reply, verdicts, srcLink, faults>>

\* waitForStoredExport gives up; the flow unlocks the platform.
WaitTimeout(t) ==
  /\ starting[t] = "store" /\ t \notin stored
  /\ "timeout" \in Environment \/ export[t] = "done"
  /\ starting' = [starting EXCEPT ![t] = "none"]
  /\ Request("unlock", t, Rollback)
  /\ UNCHANGED <<source, stored, rec, timers, tries, call, handlers,
                 import, reply, verdicts, faults>>

\* transferPlatform refuses the waiting flow with safeToUnlockSource: the export
\* was evicted, the record is settled, or (a fault) the destination is offline.
StartRefused(t) ==
  /\ \/ starting[t] # "none" /\ t \in stored
        /\ \/ ~MayTry(t) /\ rec[t].status \notin LiveStatus /\ UNCHANGED faults
           \/ Fault("offline")
     \/ starting[t] = "request" /\ t \notin stored /\ UNCHANGED faults
  /\ starting' = [starting EXCEPT ![t] = "none"]
  /\ Request("unlock", t, Rollback)
  /\ UNCHANGED <<source, stored, rec, timers, tries, call, handlers,
                 import, reply, verdicts>>

\* The transfer is already under way: the flow reports success and ends.
AlreadyActive(t) ==
  /\ starting[t] # "none" /\ t \in stored /\ rec[t].status \in LiveStatus
  /\ starting' = [starting EXCEPT ![t] = "none"]
  /\ UNCHANGED <<source, stored, rec, timers, tries, call, handlers, network>>

-----------------------------------------------------------------------------
(* The destination: receiving and finishing an import *)

\* handleImportPlatformRequest: every chunk is taken and the job queued; or the
\* last answer is lost although the job was queued; or a chunk is refused.
DestReceives(t, a) ==
  /\ import[t][a] = "sent"
  /\ \/ /\ import' = [import EXCEPT ![t][a] = "importing"]
        /\ \/ reply' = [reply EXCEPT ![t][a] = "ok"] /\ UNCHANGED faults
           \/ reply' = [reply EXCEPT ![t][a] = "fail"] /\ Fault("lost_answer")
     \/ /\ import' = [import EXCEPT ![t][a] = "dropped"]
        /\ reply' = [reply EXCEPT ![t][a] = "fail"]
        /\ UNCHANGED faults
  /\ UNCHANGED <<source, controller, verdicts, srcLink>>

SendVerdict(t, a, kind) == verdicts' = verdicts \cup {[t |-> t, a |-> a, kind |-> kind]}

\* The import passes its checks: the copy goes live, and only then the verdict is
\* sent.  An error while it is sent makes the instance report a failure.
Validate(t, a) ==
  /\ import[t][a] = "importing"
  /\ import' = [import EXCEPT ![t][a] = "live"]
  /\ \/ SendVerdict(t, a, "success") /\ UNCHANGED faults
     \/ SendVerdict(t, a, "failure") /\ Fault("garbled_verdict")
  /\ UNCHANGED <<source, controller, reply, srcLink>>

\* The import fails: its platform is discarded, or the discard fails, or a debug
\* flag preserves it.
Reject(t, a) ==
  /\ import[t][a] = "importing"
  /\ \E how \in {<<"discarded", "failure">>, <<"orphan", "failure_orphan">>,
                 <<"preserved", "failure_preserved">>} :
       /\ import' = [import EXCEPT ![t][a] = how[1]]
       /\ SendVerdict(t, a, how[2])
  /\ UNCHANGED <<source, controller, reply, srcLink, faults>>

LoseVerdict(v) ==
  /\ Fault("lost_verdict")
  /\ verdicts' = verdicts \ {v}
  /\ UNCHANGED <<source, controller, import, reply, srcLink>>

-----------------------------------------------------------------------------
(* The controller: the outcome of the import request *)

\* Mutant: the timeout is not armed.
EnterAwaitingUnarmed(t, a) ==
  /\ rec' = [rec EXCEPT ![t].status = IF rec[t].attempt = a THEN "awaiting_validation" ELSE @]
  /\ UNCHANGED timers

\* enterAwaitingValidation writes the attempt's own record, but the timeout is
\* armed, and its handle kept, on the transfer's current record.
EnterAwaiting(t, a) ==
  /\ rec' = [rec EXCEPT ![t].timer = a,
       ![t].status = IF rec[t].attempt = a THEN "awaiting_validation" ELSE @]
  /\ timers' = [timers EXCEPT ![t] = @ \cup {a}]

EndCall(t, a) == call' = [call EXCEPT ![t][a] = "done"]

ImportAccepted(t, a) ==
  /\ call[t][a] = "sending" /\ reply[t][a] = "ok"
  /\ EndCall(t, a)
  /\ EnterAwaiting(t, a)
  /\ UNCHANGED <<source, starting, stored, tries, handlers, network>>

\* Mutant: the rollback is forgotten.
ImportRefusedKeepsLock(t, a) ==
  /\ call[t][a] = "sending" /\ reply[t][a] = "fail"
  /\ EndCall(t, a)
  /\ SetStatus(t, "failed")
  /\ UNCHANGED <<source, starting, stored, timers, tries, handlers, network>>

\* handleImportFailure: the current record fails before the unlock is answered.
ImportRefused(t, a) ==
  /\ call[t][a] = "sending" /\ reply[t][a] = "fail"
  /\ EndCall(t, a)
  /\ SetStatus(t, "failed")
  /\ Request("unlock", t, Rollback)
  /\ UNCHANGED <<source, starting, stored, timers, tries, handlers,
                 import, reply, verdicts, faults>>

\* Mutant: a lost session is taken for a refused import.
SendSessionLostUnlocks(t, a) ==
  /\ call[t][a] = "sending"
  /\ Fault("lost_session")
  /\ EndCall(t, a)
  /\ SetStatus(t, "failed")
  /\ Request("unlock", t, Rollback)
  /\ UNCHANGED <<source, starting, stored, timers, tries, handlers,
                 import, reply, verdicts>>

\* The session to the destination is lost: the request may or may not arrive,
\* so the source stays locked and the verdict is awaited.
SendSessionLost(t, a) ==
  /\ call[t][a] = "sending"
  /\ Fault("lost_session")
  /\ EndCall(t, a)
  /\ EnterAwaiting(t, a)
  /\ \/ UNCHANGED import
     \/ import[t][a] = "sent" /\ import' = [import EXCEPT ![t][a] = "dropped"]
  /\ UNCHANGED <<source, starting, stored, tries, handlers,
                 reply, verdicts, srcLink>>

\* Any other error of the send: the source is unlocked, the record untouched.
SendFailed(t, a) ==
  /\ call[t][a] = "sending" /\ import[t][a] = "sent"
  /\ Fault("send_error")
  /\ EndCall(t, a)
  /\ import' = [import EXCEPT ![t][a] = "dropped"]
  /\ Request("unlock", t, Rollback)
  /\ UNCHANGED <<source, starting, stored, rec, timers, tries, handlers,
                 reply, verdicts>>

-----------------------------------------------------------------------------
(* The controller: verdicts and timeouts *)

\* Mutant: every verdict but a timeout deletes the source.
StartHandlerAlwaysDeletes(t, from, kind, armed) ==
  /\ timers' = [timers EXCEPT ![t] = armed \ {rec[t].timer}]
  /\ rec' = [rec EXCEPT ![t].timer = 0, ![t].preserved = (kind = "failure_preserved")]
  /\ handlers' = handlers \cup
       {[t |-> t, rec |-> rec[t].attempt, from |-> from, kind |-> kind, pc |-> "request"]}
  /\ Request(IF kind = "timeout" THEN "unlock" ELSE "delete", t,
             <<rec[t].attempt, from, kind>>)

\* handleTransferValidation on a transfer that awaits its verdict: the record's
\* timeout is cleared and a coroutine starts, which asks the source for the
\* delete after a success and for the unlock after a failure.  The broadcasts it
\* awaits first travel in order like everything on a connection, so the requests
\* of two coroutines leave in the order in which these started.
StartHandler(t, from, kind, armed) ==
  /\ timers' = [timers EXCEPT ![t] = armed \ {rec[t].timer}]
  /\ rec' = [rec EXCEPT ![t].timer = 0, ![t].preserved = (kind = "failure_preserved")]
  /\ handlers' = handlers \cup
       {[t |-> t, rec |-> rec[t].attempt, from |-> from, kind |-> kind, pc |-> "request"]}
  /\ Request(IF kind = "success" THEN "delete" ELSE "unlock", t,
             <<rec[t].attempt, from, kind>>)

\* Mutant: the name of the logged event is written as the status.
AfterSettleEventName(t, kind) ==
  rec' = IF rec[t].status # "failed" \/ kind = "failure" THEN rec
         ELSE [rec EXCEPT ![t].status = "validation_after_settle"]

\* The status guard: a verdict for a settled transfer starts nothing, and only
\* corrects a failed record that leaves a copy behind.
AfterSettle(t, kind) ==
  rec' = IF rec[t].status # "failed" THEN rec
         ELSE CASE kind = "success" -> [rec EXCEPT ![t].status = "cleanup_failed"]
                [] kind = "failure_orphan" ->
                     [rec EXCEPT ![t].status = "cleanup_failed", ![t].preserved = FALSE]
                [] kind = "failure_preserved" -> [rec EXCEPT ![t].preserved = TRUE]
                [] OTHER -> rec

\* The import's accepting answer and its verdict come over one connection, in
\* this order.
ReceiveVerdict(v) ==
  /\ reply[v.t][v.a] = "ok" => call[v.t][v.a] # "sending"
  /\ verdicts' = verdicts \ {v}
  /\ IF rec[v.t].status = "awaiting_validation"
       THEN StartHandler(v.t, v.a, v.kind, timers[v.t])
       ELSE AfterSettle(v.t, v.kind) /\ UNCHANGED <<timers, handlers, srcLink>>
  /\ UNCHANGED <<source, starting, stored, tries, call, import, reply, faults>>

\* A validation timeout: a failure verdict of the controller's own.
TimerFires(t, a) ==
  /\ a \in timers[t]
  /\ "timeout" \in Environment \/ Quiet(t)
  /\ IF rec[t].status = "awaiting_validation"
       THEN StartHandler(t, a, "timeout", timers[t] \ {a})
       ELSE /\ timers' = [timers EXCEPT ![t] = @ \ {a}]
            /\ UNCHANGED <<rec, handlers, srcLink>>
  /\ UNCHANGED <<source, starting, stored, tries, call,
                 import, reply, verdicts, faults>>

Advance(h, pc) == handlers' = (handlers \ {h}) \cup {[h EXCEPT !.pc = pc]}

\* Mutant: the answer to the delete is not looked at.
OutcomeUnchecked(h) ==
  CASE h.kind = "success"        -> "completed"
    [] h.kind = "failure_orphan" -> "cleanup_failed"
    [] OTHER                     -> "failed"

\* The status a handler ends with.  The record it writes is the one it started
\* with, whatever the record's status has become since.
Outcome(h) ==
  CASE h.kind = "success" /\ h.pc = "ok"    -> "completed"
    [] h.kind = "success" /\ h.pc = "error" -> "cleanup_failed"
    [] h.kind = "success" /\ h.pc = "threw" -> "error"
    [] h.kind = "failure_orphan"            -> "cleanup_failed"
    [] OTHER                                -> "failed"

FinishHandler(h) ==
  /\ h.pc \in {"ok", "error", "threw"}
  /\ IF rec[h.t].attempt = h.rec THEN SetStatus(h.t, Outcome(h)) ELSE UNCHANGED rec
  /\ IF Outcome(h) = "completed" THEN Advance(h, "cleanup") ELSE handlers' = handlers \ {h}
  /\ UNCHANGED <<source, starting, stored, timers, tries, call, network>>

\* The end of a completed transfer, after a broadcast and a write of its log.
DropStored(h) ==
  /\ h.pc = "cleanup"
  /\ stored' = stored \ {h.t}
  /\ handlers' = handlers \ {h}
  /\ UNCHANGED <<source, starting, rec, timers, tries, call, network>>

-----------------------------------------------------------------------------
(* The source instance: executing the controller's requests, in order *)

\* The answer reaches the handler that awaits it, if it still does.
Answer(r, pc) ==
  handlers' = {IF h.t = r.t /\ <<h.rec, h.from, h.kind>> = r.by /\ h.pc = "request"
                 THEN [h EXCEPT !.pc = pc] ELSE h : h \in handlers}

\* Mutant: any lock will do.
MayDeleteAnyLock(r) == alive /\ lock # NoLock

\* transfer_delete_identity_ok: the lock is this transfer's.
MayDelete(r) == alive /\ lock = r.t

\* delete_platform_for_transfer: the lock is released, then the platform deleted.
\* As faults, the answer is lost, or the platform cannot be deleted and is left
\* unlocked.
ExecDelete ==
  /\ srcLink # <<>> /\ Head(srcLink).op = "delete" /\ MayDelete(Head(srcLink))
  /\ srcLink' = Tail(srcLink)
  /\ lock' = NoLock
  /\ \/ /\ alive' = FALSE /\ UNCHANGED exact
        /\ \/ Answer(Head(srcLink), "ok") /\ UNCHANGED faults
           \/ Answer(Head(srcLink), "error") /\ Fault("lost_source")
     \/ /\ UNCHANGED alive /\ exact' = {}
        /\ Answer(Head(srcLink), "error") /\ Fault("stuck_delete")
  /\ UNCHANGED <<expired, export, starting, stored, rec, timers, tries, call,
                 import, reply, verdicts>>

RefuseDelete ==
  /\ srcLink # <<>> /\ Head(srcLink).op = "delete" /\ ~MayDelete(Head(srcLink))
  /\ srcLink' = Tail(srcLink)
  /\ Answer(Head(srcLink), "error")
  /\ UNCHANGED <<source, starting, stored, rec, timers, tries, call,
                 import, reply, verdicts, faults>>

\* unlock_platform names a platform, not a transfer: it releases any lock.  That
\* there was none counts as success.
ExecUnlock ==
  /\ srcLink # <<>> /\ Head(srcLink).op = "unlock"
  /\ srcLink' = Tail(srcLink)
  /\ IF alive /\ lock # NoLock THEN ReleaseLock ELSE UNCHANGED <<lock, exact>>
  /\ Answer(Head(srcLink), "ok")
  /\ UNCHANGED <<alive, expired, export, starting, stored, rec, timers, tries, call,
                 import, reply, verdicts, faults>>

\* The session to the source is lost: awaited answers become errors, and some of
\* the requests may still have arrived.
SourceLinkLost ==
  /\ srcLink # <<>> /\ Fault("lost_source")
  /\ CutSourceLink
  /\ handlers' = {IF h.pc = "request" THEN [h EXCEPT !.pc = "threw"] ELSE h : h \in handlers}
  /\ UNCHANGED <<source, starting, stored, rec, timers, tries, call,
                 import, reply, verdicts>>

\* The controller restarts: only the stored exports survive, those whose write was
\* finished.  Requests on their way may still arrive; nothing is deleted or unlocked
\* on boot.
ControllerRestart ==
  /\ Fault("restart")
  /\ stored' \in SUBSET stored
  /\ starting' = [t \in Transfers |-> "none"]
  /\ rec' = [t \in Transfers |-> NoRecord]
  /\ timers' = [t \in Transfers |-> {}]
  /\ call' = [t \in Transfers |-> [a \in Attempts |->
       IF call[t][a] = "none" THEN "none" ELSE "done"]]
  /\ handlers' = {}
  /\ CutSourceLink
  /\ UNCHANGED <<source, tries, import, reply, verdicts>>

-----------------------------------------------------------------------------
Next ==
  \/ \E t \in Transfers :
       \/ \E via \in {"managed", "transfer"} : LockAndExport(t, via)
       \/ PlainExport(t) \/ ExportStored(t) \/ CensusAbort(t) \/ ExportLost(t)
       \/ StartFirst(t) \/ AdmitRetry(t)
       \/ WaitTimeout(t) \/ StartRefused(t) \/ AlreadyActive(t)
       \/ \E a \in Attempts :
            \/ StartRetry(t, a) \/ DestReceives(t, a) \/ Validate(t, a) \/ Reject(t, a)
            \/ ImportAccepted(t, a) \/ ImportRefused(t, a)
            \/ SendSessionLost(t, a) \/ SendFailed(t, a) \/ TimerFires(t, a)
  \/ \E v \in verdicts : ReceiveVerdict(v) \/ LoseVerdict(v)
  \/ \E h \in handlers : FinishHandler(h) \/ DropStored(h)
  \/ ExecDelete \/ RefuseDelete \/ ExecUnlock
  \/ LockExpires \/ AdminLock \/ AdminUnlock
  \/ SourceLinkLost \/ ControllerRestart

Spec == Init /\ [][Next]_vars

\* The flow that locked the platform goes on to ask for its transfer, or gives up.
FlowProceeds(t) ==
  /\ starting[t] # "none"
  /\ StartFirst(t) \/ AdmitRetry(t) \/ WaitTimeout(t) \/ StartRefused(t) \/ AlreadyActive(t)

\* Export jobs end, coroutines resume after their awaits, an import request that is
\* not lost is answered, setTimeout fires, and the source instance serves its
\* requests.  Neither the deadline of a lock nor an operator is relied upon.
Fairness ==
  /\ \A t \in Transfers :
       /\ WF_vars(ExportStored(t) \/ CensusAbort(t))
       /\ WF_vars(FlowProceeds(t))
  /\ \A t \in Transfers, a \in Attempts :
       /\ WF_vars(StartRetry(t, a)) /\ WF_vars(DestReceives(t, a))
       /\ WF_vars(ImportAccepted(t, a)) /\ WF_vars(ImportRefused(t, a))
       /\ WF_vars(TimerFires(t, a))
  /\ WF_vars(ExecDelete) /\ WF_vars(RefuseDelete) /\ WF_vars(ExecUnlock)
  /\ WF_vars(\E h \in handlers : FinishHandler(h))

FairSpec == Spec /\ Fairness

-----------------------------------------------------------------------------
(* Properties *)

\* Gate A: the original is deleted only after some export that still equals it
\* has a live copy on a destination.
NeverBothGone == ~alive => \E t \in exact : CopyLive(t)

\* A record says completed only when the original is gone.
CompletedImpliesGone == \A t \in Transfers : rec[t].status = "completed" => ~alive

\* Gate B: no copy is live beside an original that is not locked, but for the
\* corner the source names: the deadline ended the lock of that very transfer.
NeverBothLive ==
  alive /\ lock = NoLock => \A t \in Transfers : CopyLive(t) => t \in expired

\* Unless something failed, a transfer's lock is never left for the TTL to find:
\* its export runs, its transfer is about to start or under way, or the request
\* that releases it is on its way.
LockAttended ==
  faults.count = 0 /\ lock \in Transfers =>
    \/ export[lock] # "done" \/ starting[lock] # "none"
    \/ rec[lock].status \in LiveStatus
    \/ \E i \in 1..Len(srcLink) : srcLink[i].t = lock

Custody == INSTANCE Custody WITH
  Exports <- Transfers,
  original <- IF ~alive THEN "gone" ELSE IF lock = NoLock THEN "live" ELSE "frozen",
  validated <- {t \in Transfers : CopyLive(t)}

\* The transfer as the code runs it keeps the promise of Custody.
CustodySpec == Custody!Spec

\* A record awaiting its verdict does not await it for ever.
AwaitingSettles ==
  \A t \in Transfers :
    rec[t].status = "awaiting_validation" ~> rec[t].status # "awaiting_validation"

\* Whatever is refused, times out, is lost on the way to the destination or is
\* answered wrongly, a transfer ends the lock it took, by its delete or by an
\* unlock, without the deadline's help; unless a fault severed it from its lock.
TransferEndsItsLock ==
  \A t \in Transfers : lock = t ~> lock # t \/ faults.severed
====

----------------------- MODULE TransferProtocolProofs -----------------------
(* Theorems of TransferProtocol. *)
EXTENDS TransferProtocol, SequenceTheorems, TLAPS

-----------------------------------------------------------------------------
(* The records of the protocol are closed under the code's updates. *)

LEMMA NewRecordType == \A a \in Attempts : NewRecord(a) \in Records
  BY ConstantsAssumption DEF NewRecord, Records, Statuses, LiveStatus, Attempts

LEMMA NoRecordType == NoRecord \in Records
  BY ConstantsAssumption DEF NoRecord, Records, Statuses, LiveStatus

LEMMA StatusType ==
  ASSUME NEW r \in [Transfers -> Records], NEW t \in Transfers, NEW s \in Statuses
  PROVE  [r EXCEPT ![t].status = s] \in [Transfers -> Records]
  BY DEF Records

LEMMA StatusUpdate ==
  ASSUME NEW r \in [Transfers -> Records], NEW t \in Transfers, NEW s, NEW u \in Transfers
  PROVE  /\ [r EXCEPT ![t].status = s][u].status \in {r[u].status, s}
         /\ [r EXCEPT ![t].preserved = TRUE][u].status = r[u].status
         /\ [r EXCEPT ![t].status = s, ![t].preserved = FALSE][u].status \in {r[u].status, s}
  BY DEF Records

LEMMA TimerType ==
  ASSUME NEW r \in [Transfers -> Records], NEW t \in Transfers, NEW n \in 0..MaxAttempts,
         NEW s \in Statuses
  PROVE  [r EXCEPT ![t].timer = n, ![t].status = s] \in [Transfers -> Records]
  BY DEF Records

LEMMA PreservedType ==
  ASSUME NEW r \in [Transfers -> Records], NEW t \in Transfers, NEW n \in 0..MaxAttempts,
         NEW p \in BOOLEAN
  PROVE  /\ [r EXCEPT ![t].timer = n, ![t].preserved = p] \in [Transfers -> Records]
         /\ [r EXCEPT ![t].preserved = p] \in [Transfers -> Records]
  BY DEF Records

LEMMA EntryType ==
  ASSUME NEW V, NEW f \in [Transfers -> [Attempts -> V]],
         NEW t \in Transfers, NEW a \in Attempts, NEW v \in V
  PROVE  [f EXCEPT ![t][a] = v] \in [Transfers -> [Attempts -> V]]
  OBVIOUS

LEMMA RequestType ==
  ASSUME TypeOK, NEW op \in {"delete", "unlock"}, NEW t \in Transfers,
         NEW by \in (0..MaxAttempts) \X (0..MaxAttempts) \X
                    ({"rollback", "success", "timeout"} \cup Failures),
         Request(op, t, by)
  PROVE  srcLink' \in Seq(Requests)
  <1>1. [op |-> op, t |-> t, by |-> by] \in Requests
    BY DEF Requests
  <1> QED
    BY <1>1 DEF Request, TypeOK

LEMMA RollbackType ==
  Rollback \in (0..MaxAttempts) \X (0..MaxAttempts) \X
               ({"rollback", "success", "timeout"} \cup Failures)
  BY ConstantsAssumption DEF Rollback

LEMMA CutType ==
  ASSUME TypeOK, CutSourceLink
  PROVE  srcLink' \in Seq(Requests)
  <1>1. PICK n \in 0..Len(srcLink) : srcLink' = SubSeq(srcLink, 1, n)
    BY DEF CutSourceLink
  <1>2. \A i \in 1..n : srcLink[i] \in Requests
    BY DEF TypeOK
  <1> QED
    BY <1>1, <1>2, SubSeqProperties DEF TypeOK

LEMMA StartHandlerType ==
  ASSUME TypeOK, NEW t \in Transfers, NEW from \in Attempts,
         NEW kind \in {"success", "timeout"} \cup Failures,
         NEW armed \in SUBSET Attempts, StartHandler(t, from, kind, armed)
  PROVE  /\ timers' \in [Transfers -> SUBSET Attempts]
         /\ rec' \in [Transfers -> Records]
         /\ handlers' \subseteq Handlers
         /\ srcLink' \in Seq(Requests)
  <1>1. rec[t].attempt \in 0..MaxAttempts
    BY DEF TypeOK, Records
  <1>2. timers' \in [Transfers -> SUBSET Attempts]
    BY DEF StartHandler, TypeOK
  <1>3. rec' \in [Transfers -> Records]
    <2>1. (kind = "failure_preserved") \in BOOLEAN /\ 0 \in 0..MaxAttempts
      BY ConstantsAssumption
    <2>2. rec \in [Transfers -> Records]
      BY DEF TypeOK
    <2>3. [rec EXCEPT ![t].timer = 0, ![t].preserved = (kind = "failure_preserved")]
            \in [Transfers -> Records]
      BY <2>1, <2>2, PreservedType, Zenon
    <2> QED
      BY <2>3, Zenon DEF StartHandler
  <1>4. handlers' \subseteq Handlers
    BY <1>1 DEF StartHandler, TypeOK, Handlers
  <1>5. from \in 0..MaxAttempts
    BY ConstantsAssumption DEF Attempts
  <1>6. srcLink' \in Seq(Requests)
    BY <1>1, <1>5, RequestType DEF StartHandler
  <1> QED
    BY <1>2, <1>3, <1>4, <1>6

LEMMA AnswerType ==
  ASSUME TypeOK, NEW r, NEW pc \in {"ok", "error"}, Answer(r, pc)
  PROVE  handlers' \subseteq Handlers
  <1>1. \A h \in Handlers : [h EXCEPT !.pc = pc] \in Handlers
    BY DEF Handlers
  <1> QED
    BY <1>1 DEF Answer, TypeOK

LEMMA FaultType ==
  ASSUME TypeOK, NEW kind, Fault(kind)
  PROVE  faults' \in Faults
  BY ConstantsAssumption DEF Fault, Faults, TypeOK

LEMMA TailType ==
  ASSUME TypeOK, srcLink # <<>>
  PROVE  Tail(srcLink) \in Seq(Requests) /\ Head(srcLink) \in Requests
  BY DEF TypeOK

-----------------------------------------------------------------------------
(* Type correctness *)

LEMMA TypeInit == Init => TypeOK
  BY NoRecordType, ConstantsAssumption DEF Init, TypeOK, Faults, LockOwners, Calls, Imports

LEMMA TypeSourceStep ==
  ASSUME TypeOK, NEW t \in Transfers,
         \/ \E via \in {"managed", "transfer"} : LockAndExport(t, via)
         \/ PlainExport(t) \/ ExportStored(t) \/ CensusAbort(t) \/ ExportLost(t)
  PROVE  TypeOK'
  <1> USE DEF TypeOK, Calls, Imports, LockOwners, vars, source, controller, network
  <1>1. ASSUME NEW via \in {"managed", "transfer"}, LockAndExport(t, via) PROVE TypeOK'
    BY <1>1 DEF LockAndExport
  <1>2. CASE PlainExport(t)
    BY <1>2 DEF PlainExport
  <1>3. CASE ExportStored(t)
    BY <1>3 DEF ExportStored, Store, ReleaseLock
  <1>4. CASE CensusAbort(t)
    BY <1>4 DEF CensusAbort, ReleaseLock
  <1>5. CASE ExportLost(t)
    BY <1>5, ConstantsAssumption DEF ExportLost, Fault, Faults
  <1> QED
    BY <1>1, <1>2, <1>3, <1>4, <1>5

LEMMA TypeLockStep ==
  ASSUME TypeOK, LockExpires \/ AdminLock \/ AdminUnlock
  PROVE  TypeOK'
  <1> USE DEF TypeOK, Calls, Imports, LockOwners, vars, source, controller, network
  <1>1. CASE LockExpires
    BY <1>1 DEF LockExpires, ReleaseLock
  <1>2. CASE AdminLock
    BY <1>2 DEF AdminLock
  <1>3. CASE AdminUnlock
    BY <1>3 DEF AdminUnlock, ReleaseLock
  <1> QED
    BY <1>1, <1>2, <1>3

LEMMA TypeStartStep ==
  ASSUME TypeOK, NEW t \in Transfers,
         \/ StartFirst(t) \/ AdmitRetry(t)
         \/ WaitTimeout(t) \/ StartRefused(t) \/ AlreadyActive(t)
         \/ \E a \in Attempts : StartRetry(t, a)
  PROVE  TypeOK'
  <1> USE DEF TypeOK, Calls, Imports, vars, source, controller, network
  <1>1. ASSUME NEW a \in Attempts, SendImport(t, a)
        PROVE  /\ rec' \in [Transfers -> Records]
               /\ call' \in [Transfers -> [Attempts -> Calls]]
               /\ import' \in [Transfers -> [Attempts -> Imports]]
    BY <1>1, NewRecordType DEF SendImport
  <1>2. CASE StartFirst(t)
    <2>1. 1 \in Attempts
      BY ConstantsAssumption DEF Attempts
    <2>2. starting' \in [Transfers -> {"none", "store", "request"}]
      BY <1>2 DEF StartFirst, Caller
    <2>3. tries' \in [Transfers -> 0..MaxAttempts]
      BY <1>2, ConstantsAssumption DEF StartFirst
    <2> QED
      BY <1>1, <1>2, <2>1, <2>2, <2>3 DEF StartFirst
  <1>3. CASE AdmitRetry(t)
    <2>1. tries[t] + 1 \in Attempts /\ tries[t] + 1 \in 0..MaxAttempts
      BY <1>3, ConstantsAssumption DEF AdmitRetry, Attempts
    <2>2. starting' \in [Transfers -> {"none", "store", "request"}]
      BY <1>3 DEF AdmitRetry, Caller
    <2>3. call' \in [Transfers -> [Attempts -> Calls]]
      BY <1>3, <2>1 DEF AdmitRetry
    <2>4. tries' \in [Transfers -> 0..MaxAttempts]
      BY <1>3, <2>1 DEF AdmitRetry
    <2> QED
      BY <1>3, <2>2, <2>3, <2>4 DEF AdmitRetry
  <1>4. CASE WaitTimeout(t)
    <2>1. srcLink' \in Seq(Requests)
      BY <1>4, RequestType, RollbackType DEF WaitTimeout
    <2> QED
      BY <1>4, <2>1 DEF WaitTimeout
  <1>5. CASE StartRefused(t)
    <2>1. srcLink' \in Seq(Requests)
      BY <1>5, RequestType, RollbackType DEF StartRefused
    <2>2. faults' \in Faults
      BY <1>5, FaultType DEF StartRefused
    <2> QED
      BY <1>5, <2>1, <2>2 DEF StartRefused
  <1>6. CASE AlreadyActive(t)
    BY <1>6 DEF AlreadyActive
  <1>7. ASSUME NEW a \in Attempts, StartRetry(t, a) PROVE TypeOK'
    BY <1>1, <1>7 DEF StartRetry
  <1> QED
    BY <1>2, <1>3, <1>4, <1>5, <1>6, <1>7

LEMMA TypeImportStep ==
  ASSUME TypeOK, NEW t \in Transfers, NEW a \in Attempts,
         \/ DestReceives(t, a) \/ Validate(t, a) \/ Reject(t, a)
         \/ ImportAccepted(t, a) \/ ImportRefused(t, a)
         \/ SendSessionLost(t, a) \/ SendFailed(t, a) \/ TimerFires(t, a)
  PROVE  TypeOK'
  <1> USE DEF TypeOK, Calls, Imports, vars, source, controller, network
  <1>1. ASSUME NEW kind \in {"success"} \cup Failures, SendVerdict(t, a, kind)
        PROVE  verdicts' \subseteq Verdicts
    BY <1>1 DEF SendVerdict, Verdicts
  <1>2. ASSUME EnterAwaiting(t, a)
        PROVE  rec' \in [Transfers -> Records] /\ timers' \in [Transfers -> SUBSET Attempts]
    <2>1. rec[t] \in Records /\ "awaiting_validation" \in Statuses /\ a \in 0..MaxAttempts
      BY DEF Statuses, LiveStatus, Attempts
    <2>2. CASE rec[t].attempt = a
      BY <1>2, <2>1, <2>2 DEF EnterAwaiting, Records
    <2>4. CASE rec[t].attempt # a
      BY <1>2, <2>1, <2>4 DEF EnterAwaiting, Records
    <2>3. rec' \in [Transfers -> Records]
      BY <2>2, <2>4
    <2> QED
      BY <1>2, <2>3 DEF EnterAwaiting
  <1>3. ASSUME EndCall(t, a)
        PROVE  call' \in [Transfers -> [Attempts -> Calls]]
    BY <1>3 DEF EndCall
  <1>4. ASSUME NEW kind, Fault(kind) PROVE faults' \in Faults
    BY <1>4, ConstantsAssumption DEF Fault, Faults
  <1>5. ASSUME Request("unlock", t, Rollback) PROVE srcLink' \in Seq(Requests)
    BY <1>5, RequestType, RollbackType
  <1>6. CASE DestReceives(t, a)
    <2>1. \A V \in {"importing", "dropped"} :
            [import EXCEPT ![t][a] = V] \in [Transfers -> [Attempts -> Imports]]
      OBVIOUS
    <2>2. \A V \in {"ok", "fail"} :
            [reply EXCEPT ![t][a] = V] \in [Transfers -> [Attempts -> {"none", "ok", "fail"}]]
      OBVIOUS
    <2>3. /\ import' \in {[import EXCEPT ![t][a] = V] : V \in {"importing", "dropped"}}
          /\ reply' \in {[reply EXCEPT ![t][a] = V] : V \in {"ok", "fail"}}
          /\ faults' \in Faults
      BY <1>4, <1>6 DEF DestReceives
    <2> QED
      BY <1>6, <2>1, <2>2, <2>3 DEF DestReceives
  <1>7. CASE Validate(t, a)
    BY <1>1, <1>4, <1>7 DEF Validate, Failures
  <1>8. CASE Reject(t, a)
    BY <1>1, <1>8 DEF Reject, Failures
  <1>9. CASE ImportAccepted(t, a)
    BY <1>2, <1>3, <1>9 DEF ImportAccepted
  <1>10. CASE ImportRefused(t, a)
    <2>1. rec' \in [Transfers -> Records]
      BY <1>10, StatusType DEF ImportRefused, SetStatus, Statuses
    <2> QED
      BY <1>3, <1>5, <1>10, <2>1 DEF ImportRefused
  <1>11. CASE SendSessionLost(t, a)
    <2>1. import' \in [Transfers -> [Attempts -> Imports]]
      <3>1. import' = import \/ import' = [import EXCEPT ![t][a] = "dropped"]
        BY <1>11 DEF SendSessionLost
      <3>2. [import EXCEPT ![t][a] = "dropped"] \in [Transfers -> [Attempts -> Imports]]
        BY EntryType DEF Imports
      <3> QED
        BY <3>1, <3>2
    <2> QED
      BY <1>2, <1>3, <1>4, <1>11, <2>1 DEF SendSessionLost
  <1>12. CASE SendFailed(t, a)
    BY <1>3, <1>4, <1>5, <1>12 DEF SendFailed
  <1>13. CASE TimerFires(t, a)
    <2>1. CASE rec[t].status = "awaiting_validation"
      <3>1. timers[t] \ {a} \in SUBSET Attempts
        OBVIOUS
      <3>2. StartHandler(t, a, "timeout", timers[t] \ {a})
        BY <1>13, <2>1 DEF TimerFires
      <3> QED
        BY <1>13, <3>1, <3>2, StartHandlerType DEF TimerFires
    <2>2. CASE rec[t].status # "awaiting_validation"
      <3>1. timers' = [timers EXCEPT ![t] = timers[t] \ {a}]
        BY <1>13, <2>2 DEF TimerFires
      <3>2. timers' \in [Transfers -> SUBSET Attempts]
        BY <3>1
      <3> QED
        BY <1>13, <2>2, <3>2 DEF TimerFires
    <2> QED
      BY <2>1, <2>2
  <1> QED
    BY <1>6, <1>7, <1>8, <1>9, <1>10, <1>11, <1>12, <1>13

LEMMA TypeVerdictStep ==
  ASSUME TypeOK, NEW v \in verdicts, ReceiveVerdict(v) \/ LoseVerdict(v)
  PROVE  TypeOK'
  <1> USE DEF TypeOK, Calls, Imports, vars, source, controller, network
  <1>1. /\ v.t \in Transfers /\ v.a \in Attempts
        /\ v.kind \in {"success", "timeout"} \cup Failures
    BY DEF Verdicts
  <1>2. CASE LoseVerdict(v)
    BY <1>2, ConstantsAssumption DEF LoseVerdict, Fault, Faults
  <1>3. CASE ReceiveVerdict(v)
    <2>1. verdicts' \subseteq Verdicts
      BY <1>1, <1>3 DEF ReceiveVerdict
    <2>2. CASE rec[v.t].status = "awaiting_validation"
      <3>1. StartHandler(v.t, v.a, v.kind, timers[v.t])
        BY <1>3, <2>2 DEF ReceiveVerdict
      <3>2. timers[v.t] \in SUBSET Attempts
        BY <1>1
      <3> QED
        BY <1>1, <1>3, <2>1, <3>1, <3>2, StartHandlerType DEF ReceiveVerdict
    <2>3. CASE rec[v.t].status # "awaiting_validation"
      <3>1. AfterSettle(v.t, v.kind)
        BY <1>3, <2>3 DEF ReceiveVerdict
      <3>2. [rec EXCEPT ![v.t].status = "cleanup_failed"] \in [Transfers -> Records]
        BY <1>1, StatusType DEF Statuses
      <3>3. [rec EXCEPT ![v.t].preserved = TRUE] \in [Transfers -> Records]
        BY <1>1, PreservedType
      <3>4. rec' \in [Transfers -> Records]
        BY <3>1, <3>2, <3>3 DEF AfterSettle
      <3> QED
        BY <1>3, <2>1, <2>3, <3>4 DEF ReceiveVerdict
    <2> QED
      BY <2>2, <2>3
  <1> QED
    BY <1>2, <1>3

LEMMA TypeHandlerStep ==
  ASSUME TypeOK, NEW h \in handlers, FinishHandler(h) \/ DropStored(h)
  PROVE  TypeOK'
  <1> USE DEF TypeOK, Calls, Imports, vars, source, controller, network
  <1>1. h \in Handlers /\ h.t \in Transfers
    BY DEF Handlers
  <1>2. CASE FinishHandler(h)
    <2>1. Outcome(h) \in Statuses
      BY DEF Outcome, Statuses
    <2>2. rec' \in [Transfers -> Records]
      <3>1. [rec EXCEPT ![h.t].status = Outcome(h)] \in [Transfers -> Records]
        BY <1>1, <2>1, StatusType
      <3> QED
        BY <1>2, <3>1 DEF FinishHandler, SetStatus
    <2>3. [h EXCEPT !.pc = "cleanup"] \in Handlers
      BY <1>1 DEF Handlers
    <2>4. handlers' \subseteq Handlers
      BY <1>2, <2>3 DEF FinishHandler, Advance
    <2> QED
      BY <1>2, <2>2, <2>4 DEF FinishHandler
  <1>3. CASE DropStored(h)
    BY <1>3 DEF DropStored
  <1> QED
    BY <1>2, <1>3

LEMMA TypeRequestStep ==
  ASSUME TypeOK,
         ExecDelete \/ RefuseDelete \/ ExecUnlock \/ SourceLinkLost \/ ControllerRestart
  PROVE  TypeOK'
  <1> USE DEF TypeOK, Calls, Imports, LockOwners, vars, source, controller, network
  <1>1. ASSUME NEW kind, Fault(kind) PROVE faults' \in Faults
    BY <1>1, ConstantsAssumption DEF Fault, Faults
  <1>2. ASSUME NEW pc \in {"ok", "error"}, Answer(Head(srcLink), pc)
        PROVE  handlers' \subseteq Handlers
    BY <1>2, AnswerType
  <1>3. CASE ExecDelete
    BY <1>1, <1>2, <1>3, TailType DEF ExecDelete
  <1>4. CASE RefuseDelete
    BY <1>2, <1>4, TailType DEF RefuseDelete
  <1>5. CASE ExecUnlock
    BY <1>2, <1>5, TailType DEF ExecUnlock, ReleaseLock
  <1>6. CASE SourceLinkLost
    <2>1. \A h \in Handlers : [h EXCEPT !.pc = "threw"] \in Handlers
      BY DEF Handlers
    <2>2. handlers' \subseteq Handlers
      BY <1>6, <2>1 DEF SourceLinkLost
    <2> QED
      BY <1>1, <1>6, <2>2, CutType DEF SourceLinkLost
  <1>7. CASE ControllerRestart
    <2>1. call' \in [Transfers -> [Attempts -> Calls]]
      BY <1>7 DEF ControllerRestart
    <2> QED
      BY <1>1, <1>7, <2>1, CutType, NoRecordType DEF ControllerRestart
  <1> QED
    BY <1>3, <1>4, <1>5, <1>6, <1>7

LEMMA TypeStep == TypeOK /\ [Next]_vars => TypeOK'
  <1> SUFFICES ASSUME TypeOK, [Next]_vars
               PROVE  TypeOK'
    OBVIOUS
  <1>1. CASE Next
    BY <1>1, TypeSourceStep, TypeLockStep, TypeStartStep, TypeImportStep, TypeVerdictStep,
       TypeHandlerStep, TypeRequestStep DEF Next
  <1>2. CASE UNCHANGED vars
    BY <1>2 DEF TypeOK, vars, source, controller, network
  <1> QED
    BY <1>1, <1>2

\* Every variable keeps the values its declaration gives it.
THEOREM TypeCorrect == Spec => []TypeOK
  BY TypeInit, TypeStep, PTL DEF Spec

-----------------------------------------------------------------------------
(* Gate A.  A SUCCESS verdict speaks of a live copy, only such a verdict makes a *)
(* delete request, and a delete is obeyed only under the transfer's own lock,    *)
(* which never outlives the exactness of its export.                             *)

\* The lock of a transfer vouches for its export.
LockVouches == lock \in Transfers => lock \in exact

\* An unlocked original may change, so no export vouches for it.
UnlockedInexact == alive /\ lock = NoLock => exact = {}

\* An attempt that has not been sent has no import, and attempts are sent once.
UnsentIdle ==
  \A t \in Transfers, a \in Attempts :
    /\ call[t][a] \in {"none", "archiving"} => import[t][a] = "none"
    /\ a > tries[t] => call[t][a] = "none"

VerdictsTrue == \A v \in verdicts : v.kind = "success" => CopyLive(v.t)

RequestTrue(r) ==
  /\ r.op = "delete" <=> r.by[3] = "success"
  /\ r.op = "delete" => CopyLive(r.t)
RequestsTrue == \A i \in 1..Len(srcLink) : RequestTrue(srcLink[i])

AnswersTrue == \A h \in handlers : h.kind = "success" /\ h.pc = "ok" => ~alive

CustodyInv ==
  /\ TypeOK /\ LockVouches /\ UnlockedInexact /\ UnsentIdle /\ VerdictsTrue /\ RequestsTrue
  /\ AnswersTrue /\ NeverBothGone /\ CompletedImpliesGone

LEMMA CustodyInvInit == Init => CustodyInv
  <1> SUFFICES ASSUME Init PROVE CustodyInv
    OBVIOUS
  <1>1. TypeOK
    BY TypeInit
  <1>2. /\ LockVouches /\ UnlockedInexact /\ UnsentIdle /\ VerdictsTrue
        /\ AnswersTrue /\ NeverBothGone
    BY ConstantsAssumption
       DEF Init, LockVouches, UnlockedInexact, UnsentIdle, VerdictsTrue, AnswersTrue, NeverBothGone
  <1>3. RequestsTrue
    BY DEF Init, RequestsTrue
  <1>4. CompletedImpliesGone
    BY DEF Init, CompletedImpliesGone, NoRecord
  <1> QED
    BY <1>1, <1>2, <1>3, <1>4 DEF CustodyInv

\* An attempt's call and import move on together, and nothing touches a live copy.
LEMMA ImportStep ==
  ASSUME TypeOK, UnsentIdle, [Next]_vars
  PROVE  /\ \A t \in Transfers, a \in Attempts :
              import[t][a] = "live" => import'[t][a] = "live"
         /\ UnsentIdle'
  <1> DEFINE Goal == /\ \A t \in Transfers, a \in Attempts :
                          import[t][a] = "live" => import'[t][a] = "live"
                     /\ UnsentIdle'
  <1>0. /\ call \in [Transfers -> [Attempts -> Calls]]
        /\ import \in [Transfers -> [Attempts -> Imports]]
        /\ tries \in [Transfers -> 0..MaxAttempts]
    BY DEF TypeOK
  <1>1. ASSUME UNCHANGED <<call, import, tries>> PROVE Goal
    BY <1>1 DEF UnsentIdle
  <1>2. ASSUME NEW t \in Transfers, NEW a \in Attempts, SendImport(t, a),
               call[t][a] \in {"none", "archiving"}, a <= tries'[t], tries[t] <= tries'[t],
               tries' = [tries EXCEPT ![t] = tries'[t]], tries'[t] \in 0..MaxAttempts
        PROVE  Goal
    <2>1. \A u \in Transfers, b \in Attempts :
            /\ call'[u][b] = IF u = t /\ b = a THEN "sending" ELSE call[u][b]
            /\ import'[u][b] = IF u = t /\ b = a THEN "sent" ELSE import[u][b]
      BY <1>0, <1>2 DEF SendImport
    <2>2. \A u \in Transfers : tries[u] <= tries'[u] /\ tries'[u] \in Nat /\ tries[u] \in Nat
      BY <1>0, <1>2
    <2>3. import[t][a] = "none"
      BY <1>2 DEF UnsentIdle
    <2>4. UnsentIdle'
      BY <1>2, <2>1, <2>2, <2>3 DEF UnsentIdle, Attempts
    <2> QED
      BY <2>1, <2>3, <2>4
  <1>3. ASSUME NEW t \in Transfers, NEW a \in Attempts, NEW s,
               import[t][a] \notin {"none", "live"}, call' = call, UNCHANGED tries,
               import' = [import EXCEPT ![t][a] = s]
        PROVE  Goal
    <2>1. \A u \in Transfers, b \in Attempts :
            import'[u][b] = IF u = t /\ b = a THEN s ELSE import[u][b]
      BY <1>0, <1>3
    <2> QED
      BY <1>3, <2>1 DEF UnsentIdle
  <1>4. ASSUME NEW t \in Transfers, NEW a \in Attempts, NEW s, EndCall(t, a),
               call[t][a] = "sending", UNCHANGED tries,
               \/ UNCHANGED import
               \/ import[t][a] # "live" /\ import' = [import EXCEPT ![t][a] = s]
        PROVE  Goal
    <2>1. \A u \in Transfers, b \in Attempts :
            /\ call'[u][b] = IF u = t /\ b = a THEN "done" ELSE call[u][b]
            /\ import'[u][b] = import[u][b] \/ (u = t /\ b = a /\ import[u][b] # "live")
      BY <1>0, <1>4 DEF EndCall
    <2> QED
      BY <1>4, <2>1 DEF UnsentIdle
  <1> USE DEF vars, source, controller, network
  <1>5. CASE Next
    <2>1. ASSUME NEW t \in Transfers, NEW via \in {"managed", "transfer"},
                 LockAndExport(t, via)
          PROVE  Goal
      BY <1>1, <2>1 DEF LockAndExport
    <2>2. ASSUME NEW t \in Transfers,
                 \/ PlainExport(t) \/ ExportStored(t) \/ CensusAbort(t) \/ ExportLost(t)
                 \/ WaitTimeout(t) \/ StartRefused(t) \/ AlreadyActive(t)
          PROVE  Goal
      BY <1>1, <2>2 DEF PlainExport, ExportStored, CensusAbort, ExportLost,
                        WaitTimeout, StartRefused, AlreadyActive
    <2>3. ASSUME NEW t \in Transfers, StartFirst(t) PROVE Goal
      <3>1. 1 \in Attempts /\ call[t][1] = "none"
        BY <2>3, ConstantsAssumption DEF StartFirst, UnsentIdle, Attempts
      <3>2. tries' = [tries EXCEPT ![t] = 1] /\ SendImport(t, 1) /\ tries[t] = 0
        BY <2>3 DEF StartFirst
      <3>3. tries'[t] = 1 /\ 1 \in 0..MaxAttempts
        BY <1>0, <3>2, ConstantsAssumption
      <3>4. tries' = [tries EXCEPT ![t] = tries'[t]]
        BY <3>2, <3>3
      <3>5. 1 <= tries'[t] /\ tries[t] <= tries'[t] /\ tries'[t] \in 0..MaxAttempts
        BY <3>2, <3>3
      <3> HIDE DEF Goal
      <3> QED
        BY <1>2, <3>1, <3>2, <3>4, <3>5
    <2>4. ASSUME NEW t \in Transfers, AdmitRetry(t) PROVE Goal
      <3>1. /\ tries[t] \in Nat /\ tries[t] + 1 \in Attempts
            /\ call[t][tries[t] + 1] = "none"
        BY <1>0, <2>4, ConstantsAssumption DEF AdmitRetry, UnsentIdle, Attempts
      <3>2. \A u \in Transfers, b \in Attempts :
              call'[u][b] = IF u = t /\ b = tries[t] + 1 THEN "archiving" ELSE call[u][b]
        BY <1>0, <2>4, <3>1 DEF AdmitRetry
      <3>3. \A u \in Transfers : tries'[u] = IF u = t THEN tries[t] + 1 ELSE tries[u]
        BY <1>0, <2>4 DEF AdmitRetry
      <3>4. UNCHANGED import
        BY <2>4 DEF AdmitRetry
      <3>5. UnsentIdle'
        BY <1>0, <3>1, <3>2, <3>3, <3>4 DEF UnsentIdle, Attempts
      <3> QED
        BY <3>4, <3>5
    <2>5. ASSUME NEW t \in Transfers, NEW a \in Attempts, StartRetry(t, a) PROVE Goal
      <3>1. a <= tries[t]
        BY <1>0, <2>5 DEF StartRetry, UnsentIdle, Attempts
      <3>2. tries' = [tries EXCEPT ![t] = tries'[t]] /\ tries' = tries
        BY <1>0, <2>5 DEF StartRetry
      <3> QED
        BY <1>0, <1>2, <2>5, <3>1, <3>2 DEF StartRetry
    <2>6. ASSUME NEW t \in Transfers, NEW a \in Attempts,
                 DestReceives(t, a) \/ Validate(t, a) \/ Reject(t, a)
          PROVE  Goal
      BY <1>3, <2>6 DEF DestReceives, Validate, Reject
    <2>7. ASSUME NEW t \in Transfers, NEW a \in Attempts,
                 \/ ImportAccepted(t, a) \/ ImportRefused(t, a)
                 \/ SendSessionLost(t, a) \/ SendFailed(t, a)
          PROVE  Goal
      BY <1>4, <2>7 DEF ImportAccepted, ImportRefused, SendSessionLost, SendFailed
    <2>8. ASSUME NEW t \in Transfers, NEW a \in Attempts, TimerFires(t, a) PROVE Goal
      BY <1>1, <2>8 DEF TimerFires
    <2>9. ASSUME NEW v \in verdicts, ReceiveVerdict(v) \/ LoseVerdict(v) PROVE Goal
      BY <1>1, <2>9 DEF ReceiveVerdict, LoseVerdict
    <2>10. ASSUME NEW h \in handlers, FinishHandler(h) \/ DropStored(h) PROVE Goal
      BY <1>1, <2>10 DEF FinishHandler, DropStored
    <2>11. CASE \/ ExecDelete \/ RefuseDelete \/ ExecUnlock \/ SourceLinkLost
                \/ LockExpires \/ AdminLock \/ AdminUnlock
      BY <1>1, <2>11 DEF ExecDelete, RefuseDelete, ExecUnlock, SourceLinkLost,
                         LockExpires, AdminLock, AdminUnlock
    <2>12. CASE ControllerRestart
      <3>1. UNCHANGED <<import, tries>>
        BY <2>12 DEF ControllerRestart
      <3>2. \A t \in Transfers, a \in Attempts :
              call'[t][a] = IF call[t][a] = "none" THEN "none" ELSE "done"
        BY <2>12 DEF ControllerRestart
      <3> QED
        BY <3>1, <3>2 DEF UnsentIdle
    <2> QED
      BY <1>5, <2>1, <2>2, <2>3, <2>4, <2>5, <2>6, <2>7, <2>8, <2>9, <2>10, <2>11, <2>12
         DEF Next
  <1>6. CASE UNCHANGED vars
    BY <1>1, <1>6
  <1> QED
    BY <1>5, <1>6

\* What a step may do to the platform, its lock and the exports that match it.
LEMMA SourceStep ==
  ASSUME TypeOK, [Next]_vars
  PROVE  \/ UNCHANGED <<alive, lock, exact>>
         \/ /\ alive /\ alive' = alive /\ lock' \notin Transfers
            /\ lock' = NoLock => exact' = {}
         \/ /\ alive /\ alive' = alive /\ lock' = lock /\ lock # NoLock
            /\ exact \subseteq exact'
         \/ alive /\ alive' = alive /\ lock' \in Transfers /\ lock' \in exact'
         \/ ExecDelete
  <1> USE ConstantsAssumption DEF vars, source, controller, network
  <1>1. CASE Next
    <2>1. ASSUME NEW t \in Transfers, NEW via \in {"managed", "transfer"},
                 LockAndExport(t, via)
          PROVE  alive /\ alive' = alive /\ lock' \in Transfers /\ lock' \in exact'
      BY <2>1 DEF LockAndExport
    <2>2. ASSUME NEW t \in Transfers, PlainExport(t)
          PROVE  /\ alive /\ alive' = alive
                 /\ \/ lock' \notin Transfers /\ lock' # NoLock
                    \/ lock' = lock /\ lock # NoLock /\ exact \subseteq exact'
      BY <2>2 DEF PlainExport
    <2>3. ASSUME NEW t \in Transfers, ExportStored(t) \/ CensusAbort(t)
          PROVE  \/ UNCHANGED <<alive, lock, exact>>
                 \/ alive /\ alive' = alive /\ lock' = NoLock /\ exact' = {}
      BY <2>3 DEF ExportStored, CensusAbort, ReleaseLock
    <2>4. ASSUME NEW t \in Transfers,
                 \/ ExportLost(t) \/ StartFirst(t) \/ AdmitRetry(t)
                 \/ WaitTimeout(t) \/ StartRefused(t) \/ AlreadyActive(t)
          PROVE  UNCHANGED <<alive, lock, exact>>
      BY <2>4 DEF ExportLost, StartFirst, AdmitRetry, WaitTimeout, StartRefused, AlreadyActive
    <2>5. ASSUME NEW t \in Transfers, NEW a \in Attempts,
                 \/ StartRetry(t, a) \/ DestReceives(t, a) \/ Validate(t, a) \/ Reject(t, a)
                 \/ ImportAccepted(t, a) \/ ImportRefused(t, a)
                 \/ SendSessionLost(t, a) \/ SendFailed(t, a) \/ TimerFires(t, a)
          PROVE  UNCHANGED <<alive, lock, exact>>
      BY <2>5 DEF StartRetry, DestReceives, Validate, Reject, ImportAccepted, ImportRefused,
                  SendSessionLost, SendFailed, TimerFires
    <2>6. ASSUME NEW v \in verdicts, ReceiveVerdict(v) \/ LoseVerdict(v)
          PROVE  UNCHANGED <<alive, lock, exact>>
      BY <2>6 DEF ReceiveVerdict, LoseVerdict
    <2>7. ASSUME NEW h \in handlers, FinishHandler(h) \/ DropStored(h)
          PROVE  UNCHANGED <<alive, lock, exact>>
      BY <2>7 DEF FinishHandler, DropStored
    <2>8. CASE RefuseDelete \/ SourceLinkLost \/ ControllerRestart
      BY <2>8 DEF RefuseDelete, SourceLinkLost, ControllerRestart
    <2>9. CASE ExecUnlock \/ LockExpires \/ AdminLock \/ AdminUnlock
      BY <2>9 DEF ExecUnlock, LockExpires, AdminLock, AdminUnlock, ReleaseLock
    <2> QED
      BY <1>1, <2>1, <2>2, <2>3, <2>4, <2>5, <2>6, <2>7, <2>8, <2>9 DEF Next
  <1>2. CASE UNCHANGED vars
    BY <1>2
  <1> QED
    BY <1>1, <1>2

\* Requests stay true while live copies stay live; a new one must be true itself.
LEMMA RequestsKept ==
  ASSUME TypeOK, RequestsTrue, \A u \in Transfers : CopyLive(u) => CopyLive(u)',
         \A i \in 1..Len(srcLink') :
           \/ \E j \in 1..Len(srcLink) : srcLink'[i] = srcLink[j]
           \/ RequestTrue(srcLink[i])'
  PROVE  RequestsTrue'
  <1>1. \A j \in 1..Len(srcLink) : srcLink[j] \in Requests
    BY DEF TypeOK
  <1>2. ASSUME NEW j \in 1..Len(srcLink), NEW i \in 1..Len(srcLink'), srcLink'[i] = srcLink[j]
        PROVE  RequestTrue(srcLink[i])'
    <2>1. srcLink[j].t \in Transfers
      BY <1>1 DEF Requests
    <2>2. RequestTrue(srcLink[j])
      BY DEF RequestsTrue
    <2> QED
      BY <1>2, <2>1, <2>2 DEF RequestTrue
  <1> QED
    BY <1>2 DEF RequestsTrue

LEMMA RequestAdded ==
  ASSUME TypeOK, RequestsTrue, NEW op \in {"delete", "unlock"}, NEW t \in Transfers, NEW by,
         Request(op, t, by), op = "delete" <=> by[3] = "success",
         op = "delete" => CopyLive(t),
         \A u \in Transfers : CopyLive(u) => CopyLive(u)'
  PROVE  RequestsTrue'
  <1> DEFINE r == [op |-> op, t |-> t, by |-> by]
  <1>1. srcLink' = Append(srcLink, r) /\ srcLink \in Seq(Requests)
    BY DEF Request, TypeOK
  <1>2. \A i \in 1..Len(srcLink') : srcLink'[i] = r \/ \E j \in 1..Len(srcLink) : srcLink'[i] = srcLink[j]
    BY <1>1
  <1>3. ASSUME NEW i \in 1..Len(srcLink'), srcLink'[i] = r PROVE RequestTrue(srcLink[i])'
    BY <1>3 DEF RequestTrue
  <1> QED
    BY <1>2, <1>3, RequestsKept

LEMMA RequestsCut ==
  ASSUME TypeOK, RequestsTrue, \A u \in Transfers : CopyLive(u) => CopyLive(u)',
         \/ UNCHANGED srcLink \/ CutSourceLink
         \/ srcLink # <<>> /\ srcLink' = Tail(srcLink)
  PROVE  RequestsTrue'
  <1>1. CASE UNCHANGED srcLink
    BY <1>1, RequestsKept
  <1>2. CASE CutSourceLink
    <2>1. PICK n \in 0..Len(srcLink) : srcLink' = SubSeq(srcLink, 1, n)
      BY <1>2 DEF CutSourceLink
    <2>2. \A i \in 1..n : srcLink[i] \in Requests
      BY DEF TypeOK
    <2>3. Len(srcLink') = n /\ \A i \in 1..n : srcLink'[i] = srcLink[i]
      BY <2>1, <2>2, SubSeqProperties DEF TypeOK
    <2> QED
      BY <2>1, <2>3, RequestsKept
  <1>3. CASE srcLink # <<>> /\ srcLink' = Tail(srcLink)
    <2>1. \A i \in 1..Len(srcLink') : srcLink'[i] = srcLink[i + 1] /\ i + 1 \in 1..Len(srcLink)
      BY <1>3, HeadTailProperties DEF TypeOK
    <2> QED
      BY <2>1, RequestsKept
  <1> QED
    BY <1>1, <1>2, <1>3

\* What is true of the messages on their way stays true.
LEMMA MessageStep ==
  ASSUME TypeOK, UnsentIdle, VerdictsTrue, RequestsTrue, [Next]_vars
  PROVE  VerdictsTrue' /\ RequestsTrue'
  <1>0. \A u \in Transfers : CopyLive(u) => CopyLive(u)'
    BY ImportStep DEF CopyLive
  <1>1. ASSUME verdicts' \subseteq verdicts PROVE VerdictsTrue'
    <2>1. \A v \in verdicts : v.t \in Transfers
      BY DEF TypeOK, Verdicts
    <2> QED
      BY <1>0, <1>1, <2>1 DEF VerdictsTrue
  <1>2. ASSUME NEW t \in Transfers, NEW a \in Attempts, NEW kind, SendVerdict(t, a, kind),
               kind = "success" => CopyLive(t)'
        PROVE  VerdictsTrue'
    <2>1. \A v \in verdicts : v.t \in Transfers
      BY DEF TypeOK, Verdicts
    <2> QED
      BY <1>0, <1>2, <2>1 DEF VerdictsTrue, SendVerdict
  <1>3. ASSUME NEW t \in Transfers, Request("unlock", t, Rollback) PROVE RequestsTrue'
    <2>1. Rollback[3] # "success"
      BY DEF Rollback
    <2> QED
      BY <1>0, <1>3, <2>1, RequestAdded
  <1>4. ASSUME NEW t \in Transfers, NEW from, NEW kind, NEW armed,
               StartHandler(t, from, kind, armed), kind = "success" => CopyLive(t)
        PROVE  RequestsTrue'
    <2> DEFINE op == IF kind = "success" THEN "delete" ELSE "unlock"
               by == <<rec[t].attempt, from, kind>>
    <2>1. Request(op, t, by) /\ by[3] = kind
      BY <1>4 DEF StartHandler
    <2>2. op \in {"delete", "unlock"} /\ (op = "delete" <=> kind = "success")
      OBVIOUS
    <2> HIDE DEF op, by
    <2> QED
      BY <1>0, <1>4, <2>1, <2>2, RequestAdded
  <1> USE DEF vars, source, controller, network
  <1>5. CASE Next
    <2>1. ASSUME NEW t \in Transfers, NEW via \in {"managed", "transfer"},
                 LockAndExport(t, via)
          PROVE  VerdictsTrue' /\ RequestsTrue'
      BY <1>0, <1>1, <2>1, RequestsCut DEF LockAndExport
    <2>2. ASSUME NEW t \in Transfers,
                 \/ PlainExport(t) \/ ExportStored(t) \/ CensusAbort(t) \/ ExportLost(t)
                 \/ StartFirst(t) \/ AdmitRetry(t) \/ AlreadyActive(t)
          PROVE  VerdictsTrue' /\ RequestsTrue'
      <3>1. UNCHANGED <<verdicts, srcLink>>
        BY <2>2 DEF PlainExport, ExportStored, CensusAbort, ExportLost,
                    StartFirst, AdmitRetry, AlreadyActive
      <3> QED
        BY <1>0, <1>1, <3>1, RequestsCut
    <2>3. ASSUME NEW t \in Transfers, WaitTimeout(t) \/ StartRefused(t)
          PROVE  VerdictsTrue' /\ RequestsTrue'
      BY <1>1, <1>3, <2>3 DEF WaitTimeout, StartRefused
    <2>4. ASSUME NEW t \in Transfers, NEW a \in Attempts,
                 \/ StartRetry(t, a) \/ DestReceives(t, a)
                 \/ ImportAccepted(t, a) \/ SendSessionLost(t, a)
          PROVE  VerdictsTrue' /\ RequestsTrue'
      <3>1. UNCHANGED <<verdicts, srcLink>>
        BY <2>4 DEF StartRetry, DestReceives, ImportAccepted, SendSessionLost
      <3> QED
        BY <1>0, <1>1, <3>1, RequestsCut
    <2>5. ASSUME NEW t \in Transfers, NEW a \in Attempts, Validate(t, a)
          PROVE  VerdictsTrue' /\ RequestsTrue'
      <3>1. CopyLive(t)'
        BY <2>5 DEF Validate, CopyLive, TypeOK
      <3>2. VerdictsTrue'
        BY <1>2, <2>5, <3>1 DEF Validate
      <3> QED
        BY <1>0, <2>5, <3>2, RequestsCut DEF Validate
    <2>6. ASSUME NEW t \in Transfers, NEW a \in Attempts, Reject(t, a)
          PROVE  VerdictsTrue' /\ RequestsTrue'
      <3>1. VerdictsTrue'
        BY <1>2, <2>6 DEF Reject
      <3> QED
        BY <1>0, <2>6, <3>1, RequestsCut DEF Reject
    <2>7. ASSUME NEW t \in Transfers, NEW a \in Attempts, ImportRefused(t, a) \/ SendFailed(t, a)
          PROVE  VerdictsTrue' /\ RequestsTrue'
      BY <1>1, <1>3, <2>7 DEF ImportRefused, SendFailed
    <2>8. ASSUME NEW t \in Transfers, NEW a \in Attempts, TimerFires(t, a)
          PROVE  VerdictsTrue' /\ RequestsTrue'
      <3>1. VerdictsTrue'
        BY <1>1, <2>8 DEF TimerFires
      <3>2. StartHandler(t, a, "timeout", timers[t] \ {a}) \/ UNCHANGED srcLink
        BY <2>8 DEF TimerFires
      <3> QED
        BY <1>0, <1>4, <3>1, <3>2, RequestsCut
    <2>9. ASSUME NEW v \in verdicts, ReceiveVerdict(v)
          PROVE  VerdictsTrue' /\ RequestsTrue'
      <3>1. VerdictsTrue'
        BY <1>1, <2>9 DEF ReceiveVerdict
      <3>2. v.t \in Transfers /\ (v.kind = "success" => CopyLive(v.t))
        BY DEF TypeOK, Verdicts, VerdictsTrue
      <3>3. StartHandler(v.t, v.a, v.kind, timers[v.t]) \/ UNCHANGED srcLink
        BY <2>9 DEF ReceiveVerdict
      <3> QED
        BY <1>0, <1>4, <3>1, <3>2, <3>3, RequestsCut
    <2>10. ASSUME NEW v \in verdicts, LoseVerdict(v)
           PROVE  VerdictsTrue' /\ RequestsTrue'
      BY <1>0, <1>1, <2>10, RequestsCut DEF LoseVerdict
    <2>11. ASSUME NEW h \in handlers, FinishHandler(h) \/ DropStored(h)
           PROVE  VerdictsTrue' /\ RequestsTrue'
      BY <1>0, <1>1, <2>11, RequestsCut DEF FinishHandler, DropStored
    <2>12. CASE \/ ExecDelete \/ RefuseDelete \/ ExecUnlock \/ SourceLinkLost
                \/ LockExpires \/ AdminLock \/ AdminUnlock \/ ControllerRestart
      <3>1. UNCHANGED verdicts
        BY <2>12 DEF ExecDelete, RefuseDelete, ExecUnlock, SourceLinkLost,
                     LockExpires, AdminLock, AdminUnlock, ControllerRestart
      <3>2. \/ UNCHANGED srcLink \/ CutSourceLink
            \/ srcLink # <<>> /\ srcLink' = Tail(srcLink)
        BY <2>12 DEF ExecDelete, RefuseDelete, ExecUnlock, SourceLinkLost,
                     LockExpires, AdminLock, AdminUnlock, ControllerRestart
      <3> QED
        BY <1>0, <1>1, <3>1, <3>2, RequestsCut
    <2> QED
      BY <1>5, <2>1, <2>2, <2>3, <2>4, <2>5, <2>6, <2>7, <2>8, <2>9, <2>10, <2>11, <2>12
         DEF Next
  <1>6. CASE UNCHANGED vars
    BY <1>0, <1>1, <1>6, RequestsCut
  <1> QED
    BY <1>5, <1>6

\* A handler that was told of a delete saw one: only a delete request answers it.
LEMMA AnswerStep ==
  ASSUME CustodyInv, [Next]_vars
  PROVE  AnswersTrue' /\ CompletedImpliesGone'
  <1>0. TypeOK /\ RequestsTrue /\ AnswersTrue /\ CompletedImpliesGone
    BY DEF CustodyInv
  <1>1. ~alive => ~alive'
    <2>1. ASSUME ExecDelete PROVE alive
      BY <2>1 DEF ExecDelete, MayDelete
    <2> QED
      BY <1>0, <2>1, SourceStep
  <1>2. ASSUME handlers' \subseteq handlers PROVE AnswersTrue'
    BY <1>0, <1>1, <1>2 DEF AnswersTrue
  <1>3. ASSUME \A t \in Transfers : rec'[t].status \in {rec[t].status} \cup (Statuses \ {"completed"})
        PROVE  CompletedImpliesGone'
    BY <1>0, <1>1, <1>3 DEF CompletedImpliesGone
  <1>4. ASSUME NEW t \in Transfers, NEW from, NEW kind, NEW armed,
               StartHandler(t, from, kind, armed)
        PROVE  AnswersTrue' /\ CompletedImpliesGone'
    <2>1. AnswersTrue'
      BY <1>0, <1>1, <1>4 DEF StartHandler, AnswersTrue
    <2>2. \A u \in Transfers : rec'[u].status = rec[u].status
      BY <1>0, <1>4 DEF StartHandler, TypeOK, Records
    <2> QED
      BY <1>3, <2>1, <2>2
  <1>5. ASSUME NEW t \in Transfers, NEW s \in Statuses \ {"completed"}, SetStatus(t, s)
        PROVE  CompletedImpliesGone'
    <2>1. \A u \in Transfers : rec'[u].status \in {rec[u].status, s}
      BY <1>0, <1>5 DEF SetStatus, TypeOK, Records
    <2> QED
      BY <1>3, <2>1
  <1>6. ASSUME srcLink # <<>>, NEW pc \in {"ok", "error"}, Answer(Head(srcLink), pc),
               pc = "ok" /\ Head(srcLink).op = "delete" => ~alive'
        PROVE  AnswersTrue'
    <2> DEFINE r == Head(srcLink)
    <2>1. r \in Requests /\ RequestTrue(r)
      BY <1>0, <1>6, HeadTailProperties DEF TypeOK, RequestsTrue
    <2>2. ASSUME NEW h \in handlers, <<h.rec, h.from, h.kind>> = r.by, h.kind = "success", pc = "ok"
          PROVE  ~alive'
      <3>1. r.by[3] = "success" /\ r.op \in {"delete", "unlock"}
        BY <2>1, <2>2 DEF Requests
      <3> QED
        BY <1>6, <2>1, <2>2, <3>1 DEF RequestTrue
    <2> HIDE DEF r
    <2>3. handlers \subseteq Handlers
      BY <1>0 DEF TypeOK
    <2>4. \A h \in Handlers : [h EXCEPT !.pc = pc].kind = h.kind /\ [h EXCEPT !.pc = pc].pc = pc
      BY DEF Handlers
    <2>5. ASSUME NEW g \in handlers', g.kind = "success", g.pc = "ok" PROVE ~alive'
      <3>1. PICK h \in handlers :
              g = IF h.t = r.t /\ <<h.rec, h.from, h.kind>> = r.by /\ h.pc = "request"
                    THEN [h EXCEPT !.pc = pc] ELSE h
        BY <1>6, <2>5 DEF Answer, r
      <3>2. CASE h.t = r.t /\ <<h.rec, h.from, h.kind>> = r.by /\ h.pc = "request"
        BY <2>2, <2>3, <2>4, <2>5, <3>1, <3>2
      <3>3. CASE ~(h.t = r.t /\ <<h.rec, h.from, h.kind>> = r.by /\ h.pc = "request")
        BY <1>0, <1>1, <2>5, <3>1, <3>3 DEF AnswersTrue
      <3> QED
        BY <3>2, <3>3
    <2> QED
      BY <2>5 DEF AnswersTrue
  <1>7. ASSUME UNCHANGED rec PROVE CompletedImpliesGone'
    BY <1>0, <1>1, <1>7 DEF CompletedImpliesGone
  <1> USE DEF vars, source, controller, network
  <1>8. CASE Next
    <2>1. ASSUME NEW t \in Transfers, NEW via \in {"managed", "transfer"},
                 LockAndExport(t, via)
          PROVE  AnswersTrue' /\ CompletedImpliesGone'
      BY <1>2, <1>7, <2>1 DEF LockAndExport
    <2>2. ASSUME NEW t \in Transfers,
                 \/ PlainExport(t) \/ ExportStored(t) \/ CensusAbort(t) \/ ExportLost(t)
                 \/ AdmitRetry(t) \/ WaitTimeout(t) \/ StartRefused(t) \/ AlreadyActive(t)
          PROVE  AnswersTrue' /\ CompletedImpliesGone'
      <3>1. UNCHANGED <<handlers, rec>>
        BY <2>2 DEF PlainExport, ExportStored, CensusAbort, ExportLost,
                    AdmitRetry, WaitTimeout, StartRefused, AlreadyActive
      <3> QED
        BY <1>2, <1>7, <3>1
    <2>3. ASSUME NEW t \in Transfers, NEW a \in Attempts, SendImport(t, a), UNCHANGED handlers
          PROVE  AnswersTrue' /\ CompletedImpliesGone'
      <3>1. \A u \in Transfers : rec'[u].status \in {rec[u].status, "transporting"}
        BY <1>0, <2>3 DEF SendImport, NewRecord, TypeOK
      <3>2. "transporting" \in Statuses \ {"completed"}
        BY DEF Statuses, LiveStatus
      <3> QED
        BY <1>2, <1>3, <2>3, <3>1, <3>2
    <2>4. ASSUME NEW t \in Transfers, StartFirst(t)
          PROVE  AnswersTrue' /\ CompletedImpliesGone'
      <3>1. 1 \in Attempts
        BY ConstantsAssumption DEF Attempts
      <3> QED
        BY <2>3, <2>4, <3>1 DEF StartFirst
    <2>5. ASSUME NEW t \in Transfers, NEW a \in Attempts, StartRetry(t, a)
          PROVE  AnswersTrue' /\ CompletedImpliesGone'
      BY <2>3, <2>5 DEF StartRetry
    <2>6. ASSUME NEW t \in Transfers, NEW a \in Attempts,
                 DestReceives(t, a) \/ Validate(t, a) \/ Reject(t, a) \/ SendFailed(t, a)
          PROVE  AnswersTrue' /\ CompletedImpliesGone'
      <3>1. UNCHANGED <<handlers, rec>>
        BY <2>6 DEF DestReceives, Validate, Reject, SendFailed
      <3> QED
        BY <1>2, <1>7, <3>1
    <2>7. ASSUME NEW t \in Transfers, NEW a \in Attempts,
                 ImportAccepted(t, a) \/ SendSessionLost(t, a)
          PROVE  AnswersTrue' /\ CompletedImpliesGone'
      <3>1. EnterAwaiting(t, a) /\ UNCHANGED handlers
        BY <2>7 DEF ImportAccepted, SendSessionLost
      <3>2. \A u \in Transfers : rec'[u].status \in {rec[u].status, "awaiting_validation"}
        BY <1>0, <3>1 DEF EnterAwaiting, TypeOK, Records
      <3>3. "awaiting_validation" \in Statuses \ {"completed"}
        BY DEF Statuses, LiveStatus
      <3> QED
        BY <1>2, <1>3, <3>1, <3>2, <3>3
    <2>8. ASSUME NEW t \in Transfers, NEW a \in Attempts, ImportRefused(t, a)
          PROVE  AnswersTrue' /\ CompletedImpliesGone'
      <3>1. SetStatus(t, "failed") /\ UNCHANGED handlers /\ "failed" \in Statuses \ {"completed"}
        BY <2>8 DEF ImportRefused, Statuses
      <3> QED
        BY <1>2, <1>5, <3>1
    <2>9. ASSUME NEW t \in Transfers, NEW a \in Attempts, TimerFires(t, a)
          PROVE  AnswersTrue' /\ CompletedImpliesGone'
      <3>1. StartHandler(t, a, "timeout", timers[t] \ {a}) \/ UNCHANGED <<handlers, rec>>
        BY <2>9 DEF TimerFires
      <3> QED
        BY <1>2, <1>4, <1>7, <3>1
    <2>10. ASSUME NEW v \in verdicts, ReceiveVerdict(v)
           PROVE  AnswersTrue' /\ CompletedImpliesGone'
      <3>1. v.t \in Transfers
        BY <1>0 DEF TypeOK, Verdicts
      <3>2. \/ StartHandler(v.t, v.a, v.kind, timers[v.t])
            \/ AfterSettle(v.t, v.kind) /\ UNCHANGED handlers
        BY <2>10 DEF ReceiveVerdict
      <3>3. ASSUME AfterSettle(v.t, v.kind), UNCHANGED handlers
            PROVE  AnswersTrue' /\ CompletedImpliesGone'
        <4>1. \/ rec' = rec
              \/ rec' = [rec EXCEPT ![v.t].status = "cleanup_failed"]
              \/ rec' = [rec EXCEPT ![v.t].status = "cleanup_failed", ![v.t].preserved = FALSE]
              \/ rec' = [rec EXCEPT ![v.t].preserved = TRUE]
          BY <3>3 DEF AfterSettle
        <4>2. \A u \in Transfers : rec'[u].status \in {rec[u].status, "cleanup_failed"}
          <5>1. rec \in [Transfers -> Records]
            BY <1>0 DEF TypeOK
          <5>2. CASE rec' = rec
            BY <5>2
          <5>3. CASE rec' = [rec EXCEPT ![v.t].status = "cleanup_failed"]
            BY <3>1, <5>1, <5>3, StatusUpdate
          <5>4. CASE rec' = [rec EXCEPT ![v.t].preserved = TRUE]
            BY <3>1, <5>1, <5>4, StatusUpdate
          <5>5. CASE rec' = [rec EXCEPT ![v.t].status = "cleanup_failed", ![v.t].preserved = FALSE]
            BY <3>1, <5>1, <5>5, StatusUpdate
          <5> QED
            BY <4>1, <5>2, <5>3, <5>4, <5>5
        <4>3. "cleanup_failed" \in Statuses \ {"completed"}
          BY DEF Statuses
        <4> QED
          BY <1>2, <1>3, <3>3, <4>2, <4>3
      <3> QED
        BY <1>4, <3>1, <3>2, <3>3
    <2>11. ASSUME NEW v \in verdicts, LoseVerdict(v)
           PROVE  AnswersTrue' /\ CompletedImpliesGone'
      BY <1>2, <1>7, <2>11 DEF LoseVerdict
    <2>12. ASSUME NEW h \in handlers, FinishHandler(h)
           PROVE  AnswersTrue' /\ CompletedImpliesGone'
      <3>1. h \in Handlers /\ h.t \in Transfers
        BY <1>0 DEF TypeOK, Handlers
      <3>2. [h EXCEPT !.pc = "cleanup"].pc = "cleanup"
        BY <3>1 DEF Handlers
      <3>3. handlers' \subseteq handlers \cup {[h EXCEPT !.pc = "cleanup"]}
        BY <2>12 DEF FinishHandler, Advance
      <3>4. AnswersTrue'
        BY <1>0, <1>1, <3>2, <3>3 DEF AnswersTrue
      <3>5. Outcome(h) = "completed" => ~alive
        BY <1>0 DEF Outcome, AnswersTrue
      <3>6. Outcome(h) \in Statuses
        BY DEF Outcome, Statuses
      <3>7. \A u \in Transfers : rec'[u].status \in {rec[u].status, Outcome(h)}
        <4>1. rec' = rec \/ rec' = [rec EXCEPT ![h.t].status = Outcome(h)]
          BY <2>12 DEF FinishHandler, SetStatus
        <4> QED
          BY <1>0, <3>1, <4>1, StatusUpdate DEF TypeOK
      <3>8. CompletedImpliesGone'
        BY <1>0, <1>1, <3>5, <3>7 DEF CompletedImpliesGone
      <3> QED
        BY <3>4, <3>8
    <2>13. ASSUME NEW h \in handlers, DropStored(h)
           PROVE  AnswersTrue' /\ CompletedImpliesGone'
      BY <1>2, <1>7, <2>13 DEF DropStored
    <2>14. CASE ExecDelete
      <3>1. PICK pc \in {"ok", "error"} : Answer(Head(srcLink), pc) /\ (pc = "ok" => ~alive')
        BY <2>14 DEF ExecDelete
      <3> QED
        BY <1>6, <1>7, <2>14, <3>1 DEF ExecDelete
    <2>15. CASE RefuseDelete
      BY <1>6, <1>7, <2>15 DEF RefuseDelete
    <2>16. CASE ExecUnlock
      BY <1>6, <1>7, <2>16 DEF ExecUnlock
    <2>17. CASE SourceLinkLost
      <3>1. \A h \in handlers : [h EXCEPT !.pc = "threw"].pc = "threw"
        BY <1>0 DEF TypeOK, Handlers
      <3>2. \A g \in handlers' : g \in handlers \/ g.pc = "threw"
        BY <2>17, <3>1 DEF SourceLinkLost
      <3>3. AnswersTrue'
        BY <1>0, <1>1, <3>2 DEF AnswersTrue
      <3> QED
        BY <1>7, <2>17, <3>3 DEF SourceLinkLost
    <2>18. CASE ControllerRestart
      <3>1. \A u \in Transfers : rec'[u].status = "none"
        BY <2>18 DEF ControllerRestart, NoRecord
      <3>2. handlers' = {} /\ "none" \in Statuses \ {"completed"}
        BY <2>18 DEF ControllerRestart, Statuses
      <3> QED
        BY <1>2, <1>3, <3>1, <3>2
    <2>19. CASE LockExpires \/ AdminLock \/ AdminUnlock
      BY <1>2, <1>7, <2>19 DEF LockExpires, AdminLock, AdminUnlock
    <2> QED
      BY <1>8, <2>1, <2>2, <2>4, <2>5, <2>6, <2>7, <2>8, <2>9, <2>10, <2>11, <2>12,
         <2>13, <2>14, <2>15, <2>16, <2>17, <2>18, <2>19
         DEF Next
  <1>9. CASE UNCHANGED vars
    BY <1>2, <1>7, <1>9
  <1> QED
    BY <1>8, <1>9

LEMMA CustodyInvStep == CustodyInv /\ [Next]_vars => CustodyInv'
  <1> SUFFICES ASSUME CustodyInv, [Next]_vars
               PROVE  CustodyInv'
    OBVIOUS
  <1>1. TypeOK' /\ UnsentIdle' /\ VerdictsTrue' /\ RequestsTrue'
    BY TypeStep, ImportStep, MessageStep DEF CustodyInv
  <1>2. AnswersTrue' /\ CompletedImpliesGone'
    BY AnswerStep
  <1>3. \A u \in Transfers : CopyLive(u) => CopyLive(u)'
    BY ImportStep DEF CustodyInv, CopyLive
  <1>4. CASE ExecDelete
    <2>1. /\ Head(srcLink) \in Requests /\ Head(srcLink).op = "delete"
          /\ RequestTrue(Head(srcLink)) /\ lock = Head(srcLink).t
      BY <1>4, HeadTailProperties DEF CustodyInv, TypeOK, ExecDelete, MayDelete, RequestsTrue
    <2>2. lock \in Transfers /\ lock \in exact /\ CopyLive(lock)
      <3>1. lock \in Transfers
        BY <2>1 DEF Requests
      <3>2. CopyLive(lock)
        BY <2>1 DEF RequestTrue
      <3>3. LockVouches
        BY DEF CustodyInv
      <3> QED
        BY <3>1, <3>2, <3>3 DEF LockVouches
    <2>3. lock' = NoLock /\ (~alive' => exact' = exact)
      BY <1>4 DEF ExecDelete, MayDelete
    <2>4. LockVouches' /\ UnlockedInexact'
      BY <1>4, <2>3, ConstantsAssumption DEF LockVouches, UnlockedInexact, ExecDelete
    <2>5. NeverBothGone'
      BY <1>3, <2>2, <2>3 DEF NeverBothGone
    <2> QED
      BY <1>1, <1>2, <2>4, <2>5 DEF CustodyInv
  <1>5. CASE UNCHANGED <<alive, lock, exact>>
    <2>1. exact \subseteq Transfers
      BY DEF CustodyInv, TypeOK
    <2>2. LockVouches' /\ UnlockedInexact' /\ NeverBothGone'
      BY <1>3, <1>5, <2>1
         DEF CustodyInv, LockVouches, UnlockedInexact, NeverBothGone
    <2> QED
      BY <1>1, <1>2, <2>2 DEF CustodyInv
  <1>6. CASE /\ alive /\ alive' = alive
             /\ \/ lock' \notin Transfers /\ (lock' = NoLock => exact' = {})
                \/ lock' \in Transfers /\ lock' \in exact'
                \/ lock' = lock /\ lock # NoLock /\ exact \subseteq exact'
    <2>1. LockVouches' /\ UnlockedInexact' /\ NeverBothGone'
      BY <1>6, ConstantsAssumption
         DEF CustodyInv, LockVouches, UnlockedInexact, NeverBothGone
    <2> QED
      BY <1>1, <1>2, <2>1 DEF CustodyInv
  <1> QED
    BY <1>4, <1>5, <1>6, SourceStep DEF CustodyInv

LEMMA CustodyInvariant == Spec => []CustodyInv
  BY CustodyInvInit, CustodyInvStep, PTL DEF Spec

\* Gate A for any number of exports, attempts and faults: the original is deleted
\* only after an export that still equals it has a live copy.
THEOREM OriginalOutlivedByCopy == Spec => []NeverBothGone
  <1>1. CustodyInv => NeverBothGone
    BY DEF CustodyInv
  <1> QED
    BY <1>1, CustodyInvariant, PTL

\* A record that says completed tells the truth: the original is gone.
THEOREM CompletedIsTrue == Spec => []CompletedImpliesGone
  <1>1. CustodyInv => CompletedImpliesGone
    BY DEF CustodyInv
  <1> QED
    BY <1>1, CustodyInvariant, PTL

-----------------------------------------------------------------------------
(* The protocol implements Custody.                                            *)

\* Only the end of an import makes a copy live.
LEMMA CopiesStep ==
  ASSUME TypeOK, [Next]_vars
  PROVE  \/ \E t \in Transfers, a \in Attempts : Validate(t, a)
         \/ \A t \in Transfers, a \in Attempts :
              import'[t][a] = "live" => import[t][a] = "live"
  <1> DEFINE NoneLive == \A t \in Transfers, a \in Attempts :
                           import'[t][a] = "live" => import[t][a] = "live"
  <1>0. import \in [Transfers -> [Attempts -> Imports]]
    BY DEF TypeOK
  <1>1. ASSUME NEW t \in Transfers, NEW a \in Attempts, NEW s, s # "live",
               import' = [import EXCEPT ![t][a] = s]
        PROVE  NoneLive
    <2>1. \A u \in Transfers, b \in Attempts :
            import'[u][b] = IF u = t /\ b = a THEN s ELSE import[u][b]
      BY <1>0, <1>1
    <2> QED
      BY <1>1, <2>1
  <1>2. ASSUME UNCHANGED import PROVE NoneLive
    BY <1>2
  <1> HIDE DEF NoneLive
  <1> USE DEF vars, source, controller, network
  <1>3. CASE Next
    <2>1. ASSUME NEW t \in Transfers, NEW via \in {"managed", "transfer"},
                 LockAndExport(t, via)
          PROVE  NoneLive
      BY <1>2, <2>1 DEF LockAndExport
    <2>2. ASSUME NEW t \in Transfers,
                 \/ PlainExport(t) \/ ExportStored(t) \/ CensusAbort(t) \/ ExportLost(t)
                 \/ AdmitRetry(t) \/ WaitTimeout(t) \/ StartRefused(t) \/ AlreadyActive(t)
          PROVE  NoneLive
      BY <1>2, <2>2 DEF PlainExport, ExportStored, CensusAbort, ExportLost, AdmitRetry,
                        WaitTimeout, StartRefused, AlreadyActive
    <2>3. ASSUME NEW t \in Transfers, StartFirst(t) PROVE NoneLive
      <3>1. 1 \in Attempts
        BY ConstantsAssumption DEF Attempts
      <3>2. import' = [import EXCEPT ![t][1] = "sent"]
        BY <2>3 DEF StartFirst, SendImport
      <3> QED
        BY <1>1, <3>1, <3>2
    <2>4. ASSUME NEW t \in Transfers, NEW a \in Attempts,
                 \/ StartRetry(t, a) \/ DestReceives(t, a) \/ SendFailed(t, a)
                 \/ SendSessionLost(t, a)
          PROVE  NoneLive
      <3>1. \/ UNCHANGED import
            \/ \E s \in {"sent", "importing", "dropped"} :
                 import' = [import EXCEPT ![t][a] = s]
        BY <2>4 DEF StartRetry, SendImport, DestReceives, SendFailed, SendSessionLost
      <3> QED
        BY <1>1, <1>2, <3>1
    <2>5. ASSUME NEW t \in Transfers, NEW a \in Attempts, Reject(t, a) PROVE NoneLive
      <3>1. \E s \in {"discarded", "orphan", "preserved"} :
              import' = [import EXCEPT ![t][a] = s]
        <4>1. PICK how \in {<<"discarded", "failure">>, <<"orphan", "failure_orphan">>,
                            <<"preserved", "failure_preserved">>} :
                import' = [import EXCEPT ![t][a] = how[1]]
          BY <2>5 DEF Reject
        <4>2. how[1] \in {"discarded", "orphan", "preserved"}
          OBVIOUS
        <4> QED
          BY <4>1, <4>2
      <3> QED
        BY <1>1, <3>1
    <2>6. ASSUME NEW t \in Transfers, NEW a \in Attempts,
                 ImportAccepted(t, a) \/ ImportRefused(t, a) \/ TimerFires(t, a)
          PROVE  NoneLive
      BY <1>2, <2>6 DEF ImportAccepted, ImportRefused, TimerFires
    <2>7. ASSUME NEW v \in verdicts, ReceiveVerdict(v) \/ LoseVerdict(v) PROVE NoneLive
      BY <1>2, <2>7 DEF ReceiveVerdict, LoseVerdict
    <2>8. ASSUME NEW h \in handlers, FinishHandler(h) \/ DropStored(h) PROVE NoneLive
      BY <1>2, <2>8 DEF FinishHandler, DropStored
    <2>9. CASE \/ ExecDelete \/ RefuseDelete \/ ExecUnlock \/ SourceLinkLost
               \/ LockExpires \/ AdminLock \/ AdminUnlock \/ ControllerRestart
      BY <1>2, <2>9 DEF ExecDelete, RefuseDelete, ExecUnlock, SourceLinkLost,
                        LockExpires, AdminLock, AdminUnlock, ControllerRestart
    <2> QED
      BY <1>3, <2>1, <2>2, <2>3, <2>4, <2>5, <2>6, <2>7, <2>8, <2>9 DEF Next, NoneLive
  <1>4. CASE UNCHANGED vars
    BY <1>2, <1>4
  <1> QED
    BY <1>3, <1>4 DEF NoneLive

\* Every change of the source is a step of Custody.
LEMMA SourceRefines ==
  ASSUME CustodyInv, [Next]_vars,
         {t \in Transfers : CopyLive(t)}' = {t \in Transfers : CopyLive(t)}
  PROVE  [Custody!Next]_(Custody!vars)
  <1>0. TypeOK /\ exact \subseteq Transfers
    BY DEF CustodyInv, TypeOK
  <1> USE DEF vars, source, controller, network
  <1>1. ASSUME UNCHANGED <<alive, lock, exact>> PROVE [Custody!Next]_(Custody!vars)
    BY <1>1 DEF Custody!vars
  <1>2. ASSUME alive, alive' = alive, lock # NoLock, lock' = NoLock, exact' = {}
        PROVE  Custody!Next
    BY <1>2 DEF Custody!Next, Custody!Thaw
  <1>3. ASSUME alive, alive' = alive, lock = NoLock, lock' # NoLock, exact' \subseteq Transfers
        PROVE  Custody!Next
    BY <1>3 DEF Custody!Next, Custody!Freeze
  <1>4. ASSUME NEW t \in Transfers, alive, alive' = alive, lock # NoLock, lock' = lock,
               exact' = exact \cup {t}
        PROVE  Custody!Next
    BY <1>4 DEF Custody!Next, Custody!Snapshot
  <1>5. CASE Next
    <2>1. ASSUME NEW t \in Transfers, NEW via \in {"managed", "transfer"},
                 LockAndExport(t, via)
          PROVE  Custody!Next
      <3>1. t # NoLock
        BY ConstantsAssumption
      <3> QED
        BY <1>3, <2>1, <3>1 DEF LockAndExport
    <2>2. ASSUME NEW t \in Transfers, PlainExport(t) PROVE Custody!Next
      <3>1. CASE lock = NoLock
        <4>1. "export" # NoLock /\ exact' \subseteq Transfers
          BY <1>0, <2>2, ConstantsAssumption DEF PlainExport
        <4> QED
          BY <1>3, <2>2, <3>1, <4>1 DEF PlainExport
      <3>2. CASE lock # NoLock
        BY <1>4, <2>2, <3>2 DEF PlainExport
      <3> QED
        BY <3>1, <3>2
    <2>3. ASSUME alive, lock # NoLock, ReleaseLock, UNCHANGED alive PROVE Custody!Next
      BY <1>2, <2>3 DEF ReleaseLock
    <2>4. ASSUME alive, lock = NoLock, ReleaseLock, UNCHANGED alive
          PROVE  UNCHANGED <<alive, lock, exact>>
      BY <2>4 DEF ReleaseLock, CustodyInv, UnlockedInexact
    <2>5. ASSUME alive, ReleaseLock, UNCHANGED alive
          PROVE  [Custody!Next]_(Custody!vars)
      BY <1>1, <2>3, <2>4, <2>5
    <2>6. ASSUME NEW t \in Transfers, ExportStored(t) \/ CensusAbort(t)
          PROVE  [Custody!Next]_(Custody!vars)
      BY <1>1, <2>5, <2>6 DEF ExportStored, CensusAbort
    <2>7. CASE ExecUnlock \/ LockExpires \/ AdminUnlock
      BY <1>1, <2>5, <2>7 DEF ExecUnlock, LockExpires, AdminUnlock
    <2>8. CASE AdminLock
      <3>1. "manual" # NoLock
        BY ConstantsAssumption
      <3> QED
        BY <1>0, <1>3, <2>8, <3>1 DEF AdminLock
    <2>9. CASE ExecDelete
      <3>1. /\ Head(srcLink) \in Requests /\ Head(srcLink).op = "delete"
            /\ RequestTrue(Head(srcLink)) /\ lock = Head(srcLink).t /\ alive
        BY <2>9, HeadTailProperties DEF CustodyInv, TypeOK, ExecDelete, MayDelete, RequestsTrue
      <3>2. lock \in Transfers /\ CopyLive(lock) /\ lock # NoLock
        BY <3>1, ConstantsAssumption DEF Requests, RequestTrue
      <3>3. lock \in exact
        BY <3>2 DEF CustodyInv, LockVouches
      <3>4. CASE alive' = FALSE /\ UNCHANGED exact
        BY <3>1, <3>2, <3>3, <3>4 DEF Custody!Next, Custody!Delete
      <3>5. CASE UNCHANGED alive /\ exact' = {}
        BY <1>2, <2>9, <3>1, <3>2, <3>5 DEF ExecDelete
      <3> QED
        BY <2>9, <3>4, <3>5 DEF ExecDelete
    <2>10. ASSUME NEW t \in Transfers,
                  \/ ExportLost(t) \/ StartFirst(t) \/ AdmitRetry(t)
                  \/ WaitTimeout(t) \/ StartRefused(t) \/ AlreadyActive(t)
           PROVE  UNCHANGED <<alive, lock, exact>>
      BY <2>10 DEF ExportLost, StartFirst, AdmitRetry, WaitTimeout, StartRefused, AlreadyActive
    <2>11. ASSUME NEW t \in Transfers, NEW a \in Attempts,
                  \/ StartRetry(t, a) \/ DestReceives(t, a) \/ Validate(t, a) \/ Reject(t, a)
                  \/ ImportAccepted(t, a) \/ ImportRefused(t, a)
                  \/ SendSessionLost(t, a) \/ SendFailed(t, a) \/ TimerFires(t, a)
           PROVE  UNCHANGED <<alive, lock, exact>>
      BY <2>11 DEF StartRetry, DestReceives, Validate, Reject, ImportAccepted, ImportRefused,
                   SendSessionLost, SendFailed, TimerFires
    <2>12. ASSUME NEW v \in verdicts, ReceiveVerdict(v) \/ LoseVerdict(v)
           PROVE  UNCHANGED <<alive, lock, exact>>
      BY <2>12 DEF ReceiveVerdict, LoseVerdict
    <2>13. ASSUME NEW h \in handlers, FinishHandler(h) \/ DropStored(h)
           PROVE  UNCHANGED <<alive, lock, exact>>
      BY <2>13 DEF FinishHandler, DropStored
    <2>14. CASE RefuseDelete \/ SourceLinkLost \/ ControllerRestart
      BY <1>1, <2>14 DEF RefuseDelete, SourceLinkLost, ControllerRestart
    <2> QED
      BY <1>1, <1>5, <2>1, <2>2, <2>6, <2>7, <2>8, <2>9, <2>10, <2>11, <2>12, <2>13, <2>14
         DEF Next
  <1>6. CASE UNCHANGED vars
    BY <1>1, <1>6
  <1> QED
    BY <1>5, <1>6

LEMMA CustodyStep == CustodyInv /\ [Next]_vars => [Custody!Next]_(Custody!vars)
  <1> SUFFICES ASSUME CustodyInv, [Next]_vars
               PROVE  [Custody!Next]_(Custody!vars)
    OBVIOUS
  <1>0. TypeOK /\ UnsentIdle
    BY DEF CustodyInv
  <1>1. ASSUME NEW t \in Transfers, NEW a \in Attempts, Validate(t, a)
        PROVE  [Custody!Next]_(Custody!vars)
    <2>1. /\ UNCHANGED <<alive, lock, exact>>
          /\ import' = [import EXCEPT ![t][a] = "live"]
      BY <1>1 DEF Validate, source
    <2>2. \A u \in Transfers, b \in Attempts :
            import'[u][b] = IF u = t /\ b = a THEN "live" ELSE import[u][b]
      BY <1>0, <2>1 DEF TypeOK
    <2>3. {u \in Transfers : CopyLive(u)}' = {u \in Transfers : CopyLive(u)} \cup {t}
      BY <2>2 DEF CopyLive
    <2> QED
      BY <2>1, <2>3 DEF Custody!Next, Custody!Validate
  <1>2. ASSUME \A t \in Transfers, a \in Attempts :
                 import'[t][a] = "live" => import[t][a] = "live"
        PROVE  [Custody!Next]_(Custody!vars)
    <2>1. {t \in Transfers : CopyLive(t)}' = {t \in Transfers : CopyLive(t)}
      BY <1>0, <1>2, ImportStep DEF CopyLive
    <2> QED
      BY <2>1, SourceRefines
  <1> QED
    BY <1>0, <1>1, <1>2, CopiesStep

LEMMA CustodyInit == Init => Custody!Init
  BY DEF Init, Custody!Init, CopyLive

\* The transfer, with all its exports, attempts, timers, handlers, lost messages
\* and restarts, implements Custody.
THEOREM ImplementsCustody == Spec => CustodySpec
  <1>1. Init => Custody!Init
    BY CustodyInit
  <1>2. CustodyInv /\ [Next]_vars => [Custody!Next]_(Custody!vars)
    BY CustodyStep
  <1> QED
    BY <1>1, <1>2, CustodyInvariant, PTL DEF Spec, CustodySpec, Custody!Spec

-----------------------------------------------------------------------------
(* No lock is left to the TTL.  The lock of a transfer is taken once, before    *)
(* its transfer exists; every step that settles the transfer, or gives it up,   *)
(* either follows the release of the lock or sends the request that releases it. *)

\* A request about transfer t is on its way to the source.
Pending(t) == \E i \in 1..Len(srcLink) : srcLink[i].t = t

\* The controller knows nothing of a transfer whose export has not begun.
Unexported ==
  \A t \in Transfers : export[t] = "none" =>
    /\ t \notin stored /\ starting[t] = "none" /\ rec[t].status = "none"
    /\ \A a \in Attempts : call[t][a] = "none"
    /\ \A h \in handlers : h.t # t

GoneUnlocked == ~alive => lock = NoLock

StoredExported == \A t \in stored : export[t] = "done"

\* Only a restart of the controller, which is a fault, forgets a record.
TriedRecorded == faults.count = 0 => \A t \in Transfers : tries[t] > 0 => rec[t].status # "none"

\* A handler that has its answer no longer finds its transfer's lock.
Answered == faults.count = 0 => \A h \in handlers : h.pc # "request" => lock # h.t

Attended ==
  faults.count = 0 /\ lock \in Transfers =>
    \/ rec[lock].status \in LiveStatus
    \/ rec[lock].status = "none" /\ (export[lock] = "transfer" \/ starting[lock] # "none")
    \/ Pending(lock)

AttendedInv ==
  /\ TypeOK /\ Unexported /\ GoneUnlocked /\ StoredExported
  /\ TriedRecorded /\ Answered /\ Attended

LEMMA AttendedInvInit == Init => AttendedInv
  <1> SUFFICES ASSUME Init PROVE AttendedInv
    OBVIOUS
  <1>1. TypeOK
    BY TypeInit
  <1>2. Unexported /\ GoneUnlocked /\ StoredExported /\ Answered
    BY DEF Init, Unexported, GoneUnlocked, StoredExported, Answered, NoRecord
  <1>3. TriedRecorded /\ Attended
    BY ConstantsAssumption DEF Init, TriedRecorded, Attended
  <1> QED
    BY <1>1, <1>2, <1>3 DEF AttendedInv

\* A request once sent stays on its way while others are added behind it.
LEMMA PendingKept ==
  ASSUME TypeOK, NEW op, NEW t \in Transfers, NEW by, Request(op, t, by)
  PROVE  Pending(t)' /\ \A u \in Transfers : Pending(u) => Pending(u)'
  <1> DEFINE r == [op |-> op, t |-> t, by |-> by]
  <1>1. srcLink' = Append(srcLink, r) /\ srcLink \in Seq(Requests)
    BY DEF Request, TypeOK
  <1>2. /\ Len(srcLink') = Len(srcLink) + 1
        /\ srcLink'[Len(srcLink) + 1] = r
        /\ \A i \in 1..Len(srcLink) : srcLink'[i] = srcLink[i]
    BY <1>1
  <1>3. Len(srcLink) \in Nat /\ r.t = t
    BY <1>1
  <1> QED
    BY <1>2, <1>3 DEF Pending

\* A step of the game: it takes a free lock for an export that begins, or drops
\* whatever lock there is.
LEMMA AttendedGameStep ==
  ASSUME AttendedInv, TypeOK', NEW t \in Transfers,
         \/ \E via \in {"managed", "transfer"} : LockAndExport(t, via)
         \/ PlainExport(t) \/ ExportStored(t) \/ CensusAbort(t) \/ ExportLost(t)
         \/ LockExpires \/ AdminLock \/ AdminUnlock
  PROVE  AttendedInv'
  <1> USE DEF vars, source, controller, network
  <1>0. /\ TypeOK /\ Unexported /\ GoneUnlocked /\ StoredExported
        /\ TriedRecorded /\ Answered /\ Attended
    BY DEF AttendedInv
  <1>1. /\ export \in [Transfers -> {"none", "managed", "transfer", "plain", "done"}]
        /\ starting \in [Transfers -> {"none", "store", "request"}]
        /\ faults.count \in Nat /\ alive \in BOOLEAN
        /\ \A h \in handlers : h.t \in Transfers
        /\ NoLock \notin Transfers /\ "export" \notin Transfers /\ "manual" \notin Transfers
    BY <1>0, ConstantsAssumption DEF TypeOK, Faults, Handlers
  <1>2. ASSUME NEW via \in {"managed", "transfer"}, LockAndExport(t, via)
        PROVE  AttendedInv'
    <2>1. /\ alive /\ alive' = alive /\ lock' = t /\ export[t] = "none"
          /\ \A u \in Transfers : export'[u] = IF u = t THEN via ELSE export[u]
          /\ starting'[t] = IF via = "managed" THEN "store" ELSE "none"
          /\ \A u \in Transfers : u # t => starting'[u] = starting[u]
          /\ UNCHANGED <<stored, rec, tries, call, handlers, srcLink, faults>>
      BY <1>1, <1>2 DEF LockAndExport
    <2>2. Unexported' /\ GoneUnlocked' /\ TriedRecorded'
      BY <1>0, <1>2, <2>1 DEF Unexported, GoneUnlocked, TriedRecorded
    <2>3. StoredExported'
      BY <1>0, <2>1 DEF StoredExported, Unexported, TypeOK
    <2>4. Answered'
      BY <1>0, <2>1 DEF Answered, Unexported
    <2>5. Attended'
      BY <1>0, <1>2, <2>1 DEF Attended, Unexported
    <2> QED
      BY <2>2, <2>3, <2>4, <2>5 DEF AttendedInv
  <1>3. ASSUME UNCHANGED <<alive, rec, tries, call, handlers, srcLink>>,
               faults'.count \in Nat, faults'.count = 0 => faults.count = 0,
               lock' = lock \/ (lock' \notin Transfers /\ alive),
               \A u \in Transfers :
                 \/ export'[u] = export[u] /\ starting'[u] = starting[u]
                 \/ export[u] = "none" /\ export'[u] = "plain"
                    /\ starting'[u] = starting[u]
                 \/ /\ export[u] # "none" /\ export'[u] = "done"
                    /\ \/ starting'[u] = starting[u]
                       \/ export[u] = "transfer" /\ starting'[u] = "request"
                    /\ \/ faults'.count # 0 \/ lock' # u
                       \/ export[u] # "transfer" \/ starting'[u] = "request",
               \A u \in stored' : export'[u] = "done"
        PROVE  AttendedInv'
    <2>1. Unexported'
      BY <1>0, <1>3 DEF Unexported
    <2>2. GoneUnlocked' /\ StoredExported' /\ TriedRecorded'
      BY <1>0, <1>3 DEF GoneUnlocked, StoredExported, TriedRecorded
    <2>3. Answered'
      BY <1>0, <1>1, <1>3 DEF Answered
    <2>4. Attended'
      BY <1>0, <1>1, <1>3 DEF Attended, Pending
    <2> QED
      BY <2>1, <2>2, <2>3, <2>4 DEF AttendedInv
  <1>4. CASE PlainExport(t)
    BY <1>0, <1>1, <1>3, <1>4 DEF PlainExport, StoredExported, Unexported
  <1>5. CASE ExportStored(t)
    BY <1>0, <1>1, <1>3, <1>5 DEF ExportStored, Store, ReleaseLock, StoredExported, GoneUnlocked
  <1>6. CASE CensusAbort(t)
    BY <1>0, <1>1, <1>3, <1>6 DEF CensusAbort, ReleaseLock, StoredExported, GoneUnlocked
  <1>7. CASE ExportLost(t)
    BY <1>0, <1>1, <1>3, <1>7 DEF ExportLost, Fault, Faults, StoredExported
  <1>8. CASE LockExpires \/ AdminLock \/ AdminUnlock
    BY <1>0, <1>1, <1>3, <1>8
       DEF LockExpires, AdminLock, AdminUnlock, ReleaseLock, StoredExported
  <1> QED
    BY <1>2, <1>4, <1>5, <1>6, <1>7, <1>8

\* A step at the start of a transfer, or of the import: it sends a request, or
\* puts the record in progress, or leaves the transfer's phase alone.
LEMMA AttendedStartStep ==
  ASSUME AttendedInv, TypeOK', NEW t \in Transfers,
         \/ StartFirst(t) \/ AdmitRetry(t)
         \/ WaitTimeout(t) \/ StartRefused(t) \/ AlreadyActive(t)
         \/ \E a \in Attempts :
              \/ StartRetry(t, a) \/ DestReceives(t, a) \/ Validate(t, a) \/ Reject(t, a)
              \/ ImportAccepted(t, a) \/ ImportRefused(t, a)
              \/ SendSessionLost(t, a) \/ SendFailed(t, a)
  PROVE  AttendedInv'
  <1> USE DEF vars, source, controller, network
  <1>0. /\ TypeOK /\ Unexported /\ GoneUnlocked /\ StoredExported
        /\ TriedRecorded /\ Answered /\ Attended
    BY DEF AttendedInv
  <1>1. /\ export \in [Transfers -> {"none", "managed", "transfer", "plain", "done"}]
        /\ starting \in [Transfers -> {"none", "store", "request"}]
        /\ rec \in [Transfers -> Records]
        /\ call \in [Transfers -> [Attempts -> Calls]]
        /\ tries \in [Transfers -> 0..MaxAttempts]
        /\ faults.count \in Nat
    BY <1>0, ConstantsAssumption DEF TypeOK, Faults
  <1>2. /\ export[t] = "none" => ~MayTry(t) /\ starting[t] = "none" /\ rec[t].status = "none"
        /\ \A a \in Attempts : call[t][a] # "none" => export[t] # "none"
    BY <1>0 DEF MayTry, Unexported
  <1>3. ASSUME UNCHANGED <<alive, lock, export, stored, handlers>>, export[t] # "none",
               faults'.count \in Nat, faults'.count = 0 => faults.count = 0,
               \A u \in Transfers : u # t =>
                 /\ starting'[u] = starting[u] /\ call'[u] = call[u] /\ tries'[u] = tries[u]
                 /\ rec'[u].status = rec[u].status,
               \A u \in Transfers : Pending(u) => Pending(u)',
               faults'.count = 0 =>
                 \/ rec'[t].status \in LiveStatus
                 \/ /\ rec'[t].status = rec[t].status /\ rec[t].status # "none"
                 \/ /\ rec'[t].status = rec[t].status /\ tries'[t] = tries[t]
                    /\ starting'[t] = starting[t]
                 \/ /\ rec'[t].status = rec[t].status /\ tries'[t] = tries[t] /\ Pending(t)'
                 \/ rec'[t].status = "failed" /\ Pending(t)'
        PROVE  AttendedInv'
    <2>1. Unexported'
      BY <1>0, <1>3 DEF Unexported
    <2>2. GoneUnlocked' /\ StoredExported' /\ Answered'
      BY <1>0, <1>3 DEF GoneUnlocked, StoredExported, Answered
    <2>3. TriedRecorded'
      BY <1>0, <1>3 DEF TriedRecorded, LiveStatus
    <2>4. Attended'
      BY <1>0, <1>3 DEF Attended, LiveStatus
    <2> QED
      BY <2>1, <2>2, <2>3, <2>4 DEF AttendedInv
  <1>4. ASSUME NEW a \in Attempts, SendImport(t, a), export[t] # "none",
               UNCHANGED <<alive, lock, export, stored, handlers, srcLink, faults>>,
               \A u \in Transfers : u # t =>
                 starting'[u] = starting[u] /\ tries'[u] = tries[u]
        PROVE  AttendedInv'
    <2>1. \A u \in Transfers : /\ u # t => rec'[u] = rec[u] /\ call'[u] = call[u]
                               /\ rec'[t].status = "transporting"
      BY <1>1, <1>4 DEF SendImport, NewRecord
    <2>2. \A u \in Transfers : Pending(u) => Pending(u)'
      BY <1>4 DEF Pending
    <2> QED
      BY <1>1, <1>3, <1>4, <2>1, <2>2 DEF LiveStatus
  <1>5. ASSUME NEW a \in Attempts, EndCall(t, a) PROVE \A u \in Transfers : u # t => call'[u] = call[u]
    BY <1>1, <1>5 DEF EndCall
  <1>6. ASSUME Caller(t) PROVE \A u \in Transfers : u # t => starting'[u] = starting[u]
    BY <1>1, <1>6 DEF Caller
  <1>7. CASE StartFirst(t)
    <2>1. 1 \in Attempts
      BY ConstantsAssumption DEF Attempts
    <2>2. SendImport(t, 1) /\ Caller(t) /\ export[t] # "none"
      BY <1>2, <1>7 DEF StartFirst
    <2>3. \A u \in Transfers : u # t => tries'[u] = tries[u]
      BY <1>1, <1>7 DEF StartFirst
    <2> QED
      BY <1>4, <1>6, <1>7, <2>1, <2>2, <2>3 DEF StartFirst
  <1>8. CASE AdmitRetry(t)
    <2>1. /\ Caller(t) /\ export[t] # "none" /\ (rec[t].status # "none" \/ faults.count # 0)
      BY <1>0, <1>1, <1>2, <1>8 DEF AdmitRetry, TriedRecorded
    <2>2. \A u \in Transfers : u # t => tries'[u] = tries[u] /\ call'[u] = call[u]
      BY <1>1, <1>8 DEF AdmitRetry
    <2>3. /\ UNCHANGED <<alive, lock, export, stored, handlers, rec, srcLink, faults>>
          /\ Caller(t) /\ export[t] # "none"
      BY <1>2, <1>8 DEF AdmitRetry
    <2>4. \A u \in Transfers : Pending(u) => Pending(u)'
      BY <2>3 DEF Pending
    <2> QED
      BY <1>1, <1>3, <1>6, <2>1, <2>2, <2>3, <2>4
  <1>9. CASE WaitTimeout(t) \/ StartRefused(t)
    <2>1. Request("unlock", t, Rollback)
      BY <1>9 DEF WaitTimeout, StartRefused
    <2>2. Pending(t)' /\ \A u \in Transfers : Pending(u) => Pending(u)'
      BY <1>0, <2>1, PendingKept
    <2>3. /\ starting[t] # "none" /\ starting' = [starting EXCEPT ![t] = "none"]
          /\ UNCHANGED <<alive, lock, export, stored, rec, tries, call, handlers>>
          /\ faults' = faults \/ faults'.count = faults.count + 1
      BY <1>9 DEF WaitTimeout, StartRefused, Fault, Faults
    <2> QED
      BY <1>1, <1>2, <1>3, <2>2, <2>3
  <1>10. CASE AlreadyActive(t)
    BY <1>1, <1>2, <1>3, <1>10 DEF AlreadyActive, LiveStatus, Pending
  <1>11. ASSUME NEW a \in Attempts, StartRetry(t, a) PROVE AttendedInv'
    BY <1>2, <1>4, <1>11 DEF StartRetry
  <1>12. ASSUME NEW a \in Attempts, DestReceives(t, a) \/ Validate(t, a) \/ Reject(t, a)
         PROVE  AttendedInv'
    <2>1. /\ UNCHANGED <<alive, lock, export, starting, stored, rec, tries, call, handlers, srcLink>>
          /\ faults' = faults \/ faults'.count = faults.count + 1
      BY <1>12 DEF DestReceives, Validate, Reject, Fault, Faults
    <2> QED
      BY <1>0, <1>1, <2>1
         DEF AttendedInv, Unexported, GoneUnlocked, StoredExported, TriedRecorded,
             Answered, Attended, Pending
  <1>13. ASSUME NEW a \in Attempts, ImportAccepted(t, a) PROVE AttendedInv'
    <2>1. EnterAwaiting(t, a) /\ EndCall(t, a) /\ export[t] # "none"
      BY <1>2, <1>13 DEF ImportAccepted
    <2>2. UNCHANGED <<alive, lock, export, starting, stored, tries, handlers, srcLink, faults>>
      BY <1>13 DEF ImportAccepted
    <2>3. /\ \A u \in Transfers : u # t => rec'[u] = rec[u]
          /\ rec'[t].status \in {rec[t].status, "awaiting_validation"}
      BY <1>1, <2>1 DEF EnterAwaiting, Records
    <2>4. \A u \in Transfers : Pending(u) => Pending(u)'
      BY <2>2 DEF Pending
    <2> QED
      BY <1>1, <1>3, <1>5, <2>1, <2>2, <2>3, <2>4 DEF LiveStatus
  <1>14. ASSUME NEW a \in Attempts, ImportRefused(t, a) PROVE AttendedInv'
    <2>1. Pending(t)' /\ \A u \in Transfers : Pending(u) => Pending(u)'
      BY <1>0, <1>14, PendingKept DEF ImportRefused
    <2>2. /\ \A u \in Transfers : u # t => rec'[u] = rec[u]
          /\ rec'[t].status = "failed"
      BY <1>1, <1>14 DEF ImportRefused, SetStatus, Records
    <2>3. UNCHANGED <<alive, lock, export, starting, stored, tries, handlers, faults>>
      BY <1>14 DEF ImportRefused
    <2>4. EndCall(t, a) /\ export[t] # "none"
      BY <1>2, <1>14 DEF ImportRefused
    <2> QED
      BY <1>1, <1>3, <1>5, <2>1, <2>2, <2>3, <2>4
  <1>15. ASSUME NEW a \in Attempts, SendSessionLost(t, a) \/ SendFailed(t, a) PROVE AttendedInv'
    <2>1. /\ EndCall(t, a) /\ export[t] # "none" /\ faults'.count = faults.count + 1
          /\ UNCHANGED <<alive, lock, export, starting, stored, tries, handlers>>
      BY <1>2, <1>15 DEF SendSessionLost, SendFailed, Fault, Faults
    <2>2. Unexported'
      <3>1. \A u \in Transfers : u # t => rec'[u] = rec[u] /\ call'[u] = call[u]
        BY <1>1, <1>5, <1>15, <2>1 DEF SendSessionLost, SendFailed, EnterAwaiting
      <3> QED
        BY <1>0, <2>1, <3>1 DEF Unexported
    <2> QED
      BY <1>0, <1>1, <2>1, <2>2
         DEF AttendedInv, GoneUnlocked, StoredExported, TriedRecorded, Answered, Attended
  <1> QED
    BY <1>7, <1>8, <1>9, <1>10, <1>11, <1>12, <1>13, <1>14, <1>15

\* A verdict or a timeout on a transfer in progress sends a request; on any other
\* it leaves the record neither less nor more settled.  A handler ends only after
\* its answer, when its lock is gone.
LEMMA AttendedVerdictStep ==
  ASSUME AttendedInv, TypeOK',
         \/ \E t \in Transfers, a \in Attempts : TimerFires(t, a)
         \/ \E v \in verdicts : ReceiveVerdict(v) \/ LoseVerdict(v)
         \/ \E h \in handlers : FinishHandler(h) \/ DropStored(h)
  PROVE  AttendedInv'
  <1> USE DEF vars, source, controller, network
  <1>0. /\ TypeOK /\ Unexported /\ GoneUnlocked /\ StoredExported
        /\ TriedRecorded /\ Answered /\ Attended
    BY DEF AttendedInv
  <1>1. /\ rec \in [Transfers -> Records] /\ faults.count \in Nat
        /\ handlers \subseteq Handlers /\ verdicts \subseteq Verdicts
    BY <1>0, ConstantsAssumption DEF TypeOK, Faults
  <1>2. ASSUME UNCHANGED <<alive, lock, export, starting, tries, call>>,
               stored' \subseteq stored, faults'.count \in Nat, faults'.count = 0 => faults.count = 0,
               \A u \in Transfers : Pending(u) => Pending(u)',
               \A u \in Transfers :
                 \/ rec'[u].status = rec[u].status
                 \/ /\ rec'[u].status # "none" /\ export[u] # "none"
                    /\ \/ rec[u].status \notin LiveStatus \cup {"none"}
                       \/ faults.count = 0 => lock # u,
               \A h \in handlers' :
                 /\ export[h.t] # "none"
                 /\ faults.count = 0 /\ h.pc # "request" => lock # h.t
        PROVE  AttendedInv'
    <2>1. Unexported'
      BY <1>0, <1>2 DEF Unexported
    <2>2. GoneUnlocked' /\ StoredExported' /\ TriedRecorded' /\ Answered'
      BY <1>0, <1>2 DEF GoneUnlocked, StoredExported, TriedRecorded, Answered
    <2>3. Attended'
      BY <1>0, <1>2 DEF Attended
    <2> QED
      BY <2>1, <2>2, <2>3 DEF AttendedInv
  <1>3. \A h \in handlers :
          /\ h.t \in Transfers /\ export[h.t] # "none"
          /\ faults.count = 0 /\ h.pc # "request" => lock # h.t
    BY <1>0, <1>1 DEF Unexported, Answered, Handlers
  <1>4. ASSUME UNCHANGED srcLink PROVE \A u \in Transfers : Pending(u) => Pending(u)'
    BY <1>4 DEF Pending
  <1>5. ASSUME NEW t \in Transfers, NEW from, NEW kind, NEW armed,
               StartHandler(t, from, kind, armed), rec[t].status = "awaiting_validation",
               UNCHANGED <<alive, lock, export, starting, stored, tries, call, faults>>
        PROVE  AttendedInv'
    <2>1. \A u \in Transfers : Pending(u) => Pending(u)'
      BY <1>0, <1>5, PendingKept DEF StartHandler
    <2>2. \A u \in Transfers : rec'[u].status = rec[u].status
      BY <1>1, <1>5 DEF StartHandler, Records
    <2>3. export[t] # "none"
      BY <1>0, <1>5 DEF Unexported
    <2>4. \A h \in handlers' : h \in handlers \/ (h.t = t /\ h.pc = "request")
      BY <1>5 DEF StartHandler
    <2> QED
      BY <1>1, <1>2, <1>3, <1>5, <2>1, <2>2, <2>3, <2>4
  <1>6. ASSUME NEW t \in Transfers, NEW a \in Attempts, TimerFires(t, a) PROVE AttendedInv'
    <2>1. CASE rec[t].status = "awaiting_validation"
      BY <1>5, <1>6, <2>1 DEF TimerFires
    <2>2. CASE rec[t].status # "awaiting_validation"
      BY <1>1, <1>2, <1>3, <1>4, <1>6, <2>2 DEF TimerFires
    <2> QED
      BY <2>1, <2>2
  <1>7. ASSUME NEW v \in verdicts, ReceiveVerdict(v) PROVE AttendedInv'
    <2>1. v.t \in Transfers
      BY <1>1 DEF Verdicts
    <2>2. UNCHANGED <<alive, lock, export, starting, stored, tries, call, faults>>
      BY <1>7 DEF ReceiveVerdict
    <2>3. CASE rec[v.t].status = "awaiting_validation"
      BY <1>5, <1>7, <2>1, <2>2, <2>3 DEF ReceiveVerdict
    <2>4. CASE rec[v.t].status # "awaiting_validation"
      <3>1. AfterSettle(v.t, v.kind) /\ UNCHANGED <<handlers, srcLink>>
        BY <1>7, <2>4 DEF ReceiveVerdict
      <3>2. \/ rec' = rec
            \/ /\ rec[v.t].status = "failed"
               /\ \/ rec' = [rec EXCEPT ![v.t].status = "cleanup_failed"]
                  \/ rec' = [rec EXCEPT ![v.t].status = "cleanup_failed", ![v.t].preserved = FALSE]
                  \/ rec' = [rec EXCEPT ![v.t].preserved = TRUE]
        BY <3>1 DEF AfterSettle
      <3>3. \A u \in Transfers :
              \/ rec'[u].status = rec[u].status
              \/ rec'[u].status # "none" /\ rec[u].status = "failed"
        BY <1>1, <2>1, <3>2 DEF Records
      <3>4. \A u \in Transfers : rec[u].status = "failed" => export[u] # "none"
        BY <1>0 DEF Unexported
      <3>5. "failed" \notin LiveStatus \cup {"none"}
        BY DEF LiveStatus
      <3> QED
        BY <1>1, <1>2, <1>3, <1>4, <2>2, <3>1, <3>3, <3>4, <3>5
    <2> QED
      BY <2>3, <2>4
  <1>8. ASSUME NEW v \in verdicts, LoseVerdict(v) PROVE AttendedInv'
    BY <1>1, <1>2, <1>3, <1>4, <1>8 DEF LoseVerdict, Fault, Faults
  <1>9. ASSUME NEW h \in handlers, FinishHandler(h) PROVE AttendedInv'
    <2>1. /\ h.pc # "request" /\ h.t \in Transfers /\ export[h.t] # "none"
          /\ faults.count = 0 => lock # h.t
      BY <1>3, <1>9 DEF FinishHandler
    <2>2. /\ UNCHANGED <<alive, lock, export, starting, stored, tries, call, srcLink, faults>>
          /\ rec' = rec \/ rec' = [rec EXCEPT ![h.t].status = Outcome(h)]
          /\ handlers' \subseteq handlers \cup {[h EXCEPT !.pc = "cleanup"]}
      BY <1>9 DEF FinishHandler, SetStatus, Advance
    <2>3. Outcome(h) # "none"
      BY DEF Outcome
    <2>4. \A u \in Transfers :
            \/ rec'[u].status = rec[u].status
            \/ u = h.t /\ rec'[u].status = Outcome(h)
      BY <1>1, <2>1, <2>2 DEF Records
    <2>5. [h EXCEPT !.pc = "cleanup"].t = h.t
      BY <1>1 DEF Handlers
    <2> QED
      BY <1>1, <1>2, <1>3, <1>4, <2>1, <2>2, <2>3, <2>4, <2>5
  <1>10. ASSUME NEW h \in handlers, DropStored(h) PROVE AttendedInv'
    BY <1>1, <1>2, <1>3, <1>4, <1>10 DEF DropStored
  <1> QED
    BY <1>6, <1>7, <1>8, <1>9, <1>10

\* A step of the source instance: the request it takes from the link is about no
\* lock that remains.
LEMMA AttendedRequestStep ==
  ASSUME AttendedInv, TypeOK',
         ExecDelete \/ RefuseDelete \/ ExecUnlock \/ SourceLinkLost \/ ControllerRestart
  PROVE  AttendedInv'
  <1> USE DEF vars, source, controller, network
  <1>0. /\ TypeOK /\ Unexported /\ GoneUnlocked /\ StoredExported
        /\ TriedRecorded /\ Answered /\ Attended
    BY DEF AttendedInv
  <1>1. /\ faults.count \in Nat /\ handlers \subseteq Handlers /\ alive \in BOOLEAN
        /\ NoLock \notin Transfers /\ srcLink \in Seq(Requests)
    BY <1>0, ConstantsAssumption DEF TypeOK, Faults
  <1>2. ASSUME NEW r, NEW pc, Answer(r, pc)
        PROVE  \A g \in handlers' : \E h \in handlers :
                 g.t = h.t /\ (g = h \/ h.t = r.t)
    <2>1. \A h \in handlers : [h EXCEPT !.pc = pc].t = h.t
      BY <1>1 DEF Handlers
    <2> QED
      BY <1>2, <2>1 DEF Answer
  <1>3. ASSUME srcLink # <<>>, srcLink' = Tail(srcLink)
        PROVE  \A u \in Transfers : u # Head(srcLink).t /\ Pending(u) => Pending(u)'
    <2>1. ASSUME NEW u \in Transfers, u # Head(srcLink).t, NEW i \in 1..Len(srcLink),
                 srcLink[i].t = u
          PROVE  Pending(u)'
      <3>1. /\ Len(srcLink') = Len(srcLink) - 1 /\ Len(srcLink) \in Nat
            /\ \A j \in 1..Len(srcLink') : srcLink'[j] = srcLink[j + 1]
            /\ Head(srcLink) = srcLink[1]
        BY <1>1, <1>3
      <3>2. i # 1 /\ i - 1 \in 1..Len(srcLink')
        BY <2>1, <3>1
      <3>3. srcLink'[i - 1] = srcLink[i]
        BY <3>1, <3>2
      <3> QED
        BY <2>1, <3>2, <3>3 DEF Pending
    <2> QED
      BY <2>1 DEF Pending
  <1>4. ASSUME UNCHANGED <<export, starting, stored, rec, tries, call>>,
               faults'.count \in Nat, faults'.count = 0 => faults.count = 0,
               ~alive' => lock' = NoLock,
               lock' \in Transfers => lock' = lock,
               faults'.count = 0 => \A u \in Transfers : lock' = u /\ Pending(u) => Pending(u)',
               \A g \in handlers' : \E h \in handlers :
                 g.t = h.t /\ (g = h \/ faults'.count # 0 \/ lock' # g.t)
        PROVE  AttendedInv'
    <2>1. Unexported'
      BY <1>0, <1>4 DEF Unexported
    <2>2. GoneUnlocked' /\ StoredExported' /\ TriedRecorded'
      BY <1>0, <1>4 DEF GoneUnlocked, StoredExported, TriedRecorded
    <2>3. Answered'
      BY <1>0, <1>1, <1>4 DEF Answered, Handlers
    <2>4. Attended'
      BY <1>0, <1>4 DEF Attended
    <2> QED
      BY <2>1, <2>2, <2>3, <2>4 DEF AttendedInv
  <1>5. CASE ExecDelete
    <2>1. PICK pc \in {"ok", "error"} : Answer(Head(srcLink), pc)
      BY <1>5 DEF ExecDelete
    <2>2. lock' = NoLock /\ (faults' = faults \/ faults'.count = faults.count + 1)
      BY <1>5 DEF ExecDelete, Fault, Faults
    <2>3. \A h \in handlers : h.t \in Transfers
      BY <1>1 DEF Handlers
    <2> QED
      BY <1>1, <1>2, <1>4, <1>5, <2>1, <2>2, <2>3 DEF ExecDelete
  <1>6. CASE RefuseDelete
    <2>1. /\ Answer(Head(srcLink), "error") /\ srcLink' = Tail(srcLink) /\ srcLink # <<>>
          /\ Head(srcLink) \in Requests
      BY <1>1, <1>6, HeadTailProperties DEF RefuseDelete
    <2>2. Head(srcLink).t \in Transfers /\ lock # Head(srcLink).t
      BY <1>0, <1>1, <1>6, <2>1 DEF RefuseDelete, MayDelete, GoneUnlocked, Requests
    <2> QED
      BY <1>0, <1>1, <1>2, <1>3, <1>4, <1>6, <2>1, <2>2 DEF RefuseDelete, GoneUnlocked
  <1>7. CASE ExecUnlock
    <2>1. lock' = NoLock
      BY <1>0, <1>1, <1>7 DEF ExecUnlock, ReleaseLock, GoneUnlocked
    <2>2. Answer(Head(srcLink), "ok")
      BY <1>7 DEF ExecUnlock
    <2>3. \A h \in handlers : h.t \in Transfers
      BY <1>1 DEF Handlers
    <2> QED
      BY <1>1, <1>2, <1>4, <1>7, <2>1, <2>2, <2>3 DEF ExecUnlock
  <1>8. CASE SourceLinkLost
    <2>1. \A h \in handlers : [h EXCEPT !.pc = "threw"].t = h.t
      BY <1>1 DEF Handlers
    <2>2. faults'.count = faults.count + 1
      BY <1>8 DEF SourceLinkLost, Fault, Faults
    <2>3. \A g \in handlers' : \E h \in handlers : g.t = h.t
      BY <1>8, <2>1 DEF SourceLinkLost
    <2> QED
      BY <1>0, <1>1, <1>4, <1>8, <2>2, <2>3 DEF SourceLinkLost, GoneUnlocked
  <1>9. CASE ControllerRestart
    <2>1. /\ faults'.count = faults.count + 1 /\ UNCHANGED <<alive, lock, export>>
          /\ handlers' = {} /\ stored' \subseteq stored
          /\ \A u \in Transfers : starting'[u] = "none" /\ rec'[u].status = "none"
          /\ \A u \in Transfers, a \in Attempts : call[u][a] = "none" => call'[u][a] = "none"
      BY <1>9 DEF ControllerRestart, Fault, Faults, NoRecord
    <2> QED
      BY <1>0, <1>1, <2>1
         DEF AttendedInv, Unexported, GoneUnlocked, StoredExported, TriedRecorded,
             Answered, Attended
  <1> QED
    BY <1>5, <1>6, <1>7, <1>8, <1>9

LEMMA AttendedInvStep == AttendedInv /\ [Next]_vars => AttendedInv'
  <1> SUFFICES ASSUME AttendedInv, [Next]_vars
               PROVE  AttendedInv'
    OBVIOUS
  <1>1. TypeOK'
    BY TypeStep DEF AttendedInv
  <1>2. CASE Next
    <2>1. ASSUME NEW t \in Transfers,
                 \/ \E via \in {"managed", "transfer"} : LockAndExport(t, via)
                 \/ PlainExport(t) \/ ExportStored(t) \/ CensusAbort(t) \/ ExportLost(t)
          PROVE  AttendedInv'
      BY <1>1, <2>1, AttendedGameStep
    <2>2. CASE LockExpires \/ AdminLock \/ AdminUnlock
      <3>1. CASE Transfers = {}
        BY <1>1, <2>2, <3>1
           DEF AttendedInv, Unexported, GoneUnlocked, StoredExported, TriedRecorded, Answered,
               Attended, TypeOK, Handlers, LockExpires, AdminLock, AdminUnlock, ReleaseLock,
               vars, source, controller, network
      <3>2. CASE Transfers # {}
        BY <1>1, <2>2, <3>2, AttendedGameStep
      <3> QED
        BY <3>1, <3>2
    <2>3. ASSUME NEW t \in Transfers,
                 \/ StartFirst(t) \/ AdmitRetry(t)
                 \/ WaitTimeout(t) \/ StartRefused(t) \/ AlreadyActive(t)
                 \/ \E a \in Attempts :
                      \/ StartRetry(t, a) \/ DestReceives(t, a) \/ Validate(t, a) \/ Reject(t, a)
                      \/ ImportAccepted(t, a) \/ ImportRefused(t, a)
                      \/ SendSessionLost(t, a) \/ SendFailed(t, a)
          PROVE  AttendedInv'
      BY <1>1, <2>3, AttendedStartStep
    <2>4. CASE \/ \E t \in Transfers, a \in Attempts : TimerFires(t, a)
               \/ \E v \in verdicts : ReceiveVerdict(v) \/ LoseVerdict(v)
               \/ \E h \in handlers : FinishHandler(h) \/ DropStored(h)
      BY <1>1, <2>4, AttendedVerdictStep
    <2>5. CASE ExecDelete \/ RefuseDelete \/ ExecUnlock \/ SourceLinkLost \/ ControllerRestart
      BY <1>1, <2>5, AttendedRequestStep
    <2> QED
      BY <1>2, <2>1, <2>2, <2>3, <2>4, <2>5 DEF Next
  <1>3. CASE UNCHANGED vars
    BY <1>1, <1>3
       DEF AttendedInv, Unexported, GoneUnlocked, StoredExported, TriedRecorded, Answered,
           Attended, Pending, vars, source, controller, network
  <1> QED
    BY <1>2, <1>3

\* Unless something failed, a transfer's lock is never left for the TTL to find:
\* while it is held, its export runs, its transfer starts or is under way, or the
\* request that releases it is on its way.
THEOREM LockIsAttended == Spec => []LockAttended
  <1>1. AttendedInv => LockAttended
    BY DEF AttendedInv, Attended, LockAttended, Pending
  <1> QED
    BY <1>1, AttendedInvInit, AttendedInvStep, PTL DEF Spec

-----------------------------------------------------------------------------
(* Gate B, as far as the code keeps it.  When one transfer is all that happens *)
(* to a platform, nobody starts it twice, and what goes wrong is only          *)
(* interrupted, an unlock is asked for only once its import can no longer      *)
(* succeed, and only the deadline may end the lock before that.  Every other   *)
(* disturbance of the model, and a second transfer, leads to a live copy       *)
(* beside an original that the transfer itself freed.                          *)

OneTransfer == \A t, u \in Transfers : t = u

\* The one attempt comes from the flow that exported the platform.
StartedOnce ==
  \A t \in Transfers :
    /\ tries[t] <= 1
    /\ tries[t] = 1 => starting[t] = "none" /\ export[t] = "done"
    /\ starting[t] # "none" => export[t] \notin {"none", "plain"}
    /\ starting[t] = "request" => export[t] = "done"
    /\ rec[t].status # "none" => tries[t] = 1
    /\ \A a \in Attempts : call[t][a] # "archiving"
    /\ \A h \in handlers : h.t = t => tries[t] = 1

\* The destination's answers and verdicts say what became of the import.
AnswersFaithful ==
  /\ \A t \in Transfers, a \in Attempts :
       /\ reply[t][a] = "fail" => import[t][a] = "dropped"
       /\ import[t][a] = "importing" => reply[t][a] = "ok"
  /\ \A v \in verdicts :
       /\ reply[v.t][v.a] = "ok"
       /\ import[v.t][v.a] \in IF v.kind = "success" THEN {"live"}
                               ELSE {"discarded", "orphan", "preserved"}

VerdictDue(t, a) == import[t][a] = "live" => [t |-> t, a |-> a, kind |-> "success"] \in verdicts

\* While the import request is awaited, the verdict has not been acted on.
Sending ==
  \A t \in Transfers, a \in Attempts : call[t][a] = "sending" =>
    /\ rec[t].attempt = a /\ rec[t].status = "transporting" /\ timers[t] = {}
    /\ \A h \in handlers : h.t # t
    /\ VerdictDue(t, a)

\* Nor while the timeout is armed.
Armed ==
  \A t \in Transfers : \A a \in timers[t] :
    /\ rec[t].timer = a /\ rec[t].status = "awaiting_validation" /\ call[t][a] = "done"
    /\ \A h \in handlers : h.t # t
    /\ VerdictDue(t, a)

\* The transfer has no live copy and will have none.
Over(t) ==
  /\ export[t] = "done" /\ (starting[t] = "none" \/ t \notin stored)
  /\ \A a \in Attempts : import[t][a] \notin {"sent", "importing", "live"}

UnlockLate(r) == r.op = "unlock" => Over(r.t)
UnlocksLate == \A i \in 1..Len(srcLink) : UnlockLate(srcLink[i])

UnlockedLate ==
  \A t \in Transfers : alive /\ lock # t =>
    export[t] \in {"none", "plain"} \/ Over(t) \/ t \in expired

OrderlyInv ==
  /\ TypeOK /\ StoredExported /\ UnsentIdle /\ StartedOnce /\ AnswersFaithful
  /\ Sending /\ Armed /\ UnlocksLate /\ UnlockedLate

LEMMA OrderlyInvInit == Init => OrderlyInv
  <1> SUFFICES ASSUME Init PROVE OrderlyInv
    OBVIOUS
  <1>1. TypeOK
    BY TypeInit
  <1>2. StoredExported /\ UnsentIdle /\ StartedOnce /\ AnswersFaithful
    BY DEF Init, StoredExported, UnsentIdle, StartedOnce, AnswersFaithful, NoRecord
  <1>3. Sending /\ Armed /\ UnlocksLate /\ UnlockedLate
    BY DEF Init, Sending, Armed, UnlocksLate, UnlockedLate
  <1> QED
    BY <1>1, <1>2, <1>3 DEF OrderlyInv

\* Of a transfer only one attempt is ever more than a number.
LEMMA OnlyAttempt ==
  ASSUME TypeOK, UnsentIdle, StartedOnce, NEW t \in Transfers, NEW a \in Attempts
  PROVE  /\ export[t] # "done" => call[t][a] = "none" /\ import[t][a] = "none"
         /\ tries[t] = 0 => call[t][a] = "none" /\ import[t][a] = "none"
         /\ call[t][a] # "none" =>
              /\ tries[t] = 1 /\ starting[t] = "none" /\ export[t] = "done"
              /\ \A b \in Attempts : b # a => call[t][b] = "none" /\ import[t][b] = "none"
  <1>1. tries[t] \in Nat
    BY DEF TypeOK
  <1> QED
    BY <1>1 DEF UnsentIdle, StartedOnce, Attempts

\* The requests on the link stay late as long as what is over stays over.
LEMMA UnlocksKept ==
  ASSUME TypeOK, UnlocksLate, \A u \in Transfers : Over(u) => Over(u)',
         \/ UNCHANGED srcLink
         \/ CutSourceLink
         \/ srcLink # <<>> /\ srcLink' = Tail(srcLink)
         \/ \E op, by : \E t \in Transfers :
              Request(op, t, by) /\ (op = "unlock" => Over(t)')
  PROVE  UnlocksLate'
  <1>1. srcLink \in Seq(Requests)
    BY DEF TypeOK
  <1>2. \A j \in 1..Len(srcLink) : srcLink[j].t \in Transfers /\ UnlockLate(srcLink[j])
    <2>1. \A j \in 1..Len(srcLink) : srcLink[j] \in Requests
      BY <1>1
    <2> QED
      BY <2>1 DEF UnlocksLate, Requests
  <1>3. ASSUME \A i \in 1..Len(srcLink') :
                 \/ \E j \in 1..Len(srcLink) : srcLink'[i] = srcLink[j]
                 \/ \E r : srcLink'[i] = r /\ (r.op = "unlock" => Over(r.t)')
        PROVE  UnlocksLate'
    <2>1. ASSUME NEW i \in 1..Len(srcLink'), NEW j \in 1..Len(srcLink), srcLink'[i] = srcLink[j]
          PROVE  UnlockLate(srcLink[i])'
      <3>1. srcLink[j].op = "unlock" => Over(srcLink[j].t)
        BY <1>2 DEF UnlockLate
      <3>2. PICK u \in Transfers : u = srcLink[j].t
        BY <1>2
      <3>3. srcLink[j].op = "unlock" => Over(u)'
        BY <3>1, <3>2
      <3>4. srcLink'[i].op = srcLink[j].op /\ srcLink'[i].t = u
        BY <2>1, <3>2
      <3> QED
        BY <3>3, <3>4 DEF UnlockLate, Over
    <2>2. ASSUME NEW i \in 1..Len(srcLink'), NEW r, srcLink'[i] = r, r.op = "unlock" => Over(r.t)'
          PROVE  UnlockLate(srcLink[i])'
      BY <2>2 DEF UnlockLate, Over
    <2> QED
      BY <1>3, <2>1, <2>2 DEF UnlocksLate
  <1>4. CASE UNCHANGED srcLink
    BY <1>3, <1>4
  <1>5. CASE CutSourceLink
    <2>1. PICK n \in 0..Len(srcLink) : srcLink' = SubSeq(srcLink, 1, n)
      BY <1>5 DEF CutSourceLink
    <2>2. Len(srcLink') = n /\ \A i \in 1..n : srcLink'[i] = srcLink[i]
      BY <1>1, <2>1
    <2> QED
      BY <1>1, <1>3, <2>2
  <1>6. CASE srcLink # <<>> /\ srcLink' = Tail(srcLink)
    <2>1. /\ Len(srcLink') = Len(srcLink) - 1
          /\ \A i \in 1..Len(srcLink') : srcLink'[i] = srcLink[i + 1]
      BY <1>1, <1>6
    <2> QED
      BY <1>1, <1>3, <2>1
  <1>7. ASSUME NEW op, NEW by, NEW t \in Transfers, Request(op, t, by), op = "unlock" => Over(t)'
        PROVE  UnlocksLate'
    <2> DEFINE r == [op |-> op, t |-> t, by |-> by]
    <2>1. srcLink' = Append(srcLink, r)
      BY <1>7 DEF Request
    <2>2. \A i \in 1..Len(srcLink') : srcLink'[i] = r \/ \E j \in 1..Len(srcLink) : srcLink'[i] = srcLink[j]
      BY <1>1, <2>1
    <2>3. r.op = op /\ r.t = t
      OBVIOUS
    <2>4. r.op = "unlock" => Over(r.t)'
      BY <1>7, <2>3 DEF Over
    <2> HIDE DEF r
    <2>5. \A i \in 1..Len(srcLink') :
            \/ \E j \in 1..Len(srcLink) : srcLink'[i] = srcLink[j]
            \/ \E q : srcLink'[i] = q /\ (q.op = "unlock" => Over(q.t)')
      BY <2>2, <2>4
    <2> QED
      BY <1>3, <2>5
  <1> QED
    BY <1>4, <1>5, <1>6, <1>7

LEMMA Undisturbed ==
  ASSUME Environment \subseteq Interruptions
  PROVE  /\ "timeout" \notin Environment
         /\ "admin" \notin Environment /\ "ctl" \notin Environment
         /\ "lost_answer" \notin Environment /\ "garbled_verdict" \notin Environment
         /\ "lost_verdict" \notin Environment /\ "stuck_delete" \notin Environment
  BY DEF Interruptions

\* A step of the game: what ends an export without a transfer ends it for good,
\* and the deadline that ends a lock leaves its mark.
LEMMA OrderlyGameStep ==
  ASSUME Environment \subseteq Interruptions, OneTransfer, OrderlyInv, TypeOK', UnsentIdle',
         NEW t \in Transfers,
         \/ \E via \in {"managed", "transfer"} : LockAndExport(t, via)
         \/ PlainExport(t) \/ ExportStored(t) \/ CensusAbort(t) \/ ExportLost(t)
         \/ LockExpires
  PROVE  OrderlyInv'
  <1> USE DEF vars, source, controller, network
  <1>0. /\ TypeOK /\ StoredExported /\ UnsentIdle /\ StartedOnce /\ AnswersFaithful
        /\ Sending /\ Armed /\ UnlocksLate /\ UnlockedLate
    BY DEF OrderlyInv
  <1>1. /\ export \in [Transfers -> {"none", "managed", "transfer", "plain", "done"}]
        /\ starting \in [Transfers -> {"none", "store", "request"}]
        /\ stored \subseteq Transfers /\ tries \in [Transfers -> 0..MaxAttempts]
        /\ \A u \in Transfers : u = t
    BY <1>0 DEF TypeOK, OneTransfer
  <1>2. export[t] # "done" =>
          /\ tries[t] = 0 /\ t \notin stored
          /\ \A a \in Attempts : call[t][a] = "none" /\ import[t][a] = "none"
    <2>1. export[t] # "done" => tries[t] = 0 /\ t \notin stored
      BY <1>0, <1>1 DEF StartedOnce, StoredExported
    <2> QED
      BY <1>0, <2>1, OnlyAttempt
  <1>3. ASSUME UNCHANGED <<rec, timers, tries, call, handlers, import, reply, verdicts, srcLink>>,
               export'[t] = export[t] \/ export[t] # "done",
               stored' \subseteq stored \cup {t},
               t \in stored' \ stored => export[t] # "done",
               t \in stored' => export'[t] = "done",
               tries[t] = 1 => starting'[t] = "none",
               starting'[t] # "none" => export'[t] \notin {"none", "plain"},
               starting'[t] = "request" => export'[t] = "done",
               export[t] = "done" /\ starting[t] = "none" => starting'[t] = "none",
               \/ alive' = alive /\ (alive' => lock' = t)
               \/ export'[t] \in {"none", "plain"}
               \/ Over(t)' \/ t \in expired'
        PROVE  OrderlyInv'
    <2>1. StoredExported' /\ AnswersFaithful' /\ Sending' /\ Armed'
      BY <1>0, <1>1, <1>3 DEF StoredExported, AnswersFaithful, Sending, Armed, VerdictDue
    <2>2. StartedOnce'
      BY <1>0, <1>1, <1>2, <1>3 DEF StartedOnce
    <2>3. \A u \in Transfers : Over(u) => Over(u)'
      BY <1>1, <1>3 DEF Over
    <2>4. UnlocksLate'
      BY <1>0, <1>3, <2>3, UnlocksKept
    <2>5. UnlockedLate'
      BY <1>1, <1>3 DEF UnlockedLate
    <2> QED
      BY <2>1, <2>2, <2>4, <2>5 DEF OrderlyInv
  <1>4. ASSUME NEW via \in {"managed", "transfer"}, LockAndExport(t, via) PROVE OrderlyInv'
    <2>1. export'[t] = via /\ lock' = t /\ alive' = alive /\ export[t] = "none" /\ UNCHANGED stored
      BY <1>1, <1>4 DEF LockAndExport
    <2>2. starting'[t] \in {"store", "none"} /\ tries[t] = 0 /\ t \notin stored
      BY <1>1, <1>2, <1>4, <2>1 DEF LockAndExport
    <2>3. UNCHANGED <<rec, timers, tries, call, handlers, import, reply, verdicts, srcLink>>
      BY <1>4 DEF LockAndExport
    <2> QED
      BY <1>3, <2>1, <2>2, <2>3
  <1>5. CASE PlainExport(t)
    <2>1. /\ export'[t] = "plain" /\ export[t] = "none"
          /\ UNCHANGED <<stored, starting, rec, timers, tries, call, handlers,
                         import, reply, verdicts, srcLink>>
      BY <1>1, <1>5 DEF PlainExport
    <2>2. starting[t] = "none" /\ t \notin stored
      BY <1>0, <1>2, <2>1 DEF StartedOnce
    <2> QED
      BY <1>3, <2>1, <2>2
  <1>6. ASSUME export[t] \notin {"none", "done"}, export' = [export EXCEPT ![t] = "done"],
               UNCHANGED <<rec, timers, tries, call, handlers, import, reply, verdicts, srcLink>>,
               stored' \subseteq stored \cup {t},
               expired \subseteq expired',
               \/ UNCHANGED <<alive, lock>> /\ export[t] # "plain"
               \/ UNCHANGED starting /\ (t \notin stored' \/ export[t] = "plain")
        PROVE  OrderlyInv'
    <2>1. export'[t] = "done" /\ export[t] # "done"
      BY <1>1, <1>6
    <2>2. export[t] = "plain" => starting[t] = "none"
      BY <1>0 DEF StartedOnce
    <2>3. tries[t] = 0 /\ \A a \in Attempts : import'[t][a] = "none"
      BY <1>2, <1>6, <2>1
    <2>4. CASE UNCHANGED <<alive, lock>> /\ export[t] # "plain"
      <3>1. alive => lock = t \/ Over(t) \/ t \in expired
        BY <1>0, <1>6, <2>4 DEF UnlockedLate
      <3>2. alive' => lock' = t \/ t \in expired'
        BY <1>6, <2>1, <2>4, <3>1 DEF Over
      <3> QED
        BY <1>1, <1>3, <1>6, <2>1, <2>3, <2>4, <3>2
    <2>5. CASE UNCHANGED starting /\ (t \notin stored' \/ export[t] = "plain")
      <3>1. Over(t)'
        BY <1>6, <2>1, <2>2, <2>3, <2>5 DEF Over
      <3> QED
        BY <1>1, <1>3, <1>6, <2>1, <2>2, <2>3, <2>5, <3>1
    <2> QED
      BY <1>6, <2>4, <2>5
  <1>7. CASE ExportStored(t)
    <2>1. /\ export[t] \notin {"none", "done"} /\ export' = [export EXCEPT ![t] = "done"]
          /\ UNCHANGED <<rec, timers, tries, call, handlers, import, reply, verdicts, srcLink>>
          /\ stored' \subseteq stored \cup {t} /\ UNCHANGED expired
      BY <1>7 DEF ExportStored, Store
    <2>2. export[t] = "plain" => UNCHANGED starting
      BY <1>7 DEF ExportStored
    <2>3. export[t] # "plain" => UNCHANGED <<alive, lock>>
      BY <1>7 DEF ExportStored
    <2> QED
      BY <1>6, <2>1, <2>2, <2>3
  <1>8. CASE CensusAbort(t) \/ ExportLost(t)
    <2>1. /\ export[t] \notin {"none", "done"} /\ export' = [export EXCEPT ![t] = "done"]
          /\ UNCHANGED <<expired, starting, stored, rec, timers, tries, call, handlers,
                         import, reply, verdicts, srcLink>>
      BY <1>8 DEF CensusAbort, ExportLost
    <2>2. t \notin stored'
      BY <1>2, <2>1
    <2> QED
      BY <1>1, <1>6, <2>1, <2>2
  <1>9. CASE LockExpires
    <2>1. lock \in Expirable /\ alive' = alive /\ expired' = expired \cup (Transfers \cap {lock})
          /\ UNCHANGED <<export, controller, network>>
      BY <1>9 DEF LockExpires
    <2>2. CASE lock = t
      <3>1. t \in expired'
        BY <2>1, <2>2
      <3>2. tries[t] = 1 => starting[t] = "none"
        BY <1>0 DEF StartedOnce
      <3> QED
        BY <1>0, <1>3, <2>1, <3>1, <3>2 DEF StoredExported, StartedOnce
    <2>3. CASE lock # t
      <3>1. alive /\ (export[t] \in {"none", "plain"} \/ Over(t) \/ t \in expired)
        BY <1>0, <1>9, <2>3 DEF UnlockedLate, LockExpires
      <3>2. export'[t] \in {"none", "plain"} \/ Over(t)' \/ t \in expired'
        BY <2>1, <3>1 DEF Over
      <3> QED
        BY <1>0, <1>3, <2>1, <3>2 DEF StoredExported, StartedOnce
    <2> QED
      BY <2>2, <2>3
  <1> QED
    BY <1>4, <1>5, <1>7, <1>8, <1>9

\* A step at the start of the transfer: its flow is refused before anything was
\* sent, or makes the one attempt.
LEMMA OrderlyStartStep ==
  ASSUME Environment \subseteq Interruptions, OneTransfer, OrderlyInv, TypeOK', UnsentIdle',
         NEW t \in Transfers,
         \/ StartFirst(t) \/ AdmitRetry(t)
         \/ WaitTimeout(t) \/ StartRefused(t) \/ AlreadyActive(t)
         \/ \E a \in Attempts : StartRetry(t, a)
  PROVE  OrderlyInv'
  <1> USE DEF vars, source, controller, network
  <1>0. /\ TypeOK /\ StoredExported /\ UnsentIdle /\ StartedOnce /\ AnswersFaithful
        /\ Sending /\ Armed /\ UnlocksLate /\ UnlockedLate
    BY DEF OrderlyInv
  <1>1. /\ starting \in [Transfers -> {"none", "store", "request"}]
        /\ rec \in [Transfers -> Records]
        /\ timers \in [Transfers -> SUBSET Attempts]
        /\ tries \in [Transfers -> 0..MaxAttempts]
        /\ call \in [Transfers -> [Attempts -> Calls]]
        /\ import \in [Transfers -> [Attempts -> Imports]]
        /\ \A u \in Transfers : u = t
        /\ \A v \in verdicts : v.t = t /\ v.a \in Attempts
    BY <1>0 DEF TypeOK, OneTransfer, Verdicts
  <1>2. /\ starting[t] # "none" => tries[t] # 1 /\ tries[t] = 0
        /\ tries[t] \in Nat /\ tries[t] <= 1
        /\ \A a \in Attempts : call[t][a] # "archiving"
        /\ tries[t] = 0 => \A a \in Attempts : call[t][a] = "none" /\ import[t][a] = "none"
    <2>1. tries[t] \in Nat /\ tries[t] <= 1
      BY <1>0, <1>1 DEF StartedOnce
    <2>2. tries[t] \in {0, 1}
      BY <2>1
    <2> QED
      BY <1>0, <2>1, <2>2, OnlyAttempt DEF StartedOnce
  <1>3. Caller(t) => starting[t] # "none" /\ starting' = [starting EXCEPT ![t] = "none"]
    BY Undisturbed DEF Caller
  <1>4. ASSUME starting[t] # "none", starting' = [starting EXCEPT ![t] = "none"],
               UNCHANGED <<source, stored, rec, timers, tries, call, handlers,
                           import, reply, verdicts>>,
               UNCHANGED srcLink \/ (Request("unlock", t, Rollback) /\ export[t] = "done")
        PROVE  OrderlyInv'
    <2>1. starting'[t] = "none"
      BY <1>1, <1>4
    <2>2. StoredExported' /\ AnswersFaithful' /\ Sending' /\ Armed'
      BY <1>0, <1>4 DEF StoredExported, AnswersFaithful, Sending, Armed, VerdictDue
    <2>3. StartedOnce'
      BY <1>0, <1>1, <1>4, <2>1 DEF StartedOnce
    <2>4. Over(t) => Over(t)'
      BY <1>4, <2>1 DEF Over
    <2>5. export[t] = "done" => Over(t)'
      BY <1>2, <1>4, <2>1 DEF Over
    <2>6. UnlocksLate'
      BY <1>0, <1>1, <1>4, <2>4, <2>5, UnlocksKept
    <2>7. UnlockedLate'
      BY <1>0, <1>1, <1>4, <2>4 DEF UnlockedLate
    <2> QED
      BY <2>2, <2>3, <2>6, <2>7 DEF OrderlyInv
  <1>5. CASE StartFirst(t)
    <2>1. /\ t \in stored /\ starting[t] # "none" /\ starting'[t] = "none" /\ tries'[t] = 1
          /\ 1 \in Attempts /\ SendImport(t, 1)
          /\ UNCHANGED <<source, stored, timers, handlers, reply, verdicts, srcLink>>
      BY <1>1, <1>3, <1>5, ConstantsAssumption DEF StartFirst, MayTry, Attempts
    <2>2. /\ tries[t] = 0 /\ export[t] = "done"
          /\ \A a \in Attempts : call[t][a] = "none" /\ import[t][a] = "none"
      BY <1>0, <1>2, <2>1 DEF StoredExported
    <2>3. /\ rec'[t].attempt = 1 /\ rec'[t].status = "transporting"
          /\ \A a \in Attempts :
               /\ call'[t][a] = IF a = 1 THEN "sending" ELSE "none"
               /\ import'[t][a] = IF a = 1 THEN "sent" ELSE "none"
      BY <1>1, <2>1, <2>2 DEF SendImport, NewRecord
    <2>4. /\ \A h \in handlers : h.t # t
          /\ verdicts = {}
          /\ \A a \in Attempts : reply[t][a] # "fail"
      BY <1>0, <1>1, <2>2 DEF StartedOnce, AnswersFaithful
    <2>5. timers[t] = {}
      <3>1. ASSUME NEW a \in timers[t] PROVE FALSE
        <4>1. a \in Attempts /\ call[t][a] = "done"
          BY <1>0, <1>1 DEF Armed
        <4> QED
          BY <2>2, <4>1
      <3> QED
        BY <3>1
    <2>6. ~Over(t)
      BY <2>1 DEF Over
    <2>7. StoredExported' /\ AnswersFaithful' /\ Armed'
      <3>1. \A b \in Attempts : reply'[t][b] # "fail" /\ import'[t][b] # "importing"
        BY <2>1, <2>3, <2>4
      <3> QED
        BY <1>0, <1>1, <2>1, <2>4, <2>5, <3>1 DEF StoredExported, AnswersFaithful, Armed
    <2>8. Sending'
      BY <1>1, <2>1, <2>3, <2>4, <2>5 DEF Sending, VerdictDue
    <2>9. StartedOnce'
      BY <1>1, <2>1, <2>2, <2>3, <2>4 DEF StartedOnce
    <2>10. UnlocksLate'
      BY <1>0, <1>1, <2>1, <2>6, UnlocksKept
    <2>11. UnlockedLate'
      BY <1>0, <1>1, <2>1, <2>2, <2>6 DEF UnlockedLate
    <2> QED
      BY <2>7, <2>8, <2>9, <2>10, <2>11 DEF OrderlyInv
  <1>6. CASE AdmitRetry(t)
    BY <1>2, <1>3, <1>6 DEF AdmitRetry
  <1>7. CASE WaitTimeout(t)
    BY <1>4, <1>7, Undisturbed DEF WaitTimeout
  <1>8. CASE StartRefused(t)
    <2>1. export[t] = "done"
      BY <1>0, <1>8 DEF StartRefused, StoredExported, StartedOnce
    <2> QED
      BY <1>4, <1>8, <2>1 DEF StartRefused
  <1>9. CASE AlreadyActive(t)
    BY <1>4, <1>9 DEF AlreadyActive
  <1>10. ASSUME NEW a \in Attempts, StartRetry(t, a) PROVE OrderlyInv'
    BY <1>2, <1>10 DEF StartRetry
  <1> QED
    BY <1>5, <1>6, <1>7, <1>8, <1>9, <1>10

\* A step of the import: whatever the controller learns of it is what became of it,
\* and the rollback of a refused request finds no import.
LEMMA OrderlyImportStep ==
  ASSUME Environment \subseteq Interruptions, OneTransfer, OrderlyInv, TypeOK', UnsentIdle',
         NEW t \in Transfers, NEW a \in Attempts,
         \/ DestReceives(t, a) \/ Validate(t, a) \/ Reject(t, a)
         \/ ImportAccepted(t, a) \/ ImportRefused(t, a)
         \/ SendSessionLost(t, a) \/ SendFailed(t, a)
  PROVE  OrderlyInv'
  <1> USE DEF vars, source, controller, network
  <1>0. /\ TypeOK /\ StoredExported /\ UnsentIdle /\ StartedOnce /\ AnswersFaithful
        /\ Sending /\ Armed /\ UnlocksLate /\ UnlockedLate
    BY DEF OrderlyInv
  <1>1. /\ rec \in [Transfers -> Records]
        /\ timers \in [Transfers -> SUBSET Attempts]
        /\ call \in [Transfers -> [Attempts -> Calls]]
        /\ import \in [Transfers -> [Attempts -> Imports]]
        /\ reply \in [Transfers -> [Attempts -> {"none", "ok", "fail"}]]
        /\ verdicts \subseteq Verdicts
        /\ \A u \in Transfers : u = t
        /\ \A v \in Verdicts : v.t \in Transfers /\ v.t = t /\ v.a \in Attempts
    BY <1>0 DEF TypeOK, OneTransfer, Verdicts
  <1>2. /\ call[t][a] # "none" /\ tries[t] = 1 /\ starting[t] = "none" /\ export[t] = "done"
        /\ \A b \in Attempts : b # a => call[t][b] = "none" /\ import[t][b] = "none"
    <2>1. call[t][a] # "none"
      BY <1>0 DEF UnsentIdle, DestReceives, Validate, Reject, ImportAccepted, ImportRefused,
                  SendSessionLost, SendFailed
    <2> QED
      BY <1>0, <2>1, OnlyAttempt
  <1>3. ASSUME UNCHANGED <<source, starting, stored, tries, handlers>>,
               \A b \in Attempts : call'[t][b] # "archiving",
               Over(t) => Over(t)',
               UNCHANGED srcLink \/ (Request("unlock", t, Rollback) /\ Over(t)')
        PROVE  StoredExported' /\ StartedOnce' /\ UnlocksLate' /\ UnlockedLate'
    <2>1. StoredExported' /\ StartedOnce'
      BY <1>0, <1>1, <1>2, <1>3 DEF StoredExported, StartedOnce
    <2>2. UnlocksLate'
      BY <1>0, <1>1, <1>3, UnlocksKept
    <2>3. UnlockedLate'
      BY <1>0, <1>1, <1>3 DEF UnlockedLate
    <2> QED
      BY <2>1, <2>2, <2>3
  <1>4. \A b \in Attempts : call[t][b] # "archiving"
    BY <1>0 DEF StartedOnce
  <1>5. ASSUME NEW s, import' = [import EXCEPT ![t][a] = s]
        PROVE  import'[t][a] = s /\ \A b \in Attempts : b # a => import'[t][b] = "none"
    BY <1>1, <1>2, <1>5
  <1>6. ASSUME EndCall(t, a)
        PROVE  /\ call'[t][a] = "done"
               /\ \A b \in Attempts : call'[t][b] \notin {"archiving", "sending"}
               /\ \A b \in Attempts : call'[t][b] = "done" \/ call'[t][b] = call[t][b]
    BY <1>1, <1>2, <1>6 DEF EndCall
  <1>7. CASE DestReceives(t, a)
    <2>1. /\ import[t][a] = "sent"
          /\ \/ import' = [import EXCEPT ![t][a] = "importing"] /\ reply' = [reply EXCEPT ![t][a] = "ok"]
             \/ import' = [import EXCEPT ![t][a] = "dropped"] /\ reply' = [reply EXCEPT ![t][a] = "fail"]
          /\ UNCHANGED <<source, controller, verdicts, srcLink>>
      BY <1>7, Undisturbed DEF DestReceives, Fault, Faults
    <2>2. /\ \/ import'[t][a] = "importing" /\ reply'[t][a] = "ok"
             \/ import'[t][a] = "dropped" /\ reply'[t][a] = "fail"
          /\ \A b \in Attempts : b # a => import'[t][b] = "none" /\ reply'[t][b] = reply[t][b]
      <3>1. \A r \in {"ok", "fail"} : reply' = [reply EXCEPT ![t][a] = r] =>
              reply'[t][a] = r /\ \A b \in Attempts : b # a => reply'[t][b] = reply[t][b]
        BY <1>1
      <3>2. \A b \in Attempts : b # a => import'[t][b] = "none" /\ reply'[t][b] = reply[t][b]
        BY <1>5, <2>1, <3>1
      <3> QED
        BY <1>5, <2>1, <3>1, <3>2
    <2>3. \A v \in verdicts : v.a # a
      BY <1>0, <1>1, <2>1 DEF AnswersFaithful
    <2>4. AnswersFaithful'
      BY <1>0, <1>1, <1>2, <2>1, <2>2, <2>3 DEF AnswersFaithful
    <2>5. \A b \in Attempts : VerdictDue(t, b)'
      BY <2>2 DEF VerdictDue
    <2>6. Sending' /\ Armed'
      BY <1>0, <1>1, <2>1, <2>5 DEF Sending, Armed
    <2>7. ~Over(t)
      BY <2>1 DEF Over
    <2> QED
      BY <1>3, <1>4, <2>1, <2>4, <2>6, <2>7 DEF OrderlyInv
  <1>8. CASE Validate(t, a) \/ Reject(t, a)
    <2>1. PICK s \in {"live", "discarded", "orphan", "preserved"}, k \in {"success"} \cup Failures :
            /\ import' = [import EXCEPT ![t][a] = s] /\ SendVerdict(t, a, k)
            /\ k = "success" <=> s = "live"
      BY <1>8, Undisturbed DEF Validate, Reject, Fault, Faults, Failures
    <2>2. /\ import[t][a] = "importing"
          /\ UNCHANGED <<source, controller, reply, srcLink>>
      BY <1>8 DEF Validate, Reject
    <2>3. import'[t][a] = s /\ \A b \in Attempts : b # a => import'[t][b] = "none"
      BY <1>5, <2>1
    <2>4. \A v \in verdicts : v.a # a
      BY <1>0, <1>1, <2>2 DEF AnswersFaithful
    <2>5. AnswersFaithful'
      <3>1. \A b \in Attempts : /\ reply'[t][b] = "fail" => import'[t][b] = "dropped"
                                /\ import'[t][b] # "importing"
        BY <1>0, <1>2, <2>2, <2>3 DEF AnswersFaithful
      <3>2. \A v \in verdicts' : v \in verdicts \/ v = [t |-> t, a |-> a, kind |-> k]
        BY <2>1 DEF SendVerdict
      <3>3. \A v \in verdicts : reply'[v.t][v.a] = "ok" /\ import'[v.t][v.a] = import[v.t][v.a]
        BY <1>0, <1>1, <1>2, <2>2, <2>3, <2>4 DEF AnswersFaithful
      <3>4. reply'[t][a] = "ok"
        BY <1>0, <2>2 DEF AnswersFaithful
      <3>5. \A v \in verdicts' :
              /\ reply'[v.t][v.a] = "ok"
              /\ import'[v.t][v.a] \in IF v.kind = "success" THEN {"live"}
                                       ELSE {"discarded", "orphan", "preserved"}
        BY <1>0, <2>1, <2>3, <3>2, <3>3, <3>4 DEF AnswersFaithful
      <3> QED
        BY <1>1, <3>1, <3>5 DEF AnswersFaithful
    <2>6. \A b \in Attempts : VerdictDue(t, b)'
      BY <2>1, <2>3 DEF VerdictDue, SendVerdict
    <2>7. Sending' /\ Armed'
      BY <1>0, <1>1, <2>2, <2>6 DEF Sending, Armed
    <2>8. ~Over(t)
      BY <2>2 DEF Over
    <2> QED
      BY <1>3, <1>4, <2>2, <2>5, <2>7, <2>8 DEF OrderlyInv
  <1>9. ASSUME EndCall(t, a), call[t][a] = "sending", EnterAwaiting(t, a),
               UNCHANGED <<source, starting, stored, tries, handlers, reply, verdicts, srcLink>>,
               \/ UNCHANGED import
               \/ import[t][a] = "sent" /\ import' = [import EXCEPT ![t][a] = "dropped"]
        PROVE  OrderlyInv'
    <2>1. /\ rec[t].attempt = a /\ timers[t] = {} /\ VerdictDue(t, a)
          /\ \A h \in handlers : h.t # t
      BY <1>0, <1>9 DEF Sending
    <2>2. /\ rec'[t].status = "awaiting_validation" /\ rec'[t].timer = a
          /\ timers'[t] = {a}
      BY <1>1, <1>9, <2>1 DEF EnterAwaiting, Records
    <2>3. \/ \A b \in Attempts : import'[t][b] = import[t][b]
          \/ /\ import[t][a] = "sent" /\ import'[t][a] = "dropped"
             /\ \A b \in Attempts : b # a => import'[t][b] = "none"
      BY <1>5, <1>9
    <2>4. AnswersFaithful'
      BY <1>0, <1>1, <1>2, <1>9, <2>3 DEF AnswersFaithful
    <2>5. VerdictDue(t, a)'
      BY <1>9, <2>1, <2>3 DEF VerdictDue
    <2>6. Sending' /\ Armed'
      BY <1>1, <1>6, <1>9, <2>1, <2>2, <2>5 DEF Sending, Armed
    <2>7. Over(t) => Over(t)'
      BY <1>9, <2>3 DEF Over
    <2> QED
      BY <1>3, <1>6, <1>9, <2>4, <2>6, <2>7 DEF OrderlyInv
  <1>10. CASE ImportAccepted(t, a)
    BY <1>9, <1>10 DEF ImportAccepted
  <1>11. CASE SendSessionLost(t, a)
    BY <1>9, <1>11 DEF SendSessionLost
  <1>12. ASSUME EndCall(t, a), call[t][a] = "sending", Request("unlock", t, Rollback),
                UNCHANGED <<source, starting, stored, timers, tries, handlers, reply, verdicts>>,
                \A b \in Attempts : import'[t][b] = IF b = a THEN "dropped" ELSE "none",
                import[t][a] \in {"sent", "dropped"}
         PROVE  OrderlyInv'
    <2>1. timers[t] = {}
      BY <1>0, <1>12 DEF Sending
    <2>2. AnswersFaithful'
      BY <1>0, <1>1, <1>2, <1>12 DEF AnswersFaithful
    <2>3. Sending' /\ Armed'
      BY <1>1, <1>6, <1>12, <2>1 DEF Sending, Armed
    <2>4. Over(t)'
      BY <1>2, <1>12 DEF Over
    <2> QED
      BY <1>3, <1>6, <1>12, <2>2, <2>3, <2>4 DEF OrderlyInv
  <1>13. CASE ImportRefused(t, a)
    <2>1. import[t][a] = "dropped"
      BY <1>0, <1>13 DEF ImportRefused, AnswersFaithful
    <2> QED
      BY <1>2, <1>12, <1>13, <2>1 DEF ImportRefused
  <1>14. CASE SendFailed(t, a)
    BY <1>5, <1>12, <1>14 DEF SendFailed
  <1> QED
    BY <1>7, <1>8, <1>10, <1>11, <1>13, <1>14

\* A verdict or a timeout: what asks for an unlock has seen the import fail, or
\* waited until nothing of it is left.
LEMMA OrderlyVerdictStep ==
  ASSUME Environment \subseteq Interruptions, OneTransfer, OrderlyInv, TypeOK', UnsentIdle',
         NEW t \in Transfers,
         \/ \E a \in Attempts : TimerFires(t, a)
         \/ \E v \in verdicts : ReceiveVerdict(v) \/ LoseVerdict(v)
         \/ \E h \in handlers : FinishHandler(h) \/ DropStored(h)
  PROVE  OrderlyInv'
  <1> USE DEF vars, source, controller, network
  <1>0. /\ TypeOK /\ StoredExported /\ UnsentIdle /\ StartedOnce /\ AnswersFaithful
        /\ Sending /\ Armed /\ UnlocksLate /\ UnlockedLate
    BY DEF OrderlyInv
  <1>1. /\ rec \in [Transfers -> Records]
        /\ timers \in [Transfers -> SUBSET Attempts]
        /\ handlers \subseteq Handlers
        /\ \A h \in handlers : h.t = t
        /\ \A u \in Transfers : u = t
        /\ \A v \in verdicts : v.t = t /\ v.a \in Attempts
    BY <1>0 DEF TypeOK, OneTransfer, Verdicts, Handlers
  <1>2. ASSUME UNCHANGED <<source, starting, tries, call, import, reply>>,
               stored' \subseteq stored, verdicts' \subseteq verdicts,
               rec'[t].status # "none" => tries[t] = 1,
               (\E h \in handlers' : h.t = t) => tries[t] = 1,
               \/ UNCHANGED srcLink
               \/ \E op, by : Request(op, t, by) /\ (op = "unlock" => Over(t)')
        PROVE  /\ StoredExported' /\ StartedOnce' /\ AnswersFaithful'
               /\ UnlocksLate' /\ UnlockedLate'
    <2>1. StoredExported' /\ StartedOnce' /\ AnswersFaithful'
      BY <1>0, <1>1, <1>2 DEF StoredExported, StartedOnce, AnswersFaithful
    <2>2. Over(t) => Over(t)'
      BY <1>2 DEF Over
    <2>3. UnlocksLate'
      BY <1>0, <1>1, <1>2, <2>2, UnlocksKept
    <2>4. UnlockedLate'
      BY <1>0, <1>1, <1>2, <2>2 DEF UnlockedLate
    <2> QED
      BY <2>1, <2>3, <2>4
  <1>3. ASSUME tries[t] = 1, NEW b \in Attempts, import[t][b] # "none",
               import[t][b] \notin {"sent", "importing", "live"},
               UNCHANGED <<source, starting, stored, import>>
        PROVE  Over(t)'
    <2>1. call[t][b] # "none"
      BY <1>0, <1>3 DEF UnsentIdle
    <2>2. starting[t] = "none" /\ export[t] = "done" /\ \A c \in Attempts : c # b => import[t][c] = "none"
      BY <1>0, <2>1, OnlyAttempt
    <2> QED
      BY <1>3, <2>2 DEF Over
  <1>4. ASSUME NEW a \in Attempts, NEW kind, NEW armed,
               StartHandler(t, a, kind, armed), rec[t].status = "awaiting_validation",
               armed \subseteq timers[t], verdicts' \subseteq verdicts,
               UNCHANGED <<source, starting, stored, tries, call, import, reply>>,
               kind # "success" => Over(t)'
        PROVE  OrderlyInv'
    <2>1. /\ tries[t] = 1 /\ timers'[t] = armed \ {rec[t].timer}
          /\ rec'[t].status = "awaiting_validation"
          /\ Request(IF kind = "success" THEN "delete" ELSE "unlock", t, <<rec[t].attempt, a, kind>>)
      BY <1>0, <1>1, <1>4 DEF StartHandler, StartedOnce, Records
    <2>2. timers'[t] = {}
      <3>1. \A b \in timers[t] : b = rec[t].timer
        BY <1>0 DEF Armed
      <3> QED
        BY <1>4, <2>1, <3>1
    <2>3. \A b \in Attempts : call[t][b] # "sending"
      BY <1>0, <1>4 DEF Sending
    <2>4. Armed' /\ Sending'
      BY <1>1, <1>4, <2>2, <2>3 DEF Armed, Sending
    <2> QED
      BY <1>2, <1>4, <2>1, <2>4 DEF OrderlyInv
  <1>5. ASSUME NEW a \in Attempts, TimerFires(t, a) PROVE OrderlyInv'
    <2>1. /\ a \in timers[t] /\ Quiet(t) /\ rec[t].status = "awaiting_validation"
          /\ call[t][a] = "done" /\ VerdictDue(t, a)
      BY <1>0, <1>5, Undisturbed DEF TimerFires, Armed
    <2>2. import[t][a] \notin {"sent", "importing", "live"}
      BY <2>1 DEF Quiet, VerdictDue
    <2>3. StartHandler(t, a, "timeout", timers[t] \ {a})
          /\ UNCHANGED <<source, starting, stored, tries, call, import, reply, verdicts>>
      BY <1>5, <2>1 DEF TimerFires
    <2>4. Over(t)'
      <3>1. tries[t] = 1 /\ starting[t] = "none" /\ export[t] = "done"
            /\ \A b \in Attempts : b # a => import[t][b] = "none"
        BY <1>0, <2>1, OnlyAttempt
      <3> QED
        BY <2>2, <2>3, <3>1 DEF Over
    <2> QED
      BY <1>4, <2>1, <2>3, <2>4
  <1>6. ASSUME NEW v \in verdicts, ReceiveVerdict(v) PROVE OrderlyInv'
    <2>1. /\ v.t = t /\ v.a \in Attempts /\ verdicts' = verdicts \ {v}
          /\ reply[t][v.a] = "ok" /\ call[t][v.a] # "sending"
          /\ import[t][v.a] \in IF v.kind = "success" THEN {"live"}
                                ELSE {"discarded", "orphan", "preserved"}
          /\ UNCHANGED <<source, starting, stored, tries, call, import, reply>>
      BY <1>0, <1>1, <1>6 DEF ReceiveVerdict, AnswersFaithful
    <2>2. CASE rec[t].status = "awaiting_validation"
      <3>1. StartHandler(t, v.a, v.kind, timers[t]) /\ tries[t] = 1
        BY <1>0, <1>6, <2>1, <2>2 DEF ReceiveVerdict, StartedOnce
      <3>2. v.kind # "success" => Over(t)'
        BY <1>3, <2>1, <3>1
      <3> QED
        BY <1>4, <2>1, <2>2, <3>1, <3>2
    <2>3. CASE rec[t].status # "awaiting_validation"
      <3>1. AfterSettle(t, v.kind) /\ UNCHANGED <<timers, handlers, srcLink>>
        BY <1>6, <2>1, <2>3 DEF ReceiveVerdict
      <3>2. \/ rec' = rec
            \/ /\ rec[t].status = "failed"
               /\ \/ rec' = [rec EXCEPT ![t].status = "cleanup_failed"]
                  \/ rec' = [rec EXCEPT ![t].status = "cleanup_failed", ![t].preserved = FALSE]
                  \/ rec' = [rec EXCEPT ![t].preserved = TRUE]
        BY <3>1 DEF AfterSettle
      <3>3. rec' = rec \/ rec[t].status = "failed"
        BY <3>2
      <3>4. rec'[t].status # "none" => rec[t].status # "none"
        BY <1>1, <3>2 DEF Records
      <3>5. timers[t] = {}
        <4>1. ASSUME NEW b \in timers[t] PROVE FALSE
          BY <1>0, <2>3 DEF Armed
        <4> QED
          BY <4>1
      <3>6. Armed'
        BY <1>1, <3>1, <3>5 DEF Armed
      <3>7. \A b \in Attempts : call[t][b] = "sending" => b # v.a /\ rec' = rec
        BY <1>0, <2>1, <3>3 DEF Sending
      <3>8. Sending'
        <4>1. ASSUME NEW b \in Attempts, call[t][b] = "sending" PROVE VerdictDue(t, b)'
          BY <1>0, <2>1, <3>7, <4>1 DEF Sending, VerdictDue
        <4> QED
          BY <1>0, <1>1, <2>1, <3>1, <3>7, <4>1 DEF Sending
      <3> QED
        BY <1>0, <1>2, <2>1, <3>1, <3>4, <3>6, <3>8 DEF OrderlyInv, StartedOnce
    <2> QED
      BY <2>2, <2>3
  <1>7. ASSUME NEW v \in verdicts, LoseVerdict(v) PROVE OrderlyInv'
    BY <1>7, Undisturbed DEF LoseVerdict, Fault, Faults
  <1>8. ASSUME NEW h \in handlers, FinishHandler(h) \/ DropStored(h) PROVE OrderlyInv'
    <2>1. h.t = t /\ tries[t] = 1
      BY <1>0, <1>1 DEF StartedOnce
    <2>2. /\ UNCHANGED <<source, starting, timers, tries, call, import, reply, verdicts, srcLink>>
          /\ stored' \subseteq stored
      BY <1>8 DEF FinishHandler, DropStored
    <2>3. timers[t] = {}
      <3>1. ASSUME NEW b \in timers[t] PROVE FALSE
        BY <1>0, <2>1 DEF Armed
      <3> QED
        BY <3>1
    <2>4. \A b \in Attempts : call[t][b] # "sending"
      BY <1>0, <2>1 DEF Sending
    <2>5. Armed' /\ Sending'
      BY <1>1, <2>2, <2>3, <2>4 DEF Armed, Sending
    <2> QED
      BY <1>2, <2>1, <2>2, <2>5 DEF OrderlyInv
  <1> QED
    BY <1>5, <1>6, <1>7, <1>8

\* A step of the source instance, or a restart: an unlock it executes is late.
LEMMA OrderlyRequestStep ==
  ASSUME Environment \subseteq Interruptions, OneTransfer, OrderlyInv, TypeOK', UnsentIdle',
         NEW t \in Transfers,
         ExecDelete \/ RefuseDelete \/ ExecUnlock \/ SourceLinkLost \/ ControllerRestart
  PROVE  OrderlyInv'
  <1> USE DEF vars, source, controller, network
  <1>0. /\ TypeOK /\ StoredExported /\ UnsentIdle /\ StartedOnce /\ AnswersFaithful
        /\ Sending /\ Armed /\ UnlocksLate /\ UnlockedLate
    BY DEF OrderlyInv
  <1>1. /\ srcLink \in Seq(Requests) /\ handlers \subseteq Handlers
        /\ \A h \in handlers : h.t = t
        /\ \A u \in Transfers : u = t
    BY <1>0 DEF TypeOK, OneTransfer, Handlers
  <1>2. ASSUME NEW r, NEW pc, Answer(r, pc)
        PROVE  handlers # {} \/ handlers' = {}
    BY <1>2 DEF Answer
  <1>3. ASSUME UNCHANGED <<export, starting, stored, rec, timers, tries, call,
                           import, reply, verdicts>>,
               handlers # {} \/ handlers' = {},
               CutSourceLink \/ (srcLink # <<>> /\ srcLink' = Tail(srcLink)),
               UNCHANGED <<alive, lock>> \/ alive' = FALSE \/ Over(t), UNCHANGED expired
        PROVE  OrderlyInv'
    <2>1. StoredExported' /\ AnswersFaithful'
      BY <1>0, <1>3 DEF StoredExported, AnswersFaithful
    <2>2. (\E h \in handlers' : h.t = t) => \E h \in handlers : h.t = t
      BY <1>1, <1>3
    <2>3. StartedOnce'
      BY <1>0, <1>1, <1>3, <2>2 DEF StartedOnce
    <2>4. Sending' /\ Armed'
      <3>1. \A a \in Attempts : VerdictDue(t, a) => VerdictDue(t, a)'
        BY <1>3 DEF VerdictDue
      <3>2. (\A h \in handlers : h.t # t) => handlers' = {}
        BY <1>1, <1>3
      <3>3. timers[t] \subseteq Attempts
        BY <1>0 DEF TypeOK
      <3> QED
        BY <1>0, <1>1, <1>3, <3>1, <3>2, <3>3 DEF Sending, Armed
    <2>5. Over(t) => Over(t)'
      BY <1>3 DEF Over
    <2>6. UnlocksLate'
      BY <1>0, <1>1, <1>3, <2>5, UnlocksKept
    <2>7. UnlockedLate'
      BY <1>0, <1>1, <1>3, <2>5 DEF UnlockedLate
    <2> QED
      BY <2>1, <2>3, <2>4, <2>6, <2>7 DEF OrderlyInv
  <1>4. CASE ExecDelete
    <2>1. alive' = FALSE
      BY <1>4, Undisturbed DEF ExecDelete, Fault, Faults
    <2>2. handlers # {} \/ handlers' = {}
      BY <1>2, <1>4 DEF ExecDelete
    <2> QED
      BY <1>3, <1>4, <2>1, <2>2 DEF ExecDelete
  <1>5. CASE RefuseDelete
    BY <1>2, <1>3, <1>5 DEF RefuseDelete
  <1>6. CASE ExecUnlock
    <2>1. Head(srcLink) = srcLink[1] /\ 1 \in 1..Len(srcLink) /\ srcLink[1] \in Requests
      BY <1>1, <1>6 DEF ExecUnlock
    <2>2. Over(t)
      BY <1>0, <1>1, <1>6, <2>1 DEF ExecUnlock, UnlocksLate, UnlockLate, Requests
    <2>3. handlers # {} \/ handlers' = {}
      BY <1>2, <1>6 DEF ExecUnlock
    <2> QED
      BY <1>3, <1>6, <2>2, <2>3 DEF ExecUnlock
  <1>7. CASE SourceLinkLost
    <2>1. handlers # {} \/ handlers' = {}
      BY <1>7 DEF SourceLinkLost
    <2> QED
      BY <1>3, <1>7, <2>1 DEF SourceLinkLost
  <1>8. CASE ControllerRestart
    <2>1. /\ UNCHANGED <<source, tries, import, reply, verdicts>> /\ CutSourceLink
          /\ handlers' = {} /\ stored' \subseteq stored
          /\ \A u \in Transfers : /\ starting'[u] = "none" /\ rec'[u].status = "none"
                                  /\ timers'[u] = {}
          /\ \A u \in Transfers, a \in Attempts : call'[u][a] \in {"none", "done"}
      BY <1>8 DEF ControllerRestart, NoRecord
    <2>2. StoredExported' /\ AnswersFaithful' /\ Sending' /\ Armed'
      BY <1>0, <2>1 DEF StoredExported, AnswersFaithful, Sending, Armed
    <2>3. StartedOnce'
      BY <1>0, <2>1 DEF StartedOnce
    <2>4. Over(t) => Over(t)'
      BY <2>1 DEF Over
    <2>5. UnlocksLate'
      BY <1>0, <1>1, <2>1, <2>4, UnlocksKept
    <2>6. UnlockedLate'
      BY <1>0, <1>1, <2>1, <2>4 DEF UnlockedLate
    <2> QED
      BY <2>2, <2>3, <2>5, <2>6 DEF OrderlyInv
  <1> QED
    BY <1>4, <1>5, <1>6, <1>7, <1>8

LEMMA OrderlyInvStep ==
  ASSUME Environment \subseteq Interruptions, OneTransfer, NEW t \in Transfers
  PROVE  OrderlyInv /\ [Next]_vars => OrderlyInv'
  <1> SUFFICES ASSUME OrderlyInv, [Next]_vars
               PROVE  OrderlyInv'
    OBVIOUS
  <1>1. TypeOK' /\ UnsentIdle'
    BY TypeStep, ImportStep DEF OrderlyInv
  <1>2. CASE Next
    <2>1. ASSUME NEW u \in Transfers,
                 \/ \E via \in {"managed", "transfer"} : LockAndExport(u, via)
                 \/ PlainExport(u) \/ ExportStored(u) \/ CensusAbort(u) \/ ExportLost(u)
          PROVE  OrderlyInv'
      BY <1>1, <2>1, OrderlyGameStep
    <2>2. CASE LockExpires
      BY <1>1, <2>2, OrderlyGameStep
    <2>3. CASE AdminLock \/ AdminUnlock
      BY <2>3, Undisturbed DEF AdminLock, AdminUnlock
    <2>4. ASSUME NEW u \in Transfers,
                 \/ StartFirst(u) \/ AdmitRetry(u)
                 \/ WaitTimeout(u) \/ StartRefused(u) \/ AlreadyActive(u)
                 \/ \E a \in Attempts : StartRetry(u, a)
          PROVE  OrderlyInv'
      BY <1>1, <2>4, OrderlyStartStep
    <2>5. ASSUME NEW u \in Transfers, NEW a \in Attempts,
                 \/ DestReceives(u, a) \/ Validate(u, a) \/ Reject(u, a)
                 \/ ImportAccepted(u, a) \/ ImportRefused(u, a)
                 \/ SendSessionLost(u, a) \/ SendFailed(u, a)
          PROVE  OrderlyInv'
      BY <1>1, <2>5, OrderlyImportStep
    <2>6. ASSUME NEW u \in Transfers, NEW a \in Attempts, TimerFires(u, a)
          PROVE  OrderlyInv'
      BY <1>1, <2>6, OrderlyVerdictStep
    <2>7. CASE \/ \E v \in verdicts : ReceiveVerdict(v) \/ LoseVerdict(v)
               \/ \E h \in handlers : FinishHandler(h) \/ DropStored(h)
      BY <1>1, <2>7, OrderlyVerdictStep
    <2>8. CASE ExecDelete \/ RefuseDelete \/ ExecUnlock \/ SourceLinkLost \/ ControllerRestart
      BY <1>1, <2>8, OrderlyRequestStep
    <2> QED
      BY <1>2, <2>1, <2>2, <2>3, <2>4, <2>5, <2>6, <2>7, <2>8 DEF Next
  <1>3. CASE UNCHANGED vars
    BY <1>1, <1>3
       DEF OrderlyInv, StoredExported, StartedOnce, AnswersFaithful, Sending, Armed, VerdictDue,
           UnlocksLate, UnlockLate, UnlockedLate, Over, vars, source, controller, network
  <1> QED
    BY <1>2, <1>3

\* Gate B: no copy is live beside an original that is not locked, unless the deadline
\* ended the lock of that very transfer; as long as one transfer is all that happens
\* to the platform and what goes wrong is only interrupted, however many attempts the
\* records would admit, and however often sessions are lost, the controller restarts
\* and locks reach their deadline.
THEOREM NeverBothLiveInOrder ==
  ASSUME Environment \subseteq Interruptions, OneTransfer
  PROVE  Spec => []NeverBothLive
  <1>1. CASE Transfers = {}
    <2>1. NeverBothLive
      BY <1>1 DEF NeverBothLive
    <2> QED
      BY <2>1, PTL
  <1>2. CASE Transfers # {}
    <2>1. PICK t \in Transfers : TRUE
      BY <1>2
    <2>2. OrderlyInv => NeverBothLive
      <3> SUFFICES ASSUME OrderlyInv, alive, lock = NoLock, NEW u \in Transfers
                   PROVE  CopyLive(u) => u \in expired
        BY DEF NeverBothLive
      <3>1. lock # u
        BY ConstantsAssumption
      <3>2. CASE export[u] \in {"none", "plain"}
        BY <3>2, OnlyAttempt DEF OrderlyInv, CopyLive
      <3>3. CASE Over(u)
        BY <3>3 DEF Over, CopyLive
      <3> QED
        BY <3>1, <3>2, <3>3 DEF OrderlyInv, UnlockedLate
    <2>3. OrderlyInv /\ [Next]_vars => OrderlyInv'
      BY <2>1, OrderlyInvStep
    <2> QED
      BY <2>2, <2>3, OrderlyInvInit, PTL DEF Spec
  <1> QED
    BY <1>1, <1>2
=============================================================================

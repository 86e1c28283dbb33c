---------------------------- MODULE ExportsProofs ----------------------------
(* Theorems of Exports: the mark of a managed export is set before the export   *)
(* is handled, so only the handler of its request sends it on, and answers as   *)
(* it went; and a locked export stays in the game's cache.                      *)
EXTENDS Exports, SequenceTheorems, FiniteSetTheorems, TLAPS

-----------------------------------------------------------------------------
(* Sequences *)

LEMMA Appended ==
  ASSUME NEW S, NEW s \in Seq(S), NEW e \in S, NEW s1, s1 = Append(s, e)
  PROVE  /\ s1 \in Seq(S) /\ Len(s1) = Len(s) + 1 /\ Len(s) \in Nat
         /\ DOMAIN s1 = 1..(Len(s) + 1) /\ DOMAIN s = 1..Len(s)
         /\ s1[Len(s) + 1] = e
         /\ \A n \in DOMAIN s : s1[n] = s[n]
  OBVIOUS

LEMMA TailOf ==
  ASSUME NEW S, NEW s \in Seq(S), NEW s1, s # <<>>, s1 = Tail(s)
  PROVE  /\ s1 \in Seq(S) /\ Len(s1) = Len(s) - 1 /\ Len(s) \in Nat /\ Len(s) >= 1
         /\ DOMAIN s1 = 1..(Len(s) - 1) /\ DOMAIN s = 1..Len(s)
         /\ Head(s) = s[1] /\ 1 \in DOMAIN s /\ Head(s) \in S
         /\ \A n \in DOMAIN s1 : n + 1 \in DOMAIN s /\ s1[n] = s[n + 1]
  OBVIOUS

LEMMA TwoAppended ==
  ASSUME NEW S, NEW s \in Seq(S), NEW e \in S, NEW f \in S, NEW s1, NEW c \in BOOLEAN,
         s1 = s \o <<e>> \o (IF c THEN <<f>> ELSE <<>>)
  PROVE  /\ s1 \in Seq(S) /\ Len(s) \in Nat
         /\ Len(s1) = Len(s) + (IF c THEN 2 ELSE 1)
         /\ DOMAIN s1 = 1..Len(s1) /\ DOMAIN s = 1..Len(s)
         /\ s1[Len(s) + 1] = e /\ (c => s1[Len(s) + 2] = f)
         /\ \A n \in DOMAIN s : s1[n] = s[n]
  <1>1. CASE c
    <2>1. Append(s, e) = s \o <<e>>
      BY AppendIsConcat, Zenon
    <2>2. s1 = Append(Append(s, e), f)
      <3>1. Append(s, e) \in Seq(S)
        BY AppendProperties, Zenon
      <3>2. Append(Append(s, e), f) = Append(s, e) \o <<f>>
        BY <3>1, AppendIsConcat, Zenon
      <3> QED
        BY <1>1, <2>1, <3>2, Zenon
    <2> QED
      BY <1>1, <2>2, Appended
  <1>2. CASE ~c
    <2>1. Append(s, e) = s \o <<e>>
      BY AppendIsConcat, Zenon
    <2>2. s1 = Append(s, e)
      <3>1. Append(s, e) \in Seq(S)
        BY AppendProperties, Zenon
      <3>2. Append(s, e) \o <<>> = Append(s, e)
        BY <3>1, ConcatEmptySeq, Zenon
      <3> QED
        BY <1>2, <2>1, <3>2, Zenon
    <2> QED
      BY <1>2, <2>2, Appended
  <1> QED
    BY <1>1, <1>2

\* The newest of a duplicate-free sequence are duplicate-free.
LEMMA NewestInjective ==
  ASSUME NEW S, NEW s \in Seq(S), IsInjective(s), NEW k \in Nat \ {0}, k <= Len(s),
         NEW s1, s1 = SubSeq(s, Len(s) - k + 1, Len(s))
  PROVE  /\ s1 \in Seq(S) /\ IsInjective(s1)
         /\ Range(s1) \subseteq Range(s)
  <1>1. Len(s) \in Nat /\ DOMAIN s = 1..Len(s) /\ Len(s) - k + 1 \in Int
    OBVIOUS
  <1>2. \A n \in Len(s) - k + 1..Len(s) : s[n] \in S
    BY <1>1
  <1>3. /\ s1 \in Seq(S) /\ Len(s1) = k
        /\ \A n \in 1..k : s1[n] = s[Len(s) - k + n]
    BY <1>1, <1>2, SubSeqProperties
  <1>4. DOMAIN s1 = 1..k /\ \A n \in 1..k : Len(s) - k + n \in DOMAIN s
    BY <1>1, <1>3
  <1>5. ASSUME NEW a \in 1..k, NEW b \in 1..k, s1[a] = s1[b] PROVE a = b
    <2>1. s[Len(s) - k + a] = s[Len(s) - k + b]
      BY <1>3, <1>5
    <2>2. Len(s) - k + a = Len(s) - k + b
      BY <1>4, <2>1 DEF IsInjective
    <2> QED
      BY <1>1, <2>2
  <1>6. Range(s1) \subseteq Range(s)
    BY <1>3, <1>4 DEF Range
  <1> QED
    BY <1>3, <1>4, <1>5, <1>6 DEF IsInjective
-----------------------------------------------------------------------------
(* The path of an export through the game and the instance.  It is in one      *)
(* place at a time: running in the game, announced, in a reply.                *)

InReplies(kind, j) == \E n \in DOMAIN replies : replies[n].kind = kind /\ replies[n].of = j
InLink(kind, j)    == \E n \in DOMAIN link : link[n].kind = kind /\ link[n].of = j

FetchedOnce ==
  \A j \in Jobs :
    /\ j \in notices => job[j] = "complete"
    /\ InReplies("fetched", j) => job[j] = "complete" /\ j \notin notices

OneFetched ==
  \A m, n \in DOMAIN replies :
    /\ replies[m].kind = "fetched" /\ replies[n].kind = "fetched"
    /\ replies[m].of = replies[n].of
    => m = n

\* The reply by which the instance learns that it is not to ask for the transfer of j.
Mark(j) == [kind |-> "exported", of |-> j, good |-> TRUE]

\* Unless an answer or the mark was lost, the mark of a managed export is set before the
\* export is handled, so that the instance does not ask for its transfer.
Marked ==
  \A j \in Managed \ orphans :
    /\ ~InLink("transfer", j)
    /\ job[j] = "running" \/ j \in notices =>
         j \in managed \/ \E m \in DOMAIN replies : replies[m] = Mark(j)
    /\ \A n \in DOMAIN replies : replies[n].kind = "fetched" /\ replies[n].of = j =>
         j \in managed \/ \E m \in 1..n : replies[m] = Mark(j)

\* Only its handler has sent it on then, and waits for the answer or has given it.
Answered ==
  \A j \in Managed \ orphans :
    /\ record[j] = "sending" => handler[j] = "sending"
    /\ j \in taken => handler[j] = "done" /\ told[j] # "failed"

ExportsInv ==
  TypeOK /\ FetchedOnce /\ OneFetched /\ Marked /\ Answered /\ LockedExportCached

LEMMA ExportsInvInit == Init => ExportsInv
  <1> SUFFICES ASSUME Init PROVE ExportsInv
    OBVIOUS
  <1>1. TypeOK
    BY ExportsAssumption DEF Init, TypeOK, IsInjective
  <1>2. \A k, j : ~InReplies(k, j) /\ ~InLink(k, j)
    BY DEF Init, InReplies, InLink
  <1>3. FetchedOnce /\ OneFetched
    BY <1>2 DEF Init, FetchedOnce, OneFetched
  <1>4. Marked /\ Answered /\ LockedExportCached
    BY <1>2, ExportsAssumption
       DEF Init, Marked, Answered, LockedExportCached, Jobs, Transfers
  <1> QED
    BY <1>1, <1>3, <1>4 DEF ExportsInv

LEMMA KindsOfJobs ==
  /\ Managed \subseteq Jobs /\ Transfers \subseteq Jobs /\ Downloads \subseteq Jobs
  /\ \A j \in Managed : j \notin Local /\ j \notin Downloads
  /\ \A j \in Jobs : j \in Downloads \/ j \in Managed \/ j \in Local
  BY ExportsAssumption DEF Jobs, Transfers

LEMMA FaultType ==
  ASSUME TypeOK, NEW kind, NEW b \in BOOLEAN, Fault(kind) \/ Online(b, kind)
  PROVE  faults' \in Nat
  BY DEF Fault, Online, TypeOK

\* A step that leaves the export's path through game and instance alone keeps what was said
\* of it.
LEMMA PathKept ==
  ASSUME ExportsInv, UNCHANGED <<notices, replies, managed, link, cache>>,
         \A i \in Jobs : job'[i] = job[i] \/ (job[i] = "running" /\ job'[i] = "aborted"),
         locked' \subseteq locked, orphans \subseteq orphans'
  PROVE  FetchedOnce' /\ OneFetched' /\ Marked' /\ LockedExportCached'
  <1>1. FetchedOnce /\ OneFetched /\ Marked /\ LockedExportCached
    BY DEF ExportsInv
  <1>2. \A k, i : InReplies(k, i)' = InReplies(k, i) /\ InLink(k, i)' = InLink(k, i)
    BY DEF InReplies, InLink
  <1>3. FetchedOnce' /\ OneFetched'
    BY <1>1, <1>2 DEF FetchedOnce, OneFetched
  <1>4. Marked'
    <2> SUFFICES ASSUME NEW i \in Managed, i \notin orphans'
                 PROVE  /\ ~InLink("transfer", i)
                        /\ job'[i] = "running" \/ i \in notices =>
                             i \in managed \/ \E m \in DOMAIN replies : replies[m] = Mark(i)
                        /\ \A n \in DOMAIN replies : replies[n].kind = "fetched" /\ replies[n].of = i =>
                             i \in managed \/ \E m \in 1..n : replies[m] = Mark(i)
      BY <1>2 DEF Marked, Mark
    <2>1. i \in Managed \ orphans /\ i \in Jobs
      BY KindsOfJobs
    <2>2. job'[i] = "running" => job[i] = "running"
      BY <2>1
    <2> QED
      BY <1>1, <2>1, <2>2 DEF Marked
  <1>5. LockedExportCached'
    BY <1>1 DEF LockedExportCached
  <1> QED
    BY <1>3, <1>4, <1>5

-----------------------------------------------------------------------------
(* The handlers of the controller *)

\* A handler of j that has not sent the export on may change it as it likes.
LEMMA OwnStep ==
  ASSUME ExportsInv, NEW j \in Jobs, UNCHANGED taken, orphans \subseteq orphans',
         \A i \in Jobs : i # j => handler'[i] = handler[i] /\ told'[i] = told[i]
                                  /\ record'[i] = record[i],
         j \in Managed \ orphans' => /\ record'[j] = "sending" => handler'[j] = "sending"
                                     /\ j \notin taken
  PROVE  Answered'
  <1>1. Answered
    BY DEF ExportsInv
  <1> SUFFICES ASSUME NEW i \in Managed, i \notin orphans'
               PROVE  /\ record'[i] = "sending" => handler'[i] = "sending"
                      /\ i \in taken => handler'[i] = "done" /\ told'[i] # "failed"
    BY DEF Answered
  <1>2. i \in Managed \ orphans /\ i \in Jobs
    BY KindsOfJobs
  <1>3. CASE i = j
    BY <1>3
  <1>4. CASE i # j
    BY <1>1, <1>2, <1>4 DEF Answered
  <1> QED
    BY <1>3, <1>4

LEMMA BesideStep ==
  ASSUME ExportsInv, faults' \in Nat, NEW j \in Jobs,
         Request(j) \/ CensusAbort(j) \/ Unlock(j) \/ TimedOut(j)
  PROVE  ExportsInv'
  <1> USE DEF vars, controller, world, instance, history
  <1>0. TypeOK /\ Answered
    BY DEF ExportsInv
  <1>1. /\ handler \in [Jobs -> {"idle", "asked", "waiting", "sending", "done"}]
        /\ told \in [Jobs -> {"nothing", "ok", "failed", "unknown"}]
        /\ job \in [Jobs -> {"none", "running", "complete", "aborted"}]
        /\ record \in [Jobs -> {"none", "sending", "stuck", "open", "failed", "closed"}]
    BY <1>0 DEF TypeOK
  <1>2. /\ UNCHANGED <<replies, link, store, notices, managed, cache, seq, record, history>>
        /\ locked' \subseteq locked
    BY DEF Request, CensusAbort, Unlock, TimedOut, Answer
  <1>3. /\ handler' \in [Jobs -> {"idle", "asked", "waiting", "sending", "done"}]
        /\ told' \in [Jobs -> {"nothing", "ok", "failed", "unknown"}]
        /\ job' \in [Jobs -> {"none", "running", "complete", "aborted"}]
        /\ \A i \in Jobs : job'[i] = job[i] \/ (job[i] = "running" /\ job'[i] = "aborted")
    BY <1>1 DEF Request, CensusAbort, Unlock, TimedOut, Answer
  <1>4. TypeOK'
    BY <1>0, <1>2, <1>3 DEF TypeOK, IsInjective
  <1>5. Answered'
    <2>1. CASE Request(j) \/ TimedOut(j)
      <3>1. /\ handler[j] \in {"idle", "waiting"}
            /\ \A i \in Jobs : i # j => handler'[i] = handler[i] /\ told'[i] = told[i]
        BY <1>1, <2>1 DEF Request, TimedOut, Answer
      <3>2. j \in Managed \ orphans' => record'[j] # "sending" /\ j \notin taken
        BY <1>0, <1>2, <3>1 DEF Answered
      <3> QED
        BY <1>2, <3>1, <3>2, OwnStep
    <2>2. CASE CensusAbort(j) \/ Unlock(j)
      <3>1. UNCHANGED <<handler, told>>
        BY <2>2 DEF CensusAbort, Unlock
      <3> QED
        BY <1>0, <1>2, <3>1 DEF Answered
    <2> QED
      BY <2>1, <2>2
  <1>6. FetchedOnce' /\ OneFetched' /\ Marked' /\ LockedExportCached'
    BY <1>2, <1>3, PathKept
  <1> QED
    BY <1>4, <1>5, <1>6 DEF ExportsInv

\* What transferPlatform does with the record and the lock.
LEMMA SentOn ==
  ASSUME TypeOK, NEW j \in Jobs, NEW verdict \in {"refused", "active", "sent"},
         TransferPlatform(j, verdict)
  PROVE  /\ record' \in [Jobs -> {"none", "sending", "stuck", "open", "failed", "closed"}]
         /\ \A i \in Jobs : i # j => record'[i] = record[i]
         /\ verdict = "sent" \/ record'[j] = record[j]
         /\ locked' \subseteq locked
  BY DEF TypeOK, TransferPlatform

LEMMA VerdictType ==
  ASSUME NEW j, NEW online \in BOOLEAN
  PROVE  Verdict(j, online) \in {"refused", "active", "sent"}
  BY DEF Verdict

\* The handler that waits for an export finds it in the store.
LEMMA FoundStep ==
  ASSUME ExportsInv, NEW j \in Jobs, NEW online \in BOOLEAN, Found(j, online), faults' \in Nat
  PROVE  ExportsInv'
  <1> USE DEF vars, controller, world, instance, history
  <1>0. TypeOK /\ Answered
    BY DEF ExportsInv
  <1>1. /\ handler \in [Jobs -> {"idle", "asked", "waiting", "sending", "done"}]
        /\ told \in [Jobs -> {"nothing", "ok", "failed", "unknown"}]
        /\ record \in [Jobs -> {"none", "sending", "stuck", "open", "failed", "closed"}]
    BY <1>0 DEF TypeOK
  <1>2. PICK verdict \in {"refused", "active", "sent"} : verdict = Verdict(j, online)
    BY VerdictType
  <1>3. /\ UNCHANGED <<store, job, cache, seq, instance, link, history>>
        /\ handler[j] = "waiting"
    BY DEF Found
  <1>4. j \in Managed \ orphans => record[j] # "sending" /\ j \notin taken
    BY <1>0, <1>3 DEF Answered
  <1>5. CASE j \in Downloads
    <2>1. Answer(j, "ok") /\ UNCHANGED <<record, locked>>
      BY <1>5 DEF Found
    <2>2. /\ handler' \in [Jobs -> {"idle", "asked", "waiting", "sending", "done"}]
          /\ told' \in [Jobs -> {"nothing", "ok", "failed", "unknown"}]
          /\ \A i \in Jobs : i # j => handler'[i] = handler[i] /\ told'[i] = told[i]
      BY <1>1, <2>1 DEF Answer
    <2>3. TypeOK'
      BY <1>0, <1>3, <2>1, <2>2 DEF TypeOK, IsInjective
    <2>4. Answered'
      BY <1>3, <1>4, <2>1, <2>2, OwnStep
    <2>5. FetchedOnce' /\ OneFetched' /\ Marked' /\ LockedExportCached'
      BY <1>3, <2>1, PathKept
    <2> QED
      BY <2>3, <2>4, <2>5 DEF ExportsInv
  <1>6. CASE j \notin Downloads
    <2>1. TransferPlatform(j, verdict)
      BY <1>2, <1>6 DEF Found
    <2>2. \/ /\ verdict = "sent" /\ UNCHANGED told
             /\ handler' = [handler EXCEPT ![j] = "sending"]
          \/ verdict = "active" /\ Answer(j, "ok")
          \/ verdict = "refused" /\ Answer(j, "failed")
      BY <1>2, <1>6 DEF Found
    <2>3. /\ record' \in [Jobs -> {"none", "sending", "stuck", "open", "failed", "closed"}]
          /\ \A i \in Jobs : i # j => record'[i] = record[i]
          /\ verdict = "sent" \/ record'[j] = record[j]
          /\ locked' \subseteq locked
      BY <1>0, <2>1, SentOn
    <2>4. /\ handler' \in [Jobs -> {"idle", "asked", "waiting", "sending", "done"}]
          /\ told' \in [Jobs -> {"nothing", "ok", "failed", "unknown"}]
          /\ \A i \in Jobs : i # j => handler'[i] = handler[i] /\ told'[i] = told[i]
          /\ verdict = "sent" => handler'[j] = "sending"
      BY <1>1, <2>2 DEF Answer
    <2>5. TypeOK'
      BY <1>0, <1>3, <2>3, <2>4 DEF TypeOK, IsInjective
    <2>6. Answered'
      <3>1. j \in Managed \ orphans => /\ record'[j] = "sending" => handler'[j] = "sending"
                                       /\ j \notin taken
        BY <1>4, <2>3, <2>4
      <3> QED
        BY <1>3, <2>3, <2>4, <3>1, OwnStep
    <2>7. FetchedOnce' /\ OneFetched' /\ Marked' /\ LockedExportCached'
      BY <1>3, <2>3, PathKept
    <2> QED
      BY <2>5, <2>6, <2>7 DEF ExportsInv
  <1> QED
    BY <1>5, <1>6

\* Somebody sends a stored export again; it no longer counts.
LEMMA ResendStep ==
  ASSUME ExportsInv, NEW j \in Jobs, Resend(j)
  PROVE  ExportsInv'
  <1> USE DEF vars, controller, world, instance, history
  <1>0. TypeOK
    BY DEF ExportsInv
  <1>1. PICK verdict \in {"refused", "active", "sent"} : verdict = Verdict(j, TRUE)
    BY VerdictType
  <1>2. /\ UNCHANGED <<handler, told, store, job, cache, seq, instance, link, taken>>
        /\ orphans' = orphans \cup {j} /\ TransferPlatform(j, verdict)
    BY <1>1 DEF Resend
  <1>3. /\ record' \in [Jobs -> {"none", "sending", "stuck", "open", "failed", "closed"}]
        /\ \A i \in Jobs : i # j => record'[i] = record[i]
        /\ locked' \subseteq locked
    BY <1>0, <1>2, SentOn
  <1>4. faults' \in Nat
    BY <1>0, FaultType DEF Resend
  <1>5. TypeOK'
    BY <1>0, <1>2, <1>3, <1>4 DEF TypeOK, IsInjective
  <1>6. Answered'
    BY <1>2, <1>3, OwnStep
  <1>7. FetchedOnce' /\ OneFetched' /\ Marked' /\ LockedExportCached'
    BY <1>2, <1>3, PathKept
  <1> QED
    BY <1>5, <1>6, <1>7 DEF ExportsInv

\* What a handler that waits for the destination makes of its answer.
LEMMA EndedProperties ==
  ASSUME TypeOK, NEW j \in Jobs, NEW what \in {"ok", "failed"}, Ended(j, what)
  PROVE  /\ handler' \in [Jobs -> {"idle", "asked", "waiting", "sending", "done"}]
         /\ told' \in [Jobs -> {"nothing", "ok", "failed", "unknown"}]
         /\ \A i \in Jobs : i # j => handler'[i] = handler[i] /\ told'[i] = told[i]
         /\ handler[j] = "sending" => handler'[j] = "done" /\ told'[j] = what
  BY DEF TypeOK, Ended, Answer

\* The destination answers, or does not.
LEMMA ImportStep ==
  ASSUME ExportsInv, faults' \in Nat, NEW j \in Jobs, NEW b \in BOOLEAN,
         \/ ImportAccepted(j) \/ ImportRefused(j, b) \/ SessionLost(j, b) \/ SendFailed(j)
  PROVE  ExportsInv'
  <1> USE DEF vars, controller, world, instance, history
  <1>0. TypeOK /\ Answered
    BY DEF ExportsInv
  <1>1. /\ record \in [Jobs -> {"none", "sending", "stuck", "open", "failed", "closed"}]
        /\ taken \subseteq Jobs /\ orphans \subseteq Jobs
    BY <1>0 DEF TypeOK
  <1>2. /\ UNCHANGED <<store, job, cache, seq, instance, link>>
        /\ record[j] = "sending" /\ locked' \subseteq locked
        /\ taken' \subseteq taken \cup {j} /\ orphans' \subseteq orphans \cup {j}
        /\ orphans \subseteq orphans' /\ taken \subseteq taken'
    BY DEF ImportAccepted, ImportRefused, SessionLost, SendFailed
  <1>3. PICK what \in {"ok", "failed"} :
          /\ Ended(j, what)
          /\ what = "failed" /\ j \in taken' /\ j \notin taken => j \in orphans'
    BY DEF ImportAccepted, ImportRefused, SessionLost, SendFailed
  <1>4. /\ record' \in [Jobs -> {"none", "sending", "stuck", "open", "failed", "closed"}]
        /\ record'[j] # "sending" /\ \A i \in Jobs : i # j => record'[i] = record[i]
    BY <1>1 DEF ImportAccepted, ImportRefused, SessionLost, SendFailed
  <1>5. /\ handler' \in [Jobs -> {"idle", "asked", "waiting", "sending", "done"}]
        /\ told' \in [Jobs -> {"nothing", "ok", "failed", "unknown"}]
        /\ \A i \in Jobs : i # j => handler'[i] = handler[i] /\ told'[i] = told[i]
        /\ handler[j] = "sending" => handler'[j] = "done" /\ told'[j] = what
    BY <1>0, <1>3, EndedProperties
  <1>6. TypeOK'
    BY <1>0, <1>1, <1>2, <1>4, <1>5 DEF TypeOK, IsInjective
  <1>7. Answered'
    <2> SUFFICES ASSUME NEW i \in Managed, i \notin orphans'
                 PROVE  /\ record'[i] = "sending" => handler'[i] = "sending"
                        /\ i \in taken' => handler'[i] = "done" /\ told'[i] # "failed"
      BY DEF Answered
    <2>1. i \in Managed \ orphans /\ i \in Jobs
      BY <1>2, KindsOfJobs
    <2>2. CASE i = j
      <3>1. handler[j] = "sending" /\ j \notin taken
        BY <1>0, <1>2, <2>1, <2>2 DEF Answered
      <3> QED
        BY <1>3, <1>4, <1>5, <2>2, <3>1
    <2>3. CASE i # j
      BY <1>0, <1>2, <1>4, <1>5, <2>1, <2>3 DEF Answered
    <2> QED
      BY <2>2, <2>3
  <1>8. FetchedOnce' /\ OneFetched' /\ Marked' /\ LockedExportCached'
    BY <1>2, PathKept
  <1> QED
    BY <1>6, <1>7, <1>8 DEF ExportsInv

LEMMA WithoutProperties ==
  ASSUME NEW s \in Seq(Jobs), IsInjective(s), NEW j \in Jobs
  PROVE  /\ Without(s, j) \in Seq(Jobs) /\ IsInjective(Without(s, j))
         /\ \A n \in DOMAIN Without(s, j) : Without(s, j)[n] # j
  <1>1. Len(s) \in Nat /\ DOMAIN s = 1..Len(s)
    OBVIOUS
  <1>2. CASE ~Contains(s, j)
    <2>1. Without(s, j) = s
      BY <1>2 DEF Without
    <2>2. \A n \in DOMAIN s : s[n] # j
      BY <1>1, <1>2 DEF Contains
    <2> QED
      BY <2>1, <2>2
  <1>3. CASE Contains(s, j)
    <2>1. PICK k \in 1..Len(s) : s[k] = j /\ Without(s, j) = RemoveAt(s, k)
      <3>1. PICK k : k = CHOOSE n \in 1..Len(s) : s[n] = j
        OBVIOUS
      <3>2. k \in 1..Len(s) /\ s[k] = j
        BY <1>3, <3>1 DEF Contains
      <3>3. Without(s, j) = RemoveAt(s, k)
        BY <1>3, <3>1 DEF Without
      <3> QED
        BY <3>2, <3>3
    <2>2. k \in Nat /\ Len(s) \in Nat /\ 1 <= k /\ k <= Len(s) /\ s[k] = j /\ DOMAIN s = 1..Len(s)
      BY <1>1, <2>1
    <2>3. PICK p : p = SubSeq(s, 1, k - 1)
      OBVIOUS
    <2>4. PICK q : q = SubSeq(s, k + 1, Len(s))
      OBVIOUS
    <2>5. /\ p \in Seq(Jobs) /\ Len(p) = k - 1
          /\ \A n \in 1..(k - 1) : p[n] = s[n]
      <3>1. \A n \in 1..(k - 1) : s[n] \in Jobs
        BY <1>1, <2>1
      <3> QED
        BY <1>1, <2>1, <2>3, <3>1
    <2>6. /\ q \in Seq(Jobs) /\ Len(q) = Len(s) - k
          /\ \A n \in 1..(Len(s) - k) : q[n] = s[k + n]
      <3>1. \A n \in (k + 1)..Len(s) : s[n] \in Jobs
        BY <1>1, <2>1
      <3>2. k + 1 \in Int /\ Len(s) \in Int
        BY <2>2
      <3>3. /\ SubSeq(s, k + 1, Len(s)) \in Seq(Jobs)
            /\ Len(SubSeq(s, k + 1, Len(s))) =
                 IF k + 1 <= Len(s) THEN Len(s) - (k + 1) + 1 ELSE 0
            /\ \A n \in 1..(Len(s) - (k + 1) + 1) :
                 SubSeq(s, k + 1, Len(s))[n] = s[k + 1 + n - 1]
        BY <3>1, <3>2, SubSeqProperties
      <3>4. /\ q \in Seq(Jobs)
            /\ Len(q) = IF k + 1 <= Len(s) THEN Len(s) - (k + 1) + 1 ELSE 0
            /\ \A n \in 1..(Len(s) - (k + 1) + 1) : q[n] = s[k + 1 + n - 1]
        BY <2>4, <3>3, Zenon
      <3>5. Len(q) = Len(s) - k
        <4>1. PICK m \in Nat : m = Len(s)
          BY <2>2
        <4>2. Len(q) = IF k + 1 <= m THEN m - (k + 1) + 1 ELSE 0
          BY <3>4, <4>1, Zenon
        <4>3. k \in Nat /\ k <= m
          BY <2>2, <4>1
        <4>4. (IF k + 1 <= m THEN m - (k + 1) + 1 ELSE 0) = m - k
          BY <4>3
        <4> QED
          BY <4>1, <4>2, <4>4
      <3>6. ASSUME NEW n \in 1..(Len(s) - k) PROVE q[n] = s[k + n]
        <4>1. n \in 1..(Len(s) - (k + 1) + 1) /\ k + 1 + n - 1 = k + n
          BY <2>2
        <4> QED
          BY <3>4, <4>1
      <3> QED
        BY <3>4, <3>5, <3>6
    <2>7. PICK t : t = p \o q
      OBVIOUS
    <2>8. t \in Seq(Jobs) /\ Len(t) = Len(s) - 1 /\ DOMAIN t = 1..(Len(s) - 1)
      <3>1. t \in Seq(Jobs) /\ Len(t) = Len(p) + Len(q)
        <4>1. p \o q \in Seq(Jobs) /\ Len(p \o q) = Len(p) + Len(q)
          BY <2>5, <2>6, ConcatProperties, Zenon
        <4> QED
          BY <2>7, <4>1, Zenon
      <3>2. Len(t) = Len(s) - 1
        BY <2>2, <2>5, <2>6, <3>1
      <3> QED
        BY <3>1, <3>2
    <2>9. /\ \A n \in DOMAIN t : n < k => t[n] = s[n]
          /\ \A n \in DOMAIN t : ~(n < k) => t[n] = s[n + 1]
      <3>1. ASSUME NEW n \in DOMAIN t, n < k PROVE t[n] = s[n]
        <4>1. n \in 1..(k - 1) /\ n \in 1..(Len(p) + Len(q)) /\ n <= Len(p)
          BY <2>2, <2>5, <2>6, <2>8, <3>1
        <4>2. t[n] = p[n]
          BY <2>5, <2>6, <2>7, <4>1, ConcatProperties
        <4> QED
          BY <2>5, <4>1, <4>2
      <3>2. ASSUME NEW n \in DOMAIN t, ~(n < k) PROVE t[n] = s[n + 1]
        <4>1. n \in 1..(Len(p) + Len(q)) /\ ~(n <= Len(p))
          BY <2>2, <2>5, <2>6, <2>8, <3>2
        <4>2. t[n] = q[n - Len(p)]
          BY <2>5, <2>6, <2>7, <4>1, ConcatProperties
        <4>3. n - Len(p) \in 1..(Len(s) - k) /\ k + (n - Len(p)) = n + 1
          BY <2>2, <2>5, <2>8, <3>2
        <4> QED
          BY <2>6, <4>2, <4>3
      <3> QED
        BY <3>1, <3>2
    <2>10. \A n \in DOMAIN t : \E m \in DOMAIN s :
             /\ m # k /\ t[n] = s[m]
             /\ n < k => m = n
             /\ ~(n < k) => m = n + 1
      <3> SUFFICES ASSUME NEW n \in DOMAIN t
                   PROVE  \E m \in DOMAIN s : /\ m # k /\ t[n] = s[m]
                                              /\ n < k => m = n
                                              /\ ~(n < k) => m = n + 1
        OBVIOUS
      <3>1. CASE n < k
        <4>1. n \in DOMAIN s /\ n # k /\ t[n] = s[n]
          BY <2>2, <2>8, <2>9, <3>1
        <4> QED
          BY <3>1, <4>1
      <3>2. CASE ~(n < k)
        <4>1. n + 1 \in DOMAIN s /\ n + 1 # k /\ t[n] = s[n + 1]
          BY <2>2, <2>8, <2>9, <3>2
        <4> QED
          BY <3>2, <4>1
      <3> QED
        BY <3>1, <3>2
    <2>12. \A n \in DOMAIN t : t[n] # j
      <3> SUFFICES ASSUME NEW n \in DOMAIN t, t[n] = j PROVE FALSE
        OBVIOUS
      <3>1. PICK m \in DOMAIN s : m # k /\ t[n] = s[m]
        BY <2>10
      <3>2. s[m] = s[k] /\ k \in DOMAIN s
        BY <1>1, <2>1, <3>1
      <3> QED
        BY <3>1, <3>2 DEF IsInjective
    <2>13. ASSUME NEW a \in DOMAIN t, NEW b \in DOMAIN t, t[a] = t[b] PROVE a = b
      <3>1. PICK c \in DOMAIN s : t[a] = s[c] /\ c # k /\ (a < k => c = a) /\ (~(a < k) => c = a + 1)
        BY <2>10
      <3>2. PICK d \in DOMAIN s : t[b] = s[d] /\ d # k /\ (b < k => d = b) /\ (~(b < k) => d = b + 1)
        BY <2>10
      <3>3. c = d
        BY <2>13, <3>1, <3>2 DEF IsInjective
      <3> QED
        BY <1>1, <2>1, <2>8, <3>1, <3>2, <3>3
    <2>11. Without(s, j) = t
      BY <2>1, <2>3, <2>4, <2>7 DEF RemoveAt
    <2> QED
      BY <2>8, <2>11, <2>12, <2>13 DEF IsInjective
  <1> QED
    BY <1>2, <1>3

LEMMA SettledStep ==
  ASSUME ExportsInv, NEW j \in Jobs, NEW how \in {"failed", "closed"}, Settled(j, how)
  PROVE  ExportsInv'
  <1> USE DEF vars, controller, world, instance, history
  <1>0. TypeOK /\ Answered
    BY DEF ExportsInv
  <1>1. /\ UNCHANGED <<handler, told, job, cache, seq, instance, link, faults, history>>
        /\ record' = [record EXCEPT ![j] = how] /\ locked' \subseteq locked
        /\ store' = store \/ store' = Without(store, j)
    BY DEF Settled
  <1>2. record' \in [Jobs -> {"none", "sending", "stuck", "open", "failed", "closed"}]
        /\ \A i \in Jobs : record'[i] = "sending" => record[i] = "sending"
    BY <1>0, <1>1 DEF TypeOK
  <1>3. store' \in Seq(Jobs) /\ IsInjective(store')
    BY <1>0, <1>1, WithoutProperties DEF TypeOK
  <1>4. TypeOK'
    BY <1>0, <1>1, <1>2, <1>3 DEF TypeOK, IsInjective
  <1>5. Answered'
    BY <1>0, <1>1, <1>2, KindsOfJobs DEF Answered
  <1>6. FetchedOnce' /\ OneFetched' /\ Marked' /\ LockedExportCached'
    BY <1>1, PathKept
  <1> QED
    BY <1>4, <1>5, <1>6 DEF ExportsInv

-----------------------------------------------------------------------------
(* The game *)

\* The game begins an export that no path knows yet.
LEMMA BeginStep ==
  ASSUME ExportsInv, faults' \in Nat, NEW j \in Jobs, NEW heard \in BOOLEAN,
         ExportPlatform(j, heard) \/ AskedInGame(j)
  PROVE  ExportsInv'
  <1> USE DEF vars, controller, world, instance, history
  <1>0. TypeOK /\ FetchedOnce /\ OneFetched /\ Marked /\ Answered /\ LockedExportCached
    BY DEF ExportsInv
  <1>1. /\ job \in [Jobs -> {"none", "running", "complete", "aborted"}]
        /\ replies \in Seq(Replies) /\ locked \subseteq Jobs /\ orphans \subseteq Jobs
    BY <1>0 DEF TypeOK
  <1>2. /\ UNCHANGED <<handler, told, link, store, notices, managed, cache, seq, record, taken>>
        /\ job[j] = "none" /\ job'[j] = "running" /\ \A i \in Jobs : i # j => job'[i] = job[i]
        /\ job' \in [Jobs -> {"none", "running", "complete", "aborted"}]
        /\ locked' = locked \cup {j}
    BY <1>1 DEF ExportPlatform, AskedInGame, Begin
  <1>3. \/ UNCHANGED <<replies, orphans>> /\ j \in Local
        \/ /\ replies' = Append(replies, [kind |-> "exported", of |-> j, good |-> heard])
           /\ orphans' = (IF heard THEN orphans ELSE orphans \cup {j})
           /\ handler[j] = "asked"
    BY DEF ExportPlatform, AskedInGame
  <1>4. /\ replies' \in Seq(Replies) /\ orphans' \subseteq Jobs /\ orphans \subseteq orphans'
        /\ \A n \in DOMAIN replies : n \in DOMAIN replies' /\ replies'[n] = replies[n]
        /\ \A n \in DOMAIN replies' :
             \/ n \in DOMAIN replies
             \/ replies'[n] = [kind |-> "exported", of |-> j, good |-> heard]
        /\ j \notin Local => Len(replies) + 1 \in DOMAIN replies'
                             /\ replies'[Len(replies) + 1]
                                  = [kind |-> "exported", of |-> j, good |-> heard]
        /\ j \in Managed \ orphans' => heard
    <2>1. CASE UNCHANGED <<replies, orphans>> /\ j \in Local
      BY <1>1, <2>1, KindsOfJobs
    <2>2. CASE /\ replies' = Append(replies, [kind |-> "exported", of |-> j, good |-> heard])
               /\ orphans' = (IF heard THEN orphans ELSE orphans \cup {j})
      <3>1. PICK e \in Replies : e = [kind |-> "exported", of |-> j, good |-> heard]
        BY DEF Replies
      <3>2. /\ replies' \in Seq(Replies) /\ DOMAIN replies' = 1..(Len(replies) + 1)
            /\ DOMAIN replies = 1..Len(replies) /\ Len(replies) \in Nat
            /\ replies'[Len(replies) + 1] = e
            /\ \A n \in DOMAIN replies : replies'[n] = replies[n]
        BY <1>1, <2>2, <3>1, Appended
      <3> QED
        BY <1>1, <2>2, <3>1, <3>2
    <2> QED
      BY <1>3, <2>1, <2>2
  <1>5. /\ \A i : InReplies("fetched", i)' <=> InReplies("fetched", i)
        /\ \A k, i : InLink(k, i)' <=> InLink(k, i)
    BY <1>2, <1>4 DEF InReplies, InLink
  <1>6. TypeOK'
    BY <1>0, <1>2, <1>4 DEF TypeOK, IsInjective
  <1>7. j \notin notices /\ ~InReplies("fetched", j)
    BY <1>0, <1>2 DEF FetchedOnce
  <1>8. FetchedOnce' /\ OneFetched'
    BY <1>0, <1>2, <1>4, <1>5, <1>7 DEF FetchedOnce, OneFetched
  <1>9. Answered'
    BY <1>0, <1>2, <1>4 DEF Answered
  <1>11. Marked'
    <2> SUFFICES ASSUME NEW i \in Managed, i \notin orphans'
                 PROVE  /\ ~InLink("transfer", i)'
                        /\ job'[i] = "running" \/ i \in notices =>
                             i \in managed \/ \E m \in DOMAIN replies' : replies'[m] = Mark(i)
                        /\ \A n \in DOMAIN replies' :
                             replies'[n].kind = "fetched" /\ replies'[n].of = i =>
                               i \in managed \/ \E m \in 1..n : replies'[m] = Mark(i)
      BY <1>2 DEF Marked, Mark
    <2>1. i \in Jobs /\ i \in Managed \ orphans /\ i \notin Local
      BY <1>4, KindsOfJobs
    <2>2. ~InLink("transfer", i)'
      BY <1>0, <1>5, <2>1 DEF Marked
    <2>3. job'[i] = "running" \/ i \in notices =>
            i \in managed \/ \E m \in DOMAIN replies' : replies'[m] = Mark(i)
      <3>1. CASE i = j
        BY <1>4, <2>1, <3>1 DEF Mark
      <3>2. CASE i # j
        BY <1>0, <1>2, <1>4, <2>1, <3>2 DEF Marked
      <3> QED
        BY <3>1, <3>2
    <2>4. ASSUME NEW n \in DOMAIN replies', replies'[n].kind = "fetched", replies'[n].of = i
          PROVE  i \in managed \/ \E m \in 1..n : replies'[m] = Mark(i)
      <3>1. n \in DOMAIN replies /\ replies'[n] = replies[n]
        BY <1>4, <2>4
      <3>2. i \in managed \/ \E m \in 1..n : replies[m] = Mark(i)
        BY <1>0, <2>1, <2>4, <3>1 DEF Marked
      <3>3. \A m \in 1..n : m \in DOMAIN replies
        BY <1>1, <3>1
      <3> QED
        BY <1>4, <3>2, <3>3
    <2> QED
      BY <2>2, <2>3, <2>4
  <1>12. LockedExportCached'
    BY <1>0, <1>2, <1>7 DEF LockedExportCached
  <1> QED
    BY <1>6, <1>8, <1>9, <1>11, <1>12 DEF ExportsInv

LEMMA PrunedKeeps ==
  ASSUME NEW c \in [Jobs -> Nat], NEW locks
  PROVE  /\ Pruned(c, locks) \in [Jobs -> Nat]
         /\ \A i \in Jobs : Pruned(c, locks)[i] = c[i] \/ Pruned(c, locks)[i] = 0
         /\ \A i \in Jobs : i \in locks => Pruned(c, locks)[i] = c[i]
         /\ \A i \in Jobs : Newer(c, i) = {} => Pruned(c, locks)[i] = c[i]
  <1>1. Cardinality({}) = 0 /\ 0 < Keep
    BY FS_EmptySet, ExportsAssumption
  <1> QED
    BY <1>1 DEF Pruned

\* The export that has just finished is the newest, and is kept.
LEMMA CompleteStep ==
  ASSUME ExportsInv, NEW j \in Jobs, Complete(j), faults' \in Nat
  PROVE  ExportsInv'
  <1> USE DEF vars, controller, world, instance, history
  <1>0. TypeOK /\ FetchedOnce /\ OneFetched /\ Marked /\ Answered /\ LockedExportCached
    BY DEF ExportsInv
  <1>1. /\ job \in [Jobs -> {"none", "running", "complete", "aborted"}]
        /\ cache \in [Jobs -> 0..seq] /\ seq \in Nat
        /\ \A a, b \in Jobs : cache[a] = cache[b] /\ cache[a] # 0 => a = b
    BY <1>0 DEF TypeOK
  <1> DEFINE c == [cache EXCEPT ![j] = seq + 1]
  <1>2. /\ c \in [Jobs -> 0..(seq + 1)] /\ c \in [Jobs -> Nat]
        /\ c[j] = seq + 1 /\ \A i \in Jobs : i # j => c[i] = cache[i]
    BY <1>1
  <1>3. Newer(c, j) = {}
    <2>1. ASSUME NEW i \in Newer(c, j) PROVE FALSE
      BY <1>2, <1>1 DEF Newer
    <2> QED
      BY <2>1
  <1> HIDE DEF c
  <1>4. PICK locks : /\ locks \subseteq locked /\ locked' = locks /\ cache' = Pruned(c, locks)
    BY DEF Complete, c
  <1>5. /\ cache' \in [Jobs -> Nat] /\ cache'[j] = seq + 1
        /\ \A i \in Jobs : i # j => cache'[i] = cache[i] \/ cache'[i] = 0
        /\ \A i \in Jobs : i # j /\ i \in locked' => cache'[i] = cache[i]
        /\ locked' \subseteq locked
    BY <1>2, <1>3, <1>4, PrunedKeeps
  <1>6. /\ UNCHANGED <<handler, told, replies, link, store, managed, history, record>>
        /\ job[j] = "running" /\ job'[j] = "complete" /\ \A i \in Jobs : i # j => job'[i] = job[i]
        /\ job' \in [Jobs -> {"none", "running", "complete", "aborted"}]
        /\ seq' = seq + 1 /\ notices' = notices \cup {j}
    BY <1>1 DEF Complete
  <1>7. /\ \A k, i : InReplies(k, i)' <=> InReplies(k, i)
        /\ \A k, i : InLink(k, i)' <=> InLink(k, i)
    BY <1>6 DEF InReplies, InLink
  <1>8. TypeOK'
    <2>1. cache' \in [Jobs -> 0..seq']
      BY <1>1, <1>5, <1>6
    <2>2. \A a, b \in Jobs : cache'[a] = cache'[b] /\ cache'[a] # 0 => a = b
      BY <1>1, <1>5
    <2>3. seq' \in Nat
      BY <1>1, <1>6
    <2> QED
      BY <1>0, <1>5, <1>6, <2>1, <2>2, <2>3 DEF TypeOK, IsInjective
  <1>9. j \notin notices /\ ~InReplies("fetched", j)
    BY <1>0, <1>6 DEF FetchedOnce
  <1>10. FetchedOnce' /\ OneFetched'
    BY <1>0, <1>6, <1>7, <1>9 DEF FetchedOnce, OneFetched
  <1>11. Answered'
    BY <1>0, <1>6 DEF Answered
  <1>13. Marked'
    BY <1>0, <1>6, <1>7, KindsOfJobs DEF Marked
  <1>14. LockedExportCached'
    BY <1>0, <1>1, <1>5, <1>6 DEF LockedExportCached, TypeOK
  <1> QED
    BY <1>8, <1>10, <1>11, <1>13, <1>14 DEF ExportsInv

LEMMA FetchStep ==
  ASSUME ExportsInv, NEW j \in Jobs, Fetch(j), faults' \in Nat
  PROVE  ExportsInv'
  <1> USE DEF vars, controller, world, instance, history
  <1>0. TypeOK /\ FetchedOnce /\ OneFetched /\ Marked /\ Answered /\ LockedExportCached
    BY DEF ExportsInv
  <1>1. replies \in Seq(Replies) /\ cache \in [Jobs -> 0..seq] /\ seq \in Nat
    BY <1>0 DEF TypeOK
  <1>2. PICK e \in Replies : e = [kind |-> "fetched", of |-> j, good |-> cache[j] > 0]
    <2>1. cache[j] \in Nat
      BY <1>1
    <2>2. [kind |-> "fetched", of |-> j, good |-> cache[j] > 0] \in Replies
      BY <2>1 DEF Replies
    <2> QED
      BY <2>2
  <1>3. /\ UNCHANGED <<controller, world, managed, link, history>>
        /\ j \in notices /\ notices' = notices \ {j} /\ replies' = Append(replies, e)
    BY <1>2 DEF Fetch
  <1>4. /\ replies' \in Seq(Replies) /\ DOMAIN replies' = 1..(Len(replies) + 1)
        /\ DOMAIN replies = 1..Len(replies) /\ Len(replies) \in Nat
        /\ replies'[Len(replies) + 1] = e
        /\ \A n \in DOMAIN replies : replies'[n] = replies[n]
    BY <1>1, <1>3, Appended
  <1>5. e.kind = "fetched" /\ e.of = j
    BY <1>2
  <1>6. /\ \A i : i # j => (InReplies("fetched", i)' <=> InReplies("fetched", i))
        /\ \A k, i : InLink(k, i)' <=> InLink(k, i)
    BY <1>3, <1>4, <1>5 DEF InReplies, InLink
  <1>7. job[j] = "complete" /\ ~InReplies("fetched", j)
    BY <1>0, <1>3 DEF FetchedOnce
  <1>8. TypeOK'
    BY <1>0, <1>3, <1>4 DEF TypeOK, IsInjective
  <1>9. FetchedOnce'
    BY <1>0, <1>3, <1>6, <1>7 DEF FetchedOnce
  <1>10. OneFetched'
    BY <1>0, <1>4, <1>5, <1>7 DEF OneFetched, InReplies
  <1>11. Answered'
    BY <1>0, <1>3 DEF Answered
  <1>12. Marked'
    <2> SUFFICES ASSUME NEW i \in Managed \ orphans
                 PROVE  /\ job[i] = "running" \/ i \in notices' =>
                             i \in managed \/ \E m \in DOMAIN replies' : replies'[m] = Mark(i)
                        /\ \A n \in DOMAIN replies' :
                             replies'[n].kind = "fetched" /\ replies'[n].of = i =>
                               i \in managed \/ \E m \in 1..n : replies'[m] = Mark(i)
      <3>1. UNCHANGED <<orphans, job, managed, link>>
        BY <1>3
      <3>2. \A i : InLink("transfer", i)' <=> InLink("transfer", i)
        BY <1>6
      <3> QED
        BY <1>0, <3>1, <3>2 DEF Marked, Mark
    <2>1. job[i] = "running" \/ i \in notices' =>
            i \in managed \/ \E m \in DOMAIN replies' : replies'[m] = Mark(i)
      BY <1>0, <1>3, <1>4 DEF Marked
    <2>2. ASSUME NEW n \in DOMAIN replies', replies'[n].kind = "fetched", replies'[n].of = i
          PROVE  i \in managed \/ \E m \in 1..n : replies'[m] = Mark(i)
      <3>1. CASE n \in DOMAIN replies
        <4>1. i \in managed \/ \E m \in 1..n : replies[m] = Mark(i)
          BY <1>0, <1>4, <2>2, <3>1 DEF Marked
        <4>2. \A m \in 1..n : m \in DOMAIN replies
          BY <1>4, <3>1
        <4> QED
          BY <1>4, <4>1, <4>2
      <3>2. CASE n = Len(replies) + 1
        <4>1. i = j
          BY <1>4, <1>5, <2>2, <3>2
        <4>2. i \in managed \/ \E m \in DOMAIN replies : replies[m] = Mark(i)
          BY <1>0, <1>3, <4>1 DEF Marked
        <4> QED
          BY <1>4, <3>2, <4>2
      <3> QED
        BY <1>4, <3>1, <3>2
    <2> QED
      BY <2>1, <2>2
  <1>13. LockedExportCached'
    BY <1>0, <1>3 DEF LockedExportCached
  <1> QED
    BY <1>8, <1>9, <1>10, <1>11, <1>12, <1>13 DEF ExportsInv

-----------------------------------------------------------------------------
(* The instance *)

\* The first reply is taken; the others move up.
LEMMA ReplyTaken ==
  ASSUME TypeOK, Reply, NEW r, r = Head(replies)
  PROVE  /\ replies' \in Seq(Replies) /\ r \in Replies /\ 1 \in DOMAIN replies /\ r = replies[1]
         /\ \A n \in DOMAIN replies' :
              n \in Nat \ {0} /\ n + 1 \in DOMAIN replies /\ replies'[n] = replies[n + 1]
         /\ \A n \in DOMAIN replies :
              n = 1 \/ (n - 1 \in DOMAIN replies' /\ replies'[n - 1] = replies[n])
         /\ \A k, i : InReplies(k, i)' => InReplies(k, i)
         /\ \A k, i : InReplies(k, i) => InReplies(k, i)' \/ (r.kind = k /\ r.of = i)
         /\ InReplies(r.kind, r.of)
  <1>1. replies \in Seq(Replies) /\ replies # <<>> /\ replies' = Tail(replies)
    BY DEF TypeOK, Reply
  <1>2. /\ replies' \in Seq(Replies) /\ Len(replies') = Len(replies) - 1
        /\ Len(replies) \in Nat /\ Len(replies) >= 1
        /\ DOMAIN replies' = 1..(Len(replies) - 1) /\ DOMAIN replies = 1..Len(replies)
        /\ Head(replies) = replies[1] /\ 1 \in DOMAIN replies /\ Head(replies) \in Replies
        /\ \A n \in DOMAIN replies' : n + 1 \in DOMAIN replies /\ replies'[n] = replies[n + 1]
    <2>1. PICK t : t = replies'
      OBVIOUS
    <2> QED
      BY <1>1, <2>1, TailOf
  <1>3. \A n \in DOMAIN replies :
          n = 1 \/ (n - 1 \in DOMAIN replies' /\ replies'[n - 1] = replies[n])
    <2> SUFFICES ASSUME NEW n \in DOMAIN replies, n # 1
                 PROVE  n - 1 \in DOMAIN replies' /\ replies'[n - 1] = replies[n]
      BY Zenon
    <2>1. PICK m : m = n - 1
      OBVIOUS
    <2>2. m + 1 = n /\ m \in DOMAIN replies'
      BY <1>2, <2>1
    <2>3. replies'[m] = replies[m + 1]
      BY <1>2, <2>2
    <2> QED
      BY <2>1, <2>2, <2>3
  <1>4. \A n \in DOMAIN replies' : n \in Nat \ {0}
    BY <1>2
  <1>5. \A k, i : InReplies(k, i)' => InReplies(k, i)
    BY <1>2 DEF InReplies
  <1>6. ASSUME NEW k, NEW i, InReplies(k, i) PROVE InReplies(k, i)' \/ (r.kind = k /\ r.of = i)
    <2>1. PICK n \in DOMAIN replies : replies[n].kind = k /\ replies[n].of = i
      BY <1>6 DEF InReplies
    <2>2. CASE n = 1
      BY <1>2, <2>1, <2>2
    <2>3. CASE n # 1
      <3>1. PICK m \in DOMAIN replies' : replies'[m] = replies[n]
        BY <1>3, <2>3
      <3>2. replies'[m].kind = k /\ replies'[m].of = i
        BY <2>1, <3>1
      <3> QED
        BY <3>2 DEF InReplies
    <2> QED
      BY <2>2, <2>3
  <1>7. InReplies(r.kind, r.of)
    BY <1>2 DEF InReplies
  <1> QED
    BY <1>2, <1>3, <1>4, <1>5, <1>6, <1>7

LEMMA ExportedStep ==
  ASSUME ExportsInv, Reply, NEW r, r = Head(replies), r.kind = "exported", Exported(r)
  PROVE  ExportsInv'
  <1> USE DEF vars, controller, world, instance, history
  <1>0. TypeOK /\ FetchedOnce /\ OneFetched /\ Marked /\ Answered /\ LockedExportCached
    BY DEF ExportsInv
  <1>1. link \in Seq(Messages) /\ managed \subseteq Managed
    BY <1>0 DEF TypeOK
  <1>2. /\ UNCHANGED <<controller, world, notices, faults, history>>
        /\ managed' = IF r.good /\ r.of \in Managed THEN managed \cup {r.of} ELSE managed
    BY DEF Reply, Exported
  <1>3. /\ replies' \in Seq(Replies) /\ r \in Replies /\ 1 \in DOMAIN replies /\ r = replies[1]
        /\ \A n \in DOMAIN replies' :
             n \in Nat \ {0} /\ n + 1 \in DOMAIN replies /\ replies'[n] = replies[n + 1]
        /\ \A n \in DOMAIN replies :
             n = 1 \/ (n - 1 \in DOMAIN replies' /\ replies'[n - 1] = replies[n])
        /\ \A i : InReplies("fetched", i)' <=> InReplies("fetched", i)
    BY <1>0, ReplyTaken
  <1>4. PICK e \in Messages : e = [kind |-> "response", of |-> r.of, good |-> r.good]
    BY <1>3 DEF Messages, Replies
  <1>5. link' = Append(link, e)
    BY <1>4 DEF Exported
  <1>6. /\ link' \in Seq(Messages) /\ DOMAIN link' = 1..(Len(link) + 1)
        /\ DOMAIN link = 1..Len(link) /\ Len(link) \in Nat /\ link'[Len(link) + 1] = e
        /\ \A n \in DOMAIN link : link'[n] = link[n]
    BY <1>1, <1>5, Appended
  <1>7. e.kind = "response" /\ e.of = r.of /\ e.good = r.good
    BY <1>4
  <1>8. \A k, i : k # "response" => (InLink(k, i)' <=> InLink(k, i))
    BY <1>2, <1>6, <1>7 DEF InLink
  <1>9. TypeOK'
    BY <1>0, <1>1, <1>2, <1>3, <1>6 DEF TypeOK, IsInjective
  <1>10. FetchedOnce'
    BY <1>0, <1>2, <1>3, <1>8 DEF FetchedOnce
  <1>11. OneFetched'
    <2> SUFFICES ASSUME NEW m \in DOMAIN replies', NEW n \in DOMAIN replies',
                        replies'[m].kind = "fetched", replies'[n].kind = "fetched",
                        replies'[m].of = replies'[n].of
                 PROVE  m = n
      BY DEF OneFetched
    <2>1. m + 1 = n + 1
      BY <1>0, <1>3 DEF OneFetched
    <2> QED
      BY <1>3, <2>1
  <1>13. Answered'
    BY <1>0, <1>2 DEF Answered
  <1>14. Marked'
    <2> SUFFICES ASSUME NEW i \in Managed \ orphans
                 PROVE  /\ job[i] = "running" \/ i \in notices =>
                             i \in managed' \/ \E m \in DOMAIN replies' : replies'[m] = Mark(i)
                        /\ \A n \in DOMAIN replies' :
                             replies'[n].kind = "fetched" /\ replies'[n].of = i =>
                               i \in managed' \/ \E m \in 1..n : replies'[m] = Mark(i)
      BY <1>0, <1>2, <1>8 DEF Marked, Mark
    <2>1. replies[1] = Mark(i) => i \in managed'
      BY <1>2, <1>3 DEF Mark
    <2>2. i \in managed => i \in managed'
      BY <1>2
    <2>3. job[i] = "running" \/ i \in notices =>
            i \in managed' \/ \E m \in DOMAIN replies' : replies'[m] = Mark(i)
      BY <1>0, <1>3, <2>1, <2>2 DEF Marked
    <2>4. ASSUME NEW n \in DOMAIN replies', replies'[n].kind = "fetched", replies'[n].of = i
          PROVE  i \in managed' \/ \E m \in 1..n : replies'[m] = Mark(i)
      <3>1. i \in managed \/ \E m \in 1..(n + 1) : replies[m] = Mark(i)
        BY <1>0, <1>3, <2>4 DEF Marked
      <3>2. ASSUME NEW m \in 1..(n + 1), replies[m] = Mark(i), m # 1
            PROVE  m - 1 \in 1..n /\ replies'[m - 1] = Mark(i)
        <4>1. m \in DOMAIN replies
          <5>1. DOMAIN replies = 1..Len(replies) /\ Len(replies) \in Nat
            BY <1>0 DEF TypeOK
          <5> QED
            BY <1>3, <5>1
        <4> QED
          BY <1>3, <3>2, <4>1
      <3> QED
        BY <2>1, <2>2, <3>1, <3>2
    <2> QED
      BY <2>3, <2>4
  <1>15. LockedExportCached'
    BY <1>0, <1>2 DEF LockedExportCached
  <1> QED
    BY <1>9, <1>10, <1>11, <1>13, <1>14, <1>15 DEF ExportsInv

\* A fetched export is sent to the controller, followed by a request to transfer it.
LEMMA ExportSent ==
  ASSUME TypeOK, NEW r \in Replies, Fetched(r)
  PROVE  /\ link' \in Seq(Messages)
         /\ \A k, i : InLink(k, i) => InLink(k, i)'
         /\ \A n \in DOMAIN link' :
              \/ n \in DOMAIN link /\ link'[n] = link[n]
              \/ n = Len(link) + 1 /\ link'[n].kind = "export" /\ link'[n].of = r.of
              \/ /\ r.of \in Transfers /\ r.of \notin managed
                 /\ link'[n].kind = "transfer" /\ link'[n].of = r.of
  <1>1. link \in Seq(Messages) /\ r.of \in Jobs
    BY DEF TypeOK, Replies
  <1>2. CASE ~r.good
    <2>1. link' = link
      BY <1>2 DEF Fetched
    <2> QED
      BY <1>1, <2>1 DEF InLink
  <1>3. CASE r.good
    <2> DEFINE asks == r.of \in Transfers /\ r.of \notin managed
    <2>1. PICK e \in Messages : e = [kind |-> "export", of |-> r.of, good |-> TRUE]
      BY <1>1 DEF Messages
    <2>2. PICK f \in Messages : f = [kind |-> "transfer", of |-> r.of, good |-> TRUE]
      BY <1>1 DEF Messages
    <2>3. link' = link \o <<e>> \o (IF asks THEN <<f>> ELSE <<>>)
      BY <1>3, <2>1, <2>2 DEF Fetched
    <2>4. PICK c \in BOOLEAN : c = asks
      BY Zenon
    <2>5. PICK s : s = link'
      OBVIOUS
    <2>6. s = link \o <<e>> \o (IF c THEN <<f>> ELSE <<>>)
      BY <2>3, <2>4, <2>5, Zenon
    <2>7. /\ s \in Seq(Messages) /\ Len(link) \in Nat
          /\ Len(s) = Len(link) + (IF c THEN 2 ELSE 1)
          /\ DOMAIN s = 1..Len(s) /\ DOMAIN link = 1..Len(link)
          /\ s[Len(link) + 1] = e /\ (c => s[Len(link) + 2] = f)
          /\ \A n \in DOMAIN link : s[n] = link[n]
      BY <1>1, <2>6, TwoAppended
    <2>8. \A n \in DOMAIN s :
            \/ n \in DOMAIN link /\ s[n] = link[n]
            \/ n = Len(link) + 1 /\ s[n] = e
            \/ c /\ s[n] = f
      BY <2>7
    <2>9. e.kind = "export" /\ e.of = r.of /\ f.kind = "transfer" /\ f.of = r.of
      BY <2>1, <2>2
    <2>10. c => r.of \in Transfers /\ r.of \notin managed
      BY <2>4, Zenon
    <2>11. \A n \in DOMAIN link : n \in DOMAIN s
      BY <2>7
    <2>12. \A k, i : InLink(k, i) => InLink(k, i)'
      BY <2>5, <2>7, <2>11 DEF InLink
    <2> QED
      BY <2>5, <2>7, <2>8, <2>9, <2>10, <2>12
  <1> QED
    BY <1>2, <1>3

LEMMA FetchedStep ==
  ASSUME ExportsInv, Reply, NEW r, r = Head(replies), r.kind = "fetched", Fetched(r)
  PROVE  ExportsInv'
  <1> USE DEF vars, controller, world, instance, history
  <1>0. TypeOK /\ FetchedOnce /\ OneFetched /\ Marked /\ Answered /\ LockedExportCached
    BY DEF ExportsInv
  <1>1. link \in Seq(Messages) /\ managed \subseteq Managed
    BY <1>0 DEF TypeOK
  <1>2. /\ UNCHANGED <<controller, world, notices, faults, history>>
        /\ managed' = IF r.good THEN managed \ {r.of} ELSE managed
    BY DEF Reply, Fetched
  <1>3. /\ replies' \in Seq(Replies) /\ r \in Replies /\ 1 \in DOMAIN replies /\ r = replies[1]
        /\ \A n \in DOMAIN replies' :
             n \in Nat \ {0} /\ n + 1 \in DOMAIN replies /\ replies'[n] = replies[n + 1]
        /\ \A n \in DOMAIN replies :
             n = 1 \/ (n - 1 \in DOMAIN replies' /\ replies'[n - 1] = replies[n])
        /\ \A k, i : InReplies(k, i)' => InReplies(k, i)
        /\ \A k, i : InReplies(k, i) => InReplies(k, i)' \/ (r.kind = k /\ r.of = i)
        /\ InReplies("fetched", r.of)
    BY <1>0, ReplyTaken
  <1> DEFINE j == r.of
  <1>4. j \in Jobs
    BY <1>3 DEF Replies
  <1>5. /\ link' \in Seq(Messages)
        /\ \A k, i : InLink(k, i) => InLink(k, i)'
        /\ \A n \in DOMAIN link' :
             \/ n \in DOMAIN link /\ link'[n] = link[n]
             \/ n = Len(link) + 1 /\ link'[n].kind = "export" /\ link'[n].of = j
             \/ /\ j \in Transfers /\ j \notin managed
                /\ link'[n].kind = "transfer" /\ link'[n].of = j
    BY <1>0, <1>3, ExportSent
  <1>6. \A i : InLink("transfer", i)' =>
                 InLink("transfer", i) \/ (i = j /\ j \in Transfers /\ j \notin managed)
    BY <1>5 DEF InLink
  <1>7. \A n \in DOMAIN replies' : replies'[n].kind = "fetched" => replies'[n].of # j
    <2> SUFFICES ASSUME NEW n \in DOMAIN replies',
                        replies'[n].kind = "fetched", replies'[n].of = j
                 PROVE  FALSE
      OBVIOUS
    <2>1. n + 1 = 1
      BY <1>0, <1>3 DEF OneFetched
    <2> QED
      BY <1>3, <2>1
  <1>8. job[j] = "complete" /\ j \notin notices
    BY <1>0, <1>3, <1>4 DEF FetchedOnce
  <1>9. /\ ~InReplies("fetched", j)'
        /\ \A i : i # j => (InReplies("fetched", i)' <=> InReplies("fetched", i))
    BY <1>3, <1>7 DEF InReplies
  <1>10. TypeOK'
    BY <1>0, <1>1, <1>2, <1>3, <1>5 DEF TypeOK, IsInjective
  <1>11. FetchedOnce'
    BY <1>0, <1>2, <1>9 DEF FetchedOnce
  <1>12. OneFetched'
    <2> SUFFICES ASSUME NEW m \in DOMAIN replies', NEW n \in DOMAIN replies',
                        replies'[m].kind = "fetched", replies'[n].kind = "fetched",
                        replies'[m].of = replies'[n].of
                 PROVE  m = n
      BY DEF OneFetched
    <2>1. m + 1 = n + 1
      BY <1>0, <1>3 DEF OneFetched
    <2> QED
      BY <1>3, <2>1
  <1>13. Answered'
    BY <1>0, <1>2 DEF Answered
  <1>15. Marked'
    <2> SUFFICES ASSUME NEW i \in Managed \ orphans
                 PROVE  /\ ~InLink("transfer", i)'
                        /\ job[i] = "running" \/ i \in notices =>
                             i \in managed' \/ \E m \in DOMAIN replies' : replies'[m] = Mark(i)
                        /\ \A n \in DOMAIN replies' :
                             replies'[n].kind = "fetched" /\ replies'[n].of = i =>
                               i \in managed' \/ \E m \in 1..n : replies'[m] = Mark(i)
      BY <1>0, <1>2 DEF Marked, Mark
    <2>1. replies[1] # Mark(i)
      BY <1>3 DEF Mark
    <2>2. i # j /\ i \in managed => i \in managed'
      BY <1>2
    <2>3. i = j => i \in managed
      <3>1. i = j => i \in managed \/ \E m \in 1..1 : replies[m] = Mark(i)
        BY <1>0, <1>3 DEF Marked
      <3> QED
        BY <2>1, <3>1
    <2>4. ~InLink("transfer", i)'
      BY <1>0, <1>6, <2>3 DEF Marked
    <2>5. job[i] = "running" \/ i \in notices =>
            i \in managed' \/ \E m \in DOMAIN replies' : replies'[m] = Mark(i)
      <3>1. CASE i = j
        BY <1>8, <3>1
      <3>2. CASE i # j
        BY <1>0, <1>3, <2>1, <2>2, <3>2 DEF Marked
      <3> QED
        BY <3>1, <3>2
    <2>6. ASSUME NEW n \in DOMAIN replies', replies'[n].kind = "fetched", replies'[n].of = i
          PROVE  i \in managed' \/ \E m \in 1..n : replies'[m] = Mark(i)
      <3>1. i # j
        BY <1>7, <2>6
      <3>2. i \in managed \/ \E m \in 1..(n + 1) : replies[m] = Mark(i)
        BY <1>0, <1>3, <2>6 DEF Marked
      <3>3. ASSUME NEW m \in 1..(n + 1), replies[m] = Mark(i)
            PROVE  m - 1 \in 1..n /\ replies'[m - 1] = Mark(i)
        <4>1. m \in DOMAIN replies
          <5>1. DOMAIN replies = 1..Len(replies) /\ Len(replies) \in Nat
            BY <1>0 DEF TypeOK
          <5> QED
            BY <1>3, <5>1
        <4> QED
          BY <1>3, <2>1, <3>3, <4>1
      <3> QED
        BY <2>2, <3>1, <3>2, <3>3
    <2> QED
      BY <2>4, <2>5, <2>6
  <1>16. LockedExportCached'
    BY <1>0, <1>2 DEF LockedExportCached
  <1> QED
    BY <1>10, <1>11, <1>12, <1>13, <1>15, <1>16 DEF ExportsInv

-----------------------------------------------------------------------------
(* The controller's messages *)

\* The first message is taken; the others move up.
LEMMA MessageTaken ==
  ASSUME TypeOK, link # <<>>, link' = Tail(link), NEW msg, msg = Head(link)
  PROVE  /\ link' \in Seq(Messages) /\ msg \in Messages /\ 1 \in DOMAIN link /\ msg = link[1]
         /\ \A n \in DOMAIN link' :
              n \in Nat \ {0} /\ n + 1 \in DOMAIN link /\ link'[n] = link[n + 1]
         /\ \A k, i : InLink(k, i)' => InLink(k, i)
         /\ InLink(msg.kind, msg.of)
  <1>1. link \in Seq(Messages)
    BY DEF TypeOK
  <1>2. /\ link' \in Seq(Messages) /\ Len(link') = Len(link) - 1
        /\ Len(link) \in Nat /\ Len(link) >= 1
        /\ DOMAIN link' = 1..(Len(link) - 1) /\ DOMAIN link = 1..Len(link)
        /\ Head(link) = link[1] /\ 1 \in DOMAIN link /\ Head(link) \in Messages
        /\ \A n \in DOMAIN link' : n + 1 \in DOMAIN link /\ link'[n] = link[n + 1]
    <2>1. PICK t : t = link'
      OBVIOUS
    <2> QED
      BY <1>1, <2>1, TailOf
  <1>3. \A n \in DOMAIN link' : n \in Nat \ {0}
    BY <1>2
  <1>4. \A k, i : InLink(k, i)' => InLink(k, i)
    BY <1>2 DEF InLink
  <1>5. InLink(msg.kind, msg.of)
    BY <1>2 DEF InLink
  <1> QED
    BY <1>2, <1>3, <1>4, <1>5

\* The message that is taken leaves the export's path through game and instance alone.
LEMMA ReceivePath ==
  ASSUME ExportsInv, UNCHANGED <<notices, replies, managed, cache, job, orphans>>,
         link # <<>>, link' = Tail(link), locked' \subseteq locked
  PROVE  FetchedOnce' /\ OneFetched' /\ Marked' /\ LockedExportCached'
  <1>1. TypeOK /\ FetchedOnce /\ OneFetched /\ Marked /\ LockedExportCached
    BY DEF ExportsInv
  <1>2. PICK msg : msg = Head(link)
    OBVIOUS
  <1>3. \A k, i : InLink(k, i)' => InLink(k, i)
    BY <1>1, <1>2, MessageTaken
  <1>4. \A k, i : InReplies(k, i)' = InReplies(k, i)
    BY DEF InReplies
  <1>5. FetchedOnce' /\ OneFetched' /\ LockedExportCached'
    BY <1>1, <1>4 DEF FetchedOnce, OneFetched, LockedExportCached
  <1>6. Marked'
    BY <1>1, <1>3 DEF Marked, Mark
  <1> QED
    BY <1>5, <1>6

\* The instance answers the request.
LEMMA ResponseStep ==
  ASSUME ExportsInv, NEW online \in BOOLEAN, Receive(online), faults' \in Nat,
         Head(link).kind = "response"
  PROVE  ExportsInv'
  <1> USE DEF vars, controller, world, instance, history
  <1>0. TypeOK /\ Answered
    BY DEF ExportsInv
  <1>1. PICK msg : msg = Head(link)
    OBVIOUS
  <1> DEFINE j == msg.of
  <1>2. /\ UNCHANGED <<store, record, locked, job, cache, seq, instance, history>>
        /\ link # <<>> /\ link' = Tail(link)
        /\ IF handler[j] # "asked" THEN UNCHANGED <<handler, told>>
           ELSE IF msg.good THEN handler' = [handler EXCEPT ![j] = "waiting"] /\ UNCHANGED told
                ELSE Answer(j, "failed")
    BY <1>1 DEF Receive
  <1>3. link' \in Seq(Messages) /\ msg \in Messages
    BY <1>0, <1>1, <1>2, MessageTaken
  <1>4. j \in Jobs
    BY <1>3 DEF Messages
  <1>5. /\ handler \in [Jobs -> {"idle", "asked", "waiting", "sending", "done"}]
        /\ told \in [Jobs -> {"nothing", "ok", "failed", "unknown"}]
    BY <1>0 DEF TypeOK
  <1>6. \A i \in Jobs :
          \/ handler'[i] = handler[i] /\ told'[i] = told[i]
          \/ i = j /\ handler[i] = "asked"
    BY <1>2, <1>4, <1>5 DEF Answer
  <1>7. /\ handler' \in [Jobs -> {"idle", "asked", "waiting", "sending", "done"}]
        /\ told' \in [Jobs -> {"nothing", "ok", "failed", "unknown"}]
    BY <1>2, <1>4, <1>5 DEF Answer
  <1>8. TypeOK'
    BY <1>0, <1>2, <1>3, <1>7 DEF TypeOK, IsInjective
  <1>9. Answered'
    <2>1. CASE handler[j] = "asked"
      <3>1. j \in Managed \ orphans => record[j] # "sending" /\ j \notin taken
        BY <1>0, <2>1 DEF Answered
      <3>2. \A i \in Jobs : i # j => handler'[i] = handler[i] /\ told'[i] = told[i]
        BY <1>6
      <3> QED
        BY <1>2, <1>4, <3>1, <3>2, OwnStep
    <2>2. CASE handler[j] # "asked"
      <3>1. UNCHANGED <<handler, told>>
        BY <1>2, <2>2
      <3> QED
        BY <1>0, <1>2, <3>1 DEF Answered
    <2> QED
      BY <2>1, <2>2
  <1>10. FetchedOnce' /\ OneFetched' /\ Marked' /\ LockedExportCached'
    BY <1>2, ReceivePath
  <1> QED
    BY <1>8, <1>9, <1>10 DEF ExportsInv

LEMMA StoredProperties ==
  ASSUME NEW s \in Seq(Jobs), IsInjective(s), NEW j \in Jobs
  PROVE  Stored(s, j) \in Seq(Jobs) /\ IsInjective(Stored(s, j))
  <1>0. PICK u : u = Without(s, j)
    OBVIOUS
  <1>3. u \in Seq(Jobs) /\ IsInjective(u) /\ \A n \in DOMAIN u : u[n] # j
    BY <1>0, WithoutProperties
  <1>1. CASE j \notin Behind
    <2>1. PICK t : t = Append(u, j)
      OBVIOUS
    <2>2. /\ t \in Seq(Jobs) /\ Len(u) \in Nat /\ DOMAIN t = 1..(Len(u) + 1)
          /\ DOMAIN u = 1..Len(u) /\ t[Len(u) + 1] = j /\ \A n \in DOMAIN u : t[n] = u[n]
      BY <1>3, <2>1, Appended
    <2>3. \A n \in DOMAIN t : n = Len(u) + 1 \/ n \in DOMAIN u
      BY <2>2
    <2>4. IsInjective(t)
      BY <1>3, <2>2, <2>3 DEF IsInjective
    <2> QED
      BY <1>0, <1>1, <2>1, <2>2, <2>4 DEF Stored
  <1>2. CASE j \in Behind
    <2>1. PICK t : t = <<j>> \o u
      OBVIOUS
    <2>2. /\ t \in Seq(Jobs) /\ Len(u) \in Nat /\ DOMAIN t = 1..(Len(u) + 1)
          /\ DOMAIN u = 1..Len(u) /\ t[1] = j
          /\ \A n \in DOMAIN t : n \in Nat /\ (n = 1 \/ (n - 1 \in DOMAIN u /\ t[n] = u[n - 1]))
      BY <1>3, <2>1
    <2>3. ASSUME NEW a \in DOMAIN t, NEW b \in DOMAIN t, t[a] = t[b] PROVE a = b
      <3>1. CASE a = 1 \/ b = 1
        BY <1>3, <2>2, <2>3, <3>1
      <3>2. CASE a # 1 /\ b # 1
        <4>1. a - 1 = b - 1
          BY <1>3, <2>2, <2>3, <3>2 DEF IsInjective
        <4> QED
          BY <2>2, <4>1
      <3> QED
        BY <3>1, <3>2
    <2> QED
      BY <1>0, <1>2, <2>1, <2>2, <2>3 DEF Stored, IsInjective
  <1> QED
    BY <1>1, <1>2

LEMMA PlatformExportStores ==
  ASSUME TypeOK, NEW j \in Jobs, PlatformExport(j)
  PROVE  store' \in Seq(Jobs) /\ IsInjective(store')
  <1>1. store \in Seq(Jobs) /\ IsInjective(store)
    BY DEF TypeOK
  <1>2. PICK s : s = Stored(store, j)
    OBVIOUS
  <1>3. s \in Seq(Jobs) /\ IsInjective(s)
    BY <1>1, <1>2, StoredProperties
  <1>4. CASE Len(s) > MaxStorage
    <2>1. PICK t : t = SubSeq(s, Len(s) - MaxStorage + 1, Len(s))
      OBVIOUS
    <2>2. PICK k \in Nat \ {0} : k = MaxStorage /\ k <= Len(s)
      BY <1>3, <1>4, ExportsAssumption
    <2>3. t = SubSeq(s, Len(s) - k + 1, Len(s))
      BY <2>1, <2>2
    <2>4. s \in Seq(Jobs) /\ IsInjective(s) /\ k <= Len(s)
      BY <1>3, <2>2
    <2>5. t \in Seq(Jobs) /\ IsInjective(t)
      BY <2>3, <2>4, NewestInjective, Zenon
    <2>6. store' = t
      BY <1>2, <1>4, <2>1 DEF PlatformExport
    <2> QED
      BY <2>5, <2>6
  <1>5. CASE ~(Len(s) > MaxStorage)
    <2>1. store' = s
      BY <1>2, <1>5 DEF PlatformExport
    <2> QED
      BY <1>3, <2>1
  <1> QED
    BY <1>4, <1>5

\* The export arrives at the store.
LEMMA StoreStep ==
  ASSUME ExportsInv, NEW online \in BOOLEAN, Receive(online), faults' \in Nat,
         Head(link).kind = "export"
  PROVE  ExportsInv'
  <1> USE DEF vars, controller, world, instance, history
  <1>0. TypeOK /\ Answered
    BY DEF ExportsInv
  <1>1. PICK msg : msg = Head(link)
    OBVIOUS
  <1>2. /\ UNCHANGED <<handler, told, record, locked, job, cache, seq, instance, history>>
        /\ link # <<>> /\ link' = Tail(link) /\ PlatformExport(msg.of)
    BY <1>1 DEF Receive
  <1>3. link' \in Seq(Messages) /\ msg \in Messages
    BY <1>0, <1>1, <1>2, MessageTaken
  <1>4. store' \in Seq(Jobs) /\ IsInjective(store')
    BY <1>0, <1>2, <1>3, PlatformExportStores DEF Messages
  <1>5. TypeOK'
    BY <1>0, <1>2, <1>3, <1>4 DEF TypeOK
  <1>6. Answered'
    BY <1>0, <1>2 DEF Answered
  <1>7. FetchedOnce' /\ OneFetched' /\ Marked' /\ LockedExportCached'
    BY <1>2, ReceivePath
  <1> QED
    BY <1>5, <1>6, <1>7 DEF ExportsInv

\* The instance asks for a transfer: not for one that the controller manages.
LEMMA TransferStep ==
  ASSUME ExportsInv, NEW online \in BOOLEAN, Receive(online), faults' \in Nat,
         Head(link).kind = "transfer"
  PROVE  ExportsInv'
  <1> USE DEF vars, controller, world, instance, history
  <1>0. TypeOK /\ Marked /\ Answered
    BY DEF ExportsInv
  <1>1. PICK msg : msg = Head(link)
    OBVIOUS
  <1>2. PICK verdict \in {"refused", "active", "sent"} : verdict = Verdict(msg.of, online)
    BY VerdictType
  <1>3. /\ UNCHANGED <<handler, told, store, job, cache, seq, instance, history>>
        /\ link # <<>> /\ link' = Tail(link) /\ TransferPlatform(msg.of, verdict)
    BY <1>1, <1>2 DEF Receive
  <1>4. link' \in Seq(Messages) /\ msg \in Messages /\ InLink(msg.kind, msg.of)
    BY <1>0, <1>1, <1>3, MessageTaken
  <1>5. msg.of \in Jobs /\ msg.of \notin Managed \ orphans
    BY <1>0, <1>1, <1>4 DEF Marked, Messages
  <1>6. /\ record' \in [Jobs -> {"none", "sending", "stuck", "open", "failed", "closed"}]
        /\ \A i \in Jobs : i # msg.of => record'[i] = record[i]
        /\ locked' \subseteq locked
    BY <1>0, <1>3, <1>5, SentOn
  <1>7. TypeOK'
    BY <1>0, <1>3, <1>4, <1>6 DEF TypeOK, IsInjective
  <1>8. Answered'
    BY <1>3, <1>5, <1>6, OwnStep
  <1>9. FetchedOnce' /\ OneFetched' /\ Marked' /\ LockedExportCached'
    BY <1>3, <1>6, ReceivePath
  <1> QED
    BY <1>7, <1>8, <1>9 DEF ExportsInv

LEMMA ReceiveStep ==
  ASSUME ExportsInv, NEW online \in BOOLEAN, Receive(online), faults' \in Nat
  PROVE  ExportsInv'
  <1>1. link # <<>> /\ link' = Tail(link)
    BY DEF Receive
  <1>2. Head(link) \in Messages
    BY <1>1, MessageTaken DEF ExportsInv
  <1>3. Head(link).kind \in {"response", "export", "transfer"}
    BY <1>2 DEF Messages
  <1> QED
    BY <1>3, ResponseStep, StoreStep, TransferStep

-----------------------------------------------------------------------------
(* Restarts *)

\* Whatever of the instance's exports runs again, its mark may be lost.
LEMMA InstanceRestartStep ==
  ASSUME ExportsInv, InstanceRestart
  PROVE  ExportsInv'
  <1> USE DEF vars, controller, world, instance, history
  <1>0. TypeOK /\ Marked /\ Answered
    BY DEF ExportsInv
  <1>1. /\ handler \in [Jobs -> {"idle", "asked", "waiting", "sending", "done"}]
        /\ told \in [Jobs -> {"nothing", "ok", "failed", "unknown"}]
        /\ job \in [Jobs -> {"none", "running", "complete", "aborted"}]
        /\ locked \subseteq Jobs /\ orphans \subseteq Jobs
        /\ cache \in [Jobs -> 0..seq] /\ seq \in Nat
        /\ \A a, b \in Jobs : cache[a] = cache[b] /\ cache[a] # 0 => a = b
    BY <1>0 DEF TypeOK
  <1> DEFINE begun == {i \in Jobs : job[i] # "none"}
  <1>2. PICK again \in SUBSET begun :
          /\ job' = [i \in Jobs |-> IF i \in again THEN "running"
                                    ELSE IF job[i] = "running" THEN "aborted" ELSE job[i]]
          /\ locked' = locked \cup again
          /\ cache' = [i \in Jobs |-> IF i \in again THEN 0 ELSE cache[i]]
    BY DEF InstanceRestart
  <1>3. /\ replies' = <<>> /\ notices' = {} /\ managed' = {}
        /\ seq' \in {cache'[i] : i \in Jobs} /\ \A i \in Jobs : cache'[i] <= seq'
        /\ handler' = [i \in Jobs |-> IF handler[i] = "asked" THEN "done" ELSE handler[i]]
        /\ told' = [i \in Jobs |-> IF handler[i] = "asked" THEN "failed" ELSE told[i]]
        /\ orphans' = orphans \cup (begun \cap Managed)
        /\ UNCHANGED <<store, record, link, taken>>
    BY DEF InstanceRestart
  <1>4. job' \in [Jobs -> {"none", "running", "complete", "aborted"}]
    BY <1>1, <1>2
  <1>5. /\ \A k, i : ~InReplies(k, i)'
        /\ \A k, i : InLink(k, i)' <=> InLink(k, i)
    BY <1>3 DEF InReplies, InLink
  <1>6. TypeOK'
    <2>1. cache' \in [Jobs -> Nat]
      BY <1>1, <1>2
    <2>2. seq' \in Nat /\ \A i \in Jobs : cache'[i] <= seq'
      BY <1>3, <2>1
    <2>3. cache' \in [Jobs -> 0..seq']
      BY <2>1, <2>2
    <2>4. \A a, b \in Jobs : cache'[a] = cache'[b] /\ cache'[a] # 0 => a = b
      BY <1>1, <1>2
    <2>5. /\ handler' \in [Jobs -> {"idle", "asked", "waiting", "sending", "done"}]
          /\ told' \in [Jobs -> {"nothing", "ok", "failed", "unknown"}]
      BY <1>1, <1>3
    <2>6. faults' \in Nat
      BY <1>0, FaultType DEF InstanceRestart
    <2>7. replies' \in Seq(Replies) /\ notices' \subseteq Jobs /\ managed' \subseteq Managed
          /\ locked' \subseteq Jobs /\ orphans' \subseteq Jobs
      BY <1>1, <1>2, <1>3, KindsOfJobs
    <2> QED
      BY <1>0, <1>3, <1>4, <2>2, <2>3, <2>4, <2>5, <2>6, <2>7 DEF TypeOK, IsInjective
  <1>7. FetchedOnce' /\ OneFetched'
    BY <1>3, <1>5 DEF FetchedOnce, OneFetched
  <1>8. \A i \in Jobs : \/ handler'[i] = handler[i] /\ told'[i] = told[i]
                        \/ handler[i] = "asked"
    BY <1>1, <1>3
  <1>9. Marked'
    <2> SUFFICES ASSUME NEW i \in Managed, i \notin orphans'
                 PROVE  ~InLink("transfer", i) /\ job'[i] # "running"
      BY <1>3, <1>5 DEF Marked, Mark
    <2>1. i \in Jobs /\ i \in Managed \ orphans /\ job[i] = "none"
      BY <1>3, KindsOfJobs
    <2>2. job'[i] # "running"
      BY <1>2, <2>1
    <2> QED
      BY <1>0, <2>1, <2>2 DEF Marked
  <1>10. Answered'
    <2> SUFFICES ASSUME NEW i \in Managed, i \notin orphans'
                 PROVE  /\ record[i] = "sending" => handler'[i] = "sending"
                        /\ i \in taken => handler'[i] = "done" /\ told'[i] # "failed"
      BY <1>3 DEF Answered
    <2>1. i \in Jobs /\ i \in Managed \ orphans
      BY <1>3, KindsOfJobs
    <2> QED
      BY <1>0, <1>8, <2>1 DEF Answered
  <1>11. LockedExportCached'
    BY <1>3 DEF LockedExportCached
  <1> QED
    BY <1>6, <1>7, <1>9, <1>10, <1>11 DEF ExportsInv

\* A handler that waits for the destination does not know what became of the import.
LEMMA ControllerRestartStep ==
  ASSUME ExportsInv, ControllerRestart
  PROVE  ExportsInv'
  <1> USE DEF vars, controller, world, instance, history
  <1>0. TypeOK /\ FetchedOnce /\ OneFetched /\ Marked /\ Answered /\ LockedExportCached
    BY DEF ExportsInv
  <1>1. /\ handler \in [Jobs -> {"idle", "asked", "waiting", "sending", "done"}]
        /\ told \in [Jobs -> {"nothing", "ok", "failed", "unknown"}]
        /\ taken \subseteq Jobs
    BY <1>0 DEF TypeOK
  <1>2. /\ link' = <<>> /\ record' = [i \in Jobs |-> "none"]
        /\ UNCHANGED <<store, world, instance, orphans>>
    BY DEF ControllerRestart
  <1>3. /\ handler' \in [Jobs -> {"idle", "asked", "waiting", "sending", "done"}]
        /\ told' \in [Jobs -> {"nothing", "ok", "failed", "unknown"}]
        /\ \A i \in Jobs : \/ handler[i] \in {"asked", "waiting"}
                           \/ handler[i] = "sending" /\ handler'[i] = "done" /\ told'[i] = "unknown"
                           \/ /\ handler[i] \in {"idle", "done"}
                              /\ handler'[i] = handler[i] /\ told'[i] = told[i]
    BY <1>1 DEF ControllerRestart
  <1>4. taken' \subseteq Jobs /\ \A i \in taken' : i \in taken \/ record[i] = "sending"
    BY <1>1 DEF ControllerRestart
  <1>5. /\ \A k, i : InReplies(k, i)' <=> InReplies(k, i)
        /\ \A k, i : ~InLink(k, i)'
    BY <1>2 DEF InReplies, InLink
  <1>6. TypeOK'
    <2>1. faults' \in Nat
      BY <1>0, FaultType DEF ControllerRestart
    <2>2. record' \in [Jobs -> {"none", "sending", "stuck", "open", "failed", "closed"}]
      BY <1>2
    <2>3. link' \in Seq(Messages)
      BY <1>2
    <2> QED
      BY <1>0, <1>2, <1>3, <1>4, <2>1, <2>2, <2>3 DEF TypeOK, IsInjective
  <1>7. FetchedOnce' /\ OneFetched' /\ LockedExportCached'
    BY <1>0, <1>2, <1>5 DEF FetchedOnce, OneFetched, LockedExportCached
  <1>8. Marked'
    BY <1>0, <1>2, <1>5 DEF Marked, Mark
  <1>9. Answered'
    <2> SUFFICES ASSUME NEW i \in Managed \ orphans
                 PROVE  /\ record'[i] # "sending"
                        /\ i \in taken' => handler'[i] = "done" /\ told'[i] # "failed"
      BY <1>2 DEF Answered
    <2>1. i \in Jobs
      BY KindsOfJobs
    <2>2. i \in taken' => \/ handler[i] = "done" /\ told[i] # "failed"
                          \/ handler[i] = "sending"
      BY <1>0, <1>4 DEF Answered
    <2>3. record'[i] # "sending"
      BY <1>2, <2>1
    <2>4. i \in taken' => handler'[i] = "done" /\ told'[i] # "failed"
      BY <1>3, <2>1, <2>2
    <2> QED
      BY <2>3, <2>4
  <1> QED
    BY <1>6, <1>7, <1>8, <1>9 DEF ExportsInv

LEMMA ExportsInvNext == ASSUME ExportsInv, [Next]_vars PROVE ExportsInv'
  <1>0. TypeOK
    BY DEF ExportsInv
  <1>1. ASSUME NEW j \in Jobs, Request(j) \/ CensusAbort(j) \/ Unlock(j) PROVE ExportsInv'
    <2>1. faults' \in Nat
      BY <1>0, <1>1, FaultType DEF Request, CensusAbort, Unlock, TypeOK
    <2> QED
      BY <1>1, <2>1, BesideStep
  <1>2. ASSUME NEW j \in Jobs, TimedOut(j), IF Lost(j) THEN UNCHANGED faults ELSE Fault("timeout")
        PROVE  ExportsInv'
    <2>1. faults' \in Nat
      BY <1>0, <1>2, FaultType DEF TypeOK
    <2> QED
      BY <1>2, <2>1, BesideStep
  <1>3. ASSUME NEW j \in Jobs, AskedInGame(j) PROVE ExportsInv'
    <2>1. faults' \in Nat
      BY <1>0, <1>3 DEF AskedInGame, TypeOK
    <2> QED
      BY <1>3, <2>1, BeginStep
  <1>4. ASSUME NEW j \in Jobs, NEW heard \in BOOLEAN, ExportPlatform(j, heard),
               Online(heard, "reply")
        PROVE  ExportsInv'
    BY <1>0, <1>4, FaultType, BeginStep
  <1>5. ASSUME NEW j \in Jobs, Complete(j) PROVE ExportsInv'
    <2>1. faults' \in Nat
      BY <1>0, <1>5 DEF Complete, TypeOK
    <2> QED
      BY <1>5, <2>1, CompleteStep
  <1>6. ASSUME NEW j \in Jobs, Fetch(j) PROVE ExportsInv'
    <2>1. faults' \in Nat
      BY <1>0, <1>6 DEF Fetch, TypeOK
    <2> QED
      BY <1>6, <2>1, FetchStep
  <1>7. ASSUME NEW j \in Jobs, NEW online \in BOOLEAN, Found(j, online), Online(online, "offline")
        PROVE  ExportsInv'
    BY <1>0, <1>7, FaultType, FoundStep
  <1>8. CASE Reply
    <2>1. Head(replies) \in Replies
      BY <1>0, <1>8, ReplyTaken
    <2>2. CASE Head(replies).kind = "exported"
      BY <1>8, <2>2, ExportedStep DEF Reply
    <2>3. CASE Head(replies).kind # "exported"
      <3>1. Head(replies).kind = "fetched"
        BY <2>1, <2>3 DEF Replies
      <3>2. Fetched(Head(replies))
        BY <1>8, <2>3 DEF Reply
      <3> QED
        BY <1>8, <3>1, <3>2, FetchedStep
    <2> QED
      BY <2>2, <2>3
  <1>9. ASSUME NEW online \in BOOLEAN, Receive(online), Online(online, "offline")
        PROVE  ExportsInv'
    BY <1>0, <1>9, FaultType, ReceiveStep
  <1>10. ASSUME NEW j \in Jobs, ImportAccepted(j) \/ SendFailed(j) PROVE ExportsInv'
    <2>1. faults' \in Nat
      BY <1>0, <1>10, FaultType DEF ImportAccepted, SendFailed, TypeOK
    <2> QED
      BY <1>10, <2>1, ImportStep
  <1>11. ASSUME NEW j \in Jobs, NEW lost \in BOOLEAN, ImportRefused(j, lost), Online(~lost, "import")
         PROVE  ExportsInv'
    <2>1. (~lost) \in BOOLEAN
      OBVIOUS
    <2>2. faults' \in Nat
      BY <1>0, <1>11, <2>1, FaultType
    <2> QED
      BY <1>11, <2>2, ImportStep
  <1>12. ASSUME NEW j \in Jobs, NEW reached \in BOOLEAN, SessionLost(j, reached)
         PROVE  ExportsInv'
    <2>1. faults' \in Nat
      BY <1>0, <1>12, FaultType DEF SessionLost
    <2> QED
      BY <1>12, <2>1, ImportStep
  <1>13. CASE UNCHANGED vars
    <2>1. UNCHANGED <<handler, told, job, locked, cache, seq, notices, replies, managed, link,
                      store, record, faults, taken, orphans>>
      BY <1>13 DEF vars, controller, world, instance, history
    <2>2. TypeOK'
      BY <1>0, <2>1 DEF TypeOK, IsInjective
    <2>3. Answered'
      BY <2>1 DEF ExportsInv, Answered
    <2>4. FetchedOnce' /\ OneFetched' /\ Marked' /\ LockedExportCached'
      BY <2>1, PathKept
    <2> QED
      BY <2>2, <2>3, <2>4 DEF ExportsInv
  <1> QED
    BY <1>1, <1>2, <1>3, <1>4, <1>5, <1>6, <1>7, <1>8, <1>9, <1>10, <1>11, <1>12, <1>13,
       ResendStep, SettledStep, InstanceRestartStep, ControllerRestartStep DEF Next

LEMMA ExportsInvAlways == Spec => []ExportsInv
  BY ExportsInvInit, ExportsInvNext, PTL DEF Spec

-----------------------------------------------------------------------------
(* Theorems *)

\* Every variable of the export pipeline has its type; the controller's store never holds
\* an export twice, and the exports of the game's cache are numbered apart.
THEOREM TypesAlways == Spec => []TypeOK
  <1>1. ExportsInv => TypeOK
    BY DEF ExportsInv
  <1> QED
    BY <1>1, ExportsInvAlways, PTL

\* When the user was told that a transfer failed, no destination began to import its export,
\* though the instance has it and was to ask for its transfer, and though the answer waits for
\* the destination, whose session may break; unless the answer to the command or the mark at
\* the instance was lost, the reply of the destination's game was, or somebody sent the stored
\* export again.
THEOREM TransfersAsAnswered == Spec => []TransferAsAnswered
  <1>1. ExportsInv => TransferAsAnswered
    BY DEF ExportsInv, Answered, TransferAsAnswered
  <1> QED
    BY <1>1, ExportsInvAlways, PTL

\* However small the cache, an export that is announced and whose platform is locked is in
\* it: the export that has just finished is the newest, and locks protect it from then on.
THEOREM LockedExportsCached == Spec => []LockedExportCached
  <1>1. ExportsInv => LockedExportCached
    BY DEF ExportsInv
  <1> QED
    BY <1>1, ExportsInvAlways, PTL
=============================================================================

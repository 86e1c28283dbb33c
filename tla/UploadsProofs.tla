---------------------------- MODULE UploadsProofs ----------------------------
(* Theorems of Uploads. *)
EXTENDS Uploads, TLAPS

\* The premises of the theorems: deliveries under one key do not overlap, and a job does
\* not end before its delivery was answered.
OneByOne == ~Overlap
AnswerFirst == ~Overtaking

-----------------------------------------------------------------------------
(* Types, and the bound on the next chunk. *)

Typed ==
  /\ TypeOK /\ next \in [Deliveries -> Nat]
  /\ \A d \in Deliveries : /\ delivery[d] = "idle" => next[d] = 1
                           /\ delivery[d] = "sending" => next[d] <= Chunks[d]

-----------------------------------------------------------------------------
(* Sessions.  A delivery that is sending has what it sent in the session of its  *)
(* key.  No session holds the last chunk of any payload: the command that brings *)
(* it closes the session, so that nothing left over can complete another one.    *)

Tailless(table) ==
  \A k \in Keys : \A n \in 1..MaxChunks : table[k][n] # None => table[k][n].tail = {}

Alone ==
  \A d, e \in Deliveries :
    delivery[d] = "sending" /\ delivery[e] = "sending" /\ Key[d] = Key[e] => d = e

Progressing ==
  \A d \in Deliveries :
    delivery[d] = "sending" =>
      \A m \in 1..next[d] - 1 : sessions[Key[d]][m] = Content(d, m)

SessionInv == Tailless(sessions) /\ Tailless(saved[1]) /\ Alone /\ Progressing

-----------------------------------------------------------------------------
(* Outcomes.  What is queued has been sent, and is queued once, or again when the *)
(* game goes back to its save.  An answer precedes the event of its job, and what *)
(* awaits it is open.                                                            *)

Queued ==
  /\ \A d \in Deliveries : delivery[d] \in {"idle", "sending"} =>
       d \notin jobs /\ d \notin built /\ d \notin saved[2] /\ d \notin saved[3]
  /\ built \cap jobs = {} /\ saved[3] \cap saved[2] = {}
  /\ saved[3] \cap jobs = {} /\ saved[3] \subseteq built

IsResponse(n, d) == link[n].kind = "response" /\ link[n].of = d
IsComplete(n, d) == link[n].kind = "complete" /\ link[n].of = d

Ended(d) == delivery[d] \in {"accepted", "refused"}

Open ==
  \A d \in held :
    /\ row[d] = "in_progress" /\ answer[d] = "none" /\ delivery[d] # "idle"
    /\ Ended(d) => \E n \in DOMAIN link : IsResponse(n, d)
    /\ \A n \in DOMAIN link : IsComplete(n, d) => \E m \in 1..n - 1 : IsResponse(m, d)

Ledger ==
  /\ \A d \in Ops : record[d] # "none" => row[d] = record[d]
  /\ \A n \in DOMAIN link : delivery[link[n].of] \in {"accepted", "refused"}

\* The last word on an upload: its row, or the last event on its way.
LastWord(d) ==
  \/ /\ \A n \in DOMAIN link : ~IsComplete(n, d)
     /\ row[d] = "completed" <=> d \in built
  \/ \E n \in DOMAIN link :
       /\ IsComplete(n, d) /\ \A m \in DOMAIN link : m > n => ~IsComplete(m, d)
       /\ link[n].outcome = "completed" <=> d \in built

Verdicts == \A d \in Ops : d \notin excused /\ d \notin jobs => LastWord(d)

OutcomeInv == Queued /\ Open /\ Ledger /\ Verdicts

-----------------------------------------------------------------------------
(* The operators *)

\* The parts of a whole session are read as a sequence.
LEMMA PartsOf ==
  ASSUME NEW total \in Nat, NEW session, NEW parts, parts = [i \in 1..total |-> session[i]]
  PROVE  Len(parts) = total /\ \A n \in 1..total : parts[n] = session[n]
  OBVIOUS

LEMMA NotNone ==
  ASSUME NEW p, NEW n, NEW t
  PROVE  [payload |-> p, part |-> n, tail |-> t] # None
  <1>1. "part" \in DOMAIN [payload |-> p, part |-> n, tail |-> t]
    OBVIOUS
  <1>2. "part" \notin DOMAIN None
    BY DEF None
  <1> QED
    BY <1>1, <1>2

\* The delivery a decoded payload is taken for sent its last chunk.
LEMMA DecodedOwner ==
  ASSUME NEW total \in Nat, NEW session, NEW parts,
         parts = [i \in 1..total |-> session[i]], Decodes(parts)
  PROVE  /\ total \in 1..total /\ Owner(parts) \in Deliveries
         /\ session[total] # None /\ session[total].tail = {Owner(parts)}
  <1>1. PICK d \in Deliveries : Len(parts) = Chunks[d] /\
                                \A n \in 1..Chunks[d] : parts[n] = Content(d, n)
    BY DEF Decodes
  <1>2. total = Chunks[d] /\ total \in 1..total /\ parts[total] = session[total]
    BY <1>1, PartsOf, UploadsAssumption
  <1>3. PICK last : last = session[total]
    OBVIOUS
  <1>4. last = [payload |-> Payload[d], part |-> total, tail |-> {d}]
    BY <1>1, <1>2, <1>3 DEF Content
  <1>5. last.tail = {d} /\ last # None
    BY <1>4, NotNone
  <1>6. Owner(parts) = CHOOSE e \in Deliveries : e \in last.tail
    <2>1. parts[Len(parts)] = last
      BY <1>2, <1>3, PartsOf
    <2> QED
      BY <2>1 DEF Owner
  <1>7. Owner(parts) = d
    BY <1>5, <1>6
  <1> QED
    BY <1>2, <1>3, <1>5, <1>7

\* The chunks of one delivery decode, and are taken for it.
LEMMA OwnSession ==
  ASSUME NEW d \in Deliveries, NEW session,
         \A m \in 1..Chunks[d] : session[m] = Content(d, m),
         NEW parts, parts = [i \in 1..Chunks[d] |-> session[i]]
  PROVE  Decodes(parts) /\ Owner(parts) = d
  <1>1. Chunks[d] \in Nat /\ Chunks[d] \in 1..Chunks[d]
    BY UploadsAssumption
  <1>2. Decodes(parts)
    BY <1>1, PartsOf DEF Decodes
  <1>3. session[Chunks[d]].tail = {Owner(parts)}
    BY <1>1, <1>2, DecodedOwner
  <1>4. session[Chunks[d]].tail = {d}
    <2>1. session[Chunks[d]] = Content(d, Chunks[d])
      BY <1>1
    <2>2. Content(d, Chunks[d]).tail = {d}
      BY DEF Content
    <2> QED
      BY <2>1, <2>2
  <1> QED
    BY <1>2, <1>3, <1>4

LEMMA ContentIs ==
  ASSUME NEW d \in Deliveries, NEW n \in 1..Chunks[d]
  PROVE  /\ Content(d, n) \in Contents /\ n \in 1..MaxChunks
         /\ Content(d, n) # None /\ (n < Chunks[d] => Content(d, n).tail = {})
  <1>1. Chunks[d] \in Nat /\ n \in 1..MaxChunks
    BY UploadsAssumption
  <1>2. Content(d, n) # None
    BY NotNone DEF Content
  <1>3. n < Chunks[d] => Content(d, n).tail = {}
    BY <1>1 DEF Content
  <1> QED
    BY <1>1, <1>2, <1>3 DEF Contents

Session == [1..MaxChunks -> Contents \cup {None}]

\* A command keeps the types of what it changes in the game.
LEMMA ChunkTypes ==
  ASSUME Typed, NEW d \in Deliveries, NEW n \in 1..Chunks[d], NEW reply,
         ImportPlatformChunk(d, n, reply)
  PROVE  /\ sessions' \in [Keys -> Session] /\ jobs' \subseteq Deliveries
         /\ UNCHANGED built
  <1>1. sessions \in [Keys -> Session] /\ jobs \subseteq Deliveries /\ Key[d] \in Keys
    BY UploadsAssumption DEF Typed, TypeOK, Session
  <1>2. PICK session : session = [sessions[Key[d]] EXCEPT ![n] = Content(d, n)]
    OBVIOUS
  <1>3. session \in Session
    BY <1>1, <1>2, ContentIs DEF Session
  <1>4. PICK parts : parts = [i \in 1..Chunks[d] |-> session[i]]
    OBVIOUS
  <1>5. EmptySession \in Session
    BY DEF EmptySession, Session
  <1>6. \/ sessions' = [sessions EXCEPT ![Key[d]] = session]
        \/ sessions' = [sessions EXCEPT ![Key[d]] = EmptySession]
    BY <1>2 DEF ImportPlatformChunk
  <1>7. UNCHANGED built /\ (jobs' = jobs \/ (Decodes(parts) /\ jobs' = jobs \cup {Owner(parts)}))
    BY <1>2, <1>4 DEF ImportPlatformChunk
  <1>8. Decodes(parts) => Owner(parts) \in Deliveries
    BY <1>4, DecodedOwner, UploadsAssumption
  <1> QED
    BY <1>1, <1>3, <1>5, <1>6, <1>7, <1>8

-----------------------------------------------------------------------------
(* Type correctness *)

LEMMA TypedInit == Init => Typed
  <1> SUFFICES ASSUME Init PROVE Typed
    OBVIOUS
  <1> USE DEF Init, game
  <1>1. EmptySession \in Session /\ sessions \in [Keys -> Session]
    BY DEF EmptySession, Session
  <1>2. /\ \A d \in Deliveries :
             next[d] = 1 /\ next[d] \in 1..Chunks[d] + 1 /\ delivery[d] # "sending"
        /\ next \in [Deliveries -> Nat]
    BY UploadsAssumption
  <1>3. saved \in [Keys -> Session] \X (SUBSET Deliveries) \X (SUBSET Ops)
    BY <1>1
  <1>4. faults \in 0..MaxFaults
    BY UploadsAssumption
  <1>5. link \in Seq(Messages)
    OBVIOUS
  <1>6. /\ record \in [Ops -> Statuses] /\ row \in [Ops -> Statuses]
        /\ answer \in [Ops -> {"none", "accepted", "refused", "lost"}]
        /\ delivery \in [Deliveries -> {"idle", "sending", "delivered", "failed", "accepted",
                                        "refused"}]
    BY DEF Statuses
  <1> QED
    BY <1>1, <1>2, <1>3, <1>4, <1>5, <1>6 DEF Typed, TypeOK, Session

Stages == {"idle", "sending", "delivered", "failed", "accepted", "refused"}

\* The game, the deliveries, and the rest, apart.
GameTyped ==
  /\ sessions \in [Keys -> Session] /\ jobs \subseteq Deliveries /\ built \subseteq Ops
  /\ saved \in [Keys -> Session] \X (SUBSET Deliveries) \X (SUBSET Ops)
DeliveryTyped ==
  /\ delivery \in [Deliveries -> Stages] /\ next \in [Deliveries -> Nat]
  /\ \A d \in Deliveries : /\ next[d] \in 1..Chunks[d] + 1
                           /\ delivery[d] = "idle" => next[d] = 1
                           /\ delivery[d] = "sending" => next[d] <= Chunks[d]
RecordTyped ==
  /\ record \in [Ops -> Statuses] /\ row \in [Ops -> Statuses]
  /\ answer \in [Ops -> {"none", "accepted", "refused", "lost"}] /\ held \subseteq Ops
LinkTyped ==
  link \in Seq(Messages) /\ faults \in 0..MaxFaults /\ excused \subseteq Ops

LEMMA TypedParts == Typed <=> GameTyped /\ DeliveryTyped /\ RecordTyped /\ LinkTyped
  BY DEF Typed, TypeOK, GameTyped, DeliveryTyped, RecordTyped, LinkTyped, Session, Stages

\* A chunk more, or a delivery that failed.
LEMMA ProgressTypes ==
  ASSUME DeliveryTyped, NEW d \in Deliveries, delivery[d] = "sending", NEW reply,
         Progress(d, reply)
  PROVE  DeliveryTyped'
  <1>1. Chunks[d] \in Nat /\ next[d] \in Nat /\ next[d] <= Chunks[d]
    BY UploadsAssumption DEF DeliveryTyped
  <1>2. \A e \in Deliveries : e # d => delivery'[e] = delivery[e] /\ next'[e] = next[e]
    BY DEF Progress, DeliveryTyped
  <1>3. delivery' \in [Deliveries -> Stages] /\ next' \in [Deliveries -> Nat]
    BY <1>1 DEF Progress, DeliveryTyped, Stages
  <1>4. /\ next'[d] \in 1..Chunks[d] + 1 /\ delivery'[d] # "idle"
        /\ delivery'[d] = "sending" => next'[d] <= Chunks[d]
    BY <1>1 DEF Progress, DeliveryTyped
  <1> QED
    BY <1>2, <1>3, <1>4 DEF DeliveryTyped

\* A delivery begins with its first chunk.
LEMMA BeginTypes ==
  ASSUME DeliveryTyped, NEW d \in Deliveries, delivery[d] = "idle",
         delivery' = [delivery EXCEPT ![d] = "sending"], UNCHANGED next
  PROVE  DeliveryTyped'
  <1>1. next[d] = 1 /\ next[d] <= Chunks[d]
    <2>1. next[d] = 1
      BY DEF DeliveryTyped
    <2>2. 1 <= Chunks[d]
      BY UploadsAssumption
    <2> QED
      BY <2>1, <2>2
  <1> QED
    BY <1>1 DEF DeliveryTyped, Stages

LEMMA FaultTypes ==
  ASSUME LinkTyped, NEW kind, Fault(kind)
  PROVE  faults' \in 0..MaxFaults
  BY UploadsAssumption DEF LinkTyped, Fault

LEMMA SettleTypes ==
  ASSUME RecordTyped, NEW d \in Ops, NEW status \in Statuses, Settle(d, status)
  PROVE  /\ record' \in [Ops -> Statuses] /\ row' \in [Ops -> Statuses] /\ held' \subseteq Ops
  BY DEF RecordTyped, Settle

LEMMA MessageIs ==
  ASSUME LinkTyped, link # <<>>
  PROVE  /\ Head(link) \in Messages /\ Tail(link) \in Seq(Messages) /\ Head(link).of \in Ops
         /\ Head(link).kind = "complete" => Head(link).outcome \in Terminal
         /\ Head(link).kind = "response" => Head(link).outcome \in {"accepted", "refused"}
  <1>1. Head(link) \in Messages /\ Tail(link) \in Seq(Messages)
    BY DEF LinkTyped
  <1> QED
    BY <1>1 DEF Messages

LEMMA TypedStep == Typed /\ [Next]_vars => Typed'
  <1> SUFFICES ASSUME Typed, [Next]_vars PROVE Typed'
    OBVIOUS
  <1> USE DEF vars, controller, game
  <1>0. GameTyped /\ DeliveryTyped /\ RecordTyped /\ LinkTyped
    BY TypedParts
  <1>p. GameTyped' /\ DeliveryTyped' /\ RecordTyped' /\ LinkTyped' => Typed'
    BY DEF Typed, TypeOK, GameTyped, DeliveryTyped, RecordTyped, LinkTyped, Session, Stages
  <1>1. ASSUME NEW d \in Ops, Request(d) PROVE Typed'
    <2>1. GameTyped' /\ LinkTyped'
      BY <1>0, <1>1 DEF Request, GameTyped, LinkTyped
    <2>2. DeliveryTyped'
      BY <1>0, <1>1, BeginTypes DEF Request, Deliveries
    <2>3. RecordTyped'
      BY <1>0, <1>1 DEF Request, RecordTyped, Statuses
    <2> QED
      BY <1>p, <2>1, <2>2, <2>3
  <1>2. ASSUME NEW d \in Deliveries, ImportFile(d) PROVE Typed'
    <2>1. GameTyped' /\ RecordTyped' /\ LinkTyped'
      BY <1>0, <1>2 DEF ImportFile, GameTyped, RecordTyped, LinkTyped
    <2>2. DeliveryTyped'
      BY <1>0, <1>2, BeginTypes DEF ImportFile
    <2> QED
      BY <1>p, <2>1, <2>2
  <1>3. ASSUME NEW d \in Deliveries, SendChunk(d) PROVE Typed'
    <2>1. PICK reply : ImportPlatformChunk(d, next[d], reply) /\ Progress(d, reply)
      BY <1>3 DEF SendChunk
    <2>2. delivery[d] = "sending" /\ UNCHANGED <<controller, saved, link, faults, excused>>
      BY <1>3 DEF SendChunk
    <2>3. next[d] \in 1..Chunks[d]
      BY <1>0, <2>2, UploadsAssumption DEF DeliveryTyped
    <2>4. GameTyped'
      BY <1>0, <2>1, <2>2, <2>3, ChunkTypes DEF GameTyped
    <2>5. DeliveryTyped'
      BY <1>0, <2>1, <2>2, ProgressTypes
    <2>6. RecordTyped' /\ LinkTyped'
      BY <1>0, <2>2 DEF RecordTyped, LinkTyped
    <2> QED
      BY <1>p, <2>4, <2>5, <2>6
  <1>4. ASSUME NEW d \in Deliveries, LoseCommand(d) PROVE Typed'
    <2>1. /\ delivery[d] = "sending" /\ Fault("lost_command") /\ Progress(d, "error")
          /\ UNCHANGED <<controller, game, saved, link, excused>>
      BY <1>4 DEF LoseCommand
    <2>2. DeliveryTyped' /\ faults' \in 0..MaxFaults
      BY <1>0, <2>1, ProgressTypes, FaultTypes
    <2>3. GameTyped' /\ RecordTyped' /\ LinkTyped'
      BY <1>0, <2>1, <2>2 DEF GameTyped, RecordTyped, LinkTyped
    <2> QED
      BY <1>p, <2>2, <2>3
  <1>5. ASSUME NEW d \in Deliveries, LoseReply(d) PROVE Typed'
    <2>1. PICK reply : ImportPlatformChunk(d, next[d], reply)
      BY <1>5 DEF LoseReply
    <2>2. /\ delivery[d] = "sending" /\ Fault("lost_reply") /\ Progress(d, "error")
          /\ UNCHANGED <<controller, saved, link, excused>>
      BY <1>5 DEF LoseReply
    <2>3. next[d] \in 1..Chunks[d]
      BY <1>0, <2>2, UploadsAssumption DEF DeliveryTyped
    <2>4. GameTyped'
      BY <1>0, <2>1, <2>2, <2>3, ChunkTypes DEF GameTyped
    <2>5. DeliveryTyped' /\ faults' \in 0..MaxFaults
      BY <1>0, <2>2, ProgressTypes, FaultTypes
    <2>6. RecordTyped' /\ LinkTyped'
      BY <1>0, <2>2, <2>5 DEF RecordTyped, LinkTyped
    <2> QED
      BY <1>p, <2>4, <2>5, <2>6
  <1>6. ASSUME NEW d \in Ops, Respond(d) PROVE Typed'
    <2>1. PICK stage \in {"accepted", "refused"} :
            /\ delivery' = [delivery EXCEPT ![d] = stage]
            /\ link' = Append(link, [kind |-> "response", of |-> d, outcome |-> delivery'[d]])
      BY <1>6 DEF Respond
    <2>2. UNCHANGED <<controller, next, game, saved, faults, excused>> /\ d \in Deliveries
      BY <1>6 DEF Respond, Deliveries
    <2>3. DeliveryTyped' /\ delivery'[d] = stage
      BY <1>0, <2>1, <2>2 DEF DeliveryTyped, Stages
    <2>4. [kind |-> "response", of |-> d, outcome |-> stage] \in Messages
      BY DEF Messages
    <2>5. LinkTyped'
      BY <1>0, <2>1, <2>2, <2>3, <2>4 DEF LinkTyped
    <2>6. GameTyped' /\ RecordTyped'
      BY <1>0, <2>2 DEF GameTyped, RecordTyped
    <2> QED
      BY <1>p, <2>3, <2>5, <2>6
  <1>7. ASSUME NEW d \in Deliveries, NEW o \in Terminal, RunJob(d, o) \/ LoseEvent(d, o)
        PROVE  Typed'
    <2>1. Outcome(d, o)
      BY <1>7 DEF RunJob, LoseEvent
    <2>2. GameTyped' /\ DeliveryTyped' /\ RecordTyped'
      BY <1>0, <2>1 DEF Outcome, GameTyped, DeliveryTyped, RecordTyped
    <2>3. CASE LoseEvent(d, o)
      <3>1. Fault("lost_event") /\ d \in Ops /\ excused' = excused \cup {d} /\ UNCHANGED link
        BY <2>3 DEF LoseEvent
      <3>2. LinkTyped'
        BY <1>0, <3>1, FaultTypes DEF LinkTyped
      <3> QED
        BY <1>p, <2>2, <3>2
    <2>4. CASE RunJob(d, o)
      <3>1. d \in Ops => [kind |-> "complete", of |-> d, outcome |-> o] \in Messages
        BY DEF Messages
      <3>2. LinkTyped'
        BY <1>0, <2>4, <3>1 DEF RunJob, LinkTyped
      <3> QED
        BY <1>p, <2>2, <3>2
    <2> QED
      BY <1>7, <2>3, <2>4
  <1>8. CASE HandleResponse
    <2>1. /\ link # <<>> /\ Head(link).kind = "response" /\ link' = Tail(link)
          /\ UNCHANGED <<delivery, next, game, saved, faults, excused>>
      BY <1>8 DEF HandleResponse
    <2>2. GameTyped' /\ DeliveryTyped' /\ LinkTyped'
      BY <1>0, <2>1, MessageIs DEF GameTyped, DeliveryTyped, LinkTyped
    <2>3. RecordTyped'
      <3>1. PICK d \in Ops, o \in {"accepted", "refused"} :
              \/ UNCHANGED controller
              \/ /\ answer' = [answer EXCEPT ![d] = o]
                 /\ Settle(d, IF o = "accepted" THEN "awaiting_completion" ELSE "failed")
        BY <1>0, <1>8, <2>1, MessageIs DEF HandleResponse
      <3>2. CASE UNCHANGED controller
        BY <1>0, <3>2 DEF RecordTyped
      <3>3. CASE /\ answer' = [answer EXCEPT ![d] = o]
                 /\ Settle(d, IF o = "accepted" THEN "awaiting_completion" ELSE "failed")
        <4>1. \A s \in {"awaiting_completion", "failed"} : s \in Statuses
          BY DEF Statuses, Terminal
        <4>2. PICK s \in Statuses : Settle(d, s)
          BY <3>3, <4>1
        <4>3. answer' \in [Ops -> {"none", "accepted", "refused", "lost"}]
          BY <1>0, <3>3 DEF RecordTyped
        <4> QED
          BY <1>0, <4>2, <4>3, SettleTypes DEF RecordTyped
      <3> QED
        BY <3>1, <3>2, <3>3
    <2> QED
      BY <1>p, <2>2, <2>3
  <1>9. ASSUME NEW d \in Ops, LoseSession(d) PROVE Typed'
    <2>1. /\ Fault("lost_session") /\ answer' = [answer EXCEPT ![d] = "refused"]
          /\ Settle(d, "failed") /\ UNCHANGED <<delivery, next, game, saved, link, excused>>
      BY <1>9 DEF LoseSession
    <2>2. RecordTyped'
      <3>1. "failed" \in Statuses
        BY DEF Statuses, Terminal
      <3>2. answer' \in [Ops -> {"none", "accepted", "refused", "lost"}]
        BY <1>0, <2>1 DEF RecordTyped
      <3> QED
        BY <1>0, <2>1, <3>1, <3>2, SettleTypes DEF RecordTyped
    <2>3. GameTyped' /\ DeliveryTyped' /\ LinkTyped'
      BY <1>0, <2>1, FaultTypes DEF GameTyped, DeliveryTyped, LinkTyped
    <2> QED
      BY <1>p, <2>2, <2>3
  <1>10. CASE HandleComplete
    <2>1. PICK d \in Ops, o \in Terminal :
            /\ record' = [record EXCEPT ![d] = o] /\ row' = [row EXCEPT ![d] = o]
            /\ link' = Tail(link) /\ link # <<>>
            /\ UNCHANGED <<answer, held, delivery, next, game, saved, faults, excused>>
      BY <1>0, <1>10, MessageIs DEF HandleComplete
    <2>2. GameTyped' /\ DeliveryTyped' /\ LinkTyped'
      BY <1>0, <2>1, MessageIs DEF GameTyped, DeliveryTyped, LinkTyped
    <2>3. RecordTyped'
      BY <1>0, <2>1 DEF RecordTyped, Statuses
    <2> QED
      BY <1>p, <2>2, <2>3
  <1>11. ASSUME NEW d \in Ops, Prune(d) PROVE Typed'
    <2>1. /\ Fault("prune") /\ record' = [record EXCEPT ![d] = "none"] /\ held' = held \ {d}
          /\ UNCHANGED <<row, answer, delivery, next, game, saved, link, excused>>
      BY <1>11 DEF Prune
    <2>2. GameTyped' /\ DeliveryTyped' /\ LinkTyped' /\ RecordTyped'
      BY <1>0, <2>1, FaultTypes DEF GameTyped, DeliveryTyped, LinkTyped, RecordTyped, Statuses
    <2> QED
      BY <1>p, <2>2
  <1>12. CASE ControllerRestart
    <2>1. /\ Fault("controller") /\ link' = <<>>
          /\ UNCHANGED <<row, delivery, next, game, saved>>
      BY <1>12 DEF ControllerRestart
    <2>2. excused' \subseteq Ops
      <3>1. \A n \in DOMAIN link : link[n].of \in Ops
        <4>1. \A n \in DOMAIN link : link[n] \in Messages
          BY <1>0 DEF LinkTyped
        <4> QED
          BY <4>1 DEF Messages
      <3> QED
        BY <1>0, <1>12, <3>1 DEF ControllerRestart, LinkTyped
    <2>3. LinkTyped'
      BY <1>0, <2>1, <2>2, FaultTypes DEF LinkTyped
    <2>4. RecordTyped'
      BY <1>0, <1>12, <2>1 DEF ControllerRestart, RecordTyped, Statuses
    <2>5. GameTyped' /\ DeliveryTyped'
      BY <1>0, <2>1 DEF GameTyped, DeliveryTyped
    <2> QED
      BY <1>p, <2>3, <2>4, <2>5
  <1>13. CASE Save
    <2>1. saved' = <<sessions, jobs, built>>
          /\ UNCHANGED <<controller, delivery, next, game, link, faults, excused>>
      BY <1>13 DEF Save
    <2>2. GameTyped' /\ DeliveryTyped' /\ LinkTyped' /\ RecordTyped'
      BY <1>0, <2>1 DEF GameTyped, DeliveryTyped, LinkTyped, RecordTyped
    <2> QED
      BY <1>p, <2>2
  <1>14. CASE GameRestart
    <2>1. /\ Fault("game") /\ sessions' = saved[1] /\ jobs' = saved[2] /\ built' = saved[3]
          /\ delivery' = [d \in Deliveries |-> IF delivery[d] = "sending" THEN "failed"
                                                ELSE delivery[d]]
          /\ excused' = excused \cup (((jobs \cup built) \cap Ops) \ (saved[2] \cup saved[3]))
          /\ UNCHANGED <<controller, next, saved, link>>
      BY <1>14 DEF GameRestart
    <2>2. GameTyped' /\ RecordTyped'
      BY <1>0, <2>1 DEF GameTyped, RecordTyped
    <2>3. LinkTyped'
      BY <1>0, <2>1, FaultTypes DEF LinkTyped
    <2>4. DeliveryTyped'
      BY <1>0, <2>1 DEF DeliveryTyped, Stages
    <2> QED
      BY <1>p, <2>2, <2>3, <2>4
  <1>15. CASE UNCHANGED vars
    BY <1>0, <1>p, <1>15 DEF GameTyped, DeliveryTyped, LinkTyped, RecordTyped
  <1> QED
    BY <1>1, <1>2, <1>3, <1>4, <1>5, <1>6, <1>7, <1>8, <1>9, <1>10, <1>11, <1>12, <1>13,
       <1>14, <1>15 DEF Next

\* Uploads and file imports keep their types, whatever is lost and whatever restarts.
THEOREM TypesAlways == Spec => []TypeOK
  <1>1. Typed => TypeOK
    BY DEF Typed
  <1> QED
    BY <1>1, TypedInit, TypedStep, PTL DEF Spec

-----------------------------------------------------------------------------
(* What a command does to the session of its delivery *)

LEMMA ChunkEffect ==
  ASSUME Typed, SessionInv, NEW d \in Deliveries, delivery[d] = "sending", NEW reply,
         ImportPlatformChunk(d, next[d], reply)
  PROVE  /\ UNCHANGED jobs \/ (jobs' = jobs \cup {d} /\ next[d] = Chunks[d])
         /\ Tailless(sessions') /\ UNCHANGED built
         /\ \A k \in Keys : k # Key[d] => sessions'[k] = sessions[k]
         /\ reply = "ok" => IF next[d] = Chunks[d] THEN d \in jobs'
                            ELSE \A m \in 1..next[d] : sessions'[Key[d]][m] = Content(d, m)
  <1> DEFINE n == next[d]
             total == Chunks[d]
             k == Key[d]
  <1>1. /\ n \in 1..total /\ total \in 1..MaxChunks /\ k \in Keys
        /\ sessions \in [Keys -> Session] /\ n \in Nat /\ total \in Nat /\ MaxChunks \in Nat
    BY UploadsAssumption DEF Typed, TypeOK, Session
  <1>2. PICK session : session = [sessions[k] EXCEPT ![n] = Content(d, n)]
    OBVIOUS
  <1>3. /\ session[n] = Content(d, n) /\ session \in Session
        /\ \A m \in 1..MaxChunks : m # n => session[m] = sessions[k][m]
    BY <1>1, <1>2, ContentIs DEF Session
  <1>4. \A m \in 1..n : session[m] = Content(d, m)
    <2>1. \A m \in 1..n - 1 : sessions[k][m] = Content(d, m)
      BY DEF SessionInv, Progressing
    <2> QED
      BY <1>1, <1>3, <2>1
  <1>5. PICK parts : parts = [i \in 1..total |-> session[i]]
    OBVIOUS
  <1>6. /\ UNCHANGED built
        /\ \/ /\ Missing(session, total) # {}
              /\ sessions' = [sessions EXCEPT ![k] = session] /\ UNCHANGED jobs
           \/ /\ Missing(session, total) = {}
              /\ sessions' = [sessions EXCEPT ![k] = EmptySession]
              /\ reply = IF Decodes(parts) THEN "ok" ELSE "error"
              /\ jobs' = IF Decodes(parts) THEN jobs \cup {Owner(parts)} ELSE jobs
    BY <1>2, <1>5 DEF ImportPlatformChunk
  <1>7. \A q \in Keys : q # k => sessions'[q] = sessions[q]
    BY <1>1, <1>6
  <1>8. \A q \in Keys : \A m \in 1..MaxChunks :
          sessions[q][m] # None => sessions[q][m].tail = {}
    BY DEF SessionInv, Tailless
  <1>9. CASE Missing(session, total) # {}
    <2>1. n < total
      <3>1. PICK m \in 1..total : session[m] = None
        BY <1>9 DEF Missing
      <3>2. m \notin 1..n
        <4>1. ASSUME m \in 1..n PROVE FALSE
          <5>1. m \in 1..Chunks[d] /\ session[m] = Content(d, m)
            BY <1>1, <1>4, <4>1
          <5> QED
            BY <3>1, <5>1, ContentIs
        <4> QED
          BY <4>1
      <3> QED
        BY <1>1, <3>2
    <2>2. sessions' = [sessions EXCEPT ![k] = session] /\ UNCHANGED jobs
      BY <1>6, <1>9
    <2>3. sessions'[k] = session
      BY <1>1, <2>2
    <2>4. Content(d, n).tail = {}
      BY <1>1, <2>1, ContentIs
    <2>5. Tailless(sessions')
      <3> SUFFICES ASSUME NEW q \in Keys, NEW m \in 1..MaxChunks, sessions'[q][m] # None
                   PROVE  sessions'[q][m].tail = {}
        BY DEF Tailless
      <3>1. CASE q = k /\ m = n
        BY <1>3, <2>3, <2>4, <3>1
      <3>2. CASE ~(q = k /\ m = n)
        <4>1. sessions'[q][m] = sessions[q][m]
          BY <1>3, <1>7, <2>3, <3>2
        <4> QED
          BY <1>8, <4>1
      <3> QED
        BY <3>1, <3>2
    <2> QED
      BY <1>1, <1>4, <1>6, <1>7, <2>1, <2>2, <2>3, <2>5
  <1>10. CASE Missing(session, total) = {}
    <2>1. sessions'[k] = EmptySession
      BY <1>1, <1>6, <1>10
    <2>2. Tailless(sessions')
      <3>1. \A m \in 1..MaxChunks : EmptySession[m] = None
        BY DEF EmptySession
      <3> QED
        BY <1>7, <1>8, <2>1, <3>1 DEF Tailless
    <2>3. CASE n = total
      <3>1. \A m \in 1..Chunks[d] : session[m] = Content(d, m)
        BY <1>4, <2>3
      <3>2. Decodes(parts) /\ Owner(parts) = d
        BY <1>5, <3>1, OwnSession
      <3>3. jobs' = jobs \cup {d}
        BY <1>6, <1>10, <3>2
      <3> QED
        BY <1>6, <1>7, <2>2, <2>3, <3>3
    <2>4. CASE n # total
      <3>1. ~Decodes(parts)
        <4> SUFFICES ASSUME Decodes(parts) PROVE FALSE
          OBVIOUS
        <4>1. session[total] # None /\ session[total].tail = {Owner(parts)}
          BY <1>1, <1>5, DecodedOwner
        <4>2. session[total] = sessions[k][total]
          BY <1>1, <1>3, <2>4
        <4>3. session[total].tail = {}
          BY <1>1, <1>8, <4>1, <4>2
        <4> QED
          BY <4>1, <4>3
      <3>2. UNCHANGED jobs /\ reply = "error"
        BY <1>6, <1>10, <3>1
      <3> QED
        BY <1>6, <1>7, <2>2, <3>2
    <2> QED
      BY <2>3, <2>4
  <1> QED
    BY <1>9, <1>10

\* Where a delivery goes, and which one.
LEMMA ProgressEffect ==
  ASSUME Typed, NEW d \in Deliveries, NEW reply, Progress(d, reply)
  PROVE  /\ \A e \in Deliveries : e # d => delivery'[e] = delivery[e] /\ next'[e] = next[e]
         /\ reply # "ok" => delivery'[d] = "failed"
         /\ reply = "ok" => /\ next'[d] = next[d] + 1
                            /\ next[d] < Chunks[d] => delivery'[d] = delivery[d]
                            /\ ~(next[d] < Chunks[d]) => delivery'[d] = "delivered"
  BY DEF Typed, TypeOK, Progress

LEMMA SessionInit == Init => SessionInv
  <1> SUFFICES ASSUME Init PROVE SessionInv
    OBVIOUS
  <1>1. \A k \in Keys : sessions[k] = EmptySession /\ saved[1][k] = EmptySession
    BY DEF Init, game
  <1>2. \A m \in 1..MaxChunks : EmptySession[m] = None
    BY DEF EmptySession
  <1>3. \A d \in Deliveries : delivery[d] # "sending"
    BY DEF Init
  <1> QED
    BY <1>1, <1>2, <1>3 DEF SessionInv, Tailless, Alone, Progressing

\* A delivery begins when no other has its key.
LEMMA BeginSession ==
  ASSUME OneByOne, Typed, SessionInv, NEW d \in Deliveries, KeyFree(d), delivery[d] = "idle",
         delivery' = [delivery EXCEPT ![d] = "sending"], UNCHANGED <<sessions, saved, next>>
  PROVE  SessionInv'
  <1>1. /\ delivery'[d] = "sending" /\ next[d] = 1
        /\ \A e \in Deliveries : e # d => delivery'[e] = delivery[e]
    BY DEF Typed, TypeOK
  <1>2. \A e \in Deliveries : e # d /\ Key[e] = Key[d] => delivery[e] # "sending"
    BY DEF KeyFree, OneByOne
  <1>3. Alone'
    BY <1>1, <1>2 DEF SessionInv, Alone
  <1>4. Progressing'
    BY <1>1 DEF SessionInv, Progressing
  <1> QED
    BY <1>3, <1>4 DEF SessionInv, Tailless

\* A chunk is delivered, or lost on its way back.
LEMMA ChunkSession ==
  ASSUME Typed, SessionInv, NEW d \in Deliveries, delivery[d] = "sending",
         NEW reply, ImportPlatformChunk(d, next[d], reply),
         NEW heard, Progress(d, heard), heard = "ok" => reply = "ok", UNCHANGED saved
  PROVE  SessionInv'
  <1>1. /\ UNCHANGED jobs \/ (jobs' = jobs \cup {d} /\ next[d] = Chunks[d])
        /\ Tailless(sessions') /\ UNCHANGED built
        /\ \A k \in Keys : k # Key[d] => sessions'[k] = sessions[k]
        /\ reply = "ok" => IF next[d] = Chunks[d] THEN d \in jobs'
                           ELSE \A m \in 1..next[d] : sessions'[Key[d]][m] = Content(d, m)
    BY ChunkEffect
  <1>2. /\ \A e \in Deliveries : e # d => delivery'[e] = delivery[e] /\ next'[e] = next[e]
        /\ heard # "ok" => delivery'[d] = "failed"
        /\ heard = "ok" => /\ next'[d] = next[d] + 1
                           /\ next[d] < Chunks[d] => delivery'[d] = delivery[d]
                           /\ ~(next[d] < Chunks[d]) => delivery'[d] = "delivered"
    BY ProgressEffect
  <1>3. Alone'
    BY <1>2 DEF SessionInv, Alone
  <1>4. Progressing'
    <2> SUFFICES ASSUME NEW e \in Deliveries, delivery'[e] = "sending"
                 PROVE  \A m \in 1..next'[e] - 1 : sessions'[Key[e]][m] = Content(e, m)
      BY DEF Progressing
    <2>1. CASE e = d
      <3>1. heard = "ok" /\ next[d] < Chunks[d] /\ next'[d] = next[d] + 1 /\ next[d] \in Nat
        BY <1>2, <2>1 DEF Typed
      <3>2. \A m \in 1..next[d] : sessions'[Key[d]][m] = Content(d, m)
        BY <1>1, <3>1, UploadsAssumption
      <3> QED
        BY <2>1, <3>1, <3>2
    <2>2. CASE e # d
      <3>1. delivery[e] = "sending" /\ next'[e] = next[e]
        BY <1>2, <2>2
      <3>2. Key[e] # Key[d] /\ Key[e] \in Keys
        BY <2>2, <3>1, UploadsAssumption DEF SessionInv, Alone
      <3>3. \A m \in 1..next[e] - 1 : sessions[Key[e]][m] = Content(e, m)
        BY <3>1 DEF SessionInv, Progressing
      <3> QED
        BY <1>1, <3>1, <3>2, <3>3
    <2> QED
      BY <2>1, <2>2
  <1>5. Tailless(saved[1])'
    BY DEF SessionInv, Tailless
  <1>6. Tailless(sessions)'
    BY <1>1 DEF Tailless
  <1> QED
    BY <1>3, <1>4, <1>5, <1>6 DEF SessionInv

\* Fewer deliveries are sending, and the sessions stay.
LEMMA FewerSending ==
  ASSUME SessionInv, UNCHANGED <<sessions, saved>>,
         \A e \in Deliveries : delivery'[e] = "sending" =>
           delivery[e] = "sending" /\ next'[e] = next[e]
  PROVE  SessionInv'
  BY DEF SessionInv, Tailless, Alone, Progressing

LEMMA SessionStep ==
  ASSUME OneByOne, Typed, SessionInv, [Next]_vars
  PROVE  SessionInv'
  <1> USE DEF vars, controller, game
  <1>0. delivery \in [Deliveries -> Stages] /\ Ops \subseteq Deliveries
    BY DEF Typed, TypeOK, Stages, Deliveries
  <1>1. ASSUME NEW d \in Ops, Request(d) PROVE SessionInv'
    BY <1>0, <1>1, BeginSession DEF Request
  <1>2. ASSUME NEW d \in Deliveries, ImportFile(d) PROVE SessionInv'
    BY <1>2, BeginSession DEF ImportFile
  <1>3. ASSUME NEW d \in Deliveries, SendChunk(d) PROVE SessionInv'
    BY <1>3, ChunkSession DEF SendChunk
  <1>4. ASSUME NEW d \in Deliveries, LoseCommand(d) PROVE SessionInv'
    <2>1. Progress(d, "error") /\ UNCHANGED <<sessions, saved>>
      BY <1>4 DEF LoseCommand
    <2>2. \A e \in Deliveries : delivery'[e] = "sending" =>
            delivery[e] = "sending" /\ next'[e] = next[e]
      BY <2>1, ProgressEffect
    <2> QED
      BY <2>1, <2>2, FewerSending
  <1>5. ASSUME NEW d \in Deliveries, LoseReply(d) PROVE SessionInv'
    BY <1>5, ChunkSession DEF LoseReply
  <1>6. ASSUME NEW d \in Ops, Respond(d) PROVE SessionInv'
    BY <1>0, <1>6, FewerSending DEF Respond
  <1>7. ASSUME NEW d \in Deliveries, NEW o \in Terminal, RunJob(d, o) \/ LoseEvent(d, o)
        PROVE  SessionInv'
    BY <1>7, FewerSending DEF RunJob, LoseEvent, Outcome
  <1>8. ASSUME NEW d \in Ops, LoseSession(d) \/ Prune(d) PROVE SessionInv'
    BY <1>8, FewerSending DEF LoseSession, Prune
  <1>9. CASE HandleResponse \/ HandleComplete \/ ControllerRestart
    BY <1>9, FewerSending DEF HandleResponse, HandleComplete, ControllerRestart
  <1>10. CASE Save
    <2>1. saved'[1] = sessions /\ UNCHANGED <<sessions, delivery, next>>
      BY <1>10 DEF Save
    <2> QED
      BY <2>1 DEF SessionInv, Tailless, Alone, Progressing
  <1>11. CASE GameRestart
    <2>1. sessions' = saved[1] /\ UNCHANGED saved /\ \A d \in Deliveries : delivery'[d] # "sending"
      BY <1>11 DEF GameRestart
    <2> QED
      BY <2>1 DEF SessionInv, Tailless, Alone, Progressing
  <1>12. CASE UNCHANGED vars
    BY <1>12, FewerSending
  <1> QED
    BY <1>1, <1>2, <1>3, <1>4, <1>5, <1>6, <1>7, <1>8, <1>9, <1>10, <1>11, <1>12 DEF Next

\* A delivery that is reported as done was queued, and as it was sent: what earlier
\* deliveries left in the session of its key completes none, and is not taken for a part
\* of it.  It takes that deliveries under one key do not overlap.
THEOREM DeliveriesQueued ==
  ASSUME OneByOne
  PROVE  Spec => DeliveredIsQueued
  <1> DEFINE Inv == Typed /\ SessionInv
  <1>1. Init => Inv
    BY TypedInit, SessionInit
  <1>2. Inv /\ [Next]_vars => Inv'
    BY TypedStep, SessionStep
  <1>3. Inv /\ [Next]_vars =>
          [\A d \in Deliveries :
             delivery[d] = "sending" /\ delivery'[d] = "delivered" => d \in jobs']_vars
    <2> SUFFICES ASSUME Typed, SessionInv, Next, NEW d \in Deliveries,
                        delivery[d] = "sending", delivery'[d] = "delivered"
                 PROVE  d \in jobs'
      OBVIOUS
    <2> USE DEF controller
    <2>0. delivery \in [Deliveries -> Stages] /\ Ops \subseteq Deliveries
      BY DEF Typed, TypeOK, Stages, Deliveries
    <2>1. ASSUME NEW e \in Deliveries, SendChunk(e) PROVE d \in jobs'
      <3>1. PICK reply : ImportPlatformChunk(e, next[e], reply) /\ Progress(e, reply)
        BY <2>1 DEF SendChunk
      <3>2. e = d /\ reply = "ok" /\ ~(next[d] < Chunks[d])
        BY <3>1, ProgressEffect
      <3>3. next[d] = Chunks[d]
        BY <3>2, UploadsAssumption DEF Typed
      <3> QED
        BY <3>1, <3>2, <3>3, ChunkEffect
    <2>2. ASSUME NEW e \in Deliveries, LoseCommand(e) \/ LoseReply(e) PROVE d \in jobs'
      <3>1. Progress(e, "error")
        BY <2>2 DEF LoseCommand, LoseReply
      <3> QED
        BY <3>1, ProgressEffect
    <2>3. ASSUME NEW e \in Deliveries, NEW o \in Terminal,
                 ImportFile(e) \/ RunJob(e, o) \/ LoseEvent(e, o)
          PROVE  d \in jobs'
      BY <2>0, <2>3 DEF ImportFile, RunJob, LoseEvent, Outcome
    <2>4. ASSUME NEW e \in Ops, Request(e) \/ Respond(e) \/ LoseSession(e) \/ Prune(e)
          PROVE  d \in jobs'
      BY <2>0, <2>4 DEF Request, Respond, LoseSession, Prune
    <2>5. CASE HandleResponse \/ HandleComplete \/ ControllerRestart \/ Save \/ GameRestart
      BY <2>0, <2>5 DEF HandleResponse, HandleComplete, ControllerRestart, Save, GameRestart
    <2>6. \/ \E e \in Ops : Request(e) \/ Respond(e) \/ LoseSession(e) \/ Prune(e)
          \/ \E e \in Deliveries : ImportFile(e) \/ SendChunk(e) \/ LoseCommand(e) \/ LoseReply(e)
          \/ \E e \in Deliveries : \E o \in Terminal : RunJob(e, o) \/ LoseEvent(e, o)
          \/ HandleResponse \/ HandleComplete \/ ControllerRestart \/ Save \/ GameRestart
      BY DEF Next
    <2>7. Terminal # {}
      BY DEF Terminal
    <2> QED
      BY <2>1, <2>2, <2>3, <2>4, <2>5, <2>6, <2>7
  <1> QED
    BY <1>1, <1>2, <1>3, PTL DEF Spec, DeliveredIsQueued

-----------------------------------------------------------------------------
(* Messages *)

LEMMA Pushed ==
  ASSUME NEW S, NEW q \in Seq(S), NEW e \in S, NEW r, r = Append(q, e)
  PROVE  /\ Len(q) \in Nat /\ DOMAIN q = 1..Len(q) /\ DOMAIN r = 1..Len(q) + 1
         /\ r[Len(q) + 1] = e /\ \A n \in 1..Len(q) : r[n] = q[n]
  OBVIOUS

LEMMA Popped ==
  ASSUME NEW S, NEW q \in Seq(S), NEW r, q # <<>>, r = Tail(q)
  PROVE  /\ Len(q) \in Nat /\ DOMAIN q = 1..Len(q) /\ DOMAIN r = 1..Len(q) - 1
         /\ 1 \in DOMAIN q /\ Head(q) = q[1] /\ \A n \in DOMAIN r : r[n] = q[n + 1]
  OBVIOUS

LEMMA LinkIs ==
  ASSUME Typed
  PROVE  \A n \in DOMAIN link : link[n] \in Messages /\ link[n].of \in Ops
  <1>1. \A n \in DOMAIN link : link[n] \in Messages
    BY DEF Typed, TypeOK
  <1> QED
    BY <1>1 DEF Messages

\* A message is sent, or taken.
LEMMA LinkGrows ==
  ASSUME Typed, NEW m \in Messages, link' = Append(link, m)
  PROVE  /\ Len(link) \in Nat /\ DOMAIN link = 1..Len(link) /\ DOMAIN link' = 1..Len(link) + 1
         /\ link'[Len(link) + 1] = m /\ \A n \in 1..Len(link) : link'[n] = link[n]
  <1>1. PICK q \in Seq(Messages) : q = link
    BY DEF Typed, TypeOK
  <1>2. PICK r : r = link'
    OBVIOUS
  <1> QED
    BY <1>1, <1>2, Pushed

LEMMA LinkShrinks ==
  ASSUME Typed, link # <<>>, link' = Tail(link)
  PROVE  /\ Len(link) \in Nat /\ DOMAIN link = 1..Len(link) /\ DOMAIN link' = 1..Len(link) - 1
         /\ 1 \in DOMAIN link /\ Head(link) = link[1]
         /\ \A n \in DOMAIN link' : link'[n] = link[n + 1]
         /\ \A n \in DOMAIN link : n = 1 \/ (n - 1 \in DOMAIN link' /\ link'[n - 1] = link[n])
  <1>1. PICK q \in Seq(Messages) : q = link
    BY DEF Typed, TypeOK
  <1>2. PICK r : r = link'
    OBVIOUS
  <1>3. /\ Len(q) \in Nat /\ DOMAIN q = 1..Len(q) /\ DOMAIN r = 1..Len(q) - 1
        /\ 1 \in DOMAIN q /\ Head(q) = q[1] /\ \A n \in DOMAIN r : r[n] = q[n + 1]
    BY <1>1, <1>2, Popped
  <1>4. \A n \in DOMAIN q : n = 1 \/ (n - 1 \in DOMAIN r /\ r[n - 1] = q[n])
    <2> SUFFICES ASSUME NEW n \in DOMAIN q, n # 1 PROVE n - 1 \in DOMAIN r /\ r[n - 1] = q[n]
      OBVIOUS
    <2>1. n \in 1..Len(q) /\ n - 1 \in DOMAIN r /\ (n - 1) + 1 = n
      BY <1>3
    <2> QED
      BY <1>3, <2>1
  <1> QED
    BY <1>1, <1>2, <1>3, <1>4

\* The last word on an upload stays what it is when an answer is sent, ...
LEMMA WordSame ==
  ASSUME NEW d, LastWord(d), UNCHANGED link, row'[d] = "completed" <=> row[d] = "completed",
         d \in built' <=> d \in built
  PROVE  LastWord(d)'
  BY DEF LastWord, IsComplete

LEMMA WordGrows ==
  ASSUME Typed, NEW d, LastWord(d), NEW m \in Messages, link' = Append(link, m),
         m.kind # "complete" \/ m.of # d,
         row'[d] = "completed" <=> row[d] = "completed", d \in built' <=> d \in built
  PROVE  LastWord(d)'
  <1>1. PICK L \in Nat :
          /\ DOMAIN link = 1..L /\ DOMAIN link' = 1..L + 1
          /\ link'[L + 1] = m /\ \A n \in 1..L : link'[n] = link[n]
    BY LinkGrows
  <1>2. /\ \A n \in DOMAIN link : n \in DOMAIN link' /\ (IsComplete(n, d)' <=> IsComplete(n, d))
        /\ ~IsComplete(L + 1, d)'
    BY <1>1 DEF IsComplete
  <1>3. CASE /\ \A n \in DOMAIN link : ~IsComplete(n, d)
             /\ row[d] = "completed" <=> d \in built
    <2>1. \A n \in DOMAIN link' : ~IsComplete(n, d)'
      BY <1>1, <1>2, <1>3
    <2> QED
      BY <1>3, <2>1 DEF LastWord
  <1>4. CASE \E n \in DOMAIN link :
               /\ IsComplete(n, d) /\ \A k \in DOMAIN link : k > n => ~IsComplete(k, d)
               /\ link[n].outcome = "completed" <=> d \in built
    <2>1. PICK n \in DOMAIN link :
            /\ IsComplete(n, d) /\ \A k \in DOMAIN link : k > n => ~IsComplete(k, d)
            /\ link[n].outcome = "completed" <=> d \in built
      BY <1>4
    <2>2. n \in DOMAIN link' /\ IsComplete(n, d)' /\ link'[n] = link[n]
      BY <1>1, <1>2, <2>1
    <2>3. \A k \in DOMAIN link' : k > n => ~IsComplete(k, d)'
      BY <1>1, <1>2, <2>1
    <2>4. link'[n].outcome = "completed" <=> d \in built'
      BY <2>1, <2>2
    <2> QED
      BY <2>2, <2>3, <2>4 DEF LastWord
  <1> QED
    BY <1>3, <1>4 DEF LastWord

\* ... or taken, or another upload's.
LEMMA WordShrinks ==
  ASSUME Typed, NEW d, LastWord(d), link # <<>>, link' = Tail(link),
         Head(link).kind # "complete" \/ Head(link).of # d,
         row'[d] = "completed" <=> row[d] = "completed", UNCHANGED built
  PROVE  LastWord(d)'
  <1>1. /\ Len(link) \in Nat /\ DOMAIN link = 1..Len(link) /\ DOMAIN link' = 1..Len(link) - 1
        /\ 1 \in DOMAIN link /\ Head(link) = link[1]
        /\ \A n \in DOMAIN link' : link'[n] = link[n + 1]
        /\ \A n \in DOMAIN link : n = 1 \/ (n - 1 \in DOMAIN link' /\ link'[n - 1] = link[n])
    BY LinkShrinks
  <1>2. /\ ~IsComplete(1, d)
        /\ \A n \in DOMAIN link' : n + 1 \in DOMAIN link /\ (IsComplete(n, d)' <=> IsComplete(n + 1, d))
    BY <1>1 DEF IsComplete
  <1>3. CASE /\ \A n \in DOMAIN link : ~IsComplete(n, d)
             /\ row[d] = "completed" <=> d \in built
    <2>1. \A n \in DOMAIN link' : ~IsComplete(n, d)'
      BY <1>2, <1>3
    <2> QED
      BY <1>3, <2>1 DEF LastWord
  <1>4. CASE \E n \in DOMAIN link :
               /\ IsComplete(n, d) /\ \A k \in DOMAIN link : k > n => ~IsComplete(k, d)
               /\ link[n].outcome = "completed" <=> d \in built
    <2>1. PICK n \in DOMAIN link :
            /\ IsComplete(n, d) /\ \A k \in DOMAIN link : k > n => ~IsComplete(k, d)
            /\ link[n].outcome = "completed" <=> d \in built
      BY <1>4
    <2>2. PICK p : p = n - 1
      OBVIOUS
    <2>3. p \in DOMAIN link' /\ link'[p] = link[n] /\ n = p + 1 /\ p \in Nat
      BY <1>1, <1>2, <2>1, <2>2
    <2>4. IsComplete(p, d)' /\ (link'[p].outcome = "completed" <=> d \in built')
      BY <1>2, <2>1, <2>3
    <2>5. \A k \in DOMAIN link' : k > p => ~IsComplete(k, d)'
      <3> SUFFICES ASSUME NEW k \in DOMAIN link', k > p PROVE ~IsComplete(k, d)'
        OBVIOUS
      <3>1. k + 1 \in DOMAIN link /\ k + 1 > n
        BY <1>1, <2>3
      <3> QED
        BY <1>2, <2>1, <3>1
    <2> QED
      BY <2>3, <2>4, <2>5 DEF LastWord
  <1> QED
    BY <1>3, <1>4 DEF LastWord

-----------------------------------------------------------------------------
(* The controller *)

\* Taking a message of an upload that nobody awaits any more.
LEMMA OpenShrinks ==
  ASSUME Typed, Open, link # <<>>, link' = Tail(link), UNCHANGED delivery,
         held' \subseteq held, Head(link).of \notin held',
         \A d \in held' : row'[d] = row[d] /\ answer'[d] = answer[d]
  PROVE  Open'
  <1> SUFFICES ASSUME NEW d \in held'
               PROVE  /\ row'[d] = "in_progress" /\ answer'[d] = "none" /\ delivery'[d] # "idle"
                      /\ Ended(d)' => \E n \in DOMAIN link' : IsResponse(n, d)'
                      /\ \A n \in DOMAIN link' :
                           IsComplete(n, d)' => \E m \in 1..n - 1 : IsResponse(m, d)'
    BY DEF Open
  <1>1. /\ Len(link) \in Nat /\ DOMAIN link = 1..Len(link) /\ DOMAIN link' = 1..Len(link) - 1
        /\ 1 \in DOMAIN link /\ Head(link) = link[1]
        /\ \A n \in DOMAIN link' : link'[n] = link[n + 1]
        /\ \A n \in DOMAIN link : n = 1 \/ (n - 1 \in DOMAIN link' /\ link'[n - 1] = link[n])
    BY LinkShrinks
  <1>2. /\ row[d] = "in_progress" /\ answer[d] = "none" /\ delivery[d] # "idle"
        /\ Ended(d) => \E n \in DOMAIN link : IsResponse(n, d)
        /\ \A n \in DOMAIN link : IsComplete(n, d) => \E m \in 1..n - 1 : IsResponse(m, d)
    BY DEF Open
  <1>3. \A n \in DOMAIN link : IsResponse(n, d) =>
          n # 1 /\ n - 1 \in DOMAIN link' /\ IsResponse(n - 1, d)'
    BY <1>1 DEF IsResponse
  <1>4. Ended(d)' => \E n \in DOMAIN link' : IsResponse(n, d)'
    BY <1>2, <1>3 DEF Ended
  <1>5. ASSUME NEW n \in DOMAIN link', IsComplete(n, d)'
        PROVE  \E m \in 1..n - 1 : IsResponse(m, d)'
    <2>1. n + 1 \in DOMAIN link /\ IsComplete(n + 1, d) /\ n \in Nat
      BY <1>1, <1>5 DEF IsComplete
    <2>2. PICK m \in 1..(n + 1) - 1 : IsResponse(m, d)
      BY <1>2, <2>1
    <2>3. m \in DOMAIN link
      BY <1>1, <2>1, <2>2
    <2>4. m - 1 \in 1..n - 1 /\ IsResponse(m - 1, d)'
      BY <1>3, <2>1, <2>2, <2>3
    <2> QED
      BY <2>4
  <1> QED
    BY <1>2, <1>4, <1>5

LEMMA LinkLedger ==
  ASSUME Typed, Ledger, link # <<>>, link' = Tail(link), UNCHANGED delivery
  PROVE  \A n \in DOMAIN link' : delivery'[link'[n].of] \in {"accepted", "refused"}
  <1>1. /\ DOMAIN link = 1..Len(link) /\ DOMAIN link' = 1..Len(link) - 1 /\ Len(link) \in Nat
        /\ \A n \in DOMAIN link' : link'[n] = link[n + 1]
    BY LinkShrinks
  <1>2. \A n \in DOMAIN link' : n + 1 \in DOMAIN link
    BY <1>1
  <1> QED
    BY <1>1, <1>2 DEF Ledger

\* Settling an operation completes nothing.
LEMMA SettleEffect ==
  ASSUME Typed, Open, Ledger, NEW d \in Ops, NEW s \in {"awaiting_completion", "failed"},
         Settle(d, s)
  PROVE  /\ held' = held \ {d}
         /\ \A e \in Ops : /\ e # d => row'[e] = row[e] /\ record'[e] = record[e]
                           /\ row'[e] = "completed" <=> row[e] = "completed"
                           /\ record'[e] # "none" => row'[e] = record'[e]
  <1>1. record \in [Ops -> Statuses] /\ row \in [Ops -> Statuses]
    BY DEF Typed, TypeOK
  <1>2. \A e \in Ops : record[e] # "none" => row[e] = record[e]
    BY DEF Ledger
  <1>3. CASE d \in held
    <2>1. row[d] = "in_progress"
      BY <1>3 DEF Open
    <2>2. record' = [record EXCEPT ![d] = s] /\ record'[d] = s
      BY <1>1, <1>3 DEF Settle
    <2>3. row' = [row EXCEPT ![d] = s]
      BY <2>2 DEF Settle
    <2> QED
      BY <1>1, <1>2, <2>1, <2>2, <2>3 DEF Settle
  <1>4. CASE d \notin held
    <2>1. record' = record /\ row' = row
      BY <1>1, <1>2, <1>4 DEF Settle
    <2> QED
      BY <1>2, <2>1 DEF Settle
  <1> QED
    BY <1>3, <1>4

-----------------------------------------------------------------------------
(* Every step keeps the invariant of the outcomes *)

LEMMA OutcomeInit == Init => OutcomeInv
  <1> SUFFICES ASSUME Init PROVE OutcomeInv
    OBVIOUS
  <1>1. /\ saved[2] = {} /\ saved[3] = {} /\ jobs = {} /\ built = {} /\ held = {}
        /\ DOMAIN link = {} /\ \A d \in Ops : row[d] = "none" /\ record[d] = "none"
    BY DEF Init, game
  <1>2. \A d \in Ops : LastWord(d)
    BY <1>1 DEF LastWord
  <1> QED
    BY <1>1, <1>2 DEF OutcomeInv, Queued, Open, Ledger, Verdicts

LEMMA RequestStep ==
  ASSUME Typed, OutcomeInv, NEW d \in Ops, Request(d)
  PROVE  OutcomeInv'
  <1> USE DEF game
  <1>0. /\ record \in [Ops -> Statuses] /\ row \in [Ops -> Statuses]
        /\ delivery \in [Deliveries -> Stages] /\ Ops \subseteq Deliveries
    BY DEF Typed, TypeOK, Stages, Deliveries
  <1>1. /\ delivery[d] = "idle" /\ answer[d] = "none"
        /\ record' = [record EXCEPT ![d] = "in_progress"]
        /\ row' = [row EXCEPT ![d] = "in_progress"] /\ held' = held \cup {d}
        /\ delivery' = [delivery EXCEPT ![d] = "sending"]
        /\ UNCHANGED <<answer, sessions, jobs, built, saved, link, excused>>
    BY DEF Request
  <1>2. /\ delivery'[d] = "sending" /\ record'[d] = "in_progress" /\ row'[d] = "in_progress"
        /\ \A e \in Deliveries : e # d => delivery'[e] = delivery[e]
        /\ \A e \in Ops : e # d => record'[e] = record[e] /\ row'[e] = row[e]
    BY <1>0, <1>1
  <1>3. \A n \in DOMAIN link : link[n].of # d
    BY <1>1 DEF OutcomeInv, Ledger, Ended
  <1>4. Queued'
    BY <1>0, <1>1, <1>2 DEF OutcomeInv, Queued
  <1>5. held \subseteq Ops
    BY DEF Typed, TypeOK
  <1>6. Open'
    <2> SUFFICES ASSUME NEW e \in held'
                 PROVE  /\ row'[e] = "in_progress" /\ answer'[e] = "none" /\ delivery'[e] # "idle"
                        /\ Ended(e)' => \E n \in DOMAIN link : IsResponse(n, e)'
                        /\ \A n \in DOMAIN link :
                             IsComplete(n, e)' => \E m \in 1..n - 1 : IsResponse(m, e)'
      BY <1>1 DEF Open
    <2>1. CASE e = d
      BY <1>1, <1>2, <1>3, <2>1 DEF Ended, IsComplete
    <2>2. CASE e # d
      BY <1>0, <1>1, <1>2, <1>5, <2>2 DEF OutcomeInv, Open, Ended, IsComplete, IsResponse
    <2> QED
      BY <2>1, <2>2
  <1>7. Ledger'
    <2>1. \A e \in Ops : record'[e] # "none" => row'[e] = record'[e]
      BY <1>2 DEF OutcomeInv, Ledger
    <2>2. \A n \in DOMAIN link : link[n].of \in Ops
      BY LinkIs
    <2>3. \A n \in DOMAIN link : delivery'[link[n].of] \in {"accepted", "refused"}
      BY <1>0, <1>2, <1>3, <2>2 DEF OutcomeInv, Ledger
    <2> QED
      BY <1>1, <2>1, <2>3 DEF Ledger
  <1>8. Verdicts'
    <2> SUFFICES ASSUME NEW e \in Ops, e \notin excused, e \notin jobs PROVE LastWord(e)'
      BY <1>1 DEF Verdicts
    <2>1. CASE e = d
      <3>1. \A n \in DOMAIN link' : ~IsComplete(n, e)'
        BY <1>1, <1>3, <2>1 DEF IsComplete
      <3>2. d \notin built'
        BY <1>0, <1>1 DEF OutcomeInv, Queued
      <3> QED
        BY <1>2, <2>1, <3>1, <3>2 DEF LastWord
    <2>2. CASE e # d
      <3>1. LastWord(e)
        BY DEF OutcomeInv, Verdicts
      <3> QED
        BY <1>1, <1>2, <2>2, <3>1, WordSame
    <2> QED
      BY <2>1, <2>2
  <1> QED
    BY <1>4, <1>6, <1>7, <1>8 DEF OutcomeInv

\* A step of a delivery that is not its answer.
LEMMA DeliveryStep ==
  ASSUME Typed, OutcomeInv, NEW d \in Deliveries, delivery[d] \in {"idle", "sending"},
         UNCHANGED <<record, row, answer, held, saved, built, link, excused>>,
         \A e \in Deliveries : e # d => delivery'[e] = delivery[e],
         \/ UNCHANGED jobs /\ delivery'[d] \in {"sending", "delivered", "failed"}
         \/ jobs' = jobs \cup {d} /\ delivery'[d] \in {"delivered", "failed"}
  PROVE  OutcomeInv'
  <1>0. Ops \subseteq Deliveries /\ held \subseteq Ops
    BY DEF Typed, TypeOK, Deliveries
  <1>1. Queued'
    BY DEF OutcomeInv, Queued
  <1>2. \A e \in Deliveries : Ended(e)' <=> Ended(e)
    BY DEF Ended
  <1>3. Open'
    BY <1>0, <1>2 DEF OutcomeInv, Open, IsResponse, IsComplete
  <1>4. Ledger'
    <2>1. \A n \in DOMAIN link : link[n].of \in Deliveries
      BY <1>0, LinkIs
    <2> QED
      BY <1>2, <2>1 DEF OutcomeInv, Ledger, Ended
  <1>5. Verdicts'
    <2> SUFFICES ASSUME NEW e \in Ops, e \notin excused, e \notin jobs' PROVE LastWord(e)'
      BY DEF Verdicts
    <2>1. LastWord(e)
      BY DEF OutcomeInv, Verdicts
    <2> QED
      BY <2>1, WordSame
  <1> QED
    BY <1>1, <1>3, <1>4, <1>5 DEF OutcomeInv

LEMMA ChunkStep ==
  ASSUME Typed, SessionInv, OutcomeInv, NEW d \in Deliveries,
         SendChunk(d) \/ LoseCommand(d) \/ LoseReply(d)
  PROVE  OutcomeInv'
  <1> USE DEF controller, game
  <1>1. PICK heard : /\ delivery[d] = "sending" /\ Progress(d, heard)
                     /\ UNCHANGED <<record, row, answer, held, saved, link, excused>>
                     /\ \/ UNCHANGED <<jobs, built>> /\ heard = "error"
                        \/ \E reply : ImportPlatformChunk(d, next[d], reply)
    BY DEF SendChunk, LoseCommand, LoseReply
  <1>2. /\ \A e \in Deliveries : e # d => delivery'[e] = delivery[e]
        /\ heard # "ok" => delivery'[d] = "failed"
        /\ heard = "ok" => /\ next[d] < Chunks[d] => delivery'[d] = delivery[d]
                           /\ ~(next[d] < Chunks[d]) => delivery'[d] = "delivered"
    BY <1>1, ProgressEffect
  <1>3. UNCHANGED built /\ (UNCHANGED jobs \/ (jobs' = jobs \cup {d} /\ next[d] = Chunks[d]))
    BY <1>1, ChunkEffect
  <1>4. next[d] = Chunks[d] => ~(next[d] < Chunks[d])
    BY DEF Typed
  <1> QED
    BY <1>1, <1>2, <1>3, <1>4, DeliveryStep

LEMMA RespondStep ==
  ASSUME Typed, OutcomeInv, NEW d \in Ops, Respond(d)
  PROVE  OutcomeInv'
  <1> USE DEF controller, game
  <1>0. delivery \in [Deliveries -> Stages] /\ Ops \subseteq Deliveries /\ held \subseteq Ops
    BY DEF Typed, TypeOK, Stages, Deliveries
  <1>1. PICK stage \in {"accepted", "refused"} :
          /\ delivery[d] \in {"delivered", "failed"}
          /\ delivery' = [delivery EXCEPT ![d] = stage]
          /\ link' = Append(link, [kind |-> "response", of |-> d, outcome |-> delivery'[d]])
          /\ UNCHANGED <<record, row, answer, held, saved, jobs, built, excused>>
    BY DEF Respond
  <1>2. delivery'[d] = stage /\ \A e \in Deliveries : e # d => delivery'[e] = delivery[e]
    BY <1>0, <1>1
  <1>3. PICK m \in Messages : m = [kind |-> "response", of |-> d, outcome |-> stage]
    BY DEF Messages
  <1>4. link' = Append(link, m) /\ m.kind = "response" /\ m.of = d
    BY <1>1, <1>2, <1>3
  <1>5. PICK L \in Nat :
          /\ DOMAIN link = 1..L /\ DOMAIN link' = 1..L + 1
          /\ link'[L + 1] = m /\ \A n \in 1..L : link'[n] = link[n]
    BY <1>4, LinkGrows
  <1>6. Queued'
    BY <1>0, <1>1, <1>2 DEF OutcomeInv, Queued
  <1>7. \A n \in 1..L : \A e :
          (IsResponse(n, e)' <=> IsResponse(n, e)) /\ (IsComplete(n, e)' <=> IsComplete(n, e))
    BY <1>5 DEF IsResponse, IsComplete
  <1>8. \A e : ~IsComplete(L + 1, e)'
    BY <1>4, <1>5 DEF IsComplete
  <1>9. Open'
    <2> SUFFICES ASSUME NEW e \in held
                 PROVE  /\ row[e] = "in_progress" /\ answer[e] = "none" /\ delivery'[e] # "idle"
                        /\ Ended(e)' => \E n \in DOMAIN link' : IsResponse(n, e)'
                        /\ \A n \in DOMAIN link' :
                             IsComplete(n, e)' => \E k \in 1..n - 1 : IsResponse(k, e)'
      BY <1>1 DEF Open
    <2>1. /\ row[e] = "in_progress" /\ answer[e] = "none" /\ delivery[e] # "idle"
          /\ Ended(e) => \E n \in DOMAIN link : IsResponse(n, e)
          /\ \A n \in DOMAIN link : IsComplete(n, e) => \E k \in 1..n - 1 : IsResponse(k, e)
      BY DEF OutcomeInv, Open
    <2>2. ASSUME NEW n \in DOMAIN link', IsComplete(n, e)'
          PROVE  \E k \in 1..n - 1 : IsResponse(k, e)'
      <3>1. n \in 1..L
        BY <1>5, <1>8, <2>2
      <3>2. PICK k \in 1..n - 1 : IsResponse(k, e)
        BY <1>5, <1>7, <2>1, <2>2, <3>1
      <3>3. k \in 1..L
        BY <3>1, <3>2, <1>5
      <3> QED
        BY <1>7, <3>2, <3>3
    <2>3. Ended(e)' => \E n \in DOMAIN link' : IsResponse(n, e)'
      <3>1. CASE e = d
        <4>1. IsResponse(L + 1, e)'
          BY <1>4, <1>5, <3>1 DEF IsResponse
        <4> QED
          BY <1>5, <4>1
      <3>2. CASE e # d
        BY <1>0, <1>2, <1>5, <1>7, <2>1, <3>2 DEF Ended
      <3> QED
        BY <3>1, <3>2
    <2>4. delivery'[e] # "idle"
      BY <1>0, <1>2, <2>1
    <2> QED
      BY <2>1, <2>2, <2>3, <2>4
  <1>10. Ledger'
    <2>1. \A n \in DOMAIN link :
            link[n].of \in Deliveries /\ delivery[link[n].of] \in {"accepted", "refused"}
      BY <1>0, LinkIs DEF OutcomeInv, Ledger
    <2>2. \A e \in Deliveries :
            delivery[e] \in {"accepted", "refused"} => delivery'[e] \in {"accepted", "refused"}
      BY <1>1, <1>2
    <2>3. ASSUME NEW n \in DOMAIN link' PROVE delivery'[link'[n].of] \in {"accepted", "refused"}
      <3>1. CASE n \in 1..L
        BY <1>5, <2>1, <2>2, <3>1
      <3>2. CASE n = L + 1
        BY <1>2, <1>4, <1>5, <3>2
      <3> QED
        BY <1>5, <3>1, <3>2
    <2> QED
      BY <1>1, <2>3 DEF OutcomeInv, Ledger
  <1>11. Verdicts'
    <2> SUFFICES ASSUME NEW e \in Ops, e \notin excused, e \notin jobs PROVE LastWord(e)'
      BY <1>1 DEF Verdicts
    <2>1. LastWord(e)
      BY DEF OutcomeInv, Verdicts
    <2> QED
      BY <1>1, <1>4, <2>1, WordGrows
  <1> QED
    BY <1>6, <1>9, <1>10, <1>11 DEF OutcomeInv

\* A job ends; its event is sent, after the answer of its delivery, or lost.
LEMMA JobStep ==
  ASSUME AnswerFirst, Typed, OutcomeInv, NEW d \in Deliveries, NEW o \in Terminal,
         RunJob(d, o) \/ LoseEvent(d, o)
  PROVE  OutcomeInv'
  <1> USE DEF controller
  <1>0. held \subseteq Ops /\ d \in jobs /\ Ops \subseteq Deliveries
    BY DEF RunJob, LoseEvent, Outcome, Typed, TypeOK, Deliveries
  <1>1. /\ jobs' = jobs \ {d} /\ (d \in Ops => Ended(d))
        /\ built' = IF o = "completed" THEN built \cup ({d} \cap Ops) ELSE built
        /\ UNCHANGED <<record, row, answer, held, delivery, saved>>
    BY DEF RunJob, LoseEvent, Outcome, AnswerFirst, Ended
  <1>2. /\ d \notin built /\ \A e \in Ops : e # d => (e \in built' <=> e \in built)
        /\ d \in Ops => (o = "completed" <=> d \in built')
    BY <1>0, <1>1 DEF OutcomeInv, Queued
  <1>3. Queued'
    BY <1>0, <1>1 DEF OutcomeInv, Queued
  <1>4. CASE LoseEvent(d, o) \/ d \notin Ops
    <2>1. UNCHANGED link /\ excused \subseteq excused' /\ (d \in Ops => d \in excused')
      BY <1>4 DEF LoseEvent, RunJob
    <2>2. Open' /\ Ledger'
      BY <1>1, <2>1 DEF OutcomeInv, Open, Ledger, Ended, IsResponse, IsComplete
    <2>3. Verdicts'
      <3> SUFFICES ASSUME NEW e \in Ops, e \notin excused', e \notin jobs' PROVE LastWord(e)'
        BY DEF Verdicts
      <3>1. e # d /\ LastWord(e)
        BY <1>1, <2>1 DEF OutcomeInv, Verdicts
      <3> QED
        BY <1>1, <1>2, <2>1, <3>1, WordSame
    <2> QED
      BY <1>3, <2>2, <2>3 DEF OutcomeInv
  <1>5. CASE RunJob(d, o) /\ d \in Ops
    <2>1. UNCHANGED excused
      BY <1>5 DEF RunJob
    <2>2. PICK m \in Messages : m = [kind |-> "complete", of |-> d, outcome |-> o]
      BY <1>5 DEF Messages
    <2>3. link' = Append(link, m) /\ m.kind = "complete" /\ m.of = d /\ m.outcome = o
      BY <1>5, <2>2 DEF RunJob
    <2>4. PICK L \in Nat :
            /\ DOMAIN link = 1..L /\ DOMAIN link' = 1..L + 1
            /\ link'[L + 1] = m /\ \A n \in 1..L : link'[n] = link[n]
      BY <2>3, LinkGrows
    <2>5. \A n \in 1..L : \A e :
            (IsResponse(n, e)' <=> IsResponse(n, e)) /\ (IsComplete(n, e)' <=> IsComplete(n, e))
      BY <2>4 DEF IsResponse, IsComplete
    <2>6. \A e : IsComplete(L + 1, e)' <=> e = d
      BY <2>3, <2>4 DEF IsComplete
    <2>7. Open'
      <3> SUFFICES ASSUME NEW e \in held
                   PROVE  /\ row[e] = "in_progress" /\ answer[e] = "none" /\ delivery[e] # "idle"
                          /\ Ended(e) => \E n \in DOMAIN link' : IsResponse(n, e)'
                          /\ \A n \in DOMAIN link' :
                               IsComplete(n, e)' => \E k \in 1..n - 1 : IsResponse(k, e)'
        BY <1>1 DEF Open, Ended
      <3>1. /\ row[e] = "in_progress" /\ answer[e] = "none" /\ delivery[e] # "idle"
            /\ Ended(e) => \E n \in DOMAIN link : IsResponse(n, e)
            /\ \A n \in DOMAIN link : IsComplete(n, e) => \E k \in 1..n - 1 : IsResponse(k, e)
        BY DEF OutcomeInv, Open
      <3>2. Ended(e) => \E n \in DOMAIN link' : IsResponse(n, e)'
        BY <2>4, <2>5, <3>1
      <3>3. ASSUME NEW n \in DOMAIN link', IsComplete(n, e)'
            PROVE  \E k \in 1..n - 1 : IsResponse(k, e)'
        <4>1. CASE n \in 1..L
          <5>1. PICK k \in 1..n - 1 : IsResponse(k, e)
            BY <2>4, <2>5, <3>1, <3>3, <4>1
          <5>2. k \in 1..L
            BY <4>1, <5>1
          <5> QED
            BY <2>5, <5>1, <5>2
        <4>2. CASE n = L + 1
          <5>1. e = d
            BY <2>6, <3>3, <4>2
          <5>2. PICK k \in 1..L : IsResponse(k, e)
            BY <1>1, <1>5, <2>4, <3>1, <5>1
          <5>3. k \in 1..n - 1 /\ IsResponse(k, e)'
            BY <2>5, <4>2, <5>2
          <5> QED
            BY <5>3
        <4> QED
          BY <2>4, <4>1, <4>2
      <3> QED
        BY <3>1, <3>2, <3>3
    <2>8. Ledger'
      <3>1. \A n \in 1..L : delivery[link'[n].of] \in {"accepted", "refused"}
        BY <2>4 DEF OutcomeInv, Ledger
      <3>2. delivery[link'[L + 1].of] \in {"accepted", "refused"}
        BY <1>1, <1>5, <2>3, <2>4 DEF Ended
      <3>3. \A n \in DOMAIN link' : delivery[link'[n].of] \in {"accepted", "refused"}
        BY <2>4, <3>1, <3>2
      <3> QED
        BY <1>1, <3>3 DEF OutcomeInv, Ledger
    <2>9. Verdicts'
      <3> SUFFICES ASSUME NEW e \in Ops, e \notin excused, e \notin jobs' PROVE LastWord(e)'
        BY <2>1 DEF Verdicts
      <3>1. CASE e = d
        <4>1. L + 1 \in DOMAIN link' /\ IsComplete(L + 1, e)' /\ link'[L + 1].outcome = o
          BY <2>3, <2>4, <2>6, <3>1
        <4>2. \A k \in DOMAIN link' : ~(k > L + 1)
          BY <2>4
        <4>3. link'[L + 1].outcome = "completed" <=> e \in built'
          BY <1>2, <3>1, <4>1
        <4> QED
          BY <4>1, <4>2, <4>3 DEF LastWord
      <3>2. CASE e # d
        <4>1. LastWord(e)
          BY <1>1, <3>2 DEF OutcomeInv, Verdicts
        <4> QED
          BY <1>1, <1>2, <2>3, <3>2, <4>1, WordGrows
      <3> QED
        BY <3>1, <3>2
    <2> QED
      BY <1>3, <2>7, <2>8, <2>9 DEF OutcomeInv
  <1> QED
    BY <1>4, <1>5

\* An answer is taken: it settles what awaits it, or is for nobody.
LEMMA ResponseStep ==
  ASSUME Typed, OutcomeInv, HandleResponse
  PROVE  OutcomeInv'
  <1> USE DEF controller, game
  <1>0. LinkTyped /\ Open /\ Ledger
    BY DEF Typed, TypeOK, LinkTyped, OutcomeInv
  <1>1. /\ link # <<>> /\ Head(link).kind = "response" /\ link' = Tail(link)
        /\ UNCHANGED <<delivery, jobs, built, saved, excused>>
    BY DEF HandleResponse
  <1>2. PICK d \in Ops : d = Head(link).of
    BY <1>0, <1>1, MessageIs
  <1>3. /\ held' \subseteq held /\ d \notin held'
        /\ \A e \in Ops : /\ e # d => row'[e] = row[e] /\ answer'[e] = answer[e]
                          /\ row'[e] = "completed" <=> row[e] = "completed"
                          /\ record'[e] # "none" => row'[e] = record'[e]
    <2>1. CASE answer[d] # "none"
      <3>1. UNCHANGED <<record, row, answer, held>>
        BY <1>1, <1>2, <2>1 DEF HandleResponse
      <3>2. d \notin held
        BY <1>0, <2>1 DEF Open
      <3> QED
        BY <1>0, <3>1, <3>2 DEF Ledger
    <2>2. CASE answer[d] = "none"
      <3>1. PICK s \in {"awaiting_completion", "failed"} : Settle(d, s)
        BY <1>1, <1>2, <2>2 DEF HandleResponse
      <3>2. /\ held' = held \ {d}
            /\ \A e \in Ops : /\ e # d => row'[e] = row[e] /\ record'[e] = record[e]
                              /\ row'[e] = "completed" <=> row[e] = "completed"
                              /\ record'[e] # "none" => row'[e] = record'[e]
        BY <1>0, <3>1, SettleEffect
      <3>3. \A e \in Ops : e # d => answer'[e] = answer[e]
        <4>1. answer \in [Ops -> {"none", "accepted", "refused", "lost"}]
          BY DEF Typed, TypeOK
        <4> QED
          BY <1>2, <2>2, <4>1 DEF HandleResponse
      <3> QED
        BY <3>2, <3>3
    <2> QED
      BY <2>1, <2>2
  <1>4. Queued'
    BY <1>1 DEF OutcomeInv, Queued
  <1>5. Open'
    <2>1. \A e \in held' : row'[e] = row[e] /\ answer'[e] = answer[e]
      BY <1>3 DEF Typed, TypeOK
    <2> QED
      BY <1>0, <1>1, <1>2, <1>3, <2>1, OpenShrinks
  <1>6. Ledger'
    BY <1>0, <1>1, <1>3, LinkLedger DEF Ledger
  <1>7. Verdicts'
    <2> SUFFICES ASSUME NEW e \in Ops, e \notin excused, e \notin jobs PROVE LastWord(e)'
      BY <1>1 DEF Verdicts
    <2>1. LastWord(e)
      BY DEF OutcomeInv, Verdicts
    <2> QED
      BY <1>1, <1>3, <2>1, WordShrinks
  <1> QED
    BY <1>4, <1>5, <1>6, <1>7 DEF OutcomeInv

\* An event is taken: it is the last word, unless another is on its way.
LEMMA CompleteStep ==
  ASSUME Typed, OutcomeInv, HandleComplete
  PROVE  OutcomeInv'
  <1> USE DEF controller, game
  <1>0. /\ LinkTyped /\ Open /\ Ledger
        /\ record \in [Ops -> Statuses] /\ row \in [Ops -> Statuses] /\ held \subseteq Ops
    BY DEF Typed, TypeOK, LinkTyped, OutcomeInv
  <1>1. /\ link # <<>> /\ Head(link).kind = "complete" /\ link' = Tail(link)
        /\ UNCHANGED <<answer, held, delivery, jobs, built, saved, excused>>
    BY DEF HandleComplete
  <1>2. PICK d, o : d \in Ops /\ d = Head(link).of /\ o = Head(link).outcome
    BY <1>0, <1>1, MessageIs
  <1>3. /\ record'[d] = o /\ row'[d] = o
        /\ \A e \in Ops : e # d => record'[e] = record[e] /\ row'[e] = row[e]
    BY <1>0, <1>2 DEF HandleComplete
  <1>4. PICK L \in Nat :
          /\ DOMAIN link = 1..L /\ DOMAIN link' = 1..L - 1
          /\ 1 \in DOMAIN link /\ Head(link) = link[1]
          /\ \A n \in DOMAIN link' : link'[n] = link[n + 1]
          /\ \A n \in DOMAIN link : n = 1 \/ (n - 1 \in DOMAIN link' /\ link'[n - 1] = link[n])
    BY <1>1, LinkShrinks
  <1>5. IsComplete(1, d)
    BY <1>1, <1>2, <1>4 DEF IsComplete
  <1>6. d \notin held
    BY <1>0, <1>4, <1>5 DEF Open
  <1>7. Queued'
    BY <1>1 DEF OutcomeInv, Queued
  <1>8. Open'
    <2>1. \A e \in held' : row'[e] = row[e] /\ answer'[e] = answer[e]
      BY <1>0, <1>1, <1>3, <1>6
    <2> QED
      BY <1>0, <1>1, <1>2, <1>6, <2>1, OpenShrinks
  <1>9. Ledger'
    <2>1. \A e \in Ops : record'[e] # "none" => row'[e] = record'[e]
      BY <1>0, <1>3 DEF Ledger
    <2> QED
      BY <1>0, <1>1, <2>1, LinkLedger DEF Ledger
  <1>10. Verdicts'
    <2> SUFFICES ASSUME NEW e \in Ops, e \notin excused, e \notin jobs PROVE LastWord(e)'
      BY <1>1 DEF Verdicts
    <2>1. LastWord(e)
      BY DEF OutcomeInv, Verdicts
    <2>2. CASE e # d
      BY <1>1, <1>2, <1>3, <2>1, <2>2, WordShrinks
    <2>3. CASE e = d
      <3>1. PICK n \in DOMAIN link :
              /\ IsComplete(n, d) /\ \A k \in DOMAIN link : k > n => ~IsComplete(k, d)
              /\ link[n].outcome = "completed" <=> d \in built
        BY <1>4, <1>5, <2>1, <2>3 DEF LastWord
      <3>2. \A p \in DOMAIN link' : p + 1 \in DOMAIN link /\ (IsComplete(p, d)' <=> IsComplete(p + 1, d))
        BY <1>4 DEF IsComplete
      <3>3. CASE n = 1
        <4>1. \A p \in DOMAIN link' : ~IsComplete(p, d)'
          <5> SUFFICES ASSUME NEW p \in DOMAIN link' PROVE ~IsComplete(p, d)'
            OBVIOUS
          <5>1. p + 1 \in DOMAIN link /\ p + 1 > n
            BY <1>4, <3>3
          <5> QED
            BY <3>1, <3>2, <5>1
        <4>2. row'[d] = "completed" <=> d \in built'
          BY <1>1, <1>2, <1>3, <1>4, <3>1, <3>3
        <4> QED
          BY <2>3, <4>1, <4>2 DEF LastWord
      <3>4. CASE n # 1
        <4>1. PICK p : p = n - 1
          OBVIOUS
        <4>2. p \in DOMAIN link' /\ link'[p] = link[n] /\ n = p + 1 /\ p \in Nat
          BY <1>4, <3>1, <3>4, <4>1
        <4>3. IsComplete(p, d)' /\ (link'[p].outcome = "completed" <=> d \in built')
          BY <1>1, <3>1, <3>2, <4>2
        <4>4. \A k \in DOMAIN link' : k > p => ~IsComplete(k, d)'
          <5> SUFFICES ASSUME NEW k \in DOMAIN link', k > p PROVE ~IsComplete(k, d)'
            OBVIOUS
          <5>1. k + 1 \in DOMAIN link /\ k + 1 > n
            BY <1>4, <4>2
          <5> QED
            BY <3>1, <3>2, <5>1
        <4> QED
          BY <2>3, <4>2, <4>3, <4>4 DEF LastWord
      <3> QED
        BY <3>3, <3>4
    <2> QED
      BY <2>2, <2>3
  <1> QED
    BY <1>7, <1>8, <1>9, <1>10 DEF OutcomeInv

\* A handler gives up, its record is dropped, or the controller forgets all of them.
LEMMA ForgetStep ==
  ASSUME Typed, OutcomeInv,
         (\E d \in Ops : LoseSession(d) \/ Prune(d)) \/ ControllerRestart
  PROVE  OutcomeInv'
  <1> USE DEF controller, game
  <1>0. /\ Open /\ Ledger /\ answer \in [Ops -> {"none", "accepted", "refused", "lost"}]
        /\ record \in [Ops -> Statuses] /\ held \subseteq Ops
    BY DEF Typed, TypeOK, OutcomeInv
  <1>1. UNCHANGED <<delivery, jobs, built, saved>>
    BY DEF LoseSession, Prune, ControllerRestart
  <1>2. Queued'
    BY <1>1 DEF OutcomeInv, Queued
  <1>3. CASE \E d \in Ops : LoseSession(d) \/ Prune(d)
    <2>1. PICK d \in Ops : LoseSession(d) \/ Prune(d)
      BY <1>3
    <2>2. UNCHANGED <<link, excused>>
      BY <2>1 DEF LoseSession, Prune
    <2>3. /\ held' = held \ {d}
          /\ \A e \in Ops : /\ e # d => row'[e] = row[e] /\ answer'[e] = answer[e]
                            /\ row'[e] = "completed" <=> row[e] = "completed"
                            /\ record'[e] # "none" => row'[e] = record'[e]
      <3>1. CASE LoseSession(d)
        <4>1. Settle(d, "failed") /\ answer' = [answer EXCEPT ![d] = "refused"]
          BY <3>1 DEF LoseSession
        <4> QED
          BY <1>0, <4>1, SettleEffect
      <3>2. CASE Prune(d)
        BY <1>0, <3>2 DEF Prune, Ledger
      <3> QED
        BY <2>1, <3>1, <3>2
    <2>4. Open'
      BY <1>0, <1>1, <2>2, <2>3 DEF Open, Ended, IsResponse, IsComplete
    <2>5. Ledger'
      BY <1>0, <1>1, <2>2, <2>3 DEF Ledger
    <2>6. Verdicts'
      <3> SUFFICES ASSUME NEW e \in Ops, e \notin excused, e \notin jobs PROVE LastWord(e)'
        BY <1>1, <2>2 DEF Verdicts
      <3>1. LastWord(e)
        BY DEF OutcomeInv, Verdicts
      <3> QED
        BY <1>1, <2>2, <2>3, <3>1, WordSame
    <2> QED
      BY <1>2, <2>4, <2>5, <2>6 DEF OutcomeInv
  <1>4. CASE ControllerRestart
    <2>1. /\ record' = [d \in Ops |-> "none"] /\ held' = {} /\ link' = <<>> /\ UNCHANGED row
          /\ excused' = excused \cup
               {link[n].of : n \in {m \in DOMAIN link : link[m].kind = "complete"}}
      BY <1>4 DEF ControllerRestart
    <2>2. DOMAIN link' = {}
      BY <2>1
    <2>3. Open' /\ Ledger'
      BY <2>1, <2>2 DEF Open, Ledger
    <2>4. Verdicts'
      <3> SUFFICES ASSUME NEW e \in Ops, e \notin excused', e \notin jobs PROVE LastWord(e)'
        BY <1>1 DEF Verdicts
      <3>1. LastWord(e) /\ \A n \in DOMAIN link : ~IsComplete(n, e)
        BY <2>1 DEF OutcomeInv, Verdicts, IsComplete
      <3>2. row[e] = "completed" <=> e \in built
        BY <3>1 DEF LastWord
      <3> QED
        BY <1>1, <2>1, <2>2, <3>2 DEF LastWord
    <2> QED
      BY <1>2, <2>3, <2>4 DEF OutcomeInv
  <1> QED
    BY <1>3, <1>4

\* The game is saved, or goes back to its save.
LEMMA GameStep ==
  ASSUME Typed, OutcomeInv, Save \/ GameRestart
  PROVE  OutcomeInv'
  <1> USE DEF controller, game
  <1>0. delivery \in [Deliveries -> Stages] /\ held \subseteq Ops /\ Ops \subseteq Deliveries
    BY DEF Typed, TypeOK, Stages, Deliveries
  <1>1. CASE Save
    <2>1. /\ saved'[2] = jobs /\ saved'[3] = built
          /\ UNCHANGED <<record, row, answer, held, delivery, jobs, built, link, excused>>
      BY <1>1 DEF Save
    <2>2. Queued'
      BY <2>1 DEF OutcomeInv, Queued
    <2>3. Open' /\ Ledger'
      BY <2>1 DEF OutcomeInv, Open, Ledger, Ended, IsResponse, IsComplete
    <2>4. Verdicts'
      <3> SUFFICES ASSUME NEW e \in Ops, e \notin excused, e \notin jobs PROVE LastWord(e)'
        BY <2>1 DEF Verdicts
      <3>1. LastWord(e)
        BY DEF OutcomeInv, Verdicts
      <3> QED
        BY <2>1, <3>1, WordSame
    <2> QED
      BY <2>2, <2>3, <2>4 DEF OutcomeInv
  <1>2. CASE GameRestart
    <2>1. /\ jobs' = saved[2] /\ built' = saved[3]
          /\ delivery' = [d \in Deliveries |-> IF delivery[d] = "sending" THEN "failed"
                                               ELSE delivery[d]]
          /\ excused' = excused \cup (((jobs \cup built) \cap Ops) \ (saved[2] \cup saved[3]))
          /\ UNCHANGED <<record, row, answer, held, saved, link>>
      BY <1>2 DEF GameRestart
    <2>2. \A d \in Deliveries :
            /\ delivery'[d] \in {"idle", "sending"} => delivery[d] = "idle"
            /\ delivery[d] # "idle" => delivery'[d] # "idle"
            /\ Ended(d)' <=> Ended(d)
      BY <2>1 DEF Ended
    <2>3. Queued'
      BY <2>1, <2>2 DEF OutcomeInv, Queued
    <2>4. Open'
      BY <1>0, <2>1, <2>2 DEF OutcomeInv, Open, IsResponse, IsComplete
    <2>5. Ledger'
      BY <1>0, <2>1, <2>2, LinkIs DEF OutcomeInv, Ledger, Ended
    <2>6. Verdicts'
      <3> SUFFICES ASSUME NEW e \in Ops, e \notin excused', e \notin jobs' PROVE LastWord(e)'
        BY DEF Verdicts
      <3>1. e \notin excused /\ e \notin jobs /\ (e \in built' <=> e \in built)
        BY <2>1 DEF OutcomeInv, Queued
      <3>2. LastWord(e)
        BY <3>1 DEF OutcomeInv, Verdicts
      <3> QED
        BY <2>1, <3>1, <3>2, WordSame
    <2> QED
      BY <2>3, <2>4, <2>5, <2>6 DEF OutcomeInv
  <1> QED
    BY <1>1, <1>2

LEMMA OutcomeStep ==
  ASSUME AnswerFirst, Typed, SessionInv, OutcomeInv, [Next]_vars
  PROVE  OutcomeInv'
  <1> USE DEF controller, game
  <1>1. ASSUME NEW d \in Deliveries, ImportFile(d) PROVE OutcomeInv'
    <2>1. delivery \in [Deliveries -> Stages]
      BY DEF Typed, TypeOK, Stages
    <2> QED
      BY <1>1, <2>1, DeliveryStep DEF ImportFile
  <1>2. CASE UNCHANGED vars
    BY <1>2 DEF vars, OutcomeInv, Queued, Open, Ledger, Verdicts, LastWord, Ended,
                IsResponse, IsComplete
  <1> QED
    BY <1>1, <1>2, RequestStep, ChunkStep, RespondStep, JobStep, ResponseStep, CompleteStep,
       ForgetStep, GameStep DEF Next

-----------------------------------------------------------------------------
\* When nothing is under way for an upload any more, its row in the history says whether
\* its platform was built, whatever was reported or pruned before, and across restarts of
\* the controller and of the game.  It takes that deliveries under one key do not overlap,
\* and that no job ends before its delivery was answered.
THEOREM HistoryTrue ==
  ASSUME OneByOne, AnswerFirst
  PROVE  Spec => []HistoryIsOutcome
  <1> DEFINE Inv == Typed /\ SessionInv /\ OutcomeInv
  <1>1. Init => Inv
    BY TypedInit, SessionInit, OutcomeInit
  <1>2. Inv /\ [Next]_vars => Inv'
    BY TypedStep, SessionStep, OutcomeStep
  <1>3. Inv => HistoryIsOutcome
    <2> SUFFICES ASSUME OutcomeInv, NEW d \in Ops, Quiet(d), d \notin excused
                 PROVE  row[d] = "completed" <=> d \in built
      BY DEF HistoryIsOutcome
    <2>1. LastWord(d) /\ \A n \in DOMAIN link : ~IsComplete(n, d)
      BY DEF OutcomeInv, Verdicts, Quiet, IsComplete
    <2> QED
      BY <2>1 DEF LastWord
  <1> QED
    BY <1>1, <1>2, <1>3, PTL DEF Spec
=============================================================================

------------------------------ MODULE Uploads ------------------------------
(***************************************************************************)
(* Payloads delivered to a game.  The game takes a payload in chunks, one  *)
(* RCON command each, into a session named by platform and force; the      *)
(* command that finds all chunks there closes the session and queues a     *)
(* job.  Nothing else ends a session.                                      *)
(*                                                                         *)
(* An upload is such a delivery with an operation record at the            *)
(* controller: accepted when the delivery has ended, settled by the event  *)
(* that reports the job.  A file import has a delivery and no record.      *)
(***************************************************************************)
EXTENDS Integers, Sequences

CONSTANTS
  Ops,          \* upload operations
  Files,        \* imports from a file of the instance
  Keys,         \* session keys: platform name and force
  Key,          \* the session key of each delivery
  Chunks,       \* the number of chunks of each payload
  MaxChunks,    \* the most chunks of a payload
  Payload,      \* what a payload holds, its operation id aside
  Overlap,      \* deliveries under one key may overlap
  Overtaking,   \* a job may end before the answer to its delivery is sent
  Disturbances, \* what may go wrong
  MaxFaults     \* how often

Deliveries == Ops \cup Files
Kinds == {"lost_reply", "lost_command", "lost_session", "lost_event", "controller",
          "game", "prune"}

ASSUME UploadsAssumption ==
  /\ Ops \cap Files = {}
  /\ Key \in [Deliveries -> Keys] /\ MaxChunks \in Nat /\ Chunks \in [Deliveries -> 1..MaxChunks]
  /\ \A d, e \in Deliveries : Payload[d] = Payload[e] => Chunks[d] = Chunks[e]
  /\ Overlap \in BOOLEAN /\ Overtaking \in BOOLEAN
  /\ Disturbances \subseteq Kinds /\ MaxFaults \in Nat

VARIABLES
  record,       \* status in activeTransfers, or "none"
  row,          \* the last status on the audit ledger, or "none"
  answer,       \* what the user who uploads was told
  held,         \* handlers that wait, and whose record is the active one
  delivery,     \* progress of each delivery at the instance
  next,         \* its next chunk
  sessions,     \* chunks received under each key
  jobs,         \* imports queued in the game
  built,        \* platforms that were built for uploads
  saved,        \* the save of the game: sessions, jobs and platforms
  link,         \* messages from the instance to the controller, in order
  faults,
  excused       \* (history) deliveries hit by a fault nobody can answer for

game == <<sessions, jobs, built>>
controller == <<record, row, answer, held>>
vars == <<controller, delivery, next, game, saved, link, faults, excused>>

Terminal == {"completed", "failed", "cleanup_failed"}
Statuses == {"none", "in_progress", "awaiting_completion"} \cup Terminal
None == [payload |-> "none"]

\* chunkify: the operation id comes last in the JSON, so only the last chunk tells
\* two uploads of the same payload apart.
Content(d, n) ==
  [payload |-> Payload[d], part |-> n, tail |-> IF n = Chunks[d] THEN {d} ELSE {}]
Contents == {Content(d, n) : d \in Deliveries, n \in 1..MaxChunks}
EmptySession == [n \in 1..MaxChunks |-> None]

Messages ==
  [kind : {"response"}, of : Ops, outcome : {"accepted", "refused"}] \cup
  [kind : {"complete"}, of : Ops, outcome : Terminal]

Init ==
  /\ record = [d \in Ops |-> "none"] /\ row = [d \in Ops |-> "none"]
  /\ answer = [d \in Ops |-> "none"] /\ held = {}
  /\ delivery = [d \in Deliveries |-> "idle"] /\ next = [d \in Deliveries |-> 1]
  /\ sessions = [k \in Keys |-> EmptySession] /\ jobs = {} /\ built = {}
  /\ saved = game /\ link = <<>> /\ faults = 0 /\ excused = {}

Fault(kind) == kind \in Disturbances /\ faults < MaxFaults /\ faults' = faults + 1

-----------------------------------------------------------------------------
(* Start *)

KeyFree(d) ==
  Overlap \/ \A e \in Deliveries \ {d} : Key[e] = Key[d] => delivery[e] # "sending"

\* handleImportUploadedExportRequest, up to the request to the instance, where
\* handleImportPlatformRequest begins to send.
Request(d) ==
  /\ answer[d] = "none" /\ record[d] = "none" /\ delivery[d] = "idle" /\ KeyFree(d)
  /\ record' = [record EXCEPT ![d] = "in_progress"]
  /\ row' = [row EXCEPT ![d] = "in_progress"]
  /\ held' = held \cup {d}
  /\ delivery' = [delivery EXCEPT ![d] = "sending"]
  /\ UNCHANGED <<answer, next, game, saved, link, faults, excused>>

\* importPlatformFromFile.
ImportFile(d) ==
  /\ d \in Files /\ delivery[d] = "idle" /\ KeyFree(d)
  /\ delivery' = [delivery EXCEPT ![d] = "sending"]
  /\ UNCHANGED <<controller, next, game, saved, link, faults, excused>>

-----------------------------------------------------------------------------
(* Delivery *)

\* ImportPipeline.queue decodes the payload at once, and refuses what does not
\* decode: only the chunks of one payload, in order, do.
Owner(parts) == CHOOSE d \in Deliveries : d \in parts[Len(parts)].tail
Decodes(parts) ==
  \E d \in Deliveries : /\ Len(parts) = Chunks[d]
                        /\ \A n \in 1..Chunks[d] : parts[n] = Content(d, n)

\* import_platform_chunk: what is complete is judged by the total of this call.
Missing(session, total) == {n \in 1..total : session[n] = None}
ImportPlatformChunk(d, n, reply) ==
  LET total   == Chunks[d]
      session == [sessions[Key[d]] EXCEPT ![n] = Content(d, n)]
      parts   == [i \in 1..total |-> session[i]]
  IN  IF Missing(session, total) # {}
      THEN /\ sessions' = [sessions EXCEPT ![Key[d]] = session]
           /\ reply = "ok" /\ UNCHANGED <<jobs, built>>
      ELSE /\ sessions' = [sessions EXCEPT ![Key[d]] = EmptySession]
           /\ reply = IF Decodes(parts) THEN "ok" ELSE "error"
           /\ jobs' = IF Decodes(parts) THEN jobs \cup {Owner(parts)} ELSE jobs
           /\ UNCHANGED built

\* Mutant: one chunk more than there are.
ProgressOneMore(d, reply) ==
  IF reply # "ok" THEN delivery' = [delivery EXCEPT ![d] = "failed"] /\ UNCHANGED next
  ELSE /\ next' = [next EXCEPT ![d] = @ + 1]
       /\ delivery' = IF next[d] <= Chunks[d] THEN delivery
                      ELSE [delivery EXCEPT ![d] = "delivered"]

\* Mutant: the reply is not looked at.
ProgressAnyway(d, reply) ==
  /\ next' = [next EXCEPT ![d] = @ + 1]
  /\ delivery' = IF next[d] < Chunks[d] THEN delivery
                 ELSE [delivery EXCEPT ![d] = "delivered"]

\* sendChunkedJson: the next chunk, unless the reply is neither CHUNK_OK nor
\* JOB_QUEUED; after the last one the delivery is done, whichever of the two it was.
Progress(d, reply) ==
  IF reply # "ok" THEN delivery' = [delivery EXCEPT ![d] = "failed"] /\ UNCHANGED next
  ELSE /\ next' = [next EXCEPT ![d] = @ + 1]
       /\ delivery' = IF next[d] < Chunks[d] THEN delivery
                      ELSE [delivery EXCEPT ![d] = "delivered"]

SendChunk(d) ==
  /\ delivery[d] = "sending"
  /\ \E reply \in {"ok", "error"} :
       ImportPlatformChunk(d, next[d], reply) /\ Progress(d, reply)
  /\ UNCHANGED <<controller, saved, link, faults, excused>>

\* The command, or its reply, is lost.
LoseCommand(d) ==
  /\ delivery[d] = "sending" /\ Fault("lost_command") /\ Progress(d, "error")
  /\ UNCHANGED <<controller, game, saved, link, excused>>
LoseReply(d) ==
  /\ delivery[d] = "sending" /\ Fault("lost_reply") /\ Progress(d, "error")
  /\ \E reply \in {"ok", "error"} : ImportPlatformChunk(d, next[d], reply)
  /\ UNCHANGED <<controller, saved, link, excused>>

\* Mutant: a delivery that failed is not answered.
RespondDelivered(d) ==
  /\ delivery[d] = "delivered"
  /\ delivery' = [delivery EXCEPT ![d] = "accepted"]
  /\ link' = Append(link, [kind |-> "response", of |-> d, outcome |-> delivery'[d]])
  /\ UNCHANGED <<controller, next, game, saved, faults, excused>>

\* importPlatform answers the request.
Respond(d) ==
  /\ delivery[d] \in {"delivered", "failed"}
  /\ delivery' = [delivery EXCEPT ![d] = IF @ = "delivered" THEN "accepted" ELSE "refused"]
  /\ link' = Append(link, [kind |-> "response", of |-> d, outcome |-> delivery'[d]])
  /\ UNCHANGED <<controller, next, game, saved, faults, excused>>

\* The job ends: the platform is live, or it was discarded, or the discard failed.
\* handleImportCompleteValidation reports it.
Outcome(d, outcome) ==
  /\ d \in jobs /\ jobs' = jobs \ {d}
  /\ d \in Ops /\ ~Overtaking => delivery[d] \in {"accepted", "refused"}
  /\ built' = IF outcome = "completed" THEN built \cup ({d} \cap Ops) ELSE built
  /\ UNCHANGED <<sessions, controller, delivery, next, saved>>
RunJob(d, outcome) ==
  /\ Outcome(d, outcome)
  /\ link' = IF d \in Ops
             THEN Append(link, [kind |-> "complete", of |-> d, outcome |-> outcome])
             ELSE link
  /\ UNCHANGED <<faults, excused>>
LoseEvent(d, outcome) ==
  /\ d \in Ops /\ Outcome(d, outcome) /\ Fault("lost_event")
  /\ excused' = excused \cup {d} /\ UNCHANGED link

-----------------------------------------------------------------------------
(* The controller *)

\* An update of the operation reaches the active record when the handler holds it;
\* persistTransactionLog finds the record by its id.
Settle(d, status) ==
  /\ record' = IF d \in held THEN [record EXCEPT ![d] = status] ELSE record
  /\ row' = IF record'[d] = "none" THEN row ELSE [row EXCEPT ![d] = record'[d]]
  /\ held' = held \ {d}

\* The answer of the instance: awaiting_completion, or failOperation.
HandleResponse ==
  /\ link # <<>> /\ Head(link).kind = "response" /\ link' = Tail(link)
  /\ LET d == Head(link).of IN
     IF answer[d] # "none" THEN UNCHANGED controller
     ELSE /\ answer' = [answer EXCEPT ![d] = Head(link).outcome]
          /\ Settle(d, IF Head(link).outcome = "accepted" THEN "awaiting_completion"
                       ELSE "failed")
  /\ UNCHANGED <<delivery, next, game, saved, faults, excused>>

\* The session is lost with the request on it: the handler fails the operation
\* although the delivery goes on.
LoseSession(d) ==
  /\ d \in held /\ Fault("lost_session")
  /\ answer' = [answer EXCEPT ![d] = "refused"] /\ Settle(d, "failed")
  /\ UNCHANGED <<delivery, next, game, saved, link, excused>>

\* Mutant: the event of an unknown operation is dropped.
HandleCompleteKnown ==
  /\ link # <<>> /\ Head(link).kind = "complete" /\ link' = Tail(link)
  /\ LET d == Head(link).of IN
     IF record[d] = "none" THEN UNCHANGED <<record, row>>
     ELSE /\ record' = [record EXCEPT ![d] = Head(link).outcome]
          /\ row' = [row EXCEPT ![d] = Head(link).outcome]
  /\ UNCHANGED <<answer, held, delivery, next, game, saved, faults, excused>>

\* handleImportOperationCompleteEvent: a record that is gone is created again.
HandleComplete ==
  /\ link # <<>> /\ Head(link).kind = "complete" /\ link' = Tail(link)
  /\ LET d == Head(link).of IN
     /\ record' = [record EXCEPT ![d] = Head(link).outcome]
     /\ row' = [row EXCEPT ![d] = Head(link).outcome]
  /\ UNCHANGED <<answer, held, delivery, next, game, saved, faults, excused>>

\* pruneOldTransfers, after a hundred newer operations.
Prune(d) ==
  /\ record[d] # "none" /\ Fault("prune")
  /\ record' = [record EXCEPT ![d] = "none"] /\ held' = held \ {d}
  /\ UNCHANGED <<row, answer, delivery, next, game, saved, link, excused>>

-----------------------------------------------------------------------------
(* Restarts *)

\* The controller forgets its records and handlers; the answers on their way are
\* for nobody, and an event on its way is lost.
ControllerRestart ==
  /\ Fault("controller")
  /\ record' = [d \in Ops |-> "none"] /\ held' = {}
  /\ answer' = [d \in Ops |-> IF answer[d] = "none" /\ delivery[d] # "idle"
                              THEN "lost" ELSE answer[d]]
  /\ link' = <<>>
  /\ excused' = excused \cup {link[n].of : n \in {m \in DOMAIN link : link[m].kind = "complete"}}
  /\ UNCHANGED <<row, delivery, next, game, saved>>

\* A save matters to a restart that is still to come.
Save ==
  /\ "game" \in Disturbances /\ faults < MaxFaults /\ saved # game /\ saved' = game
  /\ UNCHANGED <<controller, delivery, next, game, link, faults, excused>>

\* The game starts again from its last save; commands under way fail.
GameRestart ==
  /\ Fault("game")
  /\ sessions' = saved[1] /\ jobs' = saved[2] /\ built' = saved[3]
  /\ delivery' = [d \in Deliveries |-> IF delivery[d] = "sending" THEN "failed"
                                       ELSE delivery[d]]
  /\ excused' = excused \cup (((jobs \cup built) \cap Ops) \ (saved[2] \cup saved[3]))
  /\ UNCHANGED <<controller, next, saved, link>>

Next ==
  \/ \E d \in Ops : Request(d) \/ Respond(d) \/ LoseSession(d) \/ Prune(d)
  \/ \E d \in Deliveries : ImportFile(d) \/ SendChunk(d) \/ LoseCommand(d) \/ LoseReply(d)
  \/ \E d \in Deliveries, o \in Terminal : RunJob(d, o) \/ LoseEvent(d, o)
  \/ HandleResponse \/ HandleComplete \/ ControllerRestart \/ Save \/ GameRestart

\* The instance sends on, the game runs its jobs, the controller takes its messages.
Fairness ==
  /\ \A d \in Deliveries : WF_vars(SendChunk(d))
  /\ \A d \in Ops : WF_vars(Respond(d))
  /\ \A d \in Deliveries : WF_vars(\E o \in Terminal : RunJob(d, o))
  /\ WF_vars(HandleResponse) /\ WF_vars(HandleComplete)

Spec == Init /\ [][Next]_vars /\ Fairness

-----------------------------------------------------------------------------
(* Properties *)

\* Type correctness of the uploads.
TypeOK ==
  /\ record \in [Ops -> Statuses] /\ row \in [Ops -> Statuses]
  /\ answer \in [Ops -> {"none", "accepted", "refused", "lost"}] /\ held \subseteq Ops
  /\ delivery \in [Deliveries -> {"idle", "sending", "delivered", "failed", "accepted",
                                  "refused"}]
  /\ \A d \in Deliveries : next[d] \in 1..Chunks[d] + 1
  /\ sessions \in [Keys -> [1..MaxChunks -> Contents \cup {None}]]
  /\ jobs \subseteq Deliveries /\ built \subseteq Ops
  /\ saved \in [Keys -> [1..MaxChunks -> Contents \cup {None}]]
                 \X (SUBSET Deliveries) \X (SUBSET Ops)
  /\ link \in Seq(Messages) /\ faults \in 0..MaxFaults /\ excused \subseteq Ops

\* "All chunks sent, import queued for async processing" (importPlatform): a delivery
\* ends well only in the step that queues its own payload, whatever sessions earlier
\* deliveries left behind.
DeliveredIsQueued ==
  [][\A d \in Deliveries :
       delivery[d] = "sending" /\ delivery'[d] = "delivered" => d \in jobs']_vars

\* Nothing is under way for an upload.
Quiet(d) ==
  /\ d \notin jobs /\ d \notin held /\ delivery[d] \in {"accepted", "refused"}
  /\ \A n \in DOMAIN link : link[n].of # d

\* When nothing is under way any more the history tells what the game has: completed
\* exactly when the platform was built, although the upload was reported as failed
\* before, its record was pruned, or the controller restarted in between.
HistoryIsOutcome ==
  \A d \in Ops : Quiet(d) /\ d \notin excused => (row[d] = "completed" <=> d \in built)

\* An operation does not stay open: its record leaves in_progress and
\* awaiting_completion, unless the event or the job was lost.
OperationSettles ==
  \A d \in Ops :
    record[d] \in {"in_progress", "awaiting_completion"} ~>
      (record[d] \notin {"in_progress", "awaiting_completion"} \/ d \in excused)
=============================================================================

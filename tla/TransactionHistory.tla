------------------------- MODULE TransactionHistory -------------------------
(***************************************************************************)
(* What the controller remembers of the operations it ran: the log of each *)
(* operation in memory, the bounded store of their details in one JSON     *)
(* file that is replaced as a whole, and the audit ledger, a JSONL file    *)
(* that is appended to and rotated.                                        *)
(*                                                                         *)
(* Writes to one file go through a chain of promises: they are made in the *)
(* order they were asked for, one at a time, while handlers run on.  The   *)
(* controller may stop at any moment, and what it had not written is gone. *)
(*                                                                         *)
(* An operation is known by the moment it started.  Its id may be that of  *)
(* an earlier one: a failed transfer is tried again under its id, and a    *)
(* game whose save was rolled back issues the same job ids again.          *)
(***************************************************************************)
EXTENDS Integers, Sequences, FiniteSets

CONSTANTS
  Ids,          \* ids of operations
  Cap,          \* transaction_log_detail_entries, clamped
  Reserved,     \* RESERVED_SUCCESS_SLOTS
  MaxActive,    \* records kept by pruneOldTransfers
  MaxRows,      \* rows that fill a ledger file (DEFAULT_LEDGER_MAX_BYTES)
  MaxFiles,     \* DEFAULT_LEDGER_MAX_FILES
  MaxTime,      \* bound on the operations and persists of one behaviour
  MaxFaults     \* bound on crashes, failed writes and damage

ASSUME HistoryAssumption ==
  /\ {Cap, MaxActive, MaxRows, MaxFiles} \subseteq Nat \ {0}
  /\ {Reserved, MaxTime, MaxFaults} \subseteq Nat

VARIABLES
  up,           \* the controller runs
  now,          \* the clock: startedAt and savedAt are read from it
  active,       \* activeTransfers
  logs,         \* the ids that have a list of events in transactionLogs
  detail,       \* persistedTransactionLogs
  latched,      \* transactionLogLoadError is set
  index,        \* auditIndex
  revisions,    \* auditRevisions
  rowQueue,     \* appends to the ledger under way, with what awaits each
  fileQueue,    \* snapshots of the details on their way to the file
  ledger,       \* the ledger file, then its rotated generations, newest first
  file,         \* the content of the detail file
  damaged,      \* the detail file cannot be parsed
  faults,       \* faults so far
  crashes,      \* crashes so far
  known,        \* (history) the rows in the index, as loaded and recorded
  excused       \* (history) operations a row or the detail of which was lost, or that
                \* were persisted again while they were archived

memory == <<active, logs, detail, latched, index, revisions, rowQueue, fileQueue>>
disk   == <<ledger, file, damaged>>
ghost  == <<known, excused>>
vars   == <<up, now, memory, disk, faults, crashes, ghost>>

Statuses == {"in_progress", "completed", "failed"}
\* A record's own id, or the archival id "id@savedAt" it is moved to when the id
\* is used again.
Names    == Ids \X Nat
Live(i)  == <<i, 0>>

\* Mutant: every record of an id moves to the same archival id.
ArchivalOnce(i, saved) == <<i, 1>>

Archival(i, saved) == <<i, saved>>
Rows     == [id : Names, kind : {"start", "terminal"}, started : Nat, saved : Nat,
             status : Statuses]
Entries  == [id : Names, started : Nat, saved : Nat, status : Statuses]
Ops      == [started : Nat, status : Statuses]
\* What goes on when the append is done: nothing, the opening of an operation,
\* or the write of the details.
Appends  == [row : Rows, then : {"none", "open", "write"}, started : Nat,
             snapshot : Seq(Entries)]

Put(f, k, v) == [x \in DOMAIN f \cup {k} |-> IF x = k THEN v ELSE f[x]]
Without(f, k) == [x \in DOMAIN f \ {k} |-> f[x]]
NoKey == [x \in {} |-> x]
Least(S) == CHOOSE x \in S : \A y \in S : x <= y
Greatest(S) == CHOOSE x \in S : \A y \in S : x >= y
Elements(s) == {s[n] : n \in DOMAIN s}

-----------------------------------------------------------------------------
(* The audit ledger *)

\* foldAuditRows: one row for each id, the last terminal one, or the last start
\* row when no terminal row was written.
Candidates(rows, name) ==
  {n \in DOMAIN rows :
     /\ rows[n].id = name
     /\ rows[n].kind = "start" =>
          \A m \in DOMAIN rows : rows[m].id = name => rows[m].kind = "start"}
FoldAuditRows(rows) ==
  [name \in {rows[n].id : n \in DOMAIN rows} |-> rows[Greatest(Candidates(rows, name))]]

\* countRevisions: terminal rows by id.
CountRevisions(rows) ==
  LET Terminal(name) == {n \in DOMAIN rows : rows[n].id = name /\ rows[n].kind = "terminal"}
  IN  [name \in {rows[n].id : n \in {m \in DOMAIN rows : rows[m].kind = "terminal"}} |->
         Cardinality(Terminal(name))]

\* Mutant: the file is read before its generations.
LoadAuditLedgerNewestFirst(files) ==
  LET from[n \in 1..Len(files) + 1] ==
        IF n > Len(files) THEN <<>> ELSE files[n] \o from[n + 1]
  IN  from[1]

\* loadAuditLedger: the generations from the oldest, then the file itself.
LoadAuditLedger(files) ==
  LET upto[n \in 0..Len(files)] ==
        IF n = 0 THEN <<>> ELSE files[n] \o upto[n - 1]
  IN  upto[Len(files)]

\* rotateIfNeeded: each generation moves one back, the oldest is removed, and the
\* full file becomes generation 1.
Rotated(files) ==
  IF Len(files[1]) < MaxRows THEN files
  ELSE [n \in 1..MaxFiles + 1 |-> IF n = 1 THEN <<>> ELSE files[n - 1]]
\* The same when the process dies before the last rename: generation 1 is missing.
RotationCutShort(files) ==
  [n \in 1..MaxFiles + 1 |-> CASE n = 1 -> files[1] [] n = 2 -> <<>> [] OTHER -> files[n - 1]]

\* Mutant: a start row replaces a terminal one.
RecordAuditRowLast(row) ==
  /\ index' = Put(index, row.id, row)
  /\ revisions' =
       IF row.kind = "start" THEN revisions
       ELSE Put(revisions, row.id,
                1 + IF row.id \in DOMAIN revisions THEN revisions[row.id] ELSE 0)
  /\ known' = Append(known, row)

\* recordAuditRow, when the row was appended.
RecordAuditRow(row) ==
  /\ index' =
       IF /\ row.id \in DOMAIN index /\ index[row.id].kind = "terminal"
          /\ row.kind = "start"
       THEN index
       ELSE Put(index, row.id, row)
  /\ revisions' =
       IF row.kind = "start" THEN revisions
       ELSE Put(revisions, row.id,
                1 + IF row.id \in DOMAIN revisions THEN revisions[row.id] ELSE 0)
  /\ known' = Append(known, row)

\* Mutant: the status is not one of the ledger's.
AuditRowUnresolved(name, kind, op, saved) ==
  [id |-> name, kind |-> kind, started |-> op.started, saved |-> saved, status |-> "unknown"]

AuditRow(name, kind, op, saved) ==
  [id |-> name, kind |-> kind, started |-> op.started, saved |-> saved, status |-> op.status]

-----------------------------------------------------------------------------
(* The store of details *)

IsFailure(e) == e.status = "failed"

\* preferPinnedThenNewest; savedAt tells the entries apart.
Prefers(pinned, e, f) ==
  \/ e \in pinned /\ f \notin pinned
  \/ (e \in pinned <=> f \in pinned) /\ e.saved > f.saved
Best(pinned, S, n) == {e \in S : Cardinality({f \in S : Prefers(pinned, f, e)}) < n}

\* Mutant: no slot is reserved for a success.
SuccessFloorNone(available) == 0

\* The entries that are in S, in their order.
Among(entries, S) ==
  LET at     == {n \in DOMAIN entries : entries[n] \in S}
      nth(k) == CHOOSE n \in at : Cardinality({m \in at : m <= n}) = k
  IN  [k \in 1..Cardinality(at) |-> entries[nth(k)]]

\* selectRetainedDetail: failures first, but successes keep their floor; what is
\* left of the window goes to the best of the rest.
SuccessFloor(available) == Least({Reserved, available, Cap \div 2})
Retained(entries, pinned) ==
  LET failures  == {e \in Elements(entries) : IsFailure(e)}
      successes == Elements(entries) \ failures
      first     == Best(pinned, failures, Cap - SuccessFloor(Cardinality(successes)))
      second    == first \cup Best(pinned, successes, Cap - Cardinality(first))
      third     == second \cup Best(pinned, Elements(entries) \ second,
                                    Cap - Cardinality(second))
  IN  IF Len(entries) <= Cap THEN entries ELSE Among(entries, third)

\* isPinned: no audit row, or an export that can still be downloaded.
Pinned(entries, downloadable) ==
  {e \in Elements(entries) : e.id \notin DOMAIN index \/ e.id[1] \in downloadable}

\* The entry of a name, or 0.
Position(entries, name) ==
  LET found == {n \in DOMAIN entries : entries[n].id = name}
  IN  IF found = {} THEN 0 ELSE Least(found)
Upsert(entries, entry) ==
  LET n == Position(entries, entry.id)
  IN  IF n = 0 THEN Append(entries, entry) ELSE [entries EXCEPT ![n] = entry]

\* An entry is an object that the snapshots in the queues share with the store:
\* its new name shows in all of them.
Renamed(entries, entry) ==
  [n \in DOMAIN entries |->
     IF entries[n] = entry THEN [entry EXCEPT !.id = Archival(entry.id[1], entry.saved)]
     ELSE entries[n]]

\* pruneTransactionLogsMap.
PruneTransactionLogs(ids, retained) ==
  {i \in ids : \/ i \in DOMAIN active
               \/ \E e \in Elements(retained) : e.id = Live(i)
               \/ Live(i) \in DOMAIN index /\ index[Live(i)].kind = "start"}

\* pruneOldTransfers: the records that started first are dropped.
PruneOldTransfers(ops) ==
  [i \in {j \in DOMAIN ops :
            Cardinality({k \in DOMAIN ops : ops[k].started > ops[j].started}) < MaxActive} |->
     ops[i]]

-----------------------------------------------------------------------------
(* Operations *)

Init ==
  /\ up = FALSE /\ now = 1 /\ active = NoKey /\ logs = {} /\ detail = <<>>
  /\ latched = FALSE /\ index = NoKey /\ revisions = NoKey
  /\ rowQueue = <<>> /\ fileQueue = <<>>
  /\ ledger = [n \in 1..MaxFiles + 1 |-> <<>>]
  \* a store written before there was a ledger, or none
  /\ file \in {<<>>} \cup
       {<<[id |-> Live(i), started |-> 1, saved |-> 1, status |-> s]>> :
          i \in Ids, s \in {"completed", "failed"}}
  /\ damaged = FALSE /\ faults = 0 /\ crashes = 0 /\ known = <<>> /\ excused = {}

\* Mutant: a row is appended before those that wait.
EnqueueUrgent(row, then, started, snapshot) ==
  <<[row |-> row, then |-> then, started |-> started, snapshot |-> snapshot]>> \o rowQueue

Enqueue(row, then, started, snapshot) ==
  Append(rowQueue, [row |-> row, then |-> then, started |-> started, snapshot |-> snapshot])

\* The record takes its place among the active ones, its first event starts a new
\* list, and its start row is on its way.
Opened(i, started, queue) ==
  LET op == [started |-> started, status |-> "in_progress"]
  IN  /\ active' = Put(active, i, op)
      /\ logs' = logs \cup {i}
      /\ rowQueue' = Append(queue,
           [row |-> AuditRow(Live(i), "start", op, started), then |-> "none",
            started |-> started, snapshot |-> <<>>])

\* An earlier operation of the id is being archived: its row is on its way.
Archiving(i) == \E n \in DOMAIN rowQueue : rowQueue[n].then = "open" /\ rowQueue[n].row.id[1] = i

\* createOperationRecord and transferPlatform, up to the first await: an id is
\* taken when it has no record, or a failed one.  A record of an earlier operation
\* is archived first, and the new one waits for its row; the guard is not asked again
\* then, so that two operations of an id may begin and open in either order, the later
\* to open replacing the other's record.
Begin(i) ==
  /\ up /\ now < MaxTime /\ now' = now + 1
  /\ i \in DOMAIN active => active[i].status = "failed"
  /\ LET n == Position(detail, Live(i)) IN
     IF n = 0
     THEN /\ Opened(i, now', rowQueue)
          /\ UNCHANGED <<detail, fileQueue>>
     ELSE LET entry == detail[n] IN
          /\ detail' = Renamed(detail, entry)
          /\ fileQueue' = [k \in DOMAIN fileQueue |-> Renamed(fileQueue[k], entry)]
          /\ rowQueue' = Append(
               [k \in DOMAIN rowQueue |->
                  [rowQueue[k] EXCEPT !.snapshot = Renamed(@, entry)]],
               [row |-> AuditRow(Archival(i, entry.saved), "terminal", entry, entry.saved),
                then |-> "open", started |-> now', snapshot |-> <<>>])
          /\ UNCHANGED <<active, logs>>
  /\ UNCHANGED <<up, latched, index, revisions, disk, faults, crashes, ghost>>

\* A handler settles the operation.
Settle(i, status) ==
  /\ up /\ i \in DOMAIN active /\ i \in logs
  /\ active[i].status = "in_progress" /\ status # "in_progress"
  /\ active' = [active EXCEPT ![i].status = status]
  /\ UNCHANGED <<up, now, logs, detail, latched, index, revisions, rowQueue, fileQueue,
                 disk, faults, crashes, ghost>>

\* persistTransactionLog, up to the await of the ledger row.
Persist(i, downloadable) ==
  /\ up /\ ~latched /\ now < MaxTime /\ now' = now + 1
  /\ i \in logs /\ i \in DOMAIN active
  /\ LET entry == [id |-> Live(i), started |-> active[i].started, saved |-> now',
                   status |-> active[i].status]
         all   == Upsert(detail, entry)
         kept  == Retained(all, Pinned(all, downloadable))
     IN  /\ detail' = kept
         /\ logs' = PruneTransactionLogs(logs, kept)
         /\ rowQueue' = Enqueue(AuditRow(Live(i), "terminal", active[i], now'),
                                "write", active[i].started, kept)
         /\ excused' = excused \cup {e.started : e \in Elements(all) \ Elements(kept)}
                          \cup (IF Archiving(i) THEN {active[i].started} ELSE {})
  /\ UNCHANGED <<up, active, latched, index, revisions, fileQueue, disk, faults, crashes,
                 known>>

\* The end of a handler.
PruneActive ==
  /\ up /\ active' = PruneOldTransfers(active) /\ active' # active
  /\ UNCHANGED <<up, now, logs, detail, latched, index, revisions, rowQueue, fileQueue,
                 disk, faults, crashes, ghost>>

\* What awaited the append goes on, whether it succeeded or not.
Continue(job) ==
  CASE job.then = "none" ->
         rowQueue' = Tail(rowQueue) /\ UNCHANGED <<active, logs, fileQueue>>
    [] job.then = "open" ->
         Opened(job.row.id[1], job.started, Tail(rowQueue)) /\ UNCHANGED fileQueue
    [] job.then = "write" ->
         /\ rowQueue' = Tail(rowQueue) /\ fileQueue' = Append(fileQueue, job.snapshot)
         /\ UNCHANGED <<active, logs>>

\* appendAuditRow and recordAuditRow.
AppendRow ==
  /\ up /\ rowQueue # <<>>
  /\ ledger' = [Rotated(ledger) EXCEPT ![1] = Append(@, Head(rowQueue).row)]
  /\ RecordAuditRow(Head(rowQueue).row)
  /\ Continue(Head(rowQueue))
  /\ UNCHANGED <<up, now, detail, latched, file, damaged, faults, crashes, excused>>

Fault == faults < MaxFaults /\ faults' = faults + 1

\* The append fails, after the rotation or before it; the error is logged.
AppendFails ==
  /\ up /\ rowQueue # <<>> /\ Fault
  /\ ledger' \in {ledger, Rotated(ledger)}
  /\ Continue(Head(rowQueue))
  /\ excused' = excused \cup {Head(rowQueue).row.started}
  /\ UNCHANGED <<up, now, detail, latched, index, revisions, file, damaged, crashes, known>>

\* Mutant: writes do not wait for each other.
WriteDetailsAnyOrder ==
  /\ up
  /\ \E n \in DOMAIN fileQueue :
       /\ file' = fileQueue[n]
       /\ fileQueue' = SubSeq(fileQueue, 1, n - 1) \o SubSeq(fileQueue, n + 1, Len(fileQueue))
  /\ damaged' = FALSE
  /\ UNCHANGED <<up, now, active, logs, detail, latched, index, revisions, rowQueue,
                 ledger, faults, crashes, ghost>>

\* The detail file is replaced; a failed write leaves it as it was.
WriteDetails ==
  /\ up /\ fileQueue # <<>>
  /\ file' = Head(fileQueue) /\ damaged' = FALSE /\ fileQueue' = Tail(fileQueue)
  /\ UNCHANGED <<up, now, active, logs, detail, latched, index, revisions, rowQueue,
                 ledger, faults, crashes, ghost>>

WriteFails ==
  /\ up /\ fileQueue # <<>> /\ Fault
  /\ fileQueue' = Tail(fileQueue)
  /\ UNCHANGED <<up, now, active, logs, detail, latched, index, revisions, rowQueue,
                 disk, crashes, ghost>>

\* The controller stops, perhaps in the middle of a rotation.
Crash ==
  /\ up /\ Fault /\ crashes' = crashes + 1 /\ up' = FALSE
  /\ ledger' \in {ledger} \cup
       (IF rowQueue # <<>> /\ Len(ledger[1]) >= MaxRows
        THEN {RotationCutShort(ledger)} ELSE {})
  /\ active' = NoKey /\ logs' = {} /\ detail' = <<>> /\ latched' = FALSE
  /\ index' = NoKey /\ revisions' = NoKey /\ rowQueue' = <<>> /\ fileQueue' = <<>>
  /\ known' = <<>>
  /\ excused' = excused \cup ({e.started : e \in Elements(detail)}
                                \ {e.started : e \in Elements(file)})
  /\ UNCHANGED <<now, file, damaged>>

\* loadTransactionLogs: a file that cannot be parsed latches the error.
LoadTransactionLogs == latched' = damaged /\ detail' = IF damaged THEN <<>> ELSE file

\* migrateAuditLedger: a row for each detail, in the order they were saved.
Migrated(entries) ==
  LET rank(n) == 1 + Cardinality({m \in DOMAIN entries :
                        \/ entries[m].saved < entries[n].saved
                        \/ entries[m].saved = entries[n].saved /\ m < n})
      at(k) == entries[CHOOSE n \in DOMAIN entries : rank(n) = k]
  IN  [k \in DOMAIN entries |-> AuditRow(at(k).id, "terminal", at(k), at(k).saved)]

\* init: loadTransactionLogs, then loadAuditIndex, which derives an empty ledger
\* from the details; when that write fails the index stays empty.
Boot ==
  /\ ~up /\ up' = TRUE
  /\ LoadTransactionLogs
  /\ LET rows    == LoadAuditLedger(ledger)
         migrate == rows = <<>> /\ detail' # <<>>
         Load(r) == index' = FoldAuditRows(r) /\ revisions' = CountRevisions(r) /\ known' = r
     IN  /\ excused' = excused \cup
              {e \in {rows[n].started : n \in DOMAIN rows} : damaged}
         /\ \/ /\ ~migrate /\ Load(rows) /\ UNCHANGED <<ledger, faults>>
            \/ /\ migrate /\ Load(Migrated(detail'))
               /\ ledger' = [ledger EXCEPT ![1] = Migrated(detail')]
               /\ UNCHANGED faults
            \/ migrate /\ Load(<<>>) /\ UNCHANGED ledger /\ Fault
  /\ UNCHANGED <<now, active, logs, rowQueue, fileQueue, file, damaged, crashes>>

\* Between two runs the file is damaged, or repaired.
Damage ==
  /\ ~up /\ ~damaged /\ file # <<>> /\ Fault /\ damaged' = TRUE
  /\ UNCHANGED <<up, now, memory, ledger, file, crashes, ghost>>
Repair ==
  /\ ~up /\ damaged /\ damaged' = FALSE
  /\ UNCHANGED <<up, now, memory, ledger, file, faults, crashes, ghost>>

Next ==
  \/ \E i \in Ids : Begin(i) \/ \E s \in Statuses : Settle(i, s)
  \/ \E i \in Ids, stored \in SUBSET Ids : Persist(i, stored)
  \/ PruneActive
  \/ AppendRow \/ AppendFails \/ WriteDetails \/ WriteFails
  \/ Crash \/ Boot \/ Damage \/ Repair

Spec == Init /\ [][Next]_vars

-----------------------------------------------------------------------------
(* Properties *)

\* Type correctness of the history.
TypeOK ==
  /\ up \in BOOLEAN /\ latched \in BOOLEAN /\ damaged \in BOOLEAN
  /\ now \in Nat /\ faults \in Nat /\ crashes \in Nat
  /\ DOMAIN active \subseteq Ids /\ \A i \in DOMAIN active : active[i] \in Ops
  /\ logs \subseteq Ids
  /\ detail \in Seq(Entries) /\ file \in Seq(Entries)
  /\ fileQueue \in Seq(Seq(Entries)) /\ rowQueue \in Seq(Appends)
  /\ ledger \in [1..MaxFiles + 1 -> Seq(Rows)] /\ known \in Seq(Rows)
  /\ DOMAIN index \subseteq Names /\ \A x \in DOMAIN index : index[x] \in Rows
  /\ DOMAIN revisions \subseteq Names /\ \A x \in DOMAIN revisions : revisions[x] \in Nat
  /\ excused \subseteq Nat

\* The index kept row by row (recordAuditRow) is the one a restart would fold from
\* the same rows (foldAuditRows, countRevisions): the list does not change its mind
\* over a restart.
IndexIsFold == index = FoldAuditRows(known) /\ revisions = CountRevisions(known)

\* Rotation costs old rows only: the last MaxFiles full files of recorded rows would
\* be read back, in order, by loadAuditLedger.  A crash in the middle of a rotation
\* may cost one file more.
RecordedSurvivesRestart ==
  LET safe == Least({Len(known), Greatest({0, MaxFiles - crashes}) * MaxRows})
      rows == LoadAuditLedger(ledger)
  IN  /\ Len(rows) >= safe
      /\ \A n \in 0..safe - 1 : rows[Len(rows) - n] = known[Len(known) - n]

\* getTransferSummaries: the active record of an id, else its audit row, else its
\* detail.
Summaries ==
  LET fromActive == {<<Live(i), active[i].started>> : i \in DOMAIN active}
      fromIndex  == {<<x, index[x].started>> : x \in DOMAIN index}
      fromDetail == {<<e.id, e.started>> : e \in Elements(detail)}
      Unless(S, T) == {x \in S : \A y \in T : y[1] # x[1]}
  IN  fromActive \cup Unless(fromIndex, fromActive)
        \cup Unless(fromDetail, fromActive \cup fromIndex)

\* handleGetTransactionLog: what the detail view tells of a listed name comes from
\* the events in memory, else from the details, else from the audit row.  It is the
\* operation it is about, or that it cannot be found, or its events without a record.
NotFound == -1
NoRecord == 0
TransactionLog(name) ==
  IF name[1] \in logs /\ name = Live(name[1])
  THEN IF name[1] \in DOMAIN active THEN active[name[1]].started ELSE NoRecord
  ELSE IF Position(detail, name) # 0 THEN detail[Position(detail, name)].started
  ELSE IF name \in DOMAIN index THEN index[name].started
  ELSE NotFound

\* "Users need to see every transfer": a verdict on record stays in the list when
\* its id is used again, crash or no crash, unless an append failed for it, its
\* detail had left the store, or it was persisted once more while it was archived.
\* What is listed can be opened, and shows the operation the list showed; but the row
\* that archives a reused id is on disk before the file of details is, so that after a
\* crash the earlier operation of the id may show, and an operation whose row was lost
\* shows what is left of it.
EveryVerdictShown ==
  /\ \A r \in Elements(known) :
       r.kind = "terminal" =>
         \/ \E s \in Summaries : s[2] = r.started
         \/ r.started \in excused
  /\ \A s \in Summaries :
       \/ TransactionLog(s[1]) \in {s[2], NoRecord}
       \/ crashes > 0 /\ TransactionLog(s[1]) \in 1..s[2]
       \/ TransactionLog(s[1]) \in excused

\* "The ledger row is written before the detail entry": what a write of the detail
\* file adds has its verdict in the ledger already, unless that append failed.
VerdictBeforeDetail ==
  [][\A e \in Elements(file') :
       \/ e.started \in excused
       \/ \E f \in Elements(file) : f.started = e.started /\ f.saved = e.saved
       \/ \E r \in Elements(known) :
            r.kind = "terminal" /\ r.started = e.started /\ r.saved >= e.saved]_vars

\* The detail file never goes back to an older state of an entry (persist-queue), and
\* one that could not be read is left as it is (transactionLogLoadError).
FileNeverRegresses ==
  [][/\ \A e \in Elements(file), f \in Elements(file') :
          e.id = f.id /\ e.started = f.started => f.saved >= e.saved
     /\ damaged => file' = file]_vars

\* "A burst of failures cannot erase every healthy example": a persist keeps the
\* reserved number of successes, apart from those it replaces under their id.
SuccessesSurvive ==
  [][up /\ up' =>
       LET Old == {e \in Elements(detail) : ~IsFailure(e) /\
                     ~\E f \in Elements(detail') : f.id = e.id /\ f.saved > e.saved}
           New == {e \in Elements(detail') : ~IsFailure(e)}
       IN  Cardinality(New) >= Least({Reserved, Cardinality(Old), Cap \div 2})]_vars
=============================================================================

------------------------------ MODULE Timeline ------------------------------
(***************************************************************************)
(* The timeline that the web interface draws of one transfer: where the    *)
(* time between the request and the last event went.  The controller       *)
(* stamps its events with the milliseconds since the start and with the    *)
(* lengths of the phases that they end; the timeline is a function of the  *)
(* list of events, whatever part of it there is so far.                    *)
(*                                                                         *)
(* Phases are measured by reading the clock at both ends.  The event that  *)
(* tells of a phase reads the clock once more, so that it is a little      *)
(* late.  What the destination tells of its import is counted in game      *)
(* ticks, that may run slower than the clock.                              *)
(***************************************************************************)
EXTENDS Integers, Sequences, FiniteSets, SequencesExt

CONSTANTS
  Floor,        \* RESIDUAL_FLOOR_MS
  Lag,          \* longest time between two reads of the clock in one handler
  Spans,        \* phase_spans a destination may report: sets of <<offset, length>>
  Ticks,        \* lengths of the asynchronous export, counted in ticks
  MaxTime,      \* bound on the clock
  MaxVerdicts   \* bound on the verdicts that reach one record

ASSUME TimelineAssumption ==
  /\ {Floor, Lag, MaxTime, MaxVerdicts} \subseteq Nat
  /\ Ticks \subseteq Nat /\ Spans \subseteq SUBSET (Nat \X Nat)

VARIABLES
  now,          \* milliseconds since startedAt
  stage,        \* what the controller waits for
  phases,       \* when each phase of the record was started, as last written
  metrics,      \* exportMetrics: the lengths measured before there is a record
  events,       \* the transaction log of the transfer
  handlers,     \* verdicts being handled: sources being deleted and unlocked
  verdicts,     \* verdicts so far
  spent         \* (history) the milliseconds for which each phase went on

vars == <<now, stage, phases, metrics, events, handlers, verdicts, spent>>

Measured == {"lock", "store", "transmission", "validation", "cleanup"}
Ms(from, to) == from .. to - 1
Greater(a, b) == IF a > b THEN a ELSE b
Lesser(a, b)  == IF a < b THEN a ELSE b

\* An event, with what is absent from it as 0, {} or FALSE.
Event(type, at) ==
  [type |-> type, at |-> at, lock |-> 0, store |-> 0, async |-> 0, transmission |-> 0,
   validation |-> 0, cleanup |-> 0, spans |-> {}]

-----------------------------------------------------------------------------
(* buildTransferTimeline *)

Row(kind, of, from, to) == [kind |-> kind, of |-> of, from |-> from, to |-> to]
RowIf(condition, row) == IF condition THEN <<row>> ELSE <<>>

\* The axis ends at the last event.
Total(log) == FoldLeft(LAMBDA t, e : Greater(t, e.at), 0, log)

\* The spans of the controller's own clock that an event tells of.
MeasuredRows(e) ==
  LET lockEnd == e.at - e.store IN
  RowIf(e.lock > 0, Row("measured", "lock", lockEnd - e.lock, lockEnd))
    \o RowIf(e.store > 0, Row("measured", "store", lockEnd, e.at))
    \o RowIf(e.transmission > 0,
             Row("measured", "transmission", e.at - e.transmission, e.at))
    \o RowIf(e.validation > 0, Row("measured", "validation", e.at - e.validation, e.at))
    \o RowIf(e.cleanup > 0, Row("measured", "cleanup", e.at - e.cleanup, e.at))

\* Mutant: a span within an earlier one is left as it is.
TrimContained(done, row) ==
  IF row.from < done.end /\ row.to > done.end
  THEN [rows |-> Append(done.rows, [row EXCEPT !.from = done.end]), end |-> row.to]
  ELSE [rows |-> Append(done.rows, row), end |-> Greater(done.end, row.to)]

\* Mutant: a span that overlaps an earlier one is moved behind it.
TrimShifted(done, row) ==
  LET by == Greater(0, done.end - row.from)
  IN  [rows |-> Append(done.rows, [row EXCEPT !.from = @ + by, !.to = @ + by]),
       end |-> row.to + by]

\* One step of the trimming: the spans in the order they start, each cut down to
\* what comes after the spans before it.
Trim(done, row) ==
  CASE row.from < done.end /\ row.to <= done.end ->
         [rows |-> Append(done.rows, [row EXCEPT !.from = done.end, !.to = done.end]),
          end |-> done.end]
    [] row.from < done.end /\ row.to > done.end ->
         [rows |-> Append(done.rows, [row EXCEPT !.from = done.end]), end |-> row.to]
    [] OTHER ->
         [rows |-> Append(done.rows, row), end |-> Greater(done.end, row.to)]

Trimmed(log) ==
  LET rows   == FlattenSeq([n \in DOMAIN log |-> MeasuredRows(log[n])])
      First(i, j) == rows[i].from < rows[j].from \/ (rows[i].from = rows[j].from /\ i < j)
      order  == SetToSortSeq(DOMAIN rows, First)
  IN  FoldLeft(Trim, [rows |-> <<>>, end |-> 0], [n \in DOMAIN order |-> rows[order[n]]]).rows

\* mergeIntervals: the intervals that claim anything, in order, joined where they
\* touch.
MergeIntervals(intervals) ==
  LET Join(merged, i) ==
        IF merged # <<>> /\ i[1] <= Last(merged)[2]
        THEN [merged EXCEPT ![Len(merged)][2] = Greater(@, i[2])]
        ELSE Append(merged, i)
      sorted == SetToSortSeq({i \in intervals : i[2] > i[1]},
                             LAMBDA i, j : i[1] < j[1] \/ (i[1] = j[1] /\ i[2] < j[2]))
  IN  FoldLeft(Join, <<>>, sorted)

\* gapsWithin: what the intervals leave of 0..total, above the floor.
GapsWithin(intervals, total) ==
  LET Step(acc, i) ==
        [gaps   |-> IF i[1] > acc.cursor
                    THEN acc.gaps \cup {<<acc.cursor, Lesser(i[1], total)>>} ELSE acc.gaps,
         cursor |-> Greater(acc.cursor, i[2])]
      last == FoldLeft(Step, [gaps |-> {}, cursor |-> 0], MergeIntervals(intervals))
      all  == IF last.cursor < total THEN last.gaps \cup {<<last.cursor, total>>}
              ELSE last.gaps
  IN  {g \in all : g[2] - g[1] > Floor}

\* The parts of the measured spans that lie on the axis.
Covered(log) ==
  LET rows == ToSet(Trimmed(log))
  IN  {i \in {<<Greater(0, r.from), Lesser(r.to, Total(log))>> : r \in rows} : i[2] > i[1]}
Residuals(log) ==
  {Row("residual", "residual", g[1], g[2]) : g \in GapsWithin(Covered(log), Total(log))}

Attributed(log) == FoldLeft(LAMBDA sum, i : sum + (i[2] - i[1]), 0, MergeIntervals(Covered(log)))
ResidualMs(log) == Greater(0, Total(log) - Attributed(log))

\* The window of the export, and the bar of its tick count inside it.
ExportWindow(e) ==
  LET from == e.at - e.store - e.lock IN
  [from |-> from, to |-> e.at,
   children |-> {Row("tickDerived", "async", Greater(0, from), Lesser(from + e.async, e.at))}]

\* The phases of the import, from where the last import_started was.
ImportRows(log, e) ==
  LET started == {n \in DOMAIN log : log[n].type = "import_started"}
      total   == FoldLeft(LAMBDA t, s : Greater(t, s[1] + s[2]), 0, SetToSeq(e.spans))
      base    == IF started = {} THEN e.at - total
                 ELSE log[CHOOSE n \in started : \A k \in started : n >= k].at
  IN  {Row("tickDerived", "import", base + s[1], base + s[1] + Greater(s[2], 1)) : s \in e.spans}

\* The windows that are broken down: that of the export, and that of the first
\* measured import, which takes the phases of every later event.
ExportWindows(log) ==
  {ExportWindow(e) : e \in {f \in ToSet(log) : f.async > 0 /\ f.lock + f.store > 0}}
ImportWindows(log) ==
  LET ends == {n \in DOMAIN log : log[n].validation > 0} IN
  IF ends = {} THEN {}
  ELSE LET first == CHOOSE n \in ends : \A k \in ends : n <= k
       IN  {[from |-> log[first].at - log[first].validation, to |-> log[first].at,
             children |-> UNION {ImportRows(log, log[n]) : n \in first..Len(log)}]}
DetailWindows(log) ==
  {w \in ExportWindows(log) \cup ImportWindows(log) : w.children # {}}

\* Mutant: a phase is cut at the end of its window only.
ClampEnd(w, row) == [row EXCEPT !.to = Lesser(@, w.to)]

\* A row is cut down to its window.
Clamp(w, row) ==
  LET from == Lesser(Greater(row.from, w.from), w.to)
  IN  [row EXCEPT !.from = from, !.to = Lesser(Greater(row.to, from), w.to)]
Details(w) == {Clamp(w, row) : row \in w.children}
DetailGaps(w) ==
  {Row("detailGap", "detailGap", w.from + g[1], w.from + g[2]) :
     g \in GapsWithin({<<r.from - w.from, r.to - w.from>> : r \in Details(w)}, w.to - w.from)}
DetailGapMs(log) ==
  LET gaps == UNION {DetailGaps(w) : w \in DetailWindows(log)}
  IN  FoldLeft(LAMBDA sum, g : sum + (g.to - g.from), 0, SetToSeq(gaps))

-----------------------------------------------------------------------------
(* The transfer *)

Log(event) == events' = Append(events, event)

\* What goes on while the controller waits.  A verdict may come for as long as the
\* record awaits one, even while an earlier one is handled.
Going ==
  {p \in Measured :
     \/ p = "lock" /\ stage = "locking"
     \/ p = "store" /\ stage = "storing"
     \/ p = "transmission" /\ stage = "sending"
     \/ p = "validation" /\ stage = "awaiting"
     \/ p = "cleanup" /\ handlers.cleanup > 0}
Spend(going, from, to) ==
  spent' = [p \in Measured |-> IF p \in going THEN spent[p] \cup Ms(from, to) ELSE spent[p]]

\* handleStartPlatformTransferRequest starts the clock at its own request; a transfer
\* of a stored export starts it at its record, and knows the ticks of the export only.
Init ==
  /\ now = 0 /\ events = <<>> /\ verdicts = 0
  /\ handlers = [cleanup |-> 0, rollback |-> 0]
  /\ phases = [p \in Measured |-> 0] /\ spent = [p \in Measured |-> {}]
  /\ \E async \in Ticks : metrics = [lock |-> 0, store |-> 0, async |-> async]
  /\ stage \in {"locking", "archiving"}

\* Time passes while an answer is awaited.
Elapse ==
  /\ now < MaxTime /\ now' = now + 1
  /\ Spend(Going, now, now')
  /\ UNCHANGED <<stage, phases, metrics, events, handlers, verdicts>>

Exported ==
  /\ stage = "locking" /\ stage' = "storing"
  /\ metrics' = [metrics EXCEPT !.lock = now]
  /\ UNCHANGED <<now, phases, events, handlers, verdicts, spent>>

Stored ==
  /\ stage = "storing" /\ stage' = "archiving"
  /\ metrics' = [metrics EXCEPT !.store = now - metrics.lock]
  /\ UNCHANGED <<now, phases, events, handlers, verdicts, spent>>

\* transferPlatform: the record is made, and its first event carries the lengths of
\* the export.  Archiving an earlier operation of the id may have taken time.
Created ==
  /\ stage = "archiving" /\ stage' = "recording"
  /\ Log([Event("transfer_created", now) EXCEPT
            !.lock = metrics.lock, !.store = metrics.store, !.async = metrics.async])
  /\ UNCHANGED <<now, phases, metrics, handlers, verdicts, spent>>

\* The start row is in the ledger: the payload is sent.
Send ==
  /\ stage = "recording" /\ stage' = "sending"
  /\ phases' = [phases EXCEPT !["transmission"] = now]
  /\ UNCHANGED <<now, metrics, events, handlers, verdicts, spent>>

\* The destination answered, or the session was lost: the phase ends, that of the
\* validation starts (enterAwaitingValidation), and the event is logged.
Sent(type) ==
  \E lag \in 0..Lag, start \in 0..Lag :
    /\ stage = "sending" /\ start <= lag /\ now + lag <= MaxTime
    /\ now' = now + lag
    /\ Log([Event(type, now') EXCEPT !.transmission = now - phases["transmission"]])
    /\ \/ /\ type = "import_failed" /\ stage' = "settled" /\ UNCHANGED <<phases, spent>>
       \/ /\ type \in {"import_started", "import_delivery_uncertain"}
          /\ stage' = "awaiting"
          /\ phases' = [phases EXCEPT !["validation"] = now + start]
          /\ Spend({"validation"}, now + start, now')
    /\ UNCHANGED <<metrics, handlers, verdicts>>

\* The timer of the validation is an event, followed by a verdict without metrics.
TimeOut ==
  /\ stage = "awaiting" /\ verdicts < MaxVerdicts /\ verdicts' = verdicts + 1
  /\ handlers' = [handlers EXCEPT !.rollback = @ + 1]
  /\ events' = events \o
       <<Event("validation_timeout", now),
         [Event("validation_received", now) EXCEPT !.validation = now - phases["validation"]]>>
  /\ UNCHANGED <<now, stage, phases, metrics, spent>>

\* handleTransferValidation: the record takes every verdict that comes before it is
\* settled.  A success starts the clean-up, again if it was under way.
Verdict(success) ==
  \E lag \in 0..Lag, spans \in Spans :
    /\ stage = "awaiting" /\ verdicts < MaxVerdicts /\ verdicts' = verdicts + 1
    /\ now + lag <= MaxTime /\ now' = now + lag
    /\ Spend(Going, now, now')
    /\ Log([Event("validation_received", now') EXCEPT
              !.validation = now - phases["validation"], !.spans = spans])
    /\ \/ /\ success /\ handlers' = [handlers EXCEPT !.cleanup = @ + 1]
          /\ phases' = [phases EXCEPT !["cleanup"] = now']
       \/ /\ ~success /\ handlers' = [handlers EXCEPT !.rollback = @ + 1]
          /\ UNCHANGED phases
    /\ UNCHANGED <<stage, metrics>>

\* A verdict that comes later is an event without lengths.
LateVerdict ==
  /\ stage = "settled" /\ verdicts < MaxVerdicts /\ verdicts' = verdicts + 1
  /\ Log(Event("validation_after_settle", now))
  /\ UNCHANGED <<now, stage, phases, metrics, handlers, spent>>

\* The source is deleted, or not: then there is no event.
CleanedUp(deleted) ==
  \E lag \in 0..Lag :
    /\ handlers.cleanup > 0 /\ handlers' = [handlers EXCEPT !.cleanup = @ - 1]
    /\ stage' = "settled"
    /\ now + lag <= MaxTime /\ now' = now + lag
    /\ events' = events \o RowIf(deleted,
         [Event("transfer_completed", now') EXCEPT !.cleanup = now - phases["cleanup"]])
    /\ spent' = [spent EXCEPT !["cleanup"] =
                   @ \cup (IF handlers'.cleanup > 0 THEN Ms(now, now') ELSE {})]
    /\ UNCHANGED <<phases, metrics, verdicts>>

\* The source is unlocked.
RolledBack ==
  /\ handlers.rollback > 0 /\ handlers' = [handlers EXCEPT !.rollback = @ - 1]
  /\ stage' = "settled"
  /\ Log(Event("transfer_failed", now))
  /\ UNCHANGED <<now, phases, metrics, verdicts, spent>>

Next ==
  \/ Elapse \/ Exported \/ Stored \/ Created \/ Send
  \/ \E type \in {"import_started", "import_delivery_uncertain", "import_failed"} : Sent(type)
  \/ TimeOut \/ LateVerdict \/ RolledBack
  \/ \E success \in BOOLEAN : Verdict(success) \/ CleanedUp(success)

Spec == Init /\ [][Next]_vars

-----------------------------------------------------------------------------
(* Properties, of every list of events that the log may hold *)

\* "Every wall-clock ms belongs to a measured span or to an explicit residual": no
\* two measured spans share a millisecond, none lies outside the axis, a millisecond
\* that is neither measured nor drawn as unattributed is in a gap below the floor,
\* and the two sums add up.
WallClockOnce ==
  LET rows     == Trimmed(events)
      claimed  == UNION {Ms(r.from, r.to) : r \in ToSet(rows)}
      residual == UNION {Ms(r.from, r.to) : r \in Residuals(events)}
      axis     == Ms(0, Total(events))
  IN  /\ \A i, j \in DOMAIN rows :
            i # j => Ms(rows[i].from, rows[i].to) \cap Ms(rows[j].from, rows[j].to) = {}
      /\ claimed \subseteq axis /\ residual \subseteq axis \ claimed
      /\ \A x \in axis : x..x + Floor \subseteq axis \ claimed =>
                          x..x + Floor \subseteq residual
      /\ Attributed(events) = Cardinality(claimed)
      /\ Attributed(events) + ResidualMs(events) = Total(events)

\* What is counted in ticks stays inside the measured window it describes, and every
\* millisecond of a window that is broken down is in a phase, drawn as a gap of the
\* detail, or in a gap below the floor; windows do not lie before the request.
DetailOnce ==
  /\ \A w \in DetailWindows(events) :
       LET told == UNION {Ms(r.from, r.to) : r \in Details(w)}
           gaps == UNION {Ms(g.from, g.to) : g \in DetailGaps(w)}
       IN  /\ 0 <= w.from /\ w.to <= Total(events)
           /\ told \cup gaps \subseteq Ms(w.from, w.to) /\ told \cap gaps = {}
           /\ \A x \in Ms(w.from, w.to) :
                x..x + Floor \subseteq Ms(w.from, w.to) \ told => x \in gaps
  /\ DetailGapMs(events) =
       Cardinality(UNION {UNION {Ms(g.from, g.to) : g \in DetailGaps(w)} :
                            w \in DetailWindows(events)})

\* Every millisecond is accounted for once, on both levels of the timeline.
TimeCountedOnce == WallClockOnce /\ DetailOnce

\* A bar tells the truth: each millisecond a bar of the transfer, of the validation
\* or of the clean-up claims was spent on that, up to the lag of the event; and the
\* bars of the export are no longer than the export was.
AttributionIsTrue ==
  \A r \in ToSet(Trimmed(events)) :
    IF r.of \in {"lock", "store"}
    THEN Cardinality(Ms(r.from, r.to)) <= Cardinality(spent[r.of])
    ELSE \A x \in Ms(r.from, r.to) : \E y \in x - Lag..x : y \in spent[r.of]
=============================================================================

---------------------- MODULE TransactionHistoryProofs ----------------------
(* Theorems of TransactionHistory. *)
EXTENDS TransactionHistory, TLAPS, NaturalsInduction, WellFoundedInduction,
        SequenceTheorems, FiniteSetTheorems

-----------------------------------------------------------------------------
(* Greatest elements *)

LEMMA Minimum ==
  ASSUME NEW S \in SUBSET Nat, S # {}
  PROVE  \E x \in S : \A y \in S : x <= y
  <1>1. PICK x \in S : \A y \in S : ~ (<<y, x>> \in OpToRel(<, Nat))
    BY WFMin, NatLessThanWellFounded
  <1>2. \A y \in S : ~(y < x)
    BY <1>1 DEF OpToRel
  <1> QED
    BY <1>2

LEMMA Maximum ==
  ASSUME NEW L \in Nat, NEW S \in SUBSET (1..L), S # {}
  PROVE  Greatest(S) \in S /\ \A y \in S : Greatest(S) >= y
  <1> DEFINE T == {x \in Nat : L - x \in S}
  <1>1. T # {}
    <2>1. PICK y \in S : TRUE
      OBVIOUS
    <2>2. L - y \in T
      BY <2>1
    <2> QED
      BY <2>2
  <1>2. PICK x \in T : \A y \in T : x <= y
    BY <1>1, Minimum
  <1>3. \A y \in S : L - y \in T
    OBVIOUS
  <1>4. L - x \in S /\ \A y \in S : L - x >= y
    BY <1>2, <1>3
  <1> QED
    BY <1>4 DEF Greatest

LEMMA GreatestIs ==
  ASSUME NEW S \in SUBSET Nat, NEW g \in S, \A y \in S : g >= y
  PROVE  Greatest(S) = g
  <1>1. \A x \in S : (\A y \in S : x >= y) => x = g
    OBVIOUS
  <1> QED
    BY <1>1 DEF Greatest

-----------------------------------------------------------------------------
(* A row more *)

\* Sequences of whatever elements.
IsSeq(s) == s \in Seq({s[n] : n \in DOMAIN s})

\* Sequences of rows of one of the two kinds.
IsRow(r) == r.kind \in {"start", "terminal"}
IsRows(s) == IsSeq(s) /\ \A n \in DOMAIN s : IsRow(s[n])

LEMMA AppendIsSeq ==
  ASSUME NEW s, IsSeq(s), NEW e
  PROVE  /\ Len(s) \in Nat /\ DOMAIN s = 1..Len(s)
         /\ IsSeq(Append(s, e))
         /\ DOMAIN Append(s, e) = 1..Len(s) + 1
         /\ \A n \in 1..Len(s) : Append(s, e)[n] = s[n]
         /\ Append(s, e)[Len(s) + 1] = e
  <1> DEFINE A == {s[n] : n \in DOMAIN s}
             t == Append(s, e)
  <1>1. s \in Seq(A \cup {e}) /\ e \in A \cup {e}
    BY DEF IsSeq
  <1> HIDE DEF A
  <1>2. /\ Len(s) \in Nat /\ DOMAIN s = 1..Len(s) /\ t \in Seq(A \cup {e})
        /\ Len(t) = Len(s) + 1 /\ DOMAIN t = 1..Len(s) + 1
        /\ \A n \in 1..Len(s) : t[n] = s[n]
        /\ t[Len(s) + 1] = e
    BY <1>1, AppendProperties
  <1> HIDE DEF t
  <1>3. t \in Seq({t[n] : n \in DOMAIN t})
    BY <1>2, SeqOfRange
  <1> QED
    BY <1>2, <1>3 DEF t, IsSeq

Verdict(rows, name) == \E n \in DOMAIN rows : rows[n].id = name /\ rows[n].kind = "terminal"

\* A name has a row that stands for it.
LEMMA CandidateExists ==
  ASSUME NEW rows, IsRows(rows), NEW name \in {rows[n].id : n \in DOMAIN rows}
  PROVE  /\ Greatest(Candidates(rows, name)) \in Candidates(rows, name)
         /\ Greatest(Candidates(rows, name)) \in 1..Len(rows)
  <1> DEFINE S == Candidates(rows, name)
  <1>1. Len(rows) \in Nat /\ DOMAIN rows = 1..Len(rows)
    BY AppendIsSeq DEF IsRows
  <1>2. S \in SUBSET (1..Len(rows))
    BY <1>1 DEF Candidates
  <1>3. S # {}
    <2>1. PICK n \in DOMAIN rows : rows[n].id = name
      OBVIOUS
    <2>2. CASE Verdict(rows, name)
      <3>1. PICK m \in DOMAIN rows : rows[m].id = name /\ rows[m].kind = "terminal"
        BY <2>2 DEF Verdict
      <3>2. m \in S
        BY <3>1 DEF Candidates
      <3> QED
        BY <3>2
    <2>3. CASE ~Verdict(rows, name)
      <3>1. n \in S
        BY <2>1, <2>3 DEF Verdict, Candidates, IsRows, IsRow
      <3> QED
        BY <3>1
    <2> QED
      BY <2>2, <2>3
  <1> HIDE DEF S
  <1>4. Greatest(S) \in S
    BY <1>1, <1>2, <1>3, Maximum
  <1> QED
    BY <1>2, <1>4 DEF S

\* The row of a name in the index is terminal when one of its rows is.
LEMMA FoldKind ==
  ASSUME NEW rows, IsRows(rows), NEW name \in {rows[n].id : n \in DOMAIN rows}
  PROVE  FoldAuditRows(rows)[name].kind = "terminal" <=> Verdict(rows, name)
  <1>1. FoldAuditRows(rows)[name] = rows[Greatest(Candidates(rows, name))]
    BY DEF FoldAuditRows
  <1>2. PICK g \in Candidates(rows, name) : FoldAuditRows(rows)[name] = rows[g]
    BY <1>1, CandidateExists
  <1>3. rows[g].kind = "terminal" <=> Verdict(rows, name)
    BY <1>2 DEF Candidates, Verdict, IsRows, IsRow
  <1> QED
    BY <1>2, <1>3

\* One more row changes the entry of its own name only, and that unless it is a
\* start row of a name that has its verdict.
LEMMA FoldAppend ==
  ASSUME NEW rows, IsRows(rows), NEW row, IsRow(row)
  PROVE  FoldAuditRows(Append(rows, row)) =
           IF row.kind = "start" /\ Verdict(rows, row.id)
           THEN FoldAuditRows(rows)
           ELSE Put(FoldAuditRows(rows), row.id, row)
  <1> DEFINE L    == Len(rows)
             more == Append(rows, row)
             ids  == {rows[n].id : n \in DOMAIN rows}
  <1>1. /\ L \in Nat /\ DOMAIN rows = 1..L /\ DOMAIN more = 1..L + 1
        /\ \A n \in 1..L : more[n] = rows[n]
        /\ more[L + 1] = row
    BY AppendIsSeq DEF IsRows
  <1> HIDE DEF more, L
  <1>2. {more[n].id : n \in DOMAIN more} = ids \cup {row.id}
    BY <1>1
  <1>3. \A n \in DOMAIN rows : rows[n].kind \in {"start", "terminal"}
    BY DEF IsRows, IsRow
  <1>4. ASSUME NEW name, name # row.id PROVE Candidates(more, name) = Candidates(rows, name)
    BY <1>1, <1>4 DEF Candidates
  <1>5. CASE row.kind = "start" /\ Verdict(rows, row.id)
    <2>1. row.id \in ids
      BY <1>5 DEF Verdict
    <2>2. Candidates(more, row.id) = Candidates(rows, row.id)
      BY <1>1, <1>5 DEF Candidates, Verdict
    <2>3. \A name \in ids : more[Greatest(Candidates(more, name))] = rows[Greatest(Candidates(rows, name))]
      <3> SUFFICES ASSUME NEW name \in ids
                   PROVE  more[Greatest(Candidates(more, name))] = rows[Greatest(Candidates(rows, name))]
        OBVIOUS
      <3>1. Candidates(more, name) = Candidates(rows, name)
        BY <1>4, <2>2
      <3>2. Greatest(Candidates(rows, name)) \in 1..L
        BY <1>1, CandidateExists
      <3> QED
        BY <1>1, <3>1, <3>2
    <2> QED
      BY <1>2, <1>5, <2>1, <2>3 DEF FoldAuditRows, more
  <1>6. CASE ~(row.kind = "start" /\ Verdict(rows, row.id))
    <2>1. L + 1 \in Candidates(more, row.id)
      BY <1>1, <1>3, <1>6 DEF Candidates, Verdict, IsRow
    <2>2. Greatest(Candidates(more, row.id)) = L + 1
      <3>1. Candidates(more, row.id) \in SUBSET Nat /\ \A y \in Candidates(more, row.id) : L + 1 >= y
        BY <1>1 DEF Candidates
      <3> QED
        BY <2>1, <3>1, GreatestIs
    <2>3. \A name \in ids \ {row.id} :
            more[Greatest(Candidates(more, name))] = rows[Greatest(Candidates(rows, name))]
      <3> SUFFICES ASSUME NEW name \in ids \ {row.id}
                   PROVE  more[Greatest(Candidates(more, name))] = rows[Greatest(Candidates(rows, name))]
        OBVIOUS
      <3>1. Candidates(more, name) = Candidates(rows, name)
        BY <1>4
      <3>2. Greatest(Candidates(rows, name)) \in 1..L
        BY <1>1, CandidateExists
      <3> QED
        BY <1>1, <3>1, <3>2
    <2>4. FoldAuditRows(more) =
            [name \in ids \cup {row.id} |-> more[Greatest(Candidates(more, name))]]
      BY <1>2 DEF FoldAuditRows
    <2>5. Put(FoldAuditRows(rows), row.id, row) =
            [name \in ids \cup {row.id} |->
               IF name = row.id THEN row ELSE rows[Greatest(Candidates(rows, name))]]
      BY DEF FoldAuditRows, Put
    <2>6. \A name \in ids \cup {row.id} :
            more[Greatest(Candidates(more, name))] =
              IF name = row.id THEN row ELSE rows[Greatest(Candidates(rows, name))]
      BY <1>1, <2>2, <2>3
    <2>7. FoldAuditRows(more) = Put(FoldAuditRows(rows), row.id, row)
      BY <2>4, <2>5, <2>6
    <2> QED
      BY <1>6, <2>7 DEF more
  <1> QED
    BY <1>5, <1>6

Terminals(rows, name) == {n \in DOMAIN rows : rows[n].id = name /\ rows[n].kind = "terminal"}

\* One more terminal row is one more revision of its name.
LEMMA CountAppend ==
  ASSUME NEW rows, IsRows(rows), NEW row, IsRow(row)
  PROVE  CountRevisions(Append(rows, row)) =
           IF row.kind = "start" THEN CountRevisions(rows)
           ELSE Put(CountRevisions(rows), row.id,
                    1 + IF row.id \in DOMAIN CountRevisions(rows)
                        THEN CountRevisions(rows)[row.id] ELSE 0)
  <1> DEFINE L      == Len(rows)
             more   == Append(rows, row)
             ids(s) == {s[n].id : n \in {m \in DOMAIN s : s[m].kind = "terminal"}}
  <1>1. /\ L \in Nat /\ DOMAIN rows = 1..L /\ DOMAIN more = 1..L + 1
        /\ \A n \in 1..L : more[n] = rows[n]
        /\ more[L + 1] = row
    BY AppendIsSeq DEF IsRows
  <1>2. \A s : CountRevisions(s) = [name \in ids(s) |-> Cardinality(Terminals(s, name))]
    BY DEF CountRevisions, Terminals
  <1> HIDE DEF more, L
  <1>3. ASSUME NEW name, ~(row.kind = "terminal" /\ name = row.id)
        PROVE  Terminals(more, name) = Terminals(rows, name)
    BY <1>1, <1>3 DEF Terminals
  <1>4. CASE row.kind = "start"
    <2>1. ids(more) = ids(rows)
      BY <1>1, <1>4
    <2> HIDE DEF ids
    <2>2. CountRevisions(more) = CountRevisions(rows)
      BY <1>2, <1>3, <1>4, <2>1
    <2> QED
      BY <1>4, <2>2 DEF more
  <1>5. CASE row.kind = "terminal"
    <2>1. ids(more) = ids(rows) \cup {row.id}
      BY <1>1, <1>5
    <2>2. row.id \notin ids(rows) => Terminals(rows, row.id) = {}
      BY DEF Terminals
    <2>3. Terminals(more, row.id) = Terminals(rows, row.id) \cup {L + 1}
      BY <1>1, <1>5 DEF Terminals
    <2>4. L + 1 \notin Terminals(rows, row.id) /\ IsFiniteSet(Terminals(rows, row.id))
      <3>1. Terminals(rows, row.id) \in SUBSET (1..L)
        BY <1>1 DEF Terminals
      <3>2. IsFiniteSet(1..L)
        BY <1>1, FS_Interval
      <3> QED
        BY <1>1, <3>1, <3>2, FS_Subset
    <2>5. Cardinality(Terminals(more, row.id)) = Cardinality(Terminals(rows, row.id)) + 1
      BY <2>3, <2>4, FS_AddElement
    <2>6. /\ Cardinality(Terminals(rows, row.id)) \in Nat
          /\ Terminals(rows, row.id) = {} => Cardinality(Terminals(rows, row.id)) = 0
      BY <2>4, FS_CardinalityType, FS_EmptySet
    <2> HIDE DEF ids
    <2> DEFINE old == CountRevisions(rows)
    <2>7. DOMAIN old = ids(rows) /\ \A name \in ids(rows) : old[name] = Cardinality(Terminals(rows, name))
      BY <1>2
    <2>8. Cardinality(Terminals(more, row.id)) = 1 + IF row.id \in DOMAIN old THEN old[row.id] ELSE 0
      BY <2>2, <2>5, <2>6, <2>7
    <2>9. \A name \in ids(rows) \ {row.id} : Cardinality(Terminals(more, name)) = old[name]
      BY <1>3, <2>7
    <2> HIDE DEF old
    <2>10. CountRevisions(more) =
             Put(old, row.id, 1 + IF row.id \in DOMAIN old THEN old[row.id] ELSE 0)
      BY <1>2, <2>1, <2>7, <2>8, <2>9 DEF Put
    <2> QED
      BY <1>5, <2>10 DEF more, old
  <1> QED
    BY <1>4, <1>5 DEF IsRow

-----------------------------------------------------------------------------
(* Sequences *)

LEMMA FunctionIsSeq ==
  ASSUME NEW n \in Nat, NEW s, s = [k \in 1..n |-> s[k]]
  PROVE  IsSeq(s) /\ DOMAIN s = 1..n
  <1> DEFINE A == {s[k] : k \in DOMAIN s}
  <1>1. s \in [1..n -> A]
    OBVIOUS
  <1> HIDE DEF A
  <1>2. s \in Seq(A)
    BY <1>1, SeqDef
  <1> QED
    BY <1>2 DEF A, IsSeq

LEMMA ElementsSeq ==
  ASSUME NEW A, NEW s \in Seq(A)
  PROVE  IsSeq(s)
  <1>1. Len(s) \in Nat /\ s \in [1..Len(s) -> A]
    BY LenProperties
  <1>2. s = [k \in 1..Len(s) |-> s[k]]
    BY <1>1
  <1> QED
    BY <1>1, <1>2, FunctionIsSeq

LEMMA EmptyIsSeq == IsSeq(<<>>) /\ DOMAIN <<>> = {}
  BY DEF IsSeq

LEMMA TailIsSeq ==
  ASSUME NEW s, IsSeq(s), s # <<>>
  PROVE  /\ Head(s) = s[1] /\ 1 \in DOMAIN s
         /\ IsSeq(Tail(s))
         /\ \A n \in DOMAIN Tail(s) : n + 1 \in DOMAIN s /\ Tail(s)[n] = s[n + 1]
  <1> DEFINE A == {s[n] : n \in DOMAIN s}
  <1>1. s \in Seq(A)
    BY DEF IsSeq
  <1> HIDE DEF A
  <1>2. Len(s) \in Nat \ {0} /\ DOMAIN s = 1..Len(s)
    BY <1>1, EmptySeq, LenProperties
  <1>3. /\ Tail(s) \in Seq(A) /\ Len(Tail(s)) = Len(s) - 1
        /\ \A n \in 1..Len(Tail(s)) : Tail(s)[n] = s[n + 1]
    BY <1>1, HeadTailProperties
  <1>4. DOMAIN Tail(s) = 1..Len(s) - 1
    BY <1>3, LenProperties
  <1>5. IsSeq(Tail(s))
    BY <1>3, ElementsSeq
  <1>6. Head(s) = s[1]
    BY <1>1
  <1> QED
    BY <1>2, <1>3, <1>4, <1>5, <1>6

LEMMA ConcatIsRows ==
  ASSUME NEW s, IsRows(s), NEW t, IsRows(t)
  PROVE  IsRows(s \o t)
  <1> DEFINE A == {s[n] : n \in DOMAIN s} \cup {t[n] : n \in DOMAIN t}
  <1>1. s \in Seq(A) /\ t \in Seq(A)
    BY DEF IsRows, IsSeq
  <1>2. \A r \in A : IsRow(r)
    BY DEF IsRows
  <1> HIDE DEF A
  <1>3. s \o t \in Seq(A)
    BY <1>1
  <1>4. \A n \in DOMAIN (s \o t) : (s \o t)[n] \in A
    BY <1>3, ElementOfSeq, LenProperties
  <1>5. IsSeq(s \o t)
    BY <1>3, ElementsSeq
  <1> QED
    BY <1>2, <1>4, <1>5 DEF IsRows

-----------------------------------------------------------------------------
(* The ledger read back *)

Reads(files, L, f) ==
  f = [n \in 0..L |-> IF n = 0 THEN <<>> ELSE files[n] \o f[n - 1]]

LEMMA ReadsExists ==
  ASSUME NEW files, NEW L \in Nat
  PROVE  \E f : Reads(files, L, f)
  <1> DEFINE T == {n \in Nat : ~\E f : Reads(files, n, f)}
  <1> SUFFICES ASSUME T # {} PROVE FALSE
    OBVIOUS
  <1>1. PICK n \in T : \A m \in T : n <= m
    BY Minimum
  <1>2. CASE n = 0
    <2>1. Reads(files, 0, [k \in 0..0 |-> <<>>])
      BY DEF Reads
    <2> QED
      BY <1>1, <1>2, <2>1
  <1>3. CASE n # 0
    <2>1. n - 1 \in Nat /\ n - 1 \notin T
      BY <1>1, <1>3
    <2>2. PICK f : Reads(files, n - 1, f)
      BY <2>1
    <2> DEFINE g == [k \in 0..n |-> IF k = n THEN files[n] \o f[n - 1] ELSE f[k]]
    <2>3. \A k \in 0..n : g[k] = IF k = 0 THEN <<>> ELSE files[k] \o g[k - 1]
      BY <2>1, <2>2 DEF Reads
    <2>4. DOMAIN g = 0..n /\ g = [k \in 0..n |-> g[k]]
      OBVIOUS
    <2> HIDE DEF g
    <2>5. Reads(files, n, g)
      BY <2>3, <2>4 DEF Reads
    <2> QED
      BY <1>1, <2>5
  <1> QED
    BY <1>2, <1>3

LEMMA LoadIsRows ==
  ASSUME NEW files, Len(files) \in Nat, \A n \in 1..Len(files) : IsRows(files[n])
  PROVE  IsRows(LoadAuditLedger(files))
  <1> DEFINE L == Len(files)
             upto == CHOOSE f : Reads(files, L, f)
  <1>1. Reads(files, L, upto)
    BY ReadsExists
  <1>2. LoadAuditLedger(files) = upto[L]
    BY DEF LoadAuditLedger, Reads
  <1> HIDE DEF upto
  <1> DEFINE T == {n \in Nat : n <= L /\ ~IsRows(upto[n])}
  <1>3. T = {}
    <2> SUFFICES ASSUME T # {} PROVE FALSE
      OBVIOUS
    <2>1. PICK n \in T : \A m \in T : n <= m
      BY Minimum
    <2>2. CASE n = 0
      <3>1. upto[0] = <<>>
        BY <1>1 DEF Reads
      <3>2. IsRows(<<>>)
        BY EmptyIsSeq DEF IsRows
      <3> QED
        BY <2>1, <2>2, <3>1, <3>2
    <2>3. CASE n # 0
      <3>1. IsRows(upto[n - 1]) /\ IsRows(files[n])
        BY <2>1, <2>3
      <3>2. upto[n] = files[n] \o upto[n - 1]
        <4>1. n \in 0..L /\ n # 0
          BY <2>1, <2>3
        <4> HIDE DEF L
        <4> QED
          BY <1>1, <4>1 DEF Reads
      <3> QED
        BY <2>1, <3>1, <3>2, ConcatIsRows
    <2> QED
      BY <2>2, <2>3
  <1> QED
    BY <1>2, <1>3

-----------------------------------------------------------------------------
(* The index.  recordAuditRow needs the rows behind it, which must be          *)
(* sequences of the two kinds of row wherever they come from: the queue, the   *)
(* ledger, and after a migration the details.                                  *)

IsJob(j) ==
  /\ j = [row |-> j.row, then |-> j.then, started |-> j.started, snapshot |-> j.snapshot]
  /\ j.then \in {"none", "open", "write"} /\ IsRow(j.row) /\ IsSeq(j.snapshot)

Queues(rows, files) ==
  /\ IsSeq(rows) /\ \A n \in DOMAIN rows : IsJob(rows[n])
  /\ IsSeq(files) /\ \A n \in DOMAIN files : IsSeq(files[n])

IsLedger(files) ==
  /\ Len(files) \in Nat /\ Len(files) >= 1 /\ DOMAIN files = 1..Len(files)
  /\ Len(files) = MaxFiles + 1
  /\ \A n \in 1..Len(files) : IsRows(files[n])

IndexInv ==
  /\ IsRows(known) /\ IndexIsFold
  /\ IsLedger(ledger) /\ IsSeq(detail) /\ IsSeq(file)
  /\ Queues(rowQueue, fileQueue)

LEMMA SameInterval ==
  ASSUME NEW a \in Nat, NEW b \in Nat, 1..a = 1..b
  PROVE  a = b
  <1>1. a < b => b \in 1..b /\ b \notin 1..a
    OBVIOUS
  <1>2. b < a => a \in 1..a /\ a \notin 1..b
    OBVIOUS
  <1> QED
    BY <1>1, <1>2

LEMMA LedgerOf ==
  ASSUME NEW f, f = [n \in 1..MaxFiles + 1 |-> f[n]],
         \A n \in 1..MaxFiles + 1 : IsRows(f[n])
  PROVE  IsLedger(f)
  <1>1. MaxFiles + 1 \in Nat /\ MaxFiles + 1 >= 1
    BY HistoryAssumption
  <1>2. IsSeq(f) /\ DOMAIN f = 1..MaxFiles + 1
    BY <1>1, FunctionIsSeq
  <1>3. Len(f) \in Nat /\ DOMAIN f = 1..Len(f)
    BY <1>2, AppendIsSeq
  <1>4. Len(f) = MaxFiles + 1
    <2>1. 1..Len(f) = 1..MaxFiles + 1
      BY <1>2, <1>3
    <2> QED
      BY ONLY <1>1, <1>3, <2>1, SameInterval
  <1> QED
    BY <1>1, <1>2, <1>3, <1>4 DEF IsLedger

LEMMA EmptyIsRows == IsRows(<<>>)
  BY EmptyIsSeq DEF IsRows

LEMMA AppendIsRows ==
  ASSUME NEW s, IsRows(s), NEW r, IsRow(r)
  PROVE  IsRows(Append(s, r))
  <1>1. /\ Len(s) \in Nat /\ DOMAIN s = 1..Len(s) /\ IsSeq(Append(s, r))
        /\ DOMAIN Append(s, r) = 1..Len(s) + 1
        /\ \A n \in 1..Len(s) : Append(s, r)[n] = s[n]
        /\ Append(s, r)[Len(s) + 1] = r
    BY AppendIsSeq DEF IsRows
  <1> QED
    BY <1>1 DEF IsRows

\* A row recorded keeps the index the fold of the rows.
LEMMA RecordStep ==
  ASSUME IsRows(known), IndexIsFold, NEW row, IsRow(row), RecordAuditRow(row)
  PROVE  IsRows(known)' /\ IndexIsFold'
  <1>1. IsRows(known')
    BY AppendIsRows DEF RecordAuditRow
  <1>2. index' = FoldAuditRows(known')
    <2>1. row.id \in DOMAIN index <=> row.id \in {known[n].id : n \in DOMAIN known}
      BY DEF IndexIsFold, FoldAuditRows
    <2>2. (row.id \in DOMAIN index /\ index[row.id].kind = "terminal") <=> Verdict(known, row.id)
      <3>1. Verdict(known, row.id) => row.id \in {known[n].id : n \in DOMAIN known}
        BY DEF Verdict
      <3> QED
        BY <2>1, <3>1, FoldKind DEF IndexIsFold
    <2>3. FoldAuditRows(known') =
            IF row.kind = "start" /\ Verdict(known, row.id) THEN FoldAuditRows(known)
            ELSE Put(FoldAuditRows(known), row.id, row)
      BY FoldAppend DEF RecordAuditRow
    <2> QED
      BY <2>2, <2>3 DEF RecordAuditRow, IndexIsFold
  <1>3. revisions' = CountRevisions(known')
    BY CountAppend DEF RecordAuditRow, IndexIsFold
  <1> QED
    BY <1>1, <1>2, <1>3 DEF IndexIsFold

LEMMA AppendJob ==
  ASSUME NEW rows, NEW files, Queues(rows, files), NEW j, IsJob(j)
  PROVE  Queues(Append(rows, j), files)
  <1>1. /\ Len(rows) \in Nat /\ DOMAIN rows = 1..Len(rows) /\ IsSeq(Append(rows, j))
        /\ DOMAIN Append(rows, j) = 1..Len(rows) + 1
        /\ \A n \in 1..Len(rows) : Append(rows, j)[n] = rows[n]
        /\ Append(rows, j)[Len(rows) + 1] = j
    BY AppendIsSeq DEF Queues
  <1> QED
    BY <1>1 DEF Queues

LEMMA AppendSnapshot ==
  ASSUME NEW rows, NEW files, Queues(rows, files), NEW s, IsSeq(s)
  PROVE  Queues(rows, Append(files, s))
  <1>1. /\ Len(files) \in Nat /\ DOMAIN files = 1..Len(files) /\ IsSeq(Append(files, s))
        /\ DOMAIN Append(files, s) = 1..Len(files) + 1
        /\ \A n \in 1..Len(files) : Append(files, s)[n] = files[n]
        /\ Append(files, s)[Len(files) + 1] = s
    BY AppendIsSeq DEF Queues
  <1> QED
    BY <1>1 DEF Queues

LEMMA HeadJob ==
  ASSUME NEW rows, NEW files, Queues(rows, files), rows # <<>>
  PROVE  IsJob(Head(rows)) /\ Queues(Tail(rows), files)
  <1>1. /\ Head(rows) = rows[1] /\ 1 \in DOMAIN rows /\ IsSeq(Tail(rows))
        /\ \A n \in DOMAIN Tail(rows) : n + 1 \in DOMAIN rows /\ Tail(rows)[n] = rows[n + 1]
    BY TailIsSeq DEF Queues
  <1> QED
    BY <1>1 DEF Queues

LEMMA HeadSnapshot ==
  ASSUME NEW rows, NEW files, Queues(rows, files), files # <<>>
  PROVE  IsSeq(Head(files)) /\ Queues(rows, Tail(files))
  <1>1. /\ Head(files) = files[1] /\ 1 \in DOMAIN files /\ IsSeq(Tail(files))
        /\ \A n \in DOMAIN Tail(files) : n + 1 \in DOMAIN files /\ Tail(files)[n] = files[n + 1]
    BY TailIsSeq DEF Queues
  <1> QED
    BY <1>1 DEF Queues

LEMMA SeqDomain ==
  ASSUME NEW s, IsSeq(s)
  PROVE  Len(s) \in Nat /\ DOMAIN s = 1..Len(s)
  BY AppendIsSeq

LEMMA RenamedIsSeq ==
  ASSUME NEW s, IsSeq(s), NEW e
  PROVE  IsSeq(Renamed(s, e))
  <1>1. Len(s) \in Nat /\ DOMAIN s = 1..Len(s)
    BY SeqDomain
  <1>2. Renamed(s, e) = [n \in 1..Len(s) |-> Renamed(s, e)[n]]
    BY <1>1 DEF Renamed
  <1> QED
    BY <1>1, <1>2, FunctionIsSeq

LEMMA UpsertIsSeq ==
  ASSUME NEW s, IsSeq(s), NEW e
  PROVE  IsSeq(Upsert(s, e))
  <1>1. Len(s) \in Nat /\ DOMAIN s = 1..Len(s) /\ IsSeq(Append(s, e))
    BY AppendIsSeq
  <1>2. ASSUME NEW n PROVE IsSeq([s EXCEPT ![n] = e])
    <2> DEFINE t == [s EXCEPT ![n] = e]
    <2>1. t = [k \in 1..Len(s) |-> t[k]]
      BY <1>1
    <2> HIDE DEF t
    <2>2. IsSeq(t)
      BY <1>1, <2>1, FunctionIsSeq
    <2> QED
      BY <2>2 DEF t
  <1> QED
    BY <1>1, <1>2 DEF Upsert

LEMMA RetainedIsSeq ==
  ASSUME NEW s, IsSeq(s), NEW pinned
  PROVE  IsSeq(Retained(s, pinned))
  <1>1. Len(s) \in Nat /\ DOMAIN s = 1..Len(s)
    BY SeqDomain
  <1>2. ASSUME NEW S PROVE IsSeq(Among(s, S))
    <2> DEFINE c == Cardinality({n \in DOMAIN s : s[n] \in S})
    <2>1. {n \in DOMAIN s : s[n] \in S} \in SUBSET (1..Len(s)) /\ IsFiniteSet(1..Len(s))
      BY <1>1, FS_Interval
    <2>2. c \in Nat
      BY <2>1, FS_Subset, FS_CardinalityType
    <2>3. Among(s, S) = [k \in 1..c |-> Among(s, S)[k]]
      BY DEF Among
    <2> QED
      BY <2>2, <2>3, FunctionIsSeq
  <1> QED
    BY <1>2 DEF Retained

LEMMA MigratedIsRows ==
  ASSUME NEW s, IsSeq(s)
  PROVE  IsRows(Migrated(s))
  <1>1. Len(s) \in Nat /\ DOMAIN s = 1..Len(s)
    BY SeqDomain
  <1>2. Migrated(s) = [k \in 1..Len(s) |-> Migrated(s)[k]]
    BY <1>1 DEF Migrated
  <1>3. \A k \in 1..Len(s) : IsRow(Migrated(s)[k])
    BY <1>1 DEF Migrated, AuditRow, IsRow
  <1>4. IsSeq(Migrated(s)) /\ DOMAIN Migrated(s) = 1..Len(s)
    BY <1>1, <1>2, FunctionIsSeq
  <1> QED
    BY <1>3, <1>4 DEF IsRows

LEMMA NewJob ==
  ASSUME NEW row, IsRow(row), NEW then \in {"none", "open", "write"},
         NEW started, NEW snapshot, IsSeq(snapshot)
  PROVE  IsJob([row |-> row, then |-> then, started |-> started, snapshot |-> snapshot])
  BY DEF IsJob

LEMMA AuditRowIsRow ==
  ASSUME NEW name, NEW kind \in {"start", "terminal"}, NEW op, NEW saved
  PROVE  IsRow(AuditRow(name, kind, op, saved))
  BY DEF AuditRow, IsRow

LEMMA OpenedQueues ==
  ASSUME NEW rows, NEW files, Queues(rows, files), NEW i, NEW started, Opened(i, started, rows)
  PROVE  Queues(rowQueue', files)
  <1> DEFINE op  == [started |-> started, status |-> "in_progress"]
             row == AuditRow(Live(i), "start", op, started)
             job == [row |-> row, then |-> "none", started |-> started, snapshot |-> <<>>]
  <1>1. IsRow(row)
    BY AuditRowIsRow
  <1>2. rowQueue' = Append(rows, job)
    BY DEF Opened
  <1> HIDE DEF row
  <1>3. IsJob(job)
    BY <1>1, NewJob, EmptyIsSeq
  <1> HIDE DEF job
  <1> QED
    BY <1>2, <1>3, AppendJob

LEMMA ContinueQueues ==
  ASSUME Queues(rowQueue, fileQueue), rowQueue # <<>>, Continue(Head(rowQueue))
  PROVE  Queues(rowQueue, fileQueue)'
  <1> DEFINE job == Head(rowQueue)
  <1>1. IsJob(job) /\ Queues(Tail(rowQueue), fileQueue)
    BY HeadJob
  <1>2. \/ rowQueue' = Tail(rowQueue) /\ fileQueue' = fileQueue
        \/ Opened(job.row.id[1], job.started, Tail(rowQueue)) /\ fileQueue' = fileQueue
        \/ rowQueue' = Tail(rowQueue) /\ fileQueue' = Append(fileQueue, job.snapshot)
    BY <1>1 DEF Continue, IsJob
  <1>3. IsSeq(job.snapshot)
    BY <1>1 DEF IsJob
  <1> HIDE DEF job
  <1> QED
    BY <1>1, <1>2, <1>3, OpenedQueues, AppendSnapshot

\* An archived id shows in every snapshot that waits.
LEMMA RenamedQueues ==
  ASSUME NEW rows, NEW files, Queues(rows, files), NEW e
  PROVE  Queues([k \in DOMAIN rows |-> [rows[k] EXCEPT !.snapshot = Renamed(@, e)]],
                [k \in DOMAIN files |-> Renamed(files[k], e)])
  <1> DEFINE r == [k \in DOMAIN rows |-> [rows[k] EXCEPT !.snapshot = Renamed(@, e)]]
             f == [k \in DOMAIN files |-> Renamed(files[k], e)]
  <1>1. /\ Len(rows) \in Nat /\ DOMAIN rows = 1..Len(rows)
        /\ Len(files) \in Nat /\ DOMAIN files = 1..Len(files)
    BY SeqDomain DEF Queues
  <1>2. r = [k \in 1..Len(rows) |-> r[k]] /\ f = [k \in 1..Len(files) |-> f[k]]
    BY <1>1
  <1>3. \A k \in DOMAIN files : IsSeq(f[k])
    BY RenamedIsSeq DEF Queues
  <1>4. ASSUME NEW k \in DOMAIN rows PROVE IsJob(r[k])
    <2> DEFINE j == rows[k]
               t == Renamed(j.snapshot, e)
    <2>1. j = [row |-> j.row, then |-> j.then, started |-> j.started, snapshot |-> j.snapshot]
          /\ j.then \in {"none", "open", "write"} /\ IsRow(j.row) /\ IsSeq(t)
      BY RenamedIsSeq DEF Queues, IsJob
    <2>2. r[k] = [j EXCEPT !.snapshot = t]
      OBVIOUS
    <2> HIDE DEF j, t
    <2>3. [j EXCEPT !.snapshot = t] =
            [row |-> j.row, then |-> j.then, started |-> j.started, snapshot |-> t]
      BY <2>1
    <2> QED
      BY <2>1, <2>2, <2>3, NewJob
  <1> HIDE DEF r, f
  <1>5. IsSeq(r) /\ DOMAIN r = DOMAIN rows /\ IsSeq(f) /\ DOMAIN f = DOMAIN files
    BY <1>1, <1>2, FunctionIsSeq
  <1>6. Queues(r, f)
    BY <1>3, <1>4, <1>5 DEF Queues
  <1> QED
    BY <1>6 DEF r, f

LEMMA RotatedIsLedger ==
  ASSUME IsLedger(ledger)
  PROVE  IsLedger(Rotated(ledger)) /\ IsLedger(RotationCutShort(ledger))
  <1>1. MaxFiles \in Nat /\ DOMAIN ledger = 1..MaxFiles + 1
    BY HistoryAssumption DEF IsLedger
  <1>2. \A n \in 1..MaxFiles + 1 : IsRows(ledger[n])
    BY DEF IsLedger
  <1> DEFINE f == [n \in 1..MaxFiles + 1 |-> IF n = 1 THEN <<>> ELSE ledger[n - 1]]
  <1>3. IsLedger(f)
    <2>1. f = [n \in 1..MaxFiles + 1 |-> f[n]] /\ \A n \in 1..MaxFiles + 1 : IsRows(f[n])
      BY <1>1, <1>2, EmptyIsRows
    <2> HIDE DEF f
    <2> QED
      BY <2>1, LedgerOf
  <1> DEFINE g == [n \in 1..MaxFiles + 1 |->
                     CASE n = 1 -> ledger[1] [] n = 2 -> <<>> [] OTHER -> ledger[n - 1]]
  <1>4. IsLedger(g)
    <2>1. /\ g = [n \in 1..MaxFiles + 1 |-> g[n]]
          /\ \A n \in 1..MaxFiles + 1 : g[n] \in {<<>>, ledger[1], ledger[n - 1]}
                                       /\ (n = 1 => g[n] = ledger[1])
                                       /\ (n = 2 => g[n] = <<>>)
      OBVIOUS
    <2> HIDE DEF g
    <2>2. \A n \in 1..MaxFiles + 1 : IsRows(g[n])
      BY <1>1, <1>2, <2>1, EmptyIsRows
    <2> QED
      BY <2>1, <2>2, LedgerOf
  <1> QED
    BY <1>3, <1>4 DEF Rotated, RotationCutShort

LEMMA NewestIsLedger ==
  ASSUME NEW files, IsLedger(files), NEW s, IsRows(s)
  PROVE  IsLedger([files EXCEPT ![1] = s])
  <1> DEFINE f == [files EXCEPT ![1] = s]
  <1>1. DOMAIN files = 1..MaxFiles + 1 /\ \A n \in 1..MaxFiles + 1 : IsRows(files[n])
    BY DEF IsLedger
  <1>2. f = [n \in 1..MaxFiles + 1 |-> f[n]] /\ \A n \in 1..MaxFiles + 1 : IsRows(f[n])
    BY <1>1
  <1> HIDE DEF f
  <1>3. IsLedger(f)
    BY <1>2, LedgerOf
  <1> QED
    BY <1>3 DEF f

LEMMA EmptyIndex == FoldAuditRows(<<>>) = NoKey /\ CountRevisions(<<>>) = NoKey
  BY DEF FoldAuditRows, CountRevisions, NoKey

LEMMA IndexInit == Init => IndexInv
  <1> SUFFICES ASSUME Init PROVE IndexInv
    OBVIOUS
  <1>1. IsLedger(ledger)
    <2>1. ledger = [n \in 1..MaxFiles + 1 |-> ledger[n]]
          /\ \A n \in 1..MaxFiles + 1 : IsRows(ledger[n])
      BY EmptyIsRows DEF Init
    <2> QED
      BY <2>1, LedgerOf
  <1>2. IsSeq(file)
    <2>1. ASSUME NEW e PROVE IsSeq(<<e>>)
      <3>1. <<e>> \in Seq({e})
        OBVIOUS
      <3> QED
        BY <3>1, ElementsSeq
    <2> QED
      BY <2>1, EmptyIsSeq DEF Init
  <1> QED
    BY <1>1, <1>2, EmptyIsSeq, EmptyIsRows, EmptyIndex DEF Init, IndexInv, IndexIsFold, Queues

LEMMA IndexStep == IndexInv /\ [Next]_vars => IndexInv'
  <1> SUFFICES ASSUME IndexInv, [Next]_vars
               PROVE  IndexInv'
    OBVIOUS
  <1> USE DEF IndexInv
  <1>1. ASSUME UNCHANGED <<known, index, revisions, ledger, detail, file, rowQueue, fileQueue>>
        PROVE  IndexInv'
    BY <1>1 DEF IndexIsFold
  <1>2. ASSUME NEW i \in Ids, Begin(i) PROVE IndexInv'
    <2> DEFINE n == Position(detail, Live(i))
               entry == detail[n]
    <2>1. CASE n = 0
      <3>1. Opened(i, now', rowQueue) /\ UNCHANGED <<detail, fileQueue>>
        BY <1>2, <2>1 DEF Begin
      <3>2. Queues(rowQueue, fileQueue)'
        BY <3>1, OpenedQueues
      <3> QED
        BY <1>2, <3>1, <3>2 DEF Begin, disk, ghost, IndexIsFold
    <2>2. CASE n # 0
      <3> DEFINE waiting == [k \in DOMAIN rowQueue |->
                               [rowQueue[k] EXCEPT !.snapshot = Renamed(@, entry)]]
                 row == AuditRow(Archival(i, entry.saved), "terminal", entry, entry.saved)
                 job == [row |-> row, then |-> "open", started |-> now', snapshot |-> <<>>]
      <3>1. /\ detail' = Renamed(detail, entry)
            /\ fileQueue' = [k \in DOMAIN fileQueue |-> Renamed(fileQueue[k], entry)]
            /\ rowQueue' = Append(waiting, job)
        BY <1>2, <2>2 DEF Begin
      <3>2. IsRow(row)
        BY AuditRowIsRow
      <3> HIDE DEF row
      <3>3. IsJob(job)
        BY <3>2, NewJob, EmptyIsSeq
      <3>4. Queues(waiting, fileQueue')
        BY <3>1, RenamedQueues
      <3> HIDE DEF waiting, job, n
      <3>5. Queues(rowQueue, fileQueue)'
        BY <3>1, <3>3, <3>4, AppendJob
      <3>6. IsSeq(detail')
        BY <3>1, RenamedIsSeq
      <3> QED
        BY <1>2, <3>5, <3>6 DEF Begin, disk, ghost, IndexIsFold
    <2> QED
      BY <2>1, <2>2
  <1>3. ASSUME NEW i \in Ids, NEW s, Settle(i, s) PROVE IndexInv'
    BY <1>1, <1>3 DEF Settle, disk, ghost
  <1>4. ASSUME NEW i \in Ids, NEW stored, Persist(i, stored) PROVE IndexInv'
    <2> DEFINE entry == [id |-> Live(i), started |-> active[i].started, saved |-> now',
                         status |-> active[i].status]
               all   == Upsert(detail, entry)
               kept  == Retained(all, Pinned(all, stored))
               row   == AuditRow(Live(i), "terminal", active[i], now')
               job   == [row |-> row, then |-> "write", started |-> active[i].started,
                         snapshot |-> kept]
    <2>1. detail' = kept /\ rowQueue' = Append(rowQueue, job)
      BY <1>4 DEF Persist, Enqueue
    <2>2. IsSeq(kept)
      BY UpsertIsSeq, RetainedIsSeq
    <2>3. IsRow(row)
      BY AuditRowIsRow
    <2> HIDE DEF kept, row
    <2>4. IsJob(job)
      BY <2>2, <2>3, NewJob
    <2> HIDE DEF job
    <2>5. Queues(rowQueue', fileQueue)
      BY <2>1, <2>4, AppendJob
    <2> QED
      BY <1>4, <2>1, <2>2, <2>5 DEF Persist, disk, IndexIsFold
  <1>5. CASE PruneActive
    BY <1>1, <1>5 DEF PruneActive, disk, ghost
  <1>6. CASE AppendRow
    <2> DEFINE row == Head(rowQueue).row
    <2>1. IsRow(row)
      BY <1>6, HeadJob DEF AppendRow, IsJob
    <2>2. Queues(rowQueue, fileQueue)'
      BY <1>6, ContinueQueues DEF AppendRow
    <2>3. RecordAuditRow(row) /\ ledger' = [Rotated(ledger) EXCEPT ![1] = Append(Rotated(ledger)[1], row)]
      BY <1>6 DEF AppendRow
    <2> HIDE DEF row
    <2>4. IsRows(known)' /\ IndexIsFold'
      BY <2>1, <2>3, RecordStep
    <2>5. IsLedger(ledger')
      <3>1. IsLedger(Rotated(ledger)) /\ IsRows(Rotated(ledger)[1])
        BY RotatedIsLedger DEF IsLedger
      <3> QED
        BY <2>1, <2>3, <3>1, AppendIsRows, NewestIsLedger
    <2> QED
      BY <1>6, <2>2, <2>4, <2>5 DEF AppendRow
  <1>7. CASE AppendFails
    <2>1. Queues(rowQueue, fileQueue)'
      BY <1>7, ContinueQueues DEF AppendFails
    <2>2. IsLedger(ledger')
      BY <1>7, RotatedIsLedger DEF AppendFails
    <2> QED
      BY <1>7, <2>1, <2>2 DEF AppendFails, IndexIsFold
  <1>8. CASE WriteDetails
    <2>1. IsSeq(file') /\ Queues(rowQueue, fileQueue')
      BY <1>8, HeadSnapshot DEF WriteDetails
    <2> QED
      BY <1>8, <2>1 DEF WriteDetails, ghost, IndexIsFold
  <1>9. CASE WriteFails
    <2>1. Queues(rowQueue, fileQueue')
      BY <1>9, HeadSnapshot DEF WriteFails
    <2> QED
      BY <1>9, <2>1 DEF WriteFails, disk, ghost, IndexIsFold
  <1>10. CASE Crash
    <2>1. IsLedger(ledger')
      BY <1>10, RotatedIsLedger DEF Crash
    <2> QED
      BY <1>10, <2>1, EmptyIsSeq, EmptyIsRows, EmptyIndex DEF Crash, IndexIsFold, Queues
  <1>11. CASE Boot
    <2> DEFINE rows == LoadAuditLedger(ledger)
               Load(r) == index' = FoldAuditRows(r) /\ revisions' = CountRevisions(r) /\ known' = r
    <2>1. IsSeq(detail')
      BY <1>11, EmptyIsSeq DEF Boot, LoadTransactionLogs
    <2>2. /\ \/ Load(rows) /\ ledger' = ledger
             \/ Load(Migrated(detail')) /\ ledger' = [ledger EXCEPT ![1] = Migrated(detail')]
             \/ Load(<<>>) /\ ledger' = ledger
          /\ UNCHANGED <<rowQueue, fileQueue, file>>
      BY <1>11 DEF Boot
    <2>3. IsRows(rows)
      BY LoadIsRows DEF IsLedger
    <2>4. IsRows(Migrated(detail'))
      BY <2>1, MigratedIsRows
    <2> HIDE DEF rows
    <2>5. IsRows(known') /\ IsLedger(ledger')
      BY <2>2, <2>3, <2>4, EmptyIsRows, NewestIsLedger
    <2>6. IndexIsFold'
      BY <2>2 DEF IndexIsFold
    <2> QED
      BY <2>1, <2>2, <2>5, <2>6
  <1>12. CASE Damage \/ Repair
    BY <1>1, <1>12 DEF Damage, Repair, memory, ghost
  <1>13. CASE UNCHANGED vars
    BY <1>1, <1>13 DEF vars, memory, disk, ghost
  <1> QED
    BY <1>2, <1>3, <1>4, <1>5, <1>6, <1>7, <1>8, <1>9, <1>10, <1>11, <1>12, <1>13 DEF Next

\* The list of operations that the controller keeps row by row is the one a restart
\* folds from the same rows, whatever the order of starts and verdicts, the writes
\* that failed and the crashes: a verdict is not taken back by a start row that
\* comes after it, and every revision is counted once.
THEOREM IndexAgrees == Spec => []IndexIsFold
  <1>1. IndexInv => IndexIsFold
    BY DEF IndexInv
  <1> QED
    BY <1>1, IndexInit, IndexStep, PTL DEF Spec

-----------------------------------------------------------------------------
(* Picking the k-th of a finite set in order. *)

Orders(R, S) ==
  /\ \A a \in S : <<a, a>> \notin R
  /\ \A a, b \in S : a # b => <<a, b>> \in R \/ <<b, a>> \in R
  /\ \A a, b, c \in S : <<a, b>> \in R /\ <<b, c>> \in R => <<a, c>> \in R

Below(R, S, n) == {m \in S : <<m, n>> \in R}

LEMMA BelowCount ==
  ASSUME NEW S, IsFiniteSet(S), NEW R, NEW n
  PROVE  IsFiniteSet(Below(R, S, n)) /\ Cardinality(Below(R, S, n)) \in Nat
  <1>1. Below(R, S, n) \subseteq S
    BY DEF Below
  <1> QED
    BY <1>1, FS_Subset, FS_CardinalityType

\* Every part has a least element: the one with the fewest below it.
LEMMA LeastOf ==
  ASSUME NEW S, IsFiniteSet(S), NEW R, Orders(R, S), NEW T \in SUBSET S, T # {}
  PROVE  \E n \in T : \A m \in T : m # n => <<n, m>> \in R
  <1> DEFINE C == {Cardinality(Below(R, S, n)) : n \in T}
  <1>1. C \in SUBSET Nat /\ C # {}
    BY BelowCount
  <1>2. PICK c \in C : \A d \in C : c <= d
    BY <1>1, Minimum
  <1>3. PICK n \in T : c = Cardinality(Below(R, S, n))
    OBVIOUS
  <1>4. ASSUME NEW m \in T, m # n, <<n, m>> \notin R PROVE FALSE
    <2>1. <<m, n>> \in R
      BY <1>4 DEF Orders
    <2>2. Below(R, S, m) \subseteq Below(R, S, n)
      BY <2>1 DEF Below, Orders
    <2>3. m \in Below(R, S, n) /\ m \notin Below(R, S, m)
      BY <2>1 DEF Below, Orders
    <2>4. Below(R, S, m) # Below(R, S, n)
      BY <2>3
    <2>5. IsFiniteSet(Below(R, S, n))
      BY BelowCount
    <2>7. Cardinality(Below(R, S, m)) \in Nat /\ Cardinality(Below(R, S, n)) \in Nat
      BY BelowCount
    <2>6. Cardinality(Below(R, S, m)) < Cardinality(Below(R, S, n))
      <3>1. PICK a, b : a = Below(R, S, m) /\ b = Below(R, S, n)
        OBVIOUS
      <3>2. Cardinality(a) <= Cardinality(b) /\ (Cardinality(a) = Cardinality(b) => a = b)
        BY <2>2, <2>5, <3>1, FS_Subset
      <3> QED
        BY <2>4, <2>7, <3>1, <3>2
    <2>8. Cardinality(Below(R, S, m)) \in C
      OBVIOUS
    <2> HIDE DEF C
    <2> QED
      BY <1>2, <1>3, <2>6, <2>7, <2>8
  <1> QED
    BY <1>4

Size(S, c)   == IsFiniteSet(S) /\ c = Cardinality(S)
Nth(R, S, k) == \E n \in S : Cardinality(Below(R, S, n)) = k

LEMMA NthOf ==
  ASSUME NEW S, NEW R, Orders(R, S), NEW c \in Nat, Size(S, c), NEW k \in Nat, k < c
  PROVE  Nth(R, S, k)
  <1> DEFINE F == {j \in Nat : j < Cardinality(S) /\ \A n \in S : Cardinality(Below(R, S, n)) # j}
  <1>0. IsFiniteSet(S) /\ c = Cardinality(S) /\ Cardinality(S) \in Nat
    BY DEF Size
  <1> SUFFICES ASSUME F # {} PROVE FALSE
    BY <1>0 DEF Nth
  <1>1. PICK j \in F : \A i \in F : j <= i
    BY Minimum
  <1>2. CASE j = 0
    <2>1. S # {}
      BY <1>0, <1>2, FS_EmptySet
    <2>2. PICK n \in S : \A m \in S : m # n => <<n, m>> \in R
      BY <1>0, <2>1, LeastOf
    <2>3. Below(R, S, n) = {}
      BY <2>2 DEF Below, Orders
    <2> QED
      BY <1>2, <2>3, FS_EmptySet
  <1>3. CASE j # 0
    <2>1. j - 1 \in Nat /\ j - 1 < Cardinality(S) /\ j - 1 \notin F
      BY <1>0, <1>1, <1>3
    <2>2. PICK n \in S : Cardinality(Below(R, S, n)) = j - 1
      BY <2>1
    <2> DEFINE B == Below(R, S, n) \cup {n}
    <2>3. B \subseteq S /\ n \notin Below(R, S, n)
      BY DEF Below, Orders
    <2>4. Cardinality(B) = j /\ IsFiniteSet(B)
      <3>1. Cardinality(B) = Cardinality(Below(R, S, n)) + 1 /\ IsFiniteSet(B)
        BY <1>0, <2>3, BelowCount, FS_AddElement
      <3> QED
        BY <1>1, <2>2, <3>1
    <2>5. B # S
      BY <1>1, <2>4
    <2> DEFINE T == {m \in S : <<n, m>> \in R}
    <2>6. T # {}
      <3>1. PICK m \in S : m \notin B
        BY <2>3, <2>5
      <3>2. m # n /\ <<m, n>> \notin R
        BY <3>1 DEF Below
      <3> QED
        BY <3>2 DEF Orders
    <2>7. PICK l \in T : \A m \in T : m # l => <<l, m>> \in R
      <3>1. T \in SUBSET S
        OBVIOUS
      <3> HIDE DEF T
      <3> QED
        BY <1>0, <2>6, <3>1, LeastOf
    <2>8. Below(R, S, l) = B
      <3>1. ASSUME NEW m \in S, <<m, l>> \in R PROVE m \in B
        <4>1. m \notin T
          BY <2>7, <3>1 DEF Orders
        <4> QED
          BY <4>1 DEF Orders, Below
      <3>2. ASSUME NEW m \in B PROVE m \in S /\ <<m, l>> \in R
        BY <2>3, <2>7 DEF Orders, Below
      <3> QED
        BY <3>1, <3>2 DEF Below
    <2> QED
      BY <1>1, <2>4, <2>7, <2>8
  <1> QED
    BY <1>2, <1>3

\* The k-th of a set of positions.
Picked(A, k) == \E n \in A : Cardinality({m \in A : m <= n}) = k

LEMMA NthPosition ==
  ASSUME NEW L \in Nat, NEW A \in SUBSET (1..L), NEW k \in 1..Cardinality(A)
  PROVE  Picked(A, k)
  <1>1. IsFiniteSet(A) /\ Cardinality(A) \in Nat
    <2>1. IsFiniteSet(1..L)
      BY FS_Interval
    <2> QED
      BY <2>1, FS_Subset, FS_CardinalityType
  <1>2. PICK R : R = {p \in A \X A : p[1] < p[2]}
    OBVIOUS
  <1>3. \A a, b \in A : <<a, b>> \in R <=> a < b
    BY <1>2
  <1>4. Orders(R, A)
    BY <1>3 DEF Orders
  <1>5. PICK j \in Nat : k = j + 1 /\ j < Cardinality(A)
    <2>1. k - 1 \in Nat /\ k = (k - 1) + 1 /\ k - 1 < Cardinality(A)
      BY <1>1
    <2> QED
      BY <2>1
  <1>6. PICK n \in A : Cardinality(Below(R, A, n)) = j
    <2>1. PICK c \in Nat : c = Cardinality(A)
      BY <1>1
    <2>2. j < c
      BY <1>5, <2>1
    <2>3. Size(A, c)
      BY <1>1, <2>1 DEF Size
    <2>4. Nth(R, A, j)
      BY <1>4, <2>2, <2>3, NthOf
    <2> QED
      BY <2>4 DEF Nth
  <1>7. {m \in A : m <= n} = Below(R, A, n) \cup {n} /\ n \notin Below(R, A, n)
    <2>1. \A m \in A : m \in Nat
      OBVIOUS
    <2>2. \A m : m \in Below(R, A, n) <=> m \in A /\ m < n
      BY <1>3 DEF Below
    <2>3. \A m \in A : m <= n <=> (m < n \/ m = n)
      BY <2>1
    <2>4. n \notin Below(R, A, n)
      BY <2>1, <2>2
    <2>5. ASSUME NEW m PROVE m \in {x \in A : x <= n} <=> m \in Below(R, A, n) \cup {n}
      BY <2>2, <2>3
    <2> QED
      BY <2>4, <2>5
  <1> QED
    BY <1>1, <1>5, <1>6, <1>7, BelowCount, FS_AddElement DEF Picked

\* r is made of entries of s that are in S, each taken at most once.
Choosing(r, s, S) ==
  /\ IsSeq(r)
  /\ \E pos :
       /\ r = [k \in DOMAIN pos |-> s[pos[k]]]
       /\ \A k \in DOMAIN pos : pos[k] \in DOMAIN s /\ s[pos[k]] \in S
       /\ \A k, l \in DOMAIN pos : pos[k] = pos[l] => k = l

\* What Among picks is of the entries, and no entry twice.
LEMMA AmongOf ==
  ASSUME NEW s, IsSeq(s), NEW S
  PROVE  Choosing(Among(s, S), s, S)
  <1> DEFINE at     == {n \in DOMAIN s : s[n] \in S}
             nth(k) == CHOOSE n \in at : Cardinality({m \in at : m <= n}) = k
             pos    == [k \in 1..Cardinality(at) |-> nth(k)]
  <1>1. Len(s) \in Nat /\ DOMAIN s = 1..Len(s)
    BY SeqDomain
  <1>2. IsFiniteSet(at) /\ at \subseteq 1..Len(s) /\ Cardinality(at) \in Nat
    <2>1. at \subseteq 1..Len(s) /\ IsFiniteSet(1..Len(s))
      BY <1>1, FS_Interval
    <2> HIDE DEF at
    <2> QED
      BY <2>1, FS_Subset, FS_CardinalityType
  <1>5. ASSUME NEW k \in 1..Cardinality(at)
        PROVE  nth(k) \in at /\ Cardinality({m \in at : m <= nth(k)}) = k
    <2> HIDE DEF at
    <2>1. \E n \in at : Cardinality({m \in at : m <= n}) = k
      <3>1. at \in SUBSET (1..Len(s))
        BY <1>2
      <3>2. Picked(at, k)
        BY <1>1, <3>1, NthPosition
      <3> QED
        BY <3>2 DEF Picked
    <2> QED
      BY <2>1
  <1>6. Among(s, S) = [k \in 1..Cardinality(at) |-> s[nth(k)]]
    BY DEF Among
  <1>7. IsSeq(Among(s, S))
    <2> DEFINE a == Among(s, S)
    <2>1. a = [k \in 1..Cardinality(at) |-> a[k]]
      BY <1>6
    <2> HIDE DEF a
    <2> QED
      BY <1>2, <2>1, FunctionIsSeq DEF a
  <1>8. \A k \in 1..Cardinality(at) : nth(k) \in DOMAIN s /\ s[nth(k)] \in S
    BY <1>5
  <1>9. \A k, l \in 1..Cardinality(at) : nth(k) = nth(l) => k = l
    <2> HIDE DEF nth
    <2> QED
      BY <1>5
  <1>10. PICK p : p = pos
    OBVIOUS
  <1> HIDE DEF nth
  <1>11. DOMAIN p = 1..Cardinality(at) /\ \A k \in 1..Cardinality(at) : p[k] = nth(k)
    BY <1>10
  <1> HIDE DEF pos, at
  <1>12. Among(s, S) = [k \in DOMAIN p |-> s[p[k]]]
    BY <1>6, <1>11
  <1>13. \A k \in DOMAIN p : p[k] \in DOMAIN s /\ s[p[k]] \in S
    BY <1>8, <1>11
  <1>14. \A k, l \in DOMAIN p : p[k] = p[l] => k = l
    BY <1>9, <1>11
  <1> QED
    BY <1>7, <1>12, <1>13, <1>14 DEF Choosing

-----------------------------------------------------------------------------
(* Types *)

LEMMA SeqFrom ==
  ASSUME NEW A, NEW n \in Nat, NEW s, s = [k \in 1..n |-> s[k]], \A k \in 1..n : s[k] \in A
  PROVE  s \in Seq(A)
  <1>1. s \in [1..n -> A]
    OBVIOUS
  <1> QED
    BY <1>1, SeqDef

LEMMA SeqIs ==
  ASSUME NEW A, NEW s \in Seq(A)
  PROVE  Len(s) \in Nat /\ DOMAIN s = 1..Len(s) /\ \A n \in DOMAIN s : s[n] \in A
  BY LenProperties, ElementOfSeq

LEMMA EmptyType ==
  ASSUME NEW A
  PROVE  <<>> \in Seq(A)
  BY EmptySeq

\* The place of a name, which no entry before it bears.
LEMMA PositionOf ==
  ASSUME NEW s, IsSeq(s), NEW name
  PROVE  LET n == Position(s, name)
         IN  \/ n = 0 /\ \A k \in DOMAIN s : s[k].id # name
             \/ n \in DOMAIN s /\ n # 0 /\ s[n].id = name
  <1> DEFINE found == {k \in DOMAIN s : s[k].id = name}
  <1>1. Len(s) \in Nat /\ DOMAIN s = 1..Len(s)
    BY SeqDomain
  <1>2. CASE found = {}
    BY <1>2 DEF Position
  <1>3. CASE found # {}
    <2>1. Position(s, name) = Least(found)
      BY <1>3 DEF Position
    <2>2. PICK x \in found : \A y \in found : x <= y
      <3>1. found \in SUBSET Nat
        BY <1>1
      <3> HIDE DEF found
      <3> QED
        BY <1>3, <3>1, Minimum
    <2>3. Least(found) \in found
      BY <2>2 DEF Least
    <2> QED
      BY <1>1, <2>1, <2>3
  <1> QED
    BY <1>2, <1>3

LEMMA RowType ==
  ASSUME NEW name \in Names, NEW kind \in {"start", "terminal"}, NEW op, op.started \in Nat,
         op.status \in Statuses, NEW saved \in Nat
  PROVE  AuditRow(name, kind, op, saved) \in Rows
  BY DEF AuditRow, Rows

LEMMA EntryFields ==
  ASSUME NEW e \in Entries
  PROVE  /\ e.id \in Names /\ e.id[1] \in Ids /\ e.id[2] \in Nat
         /\ e.started \in Nat /\ e.saved \in Nat /\ e.status \in Statuses
         /\ e = [id |-> e.id, started |-> e.started, saved |-> e.saved, status |-> e.status]
  BY DEF Entries, Names

LEMMA RenamedType ==
  ASSUME NEW s \in Seq(Entries), NEW e \in Entries
  PROVE  Renamed(s, e) \in Seq(Entries)
  <1> DEFINE moved == [e EXCEPT !.id = Archival(e.id[1], e.saved)]
  <1>1. moved \in Entries
    <2>1. Archival(e.id[1], e.saved) \in Names
      BY EntryFields DEF Archival, Names
    <2> QED
      BY <2>1 DEF Entries
  <1> HIDE DEF moved
  <1>2. Len(s) \in Nat /\ DOMAIN s = 1..Len(s) /\ \A n \in DOMAIN s : s[n] \in Entries
    BY SeqIs
  <1> DEFINE t == Renamed(s, e)
  <1>3. t = [n \in 1..Len(s) |-> IF s[n] = e THEN moved ELSE s[n]]
    BY <1>2 DEF Renamed, moved
  <1>4. t = [n \in 1..Len(s) |-> t[n]] /\ \A n \in 1..Len(s) : t[n] \in Entries
    BY <1>1, <1>2, <1>3
  <1> HIDE DEF t
  <1>5. t \in Seq(Entries)
    BY <1>2, <1>4, SeqFrom
  <1> QED
    BY <1>5 DEF t

LEMMA UpsertType ==
  ASSUME NEW s \in Seq(Entries), NEW e \in Entries
  PROVE  Upsert(s, e) \in Seq(Entries)
  <1>1. Append(s, e) \in Seq(Entries)
    BY AppendProperties
  <1>2. PICK n : n = Position(s, e.id)
    OBVIOUS
  <1>3. CASE n = 0
    BY <1>1, <1>2, <1>3 DEF Upsert
  <1>4. CASE n # 0
    <2>1. n \in 1..Len(s)
      BY <1>2, <1>4, ElementsSeq, PositionOf, SeqIs
    <2>2. [s EXCEPT ![n] = e] \in Seq(Entries)
      BY <2>1, ExceptSeq
    <2> QED
      BY <1>2, <1>4, <2>2 DEF Upsert
  <1> QED
    BY <1>3, <1>4

LEMMA AmongType ==
  ASSUME NEW A, NEW s \in Seq(A), NEW S
  PROVE  Among(s, S) \in Seq(A)
  <1>0. Choosing(Among(s, S), s, S)
    <2>1. IsSeq(s)
      BY ElementsSeq
    <2> QED
      BY <2>1, AmongOf
  <1>1. PICK pos :
          /\ Among(s, S) = [k \in DOMAIN pos |-> s[pos[k]]] /\ IsSeq(Among(s, S))
          /\ \A k \in DOMAIN pos : pos[k] \in DOMAIN s
    BY <1>0 DEF Choosing
  <1> DEFINE t == Among(s, S)
  <1>2. \A k \in DOMAIN t : t[k] \in A
    BY <1>1, SeqIs
  <1>3. IsSeq(t)
    BY <1>1
  <1> HIDE DEF t
  <1>4. Len(t) \in Nat /\ DOMAIN t = 1..Len(t) /\ t \in Seq({t[k] : k \in DOMAIN t})
    BY <1>3, SeqDomain DEF IsSeq
  <1>5. t \in Seq(A)
    <2>1. {t[k] : k \in DOMAIN t} \subseteq A
      BY <1>2
    <2> QED
      BY <1>4, <2>1, SeqMonotonic
  <1> QED
    BY <1>5 DEF t

LEMMA RetainedType ==
  ASSUME NEW s \in Seq(Entries), NEW pinned
  PROVE  Retained(s, pinned) \in Seq(Entries)
  <1>1. \A S : Among(s, S) \in Seq(Entries)
    BY AmongType
  <1> QED
    BY <1>1 DEF Retained

\* The details in the order they were saved.
LEMMA MigratedType ==
  ASSUME NEW s \in Seq(Entries)
  PROVE  /\ Migrated(s) \in Seq(Rows)
         /\ \A k \in DOMAIN Migrated(s) : \E n \in DOMAIN s :
              Migrated(s)[k] = AuditRow(s[n].id, "terminal", s[n], s[n].saved)
  <1> DEFINE L == Len(s)
             Before(m, n) == \/ s[m].saved < s[n].saved
                             \/ s[m].saved = s[n].saved /\ m < n
             rank(n) == 1 + Cardinality({m \in DOMAIN s : Before(m, n)})
             at(k) == s[CHOOSE n \in DOMAIN s : rank(n) = k]
  <1>1. L \in Nat /\ DOMAIN s = 1..L /\ \A n \in DOMAIN s : s[n] \in Entries
    BY SeqIs
  <1>2. \A n \in 1..L : s[n].saved \in Nat
    BY <1>1, EntryFields
  <1>3. PICK R : R = {p \in (1..L) \X (1..L) : Before(p[1], p[2])}
    OBVIOUS
  <1>4. \A a, b \in 1..L : <<a, b>> \in R <=> Before(a, b)
    BY <1>3
  <1>5. Orders(R, 1..L)
    <2>1. \A a \in 1..L : <<a, a>> \notin R
      BY <1>2, <1>4
    <2>2. \A a, b \in 1..L : a # b => <<a, b>> \in R \/ <<b, a>> \in R
      BY <1>1, <1>2, <1>4
    <2>3. ASSUME NEW a \in 1..L, NEW b \in 1..L, NEW c \in 1..L, <<a, b>> \in R, <<b, c>> \in R
          PROVE  <<a, c>> \in R
      <3>1. Before(a, b) /\ Before(b, c)
        BY <1>4, <2>3
      <3>2. a \in Nat /\ b \in Nat /\ c \in Nat /\ s[a].saved \in Nat /\ s[b].saved \in Nat /\ s[c].saved \in Nat
        BY <1>1, <1>2
      <3>3. Before(a, c)
        BY <3>1, <3>2
      <3> QED
        BY <1>4, <3>3
    <2> QED
      BY <2>1, <2>2, <2>3 DEF Orders
  <1>6. \A n \in 1..L : {m \in DOMAIN s : Before(m, n)} = Below(R, 1..L, n)
    BY <1>1, <1>4 DEF Below
  <1>7. Size(1..L, L)
    <2>1. \A n \in Nat : IsFiniteSet(1..n) /\ Cardinality(1..n) = n
      <3> TAKE n \in Nat
      <3>1. IsFiniteSet(1..n) /\ Cardinality(1..n) = IF 1 > n THEN 0 ELSE n - 1 + 1
        BY FS_Interval
      <3> QED
        BY <3>1
    <2> QED
      BY <1>1, <2>1 DEF Size
  <1>8. ASSUME NEW k \in 1..L PROVE at(k) \in Entries /\ \E n \in DOMAIN s : at(k) = s[n]
    <2>1. \E n \in DOMAIN s : rank(n) = k
      <3>1. PICK j \in Nat : k = j + 1 /\ j < L
        <4>1. k - 1 \in Nat /\ k = (k - 1) + 1 /\ k - 1 < L
          BY <1>1
        <4> QED
          BY <4>1
      <3>2. Nth(R, 1..L, j)
        <4> HIDE DEF L
        <4> QED
          BY <1>1, <1>5, <1>7, <3>1, NthOf
      <3>3. PICK n \in 1..L : Cardinality(Below(R, 1..L, n)) = j
        BY <3>2 DEF Nth
      <3>4. Cardinality({m \in DOMAIN s : Before(m, n)}) = j
        BY <1>6, <3>3
      <3>5. rank(n) = 1 + j /\ 1 + j = k
        BY <3>1, <3>4
      <3>6. n \in DOMAIN s
        BY <1>1, <3>3
      <3> HIDE DEF rank
      <3> QED
        BY <3>5, <3>6
    <2> HIDE DEF rank
    <2> QED
      BY <1>1, <2>1
  <1>9. Migrated(s) = [k \in 1..L |-> AuditRow(at(k).id, "terminal", at(k), at(k).saved)]
    BY <1>1 DEF Migrated
  <1> HIDE DEF at
  <1>10. \A k \in 1..L : AuditRow(at(k).id, "terminal", at(k), at(k).saved) \in Rows
    BY <1>8, EntryFields, RowType
  <1> DEFINE t == Migrated(s)
  <1>11. t = [k \in 1..L |-> t[k]] /\ \A k \in 1..L : t[k] \in Rows
    BY <1>9, <1>10
  <1>12. ASSUME NEW k \in DOMAIN t
         PROVE  \E n \in DOMAIN s : t[k] = AuditRow(s[n].id, "terminal", s[n], s[n].saved)
    <2>1. k \in 1..L /\ t[k] = AuditRow(at(k).id, "terminal", at(k), at(k).saved)
      BY <1>9
    <2>2. PICK n \in DOMAIN s : at(k) = s[n]
      BY <1>8, <2>1
    <2> QED
      BY <2>1, <2>2
  <1> HIDE DEF t, L
  <1>13. t \in Seq(Rows)
    BY <1>1, <1>11, SeqFrom
  <1> QED
    BY <1>12, <1>13 DEF t

LEMMA LoadType ==
  ASSUME NEW A, NEW files, Len(files) \in Nat, \A n \in 1..Len(files) : files[n] \in Seq(A)
  PROVE  LoadAuditLedger(files) \in Seq(A)
  <1> DEFINE L == Len(files)
             upto == CHOOSE f : Reads(files, L, f)
  <1>1. Reads(files, L, upto)
    BY ReadsExists
  <1>2. LoadAuditLedger(files) = upto[L]
    BY DEF LoadAuditLedger, Reads
  <1> HIDE DEF upto
  <1> DEFINE T == {n \in Nat : n <= L /\ upto[n] \notin Seq(A)}
  <1>3. T = {}
    <2> SUFFICES ASSUME T # {} PROVE FALSE
      OBVIOUS
    <2>1. PICK n \in T : \A m \in T : n <= m
      BY Minimum
    <2>2. CASE n = 0
      <3>1. upto[0] = <<>>
        BY <1>1 DEF Reads
      <3> QED
        BY <2>1, <2>2, <3>1, EmptyType
    <2>3. CASE n # 0
      <3>1. upto[n - 1] \in Seq(A) /\ files[n] \in Seq(A)
        BY <2>1, <2>3
      <3>2. upto[n] = files[n] \o upto[n - 1]
        <4>1. n \in 0..L /\ n # 0
          BY <2>1, <2>3
        <4> HIDE DEF L
        <4> QED
          BY <1>1, <4>1 DEF Reads
      <3>3. files[n] \o upto[n - 1] \in Seq(A)
        BY <3>1, ConcatProperties
      <3> QED
        BY <2>1, <3>2, <3>3
    <2> QED
      BY <2>2, <2>3
  <1> QED
    BY <1>2, <1>3

LEMMA RowFields ==
  ASSUME NEW r \in Rows
  PROVE  /\ r.id \in Names /\ r.id[1] \in Ids /\ r.started \in Nat /\ r.saved \in Nat
         /\ r.kind \in {"start", "terminal"} /\ r.status \in Statuses
  BY DEF Rows, Names

LEMMA RowsAreRows ==
  ASSUME NEW s \in Seq(Rows)
  PROVE  IsRows(s)
  BY ElementsSeq, SeqIs, RowFields DEF IsRows, IsRow

\* What a restart folds from rows is of their type.
LEMMA FoldType ==
  ASSUME NEW s \in Seq(Rows)
  PROVE  LET i == FoldAuditRows(s) r == CountRevisions(s)
         IN  /\ DOMAIN i \subseteq Names /\ \A x \in DOMAIN i : i[x] \in Rows
             /\ DOMAIN r \subseteq Names /\ \A x \in DOMAIN r : r[x] \in Nat
  <1>1. Len(s) \in Nat /\ DOMAIN s = 1..Len(s) /\ \A n \in DOMAIN s : s[n] \in Rows
    BY SeqIs
  <1>2. \A n \in DOMAIN s : s[n].id \in Names
    BY <1>1, RowFields
  <1>3. \A x \in DOMAIN FoldAuditRows(s) : x \in Names /\ FoldAuditRows(s)[x] \in Rows
    <2> SUFFICES ASSUME NEW x \in {s[n].id : n \in DOMAIN s}
                 PROVE  x \in Names /\ s[Greatest(Candidates(s, x))] \in Rows
      BY DEF FoldAuditRows
    <2> QED
      BY <1>1, <1>2, RowsAreRows, CandidateExists
  <1>4. \A x \in DOMAIN CountRevisions(s) : x \in Names /\ CountRevisions(s)[x] \in Nat
    <2>1. CountRevisions(s) =
            [x \in {s[n].id : n \in {m \in DOMAIN s : s[m].kind = "terminal"}} |->
               Cardinality(Terminals(s, x))]
      BY DEF CountRevisions, Terminals
    <2>2. \A x : Cardinality(Terminals(s, x)) \in Nat
      <3> TAKE x
      <3>1. Terminals(s, x) \subseteq 1..Len(s)
        BY <1>1 DEF Terminals
      <3>2. IsFiniteSet(1..Len(s))
        BY <1>1, FS_Interval
      <3> QED
        BY <3>1, <3>2, FS_Subset, FS_CardinalityType
    <2> QED
      BY <1>2, <2>1, <2>2
  <1> QED
    BY <1>3, <1>4

Ledgers == [1..MaxFiles + 1 -> Seq(Rows)]

LEMMA LedgerLength ==
  ASSUME NEW f \in Ledgers
  PROVE  Len(f) \in Nat /\ Len(f) = MaxFiles + 1 /\ \A n \in 1..Len(f) : f[n] \in Seq(Rows)
  <1>1. MaxFiles + 1 \in Nat
    BY HistoryAssumption
  <1>2. f = [n \in 1..MaxFiles + 1 |-> f[n]] /\ \A n \in 1..MaxFiles + 1 : IsRows(f[n])
    BY RowsAreRows DEF Ledgers
  <1>3. IsLedger(f)
    BY <1>2, LedgerOf
  <1> QED
    BY <1>3 DEF IsLedger, Ledgers

LEMMA RotatedType ==
  ASSUME NEW f \in Ledgers
  PROVE  /\ Rotated(f) \in Ledgers /\ RotationCutShort(f) \in Ledgers
         /\ f[1] \in Seq(Rows)
         /\ \A s \in Seq(Rows) : [f EXCEPT ![1] = s] \in Ledgers
  <1>1. MaxFiles \in Nat /\ 1 \in 1..MaxFiles + 1
    BY HistoryAssumption
  <1>2. \A n \in 1..MaxFiles + 1 : f[n] \in Seq(Rows)
    BY DEF Ledgers
  <1>3. \A n \in 1..MaxFiles + 1 : n # 1 => f[n - 1] \in Seq(Rows)
    BY <1>1, <1>2
  <1>4. <<>> \in Seq(Rows)
    BY EmptyType
  <1>5. Rotated(f) \in Ledgers
    BY <1>3, <1>4 DEF Rotated, Ledgers
  <1>6. RotationCutShort(f) \in Ledgers
    <2>1. \A n \in 1..MaxFiles + 1 :
            (CASE n = 1 -> f[1] [] n = 2 -> <<>> [] OTHER -> f[n - 1]) \in Seq(Rows)
      BY <1>1, <1>2, <1>3, <1>4
    <2> QED
      BY <2>1 DEF RotationCutShort, Ledgers
  <1> QED
    BY <1>1, <1>2, <1>5, <1>6 DEF Ledgers

LEMMA JobType ==
  ASSUME NEW row \in Rows, NEW then \in {"none", "open", "write"}, NEW started \in Nat,
         NEW snapshot \in Seq(Entries)
  PROVE  [row |-> row, then |-> then, started |-> started, snapshot |-> snapshot] \in Appends
  BY DEF Appends

LEMMA JobFields ==
  ASSUME NEW j \in Appends
  PROVE  /\ j.row \in Rows /\ j.then \in {"none", "open", "write"} /\ j.started \in Nat
         /\ j.snapshot \in Seq(Entries)
         /\ j = [row |-> j.row, then |-> j.then, started |-> j.started, snapshot |-> j.snapshot]
  BY DEF Appends

Records(a) == DOMAIN a \subseteq Ids /\ \A i \in DOMAIN a : a[i] \in Ops

LEMMA OpenedTypes ==
  ASSUME Records(active), logs \subseteq Ids, NEW i \in Ids, NEW started \in Nat,
         NEW queue \in Seq(Appends), Opened(i, started, queue)
  PROVE  Records(active') /\ logs' \subseteq Ids /\ rowQueue' \in Seq(Appends)
  <1> DEFINE op == [started |-> started, status |-> "in_progress"]
  <1>1. op \in Ops /\ op.started \in Nat /\ op.status \in Statuses
    BY DEF Ops, Statuses
  <1>2. active' = Put(active, i, op) /\ logs' = logs \cup {i}
    BY DEF Opened
  <1>3. AuditRow(Live(i), "start", op, started) \in Rows
    <2>1. Live(i) \in Names
      BY DEF Live, Names
    <2> HIDE DEF op
    <2> QED
      BY <1>1, <2>1, RowType
  <1>4. <<>> \in Seq(Entries)
    BY EmptyType
  <1>5. PICK job \in Appends : rowQueue' = Append(queue, job)
    BY <1>3, <1>4, JobType DEF Opened
  <1>6. rowQueue' \in Seq(Appends)
    BY <1>5, AppendProperties
  <1> HIDE DEF op
  <1>7. Records(active')
    BY <1>1, <1>2 DEF Records, Put
  <1> QED
    BY <1>2, <1>6, <1>7

LEMMA HeadTypes ==
  ASSUME NEW A, NEW s \in Seq(A), s # <<>>
  PROVE  Head(s) \in A /\ Tail(s) \in Seq(A)
  BY HeadTailProperties

LEMMA ContinueTypes ==
  ASSUME TypeOK, rowQueue # <<>>, Continue(Head(rowQueue))
  PROVE  /\ Head(rowQueue).row \in Rows
         /\ Records(active') /\ logs' \subseteq Ids
         /\ rowQueue' \in Seq(Appends) /\ fileQueue' \in Seq(Seq(Entries))
  <1>1. PICK job \in Appends : job = Head(rowQueue)
    BY HeadTypes DEF TypeOK
  <1>2. Tail(rowQueue) \in Seq(Appends)
    BY HeadTypes DEF TypeOK
  <1>3. /\ job.row \in Rows /\ job.row.id[1] \in Ids /\ job.started \in Nat
        /\ job.snapshot \in Seq(Entries) /\ job.then \in {"none", "open", "write"}
    BY JobFields, RowFields
  <1>4. \/ rowQueue' = Tail(rowQueue) /\ UNCHANGED <<active, logs, fileQueue>>
        \/ Opened(job.row.id[1], job.started, Tail(rowQueue)) /\ UNCHANGED fileQueue
        \/ /\ rowQueue' = Tail(rowQueue) /\ fileQueue' = Append(fileQueue, job.snapshot)
           /\ UNCHANGED <<active, logs>>
    BY <1>1, <1>3 DEF Continue
  <1>5. Append(fileQueue, job.snapshot) \in Seq(Seq(Entries))
    BY <1>3, AppendProperties DEF TypeOK
  <1>6. Records(active) /\ logs \subseteq Ids /\ fileQueue \in Seq(Seq(Entries))
    BY DEF TypeOK, Records
  <1> QED
    BY <1>1, <1>2, <1>3, <1>4, <1>5, <1>6, OpenedTypes

LEMMA RecordTypes ==
  ASSUME TypeOK, NEW row \in Rows, RecordAuditRow(row)
  PROVE  /\ known' \in Seq(Rows)
         /\ DOMAIN index' \subseteq Names /\ \A x \in DOMAIN index' : index'[x] \in Rows
         /\ DOMAIN revisions' \subseteq Names /\ \A x \in DOMAIN revisions' : revisions'[x] \in Nat
  <1>1. row.id \in Names
    BY RowFields
  <1>2. known' \in Seq(Rows)
    BY AppendProperties DEF RecordAuditRow, TypeOK
  <1>3. DOMAIN index' \subseteq Names /\ \A x \in DOMAIN index' : index'[x] \in Rows
    BY <1>1 DEF RecordAuditRow, TypeOK, Put
  <1>4. DOMAIN revisions' \subseteq Names /\ \A x \in DOMAIN revisions' : revisions'[x] \in Nat
    <2>1. PICK c \in Nat : c = IF row.id \in DOMAIN revisions THEN revisions[row.id] ELSE 0
      BY DEF TypeOK
    <2>2. \/ revisions' = revisions
          \/ revisions' = Put(revisions, row.id, 1 + c)
      BY <2>1 DEF RecordAuditRow
    <2>3. 1 + c \in Nat
      OBVIOUS
    <2> QED
      BY <1>1, <2>2, <2>3 DEF TypeOK, Put
  <1> QED
    BY <1>2, <1>3, <1>4

LEMMA RenamedQueueTypes ==
  ASSUME NEW rows \in Seq(Appends), NEW files \in Seq(Seq(Entries)), NEW e \in Entries
  PROVE  /\ [k \in DOMAIN rows |-> [rows[k] EXCEPT !.snapshot = Renamed(@, e)]] \in Seq(Appends)
         /\ [k \in DOMAIN files |-> Renamed(files[k], e)] \in Seq(Seq(Entries))
  <1> DEFINE r == [k \in DOMAIN rows |-> [rows[k] EXCEPT !.snapshot = Renamed(@, e)]]
             f == [k \in DOMAIN files |-> Renamed(files[k], e)]
  <1>1. /\ Len(rows) \in Nat /\ DOMAIN rows = 1..Len(rows)
        /\ Len(files) \in Nat /\ DOMAIN files = 1..Len(files)
        /\ \A k \in DOMAIN rows : rows[k] \in Appends
        /\ \A k \in DOMAIN files : files[k] \in Seq(Entries)
    BY SeqIs
  <1>2. \A k \in DOMAIN files : f[k] \in Seq(Entries)
    BY <1>1, RenamedType
  <1>3. ASSUME NEW k \in DOMAIN rows PROVE r[k] \in Appends
    <2>1. PICK j \in Appends : j = rows[k]
      BY <1>1
    <2>2. PICK t \in Seq(Entries) : t = Renamed(j.snapshot, e)
      BY JobFields, RenamedType
    <2>3. r[k] = [j EXCEPT !.snapshot = t]
      BY <2>1, <2>2
    <2>4. [j EXCEPT !.snapshot = t] \in Appends
      BY DEF Appends
    <2> QED
      BY <2>3, <2>4
  <1>4. r = [k \in 1..Len(rows) |-> r[k]] /\ f = [k \in 1..Len(files) |-> f[k]]
    BY <1>1
  <1> HIDE DEF r, f
  <1>5. r \in Seq(Appends) /\ f \in Seq(Seq(Entries))
    BY <1>1, <1>2, <1>3, <1>4, SeqFrom
  <1> QED
    BY <1>5 DEF r, f

\* Started moments are numbers.
LEMMA StartedType ==
  ASSUME NEW s \in Seq(Entries)
  PROVE  {e.started : e \in Elements(s)} \subseteq Nat
  BY SeqIs, EntryFields DEF Elements

LEMMA TypeInit == Init => TypeOK
  <1> SUFFICES ASSUME Init PROVE TypeOK
    OBVIOUS
  <1>1. \A A : <<>> \in Seq(A)
    BY EmptyType
  <1>2. file \in Seq(Entries)
    <2>1. ASSUME NEW i \in Ids, NEW s \in {"completed", "failed"}
          PROVE  <<[id |-> Live(i), started |-> 1, saved |-> 1, status |-> s]>> \in Seq(Entries)
      <3>1. [id |-> Live(i), started |-> 1, saved |-> 1, status |-> s] \in Entries
        BY DEF Live, Names, Entries, Statuses
      <3> QED
        BY <3>1
    <2>2. CASE file = <<>>
      BY <1>1, <2>2
    <2>3. CASE file # <<>>
      <3>1. file \in {<<[id |-> Live(i), started |-> 1, saved |-> 1, status |-> s]>> :
                        i \in Ids, s \in {"completed", "failed"}}
        BY <2>3 DEF Init
      <3>2. PICK i \in Ids : \E s \in {"completed", "failed"} :
               file = <<[id |-> Live(i), started |-> 1, saved |-> 1, status |-> s]>>
        BY <3>1
      <3> QED
        BY <2>1, <3>2
    <2> QED
      BY <2>2, <2>3
  <1>3. ledger \in [1..MaxFiles + 1 -> Seq(Rows)]
    BY <1>1 DEF Init
  <1> QED
    BY <1>1, <1>2, <1>3 DEF Init, TypeOK, NoKey

LEMMA TypeStep == TypeOK /\ [Next]_vars => TypeOK'
  <1> SUFFICES ASSUME TypeOK, [Next]_vars
               PROVE  TypeOK'
    OBVIOUS
  <1>1. /\ Records(active) /\ ledger \in Ledgers
        /\ detail \in Seq(Entries) /\ rowQueue \in Seq(Appends)
        /\ fileQueue \in Seq(Seq(Entries)) /\ now \in Nat /\ file \in Seq(Entries)
    BY DEF TypeOK, Records, Ledgers
  <1>2. ASSUME NEW i \in Ids, Begin(i) PROVE TypeOK'
    <2> DEFINE n == Position(detail, Live(i))
               entry == detail[n]
    <2>1. now' \in Nat
      BY <1>1, <1>2 DEF Begin
    <2>2. CASE n = 0
      <3>1. Opened(i, now', rowQueue) /\ UNCHANGED <<detail, fileQueue>>
        BY <1>2, <2>2 DEF Begin
      <3>2. Records(active') /\ logs' \subseteq Ids /\ rowQueue' \in Seq(Appends)
        BY <1>1, <2>1, <3>1, OpenedTypes DEF TypeOK
      <3> QED
        BY <1>2, <2>1, <3>1, <3>2 DEF Begin, TypeOK, Records, disk, ghost
    <2>3. CASE n # 0
      <3> DEFINE row == AuditRow(Archival(i, entry.saved), "terminal", entry, entry.saved)
                 waiting == [k \in DOMAIN rowQueue |->
                               [rowQueue[k] EXCEPT !.snapshot = Renamed(@, entry)]]
      <3>1. PICK e \in Entries : e = entry
        <4>1. IsSeq(detail) /\ \A k \in DOMAIN detail : detail[k] \in Entries
          BY <1>1, ElementsSeq, SeqIs
        <4>2. n \in DOMAIN detail
          BY <2>3, <4>1, PositionOf
        <4> HIDE DEF n
        <4> QED
          BY <4>1, <4>2
      <3>2. /\ detail' = Renamed(detail, e)
            /\ fileQueue' = [k \in DOMAIN fileQueue |-> Renamed(fileQueue[k], e)]
            /\ rowQueue' = Append(waiting, [row |-> row, then |-> "open", started |-> now',
                                            snapshot |-> <<>>])
            /\ UNCHANGED <<active, logs>>
        BY <1>2, <2>3, <3>1 DEF Begin
      <3>3. row \in Rows
        <4>1. Archival(i, e.saved) \in Names
          BY EntryFields DEF Archival, Names
        <4> QED
          BY <3>1, <4>1, EntryFields, RowType
      <3>4. [row |-> row, then |-> "open", started |-> now', snapshot |-> <<>>] \in Appends
        <4>1. <<>> \in Seq(Entries)
          BY EmptyType
        <4>2. PICK r \in Rows : r = row
          BY <3>3
        <4>3. PICK t \in Nat : t = now'
          BY <2>1
        <4>4. [row |-> r, then |-> "open", started |-> t, snapshot |-> <<>>] \in Appends
          BY <4>1, JobType
        <4> HIDE DEF row
        <4> QED
          BY <4>2, <4>3, <4>4
      <3>5. waiting \in Seq(Appends) /\ fileQueue' \in Seq(Seq(Entries))
        <4>1. entry \in Entries
          BY <3>1
        <4>2. fileQueue' = [k \in DOMAIN fileQueue |-> Renamed(fileQueue[k], entry)]
          BY <1>2, <2>3 DEF Begin
        <4> HIDE DEF entry
        <4>3. /\ waiting \in Seq(Appends)
              /\ [k \in DOMAIN fileQueue |-> Renamed(fileQueue[k], entry)] \in Seq(Seq(Entries))
          BY <1>1, <4>1, RenamedQueueTypes
        <4> QED
          BY <4>2, <4>3
      <3>6. detail' \in Seq(Entries)
        BY <1>1, <3>2, RenamedType
      <3> HIDE DEF waiting, row
      <3>7. rowQueue' \in Seq(Appends)
        BY <3>2, <3>4, <3>5, AppendProperties
      <3> QED
        BY <1>2, <2>1, <3>2, <3>5, <3>6, <3>7 DEF Begin, TypeOK, disk, ghost
    <2> QED
      BY <2>2, <2>3
  <1>3. ASSUME NEW i \in Ids, NEW s \in Statuses, Settle(i, s) PROVE TypeOK'
    <2>1. Records(active')
      <3>1. active' = [active EXCEPT ![i].status = s] /\ i \in DOMAIN active
        BY <1>3 DEF Settle
      <3>2. [active[i] EXCEPT !.status = s] \in Ops
        BY <1>1, <3>1 DEF Records, Ops
      <3> QED
        BY <1>1, <3>1, <3>2 DEF Records
    <2> QED
      BY <1>3, <2>1 DEF Settle, TypeOK, Records, disk, ghost
  <1>4. ASSUME NEW i \in Ids, NEW stored \in SUBSET Ids, Persist(i, stored) PROVE TypeOK'
    <2> DEFINE entry == [id |-> Live(i), started |-> active[i].started, saved |-> now',
                         status |-> active[i].status]
               all   == Upsert(detail, entry)
               kept  == Retained(all, Pinned(all, stored))
               row   == AuditRow(Live(i), "terminal", active[i], now')
               job   == [row |-> row, then |-> "write", started |-> active[i].started,
                         snapshot |-> kept]
    <2>1. now' \in Nat /\ Live(i) \in Names /\ active[i].started \in Nat
          /\ active[i].status \in Statuses
      BY <1>1, <1>4 DEF Persist, Records, Ops, Live, Names
    <2>2. entry \in Entries
      BY <2>1 DEF Entries
    <2>3. row \in Rows
      BY <2>1, RowType
    <2>4. /\ detail' = kept /\ rowQueue' = Append(rowQueue, job)
          /\ logs' = PruneTransactionLogs(logs, kept)
          /\ excused' = excused \cup {e.started : e \in Elements(all) \ Elements(kept)}
                          \cup (IF Archiving(i) THEN {active[i].started} ELSE {})
      BY <1>4 DEF Persist, Enqueue
    <2> HIDE DEF entry, row
    <2>5. all \in Seq(Entries)
      BY <1>1, <2>2, UpsertType
    <2> HIDE DEF all
    <2>6. kept \in Seq(Entries)
      BY <2>5, RetainedType
    <2> HIDE DEF kept
    <2>7. job \in Appends
      BY <2>1, <2>3, <2>6, JobType
    <2> HIDE DEF job
    <2>8. rowQueue' \in Seq(Appends)
      BY <1>1, <2>4, <2>7, AppendProperties
    <2>9. logs' \subseteq Ids
      BY <2>4 DEF PruneTransactionLogs, TypeOK
    <2>10. excused' \subseteq Nat
      <3>1. {e.started : e \in Elements(all)} \subseteq Nat
        BY <2>5, StartedType
      <3> QED
        BY <2>1, <2>4, <3>1 DEF TypeOK
    <2> QED
      BY <1>4, <2>1, <2>4, <2>6, <2>8, <2>9, <2>10 DEF Persist, TypeOK, disk
  <1>5. CASE PruneActive
    <2>1. Records(active')
      BY <1>1, <1>5 DEF PruneActive, PruneOldTransfers, Records
    <2> QED
      BY <1>5, <2>1 DEF PruneActive, TypeOK, Records, disk, ghost
  <1>6. CASE AppendRow
    <2>1. /\ Head(rowQueue).row \in Rows
          /\ Records(active') /\ logs' \subseteq Ids
          /\ rowQueue' \in Seq(Appends) /\ fileQueue' \in Seq(Seq(Entries))
      BY <1>6, ContinueTypes DEF AppendRow
    <2>2. PICK row \in Rows : row = Head(rowQueue).row
      BY <2>1
    <2>3. RecordAuditRow(row) /\ ledger' = [Rotated(ledger) EXCEPT ![1] = Append(Rotated(ledger)[1], row)]
      BY <1>6, <2>2 DEF AppendRow
    <2>4. /\ known' \in Seq(Rows)
          /\ DOMAIN index' \subseteq Names /\ \A x \in DOMAIN index' : index'[x] \in Rows
          /\ DOMAIN revisions' \subseteq Names /\ \A x \in DOMAIN revisions' : revisions'[x] \in Nat
      BY <2>3, RecordTypes
    <2>5. ledger' \in Ledgers
      <3>1. PICK f \in Ledgers : f = Rotated(ledger)
        BY <1>1, RotatedType
      <3>2. Append(f[1], row) \in Seq(Rows)
        BY RotatedType, AppendProperties
      <3> QED
        BY <2>3, <3>1, <3>2, RotatedType
    <2> QED
      BY <1>6, <2>1, <2>4, <2>5 DEF AppendRow, TypeOK, Records, Ledgers
  <1>7. CASE AppendFails
    <2>1. /\ Head(rowQueue).row \in Rows
          /\ Records(active') /\ logs' \subseteq Ids
          /\ rowQueue' \in Seq(Appends) /\ fileQueue' \in Seq(Seq(Entries))
      BY <1>7, ContinueTypes DEF AppendFails
    <2>2. ledger' \in Ledgers
      BY <1>1, <1>7, RotatedType DEF AppendFails
    <2>3. excused' \subseteq Nat
      BY <1>7, <2>1, RowFields DEF AppendFails, TypeOK
    <2>4. faults' \in Nat
      BY <1>7 DEF AppendFails, Fault, TypeOK
    <2> QED
      BY <1>7, <2>1, <2>2, <2>3, <2>4 DEF AppendFails, TypeOK, Records, Ledgers
  <1>8. CASE WriteDetails
    <2>1. file' \in Seq(Entries) /\ fileQueue' \in Seq(Seq(Entries))
      BY <1>1, <1>8, HeadTypes DEF WriteDetails
    <2> QED
      BY <1>8, <2>1 DEF WriteDetails, TypeOK, ghost
  <1>9. CASE WriteFails
    <2>1. fileQueue' \in Seq(Seq(Entries)) /\ faults' \in Nat
      BY <1>1, <1>9, HeadTypes DEF WriteFails, Fault, TypeOK
    <2> QED
      BY <1>9, <2>1 DEF WriteFails, TypeOK, disk, ghost
  <1>10. CASE Crash
    <2>1. ledger' \in Ledgers
      BY <1>1, <1>10, RotatedType DEF Crash
    <2>2. excused' \subseteq Nat
      BY <1>1, <1>10, StartedType DEF Crash, TypeOK
    <2>3. \A A : <<>> \in Seq(A)
      BY EmptyType
    <2>4. DOMAIN NoKey = {}
      BY DEF NoKey
    <2>5. /\ faults' \in Nat /\ crashes' \in Nat /\ up' = FALSE /\ latched' = FALSE
          /\ active' = NoKey /\ logs' = {} /\ detail' = <<>>
          /\ index' = NoKey /\ revisions' = NoKey
          /\ rowQueue' = <<>> /\ fileQueue' = <<>> /\ known' = <<>>
          /\ UNCHANGED <<now, file, damaged>>
      BY <1>10 DEF Crash, Fault, TypeOK
    <2> QED
      BY <2>1, <2>2, <2>3, <2>4, <2>5 DEF TypeOK, Ledgers
  <1>11. CASE Boot
    <2>1. PICK rows \in Seq(Rows) : rows = LoadAuditLedger(ledger)
      BY <1>1, LedgerLength, LoadType
    <2> DEFINE Load(r) == index' = FoldAuditRows(r) /\ revisions' = CountRevisions(r) /\ known' = r
    <2>2. detail' \in Seq(Entries) /\ latched' \in BOOLEAN
      BY <1>1, <1>11, EmptyType DEF Boot, LoadTransactionLogs, TypeOK
    <2>3. Migrated(detail') \in Seq(Rows) /\ <<>> \in Seq(Rows)
      BY <2>2, MigratedType, EmptyType
    <2>4. /\ \/ Load(rows) /\ UNCHANGED <<ledger, faults>>
             \/ /\ Load(Migrated(detail')) /\ ledger' = [ledger EXCEPT ![1] = Migrated(detail')]
                /\ UNCHANGED faults
             \/ Load(<<>>) /\ UNCHANGED ledger /\ Fault
          /\ excused' = excused \cup {e \in {rows[n].started : n \in DOMAIN rows} : damaged}
          /\ up' = TRUE /\ UNCHANGED <<now, active, logs, rowQueue, fileQueue, file, damaged, crashes>>
      BY <1>11, <2>1 DEF Boot
    <2>5. PICK r \in Seq(Rows) : Load(r)
      BY <2>3, <2>4
    <2>6. /\ DOMAIN index' \subseteq Names /\ \A x \in DOMAIN index' : index'[x] \in Rows
          /\ DOMAIN revisions' \subseteq Names /\ \A x \in DOMAIN revisions' : revisions'[x] \in Nat
      BY <2>5, FoldType
    <2>7. ledger' \in Ledgers
      BY <1>1, <2>3, <2>4, RotatedType
    <2>8. faults' \in Nat
      BY <2>4 DEF Fault, TypeOK
    <2>9. excused' \subseteq Nat
      BY <2>4, SeqIs, RowFields DEF TypeOK
    <2>10. known' \in Seq(Rows)
      BY <2>5
    <2>11. up' = TRUE /\ UNCHANGED <<now, active, logs, rowQueue, fileQueue, file, damaged, crashes>>
      BY <2>4
    <2> HIDE DEF Load
    <2> QED
      BY <2>2, <2>6, <2>7, <2>8, <2>9, <2>10, <2>11 DEF TypeOK, Ledgers
  <1>12. ASSUME faults' \in Nat, damaged' \in BOOLEAN,
                UNCHANGED <<up, now, memory, ledger, file, crashes, ghost>>
         PROVE  TypeOK'
    BY <1>12 DEF TypeOK, memory, ghost
  <1>14. CASE Damage
    <2>1. faults' \in Nat
      BY <1>14 DEF Damage, Fault, TypeOK
    <2> QED
      BY <1>12, <1>14, <2>1 DEF Damage
  <1>15. CASE Repair
    <2>1. faults' \in Nat
      BY <1>15 DEF Repair, TypeOK
    <2> QED
      BY <1>12, <1>15, <2>1 DEF Repair
  <1>13. CASE UNCHANGED vars
    BY <1>13 DEF vars, memory, disk, ghost, TypeOK
  <1> QED
    BY <1>2, <1>3, <1>4, <1>5, <1>6, <1>7, <1>8, <1>9, <1>10, <1>11, <1>13, <1>14,
       <1>15 DEF Next

\* Type correctness, for any number of ids, any window of details and any size and
\* number of ledger files: every snapshot that waits, every row and every fold of
\* rows is what its reader expects, whatever fails and whenever the controller stops.
THEOREM TypesAlways == Spec => []TypeOK
  BY TypeInit, TypeStep, PTL DEF Spec

-----------------------------------------------------------------------------
(* The file of details.  The snapshots form a line: the file, what is on its    *)
(* way to it, what waits for a row of the ledger, and the store in memory.  No  *)
(* snapshot has an older state of an entry than one before it in the line.      *)
(* That holds through the renaming of an entry because an archival id names the *)
(* moment its entry was saved, and no two entries of a snapshot share an id or  *)
(* that moment.                                                                 *)

\* The entries of a snapshot can be told apart.
Sound(s, t) ==
  /\ \A n \in DOMAIN s :
       /\ s[n].saved \in 1..t
       /\ s[n].id[2] = 0 \/ s[n].id[2] = s[n].saved
  /\ \A m, n \in DOMAIN s : (s[m].id = s[n].id \/ s[m].saved = s[n].saved) => m = n

\* No entry of s is newer than its namesake in t.
NoNewer(s, t) ==
  \A m \in DOMAIN s, n \in DOMAIN t :
    (s[m].id = t[n].id /\ s[m].started = t[n].started) => t[n].saved >= s[m].saved

AllSound(f, files, rows, d, t) ==
  /\ Sound(f, t) /\ Sound(d, t)
  /\ \A n \in DOMAIN files : Sound(files[n], t)
  /\ \A n \in DOMAIN rows : Sound(rows[n].snapshot, t)

Line(f, files, rows, d) ==
  /\ NoNewer(f, d)
  /\ \A n \in DOMAIN files : NoNewer(f, files[n]) /\ NoNewer(files[n], d)
  /\ \A n \in DOMAIN rows : NoNewer(f, rows[n].snapshot) /\ NoNewer(rows[n].snapshot, d)
  /\ \A m, n \in DOMAIN files : m < n => NoNewer(files[m], files[n])
  /\ \A m, n \in DOMAIN rows : m < n => NoNewer(rows[m].snapshot, rows[n].snapshot)
  /\ \A m \in DOMAIN files, n \in DOMAIN rows : NoNewer(files[m], rows[n].snapshot)

InLine(f, files, rows, d, t) == AllSound(f, files, rows, d, t) /\ Line(f, files, rows, d)

LEMMA SoundEmpty ==
  ASSUME NEW t, NEW s
  PROVE  Sound(<<>>, t) /\ NoNewer(s, <<>>) /\ NoNewer(<<>>, s)
  BY EmptyIsSeq DEF Sound, NoNewer

LEMMA SoundLater ==
  ASSUME NEW t \in Nat, NEW u \in Nat, t <= u, NEW s, Sound(s, t)
  PROVE  Sound(s, u)
  BY DEF Sound

LEMMA SoundSelf ==
  ASSUME NEW t \in Nat, NEW s, Sound(s, t)
  PROVE  NoNewer(s, s)
  BY DEF Sound, NoNewer

LEMMA RenamedParts ==
  ASSUME NEW s \in Seq(Entries), NEW e \in Entries
  PROVE  /\ DOMAIN Renamed(s, e) = DOMAIN s
         /\ \A n \in DOMAIN s :
              /\ Renamed(s, e)[n].saved = s[n].saved /\ Renamed(s, e)[n].started = s[n].started
              /\ s[n] = e => Renamed(s, e)[n].id = <<e.id[1], e.saved>>
              /\ s[n] # e => Renamed(s, e)[n].id = s[n].id
              /\ s[n].id \in Names /\ s[n].started \in Nat /\ s[n].saved \in Nat
  <1>1. DOMAIN Renamed(s, e) = DOMAIN s
    BY DEF Renamed
  <1>2. ASSUME NEW n \in DOMAIN s
        PROVE  /\ Renamed(s, e)[n].saved = s[n].saved /\ Renamed(s, e)[n].started = s[n].started
               /\ s[n] = e => Renamed(s, e)[n].id = <<e.id[1], e.saved>>
               /\ s[n] # e => Renamed(s, e)[n].id = s[n].id
    <2>1. Renamed(s, e)[n] =
            IF s[n] = e THEN [e EXCEPT !.id = Archival(e.id[1], e.saved)] ELSE s[n]
      BY DEF Renamed
    <2>2. PICK x : x = Archival(e.id[1], e.saved)
      OBVIOUS
    <2>3. /\ [e EXCEPT !.id = x].saved = e.saved /\ [e EXCEPT !.id = x].started = e.started
          /\ [e EXCEPT !.id = x].id = x
      BY DEF Entries
    <2> QED
      BY <2>1, <2>2, <2>3 DEF Archival
  <1>3. \A n \in DOMAIN s : s[n].id \in Names /\ s[n].started \in Nat /\ s[n].saved \in Nat
    BY SeqIs, EntryFields
  <1> QED
    BY <1>1, <1>2, <1>3

\* A renaming keeps the entries of a snapshot apart, and the line in order.
LEMMA RenamedSound ==
  ASSUME NEW t \in Nat, NEW s \in Seq(Entries), Sound(s, t), NEW e \in Entries
  PROVE  Sound(Renamed(s, e), t)
  <1>1. PICK r : r = Renamed(s, e)
    OBVIOUS
  <1>2. /\ DOMAIN r = DOMAIN s
        /\ \A n \in DOMAIN s :
              /\ r[n].saved = s[n].saved
              /\ s[n] = e => r[n].id = <<e.id[1], e.saved>>
              /\ s[n] # e => r[n].id = s[n].id
    BY <1>1, RenamedParts
  <1>3. ASSUME NEW n \in DOMAIN r
        PROVE  /\ r[n].saved \in 1..t
               /\ r[n].id[2] = 0 \/ r[n].id[2] = r[n].saved
    <2>1. s[n].saved \in 1..t /\ (s[n].id[2] = 0 \/ s[n].id[2] = s[n].saved)
      BY <1>2 DEF Sound
    <2> QED
      BY <1>2, <2>1
  <1>4. ASSUME NEW m \in DOMAIN r, NEW n \in DOMAIN r, r[m].id = r[n].id, s[m] = e, s[n] # e
        PROVE  FALSE
    <2>1. s[n].id[2] = e.saved
      BY <1>2, <1>4
    <2>2. s[n].id[2] # 0 /\ s[n].saved = s[m].saved
      BY <1>2, <1>4, <2>1 DEF Sound
    <2>3. m = n
      BY <1>2, <2>2 DEF Sound
    <2> QED
      BY <1>4, <2>3
  <1>5. ASSUME NEW m \in DOMAIN r, NEW n \in DOMAIN r,
               r[m].id = r[n].id \/ r[m].saved = r[n].saved
        PROVE  m = n
    <2>1. CASE r[m].saved = r[n].saved
      BY <1>2, <2>1 DEF Sound
    <2>2. CASE r[m].id = r[n].id /\ s[m] = e /\ s[n] = e
      BY <1>2, <2>2 DEF Sound
    <2>3. CASE r[m].id = r[n].id /\ s[m] # e /\ s[n] # e
      BY <1>2, <2>3 DEF Sound
    <2> QED
      BY <1>4, <1>5, <2>1, <2>2, <2>3
  <1>6. Sound(r, t)
    BY <1>3, <1>5 DEF Sound
  <1> QED
    BY <1>1, <1>6

LEMMA RenamedNoNewer ==
  ASSUME NEW t \in Nat, NEW s \in Seq(Entries), Sound(s, t),
         NEW u \in Seq(Entries), Sound(u, t), NoNewer(s, u), NEW e \in Entries
  PROVE  NoNewer(Renamed(s, e), Renamed(u, e)) /\ NoNewer(s, Renamed(u, e))
  <1>1. PICK r, v : r = Renamed(s, e) /\ v = Renamed(u, e)
    OBVIOUS
  <1>2. /\ DOMAIN r = DOMAIN s
        /\ \A n \in DOMAIN s :
              /\ r[n].saved = s[n].saved /\ r[n].started = s[n].started
              /\ s[n] = e => r[n].id = <<e.id[1], e.saved>>
              /\ s[n] # e => r[n].id = s[n].id
              /\ s[n].saved \in Nat
    BY <1>1, RenamedParts
  <1>3. /\ DOMAIN v = DOMAIN u
        /\ \A n \in DOMAIN u :
              /\ v[n].saved = u[n].saved /\ v[n].started = u[n].started
              /\ u[n] = e => v[n].id = <<e.id[1], e.saved>>
              /\ u[n] # e => v[n].id = u[n].id
              /\ u[n].saved \in Nat
    BY <1>1, RenamedParts
  <1>4. ASSUME NEW m \in DOMAIN s, s[m].id = <<e.id[1], e.saved>>, NEW n \in DOMAIN u, u[n] = e
        PROVE  u[n].saved >= s[m].saved
    <2>1. s[m].id[2] = e.saved /\ u[n].saved = e.saved
      BY <1>4
    <2>2. s[m].id[2] = 0 \/ s[m].id[2] = s[m].saved
      BY DEF Sound
    <2>3. e.saved # 0 /\ s[m].saved \in Nat
      BY <1>2, <2>1 DEF Sound
    <2> QED
      BY <2>1, <2>2, <2>3
  <1>5. ASSUME NEW m \in DOMAIN s, s[m] = e, NEW n \in DOMAIN u, u[n].id = <<e.id[1], e.saved>>
        PROVE  u[n].saved >= s[m].saved
    <2>1. u[n].id[2] = e.saved /\ s[m].saved = e.saved
      BY <1>5
    <2>2. u[n].id[2] = 0 \/ u[n].id[2] = u[n].saved
      BY DEF Sound
    <2>3. e.saved # 0 /\ s[m].saved \in Nat
      BY <1>2, <2>1 DEF Sound
    <2> QED
      BY <2>1, <2>2, <2>3
  <1>6. \A m \in DOMAIN s, n \in DOMAIN u :
          (s[m].id = u[n].id /\ s[m].started = u[n].started) => u[n].saved >= s[m].saved
    BY DEF NoNewer
  <1>7. ASSUME NEW m \in DOMAIN s, NEW n \in DOMAIN u, s[m].started = u[n].started,
               r[m].id = v[n].id \/ s[m].id = v[n].id
        PROVE  u[n].saved >= s[m].saved
    <2>1. CASE s[m] = e /\ u[n] = e
      BY <1>6, <2>1
    <2>2. CASE s[m] = e /\ u[n] # e
      BY <1>2, <1>3, <1>5, <1>6, <1>7, <2>2
    <2>3. CASE s[m] # e /\ u[n] = e
      BY <1>2, <1>3, <1>4, <1>7, <2>3
    <2>4. CASE s[m] # e /\ u[n] # e
      BY <1>2, <1>3, <1>6, <1>7, <2>4
    <2> QED
      BY <2>1, <2>2, <2>3, <2>4
  <1>8. NoNewer(r, v) /\ NoNewer(s, v)
    BY <1>2, <1>3, <1>7 DEF NoNewer
  <1> QED
    BY <1>1, <1>8

\* A snapshot that leaves entries out.
PartOf(r, s) ==
  \E pos :
    /\ r = [k \in DOMAIN pos |-> s[pos[k]]]
    /\ \A k \in DOMAIN pos : pos[k] \in DOMAIN s
    /\ \A k, l \in DOMAIN pos : pos[k] = pos[l] => k = l

LEMMA RetainedIsPart ==
  ASSUME NEW s \in Seq(Entries), NEW pinned
  PROVE  PartOf(Retained(s, pinned), s)
  <1>1. ASSUME NEW S PROVE PartOf(Among(s, S), s)
    <2>0. IsSeq(s)
      BY ElementsSeq
    <2>1. Choosing(Among(s, S), s, S)
      BY <2>0, AmongOf
    <2>2. PICK pos :
            /\ Among(s, S) = [k \in DOMAIN pos |-> s[pos[k]]]
            /\ \A k \in DOMAIN pos : pos[k] \in DOMAIN s
            /\ \A k, l \in DOMAIN pos : pos[k] = pos[l] => k = l
      BY <2>1 DEF Choosing
    <2> QED
      BY <2>2 DEF PartOf
  <1>2. PartOf(s, s)
    <2>1. PICK pos : pos = [k \in DOMAIN s |-> k]
      OBVIOUS
    <2>2. DOMAIN pos = DOMAIN s /\ \A k \in DOMAIN s : pos[k] = k
      BY <2>1
    <2>3. s = [k \in DOMAIN pos |-> s[pos[k]]]
      <3>1. s = [k \in DOMAIN s |-> s[k]]
        BY LenProperties
      <3> QED
        BY <2>2, <3>1
    <2> QED
      BY <2>2, <2>3 DEF PartOf
  <1> QED
    BY <1>1, <1>2 DEF Retained

LEMMA PartKeeps ==
  ASSUME NEW r, NEW s, PartOf(r, s)
  PROVE  /\ \A n \in DOMAIN r : \E k \in DOMAIN s : r[n] = s[k]
         /\ \A t : Sound(s, t) => Sound(r, t)
         /\ \A u : NoNewer(u, s) => NoNewer(u, r)
  <1>1. PICK pos :
          /\ r = [k \in DOMAIN pos |-> s[pos[k]]]
          /\ \A k \in DOMAIN pos : pos[k] \in DOMAIN s
          /\ \A k, l \in DOMAIN pos : pos[k] = pos[l] => k = l
    BY DEF PartOf
  <1>2. DOMAIN r = DOMAIN pos /\ \A k \in DOMAIN pos : r[k] = s[pos[k]]
    BY <1>1
  <1>3. ASSUME NEW t, Sound(s, t) PROVE Sound(r, t)
    BY <1>1, <1>2, <1>3 DEF Sound
  <1>4. ASSUME NEW u, NoNewer(u, s) PROVE NoNewer(u, r)
    BY <1>1, <1>2, <1>4 DEF NoNewer
  <1> QED
    BY <1>1, <1>2, <1>3, <1>4

\* What a persist puts in the store is the latest state of an operation, in the
\* place of the one before.
LEMMA UpsertParts ==
  ASSUME NEW t, NEW s \in Seq(Entries), Sound(s, t), NEW e
  PROVE  \E p \in DOMAIN Upsert(s, e) :
           /\ Upsert(s, e)[p] = e
           /\ \A n \in DOMAIN Upsert(s, e) \ {p} :
                n \in DOMAIN s /\ Upsert(s, e)[n] = s[n] /\ s[n].id # e.id
  <1>1. /\ Len(s) \in Nat /\ DOMAIN s = 1..Len(s)
        /\ DOMAIN Append(s, e) = 1..Len(s) + 1
        /\ \A n \in 1..Len(s) : Append(s, e)[n] = s[n]
        /\ Append(s, e)[Len(s) + 1] = e
    BY ElementsSeq, AppendIsSeq
  <1>2. PICK p : p = Position(s, e.id)
    OBVIOUS
  <1>3. \/ p = 0 /\ \A k \in DOMAIN s : s[k].id # e.id
        \/ p \in DOMAIN s /\ p # 0 /\ s[p].id = e.id
    BY <1>2, ElementsSeq, PositionOf
  <1>4. PICK u : u = Upsert(s, e)
    OBVIOUS
  <1>5. CASE p = 0
    <2>1. u = Append(s, e)
      BY <1>2, <1>4, <1>5 DEF Upsert
    <2>2. PICK q : q = Len(s) + 1
      OBVIOUS
    <2>3. q \in DOMAIN u /\ u[q] = e
      BY <1>1, <2>1, <2>2
    <2>4. \A n \in DOMAIN u \ {q} : n \in DOMAIN s /\ u[n] = s[n] /\ s[n].id # e.id
      BY <1>1, <1>3, <1>5, <2>1, <2>2
    <2> QED
      BY <1>4, <2>3, <2>4
  <1>6. CASE p # 0
    <2>1. u = [s EXCEPT ![p] = e]
      BY <1>2, <1>4, <1>6 DEF Upsert
    <2>2. p \in DOMAIN s /\ s[p].id = e.id
      BY <1>3, <1>6
    <2>3. p \in DOMAIN u /\ u[p] = e
      BY <2>1, <2>2
    <2>4. \A n \in DOMAIN u \ {p} : n \in DOMAIN s /\ u[n] = s[n] /\ s[n].id # e.id
      BY <2>1, <2>2 DEF Sound
    <2> QED
      BY <1>4, <2>3, <2>4
  <1> QED
    BY <1>5, <1>6

LEMMA UpsertKeeps ==
  ASSUME NEW t \in Nat, NEW s \in Seq(Entries), Sound(s, t),
         NEW e, e.saved = t + 1, e.id[2] = 0
  PROVE  /\ Sound(Upsert(s, e), t + 1)
         /\ \A u : (Sound(u, t) /\ NoNewer(u, s)) => NoNewer(u, Upsert(s, e))
  <1>1. PICK v : v = Upsert(s, e)
    OBVIOUS
  <1>2. PICK p \in DOMAIN v :
          /\ v[p] = e
          /\ \A n \in DOMAIN v \ {p} : n \in DOMAIN s /\ v[n] = s[n] /\ s[n].id # e.id
    BY <1>1, UpsertParts
  <1>3. \A n \in DOMAIN v \ {p} : v[n].saved \in 1..t
    BY <1>2 DEF Sound
  <1>4. \A n \in DOMAIN v : v[n].saved \in 1..t + 1 /\ (v[n].id[2] = 0 \/ v[n].id[2] = v[n].saved)
    BY <1>2, <1>3 DEF Sound
  <1>5. ASSUME NEW m \in DOMAIN v, NEW n \in DOMAIN v, v[m].id = v[n].id \/ v[m].saved = v[n].saved
        PROVE  m = n
    <2>1. CASE m = p /\ n = p
      BY <2>1
    <2>2. CASE m = p /\ n # p
      BY <1>2, <1>3, <1>5, <2>2
    <2>3. CASE m # p /\ n = p
      BY <1>2, <1>3, <1>5, <2>3
    <2>4. CASE m # p /\ n # p
      BY <1>2, <1>5, <2>4 DEF Sound
    <2> QED
      BY <2>1, <2>2, <2>3, <2>4
  <1>6. Sound(v, t + 1)
    BY <1>4, <1>5 DEF Sound
  <1>7. ASSUME NEW u, Sound(u, t), NoNewer(u, s)
        PROVE  NoNewer(u, v)
    <2>1. \A m \in DOMAIN u : u[m].saved \in 1..t
      BY <1>7 DEF Sound
    <2>2. ASSUME NEW m \in DOMAIN u, NEW n \in DOMAIN v,
                 u[m].id = v[n].id, u[m].started = v[n].started
          PROVE  v[n].saved >= u[m].saved
      <3>1. CASE n = p
        BY <1>2, <2>1, <3>1
      <3>2. CASE n # p
        BY <1>2, <1>7, <2>2, <3>2 DEF NoNewer
      <3> QED
        BY <3>1, <3>2
    <2> QED
      BY <2>2 DEF NoNewer
  <1> QED
    BY <1>1, <1>6, <1>7

\* The line when a job is appended, dropped, or hands its snapshot to the file.
LEMMA AppendParts ==
  ASSUME NEW A, NEW s \in Seq(A), NEW e
  PROVE  /\ DOMAIN Append(s, e) = DOMAIN s \cup {Len(s) + 1} /\ Len(s) + 1 \notin DOMAIN s
         /\ \A n \in DOMAIN s : n \in Nat /\ n < Len(s) + 1 /\ Append(s, e)[n] = s[n]
         /\ Append(s, e)[Len(s) + 1] = e /\ Len(s) + 1 \in Nat
  <1>1. /\ Len(s) \in Nat /\ DOMAIN s = 1..Len(s)
        /\ DOMAIN Append(s, e) = 1..Len(s) + 1
        /\ \A n \in 1..Len(s) : Append(s, e)[n] = s[n]
        /\ Append(s, e)[Len(s) + 1] = e
    BY ElementsSeq, AppendIsSeq
  <1>2. 1..Len(s) + 1 = (1..Len(s)) \cup {Len(s) + 1}
    BY <1>1
  <1> QED
    BY <1>1, <1>2

LEMMA TailParts ==
  ASSUME NEW A, NEW s \in Seq(A), s # <<>>
  PROVE  /\ Head(s) = s[1] /\ 1 \in DOMAIN s
         /\ \A n \in DOMAIN Tail(s) :
              n \in Nat /\ 1 < n + 1 /\ n + 1 \in DOMAIN s /\ Tail(s)[n] = s[n + 1]
  <1>1. /\ Head(s) = s[1] /\ 1 \in DOMAIN s /\ IsSeq(Tail(s))
        /\ \A n \in DOMAIN Tail(s) : n + 1 \in DOMAIN s /\ Tail(s)[n] = s[n + 1]
    BY ElementsSeq, TailIsSeq
  <1>2. DOMAIN Tail(s) = 1..Len(Tail(s))
    BY <1>1, SeqDomain
  <1> QED
    BY <1>1, <1>2

LEMMA LineEmptyJob ==
  ASSUME NEW f, NEW files, NEW rows \in Seq(Appends), NEW d, NEW t,
         InLine(f, files, rows, d, t), NEW j, j.snapshot = <<>>
  PROVE  InLine(f, files, Append(rows, j), d, t)
  <1>1. PICK q, l : q = Append(rows, j) /\ l = Len(rows) + 1
    OBVIOUS
  <1>2. /\ DOMAIN q = DOMAIN rows \cup {l}
        /\ \A n \in DOMAIN rows : q[n] = rows[n]
        /\ q[l] = j
        /\ \A n \in DOMAIN rows : n \in Nat /\ n < l
        /\ l \in Nat
    BY <1>1, AppendParts
  <1>3. /\ Sound(j.snapshot, t)
        /\ \A s : NoNewer(s, j.snapshot) /\ NoNewer(j.snapshot, s)
    BY SoundEmpty
  <1>4. AllSound(f, files, q, d, t)
    BY <1>2, <1>3 DEF InLine, AllSound
  <1>5. Line(f, files, q, d)
    BY <1>2, <1>3 DEF InLine, Line
  <1> QED
    BY <1>1, <1>4, <1>5 DEF InLine

LEMMA LineTail ==
  ASSUME NEW f, NEW files, NEW rows \in Seq(Appends), NEW d, NEW t,
         InLine(f, files, rows, d, t), rows # <<>>
  PROVE  InLine(f, files, Tail(rows), d, t)
  <1>1. PICK q : q = Tail(rows)
    OBVIOUS
  <1>2. \A n \in DOMAIN q : n \in Nat /\ n + 1 \in DOMAIN rows /\ q[n] = rows[n + 1]
    BY <1>1, TailParts
  <1>3. AllSound(f, files, q, d, t)
    BY <1>2 DEF InLine, AllSound
  <1>4. \A m, n \in DOMAIN q : m < n => NoNewer(q[m].snapshot, q[n].snapshot)
    <2> SUFFICES ASSUME NEW m \in DOMAIN q, NEW n \in DOMAIN q, m < n
                 PROVE  NoNewer(q[m].snapshot, q[n].snapshot)
      OBVIOUS
    <2>1. m + 1 < n + 1
      BY <1>2
    <2> QED
      BY <1>2, <2>1 DEF InLine, Line
  <1>5. Line(f, files, q, d)
    BY <1>2, <1>4 DEF InLine, Line
  <1> QED
    BY <1>1, <1>3, <1>5 DEF InLine

LEMMA LineDrop ==
  ASSUME NEW f, NEW files \in Seq(Seq(Entries)), NEW rows, NEW d, NEW t,
         InLine(f, files, rows, d, t), files # <<>>
  PROVE  InLine(f, Tail(files), rows, d, t) /\ InLine(Head(files), Tail(files), rows, d, t)
  <1>1. PICK q : q = Tail(files)
    OBVIOUS
  <1>2. /\ Head(files) = files[1] /\ 1 \in DOMAIN files
        /\ \A n \in DOMAIN q : n \in Nat /\ 1 < n + 1 /\ n + 1 \in DOMAIN files /\ q[n] = files[n + 1]
    BY <1>1, TailParts
  <1>3. AllSound(f, q, rows, d, t) /\ AllSound(files[1], q, rows, d, t)
    BY <1>2 DEF InLine, AllSound
  <1>4. \A m, n \in DOMAIN q : m < n => NoNewer(q[m], q[n])
    <2> SUFFICES ASSUME NEW m \in DOMAIN q, NEW n \in DOMAIN q, m < n
                 PROVE  NoNewer(q[m], q[n])
      OBVIOUS
    <2>1. m + 1 < n + 1
      BY <1>2
    <2> QED
      BY <1>2, <2>1 DEF InLine, Line
  <1>5. Line(f, q, rows, d) /\ Line(files[1], q, rows, d)
    BY <1>2, <1>4 DEF InLine, Line
  <1> QED
    BY <1>1, <1>2, <1>3, <1>5 DEF InLine

LEMMA LineMove ==
  ASSUME NEW f, NEW files \in Seq(Seq(Entries)), NEW rows \in Seq(Appends), NEW d, NEW t,
         InLine(f, files, rows, d, t), rows # <<>>
  PROVE  InLine(f, Append(files, Head(rows).snapshot), Tail(rows), d, t)
  <1>1. PICK q, g, l, h : q = Tail(rows) /\ h = Head(rows).snapshot
                          /\ g = Append(files, h) /\ l = Len(files) + 1
    OBVIOUS
  <1>2. /\ h = rows[1].snapshot /\ 1 \in DOMAIN rows
        /\ \A n \in DOMAIN q : n \in Nat /\ 1 < n + 1 /\ n + 1 \in DOMAIN rows /\ q[n] = rows[n + 1]
    BY <1>1, TailParts
  <1>3. /\ DOMAIN g = DOMAIN files \cup {l}
        /\ \A n \in DOMAIN files : g[n] = files[n]
        /\ g[l] = h
        /\ \A n \in DOMAIN files : n \in Nat /\ n < l
        /\ l \in Nat
    BY <1>1, AppendParts
  <1>4. InLine(f, files, q, d, t)
    BY <1>1, LineTail
  <1>5. AllSound(f, g, q, d, t)
    BY <1>2, <1>3, <1>4 DEF InLine, AllSound
  <1>6. \A n \in DOMAIN q : NoNewer(h, q[n].snapshot)
    BY <1>2 DEF InLine, Line
  <1>7. NoNewer(f, h) /\ NoNewer(h, d) /\ \A n \in DOMAIN files : NoNewer(files[n], h)
    BY <1>2 DEF InLine, Line
  <1>8. Line(f, g, q, d)
    BY <1>3, <1>4, <1>6, <1>7 DEF InLine, Line
  <1> QED
    BY <1>1, <1>5, <1>8 DEF InLine

\* A persist: the store loses entries or none, and its state goes to the end.
LEMMA LinePersist ==
  ASSUME NEW f, NEW files, NEW rows \in Seq(Appends), NEW d \in Seq(Entries), NEW t \in Nat,
         InLine(f, files, rows, d, t),
         NEW e \in Entries, e.saved = t + 1, e.id[2] = 0,
         NEW kept, PartOf(kept, Upsert(d, e)), NEW j, j.snapshot = kept
  PROVE  InLine(f, files, Append(rows, j), kept, t + 1)
  <1>1. PICK q, l : q = Append(rows, j) /\ l = Len(rows) + 1
    OBVIOUS
  <1>2. /\ DOMAIN q = DOMAIN rows \cup {l}
        /\ \A n \in DOMAIN rows : q[n] = rows[n]
        /\ q[l] = j
        /\ \A n \in DOMAIN rows : n \in Nat /\ n < l
        /\ l \in Nat
    BY <1>1, AppendParts
  <1>3. /\ Sound(f, t) /\ Sound(d, t)
        /\ \A n \in DOMAIN files : Sound(files[n], t)
        /\ \A n \in DOMAIN rows : Sound(rows[n].snapshot, t)
    BY DEF InLine, AllSound
  <1>4. \A s : Sound(s, t) => Sound(s, t + 1)
    BY SoundLater
  <1>5. Sound(kept, t + 1)
    <2>1. Sound(Upsert(d, e), t + 1)
      BY <1>3, UpsertKeeps
    <2> QED
      BY <2>1, PartKeeps
  <1>6. \A u : (Sound(u, t) /\ NoNewer(u, d)) => NoNewer(u, kept)
    <2>1. \A u : (Sound(u, t) /\ NoNewer(u, d)) => NoNewer(u, Upsert(d, e))
      BY <1>3, UpsertKeeps
    <2> QED
      BY <2>1, PartKeeps
  <1>7. NoNewer(kept, kept)
    BY <1>5, SoundSelf
  <1>8. AllSound(f, files, q, kept, t + 1)
    BY <1>2, <1>3, <1>4, <1>5 DEF AllSound
  <1>9. /\ NoNewer(f, kept) /\ \A n \in DOMAIN files : NoNewer(files[n], kept)
        /\ \A n \in DOMAIN rows : NoNewer(rows[n].snapshot, kept)
    BY <1>3, <1>6 DEF InLine, Line
  <1>10. Line(f, files, q, kept)
    BY <1>2, <1>7, <1>9 DEF InLine, Line
  <1> QED
    BY <1>1, <1>8, <1>10 DEF InLine

\* A renaming shows in every snapshot but the file's.
LEMMA LineRenamed ==
  ASSUME NEW f \in Seq(Entries), NEW files \in Seq(Seq(Entries)), NEW rows \in Seq(Appends),
         NEW d \in Seq(Entries), NEW t \in Nat, InLine(f, files, rows, d, t), NEW e \in Entries
  PROVE  InLine(f, [k \in DOMAIN files |-> Renamed(files[k], e)],
                [k \in DOMAIN rows |-> [rows[k] EXCEPT !.snapshot = Renamed(@, e)]],
                Renamed(d, e), t)
  <1>1. PICK g, q : /\ g = [k \in DOMAIN files |-> Renamed(files[k], e)]
                    /\ q = [k \in DOMAIN rows |-> [rows[k] EXCEPT !.snapshot = Renamed(@, e)]]
    OBVIOUS
  <1>2. DOMAIN g = DOMAIN files /\ \A n \in DOMAIN files : g[n] = Renamed(files[n], e)
    BY <1>1
  <1>3. DOMAIN q = DOMAIN rows /\ \A n \in DOMAIN rows : q[n].snapshot = Renamed(rows[n].snapshot, e)
    <2>1. \A n \in DOMAIN rows : rows[n] \in Appends
      BY SeqIs
    <2>2. \A j \in Appends : \A x : [j EXCEPT !.snapshot = x].snapshot = x
      BY DEF Appends
    <2> QED
      BY <1>1, <2>1, <2>2
  <1>4. /\ \A n \in DOMAIN files : files[n] \in Seq(Entries)
        /\ \A n \in DOMAIN rows : rows[n].snapshot \in Seq(Entries)
    BY SeqIs, JobFields
  <1>5. /\ Sound(f, t) /\ Sound(d, t)
        /\ \A n \in DOMAIN files : Sound(files[n], t)
        /\ \A n \in DOMAIN rows : Sound(rows[n].snapshot, t)
    BY DEF InLine, AllSound
  <1>6. \A s \in Seq(Entries) : Sound(s, t) => Sound(Renamed(s, e), t)
    BY RenamedSound
  <1>7. \A s, u \in Seq(Entries) :
          (Sound(s, t) /\ Sound(u, t) /\ NoNewer(s, u)) =>
             NoNewer(Renamed(s, e), Renamed(u, e)) /\ NoNewer(s, Renamed(u, e))
    BY RenamedNoNewer
  <1>8. AllSound(f, g, q, Renamed(d, e), t)
    BY <1>2, <1>3, <1>4, <1>5, <1>6 DEF AllSound
  <1>9. Line(f, files, rows, d)
    BY DEF InLine
  <1>10. Line(f, g, q, Renamed(d, e))
    <2>1. NoNewer(f, Renamed(d, e))
      BY <1>5, <1>7, <1>9 DEF Line
    <2>2. \A n \in DOMAIN g : NoNewer(f, g[n]) /\ NoNewer(g[n], Renamed(d, e))
      BY <1>2, <1>4, <1>5, <1>7, <1>9 DEF Line
    <2>3. \A n \in DOMAIN q : NoNewer(f, q[n].snapshot) /\ NoNewer(q[n].snapshot, Renamed(d, e))
      BY <1>3, <1>4, <1>5, <1>7, <1>9 DEF Line
    <2>4. \A m, n \in DOMAIN g : m < n => NoNewer(g[m], g[n])
      BY <1>2, <1>4, <1>5, <1>7, <1>9 DEF Line
    <2>5. \A m, n \in DOMAIN q : m < n => NoNewer(q[m].snapshot, q[n].snapshot)
      BY <1>3, <1>4, <1>5, <1>7, <1>9 DEF Line
    <2>6. \A m \in DOMAIN g, n \in DOMAIN q : NoNewer(g[m], q[n].snapshot)
      BY <1>2, <1>3, <1>4, <1>5, <1>7, <1>9 DEF Line
    <2> QED
      BY <2>1, <2>2, <2>3, <2>4, <2>5, <2>6 DEF Line
  <1> QED
    BY <1>1, <1>8, <1>10 DEF InLine

\* A file that could not be read is not written to, and a controller that is down
\* has nothing to write.
Quiet(rows) == \A n \in DOMAIN rows : rows[n].then # "write"
Latched ==
  /\ damaged => (fileQueue = <<>> /\ Quiet(rowQueue) /\ (up => latched))
  /\ ~up => (rowQueue = <<>> /\ fileQueue = <<>> /\ detail = <<>>)

FileInv == TypeOK /\ InLine(file, fileQueue, rowQueue, detail, now) /\ Latched

LEMMA QuietQueue ==
  ASSUME NEW rows \in Seq(Appends), Quiet(rows)
  PROVE  /\ rows # <<>> => Head(rows).then # "write" /\ Quiet(Tail(rows))
         /\ \A j : j.then # "write" => Quiet(Append(rows, j))
  <1>1. ASSUME rows # <<>> PROVE Head(rows).then # "write" /\ Quiet(Tail(rows))
    BY <1>1, TailParts DEF Quiet
  <1>2. ASSUME NEW j, j.then # "write" PROVE Quiet(Append(rows, j))
    <2>1. PICK q, l : q = Append(rows, j) /\ l = Len(rows) + 1
      OBVIOUS
    <2>2. /\ DOMAIN q = DOMAIN rows \cup {l} /\ q[l] = j
          /\ \A n \in DOMAIN rows : q[n] = rows[n]
      BY <2>1, AppendParts
    <2> QED
      BY <1>2, <2>1, <2>2 DEF Quiet
  <1> QED
    BY <1>1, <1>2

LEMMA FileInit == Init => FileInv
  <1> SUFFICES ASSUME Init PROVE FileInv
    OBVIOUS
  <1>1. TypeOK
    BY TypeInit
  <1>2. detail = <<>> /\ rowQueue = <<>> /\ fileQueue = <<>> /\ now = 1
        /\ DOMAIN rowQueue = {} /\ DOMAIN fileQueue = {} /\ damaged = FALSE
    BY EmptyIsSeq DEF Init
  <1>3. Sound(file, 1)
    <2>1. CASE file = <<>>
      BY <2>1, SoundEmpty
    <2>2. CASE file # <<>>
      <3>1. file \in {<<[id |-> Live(i), started |-> 1, saved |-> 1, status |-> s]>> :
                        i \in Ids, s \in {"completed", "failed"}}
        BY <2>2 DEF Init
      <3>2. PICK i \in Ids : \E s \in {"completed", "failed"} :
               file = <<[id |-> Live(i), started |-> 1, saved |-> 1, status |-> s]>>
        BY <3>1
      <3>3. PICK e : file = <<e>> /\ e.saved = 1 /\ e.id[2] = 0
        BY <3>2 DEF Live
      <3>4. DOMAIN file = {1} /\ file[1] = e
        BY <3>3
      <3> QED
        BY <3>3, <3>4 DEF Sound
    <2> QED
      BY <2>1, <2>2
  <1>4. InLine(file, fileQueue, rowQueue, detail, now)
    BY <1>2, <1>3, SoundEmpty DEF InLine, AllSound, Line
  <1> QED
    BY <1>1, <1>2, <1>4 DEF FileInv, Latched

\* What opens an operation writes no detail.
LEMMA OpenedLine ==
  ASSUME NEW f, NEW files, NEW queue \in Seq(Appends), NEW d, NEW t,
         InLine(f, files, queue, d, t), NEW i, NEW started, Opened(i, started, queue)
  PROVE  InLine(f, files, rowQueue', d, t) /\ (Quiet(queue) => Quiet(rowQueue'))
  <1>1. PICK j : rowQueue' = Append(queue, j) /\ j.then = "none" /\ j.snapshot = <<>>
    BY DEF Opened
  <1> QED
    BY <1>1, LineEmptyJob, QuietQueue

LEMMA ContinueLine ==
  ASSUME TypeOK, InLine(file, fileQueue, rowQueue, detail, now),
         rowQueue # <<>>, Continue(Head(rowQueue))
  PROVE  /\ InLine(file, fileQueue', rowQueue', detail, now)
         /\ Quiet(rowQueue) => (fileQueue' = fileQueue /\ Quiet(rowQueue'))
  <1>1. rowQueue \in Seq(Appends) /\ fileQueue \in Seq(Seq(Entries))
    BY DEF TypeOK
  <1>2. PICK job, rest : job = Head(rowQueue) /\ rest = Tail(rowQueue)
    OBVIOUS
  <1>3. rest \in Seq(Appends) /\ job.then \in {"none", "open", "write"}
    BY <1>1, <1>2, HeadTypes, JobFields
  <1>4. \/ rowQueue' = rest /\ fileQueue' = fileQueue
        \/ Opened(job.row.id[1], job.started, rest) /\ fileQueue' = fileQueue
        \/ /\ rowQueue' = rest /\ fileQueue' = Append(fileQueue, job.snapshot)
           /\ job.then = "write"
    BY <1>2, <1>3 DEF Continue
  <1>5. /\ InLine(file, fileQueue, rest, detail, now)
        /\ InLine(file, Append(fileQueue, job.snapshot), rest, detail, now)
    BY <1>1, <1>2, LineTail, LineMove
  <1>6. Quiet(rowQueue) => (Quiet(rest) /\ job.then # "write")
    BY <1>1, <1>2, QuietQueue
  <1> QED
    BY <1>3, <1>4, <1>5, <1>6, OpenedLine

LEMMA FileStep == FileInv /\ [Next]_vars => FileInv'
  <1> SUFFICES ASSUME FileInv, [Next]_vars
               PROVE  FileInv'
    OBVIOUS
  <1> DEFINE L == InLine(file, fileQueue, rowQueue, detail, now)
  <1>1. TypeOK /\ TypeOK' /\ L /\ Latched
    BY TypeStep DEF FileInv
  <1>2. /\ detail \in Seq(Entries) /\ rowQueue \in Seq(Appends) /\ now \in Nat
        /\ fileQueue \in Seq(Seq(Entries)) /\ file \in Seq(Entries)
    BY <1>1 DEF TypeOK
  <1> SUFFICES L' /\ Latched'
    BY <1>1 DEF FileInv
  <1>3. \A f, files, rows, d : InLine(f, files, rows, d, now) => InLine(f, files, rows, d, now + 1)
    BY <1>2, SoundLater DEF InLine, AllSound
  <1>4. ASSUME UNCHANGED <<file, fileQueue, rowQueue, detail, now, damaged, up, latched>>
        PROVE  L' /\ Latched'
    BY <1>1, <1>4 DEF Latched
  <1>5. ASSUME NEW i \in Ids, Begin(i) PROVE L' /\ Latched'
    <2> DEFINE n == Position(detail, Live(i))
               entry == detail[n]
    <2>1. up /\ now' = now + 1 /\ UNCHANGED <<up, file, damaged, latched>>
      BY <1>5 DEF Begin, disk
    <2>2. CASE n = 0
      <3>1. Opened(i, now', rowQueue) /\ UNCHANGED <<detail, fileQueue>>
        BY <1>5, <2>2 DEF Begin
      <3>2. /\ InLine(file, fileQueue, rowQueue', detail, now)
            /\ Quiet(rowQueue) => Quiet(rowQueue')
        BY <1>1, <1>2, <3>1, OpenedLine
      <3>3. L'
        BY <1>3, <2>1, <3>1, <3>2
      <3> QED
        BY <1>1, <2>1, <3>1, <3>2, <3>3 DEF Latched
    <2>3. CASE n # 0
      <3> DEFINE row == AuditRow(Archival(i, entry.saved), "terminal", entry, entry.saved)
                 waiting == [k \in DOMAIN rowQueue |->
                               [rowQueue[k] EXCEPT !.snapshot = Renamed(@, entry)]]
                 files == [k \in DOMAIN fileQueue |-> Renamed(fileQueue[k], entry)]
      <3>1. entry \in Entries
        <4>1. IsSeq(detail) /\ \A k \in DOMAIN detail : detail[k] \in Entries
          BY <1>2, ElementsSeq, SeqIs
        <4>2. n \in DOMAIN detail
          BY <2>3, <4>1, PositionOf
        <4> HIDE DEF n
        <4> QED
          BY <4>1, <4>2
      <3>2. /\ detail' = Renamed(detail, entry) /\ fileQueue' = files
            /\ rowQueue' = Append(waiting, [row |-> row, then |-> "open", started |-> now',
                                            snapshot |-> <<>>])
        BY <1>5, <2>3 DEF Begin
      <3> HIDE DEF entry, row
      <3>3. waiting \in Seq(Appends)
        BY <1>2, <3>1, RenamedQueueTypes
      <3>4. InLine(file, files, waiting, Renamed(detail, entry), now)
        BY <1>1, <1>2, <3>1, LineRenamed
      <3>5. Quiet(rowQueue) => Quiet(waiting)
        <4>1. \A k \in DOMAIN rowQueue : rowQueue[k] \in Appends
          BY <1>2, SeqIs
        <4>2. \A j \in Appends : \A x : [j EXCEPT !.snapshot = x].then = j.then
          BY DEF Appends
        <4> QED
          BY <4>1, <4>2 DEF Quiet
      <3>6. fileQueue = <<>> => files = <<>>
        <4>1. ASSUME fileQueue = <<>> PROVE files = <<>>
          <5>1. DOMAIN fileQueue = {}
            BY <4>1, EmptyIsSeq
          <5>2. files \in Seq(Seq(Entries)) /\ DOMAIN files = {}
            BY <1>2, <3>1, <5>1, RenamedQueueTypes
          <5> HIDE DEF files
          <5>3. Len(files) \in Nat /\ 1..Len(files) = {}
            BY <5>2, LenProperties
          <5> QED
            BY <5>2, <5>3, EmptySeq
        <4> QED
          BY <4>1
      <3>7. PICK j : /\ rowQueue' = Append(waiting, j) /\ j.snapshot = <<>> /\ j.then = "open"
        <4>1. PICK j : j = [row |-> row, then |-> "open", started |-> now', snapshot |-> <<>>]
          OBVIOUS
        <4>2. rowQueue' = Append(waiting, j)
          BY <3>2, <4>1
        <4>3. j.snapshot = <<>> /\ j.then = "open"
          BY <4>1
        <4> QED
          BY <4>2, <4>3
      <3> HIDE DEF waiting, files
      <3>8. InLine(file, files, rowQueue', detail', now)
        BY <3>2, <3>3, <3>4, <3>7, LineEmptyJob
      <3>9. Quiet(rowQueue) => Quiet(rowQueue')
        BY <3>3, <3>5, <3>7, QuietQueue
      <3>10. L'
        BY <1>3, <2>1, <3>2, <3>8
      <3>11. Latched'
        BY <1>1, <2>1, <3>2, <3>6, <3>9 DEF Latched
      <3> QED
        BY <3>10, <3>11
    <2> QED
      BY <2>2, <2>3
  <1>6. ASSUME NEW i \in Ids, NEW s \in Statuses, Settle(i, s) PROVE L' /\ Latched'
    BY <1>4, <1>6 DEF Settle, disk
  <1>7. ASSUME NEW i \in Ids, NEW stored \in SUBSET Ids, Persist(i, stored)
        PROVE  L' /\ Latched'
    <2> DEFINE entry == [id |-> Live(i), started |-> active[i].started, saved |-> now',
                         status |-> active[i].status]
               all   == Upsert(detail, entry)
               kept  == Retained(all, Pinned(all, stored))
    <2>1. /\ up /\ ~latched /\ now' = now + 1 /\ UNCHANGED <<up, file, damaged, latched, fileQueue>>
          /\ i \in DOMAIN active
      BY <1>7 DEF Persist, disk
    <2>2. /\ detail' = kept
          /\ \E j : rowQueue' = Append(rowQueue, j) /\ j.snapshot = kept
      BY <1>7 DEF Persist, Enqueue
    <2>3. entry \in Entries /\ entry.saved = now + 1 /\ entry.id[2] = 0
      BY <1>1, <1>2, <2>1 DEF TypeOK, Ops, Live, Names, Entries
    <2> HIDE DEF entry
    <2>4. PartOf(kept, Upsert(detail, entry))
      BY <1>2, <2>3, UpsertType, RetainedIsPart
    <2> HIDE DEF kept
    <2>5. L'
      BY <1>1, <1>2, <2>1, <2>2, <2>3, <2>4, LinePersist
    <2>6. Latched'
      BY <1>1, <2>1 DEF Latched
    <2> QED
      BY <2>5, <2>6
  <1>8. CASE PruneActive
    BY <1>4, <1>8 DEF PruneActive, disk
  <1>9. ASSUME up, rowQueue # <<>>, Continue(Head(rowQueue)),
               UNCHANGED <<up, now, detail, latched, file, damaged>>
        PROVE  L' /\ Latched'
    <2>1. /\ InLine(file, fileQueue', rowQueue', detail, now)
          /\ Quiet(rowQueue) => (fileQueue' = fileQueue /\ Quiet(rowQueue'))
      BY <1>1, <1>9, ContinueLine
    <2> QED
      BY <1>1, <1>9, <2>1 DEF Latched
  <1>10. CASE AppendRow
    BY <1>9, <1>10 DEF AppendRow
  <1>11. CASE AppendFails
    BY <1>9, <1>11 DEF AppendFails
  <1>12. CASE WriteDetails \/ WriteFails
    <2>1. /\ up /\ fileQueue # <<>> /\ fileQueue' = Tail(fileQueue)
          /\ file' = Head(fileQueue) \/ file' = file
          /\ UNCHANGED <<up, now, detail, latched, rowQueue>>
      BY <1>12 DEF WriteDetails, WriteFails, disk
    <2>2. damaged' = FALSE
      BY <1>1, <1>12, <2>1 DEF WriteDetails, WriteFails, disk, Latched, TypeOK
    <2>3. /\ InLine(file, Tail(fileQueue), rowQueue, detail, now)
          /\ InLine(Head(fileQueue), Tail(fileQueue), rowQueue, detail, now)
      BY <1>1, <1>2, <2>1, LineDrop
    <2>4. L'
      BY <2>1, <2>3
    <2> QED
      BY <2>1, <2>2, <2>4 DEF Latched
  <1>13. CASE Crash
    <2>1. /\ detail' = <<>> /\ rowQueue' = <<>> /\ fileQueue' = <<>>
          /\ UNCHANGED <<now, file, damaged>> /\ up' = FALSE
          /\ DOMAIN rowQueue' = {} /\ DOMAIN fileQueue' = {}
      BY <1>13, EmptyIsSeq DEF Crash
    <2>2. Sound(file, now)
      BY <1>1 DEF InLine, AllSound
    <2>3. L'
      BY <2>1, <2>2, SoundEmpty DEF InLine, AllSound, Line
    <2>4. Quiet(rowQueue')
      BY <2>1 DEF Quiet
    <2> QED
      BY <2>1, <2>3, <2>4 DEF Latched
  <1>14. CASE Boot
    <2>1. /\ ~up /\ up' = TRUE /\ latched' = damaged
          /\ detail' = IF damaged THEN <<>> ELSE file
          /\ UNCHANGED <<now, rowQueue, fileQueue, file, damaged>>
      BY <1>14 DEF Boot, LoadTransactionLogs
    <2>2. /\ rowQueue = <<>> /\ fileQueue = <<>>
          /\ DOMAIN rowQueue = {} /\ DOMAIN fileQueue = {}
      BY <1>1, <2>1, EmptyIsSeq DEF Latched
    <2>3. Sound(file, now) /\ NoNewer(file, file)
      BY <1>1, <1>2, SoundSelf DEF InLine, AllSound
    <2>4. Sound(detail', now) /\ NoNewer(file, detail')
      BY <2>1, <2>3, SoundEmpty
    <2>5. L'
      BY <2>1, <2>2, <2>3, <2>4 DEF InLine, AllSound, Line
    <2>6. Quiet(rowQueue)
      BY <2>2 DEF Quiet
    <2> QED
      BY <2>1, <2>2, <2>5, <2>6 DEF Latched
  <1>15. CASE Damage \/ Repair
    <2>1. ~up /\ UNCHANGED <<up, now, memory, file>>
      BY <1>15 DEF Damage, Repair
    <2>2. rowQueue = <<>> /\ fileQueue = <<>> /\ detail = <<>> /\ DOMAIN rowQueue = {}
      BY <1>1, <2>1, EmptyIsSeq DEF Latched
    <2>3. L'
      BY <1>1, <2>1 DEF memory
    <2>4. Quiet(rowQueue)
      BY <2>2 DEF Quiet
    <2> QED
      BY <2>1, <2>2, <2>3, <2>4 DEF Latched, memory
  <1>16. CASE UNCHANGED vars
    BY <1>4, <1>16 DEF vars, memory, disk
  <1> QED
    BY <1>5, <1>6, <1>7, <1>8, <1>10, <1>11, <1>12, <1>13, <1>14, <1>15, <1>16 DEF Next

NeverRegresses ==
  /\ \A e \in Elements(file), f \in Elements(file') :
       e.id = f.id /\ e.started = f.started => f.saved >= e.saved
  /\ damaged => file' = file

LEMMA FileAction == FileInv /\ [Next]_vars => [NeverRegresses]_vars
  <1> SUFFICES ASSUME FileInv, Next PROVE NeverRegresses
    BY DEF NeverRegresses
  <1>1. TypeOK /\ InLine(file, fileQueue, rowQueue, detail, now) /\ Latched
    BY DEF FileInv
  <1>2. now \in Nat /\ fileQueue \in Seq(Seq(Entries))
    BY <1>1 DEF TypeOK
  <1>3. /\ NoNewer(file, file)
        /\ fileQueue # <<>> => NoNewer(file, Head(fileQueue))
    <2>1. NoNewer(file, file)
      BY <1>1, <1>2, SoundSelf DEF InLine, AllSound
    <2>2. ASSUME fileQueue # <<>> PROVE NoNewer(file, Head(fileQueue))
      BY <1>1, <1>2, <2>2, TailParts DEF InLine, Line
    <2> QED
      BY <2>1, <2>2
  <1>4. file' = file \/ WriteDetails
    BY DEF Next, Begin, Settle, Persist, PruneActive, AppendRow, AppendFails, WriteFails, Crash,
           Boot, Damage, Repair, disk
  <1>5. CASE file' = file
    BY <1>3, <1>5 DEF NeverRegresses, NoNewer, Elements
  <1>6. CASE WriteDetails
    <2>1. fileQueue # <<>> /\ file' = Head(fileQueue) /\ ~damaged
      BY <1>1, <1>6 DEF WriteDetails, Latched
    <2> QED
      BY <1>3, <2>1 DEF NeverRegresses, NoNewer, Elements
  <1> QED
    BY <1>4, <1>5, <1>6

\* The detail file never goes back to an older state of an entry, for any number of
\* persists that wait, ids that are used again meanwhile, failed writes and crashes;
\* and a file that could not be read is left as it is until it is repaired.
THEOREM FileGoesForward == Spec => FileNeverRegresses
  <1>1. Spec => [][NeverRegresses]_vars
    BY FileInit, FileStep, FileAction, PTL DEF Spec
  <1> QED
    BY <1>1 DEF FileNeverRegresses, NeverRegresses

-----------------------------------------------------------------------------
(* The ledger row before the detail.  Along the same line, an entry that a      *)
(* snapshot adds to those before it has its verdict in the ledger, or a row     *)
(* that gets there before the snapshot gets to the file.                        *)

Covers(r, e) == r.kind = "terminal" /\ r.started = e.started /\ r.saved >= e.saved
Covered(lost, rows, e) ==
  \/ e.started \in lost
  \/ \E k \in DOMAIN rows : Covers(rows[k], e)

\* The state of the entry is in the snapshot, whatever its name there.
Has(s, e) == \E k \in DOMAIN s : s[k].started = e.started /\ s[k].saved = e.saved

Writes(j) == j.then = "write"

\* The state is in the file and in all that is written before the n-th snapshot,
\* or before that of the n-th row.
InFiles(f, files, n, e) == Has(f, e) /\ \A m \in DOMAIN files : m < n => Has(files[m], e)
InRows(f, files, rows, n, e) ==
  /\ Has(f, e) /\ \A m \in DOMAIN files : Has(files[m], e)
  /\ \A m \in DOMAIN rows : (m < n /\ Writes(rows[m])) => Has(rows[m].snapshot, e)
Pending(rows, n, e) == \E m \in DOMAIN rows : m <= n /\ Covers(rows[m].row, e)

FilesTold(f, files, lost, seen) ==
  \A n \in DOMAIN files : \A a \in DOMAIN files[n] :
    Covered(lost, seen, files[n][a]) \/ InFiles(f, files, n, files[n][a])
EntryTold(f, files, rows, n, lost, seen, e) ==
  Covered(lost, seen, e) \/ Pending(rows, n, e) \/ InRows(f, files, rows, n, e)
RowsTold(f, files, rows, lost, seen) ==
  \A n \in DOMAIN rows : Writes(rows[n]) =>
    \A a \in DOMAIN rows[n].snapshot :
      EntryTold(f, files, rows, n, lost, seen, rows[n].snapshot[a])
StoreTold(f, files, rows, d, lost, seen) ==
  \A a \in DOMAIN d : EntryTold(f, files, rows, Len(rows) + 1, lost, seen, d[a])

Told(f, files, rows, d, lost, seen) ==
  /\ FilesTold(f, files, lost, seen) /\ RowsTold(f, files, rows, lost, seen)
  /\ StoreTold(f, files, rows, d, lost, seen)

\* A job that writes no detail, appended.
LEMMA ToldQuietJob ==
  ASSUME NEW f, NEW files, NEW rows \in Seq(Appends), NEW d, NEW lost, NEW seen,
         Told(f, files, rows, d, lost, seen), NEW j, ~Writes(j)
  PROVE  Told(f, files, Append(rows, j), d, lost, seen)
  <1>1. PICK q, l : q = Append(rows, j) /\ l = Len(rows) + 1
    OBVIOUS
  <1>2. /\ DOMAIN q = DOMAIN rows \cup {l} /\ l \in Nat
        /\ \A n \in DOMAIN rows : q[n] = rows[n] /\ n \in Nat /\ n < l
        /\ q[l] = j
    BY <1>1, AppendParts
  <1>3. Len(q) = l
    BY <1>1, AppendProperties
  <1>4. ASSUME NEW n \in Nat, n <= l, NEW e, EntryTold(f, files, rows, n, lost, seen, e)
        PROVE  /\ EntryTold(f, files, q, n, lost, seen, e)
               /\ n = l => EntryTold(f, files, q, l + 1, lost, seen, e)
    <2>1. Pending(rows, n, e) => (Pending(q, n, e) /\ (n = l => Pending(q, l + 1, e)))
      BY <1>2 DEF Pending
    <2>2. InRows(f, files, rows, n, e) =>
            InRows(f, files, q, n, e) /\ (n = l => InRows(f, files, q, l + 1, e))
      BY <1>2 DEF InRows
    <2> QED
      BY <1>4, <2>1, <2>2 DEF EntryTold
  <1>5. RowsTold(f, files, q, lost, seen)
    <2> SUFFICES ASSUME NEW n \in DOMAIN q, Writes(q[n]), NEW a \in DOMAIN q[n].snapshot
                 PROVE  EntryTold(f, files, q, n, lost, seen, q[n].snapshot[a])
      BY DEF RowsTold
    <2>1. n \in DOMAIN rows
      BY <1>2
    <2>2. EntryTold(f, files, rows, n, lost, seen, q[n].snapshot[a])
      BY <1>2, <2>1 DEF Told, RowsTold
    <2> QED
      BY <1>2, <1>4, <2>1, <2>2
  <1>6. StoreTold(f, files, q, d, lost, seen)
    <2> SUFFICES ASSUME NEW a \in DOMAIN d
                 PROVE  EntryTold(f, files, q, l + 1, lost, seen, d[a])
      BY <1>3 DEF StoreTold
    <2>1. EntryTold(f, files, rows, l, lost, seen, d[a])
      BY <1>1 DEF Told, StoreTold
    <2> QED
      BY <1>2, <1>4, <2>1
  <1> QED
    BY <1>1, <1>5, <1>6 DEF Told

\* A persist: what is kept of the store is of the store, or has its row in the job.
LEMMA ToldPersist ==
  ASSUME NEW f, NEW files, NEW rows \in Seq(Appends), NEW d, NEW lost, NEW seen,
         Told(f, files, rows, d, lost, seen), NEW j,
         \A a \in DOMAIN j.snapshot :
           Covers(j.row, j.snapshot[a]) \/ \E b \in DOMAIN d : j.snapshot[a] = d[b]
  PROVE  Told(f, files, Append(rows, j), j.snapshot, lost, seen)
  <1>1. PICK q, l : q = Append(rows, j) /\ l = Len(rows) + 1
    OBVIOUS
  <1>2. /\ DOMAIN q = DOMAIN rows \cup {l} /\ l \in Nat
        /\ \A n \in DOMAIN rows : q[n] = rows[n] /\ n \in Nat /\ n < l
        /\ q[l] = j
    BY <1>1, AppendParts
  <1>3. Len(q) = l
    BY <1>1, AppendProperties
  <1>4. ASSUME NEW n \in Nat, n <= l, NEW e, EntryTold(f, files, rows, n, lost, seen, e)
        PROVE  EntryTold(f, files, q, n, lost, seen, e)
    <2>1. Pending(rows, n, e) => Pending(q, n, e)
      BY <1>2 DEF Pending
    <2>2. InRows(f, files, rows, n, e) => InRows(f, files, q, n, e)
      BY <1>2, <1>4 DEF InRows
    <2> QED
      BY <1>4, <2>1, <2>2 DEF EntryTold
  <1>5. ASSUME NEW a \in DOMAIN j.snapshot
        PROVE  /\ EntryTold(f, files, q, l, lost, seen, j.snapshot[a])
               /\ EntryTold(f, files, q, l + 1, lost, seen, j.snapshot[a])
    <2>1. CASE Covers(j.row, j.snapshot[a])
      <3>1. Pending(q, l, j.snapshot[a]) /\ Pending(q, l + 1, j.snapshot[a])
        BY <1>2, <2>1 DEF Pending
      <3> QED
        BY <3>1 DEF EntryTold
    <2>2. CASE \E b \in DOMAIN d : j.snapshot[a] = d[b]
      <3>1. PICK e : e = j.snapshot[a]
        OBVIOUS
      <3>2. EntryTold(f, files, rows, l, lost, seen, e)
        BY <1>1, <2>2, <3>1 DEF Told, StoreTold
      <3>3. EntryTold(f, files, q, l, lost, seen, e)
        BY <1>2, <1>4, <3>2
      <3>4. Pending(q, l, e) => Pending(q, l + 1, e)
        BY <1>2 DEF Pending
      <3>5. InRows(f, files, q, l, e) => InRows(f, files, q, l + 1, e)
        <4>1. Has(j.snapshot, e)
          BY <3>1 DEF Has
        <4> QED
          BY <1>2, <4>1 DEF InRows
      <3> QED
        BY <3>1, <3>3, <3>4, <3>5 DEF EntryTold
    <2> QED
      BY <2>1, <2>2
  <1>6. RowsTold(f, files, q, lost, seen)
    <2> SUFFICES ASSUME NEW n \in DOMAIN q, Writes(q[n]), NEW a \in DOMAIN q[n].snapshot
                 PROVE  EntryTold(f, files, q, n, lost, seen, q[n].snapshot[a])
      BY DEF RowsTold
    <2>1. CASE n = l
      BY <1>2, <1>5, <2>1
    <2>2. CASE n # l
      <3>1. n \in DOMAIN rows
        BY <1>2, <2>2
      <3>2. EntryTold(f, files, rows, n, lost, seen, q[n].snapshot[a])
        BY <1>2, <3>1 DEF Told, RowsTold
      <3> QED
        BY <1>2, <1>4, <3>1, <3>2
    <2> QED
      BY <2>1, <2>2
  <1>7. StoreTold(f, files, q, j.snapshot, lost, seen)
    BY <1>3, <1>5 DEF StoreTold
  <1> QED
    BY <1>1, <1>6, <1>7 DEF Told

\* The first row is in the ledger, or given up.
LEMMA ToldTail ==
  ASSUME NEW f, NEW files \in Seq(Seq(Entries)), NEW rows \in Seq(Appends), NEW d,
         NEW lost, NEW seen, Told(f, files, rows, d, lost, seen), rows # <<>>,
         NEW gone, NEW known2, \A e : Covered(lost, seen, e) => Covered(gone, known2, e),
         \A e : Covers(Head(rows).row, e) => Covered(gone, known2, e)
  PROVE  /\ Told(f, files, Tail(rows), d, gone, known2)
         /\ Writes(Head(rows)) =>
              Told(f, Append(files, Head(rows).snapshot), Tail(rows), d, gone, known2)
  <1>1. PICK q, h, g, l : /\ q = Tail(rows) /\ h = Head(rows)
                          /\ g = Append(files, h.snapshot) /\ l = Len(files) + 1
    OBVIOUS
  <1>2. /\ h = rows[1] /\ 1 \in DOMAIN rows
        /\ \A n \in DOMAIN q : n \in Nat /\ 1 < n + 1 /\ n + 1 \in DOMAIN rows /\ q[n] = rows[n + 1]
    BY <1>1, TailParts
  <1>3. \A n \in DOMAIN rows : n \in Nat /\ (n = 1 \/ (n - 1 \in DOMAIN q /\ q[n - 1] = rows[n]))
    <2>1. /\ Len(rows) \in Nat /\ DOMAIN rows = 1..Len(rows)
          /\ DOMAIN q = 1..Len(q) /\ Len(q) = Len(rows) - 1
      <3>1. q \in Seq(Appends) /\ Len(q) = Len(rows) - 1
        BY <1>1, HeadTailProperties
      <3> QED
        BY <3>1, LenProperties
    <2>2. \A n \in DOMAIN rows : n # 1 => n - 1 \in DOMAIN q
      BY <2>1
    <2> QED
      BY <1>2, <2>1, <2>2
  <1>4. Len(q) + 1 = Len(rows) /\ Len(rows) \in Nat
    <2>1. Len(q) = Len(rows) - 1 /\ Len(rows) \in Nat
      BY <1>1, HeadTailProperties, LenProperties
    <2> QED
      BY <2>1
  <1>5. /\ DOMAIN g = DOMAIN files \cup {l}
        /\ \A n \in DOMAIN files : g[n] = files[n] /\ n \in Nat /\ n < l
        /\ g[l] = h.snapshot /\ l \in Nat
    BY <1>1, AppendParts
  <1>6. ASSUME NEW n \in Nat, NEW e, EntryTold(f, files, rows, n + 1, lost, seen, e)
        PROVE  /\ EntryTold(f, files, q, n, gone, known2, e)
               /\ (Writes(h) /\ n >= 1) => EntryTold(f, g, q, n, gone, known2, e)
    <2>1. Pending(rows, n + 1, e) => (Covered(gone, known2, e) \/ Pending(q, n, e))
      <3> SUFFICES ASSUME NEW m \in DOMAIN rows, m <= n + 1, Covers(rows[m].row, e)
                   PROVE  Covered(gone, known2, e) \/ Pending(q, n, e)
        BY DEF Pending
      <3>1. CASE m = 1
        BY <1>1, <1>2, <3>1
      <3>2. CASE m # 1
        <4>1. m - 1 \in DOMAIN q /\ q[m - 1] = rows[m] /\ m - 1 <= n
          BY <1>3, <3>2
        <4> QED
          BY <4>1 DEF Pending
      <3> QED
        BY <3>1, <3>2
    <2>2. InRows(f, files, rows, n + 1, e) => InRows(f, files, q, n, e)
      <3> SUFFICES ASSUME InRows(f, files, rows, n + 1, e), NEW m \in DOMAIN q, m < n, Writes(q[m])
                   PROVE  Has(q[m].snapshot, e)
        BY DEF InRows
      <3>1. m + 1 < n + 1 /\ m + 1 \in DOMAIN rows /\ q[m] = rows[m + 1]
        BY <1>2
      <3> QED
        BY <3>1 DEF InRows
    <2>3. (InRows(f, files, rows, n + 1, e) /\ Writes(h) /\ n >= 1) => Has(h.snapshot, e)
      <3>1. n >= 1 => 1 < n + 1
        OBVIOUS
      <3> QED
        BY <1>2, <3>1 DEF InRows
    <2>4. (InRows(f, files, q, n, e) /\ Has(h.snapshot, e)) => InRows(f, g, q, n, e)
      BY <1>5 DEF InRows
    <2>5. Covered(lost, seen, e) => Covered(gone, known2, e)
      OBVIOUS
    <2> QED
      BY <1>6, <2>1, <2>2, <2>3, <2>4, <2>5 DEF EntryTold
  <1>7. FilesTold(f, files, gone, known2)
    <2>1. \A e : Covered(lost, seen, e) => Covered(gone, known2, e)
      OBVIOUS
    <2> QED
      BY <2>1 DEF Told, FilesTold
  <1>8. ASSUME Writes(h) PROVE FilesTold(f, g, gone, known2)
    <2> SUFFICES ASSUME NEW n \in DOMAIN g, NEW a \in DOMAIN g[n]
                 PROVE  Covered(gone, known2, g[n][a]) \/ InFiles(f, g, n, g[n][a])
      BY DEF FilesTold
    <2>1. CASE n = l
      <3>1. PICK e : e = g[n][a]
        OBVIOUS
      <3>2. EntryTold(f, files, rows, 1, lost, seen, e)
        BY <1>2, <1>5, <1>8, <2>1, <3>1 DEF Told, RowsTold
      <3>3. EntryTold(f, files, q, 0, gone, known2, e)
        BY <1>6, <3>2
      <3>4. ~Pending(q, 0, e)
        BY <1>2 DEF Pending
      <3>5. InRows(f, files, q, 0, e) => InFiles(f, g, n, e)
        BY <1>5, <2>1 DEF InRows, InFiles
      <3> QED
        BY <3>1, <3>3, <3>4, <3>5 DEF EntryTold
    <2>2. CASE n # l
      <3>1. n \in DOMAIN files /\ g[n] = files[n] /\ n < l /\ n \in Nat
        BY <1>5, <2>2
      <3>2. PICK e : e = g[n][a]
        OBVIOUS
      <3>3. Covered(gone, known2, e) \/ InFiles(f, files, n, e)
        BY <1>7, <3>1, <3>2 DEF FilesTold
      <3>4. InFiles(f, files, n, e) => InFiles(f, g, n, e)
        BY <1>5, <3>1 DEF InFiles
      <3> QED
        BY <3>2, <3>3, <3>4
    <2> QED
      BY <2>1, <2>2
  <1>9. /\ RowsTold(f, files, q, gone, known2)
        /\ Writes(h) => RowsTold(f, g, q, gone, known2)
    <2> SUFFICES ASSUME NEW n \in DOMAIN q, Writes(q[n]), NEW a \in DOMAIN q[n].snapshot
                 PROVE  /\ EntryTold(f, files, q, n, gone, known2, q[n].snapshot[a])
                        /\ Writes(h) => EntryTold(f, g, q, n, gone, known2, q[n].snapshot[a])
      BY DEF RowsTold
    <2>1. EntryTold(f, files, rows, n + 1, lost, seen, q[n].snapshot[a])
      BY <1>2 DEF Told, RowsTold
    <2>2. n \in Nat /\ n >= 1
      BY <1>2
    <2> QED
      BY <1>6, <2>1, <2>2
  <1>10. /\ StoreTold(f, files, q, d, gone, known2)
         /\ Writes(h) => StoreTold(f, g, q, d, gone, known2)
    <2> SUFFICES ASSUME NEW a \in DOMAIN d
                 PROVE  /\ EntryTold(f, files, q, Len(q) + 1, gone, known2, d[a])
                        /\ Writes(h) => EntryTold(f, g, q, Len(q) + 1, gone, known2, d[a])
      BY DEF StoreTold
    <2>1. PICK n : n = Len(q) + 1
      OBVIOUS
    <2>2. n \in Nat /\ n >= 1 /\ n + 1 = Len(rows) + 1
      <3>1. Len(rows) # 0
        BY EmptySeq
      <3> QED
        BY <1>4, <2>1, <3>1
    <2>3. EntryTold(f, files, rows, n + 1, lost, seen, d[a])
      BY <2>2 DEF Told, StoreTold
    <2> QED
      BY <1>6, <2>1, <2>2, <2>3
  <1> QED
    BY <1>1, <1>7, <1>8, <1>9, <1>10 DEF Told

\* The first snapshot is in the file, or was given up.
LEMMA ToldDrop ==
  ASSUME NEW f, NEW files \in Seq(Seq(Entries)), NEW rows, NEW d, NEW lost, NEW seen,
         Told(f, files, rows, d, lost, seen), files # <<>>
  PROVE  /\ Told(f, Tail(files), rows, d, lost, seen)
         /\ Told(Head(files), Tail(files), rows, d, lost, seen)
  <1>1. PICK q : q = Tail(files)
    OBVIOUS
  <1>2. /\ Head(files) = files[1] /\ 1 \in DOMAIN files
        /\ \A n \in DOMAIN q : n \in Nat /\ 1 < n + 1 /\ n + 1 \in DOMAIN files /\ q[n] = files[n + 1]
    BY <1>1, TailParts
  <1>3. ASSUME NEW g \in {f, files[1]} PROVE Told(g, q, rows, d, lost, seen)
    <2>1. ASSUME NEW n, NEW e, InRows(f, files, rows, n, e)
          PROVE  InRows(g, q, rows, n, e)
      BY <1>2, <2>1 DEF InRows
    <2>2. FilesTold(g, q, lost, seen)
      <3> SUFFICES ASSUME NEW n \in DOMAIN q, NEW a \in DOMAIN q[n]
                   PROVE  Covered(lost, seen, q[n][a]) \/ InFiles(g, q, n, q[n][a])
        BY DEF FilesTold
      <3>1. PICK e : e = q[n][a]
        OBVIOUS
      <3>2. Covered(lost, seen, e) \/ InFiles(f, files, n + 1, e)
        BY <1>2, <3>1 DEF Told, FilesTold
      <3>3. InFiles(f, files, n + 1, e) => InFiles(g, q, n, e)
        <4> SUFFICES ASSUME InFiles(f, files, n + 1, e)
                     PROVE  InFiles(g, q, n, e)
          OBVIOUS
        <4>1. Has(g, e)
          BY <1>2 DEF InFiles
        <4>2. ASSUME NEW m \in DOMAIN q, m < n PROVE Has(q[m], e)
          <5>1. m + 1 < n + 1 /\ m + 1 \in DOMAIN files /\ q[m] = files[m + 1]
            BY <1>2, <4>2
          <5> QED
            BY <5>1 DEF InFiles
        <4> QED
          BY <4>1, <4>2 DEF InFiles
      <3> QED
        BY <3>1, <3>2, <3>3
    <2>3. RowsTold(g, q, rows, lost, seen)
      BY <2>1 DEF Told, RowsTold, EntryTold
    <2>4. StoreTold(g, q, rows, d, lost, seen)
      BY <2>1 DEF Told, StoreTold, EntryTold
    <2> QED
      BY <2>2, <2>3, <2>4 DEF Told
  <1>4. Told(f, q, rows, d, lost, seen) /\ Told(files[1], q, rows, d, lost, seen)
    BY <1>3
  <1> QED
    BY <1>1, <1>2, <1>4

\* A new name is not a new state.
LEMMA ToldRenamed ==
  ASSUME NEW f, NEW files \in Seq(Seq(Entries)), NEW rows \in Seq(Appends),
         NEW d \in Seq(Entries), NEW lost, NEW seen, Told(f, files, rows, d, lost, seen),
         NEW x \in Entries
  PROVE  Told(f, [k \in DOMAIN files |-> Renamed(files[k], x)],
              [k \in DOMAIN rows |-> [rows[k] EXCEPT !.snapshot = Renamed(@, x)]],
              Renamed(d, x), lost, seen)
  <1>1. PICK g, q : /\ g = [k \in DOMAIN files |-> Renamed(files[k], x)]
                    /\ q = [k \in DOMAIN rows |-> [rows[k] EXCEPT !.snapshot = Renamed(@, x)]]
    OBVIOUS
  <1>2. DOMAIN g = DOMAIN files /\ \A n \in DOMAIN files : g[n] = Renamed(files[n], x)
    BY <1>1
  <1>3. /\ DOMAIN q = DOMAIN rows
        /\ \A n \in DOMAIN rows : /\ q[n].snapshot = Renamed(rows[n].snapshot, x)
                                  /\ q[n].row = rows[n].row /\ q[n].then = rows[n].then
    <2>1. \A n \in DOMAIN rows : rows[n] \in Appends
      BY SeqIs
    <2>2. \A j \in Appends : \A y :
            /\ [j EXCEPT !.snapshot = y].snapshot = y
            /\ [j EXCEPT !.snapshot = y].row = j.row /\ [j EXCEPT !.snapshot = y].then = j.then
      BY DEF Appends
    <2> QED
      BY <1>1, <2>1, <2>2
  <1>4. /\ \A n \in DOMAIN files : files[n] \in Seq(Entries)
        /\ \A n \in DOMAIN rows : rows[n].snapshot \in Seq(Entries)
    BY SeqIs, JobFields
  <1>5. Len(q) = Len(rows)
    <2>1. q \in Seq(Appends)
      BY <1>1, RenamedQueueTypes
    <2>2. /\ Len(rows) \in Nat /\ Len(q) \in Nat /\ 1..Len(rows) = 1..Len(q)
      BY <1>3, <2>1, LenProperties
    <2> QED
      BY <2>2, SameInterval
  <1>6. ASSUME NEW s \in Seq(Entries)
        PROVE  /\ DOMAIN Renamed(s, x) = DOMAIN s
               /\ \A n \in DOMAIN s : /\ Renamed(s, x)[n].saved = s[n].saved
                                      /\ Renamed(s, x)[n].started = s[n].started
               /\ \A e : Has(s, e) => Has(Renamed(s, x), e)
    <2>1. /\ DOMAIN Renamed(s, x) = DOMAIN s
          /\ \A n \in DOMAIN s : /\ Renamed(s, x)[n].saved = s[n].saved
                                 /\ Renamed(s, x)[n].started = s[n].started
      BY RenamedParts
    <2> QED
      BY <2>1 DEF Has
  <1> DEFINE Same(e, y) == e.saved = y.saved /\ e.started = y.started
  <1>7. ASSUME NEW e, NEW y, Same(e, y)
        PROVE  /\ Covered(lost, seen, e) => Covered(lost, seen, y)
               /\ \A n : InFiles(f, files, n, e) => InFiles(f, g, n, y)
               /\ \A n : EntryTold(f, files, rows, n, lost, seen, e)
                           => EntryTold(f, g, q, n, lost, seen, y)
    <2>1. Covered(lost, seen, e) => Covered(lost, seen, y)
      BY <1>7 DEF Covered, Covers
    <2>2. \A s : Has(s, e) => Has(s, y)
      BY <1>7 DEF Has
    <2>3. \A n : InFiles(f, files, n, e) => InFiles(f, g, n, y)
      BY <1>2, <1>4, <1>6, <2>2 DEF InFiles
    <2>4. \A n : Pending(rows, n, e) => Pending(q, n, y)
      BY <1>3, <1>7 DEF Pending, Covers
    <2>5. \A n : InRows(f, files, rows, n, e) => InRows(f, g, q, n, y)
      BY <1>2, <1>3, <1>4, <1>6, <2>2 DEF InRows, Writes
    <2> QED
      BY <2>1, <2>3, <2>4, <2>5 DEF EntryTold
  <1>8. FilesTold(f, g, lost, seen)
    <2> SUFFICES ASSUME NEW n \in DOMAIN g, NEW a \in DOMAIN g[n]
                 PROVE  Covered(lost, seen, g[n][a]) \/ InFiles(f, g, n, g[n][a])
      BY DEF FilesTold
    <2>1. n \in DOMAIN files /\ a \in DOMAIN files[n] /\ Same(files[n][a], g[n][a])
      BY <1>2, <1>4, <1>6
    <2>2. Covered(lost, seen, files[n][a]) \/ InFiles(f, files, n, files[n][a])
      BY <2>1 DEF Told, FilesTold
    <2> HIDE DEF Same
    <2> QED
      BY <1>7, <2>1, <2>2
  <1>9. RowsTold(f, g, q, lost, seen)
    <2> SUFFICES ASSUME NEW n \in DOMAIN q, Writes(q[n]), NEW a \in DOMAIN q[n].snapshot
                 PROVE  EntryTold(f, g, q, n, lost, seen, q[n].snapshot[a])
      BY DEF RowsTold
    <2>1. /\ n \in DOMAIN rows /\ a \in DOMAIN rows[n].snapshot /\ Writes(rows[n])
          /\ Same(rows[n].snapshot[a], q[n].snapshot[a])
      BY <1>3, <1>4, <1>6 DEF Writes
    <2>2. EntryTold(f, files, rows, n, lost, seen, rows[n].snapshot[a])
      BY <2>1 DEF Told, RowsTold
    <2> HIDE DEF Same
    <2> QED
      BY <1>7, <2>1, <2>2
  <1>10. StoreTold(f, g, q, Renamed(d, x), lost, seen)
    <2> SUFFICES ASSUME NEW a \in DOMAIN Renamed(d, x)
                 PROVE  EntryTold(f, g, q, Len(rows) + 1, lost, seen, Renamed(d, x)[a])
      BY <1>5 DEF StoreTold
    <2>1. a \in DOMAIN d /\ Same(d[a], Renamed(d, x)[a])
      BY <1>6
    <2>2. EntryTold(f, files, rows, Len(rows) + 1, lost, seen, d[a])
      BY <2>1 DEF Told, StoreTold
    <2> HIDE DEF Same
    <2> QED
      BY <1>7, <2>1, <2>2
  <1> QED
    BY <1>1, <1>8, <1>9, <1>10 DEF Told

LEMMA ToldMore ==
  ASSUME NEW f, NEW files, NEW rows, NEW d, NEW lost, NEW seen,
         Told(f, files, rows, d, lost, seen),
         NEW gone, NEW known2, \A e : Covered(lost, seen, e) => Covered(gone, known2, e)
  PROVE  Told(f, files, rows, d, gone, known2)
  <1>1. FilesTold(f, files, gone, known2)
    BY DEF Told, FilesTold
  <1>2. \A n, e : EntryTold(f, files, rows, n, lost, seen, e)
                    => EntryTold(f, files, rows, n, gone, known2, e)
    BY DEF EntryTold
  <1>3. RowsTold(f, files, rows, gone, known2) /\ StoreTold(f, files, rows, d, gone, known2)
    BY <1>2 DEF Told, RowsTold, StoreTold
  <1> QED
    BY <1>1, <1>3 DEF Told

\* With nothing under way, what is in the store is in the file.
LEMMA ToldAtRest ==
  ASSUME NEW f, NEW d, NEW lost, NEW seen, d = f \/ d = <<>>
  PROVE  Told(f, <<>>, <<>>, d, lost, seen)
  <1>1. DOMAIN <<>> = {}
    BY EmptyIsSeq
  <1>2. \A a \in DOMAIN d : Has(f, d[a])
    BY <1>1 DEF Has
  <1> QED
    BY <1>1, <1>2 DEF Told, FilesTold, RowsTold, StoreTold, EntryTold, InRows

VerdictInv == FileInv /\ Told(file, fileQueue, rowQueue, detail, excused, known)

LEMMA VerdictInit == Init => VerdictInv
  <1> SUFFICES ASSUME Init PROVE VerdictInv
    OBVIOUS
  <1>1. FileInv
    BY FileInit
  <1>2. detail = <<>> /\ rowQueue = <<>> /\ fileQueue = <<>>
    BY DEF Init
  <1> QED
    BY <1>1, <1>2, ToldAtRest DEF VerdictInv

LEMMA OpenedTold ==
  ASSUME NEW f, NEW files, NEW queue \in Seq(Appends), NEW d, NEW lost, NEW seen,
         Told(f, files, queue, d, lost, seen), NEW i, NEW started, Opened(i, started, queue)
  PROVE  Told(f, files, rowQueue', d, lost, seen)
  <1>1. PICK j : rowQueue' = Append(queue, j) /\ j.then = "none"
    BY DEF Opened
  <1> QED
    BY <1>1, ToldQuietJob DEF Writes

\* An append that is over, done or not: its row counts as recorded or as lost.
LEMMA ContinueTold ==
  ASSUME TypeOK, Told(file, fileQueue, rowQueue, detail, excused, known),
         rowQueue # <<>>, Continue(Head(rowQueue)),
         \A e : Covered(excused, known, e) => Covered(excused', known', e),
         \A e : Covers(Head(rowQueue).row, e) => Covered(excused', known', e)
  PROVE  Told(file, fileQueue', rowQueue', detail, excused', known')
  <1>1. rowQueue \in Seq(Appends) /\ fileQueue \in Seq(Seq(Entries))
    BY DEF TypeOK
  <1>2. PICK job, rest : job = Head(rowQueue) /\ rest = Tail(rowQueue)
    OBVIOUS
  <1>3. rest \in Seq(Appends) /\ job.then \in {"none", "open", "write"}
    BY <1>1, <1>2, HeadTypes, JobFields
  <1>4. \/ rowQueue' = rest /\ fileQueue' = fileQueue
        \/ Opened(job.row.id[1], job.started, rest) /\ fileQueue' = fileQueue
        \/ /\ rowQueue' = rest /\ fileQueue' = Append(fileQueue, job.snapshot)
           /\ Writes(job)
    BY <1>2, <1>3 DEF Continue, Writes
  <1>5. /\ Told(file, fileQueue, rest, detail, excused', known')
        /\ Writes(job) =>
             Told(file, Append(fileQueue, job.snapshot), rest, detail, excused', known')
    BY <1>1, <1>2, ToldTail
  <1> QED
    BY <1>3, <1>4, <1>5, OpenedTold

LEMMA VerdictStep == VerdictInv /\ [Next]_vars => VerdictInv'
  <1> SUFFICES ASSUME VerdictInv, [Next]_vars
               PROVE  VerdictInv'
    OBVIOUS
  <1> DEFINE T == Told(file, fileQueue, rowQueue, detail, excused, known)
  <1>1. FileInv /\ FileInv' /\ T
    BY FileStep DEF VerdictInv
  <1>2. TypeOK /\ Latched /\ InLine(file, fileQueue, rowQueue, detail, now)
    BY <1>1 DEF FileInv
  <1>3. /\ detail \in Seq(Entries) /\ rowQueue \in Seq(Appends) /\ now \in Nat
        /\ fileQueue \in Seq(Seq(Entries)) /\ file \in Seq(Entries) /\ known \in Seq(Rows)
    BY <1>2 DEF TypeOK
  <1> SUFFICES T'
    BY <1>1 DEF VerdictInv
  <1>4. ASSUME UNCHANGED <<file, fileQueue, rowQueue, detail, excused, known>> PROVE T'
    BY <1>1, <1>4
  <1>5. ASSUME NEW i \in Ids, Begin(i) PROVE T'
    <2> DEFINE n == Position(detail, Live(i))
               entry == detail[n]
    <2>1. UNCHANGED <<file, excused, known>>
      BY <1>5 DEF Begin, disk, ghost
    <2>2. CASE n = 0
      <3>1. Opened(i, now', rowQueue) /\ UNCHANGED <<detail, fileQueue>>
        BY <1>5, <2>2 DEF Begin
      <3>2. Told(file, fileQueue, rowQueue', detail, excused, known)
        BY <1>1, <1>3, <3>1, OpenedTold
      <3> QED
        BY <2>1, <3>1, <3>2
    <2>3. CASE n # 0
      <3> DEFINE row == AuditRow(Archival(i, entry.saved), "terminal", entry, entry.saved)
                 waiting == [k \in DOMAIN rowQueue |->
                               [rowQueue[k] EXCEPT !.snapshot = Renamed(@, entry)]]
                 files == [k \in DOMAIN fileQueue |-> Renamed(fileQueue[k], entry)]
      <3>1. entry \in Entries
        <4>1. IsSeq(detail) /\ \A k \in DOMAIN detail : detail[k] \in Entries
          BY <1>3, ElementsSeq, SeqIs
        <4>2. n \in DOMAIN detail
          BY <2>3, <4>1, PositionOf
        <4> HIDE DEF n
        <4> QED
          BY <4>1, <4>2
      <3>2. /\ detail' = Renamed(detail, entry) /\ fileQueue' = files
            /\ rowQueue' = Append(waiting, [row |-> row, then |-> "open", started |-> now',
                                            snapshot |-> <<>>])
        BY <1>5, <2>3 DEF Begin
      <3> HIDE DEF entry, row
      <3>3. waiting \in Seq(Appends)
        BY <1>3, <3>1, RenamedQueueTypes
      <3>4. Told(file, files, waiting, Renamed(detail, entry), excused, known)
        BY <1>1, <1>3, <3>1, ToldRenamed
      <3>5. PICK j : j = [row |-> row, then |-> "open", started |-> now', snapshot |-> <<>>]
        OBVIOUS
      <3>6. rowQueue' = Append(waiting, j)
        BY <3>2, <3>5
      <3>7. ~Writes(j)
        BY <3>5 DEF Writes
      <3> HIDE DEF waiting, files
      <3>8. Told(file, files, rowQueue', Renamed(detail, entry), excused, known)
        BY <3>3, <3>4, <3>6, <3>7, ToldQuietJob
      <3> QED
        BY <2>1, <3>2, <3>8
    <2> QED
      BY <2>2, <2>3
  <1>6. ASSUME NEW i \in Ids, NEW s \in Statuses, Settle(i, s) PROVE T'
    BY <1>4, <1>6 DEF Settle, disk, ghost
  <1>7. ASSUME NEW i \in Ids, NEW stored \in SUBSET Ids, Persist(i, stored)
        PROVE  T'
    <2> DEFINE entry == [id |-> Live(i), started |-> active[i].started, saved |-> now',
                         status |-> active[i].status]
               all   == Upsert(detail, entry)
               kept  == Retained(all, Pinned(all, stored))
               row   == AuditRow(Live(i), "terminal", active[i], now')
    <2>1. /\ now' = now + 1 /\ UNCHANGED <<file, fileQueue, known>>
          /\ i \in DOMAIN active /\ excused \subseteq excused'
      BY <1>7 DEF Persist, disk
    <2>2. /\ detail' = kept
          /\ \E j : rowQueue' = Append(rowQueue, j) /\ j.snapshot = kept /\ j.row = row
      BY <1>7 DEF Persist, Enqueue
    <2>3. entry \in Entries
      BY <1>2, <1>3, <2>1 DEF TypeOK, Ops, Live, Names, Entries
    <2>4. Covers(row, entry)
      <3>1. now' >= now'
        BY <1>3, <2>1
      <3> QED
        BY <3>1 DEF Covers, AuditRow
    <2> HIDE DEF entry, row
    <2>5. PartOf(kept, all)
      BY <1>3, <2>3, UpsertType, RetainedIsPart
    <2>6. \A a \in DOMAIN kept : \E k \in DOMAIN all : kept[a] = all[k]
      BY <2>5, PartKeeps
    <2>7. \A k \in DOMAIN all : all[k] = entry \/ \E b \in DOMAIN detail : all[k] = detail[b]
      <3>1. Sound(detail, now)
        BY <1>2 DEF InLine, AllSound
      <3>2. PICK p \in DOMAIN Upsert(detail, entry) :
              /\ Upsert(detail, entry)[p] = entry
              /\ \A n \in DOMAIN Upsert(detail, entry) \ {p} :
                   /\ n \in DOMAIN detail /\ Upsert(detail, entry)[n] = detail[n]
                   /\ detail[n].id # entry.id
        BY <1>3, <3>1, UpsertParts
      <3> QED
        BY <3>2
    <2> HIDE DEF kept, all
    <2>8. PICK j : rowQueue' = Append(rowQueue, j) /\ j.snapshot = kept /\ j.row = row
      BY <2>2
    <2>9. \A a \in DOMAIN j.snapshot :
            Covers(j.row, j.snapshot[a]) \/ \E b \in DOMAIN detail : j.snapshot[a] = detail[b]
      BY <2>4, <2>6, <2>7, <2>8
    <2>10. Told(file, fileQueue, rowQueue', kept, excused, known)
      BY <1>1, <1>3, <2>8, <2>9, ToldPersist
    <2>11. \A e : Covered(excused, known, e) => Covered(excused', known, e)
      BY <2>1 DEF Covered
    <2>12. Told(file, fileQueue, rowQueue', kept, excused', known)
      BY <2>10, <2>11, ToldMore
    <2> QED
      BY <2>1, <2>2, <2>12
  <1>8. CASE PruneActive
    BY <1>4, <1>8 DEF PruneActive, disk, ghost
  <1>9. CASE AppendRow
    <2>1. /\ rowQueue # <<>> /\ Continue(Head(rowQueue))
          /\ excused' = excused /\ known' = Append(known, Head(rowQueue).row)
          /\ UNCHANGED <<detail, file>>
      BY <1>9 DEF AppendRow, RecordAuditRow
    <2>2. PICK r, l : r = Head(rowQueue).row /\ l = Len(known) + 1
      OBVIOUS
    <2>3. /\ DOMAIN known' = DOMAIN known \cup {l}
          /\ \A k \in DOMAIN known : known'[k] = known[k]
          /\ known'[l] = r
      BY <1>3, <2>1, <2>2, AppendParts
    <2>4. \A e : Covered(excused, known, e) => Covered(excused', known', e)
      BY <2>1, <2>3 DEF Covered
    <2>5. \A e : Covers(r, e) => Covered(excused', known', e)
      BY <2>3 DEF Covered
    <2> QED
      BY <1>1, <1>2, <2>1, <2>2, <2>4, <2>5, ContinueTold
  <1>10. CASE AppendFails
    <2>1. /\ rowQueue # <<>> /\ Continue(Head(rowQueue))
          /\ excused' = excused \cup {Head(rowQueue).row.started}
          /\ UNCHANGED <<detail, file, known>>
      BY <1>10 DEF AppendFails
    <2>2. \A e : Covered(excused, known, e) => Covered(excused', known', e)
      BY <2>1 DEF Covered
    <2>3. \A e : Covers(Head(rowQueue).row, e) => Covered(excused', known', e)
      BY <2>1 DEF Covered, Covers
    <2> QED
      BY <1>1, <1>2, <2>1, <2>2, <2>3, ContinueTold
  <1>11. CASE WriteDetails \/ WriteFails
    <2>1. /\ fileQueue # <<>> /\ fileQueue' = Tail(fileQueue)
          /\ file' = Head(fileQueue) \/ file' = file
          /\ UNCHANGED <<detail, rowQueue, excused, known>>
      BY <1>11 DEF WriteDetails, WriteFails, disk, ghost
    <2>2. /\ Told(file, Tail(fileQueue), rowQueue, detail, excused, known)
          /\ Told(Head(fileQueue), Tail(fileQueue), rowQueue, detail, excused, known)
      BY <1>1, <1>3, <2>1, ToldDrop
    <2> QED
      BY <2>1, <2>2
  <1>12. CASE Crash
    <2>1. detail' = <<>> /\ rowQueue' = <<>> /\ fileQueue' = <<>>
      BY <1>12 DEF Crash
    <2> QED
      BY <2>1, ToldAtRest
  <1>13. CASE Boot
    <2>1. /\ ~up /\ (detail' = <<>> \/ detail' = file')
          /\ UNCHANGED <<rowQueue, fileQueue>>
      BY <1>13 DEF Boot, LoadTransactionLogs
    <2>2. rowQueue' = <<>> /\ fileQueue' = <<>>
      BY <1>2, <2>1 DEF Latched
    <2> QED
      BY <2>1, <2>2, ToldAtRest
  <1>14. CASE Damage \/ Repair
    BY <1>4, <1>14 DEF Damage, Repair, memory, ghost
  <1>15. CASE UNCHANGED vars
    BY <1>4, <1>15 DEF vars, memory, disk, ghost
  <1> QED
    BY <1>5, <1>6, <1>7, <1>8, <1>9, <1>10, <1>11, <1>12, <1>13, <1>14, <1>15 DEF Next

RowFirst ==
  \A e \in Elements(file') :
    \/ e.started \in excused
    \/ \E f \in Elements(file) : f.started = e.started /\ f.saved = e.saved
    \/ \E r \in Elements(known) :
         r.kind = "terminal" /\ r.started = e.started /\ r.saved >= e.saved

LEMMA VerdictAction == VerdictInv /\ [Next]_vars => [RowFirst]_vars
  <1> SUFFICES ASSUME VerdictInv, Next PROVE RowFirst
    BY DEF RowFirst
  <1>1. TypeOK /\ Told(file, fileQueue, rowQueue, detail, excused, known)
    BY DEF VerdictInv, FileInv
  <1>2. fileQueue \in Seq(Seq(Entries))
    BY <1>1 DEF TypeOK
  <1>3. file' = file \/ WriteDetails
    BY DEF Next, Begin, Settle, Persist, PruneActive, AppendRow, AppendFails, WriteFails, Crash,
           Boot, Damage, Repair, disk
  <1>4. CASE file' = file
    BY <1>4 DEF RowFirst
  <1>5. CASE WriteDetails
    <2>1. file' = fileQueue[1] /\ 1 \in DOMAIN fileQueue
      BY <1>2, <1>5, TailParts DEF WriteDetails
    <2>2. ASSUME NEW a \in DOMAIN file'
          PROVE  Covered(excused, known, file'[a]) \/ Has(file, file'[a])
      BY <1>1, <2>1, <2>2 DEF Told, FilesTold, InFiles
    <2> QED
      BY <2>2 DEF RowFirst, Covered, Covers, Has, Elements
  <1> QED
    BY <1>3, <1>4, <1>5

\* "The ledger row is written before the detail entry", for any number of persists
\* and appends that wait for each other: what a write of the detail file adds has its
\* verdict in the ledger, or the append of it failed and the operation is one of those
\* whose row was lost.
THEOREM RowBeforeDetail == Spec => VerdictBeforeDetail
  <1>1. Spec => [][RowFirst]_vars
    BY VerdictInit, VerdictStep, VerdictAction, PTL DEF Spec
  <1> QED
    BY <1>1 DEF VerdictBeforeDetail, RowFirst

-----------------------------------------------------------------------------
(* What a restart reads back.  The ledger drops a file only when a rotation     *)
(* pushes one with rows off its end; then every place before that one has been  *)
(* filled by a full file, but one for each crash that cut a rotation short.     *)

\* The n newest files, read from the oldest of them.
ReadBack(files, n) ==
  LET upto == CHOOSE f : Reads(files, MaxFiles + 1, f) IN upto[n]

LEMMA ReadIs ==
  ASSUME NEW f \in Ledgers
  PROVE  /\ ReadBack(f, 0) = <<>>
         /\ \A n \in 1..MaxFiles + 1 : ReadBack(f, n) = f[n] \o ReadBack(f, n - 1)
         /\ LoadAuditLedger(f) = ReadBack(f, MaxFiles + 1)
  <1> DEFINE upto == CHOOSE r : Reads(f, MaxFiles + 1, r)
  <1>1. MaxFiles + 1 \in Nat /\ Len(f) = MaxFiles + 1
    BY HistoryAssumption, LedgerLength
  <1>2. Reads(f, MaxFiles + 1, upto)
    BY <1>1, ReadsExists
  <1>3. LoadAuditLedger(f) = upto[MaxFiles + 1]
    BY <1>1 DEF LoadAuditLedger, Reads
  <1>4. \A n : ReadBack(f, n) = upto[n]
    BY DEF ReadBack
  <1> HIDE DEF upto
  <1>5. 0 \in 0..MaxFiles + 1 /\ \A n \in 1..MaxFiles + 1 : n \in 0..MaxFiles + 1 /\ n # 0
    BY <1>1
  <1>6. \A n \in 0..MaxFiles + 1 : upto[n] = IF n = 0 THEN <<>> ELSE f[n] \o upto[n - 1]
    BY <1>2 DEF Reads
  <1> QED
    BY <1>3, <1>4, <1>5, <1>6

LEMMA ReadType ==
  ASSUME NEW f \in Ledgers
  PROVE  \A n \in 0..MaxFiles + 1 : ReadBack(f, n) \in Seq(Rows)
  <1>0. MaxFiles \in Nat
    BY HistoryAssumption
  <1> DEFINE T == {n \in Nat : n <= MaxFiles + 1 /\ ReadBack(f, n) \notin Seq(Rows)}
  <1>1. ASSUME T # {} PROVE FALSE
    <2>1. PICK n \in T : \A m \in T : n <= m
      BY <1>1, Minimum
    <2>2. n # 0
      BY <2>1, ReadIs, EmptyType
    <2>3. n \in 1..MaxFiles + 1 /\ n - 1 \in Nat /\ n - 1 <= MaxFiles + 1 /\ n - 1 \notin T
      BY <1>0, <2>1, <2>2
    <2>4. ReadBack(f, n - 1) \in Seq(Rows) /\ f[n] \in Seq(Rows)
      BY <2>3 DEF Ledgers
    <2>5. f[n] \o ReadBack(f, n - 1) \in Seq(Rows)
      BY <2>4, ConcatProperties
    <2> QED
      BY <2>1, <2>3, <2>5, ReadIs
  <1> QED
    BY <1>0, <1>1

\* Two ledgers, the second with each file a place further back.
Moved(f, g, from) == \A n \in from..MaxFiles + 1 : ReadBack(g, n) = ReadBack(f, n - 1)

LEMMA MovedBack ==
  ASSUME NEW f \in Ledgers, NEW g \in Ledgers, NEW from \in 1..MaxFiles + 1,
         ReadBack(g, from) = ReadBack(f, from - 1),
         \A n \in from + 1..MaxFiles + 1 : g[n] = f[n - 1]
  PROVE  Moved(f, g, from)
  <1>0. MaxFiles \in Nat /\ from \in Nat /\ from >= 1
    BY HistoryAssumption
  <1> DEFINE T == {n \in Nat : /\ from <= n /\ n <= MaxFiles + 1
                               /\ ReadBack(g, n) # ReadBack(f, n - 1)}
  <1>1. ASSUME T # {} PROVE FALSE
    <2>1. PICK n \in T : \A m \in T : n <= m
      BY <1>1, Minimum
    <2>2. n # from
      BY <2>1
    <2>3. /\ n \in 1..MaxFiles + 1 /\ n \in from + 1..MaxFiles + 1 /\ n - 1 \in 1..MaxFiles + 1
          /\ n - 1 \in Nat /\ from <= n - 1 /\ n - 1 <= MaxFiles + 1 /\ n - 1 \notin T
      BY <1>0, <2>1, <2>2
    <2>4. ReadBack(g, n - 1) = ReadBack(f, (n - 1) - 1)
      BY <2>3
    <2>5. ReadBack(g, n) = g[n] \o ReadBack(g, n - 1)
      BY <2>3, ReadIs
    <2>6. ReadBack(f, n - 1) = f[n - 1] \o ReadBack(f, (n - 1) - 1)
      BY <2>3, ReadIs
    <2>7. g[n] = f[n - 1]
      BY <2>3
    <2> QED
      BY <2>1, <2>4, <2>5, <2>6, <2>7
  <1>2. ASSUME NEW n \in from..MaxFiles + 1 PROVE ReadBack(g, n) = ReadBack(f, n - 1)
    BY <1>0, <1>1, <1>2
  <1> QED
    BY <1>2 DEF Moved

\* Rows added to the file itself are the last ones read.
Extended(f, g, s) == \A n \in 1..MaxFiles + 1 : ReadBack(g, n) = ReadBack(f, n) \o s

LEMMA ExtendedBy ==
  ASSUME NEW f \in Ledgers, NEW g \in Ledgers, NEW s \in Seq(Rows),
         g[1] = f[1] \o s, \A n \in 2..MaxFiles + 1 : g[n] = f[n]
  PROVE  Extended(f, g, s)
  <1>0. MaxFiles \in Nat /\ 1 \in 1..MaxFiles + 1 /\ 0 \in 0..MaxFiles + 1
    BY HistoryAssumption
  <1>1. \A n \in 1..MaxFiles + 1 : f[n] \in Seq(Rows) /\ g[n] \in Seq(Rows)
    BY DEF Ledgers
  <1> DEFINE T == {n \in Nat : /\ 1 <= n /\ n <= MaxFiles + 1
                               /\ ReadBack(g, n) # ReadBack(f, n) \o s}
  <1>2. ASSUME T # {} PROVE FALSE
    <2>1. PICK n \in T : \A m \in T : n <= m
      BY <1>2, Minimum
    <2>2. n \in 1..MaxFiles + 1 /\ n - 1 \in 0..MaxFiles + 1
      BY <1>0, <2>1
    <2>3. ReadBack(g, n) = g[n] \o ReadBack(g, n - 1) /\ ReadBack(f, n) = f[n] \o ReadBack(f, n - 1)
      BY <2>2, ReadIs
    <2>4. CASE n = 1
      <3>1. ReadBack(g, n - 1) = <<>> /\ ReadBack(f, n - 1) = <<>>
        <4>1. n - 1 = 0
          BY <2>4
        <4> QED
          BY <4>1, ReadIs
      <3>2. f[1] \o <<>> = f[1] /\ g[1] \o <<>> = g[1]
        BY <1>0, <1>1, ConcatEmptySeq
      <3> QED
        BY <2>1, <2>3, <2>4, <3>1, <3>2
    <2>5. CASE n # 1
      <3>1. n - 1 \in Nat /\ 1 <= n - 1 /\ n - 1 <= MaxFiles + 1 /\ n - 1 \notin T /\ n \in 2..MaxFiles + 1
        BY <1>0, <2>1, <2>5
      <3>2. ReadBack(g, n - 1) = ReadBack(f, n - 1) \o s /\ g[n] = f[n]
        BY <3>1
      <3>3. PICK a \in Seq(Rows), b \in Seq(Rows) : a = f[n] /\ b = ReadBack(f, n - 1)
        BY <1>1, <2>2, ReadType
      <3>4. (a \o b) \o s = a \o (b \o s)
        BY ConcatAssociative
      <3> QED
        BY <2>1, <2>3, <3>2, <3>3, <3>4
    <2> QED
      BY <2>4, <2>5
  <1>3. ASSUME NEW n \in 1..MaxFiles + 1 PROVE ReadBack(g, n) = ReadBack(f, n) \o s
    <2>1. n \in Nat /\ 1 <= n /\ n <= MaxFiles + 1
      BY <1>0
    <2>2. n \notin T
      BY <1>2
    <2> QED
      BY <2>1, <2>2
  <1> QED
    BY <1>3 DEF Extended

\* The files before the n-th have been filled, but one for each of c crashes.
Filled(f, n, c) ==
  Len(f[1]) + (n - 1 - c) * MaxRows <= Len(ReadBack(f, n))

\* Where a file has rows, those before it have been filled.
Dense(f, c) == \A n \in 2..MaxFiles + 1 : f[n] # <<>> => Filled(f, n - 1, c)

Ending(s, t) == \E u \in Seq(Rows) : t = u \o s

\* The ledger has the last of the rows t, and has lost none unless it was full.
Holds(f, t, c) ==
  /\ Ending(LoadAuditLedger(f), t)
  /\ LoadAuditLedger(f) = t \/ Filled(f, MaxFiles + 1, c)

LEMMA Sizes ==
  ASSUME NEW f \in Ledgers, NEW n \in 0..MaxFiles + 1
  PROVE  Len(f[1]) \in Nat /\ Len(ReadBack(f, n)) \in Nat
  <1>1. 1 \in 1..MaxFiles + 1
    BY HistoryAssumption
  <1>2. PICK a \in Seq(Rows) : a = f[1]
    BY <1>1 DEF Ledgers
  <1>3. PICK b \in Seq(Rows) : b = ReadBack(f, n)
    BY ReadType
  <1>4. Len(a) \in Nat /\ Len(b) \in Nat
    BY LenProperties
  <1> QED
    BY <1>2, <1>3, <1>4

LEMMA Once ==
  ASSUME NEW k \in Int
  PROVE  (k + 1) * MaxRows = k * MaxRows + MaxRows /\ k * MaxRows \in Int
  BY HistoryAssumption

\* One crash more.
LEMMA FilledLater ==
  ASSUME NEW f \in Ledgers, NEW n \in 1..MaxFiles + 1, NEW c \in Nat, Filled(f, n, c)
  PROVE  Filled(f, n, c + 1)
  <1>1. MaxFiles \in Nat /\ MaxRows \in Nat /\ n \in 0..MaxFiles + 1
    BY HistoryAssumption
  <1>2. PICK a \in Nat, b \in Nat : a = Len(f[1]) /\ b = Len(ReadBack(f, n))
    BY <1>1, Sizes
  <1>3. PICK k \in Int : k = n - 1 - (c + 1)
    BY <1>1
  <1>4. k + 1 = n - 1 - c
    BY <1>1, <1>3
  <1>5. a + (k + 1) * MaxRows <= b
    BY <1>2, <1>4 DEF Filled
  <1>6. a + k * MaxRows <= b
    <2>1. PICK x \in Int : x = k * MaxRows /\ (k + 1) * MaxRows = x + MaxRows
      BY Once
    <2>2. a + (x + MaxRows) <= b
      BY <1>5, <2>1
    <2>3. a + x <= b
      BY <1>1, <2>2
    <2> QED
      BY <2>1, <2>3
  <1> QED
    BY <1>2, <1>3, <1>6 DEF Filled

\* A full file moved back fills a place.
LEMMA FilledMoved ==
  ASSUME NEW f \in Ledgers, NEW g \in Ledgers, NEW n \in 2..MaxFiles + 1, NEW c \in Nat,
         ReadBack(g, n) = ReadBack(f, n - 1), g[1] = <<>>, Len(f[1]) >= MaxRows,
         Filled(f, n - 1, c)
  PROVE  Filled(g, n, c)
  <1>1. MaxFiles \in Nat /\ MaxRows \in Nat /\ n \in 0..MaxFiles + 1 /\ n - 1 \in 0..MaxFiles + 1
    BY HistoryAssumption
  <1>2. PICK a \in Nat, b \in Nat : a = Len(f[1]) /\ b = Len(ReadBack(f, n - 1))
    BY <1>1, Sizes
  <1>3. PICK k \in Int : k = (n - 1) - 1 - c
    BY <1>1
  <1>4. k + 1 = n - 1 - c
    BY <1>1, <1>3
  <1>5. a + k * MaxRows <= b /\ a >= MaxRows
    BY <1>2, <1>3 DEF Filled
  <1>6. 0 + (k + 1) * MaxRows <= b
    <2>1. PICK x \in Int : x = k * MaxRows /\ (k + 1) * MaxRows = x + MaxRows
      BY Once
    <2>2. a + x <= b
      BY <1>5, <2>1
    <2>3. 0 + (x + MaxRows) <= b
      BY <1>1, <1>5, <2>2
    <2> QED
      BY <2>1, <2>3
  <1>7. Len(g[1]) = 0
    BY EmptySeq
  <1> QED
    BY <1>2, <1>4, <1>6, <1>7 DEF Filled

\* A rotation cut short fills none, for one crash more.
LEMMA FilledCut ==
  ASSUME NEW f \in Ledgers, NEW g \in Ledgers, NEW n \in 2..MaxFiles + 1, NEW c \in Nat,
         ReadBack(g, n) = ReadBack(f, n - 1), g[1] = f[1], Filled(f, n - 1, c)
  PROVE  Filled(g, n, c + 1)
  <1>1. (n - 1) - 1 - c = n - 1 - (c + 1)
    OBVIOUS
  <1> QED
    BY <1>1 DEF Filled

\* A row more changes nothing.
LEMMA FilledExtended ==
  ASSUME NEW f \in Ledgers, NEW g \in Ledgers, NEW s \in Seq(Rows), NEW n \in 1..MaxFiles + 1,
         NEW c \in Nat, ReadBack(g, n) = ReadBack(f, n) \o s, g[1] = f[1] \o s, Filled(f, n, c)
  PROVE  Filled(g, n, c)
  <1>1. MaxFiles \in Nat /\ MaxRows \in Nat /\ n \in 0..MaxFiles + 1 /\ 1 \in 1..MaxFiles + 1
    BY HistoryAssumption
  <1>2. PICK p \in Seq(Rows), q \in Seq(Rows) : p = f[1] /\ q = ReadBack(f, n)
    BY <1>1, ReadType DEF Ledgers
  <1>3. PICK a \in Nat, b \in Nat, l \in Nat : a = Len(p) /\ b = Len(q) /\ l = Len(s)
    BY LenProperties
  <1>4. Len(p \o s) = a + l /\ Len(q \o s) = b + l
    BY <1>3, ConcatProperties
  <1>5. PICK k \in Int : k = n - 1 - c
    BY <1>1
  <1>6. PICK m \in Int : m = k * MaxRows
    BY Once
  <1>7. a + m <= b
    BY <1>2, <1>3, <1>5, <1>6 DEF Filled
  <1>8. Len(g[1]) = a + l /\ Len(ReadBack(g, n)) = b + l
    BY <1>2, <1>4
  <1>9. (a + l) + m <= b + l
    BY <1>7
  <1> QED
    BY <1>5, <1>6, <1>8, <1>9 DEF Filled

\* The first place needs no file.
LEMMA FilledFirst ==
  ASSUME NEW f \in Ledgers, NEW c \in Nat
  PROVE  Filled(f, 1, c)
  <1>1. MaxFiles \in Nat /\ MaxRows \in Nat /\ 1 \in 1..MaxFiles + 1
    BY HistoryAssumption
  <1>2. PICK p \in Seq(Rows) : p = f[1]
    BY <1>1 DEF Ledgers
  <1>3. ReadBack(f, 1) = p
    <2>1. ReadBack(f, 1 - 1) = <<>>
      <3>1. 1 - 1 = 0
        OBVIOUS
      <3> QED
        BY <3>1, ReadIs
    <2>2. ReadBack(f, 1) = p \o <<>>
      BY <1>1, <1>2, <2>1, ReadIs
    <2> QED
      BY <2>2, ConcatEmptySeq
  <1>4. PICK a \in Nat : a = Len(p)
    BY LenProperties
  <1>5. (1 - 1 - c) * MaxRows <= 0
    <2>1. PICK m \in Nat : m = c * MaxRows
      BY <1>1
    <2>2. (1 - 1 - c) * MaxRows = 0 - c * MaxRows
      BY <1>1
    <2> QED
      BY <2>1, <2>2
  <1>6. (1 - 1 - c) * MaxRows \in Int
    BY <1>1
  <1>7. a + (1 - 1 - c) * MaxRows <= a
    BY <1>4, <1>5, <1>6
  <1> QED
    BY <1>2, <1>3, <1>4, <1>7 DEF Filled

LEMMA DenseLater ==
  ASSUME NEW f \in Ledgers, NEW c \in Nat, Dense(f, c)
  PROVE  Dense(f, c + 1)
  <1>1. \A n \in 2..MaxFiles + 1 : n - 1 \in 1..MaxFiles + 1
    BY HistoryAssumption
  <1> QED
    BY <1>1, FilledLater DEF Dense

\* What Rotated and RotationCutShort do to a ledger.
LEMMA RotatedParts ==
  ASSUME NEW f \in Ledgers
  PROVE  /\ Len(f[1]) < MaxRows => Rotated(f) = f
         /\ ~(Len(f[1]) < MaxRows) =>
              /\ Rotated(f)[1] = <<>> /\ Moved(f, Rotated(f), 1)
              /\ \A n \in 2..MaxFiles + 1 : Rotated(f)[n] = f[n - 1]
         /\ RotationCutShort(f)[1] = f[1] /\ RotationCutShort(f)[2] = <<>>
         /\ Moved(f, RotationCutShort(f), 2)
         /\ \A n \in 3..MaxFiles + 1 : RotationCutShort(f)[n] = f[n - 1]
  <1>0. MaxFiles \in Nat /\ MaxFiles + 1 \in Nat /\ {1, 2} \subseteq 1..MaxFiles + 1
    BY HistoryAssumption
  <1>1. PICK r \in Ledgers : r = Rotated(f)
    BY RotatedType
  <1>2. PICK s \in Ledgers : s = RotationCutShort(f)
    BY RotatedType
  <1>3. ASSUME ~(Len(f[1]) < MaxRows)
        PROVE  r[1] = <<>> /\ Moved(f, r, 1) /\ \A n \in 2..MaxFiles + 1 : r[n] = f[n - 1]
    <2>1. r = [n \in 1..MaxFiles + 1 |-> IF n = 1 THEN <<>> ELSE f[n - 1]]
      BY <1>1, <1>3 DEF Rotated
    <2>2. r[1] = <<>> /\ \A n \in 2..MaxFiles + 1 : r[n] = f[n - 1]
      BY <1>0, <2>1
    <2>3. ReadBack(r, 1) = ReadBack(f, 1 - 1)
      <3>1. ReadBack(r, 1 - 1) = <<>> /\ ReadBack(f, 1 - 1) = <<>>
        <4>1. 1 - 1 = 0
          OBVIOUS
        <4> QED
          BY <4>1, ReadIs
      <3>2. ReadBack(r, 1) = r[1] \o ReadBack(r, 1 - 1)
        BY <1>0, ReadIs
      <3>3. <<>> \o <<>> = <<>>
        BY EmptyType, ConcatEmptySeq
      <3> QED
        BY <2>2, <3>1, <3>2, <3>3
    <2>4. \A n \in 1 + 1..MaxFiles + 1 : r[n] = f[n - 1]
      BY <2>2
    <2> QED
      BY <1>0, <2>2, <2>3, <2>4, MovedBack
  <1>4. s[1] = f[1] /\ s[2] = <<>> /\ \A n \in 3..MaxFiles + 1 : s[n] = f[n - 1]
    BY <1>0, <1>2 DEF RotationCutShort
  <1>5. Moved(f, s, 2)
    <2>1. ReadBack(s, 2) = ReadBack(f, 2 - 1)
      <3>0. 2 - 1 = 1 /\ 1 - 1 = 0
        OBVIOUS
      <3>1. ReadBack(s, 2) = s[2] \o ReadBack(s, 1)
        BY <1>0, <3>0, ReadIs
      <3>2. ReadBack(s, 1) = s[1] \o ReadBack(s, 0) /\ ReadBack(f, 1) = f[1] \o ReadBack(f, 0)
        BY <1>0, <3>0, ReadIs
      <3>3. ReadBack(s, 0) = <<>> /\ ReadBack(f, 0) = <<>>
        BY ReadIs
      <3>4. ReadBack(s, 1) \in Seq(Rows)
        BY <1>0, ReadType
      <3>5. <<>> \o ReadBack(s, 1) = ReadBack(s, 1)
        BY <3>4, ConcatEmptySeq
      <3> QED
        BY <1>4, <3>0, <3>1, <3>2, <3>3, <3>5
    <2>2. \A n \in 2 + 1..MaxFiles + 1 : s[n] = f[n - 1]
      BY <1>4
    <2> QED
      BY <1>0, <2>1, <2>2, MovedBack
  <1>6. Len(f[1]) < MaxRows => r = f
    BY <1>1 DEF Rotated
  <1> QED
    BY <1>1, <1>2, <1>3, <1>4, <1>5, <1>6

LEMMA DenseRotated ==
  ASSUME NEW f \in Ledgers, NEW c \in Nat, Dense(f, c)
  PROVE  Dense(Rotated(f), c)
  <1>0. MaxFiles \in Nat /\ MaxRows \in Nat
    BY HistoryAssumption
  <1>1. PICK g \in Ledgers : g = Rotated(f)
    BY RotatedType
  <1>2. CASE Len(f[1]) < MaxRows
    BY <1>2, RotatedParts
  <1>3. CASE ~(Len(f[1]) < MaxRows)
    <2>1. g[1] = <<>> /\ Moved(f, g, 1) /\ \A n \in 2..MaxFiles + 1 : g[n] = f[n - 1]
      BY <1>1, <1>3, RotatedParts
    <2>2. Len(f[1]) >= MaxRows
      <3>1. 1 \in 0..MaxFiles + 1
        BY <1>0
      <3>2. PICK a \in Nat : a = Len(f[1])
        BY <3>1, Sizes
      <3> QED
        BY <1>0, <1>3, <3>2
    <2>3. ASSUME NEW n \in 2..MaxFiles + 1, g[n] # <<>> PROVE Filled(g, n - 1, c)
      <3>1. CASE n = 2
        <4>1. n - 1 = 1
          BY <3>1
        <4> QED
          BY <4>1, FilledFirst
      <3>2. CASE n # 2
        <4>1. n - 1 \in 2..MaxFiles + 1 /\ n - 1 \in 1..MaxFiles + 1
          BY <1>0, <3>2
        <4>2. Filled(f, (n - 1) - 1, c)
          BY <2>1, <2>3, <4>1 DEF Dense
        <4>3. ReadBack(g, n - 1) = ReadBack(f, (n - 1) - 1)
          BY <2>1, <4>1 DEF Moved
        <4> QED
          BY <2>1, <2>2, <4>1, <4>2, <4>3, FilledMoved
      <3> QED
        BY <3>1, <3>2
    <2> QED
      BY <1>1, <2>3 DEF Dense
  <1> QED
    BY <1>2, <1>3

LEMMA DenseCut ==
  ASSUME NEW f \in Ledgers, NEW c \in Nat, Dense(f, c)
  PROVE  Dense(RotationCutShort(f), c + 1)
  <1>0. MaxFiles \in Nat /\ c + 1 \in Nat
    BY HistoryAssumption
  <1>1. PICK g \in Ledgers : g = RotationCutShort(f)
    BY RotatedType
  <1>2. /\ g[1] = f[1] /\ g[2] = <<>> /\ Moved(f, g, 2)
        /\ \A n \in 3..MaxFiles + 1 : g[n] = f[n - 1]
    BY <1>1, RotatedParts
  <1>3. ASSUME NEW n \in 2..MaxFiles + 1, g[n] # <<>> PROVE Filled(g, n - 1, c + 1)
    <2>1. n \in 3..MaxFiles + 1
      BY <1>0, <1>2, <1>3
    <2>2. n - 1 \in 2..MaxFiles + 1
      BY <1>0, <2>1
    <2>3. Filled(f, (n - 1) - 1, c)
      BY <1>2, <1>3, <2>1, <2>2 DEF Dense
    <2>4. ReadBack(g, n - 1) = ReadBack(f, (n - 1) - 1)
      BY <1>2, <2>2 DEF Moved
    <2> QED
      BY <1>2, <2>2, <2>3, <2>4, FilledCut
  <1> QED
    BY <1>1, <1>3 DEF Dense

LEMMA DenseExtended ==
  ASSUME NEW f \in Ledgers, NEW g \in Ledgers, NEW s \in Seq(Rows), NEW c \in Nat, Dense(f, c),
         g[1] = f[1] \o s, \A n \in 2..MaxFiles + 1 : g[n] = f[n]
  PROVE  Dense(g, c)
  <1>0. \A n \in 2..MaxFiles + 1 : n - 1 \in 1..MaxFiles + 1
    BY HistoryAssumption
  <1>1. Extended(f, g, s)
    BY ExtendedBy
  <1>2. ASSUME NEW n \in 2..MaxFiles + 1, g[n] # <<>> PROVE Filled(g, n - 1, c)
    <2>1. n - 1 \in 1..MaxFiles + 1 /\ Filled(f, n - 1, c)
      BY <1>0, <1>2 DEF Dense
    <2>2. ReadBack(g, n - 1) = ReadBack(f, n - 1) \o s
      BY <1>1, <2>1 DEF Extended
    <2> QED
      BY <2>1, <2>2, FilledExtended
  <1> QED
    BY <1>2 DEF Dense

-----------------------------------------------------------------------------
LEMMA EndingSelf ==
  ASSUME NEW t \in Seq(Rows)
  PROVE  Ending(t, t)
  <1>1. t = <<>> \o t /\ <<>> \in Seq(Rows)
    BY EmptyType, ConcatEmptySeq
  <1> QED
    BY <1>1 DEF Ending

LEMMA EndingDrop ==
  ASSUME NEW a \in Seq(Rows), NEW b \in Seq(Rows), NEW t \in Seq(Rows), Ending(a \o b, t)
  PROVE  Ending(b, t)
  <1>1. PICK u \in Seq(Rows) : t = u \o (a \o b)
    BY DEF Ending
  <1>2. PICK v \in Seq(Rows) : v = u \o a
    BY ConcatProperties
  <1>3. (u \o a) \o b = u \o (a \o b)
    BY ConcatAssociative
  <1> QED
    BY <1>1, <1>2, <1>3 DEF Ending

LEMMA EndingMore ==
  ASSUME NEW a \in Seq(Rows), NEW t \in Seq(Rows), NEW s \in Seq(Rows), Ending(a, t)
  PROVE  Ending(a \o s, t \o s)
  <1>1. PICK u \in Seq(Rows) : t = u \o a
    BY DEF Ending
  <1>2. (u \o a) \o s = u \o (a \o s)
    BY ConcatAssociative
  <1> QED
    BY <1>1, <1>2 DEF Ending

\* An ending of a sequence, entry by entry.
LEMMA EndingParts ==
  ASSUME NEW a \in Seq(Rows), NEW t \in Seq(Rows), Ending(a, t)
  PROVE  /\ Len(a) \in Nat /\ Len(t) \in Nat /\ Len(a) <= Len(t)
         /\ \A n \in 0..Len(a) - 1 : a[Len(a) - n] = t[Len(t) - n]
  <1>1. PICK u \in Seq(Rows) : t = u \o a
    BY DEF Ending
  <1>2. PICK k \in Nat, l \in Nat : k = Len(u) /\ l = Len(a)
    BY LenProperties
  <1>3. Len(t) = k + l /\ \A i \in 1..k + l : t[i] = IF i <= k THEN u[i] ELSE a[i - k]
    BY <1>1, <1>2, ConcatProperties
  <1>4. ASSUME NEW n \in 0..l - 1 PROVE a[l - n] = t[k + l - n]
    <2>1. k + l - n \in 1..k + l /\ ~(k + l - n <= k) /\ (k + l - n) - k = l - n
      BY <1>2
    <2>2. t[k + l - n] = a[(k + l - n) - k]
      BY <1>3, <2>1
    <2> QED
      BY <2>1, <2>2
  <1> QED
    BY <1>2, <1>3, <1>4

LEMMA HoldsSelf ==
  ASSUME NEW f \in Ledgers, NEW c
  PROVE  Holds(f, LoadAuditLedger(f), c)
  <1>1. LoadAuditLedger(f) \in Seq(Rows)
    BY LedgerLength, LoadType
  <1> QED
    BY <1>1, EndingSelf DEF Holds

\* A rotation drops the rows of the last place, which has some only when the ledger
\* is filled.
LEMMA HoldsRotated ==
  ASSUME NEW f \in Ledgers, NEW c \in Nat, Dense(f, c), NEW t \in Seq(Rows), Holds(f, t, c)
  PROVE  Holds(Rotated(f), t, c)
  <1>0. MaxFiles \in Nat /\ MaxRows \in Nat /\ MaxFiles >= 1
    BY HistoryAssumption
  <1>1. PICK g \in Ledgers : g = Rotated(f)
    BY RotatedType
  <1>2. CASE Len(f[1]) < MaxRows
    BY <1>2, RotatedParts
  <1>3. CASE ~(Len(f[1]) < MaxRows)
    <2>0. PICK L \in 2..MaxFiles + 1 : L = MaxFiles + 1
      BY <1>0
    <2>1. g[1] = <<>> /\ Moved(f, g, 1)
      BY <1>1, <1>3, RotatedParts
    <2>2. Len(f[1]) >= MaxRows
      <3>1. PICK a \in Nat : a = Len(f[1])
        BY <1>0, Sizes
      <3> QED
        BY <1>0, <1>3, <3>1
    <2>3. L \in 1..MaxFiles + 1 /\ L - 1 \in 0..MaxFiles + 1 /\ L - 1 \in 1..MaxFiles + 1
      BY <1>0, <2>0
    <2>4. PICK b \in Seq(Rows) : b = ReadBack(f, L - 1)
      BY <2>3, ReadType
    <2>5. PICK a \in Seq(Rows) : a = f[L]
      BY <2>3 DEF Ledgers
    <2>6. LoadAuditLedger(f) = a \o b
      BY <2>0, <2>3, <2>4, <2>5, ReadIs
    <2>7. LoadAuditLedger(g) = b /\ ReadBack(g, L) = ReadBack(f, L - 1)
      BY <2>0, <2>1, <2>3, <2>4, ReadIs DEF Moved
    <2>8. Ending(b, t)
      <3>1. Ending(a \o b, t)
        BY <2>6 DEF Holds
      <3> QED
        BY <3>1, EndingDrop
    <2>9. CASE a # <<>>
      <3>1. Filled(f, L - 1, c)
        BY <2>3, <2>5, <2>9 DEF Dense
      <3>2. Filled(g, L, c)
        BY <2>1, <2>2, <2>7, <3>1, FilledMoved
      <3> QED
        BY <1>1, <2>0, <2>7, <2>8, <3>2 DEF Holds
    <2>10. CASE a = <<>>
      <3>1. a \o b = b
        BY <2>10, ConcatEmptySeq
      <3>2. CASE LoadAuditLedger(f) = t
        BY <1>1, <2>6, <2>7, <2>8, <3>1, <3>2 DEF Holds
      <3>3. CASE Filled(f, L, c)
        <4>1. ReadBack(f, L) = b
          BY <2>3, <2>4, <2>5, <3>1, ReadIs
        <4>2. PICK m \in Nat, l \in Nat : m = Len(f[1]) /\ l = Len(b)
          BY <2>3, <2>4, Sizes
        <4>3. PICK x \in Int : x = (L - 1 - c) * MaxRows
          BY <1>0
        <4>4. m + x <= l
          BY <3>3, <4>1, <4>2, <4>3 DEF Filled
        <4>5. 0 + x <= l
          BY <4>4
        <4>6. Len(g[1]) = 0
          BY <2>1, EmptySeq
        <4>7. Filled(g, L, c)
          BY <2>4, <2>7, <4>2, <4>3, <4>5, <4>6 DEF Filled
        <4> QED
          BY <1>1, <2>0, <2>7, <2>8, <4>7 DEF Holds
      <3> QED
        BY <2>0, <3>2, <3>3 DEF Holds
    <2> QED
      BY <2>9, <2>10
  <1> QED
    BY <1>2, <1>3

LEMMA HoldsExtended ==
  ASSUME NEW f \in Ledgers, NEW g \in Ledgers, NEW s \in Seq(Rows), NEW c \in Nat,
         NEW t \in Seq(Rows), Holds(f, t, c),
         g[1] = f[1] \o s, \A n \in 2..MaxFiles + 1 : g[n] = f[n]
  PROVE  Holds(g, t \o s, c)
  <1>0. PICK L \in 1..MaxFiles + 1 : L = MaxFiles + 1
    BY HistoryAssumption
  <1>1. Extended(f, g, s)
    BY ExtendedBy
  <1>2. ReadBack(g, L) = ReadBack(f, L) \o s
    BY <1>0, <1>1 DEF Extended
  <1>3. PICK a \in Seq(Rows) : a = LoadAuditLedger(f)
    BY LedgerLength, LoadType
  <1>4. LoadAuditLedger(g) = a \o s
    BY <1>0, <1>2, <1>3, ReadIs
  <1>5. Ending(a \o s, t \o s)
    BY <1>3, EndingMore DEF Holds
  <1>6. Filled(f, L, c) => Filled(g, L, c)
    BY <1>2, FilledExtended
  <1>7. a = t \/ Filled(f, L, c)
    BY <1>0, <1>3 DEF Holds
  <1> QED
    BY <1>0, <1>4, <1>5, <1>6, <1>7 DEF Holds

LEMMA DenseEmpty ==
  ASSUME NEW f \in Ledgers, LoadAuditLedger(f) = <<>>
  PROVE  f[1] = <<>>
  <1>0. MaxFiles \in Nat /\ MaxFiles + 1 \in Nat /\ 1 \in 1..MaxFiles + 1
    BY HistoryAssumption
  <1> DEFINE T == {n \in 1..MaxFiles + 1 : ReadBack(f, n) # <<>>}
  <1>1. MaxFiles + 1 \notin T
    BY ReadIs
  <1>2. ASSUME T # {} PROVE FALSE
    <2>1. T \in SUBSET (1..MaxFiles + 1)
      OBVIOUS
    <2>2. PICK m \in T : \A y \in T : m >= y
      <3> HIDE DEF T
      <3> QED
        BY <1>0, <1>2, <2>1, Maximum
    <2>3. m + 1 \in 1..MaxFiles + 1 /\ m \in 0..MaxFiles + 1 /\ (m + 1) - 1 = m
      BY <1>0, <1>1, <2>1, <2>2
    <2>4. m + 1 \notin T
      BY <2>2, <2>3
    <2>5. PICK a \in Seq(Rows), b \in Seq(Rows) : a = f[m + 1] /\ b = ReadBack(f, m)
      BY <2>3, ReadType DEF Ledgers
    <2>6. a \o b = <<>>
      BY <2>3, <2>4, <2>5, ReadIs
    <2>7. b = <<>>
      BY <2>6, ConcatEqualIffEmpty
    <2> QED
      BY <2>2, <2>5, <2>7
  <1>3. ReadBack(f, 1) = <<>>
    BY <1>0, <1>2
  <1>4. PICK a \in Seq(Rows) : a = f[1]
    BY <1>0 DEF Ledgers
  <1>5. PICK b \in Seq(Rows) : b = ReadBack(f, 1 - 1)
    <2>1. 1 - 1 \in 0..MaxFiles + 1
      BY <1>0
    <2> QED
      BY <2>1, ReadType
  <1>6. a \o b = <<>>
    BY <1>0, <1>3, <1>4, <1>5, ReadIs
  <1> QED
    BY <1>4, <1>6, ConcatEqualIffEmpty

-----------------------------------------------------------------------------
LedgerInv ==
  /\ TypeOK
  /\ Dense(ledger, crashes)
  /\ IF up THEN Holds(ledger, known, crashes) ELSE known = <<>>

LEMMA LedgerInit == Init => LedgerInv
  <1> SUFFICES ASSUME Init PROVE LedgerInv
    OBVIOUS
  <1>1. TypeOK
    BY TypeInit
  <1>2. \A n \in 2..MaxFiles + 1 : ledger[n] = <<>>
    BY HistoryAssumption DEF Init
  <1> QED
    BY <1>1, <1>2 DEF LedgerInv, Dense, Init

LEMMA LedgerStep == LedgerInv /\ [Next]_vars => LedgerInv'
  <1> SUFFICES ASSUME LedgerInv, [Next]_vars
               PROVE  LedgerInv'
    OBVIOUS
  <1>1. TypeOK'
    BY TypeStep DEF LedgerInv
  <1>2. /\ ledger \in Ledgers /\ ledger' \in Ledgers /\ crashes \in Nat /\ crashes' \in Nat
        /\ known \in Seq(Rows) /\ known' \in Seq(Rows)
        /\ detail' \in Seq(Entries) /\ rowQueue \in Seq(Appends)
    BY <1>1 DEF LedgerInv, TypeOK, Ledgers
  <1>3. Dense(ledger, crashes)
    BY DEF LedgerInv
  <1> DEFINE Kept == /\ Dense(ledger', crashes')
                     /\ IF up' THEN Holds(ledger', known', crashes') ELSE known' = <<>>
  <1>4. ASSUME Kept PROVE LedgerInv'
    BY <1>1, <1>4 DEF LedgerInv
  <1>5. ASSUME UNCHANGED <<up, ledger, crashes, known>> PROVE Kept
    BY <1>5 DEF LedgerInv
  <1>6. CASE AppendRow
    <2>1. Head(rowQueue).row \in Rows
      BY <1>2, <1>6, HeadTypes, JobFields DEF AppendRow
    <2>2. PICK row \in Rows : row = Head(rowQueue).row
      BY <2>1
    <2>3. PICK g \in Ledgers : g = Rotated(ledger)
      BY <1>2, RotatedType
    <2>4. /\ up /\ up' = up /\ crashes' = crashes /\ known' = Append(known, row)
          /\ ledger' = [g EXCEPT ![1] = Append(g[1], row)]
      BY <1>6, <2>2, <2>3 DEF AppendRow, RecordAuditRow
    <2>5. Dense(g, crashes)
      BY <1>2, <1>3, <2>3, DenseRotated
    <2>6. Holds(g, known, crashes)
      <3>1. Holds(ledger, known, crashes)
        BY <2>4 DEF LedgerInv
      <3> QED
        BY <1>2, <1>3, <2>3, <3>1, HoldsRotated
    <2>7. PICK s \in Seq(Rows) : s = <<row>>
      <3>1. <<>> \in Seq(Rows) /\ <<row>> = Append(<<>>, row)
        BY EmptyType
      <3> QED
        BY <3>1, AppendProperties
    <2>8. g[1] \in Seq(Rows) /\ 1 \in 1..MaxFiles + 1
      BY HistoryAssumption, RotatedType
    <2>9. Append(g[1], row) = g[1] \o s /\ Append(known, row) = known \o s
      BY <1>2, <2>7, <2>8, AppendIsConcat
    <2>10. ledger'[1] = g[1] \o s /\ \A n \in 2..MaxFiles + 1 : ledger'[n] = g[n]
      <3>1. DOMAIN g = 1..MaxFiles + 1
        BY DEF Ledgers
      <3> QED
        BY <2>4, <2>8, <2>9, <3>1
    <2>11. PICK h \in Ledgers : h = ledger'
      BY <1>2
    <2>12. Dense(h, crashes)
      BY <1>2, <2>5, <2>10, <2>11, DenseExtended
    <2>13. Holds(h, known \o s, crashes)
      BY <1>2, <2>6, <2>10, <2>11, HoldsExtended
    <2> QED
      BY <1>4, <2>4, <2>9, <2>11, <2>12, <2>13
  <1>7. CASE AppendFails
    <2>1. up /\ UNCHANGED <<up, crashes, known>> /\ ledger' \in {ledger, Rotated(ledger)}
      BY <1>7 DEF AppendFails
    <2>2. Holds(ledger, known, crashes)
      BY <2>1 DEF LedgerInv
    <2>3. Dense(Rotated(ledger), crashes) /\ Holds(Rotated(ledger), known, crashes)
      BY <1>2, <1>3, <2>2, DenseRotated, HoldsRotated
    <2> QED
      BY <1>4, <1>3, <2>1, <2>2, <2>3
  <1>8. CASE Crash
    <2>1. /\ up' = FALSE /\ known' = <<>> /\ crashes' = crashes + 1
          /\ ledger' \in {ledger, RotationCutShort(ledger)}
      BY <1>8 DEF Crash
    <2>2. Dense(ledger, crashes + 1) /\ Dense(RotationCutShort(ledger), crashes + 1)
      BY <1>2, <1>3, DenseLater, DenseCut
    <2> QED
      BY <1>4, <2>1, <2>2
  <1>9. CASE Boot
    <2>1. PICK rows \in Seq(Rows) : rows = LoadAuditLedger(ledger)
      BY <1>2, LedgerLength, LoadType
    <2>2. up' = TRUE /\ crashes' = crashes
      BY <1>9 DEF Boot
    <2>3. \/ known' = rows /\ ledger' = ledger
          \/ /\ rows = <<>> /\ known' = Migrated(detail')
             /\ ledger' = [ledger EXCEPT ![1] = Migrated(detail')]
          \/ rows = <<>> /\ known' = <<>> /\ ledger' = ledger
      BY <1>9, <2>1 DEF Boot
    <2>4. Holds(ledger, rows, crashes)
      BY <1>2, <2>1, HoldsSelf
    <2>5. CASE known' = rows /\ ledger' = ledger
      BY <1>4, <1>3, <2>2, <2>4, <2>5
    <2>6. CASE rows = <<>> /\ known' = <<>> /\ ledger' = ledger
      BY <1>4, <1>3, <2>2, <2>4, <2>6
    <2>7. CASE /\ rows = <<>> /\ known' = Migrated(detail')
               /\ ledger' = [ledger EXCEPT ![1] = Migrated(detail')]
      <3>1. PICK s \in Seq(Rows) : s = Migrated(detail')
        BY <1>2, MigratedType
      <3>2. ledger[1] = <<>>
        BY <1>2, <2>1, <2>7, DenseEmpty
      <3>3. <<>> \o s = s
        BY ConcatEmptySeq
      <3>4. ledger'[1] = ledger[1] \o s /\ \A n \in 2..MaxFiles + 1 : ledger'[n] = ledger[n]
        <4>1. DOMAIN ledger = 1..MaxFiles + 1 /\ 1 \in 1..MaxFiles + 1
          BY <1>2, HistoryAssumption DEF Ledgers
        <4> QED
          BY <2>7, <3>1, <3>2, <3>3, <4>1
      <3>5. PICK h \in Ledgers : h = ledger'
        BY <1>2
      <3>6. Dense(h, crashes)
        BY <1>2, <1>3, <3>4, <3>5, DenseExtended
      <3>7. Holds(h, rows \o s, crashes)
        BY <1>2, <2>4, <3>4, <3>5, HoldsExtended
      <3> QED
        BY <1>4, <2>2, <2>7, <3>1, <3>3, <3>5, <3>6, <3>7
    <2> QED
      BY <2>3, <2>5, <2>6, <2>7
  <1>10. CASE UNCHANGED <<up, ledger, crashes, known>>
    BY <1>4, <1>5, <1>10
  <1>11. \/ AppendRow \/ AppendFails \/ Crash \/ Boot
         \/ UNCHANGED <<up, ledger, crashes, known>>
    BY DEF Next, Begin, Settle, Persist, PruneActive, WriteDetails, WriteFails, Damage, Repair,
           Opened, vars, disk, ghost
  <1> HIDE DEF Kept
  <1> QED
    BY <1>4, <1>6, <1>7, <1>8, <1>9, <1>10, <1>11

\* What the ledger holds is what the property asks of it.
LEMMA HoldsEnough == LedgerInv => RecordedSurvivesRestart
  <1> SUFFICES ASSUME LedgerInv PROVE RecordedSurvivesRestart
    OBVIOUS
  <1>1. ledger \in Ledgers /\ known \in Seq(Rows) /\ crashes \in Nat
    BY DEF LedgerInv, TypeOK, Ledgers
  <1>2. PICK rows \in Seq(Rows) : rows = LoadAuditLedger(ledger)
    BY <1>1, LedgerLength, LoadType
  <1>3. MaxFiles \in Nat /\ MaxRows \in Nat
    BY HistoryAssumption
  <1>4. PICK a \in Nat, k \in Nat : a = Len(rows) /\ k = Len(known)
    BY <1>1, LenProperties
  <1>5. PICK g \in Nat : g = Greatest({0, MaxFiles - crashes}) /\ (g = 0 \/ g = MaxFiles - crashes)
    <2>1. CASE MaxFiles - crashes <= 0
      <3>1. PICK d \in Int : d = MaxFiles - crashes /\ d <= 0
        BY <1>1, <1>3, <2>1
      <3>2. \A x \in {0, d} : (\A y \in {0, d} : x >= y) <=> x = 0
        BY <3>1
      <3>3. Greatest({0, d}) = 0
        BY <3>2 DEF Greatest
      <3> QED
        BY <3>1, <3>3
    <2>2. CASE ~(MaxFiles - crashes <= 0)
      <3>1. PICK d \in Nat : d = MaxFiles - crashes /\ d > 0
        BY <1>1, <1>3, <2>2
      <3>2. \A x \in {0, d} : (\A y \in {0, d} : x >= y) <=> x = d
        BY <3>1
      <3>3. Greatest({0, d}) = d
        BY <3>2 DEF Greatest
      <3> QED
        BY <3>1, <3>3
    <2> QED
      BY <2>1, <2>2
  <1>6. PICK p \in Nat : p = g * MaxRows /\ (g = 0 => p = 0)
    BY <1>3
  <1>7. PICK safe \in Nat : safe = Least({k, p}) /\ safe <= k /\ safe <= p
    <2>1. \A x \in {k, p} : (\A y \in {k, p} : x <= y) <=> x = IF k <= p THEN k ELSE p
      OBVIOUS
    <2>2. Least({k, p}) = IF k <= p THEN k ELSE p
      BY <2>1 DEF Least
    <2> QED
      BY <2>2
  <1>8. ASSUME up PROVE safe <= a
    <2>1. rows = known \/ Filled(ledger, MaxFiles + 1, crashes)
      BY <1>2, <1>8 DEF LedgerInv, Holds
    <2>2. CASE rows = known
      BY <1>4, <1>7, <2>2
    <2>3. CASE Filled(ledger, MaxFiles + 1, crashes) /\ g # 0
      <3>1. PICK m \in Nat : m = Len(ledger[1])
        <4>1. 0 \in 0..MaxFiles + 1
          BY <1>3
        <4> QED
          BY <1>1, <4>1, Sizes
      <3>2. (MaxFiles + 1) - 1 - crashes = g
        BY <1>1, <1>3, <1>5, <2>3
      <3>3. ReadBack(ledger, MaxFiles + 1) = rows
        BY <1>1, <1>2, ReadIs
      <3>4. m + p <= a
        BY <1>4, <1>6, <2>3, <3>1, <3>2, <3>3 DEF Filled
      <3> QED
        BY <1>7, <3>4
    <2>4. CASE g = 0
      BY <1>6, <1>7, <2>4
    <2> QED
      BY <2>1, <2>2, <2>3, <2>4
  <1>9. ASSUME ~up PROVE safe = 0
    <2>1. known = <<>>
      BY <1>9 DEF LedgerInv
    <2>2. k = 0
      BY <1>4, <2>1, EmptySeq
    <2> QED
      BY <1>7, <2>2
  <1>10. safe <= a
    BY <1>8, <1>9
  <1>11. ASSUME NEW n \in 0..safe - 1 PROVE rows[a - n] = known[k - n]
    <2>1. up
      BY <1>9, <1>11
    <2>2. Ending(rows, known)
      BY <1>2, <2>1 DEF LedgerInv, Holds
    <2>3. \A m \in 0..a - 1 : rows[a - m] = known[k - m]
      <3>1. \A m \in 0..Len(rows) - 1 : rows[Len(rows) - m] = known[Len(known) - m]
        BY <1>1, <2>2, EndingParts
      <3> QED
        BY <1>4, <3>1
    <2>4. n \in 0..a - 1
      BY <1>10
    <2> QED
      BY <2>3, <2>4
  <1>12. safe = Least({Len(known), Greatest({0, MaxFiles - crashes}) * MaxRows})
    BY <1>4, <1>5, <1>6, <1>7
  <1> QED
    BY <1>2, <1>4, <1>10, <1>11, <1>12 DEF RecordedSurvivesRestart

\* Rotation costs old rows only, for ledgers of any size and any number of crashes in
\* the middle of a rotation: the last rows recorded, as many as full files are kept
\* less one for each crash, are read back in their order by loadAuditLedger.
THEOREM LedgerReadBack == Spec => []RecordedSurvivesRestart
  <1>1. Spec => []LedgerInv
    BY LedgerInit, LedgerStep, PTL DEF Spec
  <1> QED
    BY <1>1, HoldsEnough, PTL

-----------------------------------------------------------------------------
(* Successes *)

Succ(s) == {e \in Elements(s) : ~IsFailure(e)}

LEMMA LeastIs ==
  ASSUME NEW S \in SUBSET Nat, S # {}
  PROVE  Least(S) \in S /\ \A y \in S : Least(S) <= y
  <1>1. \E x \in S : \A y \in S : x <= y
    BY Minimum
  <1> QED
    BY <1>1 DEF Least

\* The floor grows with the successes there are, and is never above them.
LEMMA FloorIs ==
  ASSUME NEW a \in Nat
  PROVE  /\ SuccessFloor(a) \in Nat /\ SuccessFloor(a) <= a /\ SuccessFloor(a) <= Cap
         /\ \A b \in Nat : a <= b => SuccessFloor(a) <= SuccessFloor(b)
  <1>1. PICK h \in Nat : h = Cap \div 2 /\ h <= Cap
    <2>1. Cap \in Nat
      BY HistoryAssumption
    <2>2. Cap \div 2 \in Nat /\ Cap \div 2 <= Cap
      BY <2>1
    <2> QED
      BY <2>2
  <1>2. Reserved \in Nat
    BY HistoryAssumption
  <1>3. \A b \in Nat : /\ SuccessFloor(b) \in {Reserved, b, h}
                       /\ \A y \in {Reserved, b, h} : SuccessFloor(b) <= y
    <2> SUFFICES ASSUME NEW b \in Nat
                 PROVE  /\ SuccessFloor(b) \in {Reserved, b, h}
                        /\ \A y \in {Reserved, b, h} : SuccessFloor(b) <= y
      OBVIOUS
    <2>1. PICK S : S = {Reserved, b, h}
      OBVIOUS
    <2>2. S \in SUBSET Nat /\ S # {}
      BY <1>2, <2>1
    <2>3. SuccessFloor(b) = Least(S)
      BY <1>1, <2>1 DEF SuccessFloor
    <2> QED
      BY <2>1, <2>2, <2>3, LeastIs
  <1>4. \A b \in Nat : /\ SuccessFloor(b) \in Nat /\ SuccessFloor(b) <= b
                       /\ SuccessFloor(b) <= h /\ SuccessFloor(b) <= Reserved
    BY <1>2, <1>3
  <1>5. ASSUME NEW b \in Nat, a <= b PROVE SuccessFloor(a) <= SuccessFloor(b)
    BY <1>2, <1>3, <1>4, <1>5
  <1>6. SuccessFloor(a) <= Cap
    <2>1. Cap \in Nat
      BY HistoryAssumption
    <2> QED
      BY <1>1, <1>4, <2>1
  <1> QED
    BY <1>4, <1>5, <1>6

\* The lower stands below fewer.
LEMMA BelowLess ==
  ASSUME NEW S, IsFiniteSet(S), NEW R, Orders(R, S), NEW a \in S, NEW b \in S, <<a, b>> \in R
  PROVE  Cardinality(Below(R, S, a)) < Cardinality(Below(R, S, b))
  <1>1. Below(R, S, a) \subseteq Below(R, S, b)
    BY DEF Below, Orders
  <1>2. a \in Below(R, S, b) /\ a \notin Below(R, S, a)
    BY DEF Below, Orders
  <1>3. PICK A, B : A = Below(R, S, a) /\ B = Below(R, S, b)
    OBVIOUS
  <1>4. IsFiniteSet(B) /\ Cardinality(A) \in Nat /\ Cardinality(B) \in Nat
    BY <1>3, BelowCount
  <1>5. Cardinality(A) <= Cardinality(B) /\ (Cardinality(A) = Cardinality(B) => A = B)
    BY <1>1, <1>3, <1>4, FS_Subset
  <1> QED
    BY <1>2, <1>3, <1>4, <1>5

\* Those below which fewer than n stand are n, or all.
LEMMA BestCount ==
  ASSUME NEW S, IsFiniteSet(S), NEW R, Orders(R, S), NEW n \in Nat,
         NEW B, B = {e \in S : Cardinality(Below(R, S, e)) < n}
  PROVE  /\ IsFiniteSet(B) /\ Cardinality(B) \in Nat /\ Cardinality(B) <= n
         /\ Cardinality(B) = n \/ B = S
  <1>1. IsFiniteSet(B) /\ Cardinality(B) \in Nat
    <2>1. B \in SUBSET S
      OBVIOUS
    <2> QED
      BY <2>1, FS_Subset, FS_CardinalityType
  <1>2. PICK T : T = 0..(n - 1)
    OBVIOUS
  <1>3. IsFiniteSet(T) /\ Cardinality(T) = n
    <2>1. 0 \in Int /\ n - 1 \in Int
      OBVIOUS
    <2>2. IsFiniteSet(0..(n - 1)) /\ Cardinality(0..(n - 1)) = IF 0 > n - 1 THEN 0 ELSE (n - 1) - 0 + 1
      BY <2>1, FS_Interval
    <2> QED
      BY <1>2, <2>2
  <1>4. PICK f : f = [e \in B |-> Cardinality(Below(R, S, e))]
    OBVIOUS
  <1>5. \A e \in B : f[e] \in T
    <2> SUFFICES ASSUME NEW e \in B PROVE f[e] \in T
      OBVIOUS
    <2>1. f[e] \in Nat /\ f[e] < n
      BY <1>4, BelowCount
    <2> QED
      BY <1>2, <2>1
  <1>6. \A d, e \in B : f[d] = f[e] => d = e
    <2> SUFFICES ASSUME NEW d \in B, NEW e \in B, d # e PROVE f[d] # f[e]
      OBVIOUS
    <2>1. <<d, e>> \in R \/ <<e, d>> \in R
      BY DEF Orders
    <2>2. Cardinality(Below(R, S, d)) < Cardinality(Below(R, S, e))
          \/ Cardinality(Below(R, S, e)) < Cardinality(Below(R, S, d))
      BY <2>1, BelowLess
    <2>3. Cardinality(Below(R, S, d)) \in Nat /\ Cardinality(Below(R, S, e)) \in Nat
      BY BelowCount
    <2> QED
      BY <1>4, <2>2, <2>3
  <1>7. f \in Injection(B, T)
    <2>1. f \in [B -> T]
      BY <1>4, <1>5
    <2> QED
      BY <1>6, <2>1 DEF Injection, IsInjective
  <1>8. Cardinality(B) <= n
    BY <1>3, <1>7, FS_Injection
  <1>9. PICK c \in Nat : c = Cardinality(S)
    BY FS_CardinalityType
  <1>10. CASE n <= c
    <2>1. \A k \in T : \E e \in B : f[e] = k
      <3> SUFFICES ASSUME NEW k \in T PROVE \E e \in B : f[e] = k
        OBVIOUS
      <3>1. k \in Nat /\ k < n /\ k < c
        BY <1>2, <1>10
      <3>2. Nth(R, S, k)
        BY <1>9, <3>1, NthOf DEF Size
      <3>3. PICK e \in S : Cardinality(Below(R, S, e)) = k
        BY <3>2 DEF Nth
      <3> QED
        BY <1>4, <3>1, <3>3
    <2>2. f \in Surjection(B, T)
      BY <1>4, <1>5, <2>1 DEF Surjection
    <2>3. Cardinality(T) <= Cardinality(B)
      BY <1>1, <2>2, FS_Surjection
    <2> QED
      BY <1>1, <1>3, <1>8, <2>3
  <1>11. CASE c < n
    <2>1. ASSUME NEW e \in S PROVE Cardinality(Below(R, S, e)) < n
      <3>1. Below(R, S, e) \in SUBSET S
        BY DEF Below
      <3>2. PICK A : A = Below(R, S, e)
        OBVIOUS
      <3>3. Cardinality(A) <= c /\ Cardinality(A) \in Nat
        BY <1>9, <3>1, <3>2, FS_Subset, BelowCount
      <3> QED
        BY <1>11, <3>2, <3>3
    <2>2. B = S
      BY <2>1
    <2> QED
      BY <1>1, <1>8, <2>2
  <1> QED
    BY <1>9, <1>10, <1>11

\* The count up to a position tells the position.
UpTo(A, n) == Cardinality({x \in A : x <= n})

LEMMA NthUnique ==
  ASSUME NEW L \in Nat, NEW A \in SUBSET (1..L), NEW n \in A
  PROVE  /\ UpTo(A, n) \in 1..Cardinality(A)
         /\ \A m \in A : UpTo(A, m) = UpTo(A, n) => m = n
  <1> DEFINE U(m) == {x \in A : x <= m}
  <1>1. IsFiniteSet(A) /\ Cardinality(A) \in Nat
    <2>1. IsFiniteSet(1..L)
      BY FS_Interval
    <2> QED
      BY <2>1, FS_Subset, FS_CardinalityType
  <1>2. \A m \in A : m \in Nat
    OBVIOUS
  <1>3. ASSUME NEW m \in A
        PROVE  /\ IsFiniteSet(U(m)) /\ Cardinality(U(m)) \in Nat
               /\ Cardinality(U(m)) <= Cardinality(A) /\ Cardinality(U(m)) # 0
    <2>1. PICK V : V = U(m)
      OBVIOUS
    <2>2. V \in SUBSET A /\ V # {}
      BY <1>2, <2>1
    <2>3. IsFiniteSet(V) /\ Cardinality(V) <= Cardinality(A)
      BY <1>1, <2>2, FS_Subset
    <2>4. Cardinality(V) \in Nat /\ Cardinality(V) # 0
      BY <2>2, <2>3, FS_CardinalityType, FS_EmptySet
    <2> QED
      BY <2>1, <2>3, <2>4
  <1>4. ASSUME NEW k \in A, NEW m \in A, k < m PROVE Cardinality(U(k)) # Cardinality(U(m))
    <2>1. PICK V, W : V = U(k) /\ W = U(m)
      OBVIOUS
    <2>2. V \in SUBSET W /\ V # W
      <3>1. m \in W /\ m \notin V
        BY <1>2, <1>4, <2>1
      <3>2. \A x \in A : x <= k => x <= m
        BY <1>2, <1>4
      <3> QED
        BY <2>1, <3>1, <3>2
    <2>3. IsFiniteSet(W)
      BY <1>3, <2>1
    <2> QED
      BY <2>1, <2>2, <2>3, FS_Subset
  <1>5. Cardinality(U(n)) \in 1..Cardinality(A)
    BY <1>1, <1>3
  <1>6. ASSUME NEW m \in A, Cardinality(U(m)) = Cardinality(U(n)) PROVE m = n
    <2>1. ~(m < n) /\ ~(n < m)
      BY <1>4, <1>6
    <2> QED
      BY <1>2, <2>1
  <1> QED
    BY <1>5, <1>6 DEF UpTo

\* Among keeps what it is asked to keep, and no more than that.
LEMMA AmongHas ==
  ASSUME NEW s, IsSeq(s), NEW S
  PROVE  \A n \in DOMAIN s : s[n] \in S => s[n] \in Elements(Among(s, S))
  <1> SUFFICES ASSUME NEW n \in DOMAIN s, s[n] \in S
               PROVE  s[n] \in Elements(Among(s, S))
    OBVIOUS
  <1> DEFINE at     == {m \in DOMAIN s : s[m] \in S}
             nth(k) == CHOOSE m \in at : Cardinality({x \in at : x <= m}) = k
  <1>1. Len(s) \in Nat /\ DOMAIN s = 1..Len(s)
    BY SeqDomain
  <1>2. Among(s, S) = [k \in 1..Cardinality(at) |-> s[nth(k)]]
    BY DEF Among
  <1>3. n \in at /\ at \in SUBSET (1..Len(s))
    BY <1>1
  <1>4. PICK k : k = UpTo(at, n)
    OBVIOUS
  <1> HIDE DEF at
  <1>5. /\ k \in 1..Cardinality(at)
        /\ \A m \in at : UpTo(at, m) = k => m = n
    BY <1>1, <1>3, <1>4, NthUnique
  <1>6. nth(k) = n
    BY <1>3, <1>4, <1>5 DEF UpTo
  <1> HIDE DEF nth
  <1>7. k \in DOMAIN Among(s, S) /\ Among(s, S)[k] = s[n]
    BY <1>2, <1>5, <1>6
  <1> QED
    BY <1>7 DEF Elements

LEMMA AmongLen ==
  ASSUME NEW t, NEW s, IsSeq(s), Sound(s, t), NEW S, IsFiniteSet(S)
  PROVE  Len(Among(s, S)) \in Nat /\ Len(Among(s, S)) <= Cardinality(S)
  <1>1. PICK r : r = Among(s, S)
    OBVIOUS
  <1>2. Choosing(r, s, S)
    BY <1>1, AmongOf
  <1>3. PICK pos :
          /\ r = [k \in DOMAIN pos |-> s[pos[k]]]
          /\ \A k \in DOMAIN pos : pos[k] \in DOMAIN s /\ s[pos[k]] \in S
          /\ \A k, l \in DOMAIN pos : pos[k] = pos[l] => k = l
    BY <1>2 DEF Choosing
  <1>4. Len(r) \in Nat /\ DOMAIN r = 1..Len(r)
    BY <1>2, SeqDomain DEF Choosing
  <1>5. DOMAIN r = DOMAIN pos /\ \A k \in DOMAIN r : r[k] = s[pos[k]]
    BY <1>3
  <1>6. \A k, l \in DOMAIN r : r[k] = r[l] => k = l
    <2> SUFFICES ASSUME NEW k \in DOMAIN r, NEW l \in DOMAIN r, r[k] = r[l] PROVE k = l
      OBVIOUS
    <2>1. pos[k] \in DOMAIN s /\ pos[l] \in DOMAIN s /\ s[pos[k]].saved = s[pos[l]].saved
      BY <1>3, <1>5
    <2>2. pos[k] = pos[l]
      BY <2>1 DEF Sound
    <2> QED
      BY <1>3, <1>5, <2>2
  <1>7. PICK f : f = [k \in 1..Len(r) |-> r[k]]
    OBVIOUS
  <1>8. f \in Injection(1..Len(r), S)
    <2>1. f \in [1..Len(r) -> S]
      BY <1>3, <1>4, <1>5, <1>7
    <2>2. \A k, l \in 1..Len(r) : f[k] = f[l] => k = l
      BY <1>4, <1>6, <1>7
    <2> QED
      BY <2>1, <2>2 DEF Injection, IsInjective
  <1>9. Cardinality(1..Len(r)) <= Cardinality(S)
    BY <1>8, FS_Injection
  <1>10. Cardinality(1..Len(r)) = Len(r)
    <2>1. 1 \in Int /\ Len(r) \in Int
      BY <1>4
    <2>2. Cardinality(1..Len(r)) = IF 1 > Len(r) THEN 0 ELSE Len(r) - 1 + 1
      BY <2>1, FS_Interval
    <2> QED
      BY <1>4, <2>2
  <1> QED
    BY <1>1, <1>4, <1>9, <1>10

\* Entries told apart by when they were saved.
Apart(S) ==
  /\ \A e \in S : e.saved \in Nat
  /\ \A e, f \in S : e.saved = f.saved => e = f

LEMMA PrefersOrders ==
  ASSUME NEW S, Apart(S), NEW pinned, NEW R,
         \A e, f \in S : <<e, f>> \in R <=> Prefers(pinned, e, f)
  PROVE  Orders(R, S)
  <1>1. \A e \in S : ~Prefers(pinned, e, e)
    BY DEF Apart, Prefers
  <1>2. \A e, f \in S : e # f => (Prefers(pinned, e, f) \/ Prefers(pinned, f, e))
    BY DEF Apart, Prefers
  <1>3. \A e, f, g \in S : (Prefers(pinned, e, f) /\ Prefers(pinned, f, g)) => Prefers(pinned, e, g)
    BY DEF Apart, Prefers
  <1> QED
    BY <1>1, <1>2, <1>3 DEF Orders

\* What a window of n places is given.
Window(B, S, n) ==
  /\ B \in SUBSET S /\ IsFiniteSet(B) /\ Cardinality(B) \in Nat /\ Cardinality(B) <= n
  /\ Cardinality(B) = n \/ B = S

LEMMA BestSize ==
  ASSUME NEW S, IsFiniteSet(S), Apart(S), NEW pinned, NEW n \in Nat
  PROVE  Window(Best(pinned, S, n), S, n)
  <1>1. PICK R : R = {p \in S \X S : Prefers(pinned, p[1], p[2])}
    OBVIOUS
  <1>2. \A e, f \in S : <<e, f>> \in R <=> Prefers(pinned, e, f)
    BY <1>1
  <1>3. Orders(R, S)
    BY <1>2, PrefersOrders
  <1>4. \A e \in S : Below(R, S, e) = {f \in S : Prefers(pinned, f, e)}
    BY <1>2 DEF Below
  <1>5. Best(pinned, S, n) = {e \in S : Cardinality(Below(R, S, e)) < n}
    BY <1>4 DEF Best
  <1>6. PICK B : B = Best(pinned, S, n)
    OBVIOUS
  <1>7. /\ IsFiniteSet(B) /\ Cardinality(B) \in Nat /\ Cardinality(B) <= n
        /\ Cardinality(B) = n \/ B = S
    BY <1>3, <1>5, <1>6, BestCount
  <1>8. B \in SUBSET S
    BY <1>5, <1>6
  <1> QED
    BY <1>6, <1>7, <1>8 DEF Window

LEMMA UnionSize ==
  ASSUME NEW S, IsFiniteSet(S), NEW T, IsFiniteSet(T)
  PROVE  /\ IsFiniteSet(S \cup T)
         /\ Cardinality(S \cup T) \in Nat /\ Cardinality(S \cup T) <= Cardinality(S) + Cardinality(T)
  <1>1. PICK U, V : U = S \cup T /\ V = S \cap T
    OBVIOUS
  <1>2. IsFiniteSet(U) /\ Cardinality(U) = Cardinality(S) + Cardinality(T) - Cardinality(V)
    BY <1>1, FS_Union
  <1>3. V \in SUBSET S
    BY <1>1
  <1>4. Cardinality(V) \in Nat /\ Cardinality(S) \in Nat /\ Cardinality(T) \in Nat
    BY <1>3, FS_Subset, FS_CardinalityType
  <1>5. Cardinality(U) \in Nat
    BY <1>2, FS_CardinalityType
  <1> QED
    BY <1>1, <1>2, <1>4, <1>5

LEMMA ElementsFinite ==
  ASSUME NEW t, NEW s \in Seq(Entries), Sound(s, t)
  PROVE  IsFiniteSet(Elements(s)) /\ \A S \in SUBSET Elements(s) : IsFiniteSet(S) /\ Apart(S)
  <1>1. Len(s) \in Nat /\ DOMAIN s = 1..Len(s) /\ \A n \in DOMAIN s : s[n] \in Entries
    BY SeqIs
  <1>2. IsFiniteSet(Elements(s))
    <2>1. PICK E, I : E = Elements(s) /\ I = 1..Len(s)
      OBVIOUS
    <2>2. IsFiniteSet(I)
      BY <1>1, <2>1, FS_Interval
    <2>3. PICK f : f = [n \in I |-> s[n]]
      OBVIOUS
    <2>4. f \in Surjection(I, E)
      BY <1>1, <2>1, <2>3 DEF Surjection, Elements
    <2> QED
      BY <2>1, <2>2, <2>4, FS_Surjection
  <1>3. ASSUME NEW S \in SUBSET Elements(s) PROVE IsFiniteSet(S) /\ Apart(S)
    <2>1. IsFiniteSet(S)
      BY <1>2, FS_Subset
    <2>2. \A e \in S : \E n \in DOMAIN s : e = s[n]
      BY DEF Elements
    <2>3. \A e \in S : e.saved \in Nat
      BY <1>1, <2>2, EntryFields
    <2>4. ASSUME NEW e \in S, NEW f \in S, e.saved = f.saved PROVE e = f
      <3>1. PICK m, n : m \in DOMAIN s /\ n \in DOMAIN s /\ e = s[m] /\ f = s[n]
        BY <2>2
      <3>2. m = n
        BY <2>4, <3>1 DEF Sound
      <3> QED
        BY <3>1, <3>2
    <2> QED
      BY <2>1, <2>3, <2>4 DEF Apart
  <1> QED
    BY <1>2, <1>3

\* What is retained fits, and its successes are no fewer than their floor.
Kept(s, r) ==
  /\ Len(r) \in Nat /\ Len(r) <= Cap
  /\ SuccessFloor(Cardinality(Succ(s))) <= Cardinality(Succ(r))

LEMMA RetainedKeeps ==
  ASSUME NEW t, NEW s \in Seq(Entries), Sound(s, t), NEW pinned
  PROVE  Kept(s, Retained(s, pinned))
  <1> DEFINE E == Elements(s)
             F == {e \in E : IsFailure(e)}
             G == E \ F
             first == Best(pinned, F, Cap - SuccessFloor(Cardinality(G)))
             best  == Best(pinned, G, Cap - Cardinality(first))
             second == first \cup best
             rest == Best(pinned, E \ second, Cap - Cardinality(second))
             third == second \cup rest
  <1>1. G = Succ(s) /\ F \in SUBSET E /\ G \in SUBSET E
    BY DEF Succ
  <1>2. /\ IsFiniteSet(E) /\ IsFiniteSet(F) /\ Apart(F) /\ IsFiniteSet(G) /\ Apart(G)
        /\ \A S \in SUBSET E : IsFiniteSet(S) /\ Apart(S)
    <2>1. \A S \in SUBSET E : IsFiniteSet(S) /\ Apart(S)
      BY ElementsFinite
    <2> HIDE DEF E, F, G
    <2> QED
      BY <1>1, <2>1
  <1>3. Cap \in Nat
    BY HistoryAssumption
  <1>4. PICK g \in Nat : g = Cardinality(G)
    <2> HIDE DEF G
    <2> QED
      BY <1>2, FS_CardinalityType
  <1>5. PICK f \in Nat : f = SuccessFloor(g) /\ f <= g /\ f <= Cap
    BY FloorIs
  <1>6. Retained(s, pinned) = IF Len(s) <= Cap THEN s ELSE Among(s, third)
    BY DEF Retained
  <1>7. CASE Len(s) <= Cap
    <2>1. Retained(s, pinned) = s
      BY <1>6, <1>7
    <2>2. Len(s) \in Nat
      BY SeqIs
    <2> HIDE DEF G
    <2> QED
      BY <1>1, <1>4, <1>5, <1>7, <2>1, <2>2 DEF Kept
  <1>8. CASE ~(Len(s) <= Cap)
    <2> HIDE DEF E, F, G
    <2>1. Cap - f \in Nat /\ first = Best(pinned, F, Cap - f)
      BY <1>3, <1>4, <1>5
    <2>2. Window(first, F, Cap - f)
      <3> HIDE DEF first
      <3> QED
        BY <1>2, <2>1, BestSize
    <2> HIDE DEF first
    <2>3. PICK a \in Nat : a = Cardinality(first) /\ a <= Cap - f
      BY <2>2 DEF Window
    <2>4. Cap - a \in Nat /\ best = Best(pinned, G, Cap - a) /\ f <= Cap - a
      BY <1>3, <1>5, <2>1, <2>3
    <2>5. Window(best, G, Cap - a)
      <3> HIDE DEF best
      <3> QED
        BY <1>2, <2>4, BestSize
    <2> HIDE DEF best
    <2>6. PICK b \in Nat : b = Cardinality(best) /\ b <= Cap - a /\ f <= b
      <3>1. PICK b \in Nat : b = Cardinality(best) /\ b <= Cap - a /\ (b = Cap - a \/ best = G)
        BY <2>5 DEF Window
      <3>2. CASE b = Cap - a
        BY <2>4, <3>1, <3>2
      <3>3. CASE best = G
        <4>1. f <= b
          BY <1>4, <1>5, <3>1, <3>3
        <4> QED
          BY <3>1, <4>1
      <3> QED
        BY <3>1, <3>2, <3>3
    <2>7. IsFiniteSet(first) /\ IsFiniteSet(best) /\ first \in SUBSET F /\ best \in SUBSET G
      BY <2>2, <2>5 DEF Window
    <2>8. PICK c \in Nat : c = Cardinality(second) /\ c <= a + b /\ IsFiniteSet(second)
      BY <2>3, <2>6, <2>7, UnionSize
    <2>9. best \in SUBSET second
      OBVIOUS
    <2> HIDE DEF second
    <2>10. c <= Cap /\ Cap - c \in Nat /\ rest = Best(pinned, E \ second, Cap - c)
      BY <1>3, <2>3, <2>6, <2>8
    <2>11. Window(rest, E \ second, Cap - c)
      <3>1. PICK S : S = E \ second
        OBVIOUS
      <3>2. S \in SUBSET E
        BY <3>1
      <3>3. IsFiniteSet(S) /\ Apart(S)
        BY <1>2, <3>2
      <3> HIDE DEF rest
      <3> QED
        BY <2>10, <3>1, <3>3, BestSize
    <2> HIDE DEF rest
    <2>12. PICK d \in Nat : d = Cardinality(rest) /\ d <= Cap - c /\ IsFiniteSet(rest)
      BY <2>11 DEF Window
    <2>13. PICK h \in Nat : h = Cardinality(third) /\ h <= c + d /\ IsFiniteSet(third)
      BY <2>8, <2>12, UnionSize
    <2>14. h <= Cap
      BY <1>3, <2>10, <2>12, <2>13
    <2>15. best \in SUBSET third
      BY <2>9
    <2> HIDE DEF third
    <2>16. PICK r : r = Among(s, third) /\ r = Retained(s, pinned)
      BY <1>6, <1>8
    <2>17. IsSeq(s)
      BY ElementsSeq
    <2>18. Len(r) \in Nat /\ Len(r) <= Cap
      <3>1. Len(r) \in Nat /\ Len(r) <= h
        BY <2>13, <2>16, <2>17, AmongLen
      <3> QED
        BY <1>3, <2>14, <3>1
    <2>19. best \in SUBSET Succ(r)
      <3> SUFFICES ASSUME NEW e \in best PROVE e \in Succ(r)
        OBVIOUS
      <3>1. e \in Succ(s)
        BY <1>1, <2>7
      <3>2. PICK n \in DOMAIN s : e = s[n]
        BY <3>1 DEF Succ, Elements
      <3>3. e \in Elements(r)
        BY <2>15, <2>16, <2>17, <3>2, AmongHas
      <3> QED
        BY <3>1, <3>3 DEF Succ
    <2>20. IsFiniteSet(Succ(r))
      <3>1. Choosing(r, s, third)
        BY <2>16, <2>17, AmongOf
      <3>2. Succ(r) \in SUBSET E
        BY <3>1 DEF Succ, Elements, E, Choosing
      <3> QED
        BY <1>2, <3>2
    <2>21. b <= Cardinality(Succ(r))
      <3>1. PICK S : S = Succ(r)
        OBVIOUS
      <3> QED
        BY <2>6, <2>19, <2>20, <3>1, FS_Subset
    <2>22. Cardinality(Succ(r)) \in Nat
      BY <2>20, FS_CardinalityType
    <2> QED
      BY <1>1, <1>4, <1>5, <2>6, <2>16, <2>18, <2>21, <2>22 DEF Kept
  <1> QED
    BY <1>7, <1>8

-----------------------------------------------------------------------------
(* The store, the file and every snapshot between them fit the window.          *)

Fits(f, files, rows, d) ==
  /\ Len(f) <= Cap /\ Len(d) <= Cap
  /\ \A n \in DOMAIN files : Len(files[n]) <= Cap
  /\ \A n \in DOMAIN rows : Len(rows[n].snapshot) <= Cap

LEMMA EmptyFits == Len(<<>>) <= Cap
  <1>1. Cap \in Nat
    BY HistoryAssumption
  <1>2. Len(<<>>) = 0
    OBVIOUS
  <1> QED
    BY <1>1, <1>2

LEMMA FitsTail ==
  ASSUME NEW f, NEW files \in Seq(Seq(Entries)), NEW rows \in Seq(Appends), NEW d,
         Fits(f, files, rows, d), rows # <<>>
  PROVE  /\ Fits(f, files, Tail(rows), d)
         /\ Fits(f, Append(files, Head(rows).snapshot), Tail(rows), d)
  <1>1. PICK q, g, l, j : /\ q = Tail(rows) /\ j = Head(rows)
                          /\ g = Append(files, j.snapshot) /\ l = Len(files) + 1
    OBVIOUS
  <1>2. /\ j = rows[1] /\ 1 \in DOMAIN rows
        /\ \A n \in DOMAIN q : n \in Nat /\ 1 < n + 1 /\ n + 1 \in DOMAIN rows /\ q[n] = rows[n + 1]
    BY <1>1, TailParts
  <1>3. /\ DOMAIN g = DOMAIN files \cup {l} /\ g[l] = j.snapshot
        /\ \A n \in DOMAIN files : g[n] = files[n]
    BY <1>1, AppendParts
  <1>4. Fits(f, files, q, d) /\ Fits(f, g, q, d)
    BY <1>2, <1>3 DEF Fits
  <1> QED
    BY <1>1, <1>4

LEMMA FitsAppend ==
  ASSUME NEW f, NEW files, NEW rows \in Seq(Appends), NEW d,
         Fits(f, files, rows, d), NEW j, Len(j.snapshot) <= Cap
  PROVE  Fits(f, files, Append(rows, j), d)
  <1>1. PICK q, l : q = Append(rows, j) /\ l = Len(rows) + 1
    OBVIOUS
  <1>2. /\ DOMAIN q = DOMAIN rows \cup {l} /\ q[l] = j
        /\ \A n \in DOMAIN rows : q[n] = rows[n]
    BY <1>1, AppendParts
  <1>3. Fits(f, files, q, d)
    BY <1>2 DEF Fits
  <1> QED
    BY <1>1, <1>3

LEMMA FitsDrop ==
  ASSUME NEW f, NEW files \in Seq(Seq(Entries)), NEW rows, NEW d,
         Fits(f, files, rows, d), files # <<>>
  PROVE  Fits(f, Tail(files), rows, d) /\ Fits(Head(files), Tail(files), rows, d)
  <1>1. PICK q : q = Tail(files)
    OBVIOUS
  <1>2. /\ Head(files) = files[1] /\ 1 \in DOMAIN files
        /\ \A n \in DOMAIN q : n + 1 \in DOMAIN files /\ q[n] = files[n + 1]
    BY <1>1, TailParts
  <1>3. Fits(f, q, rows, d) /\ Fits(files[1], q, rows, d)
    BY <1>2 DEF Fits
  <1> QED
    BY <1>1, <1>2, <1>3

LEMMA RenamedStatus ==
  ASSUME NEW s \in Seq(Entries), NEW e \in Entries
  PROVE  /\ Len(Renamed(s, e)) = Len(s)
         /\ \A n \in DOMAIN s : Renamed(s, e)[n].status = s[n].status
  <1>1. PICK r : r = Renamed(s, e)
    OBVIOUS
  <1>2. r \in Seq(Entries) /\ DOMAIN r = DOMAIN s
    BY <1>1, RenamedType, RenamedParts
  <1>3. Len(r) = Len(s)
    BY <1>2, SeqIs, SameInterval
  <1>4. ASSUME NEW n \in DOMAIN s PROVE r[n].status = s[n].status
    <2>1. r[n] = IF s[n] = e THEN [e EXCEPT !.id = Archival(e.id[1], e.saved)] ELSE s[n]
      BY <1>1 DEF Renamed
    <2>2. \A x : [e EXCEPT !.id = x].status = e.status
      BY DEF Entries
    <2> QED
      BY <2>1, <2>2
  <1> QED
    BY <1>1, <1>3, <1>4

RenamedFiles(files, e) == [n \in DOMAIN files |-> Renamed(files[n], e)]
RenamedRows(rows, e) == [n \in DOMAIN rows |-> [rows[n] EXCEPT !.snapshot = Renamed(@, e)]]

\* A renaming leaves the id to the operation to come.
LEMMA FitsRenamed ==
  ASSUME NEW t \in Nat, NEW f, NEW files \in Seq(Seq(Entries)), NEW rows \in Seq(Appends),
         NEW d \in Seq(Entries), Sound(d, t), Fits(f, files, rows, d),
         NEW e \in Entries, e \in Elements(d), NEW i, e.id = Live(i)
  PROVE  /\ Fits(f, RenamedFiles(files, e), RenamedRows(rows, e), Renamed(d, e))
         /\ \A n \in DOMAIN Renamed(d, e) : Renamed(d, e)[n].id # Live(i)
  <1> PICK g, q : g = RenamedFiles(files, e) /\ q = RenamedRows(rows, e)
    OBVIOUS
  <1> PICK k : k \in DOMAIN d /\ d[k] = e
    BY DEF Elements
  <1>1. PICK r : r = Renamed(d, e)
    OBVIOUS
  <1>2. /\ Len(r) = Len(d) /\ DOMAIN r = DOMAIN d
        /\ \A n \in DOMAIN d :
              /\ r[n].started = d[n].started /\ r[n].status = d[n].status
              /\ d[n] = e => r[n].id = <<e.id[1], e.saved>>
              /\ d[n] # e => r[n].id = d[n].id
    BY <1>1, RenamedParts, RenamedStatus
  <1>3. e.saved # 0
    BY DEF Sound
  <1>4. \A n \in DOMAIN d : \A x : r[n].id = Live(x) => (d[n].id = Live(x) /\ d[n] # e)
    BY <1>2, <1>3 DEF Live
  <1>5. \A n \in DOMAIN r : r[n].id # Live(i)
    BY <1>2, <1>4 DEF Sound
  <1>6. ASSUME NEW n \in DOMAIN rows
        PROVE  Len(q[n].snapshot) = Len(rows[n].snapshot)
    <2>1. PICK j \in Appends : j = rows[n]
      BY SeqIs
    <2>2. PICK s \in Seq(Entries) : s = j.snapshot
      BY JobFields
    <2>3. PICK u : u = Renamed(s, e) /\ Len(u) = Len(s)
      BY RenamedStatus
    <2>4. q[n] = [j EXCEPT !.snapshot = u]
      BY <2>1, <2>2, <2>3 DEF RenamedRows
    <2>5. [j EXCEPT !.snapshot = u].snapshot = u
      BY DEF Appends
    <2> QED
      BY <2>1, <2>2, <2>3, <2>4, <2>5
  <1>7. \A n \in DOMAIN files : Len(g[n]) = Len(files[n])
    <2> SUFFICES ASSUME NEW n \in DOMAIN files PROVE Len(g[n]) = Len(files[n])
      OBVIOUS
    <2>1. PICK s \in Seq(Entries) : s = files[n]
      BY SeqIs
    <2>2. Len(Renamed(s, e)) = Len(s)
      BY RenamedStatus
    <2> QED
      BY <2>1, <2>2 DEF RenamedFiles
  <1>8. DOMAIN q = DOMAIN rows /\ DOMAIN g = DOMAIN files
    BY DEF RenamedFiles, RenamedRows
  <1>9. Fits(f, g, q, r)
    BY <1>2, <1>6, <1>7, <1>8 DEF Fits
  <1> QED
    BY <1>1, <1>5, <1>9

\* What a persist leaves in the store.
LEMMA PersistKept ==
  ASSUME NEW t \in Nat, NEW d \in Seq(Entries), Sound(d, t),
         NEW e \in Entries, e.saved = t + 1, e.id[2] = 0, NEW pinned,
         NEW s, s = Upsert(d, e), NEW r, r = Retained(s, pinned)
  PROVE  /\ s \in Seq(Entries) /\ Sound(s, t + 1) /\ Kept(s, r)
         /\ \A n \in DOMAIN r : r[n] = e \/ \E k \in DOMAIN d : r[n] = d[k]
  <1>1. s \in Seq(Entries) /\ Sound(s, t + 1)
    BY UpsertType, UpsertKeeps
  <1>2. Kept(s, r)
    <2>1. t + 1 \in Nat
      OBVIOUS
    <2> QED
      BY <1>1, <2>1, RetainedKeeps
  <1>3. \A n \in DOMAIN s : s[n] = e \/ \E k \in DOMAIN d : s[n] = d[k]
    BY UpsertParts
  <1>4. \A n \in DOMAIN r : \E k \in DOMAIN s : r[n] = s[k]
    BY <1>1, RetainedIsPart, PartKeeps
  <1> QED
    BY <1>1, <1>2, <1>3, <1>4

LEMMA SuccFinite ==
  ASSUME NEW t, NEW s \in Seq(Entries), Sound(s, t), NEW S \in SUBSET Succ(s)
  PROVE  /\ Cardinality(S) \in Nat /\ Cardinality(Succ(s)) \in Nat
         /\ SuccessFloor(Cardinality(S)) <= SuccessFloor(Cardinality(Succ(s)))
         /\ SuccessFloor(Cardinality(S)) <= Cardinality(Succ(s))
  <1>1. PICK T : T = Succ(s)
    OBVIOUS
  <1>2. T \in SUBSET Elements(s) /\ S \in SUBSET T
    BY <1>1 DEF Succ
  <1>3. IsFiniteSet(T)
    BY <1>2, ElementsFinite
  <1>4. PICK a, b : a = Cardinality(S) /\ b = Cardinality(T)
    OBVIOUS
  <1>5. a \in Nat /\ b \in Nat /\ a <= b
    BY <1>2, <1>3, <1>4, FS_Subset, FS_CardinalityType
  <1>6. /\ SuccessFloor(a) \in Nat /\ SuccessFloor(b) \in Nat /\ SuccessFloor(a) <= SuccessFloor(b)
        /\ SuccessFloor(a) <= a
    BY <1>5, FloorIs
  <1> QED
    BY <1>1, <1>4, <1>5, <1>6

\* A persist keeps the floor of the successes it does not replace.
LEMMA PersistSuccesses ==
  ASSUME NEW t \in Nat, NEW d \in Seq(Entries), Sound(d, t), Len(d) <= Cap,
         NEW e \in Entries, e.saved = t + 1, e.id[2] = 0,
         NEW pinned, NEW s, s = Upsert(d, e), NEW r, r = Retained(s, pinned),
         NEW Old \in SUBSET Succ(d),
         \A x \in Old : \A f \in Elements(r) : ~(f.id = x.id /\ f.saved > x.saved)
  PROVE  SuccessFloor(Cardinality(Old)) <= Cardinality(Succ(r))
  <1>1. s \in Seq(Entries) /\ Sound(s, t + 1) /\ Kept(s, r)
    BY PersistKept
  <1>2. PICK p : p = Position(d, e.id)
    OBVIOUS
  <1>3. \/ p = 0 /\ \A k \in DOMAIN d : d[k].id # e.id
        \/ p \in DOMAIN d /\ p # 0 /\ d[p].id = e.id
    BY <1>2, ElementsSeq, PositionOf
  <1>4. ASSUME NEW x \in Old PROVE x \in Succ(s)
    <2>1. PICK k \in DOMAIN d : x = d[k]
      BY DEF Succ, Elements
    <2>2. ~IsFailure(x)
      BY DEF Succ
    <2>3. CASE p = 0
      <3>1. s = Append(d, e)
        BY <1>2, <2>3 DEF Upsert
      <3>2. k \in DOMAIN s /\ s[k] = x
        BY <2>1, <3>1, AppendParts
      <3> QED
        BY <2>2, <3>2 DEF Succ, Elements
    <2>4. CASE p # 0
      <3>1. s = [d EXCEPT ![p] = e] /\ p \in DOMAIN d /\ d[p].id = e.id
        BY <1>2, <1>3, <2>4 DEF Upsert
      <3>2. DOMAIN s = DOMAIN d /\ s[p] = e /\ \A n \in DOMAIN d \ {p} : s[n] = d[n]
        BY <3>1
      <3>3. k # p
        <4> SUFFICES ASSUME k = p PROVE FALSE
          OBVIOUS
        <4>1. Len(s) = Len(d)
          BY <1>1, <3>2, SeqIs, SameInterval
        <4>2. r = s
          BY <4>1 DEF Retained
        <4>3. e \in Elements(r)
          BY <3>1, <3>2, <4>2 DEF Elements
        <4>4. x.id = e.id
          BY <2>1, <3>1
        <4>5. x.saved \in 1..t
          BY <2>1 DEF Sound
        <4>6. e.saved > x.saved
          BY <4>5
        <4> QED
          BY <4>3, <4>4, <4>6
      <3>4. k \in DOMAIN s /\ s[k] = x
        BY <2>1, <3>2, <3>3
      <3> QED
        BY <2>2, <3>4 DEF Succ, Elements
    <2> QED
      BY <2>3, <2>4
  <1>5. Old \in SUBSET Succ(s)
    BY <1>4
  <1>6. /\ Cardinality(Old) \in Nat /\ Cardinality(Succ(s)) \in Nat
        /\ SuccessFloor(Cardinality(Old)) <= SuccessFloor(Cardinality(Succ(s)))
    BY <1>1, <1>5, SuccFinite
  <1>7. r \in Seq(Entries) /\ Sound(r, t + 1)
    BY <1>1, RetainedType, RetainedIsPart, PartKeeps
  <1>8. Cardinality(Succ(r)) \in Nat
    <2>1. Succ(r) \in SUBSET Succ(r)
      OBVIOUS
    <2> QED
      BY <1>7, <2>1, SuccFinite
  <1>9. PICK a, b, c : /\ a = SuccessFloor(Cardinality(Old)) /\ b = SuccessFloor(Cardinality(Succ(s)))
                       /\ c = Cardinality(Succ(r))
    OBVIOUS
  <1>10. a \in Nat /\ b \in Nat /\ c \in Nat /\ a <= b /\ b <= c
    BY <1>1, <1>6, <1>8, <1>9, FloorIs DEF Kept
  <1> QED
    BY <1>9, <1>10

\* Successes counted by their positions.
LEMMA SuccCount ==
  ASSUME NEW t, NEW s \in Seq(Entries), Sound(s, t)
  PROVE  Cardinality(Succ(s)) = Cardinality({n \in DOMAIN s : ~IsFailure(s[n])})
  <1>1. PICK P, T : P = {n \in DOMAIN s : ~IsFailure(s[n])} /\ T = Succ(s)
    OBVIOUS
  <1>2. Len(s) \in Nat /\ DOMAIN s = 1..Len(s)
    BY SeqIs
  <1>3. IsFiniteSet(P)
    <2>1. PICK I : I = 1..Len(s)
      OBVIOUS
    <2>2. IsFiniteSet(I) /\ P \in SUBSET I
      BY <1>1, <1>2, <2>1, FS_Interval
    <2> QED
      BY <2>2, FS_Subset
  <1>4. PICK f : f = [n \in P |-> s[n]]
    OBVIOUS
  <1>5. f \in Surjection(P, T)
    <2>1. \A n \in P : f[n] \in T
      BY <1>1, <1>4 DEF Succ, Elements
    <2>2. \A x \in T : \E n \in P : f[n] = x
      BY <1>1, <1>4 DEF Succ, Elements
    <2> QED
      BY <1>4, <2>1, <2>2 DEF Surjection
  <1>6. f \in Injection(P, T)
    <2>1. \A m, n \in P : f[m] = f[n] => m = n
      BY <1>1, <1>4 DEF Sound
    <2>2. f \in [P -> T]
      BY <1>5 DEF Surjection
    <2> QED
      BY <2>1, <2>2 DEF Injection, IsInjective
  <1>7. Cardinality(T) = Cardinality(P)
    BY <1>3, <1>5, <1>6, FS_Surjection
  <1> QED
    BY <1>1, <1>7

LEMMA RenamedSuccesses ==
  ASSUME NEW t \in Nat, NEW d \in Seq(Entries), Sound(d, t), NEW e \in Entries
  PROVE  Cardinality(Succ(Renamed(d, e))) = Cardinality(Succ(d))
  <1>1. PICK r : r = Renamed(d, e)
    OBVIOUS
  <1>2. r \in Seq(Entries) /\ Sound(r, t)
    BY <1>1, RenamedType, RenamedSound
  <1>3. {n \in DOMAIN r : ~IsFailure(r[n])} = {n \in DOMAIN d : ~IsFailure(d[n])}
    BY <1>1, RenamedParts, RenamedStatus DEF IsFailure
  <1> QED
    BY <1>1, <1>2, <1>3, SuccCount

FitInv == FileInv /\ Fits(file, fileQueue, rowQueue, detail)

LEMMA FitInit == Init => FitInv
  <1> SUFFICES ASSUME Init PROVE FitInv
    OBVIOUS
  <1>1. FileInv
    BY FileInit
  <1>2. detail = <<>> /\ rowQueue = <<>> /\ fileQueue = <<>>
    BY DEF Init
  <1>3. Len(file) <= Cap
    <2>1. CASE file = <<>>
      BY <2>1, EmptyFits
    <2>2. CASE file # <<>>
      <3>1. \E e : file = <<e>>
        BY <2>2 DEF Init
      <3>2. Len(file) = 1
        BY <3>1
      <3>3. Cap \in Nat /\ Cap # 0
        BY HistoryAssumption
      <3> QED
        BY <3>2, <3>3
    <2> QED
      BY <2>1, <2>2
  <1> QED
    BY <1>1, <1>2, <1>3, EmptyFits, EmptyIsSeq DEF FitInv, Fits

LEMMA OpenedFits ==
  ASSUME NEW f, NEW files, NEW queue \in Seq(Appends), NEW d,
         Fits(f, files, queue, d), NEW i, NEW started, Opened(i, started, queue)
  PROVE  Fits(f, files, rowQueue', d)
  <1>1. PICK j : rowQueue' = Append(queue, j) /\ j.snapshot = <<>>
    BY DEF Opened
  <1>2. Len(j.snapshot) <= Cap
    BY <1>1, EmptyFits
  <1>3. Fits(f, files, Append(queue, j), d)
    BY <1>2, FitsAppend
  <1> QED
    BY <1>1, <1>3

LEMMA ContinueFits ==
  ASSUME TypeOK, Fits(file, fileQueue, rowQueue, detail),
         rowQueue # <<>>, Continue(Head(rowQueue))
  PROVE  Fits(file, fileQueue', rowQueue', detail)
  <1>1. rowQueue \in Seq(Appends) /\ fileQueue \in Seq(Seq(Entries))
    BY DEF TypeOK
  <1>2. PICK job, rest : job = Head(rowQueue) /\ rest = Tail(rowQueue)
    OBVIOUS
  <1>3. rest \in Seq(Appends) /\ job.then \in {"none", "open", "write"}
    BY <1>1, <1>2, HeadTypes, JobFields
  <1>4. \/ rowQueue' = rest /\ fileQueue' = fileQueue
        \/ Opened(job.row.id[1], job.started, rest) /\ fileQueue' = fileQueue
        \/ rowQueue' = rest /\ fileQueue' = Append(fileQueue, job.snapshot)
    BY <1>2, <1>3 DEF Continue
  <1>5. /\ Fits(file, fileQueue, rest, detail)
        /\ Fits(file, Append(fileQueue, job.snapshot), rest, detail)
    BY <1>1, <1>2, FitsTail
  <1>6. CASE Opened(job.row.id[1], job.started, rest) /\ fileQueue' = fileQueue
    BY <1>3, <1>5, <1>6, OpenedFits
  <1> QED
    BY <1>4, <1>5, <1>6

\* The entry under a record's id, and what a persist makes of it.
LEMMA LiveEntry ==
  ASSUME NEW i \in Ids, NEW d \in Seq(Entries), NEW n, n = Position(d, Live(i)), n # 0
  PROVE  n \in DOMAIN d /\ d[n] \in Entries /\ d[n].id = Live(i)
  <1>1. IsSeq(d) /\ \A k \in DOMAIN d : d[k] \in Entries
    BY ElementsSeq, SeqIs
  <1> QED
    BY <1>1, PositionOf

LEMMA PersistEntry ==
  ASSUME TypeOK, NEW i \in DOMAIN active, NEW e,
         e = [id |-> Live(i), started |-> active[i].started, saved |-> now + 1,
              status |-> active[i].status]
  PROVE  /\ e \in Entries /\ e.saved = now + 1 /\ e.id = Live(i) /\ e.id[2] = 0
         /\ e.started = active[i].started /\ e.status = active[i].status
  BY DEF TypeOK, Ops, Live, Names, Entries

LEMMA FitStep == FitInv /\ [Next]_vars => FitInv'
  <1> SUFFICES ASSUME FitInv, [Next]_vars PROVE FitInv'
    OBVIOUS
  <1> DEFINE W == Fits(file, fileQueue, rowQueue, detail)
  <1>1. FileInv /\ FileInv' /\ TypeOK /\ Latched /\ W
    BY FileStep DEF FitInv, FileInv
  <1>2. /\ detail \in Seq(Entries) /\ rowQueue \in Seq(Appends) /\ now \in Nat
        /\ fileQueue \in Seq(Seq(Entries)) /\ file \in Seq(Entries)
    BY <1>1 DEF TypeOK
  <1>3. Sound(detail, now)
    BY <1>1 DEF FileInv, InLine, AllSound
  <1> SUFFICES W'
    BY <1>1 DEF FitInv
  <1>4. ASSUME UNCHANGED <<file, fileQueue, rowQueue, detail>> PROVE W'
    BY <1>1, <1>4
  <1>5. ASSUME NEW i \in Ids, Begin(i) PROVE W'
    <2>1. file' = file
      BY <1>5 DEF Begin, disk
    <2>2. PICK n : n = Position(detail, Live(i))
      OBVIOUS
    <2>3. CASE n = 0
      <3>1. Opened(i, now', rowQueue) /\ UNCHANGED <<detail, fileQueue>>
        BY <1>5, <2>2, <2>3 DEF Begin
      <3>2. Fits(file, fileQueue, rowQueue', detail)
        BY <1>1, <1>2, <3>1, OpenedFits
      <3> QED
        BY <2>1, <3>1, <3>2
    <2>4. CASE n # 0
      <3>1. PICK e \in Entries : n \in DOMAIN detail /\ e = detail[n] /\ e.id = Live(i)
        BY <1>2, <2>2, <2>4, LiveEntry
      <3>2. PICK g, q : /\ g = [k \in DOMAIN fileQueue |-> Renamed(fileQueue[k], e)]
                        /\ q = [k \in DOMAIN rowQueue |->
                                  [rowQueue[k] EXCEPT !.snapshot = Renamed(@, e)]]
        OBVIOUS
      <3>3. /\ detail' = Renamed(detail, e) /\ fileQueue' = g
            /\ \E row : rowQueue' = Append(q, [row |-> row, then |-> "open", started |-> now',
                                                snapshot |-> <<>>])
        BY <1>5, <2>2, <2>4, <3>1, <3>2 DEF Begin
      <3>4. PICK j : rowQueue' = Append(q, j) /\ j.snapshot = <<>>
        <4>1. PICK row : rowQueue' = Append(q, [row |-> row, then |-> "open", started |-> now',
                                                snapshot |-> <<>>])
          BY <3>3
        <4>2. PICK j : j = [row |-> row, then |-> "open", started |-> now', snapshot |-> <<>>]
          OBVIOUS
        <4> QED
          BY <4>1, <4>2
      <3>5. q \in Seq(Appends)
        BY <1>2, <3>1, <3>2, RenamedQueueTypes
      <3>6. PICK d : d = Renamed(detail, e)
        OBVIOUS
      <3>7. Fits(file, g, q, d)
        <4>1. PICK t, f, files, rows, c :
                /\ t = now /\ f = file /\ files = fileQueue /\ rows = rowQueue /\ c = detail
          OBVIOUS
        <4>2. /\ t \in Nat /\ files \in Seq(Seq(Entries)) /\ rows \in Seq(Appends)
              /\ c \in Seq(Entries) /\ Sound(c, t) /\ Fits(f, files, rows, c)
          BY <1>1, <1>2, <1>3, <4>1
        <4>3. e \in Elements(c) /\ e.id = Live(i)
          BY <3>1, <4>1 DEF Elements
        <4>4. g = RenamedFiles(files, e) /\ q = RenamedRows(rows, e)
          BY <3>2, <4>1 DEF RenamedFiles, RenamedRows
        <4>5. Fits(f, RenamedFiles(files, e), RenamedRows(rows, e), Renamed(c, e))
          BY <4>2, <4>3, FitsRenamed
        <4> QED
          BY <3>6, <4>1, <4>4, <4>5
      <3>8. Len(j.snapshot) <= Cap
        BY <3>4, EmptyFits
      <3>9. Fits(file, g, Append(q, j), d)
        BY <3>5, <3>7, <3>8, FitsAppend
      <3> QED
        BY <2>1, <3>3, <3>4, <3>6, <3>9
    <2> QED
      BY <2>3, <2>4
  <1>6. ASSUME NEW i \in Ids, NEW stored \in SUBSET Ids, Persist(i, stored) PROVE W'
    <2>1. UNCHANGED <<file, fileQueue>> /\ i \in DOMAIN active /\ now' = now + 1
      BY <1>6 DEF Persist, disk
    <2>2. PICK e : e = [id |-> Live(i), started |-> active[i].started, saved |-> now + 1,
                        status |-> active[i].status]
      OBVIOUS
    <2>3. e \in Entries /\ e.saved = now + 1 /\ e.id[2] = 0
      BY <1>1, <2>1, <2>2, PersistEntry
    <2>4. PICK s, pinned, r : /\ s = Upsert(detail, e) /\ pinned = Pinned(s, stored)
                              /\ r = Retained(s, pinned)
      OBVIOUS
    <2>5. /\ detail' = r
          /\ \E row, started :
               rowQueue' = Append(rowQueue, [row |-> row, then |-> "write", started |-> started,
                                             snapshot |-> r])
      BY <1>6, <2>1, <2>2, <2>4 DEF Persist, Enqueue
    <2>6. PICK j : rowQueue' = Append(rowQueue, j) /\ j.snapshot = r
      <3>1. PICK row, started :
              rowQueue' = Append(rowQueue, [row |-> row, then |-> "write", started |-> started,
                                            snapshot |-> r])
        BY <2>5
      <3>2. PICK j : j = [row |-> row, then |-> "write", started |-> started, snapshot |-> r]
        OBVIOUS
      <3> QED
        BY <3>1, <3>2
    <2>7. Len(r) <= Cap
      <3>1. PICK t, d : t = now /\ d = detail
        OBVIOUS
      <3>2. t \in Nat /\ d \in Seq(Entries) /\ Sound(d, t) /\ e.saved = t + 1 /\ s = Upsert(d, e)
        BY <1>2, <1>3, <2>3, <2>4, <3>1
      <3>3. Kept(s, r)
        BY <2>3, <2>4, <3>2, PersistKept
      <3> QED
        BY <3>3 DEF Kept
    <2>8. Fits(file, fileQueue, rowQueue, r)
      BY <1>1, <2>7 DEF Fits
    <2>9. Fits(file, fileQueue, Append(rowQueue, j), r)
      BY <1>2, <2>6, <2>7, <2>8, FitsAppend
    <2> QED
      BY <2>1, <2>5, <2>6, <2>9
  <1>7. CASE \/ \E i \in Ids, s \in Statuses : Settle(i, s)
             \/ PruneActive \/ Damage \/ Repair
    BY <1>4, <1>7 DEF Settle, PruneActive, Damage, Repair, disk, memory
  <1>8. ASSUME rowQueue # <<>>, Continue(Head(rowQueue)), UNCHANGED <<detail, file>> PROVE W'
    <2>1. Fits(file, fileQueue', rowQueue', detail)
      BY <1>1, <1>8, ContinueFits
    <2> QED
      BY <1>8, <2>1
  <1>9. CASE AppendRow \/ AppendFails
    BY <1>8, <1>9 DEF AppendRow, AppendFails
  <1>10. CASE WriteDetails \/ WriteFails
    <2>1. /\ fileQueue # <<>> /\ fileQueue' = Tail(fileQueue)
          /\ file' = Head(fileQueue) \/ file' = file
          /\ UNCHANGED <<detail, rowQueue>>
      BY <1>10 DEF WriteDetails, WriteFails, disk
    <2>2. /\ Fits(file, Tail(fileQueue), rowQueue, detail)
          /\ Fits(Head(fileQueue), Tail(fileQueue), rowQueue, detail)
      BY <1>1, <1>2, <2>1, FitsDrop
    <2> QED
      BY <2>1, <2>2
  <1>11. CASE Crash
    <2>1. detail' = <<>> /\ rowQueue' = <<>> /\ fileQueue' = <<>> /\ file' = file
      BY <1>11 DEF Crash
    <2> QED
      BY <1>1, <2>1, EmptyFits, EmptyIsSeq DEF Fits
  <1>12. CASE Boot
    <2>1. (detail' = <<>> \/ detail' = file) /\ UNCHANGED <<rowQueue, fileQueue, file>>
      BY <1>12 DEF Boot, LoadTransactionLogs
    <2> QED
      BY <1>1, <2>1, EmptyFits DEF Fits
  <1>13. CASE UNCHANGED vars
    BY <1>4, <1>13 DEF vars, memory, disk
  <1> QED
    BY <1>5, <1>6, <1>7, <1>9, <1>10, <1>11, <1>12, <1>13 DEF Next

SuccessStep ==
  up /\ up' =>
    LET Old == {e \in Elements(detail) : ~IsFailure(e) /\
                  ~\E f \in Elements(detail') : f.id = e.id /\ f.saved > e.saved}
        New == {e \in Elements(detail') : ~IsFailure(e)}
    IN  Cardinality(New) >= Least({Reserved, Cardinality(Old), Cap \div 2})

LEMMA SuccessAction == FitInv /\ [Next]_vars => [SuccessStep]_vars
  <1> SUFFICES ASSUME FitInv, Next, up, up' PROVE SuccessStep
    BY DEF SuccessStep
  <1>1. PICK Old : Old = {e \in Elements(detail) : ~IsFailure(e) /\
                  ~\E f \in Elements(detail') : f.id = e.id /\ f.saved > e.saved}
    OBVIOUS
  <1>2. PICK d, r, t : d = detail /\ r = detail' /\ t = now
    OBVIOUS
  <1>3. TypeOK /\ Fits(file, fileQueue, rowQueue, detail)
    BY DEF FitInv, FileInv
  <1>4. t \in Nat /\ d \in Seq(Entries) /\ Sound(d, t) /\ Len(d) <= Cap
    BY <1>2, <1>3 DEF FitInv, FileInv, TypeOK, InLine, AllSound, Fits
  <1>5. Old \in SUBSET Succ(d)
    BY <1>1, <1>2 DEF Succ
  <1>6. SUFFICES SuccessFloor(Cardinality(Old)) <= Cardinality(Succ(r))
    <2>1. PICK New : New = {e \in Elements(detail') : ~IsFailure(e)}
      OBVIOUS
    <2>2. New = Succ(r)
      BY <1>2, <2>1 DEF Succ
    <2>3. SuccessStep <=> Cardinality(New) >= SuccessFloor(Cardinality(Old))
      BY <1>1, <2>1 DEF SuccessStep, SuccessFloor
    <2> QED
      BY <1>6, <2>2, <2>3
  <1>7. CASE r = d
    BY <1>4, <1>5, <1>7, SuccFinite
  <1>8. ASSUME NEW i \in Ids, Begin(i)
        PROVE  SuccessFloor(Cardinality(Old)) <= Cardinality(Succ(r))
    <2>1. PICK n : n = Position(detail, Live(i))
      OBVIOUS
    <2>2. CASE n = 0
      <3>1. r = d
        BY <1>2, <1>8, <2>1, <2>2 DEF Begin
      <3> QED
        BY <1>7, <3>1
    <2>3. CASE n # 0
      <3>1. r = Renamed(d, d[n])
        BY <1>2, <1>8, <2>1, <2>3 DEF Begin
      <3>2. d[n] \in Entries
        BY <1>2, <1>4, <2>1, <2>3, LiveEntry
      <3>3. Cardinality(Succ(r)) = Cardinality(Succ(d))
        BY <1>4, <3>1, <3>2, RenamedSuccesses
      <3> QED
        BY <1>4, <1>5, <3>3, SuccFinite
    <2> QED
      BY <2>2, <2>3
  <1>9. ASSUME NEW i \in Ids, NEW stored \in SUBSET Ids, Persist(i, stored)
        PROVE  SuccessFloor(Cardinality(Old)) <= Cardinality(Succ(r))
    <2>1. now' = now + 1 /\ i \in DOMAIN active
      BY <1>9 DEF Persist
    <2>2. PICK e : e = [id |-> Live(i), started |-> active[i].started, saved |-> now + 1,
                        status |-> active[i].status]
      OBVIOUS
    <2>3. /\ e \in Entries /\ e.saved = t + 1 /\ e.id = Live(i) /\ e.id[2] = 0
          /\ e.started = active[i].started
      BY <1>2, <1>3, <2>1, <2>2, PersistEntry
    <2>4. PICK s, pinned : s = Upsert(d, e) /\ pinned = Pinned(s, stored)
      OBVIOUS
    <2>5. r = Retained(s, pinned)
      BY <1>2, <1>9, <2>1, <2>2, <2>4 DEF Persist
    <2>6. \A x \in Old : \A f \in Elements(r) : ~(f.id = x.id /\ f.saved > x.saved)
      BY <1>1, <1>2
    <2> QED
      BY <1>4, <1>5, <2>3, <2>4, <2>5, <2>6, PersistSuccesses
  <1>10. detail' = detail => SuccessFloor(Cardinality(Old)) <= Cardinality(Succ(r))
    BY <1>2, <1>7
  <1>11. CASE \/ \E i \in Ids, s \in Statuses : Settle(i, s)
              \/ PruneActive \/ AppendRow \/ AppendFails \/ WriteDetails \/ WriteFails
    BY <1>10, <1>11 DEF Settle, PruneActive, AppendRow, AppendFails, WriteDetails, WriteFails
  <1>12. CASE Crash \/ Boot \/ Damage \/ Repair
    BY <1>12 DEF Crash, Boot, Damage, Repair
  <1> QED
    BY <1>8, <1>9, <1>11, <1>12 DEF Next

\* A burst of failures cannot erase every success, for any window, any number of
\* reserved places and any pinned entries: while the controller runs, the successes a
\* step leaves in the store of details (selectRetainedDetail) are no fewer than the least
\* of the reserved places, half of the window, and the successes it found there and did
\* not replace under their id.
THEOREM SuccessesKept == Spec => SuccessesSurvive
  <1>1. Spec => [][SuccessStep]_vars
    BY FitInit, FitStep, SuccessAction, PTL DEF Spec
  <1> QED
    BY <1>1, PTL DEF SuccessesSurvive, SuccessStep
=============================================================================

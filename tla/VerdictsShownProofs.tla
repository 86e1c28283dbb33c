------------------------ MODULE VerdictsShownProofs -------------------------
(* Every verdict is shown, for every value of the constants of                  *)
(* TransactionHistory.                                                          *)
(*                                                                              *)
(* The history is looked at from above, as a view: the rows of the ledger       *)
(* followed by those on their way to it, and the snapshots of the details, each *)
(* with the number of rows that were asked for before it.  What the controller  *)
(* and its environment do to the stores are a few steps of the view.  That each *)
(* of them preserves Good, an invariant of the view, is proved first; then that *)
(* each action of the history is such a step, or two.                           *)
EXTENDS TransactionHistoryProofs

IsLive(x) == x.id[2] = 0
IsVerdict(r) == r.kind = "terminal" /\ IsLive(r)

\* A view: the rows k, of which c are known; the shelf sh of snapshots, each with the
\* rows before it; the store d; the records ops and the operations opens that wait to
\* be one, as pairs of an id and a moment; the ids lg that have events; the operations
\* lost; the clock t; the crashes n.
Typed(v) ==
  /\ v.k \in Seq(Rows) /\ v.c \in Nat /\ v.t \in Nat /\ v.n \in Nat
  /\ v.sh \subseteq (SUBSET Entries) \X Nat /\ v.d \in SUBSET Entries
  /\ <<v.d, Len(v.k)>> \in v.sh
  /\ v.ops \subseteq Ids \X Nat /\ v.opens \subseteq Ids \X Nat

\* A moment is that of one persist or start, and each is of one operation of one id.
Mark(x, t, st, own) ==
  /\ x.saved \in 1..t /\ x.started \in 1..t /\ x.id[2] \in {0, x.saved}
  /\ st[x.saved] = x.started /\ own[x.started] = x.id[1]
Marks(v, st, own) ==
  /\ \A n \in DOMAIN v.k : Mark(v.k[n], v.t, st, own)
  /\ \A x \in v.sh : \A e \in x[1] : Mark(e, v.t, st, own)
  /\ \A w \in v.ops \cup v.opens : w[2] \in 1..v.t /\ own[w[2]] = w[1]
  /\ \A w \in v.opens : st[w[2]] = w[2]
Marked(v) == \E st, own : Marks(v, st, own)

\* A snapshot that has an operation has it under an archival id.
Named(S, o) == (\E e \in S : e.started = o) => \E e \in S : e.started = o /\ ~IsLive(e)
Shelved(v, o) == \A x \in v.sh : Named(x[1], o)
Filed(v, m, n) == \E k \in DOMAIN v.k :
  m < k /\ k < n /\ ~IsLive(v.k[k]) /\ v.k[k].started = v.k[m].started

\* An operation with a verdict has a detail.
Stored(v) == \A m \in DOMAIN v.k :
  v.k[m].kind = "terminal" =>
    \/ v.k[m].started \in v.lost
    \/ \E e \in v.d : e.started = v.k[m].started

\* A verdict under the id itself is of a detail that has the id, or was archived.
Held(v) == \A m \in DOMAIN v.k :
  IsVerdict(v.k[m]) =>
    \/ v.k[m].started \in v.lost
    \/ Shelved(v, v.k[m].started)
    \/ Filed(v, m, Len(v.k) + 1)
    \/ \E e \in v.d : IsLive(e) /\ e.started = v.k[m].started

\* Of a verdict under an id and one of a later operation after it, the first was archived
\* before the other was written.
Split(v) == \A m, n \in DOMAIN v.k :
  (m < n /\ IsVerdict(v.k[m]) /\ IsVerdict(v.k[n]) /\ v.k[m].id = v.k[n].id
     /\ v.k[m].started < v.k[n].started) =>
    \/ v.k[m].started \in v.lost
    \/ Shelved(v, v.k[m].started)
    \/ Filed(v, m, n)

\* The operation of a row began by s, or is lost; or the row is only that of a start.
By(v, row, s) == row.started <= s \/ row.started \in v.lost \/ row.kind = "start"

\* The verdicts under an id are those of operations that began later and later, apart
\* from the lost ones: one that began first and opened last replaces the record of the
\* other.
Ascends(v) == \A m, n \in DOMAIN v.k :
  (m < n /\ IsLive(v.k[m]) /\ v.k[m].id = v.k[n].id) => By(v, v.k[m], v.k[n].started)

\* No operation but a lost one has told of itself under the id of a record, or of an
\* operation that waits, and began after it.
Reach(v, w) ==
  /\ \A n \in DOMAIN v.k :
       (IsLive(v.k[n]) /\ v.k[n].id[1] = w[1]) => By(v, v.k[n], w[2])
  /\ \A x \in v.sh : \A e \in x[1] :
       (IsLive(e) /\ e.id[1] = w[1]) => (e.started <= w[2] \/ e.started \in v.lost)
Newest(v) == \A w \in v.ops \cup v.opens : Reach(v, w)

\* An operation that waits has no row, no detail and no record.
Unborn(v) == \A w \in v.opens :
  /\ \A n \in DOMAIN v.k : v.k[n].started # w[2]
  /\ \A x \in v.sh : \A e \in x[1] : e.started # w[2]
  /\ \A o \in v.ops : o[2] # w[2]

\* After a verdict of the operation of a record there is none, under its id, of an
\* operation that began later.
Stand(v) == \A o \in v.ops, m, n \in DOMAIN v.k :
  (/\ m < n /\ v.k[m].started = o[2] /\ IsVerdict(v.k[m]) /\ IsVerdict(v.k[n])
   /\ v.k[m].id = v.k[n].id)
  => v.k[n].started <= o[2]

\* The detail under the id is its own.
OwnDetail(v) ==
  /\ \A w \in v.ops : \A e \in v.d :
       e.id = Live(w[1]) => (e.started = w[2] \/ e.started \in v.lost)
  /\ \A w \in v.opens : \A e \in v.d : e.id = Live(w[1]) => e.started \in v.lost

\* After an earlier row of its id, among the first p, there is a verdict of a detail.
Told1(v, p, e) == \A m \in DOMAIN v.k :
  (IsLive(v.k[m]) /\ v.k[m].id[1] = e.id[1] /\ v.k[m].started < e.started) =>
    \E n \in DOMAIN v.k :
      m < n /\ n <= p /\ IsVerdict(v.k[n]) /\ v.k[n].started = e.started
ToldOnShelf(v) == \A x \in v.sh : \A e \in x[1] :
  IsLive(e) => (e.started \in v.lost \/ Told1(v, x[2], e))
ToldInStore(v) == \A e \in v.d :
  (IsLive(e) /\ e.id[1] \notin v.lg) => (e.started \in v.lost \/ Told1(v, v.c, e))
\* Before the first crash only the operation itself can have written such a row.
OneSoFar(v) == v.n = 0 => \A e \in v.d, n \in DOMAIN v.k :
  (IsLive(e) /\ IsLive(v.k[n]) /\ v.k[n].id[1] = e.id[1] /\ e.id[1] \notin v.lg) =>
    v.k[n].started = e.started

Listed(v) == \A w \in v.ops : w[1] \in v.lg

Good(v) ==
  /\ Typed(v) /\ Marked(v) /\ Stored(v) /\ Held(v) /\ Split(v) /\ Ascends(v) /\ Newest(v)
  /\ Unborn(v) /\ Stand(v) /\ OwnDetail(v) /\ ToldOnShelf(v) /\ ToldInStore(v) /\ OneSoFar(v) /\ Listed(v)

-----------------------------------------------------------------------------
(* The steps of a view, and that each preserves the invariant *)

\* What is on the shelf later: nothing, or what was there, with more rows before it.
Stays(sh, y) == y[1] = {} \/ \E x \in sh : x[1] = y[1] /\ x[2] <= y[2]

\* A record goes, a snapshot is written or lost, a row becomes known.
Rests(v, w) ==
  /\ w.k = v.k /\ w.d = v.d /\ w.lg = v.lg /\ w.lost = v.lost /\ w.opens \subseteq v.opens
  /\ w.t = v.t /\ w.n = v.n
  /\ w.ops \subseteq v.ops /\ v.c <= w.c
  /\ \A y \in w.sh : Stays(v.sh, y)

LEMMA ViewTypes ==
  ASSUME NEW v, Typed(v)
  PROVE  /\ Len(v.k) \in Nat /\ DOMAIN v.k = 1..Len(v.k)
         /\ \A n \in DOMAIN v.k :
              /\ n \in Nat /\ v.k[n] \in Rows /\ v.k[n].id \in Names /\ v.k[n].id[1] \in Ids
              /\ v.k[n].id[2] \in Nat /\ v.k[n].id = <<v.k[n].id[1], v.k[n].id[2]>>
              /\ v.k[n].started \in Nat /\ v.k[n].saved \in Nat
         /\ \A x \in v.sh : x[2] \in Nat /\ x[1] \in SUBSET Entries
         /\ \A e \in Entries :
              /\ e.id \in Names /\ e.id[1] \in Ids /\ e.id[2] \in Nat
              /\ e.id = <<e.id[1], e.id[2]>> /\ e.started \in Nat /\ e.saved \in Nat
  <1>1. Len(v.k) \in Nat /\ DOMAIN v.k = 1..Len(v.k) /\ \A n \in DOMAIN v.k : v.k[n] \in Rows
    BY SeqIs DEF Typed
  <1>2. \A x \in Names : x = <<x[1], x[2]>> /\ x[1] \in Ids /\ x[2] \in Nat
    BY DEF Names
  <1>3. \A n \in DOMAIN v.k : v.k[n].id \in Names /\ v.k[n].started \in Nat /\ v.k[n].saved \in Nat
    BY <1>1, RowFields
  <1>4. \A e \in Entries : e.id \in Names /\ e.started \in Nat /\ e.saved \in Nat
    BY EntryFields
  <1>5. \A x \in v.sh : x[2] \in Nat /\ x[1] \in SUBSET Entries
    BY DEF Typed
  <1>6. \A n \in DOMAIN v.k : n \in Nat
    BY <1>1
  <1> QED
    BY <1>1, <1>2, <1>3, <1>4, <1>5, <1>6

\* What is on the shelf, and what it is like.
LEMMA ShelvedStays ==
  ASSUME NEW v, NEW w, NEW o, Shelved(v, o), \A y \in w.sh : Stays(v.sh, y)
  PROVE  Shelved(w, o)
  <1> SUFFICES ASSUME NEW y \in w.sh PROVE Named(y[1], o)
    BY DEF Shelved
  <1>1. CASE y[1] = {}
    BY <1>1 DEF Named
  <1>2. CASE \E x \in v.sh : x[1] = y[1]
    BY <1>2 DEF Shelved
  <1> QED
    BY <1>1, <1>2 DEF Stays

LEMMA RestsGood ==
  ASSUME NEW v, NEW w, Good(v), Typed(w), Rests(v, w)
  PROVE  Good(w)
  <1>1. Typed(v)
    BY DEF Good
  <1>2. \A y \in w.sh : \A e \in y[1] : \E x \in v.sh : e \in x[1] /\ x[1] = y[1] /\ x[2] <= y[2]
    BY DEF Rests, Stays
  <1>3. \A o : Shelved(v, o) => Shelved(w, o)
    BY ShelvedStays DEF Rests
  <1>4. \A m, n : Filed(v, m, n) => Filed(w, m, n)
    BY DEF Filed, Rests
  <1>5. ASSUME NEW p \in Nat, NEW q \in Nat, p <= q, NEW e, Told1(v, p, e)
        PROVE  Told1(w, q, e)
    <2>1. \A n \in DOMAIN v.k : n \in Nat
      BY <1>1, ViewTypes
    <2> QED
      BY <1>5, <2>1 DEF Told1, Rests
  <1>6. Marked(w)
    <2>1. PICK st, own : Marks(v, st, own)
      BY DEF Good, Marked
    <2>2. Marks(w, st, own)
      BY <1>2, <2>1 DEF Marks, Rests
    <2> QED
      BY <2>2 DEF Marked
  <1>7. Stored(w)
    BY DEF Good, Stored, Rests
  <1>8. Held(w)
    BY <1>3, <1>4 DEF Good, Held, Rests
  <1>9. Split(w)
    BY <1>3, <1>4 DEF Good, Split, Rests
  <1>10. Ascends(w)
    BY DEF Good, Ascends, By, Rests
  <1>11. Newest(w)
    <2>1. ASSUME NEW o, Reach(v, o) PROVE Reach(w, o)
      BY <1>2, <2>1 DEF Reach, By, Rests
    <2> QED
      BY <2>1 DEF Good, Newest, Rests
  <1>12. OwnDetail(w) /\ Listed(w)
    BY DEF Good, OwnDetail, Listed, Rests
  <1>13. ToldOnShelf(w)
    <2> SUFFICES ASSUME NEW y \in w.sh, NEW e \in y[1], IsLive(e), e.started \notin w.lost
                 PROVE  Told1(w, y[2], e)
      BY DEF ToldOnShelf
    <2>1. PICK x \in v.sh : e \in x[1] /\ x[2] <= y[2]
      BY <1>2
    <2>2. Told1(v, x[2], e)
      BY <2>1 DEF Good, ToldOnShelf, Rests
    <2>3. x[2] \in Nat /\ y[2] \in Nat
      BY <1>1, ViewTypes
    <2> QED
      BY <1>5, <2>1, <2>2, <2>3
  <1>14. ToldInStore(w)
    <2> SUFFICES ASSUME NEW e \in w.d, IsLive(e), e.id[1] \notin w.lg, e.started \notin w.lost
                 PROVE  Told1(w, w.c, e)
      BY DEF ToldInStore
    <2>1. Told1(v, v.c, e)
      BY DEF Good, ToldInStore, Rests
    <2>2. v.c \in Nat /\ w.c \in Nat /\ v.c <= w.c
      BY <1>1 DEF Typed, Rests
    <2> QED
      BY <1>5, <2>1, <2>2
  <1>15. OneSoFar(w)
    BY DEF Good, OneSoFar, Rests
  <1>16. Unborn(w)
    BY <1>2 DEF Good, Unborn, Rests
  <1>17. Stand(w)
    BY DEF Good, Stand, Rests
  <1> QED
    BY <1>16, <1>17, <1>6, <1>7, <1>8, <1>9, <1>10, <1>11, <1>12, <1>13, <1>14, <1>15 DEF Good

\* A moment more is given out.
Fresh(f, t, a) == [n \in Nat |-> IF n = t + 1 THEN a ELSE f[n]]

LEMMA FreshIs ==
  ASSUME NEW t \in Nat, NEW f, NEW a
  PROVE  Fresh(f, t, a)[t + 1] = a /\ \A n \in 1..t : Fresh(f, t, a)[n] = f[n]
  BY DEF Fresh

LEMMA MarkLater ==
  ASSUME NEW t \in Nat, NEW st, NEW own, NEW st2, NEW own2,
         \A n \in 1..t : st2[n] = st[n] /\ own2[n] = own[n]
  PROVE  \A x : Mark(x, t, st, own) => Mark(x, t + 1, st2, own2)
  BY DEF Mark

\* An operation is going to start.
Registers(v, w, i) ==
  /\ i \in Ids /\ \A e \in v.d : e.id # Live(i)
  /\ w.k = v.k /\ w.d = v.d /\ w.lg = v.lg /\ w.lost = v.lost /\ w.ops = v.ops
  /\ w.n = v.n /\ w.c = v.c /\ w.sh = v.sh
  /\ w.t = v.t + 1 /\ w.opens = v.opens \cup {<<i, v.t + 1>>}

LEMMA RegistersGood ==
  ASSUME NEW v, NEW w, NEW i, Good(v), Typed(w), Registers(v, w, i)
  PROVE  Good(w)
  <1>1. Typed(v)
    BY DEF Good
  <1>2. PICK t \in Nat : t = v.t
    BY <1>1 DEF Typed
  <1>3. PICK st, own : Marks(v, st, own)
    BY DEF Good, Marked
  <1>4. PICK new : new = <<i, t + 1>>
    OBVIOUS
  <1>5. new[1] = i /\ new[2] = t + 1 /\ w.t = t + 1 /\ w.opens = v.opens \cup {new}
    BY <1>2, <1>4 DEF Registers
  <1>6. \A x \in v.sh : x[1] \in SUBSET Entries
    BY <1>1, ViewTypes
  <1>7. Marked(w)
    <2>1. PICK st2, own2 : st2 = Fresh(st, t, t + 1) /\ own2 = Fresh(own, t, i)
      OBVIOUS
    <2>2. /\ \A n \in 1..t : st2[n] = st[n] /\ own2[n] = own[n]
          /\ st2[t + 1] = t + 1 /\ own2[t + 1] = i
      BY <2>1, FreshIs
    <2>3. \A x : Mark(x, t, st, own) => Mark(x, t + 1, st2, own2)
      BY <2>2, MarkLater
    <2>4. \A n \in DOMAIN w.k : Mark(w.k[n], w.t, st2, own2)
      BY <1>2, <1>3, <1>5, <2>3 DEF Marks, Registers
    <2>5. \A x \in w.sh : \A e \in x[1] : Mark(e, w.t, st2, own2)
      BY <1>2, <1>3, <1>5, <2>3 DEF Marks, Registers
    <2>6. \A o \in v.ops \cup v.opens : o[2] \in 1..w.t /\ own2[o[2]] = o[1]
      BY <1>2, <1>3, <1>5, <2>2 DEF Marks
    <2>7. \A o \in v.opens : st2[o[2]] = o[2]
      BY <1>2, <1>3, <2>2 DEF Marks
    <2>8. new[2] \in 1..w.t /\ own2[new[2]] = new[1] /\ st2[new[2]] = new[2]
      BY <1>5, <2>2
    <2>9. \A o \in w.ops \cup w.opens : o[2] \in 1..w.t /\ own2[o[2]] = o[1]
      BY <1>5, <2>6, <2>8 DEF Registers
    <2>10. \A o \in w.opens : st2[o[2]] = o[2]
      BY <1>5, <2>7, <2>8
    <2>11. Marks(w, st2, own2)
      BY <2>4, <2>5, <2>9, <2>10 DEF Marks
    <2> QED
      BY <2>11 DEF Marked
  <1>8. Reach(v, new)
    <2>1. \A n \in DOMAIN v.k : v.k[n].started <= new[2]
      BY <1>2, <1>3, <1>5 DEF Marks, Mark
    <2>2. \A x \in v.sh : \A e \in x[1] : e.started <= new[2]
      BY <1>2, <1>3, <1>5 DEF Marks, Mark
    <2> QED
      BY <2>1, <2>2 DEF Reach, By
  <1>9. Newest(w)
    <2>1. \A o : Reach(v, o) <=> Reach(w, o)
      BY DEF Reach, By, Registers
    <2>2. \A o \in w.ops \cup w.opens : Reach(w, o)
      BY <1>5, <1>8, <2>1 DEF Good, Newest, Registers
    <2> QED
      BY <2>2 DEF Newest
  <1>10. OwnDetail(w)
    <2>1. \A e \in v.d : e.id # Live(new[1])
      BY <1>5 DEF Registers
    <2> QED
      BY <1>5, <2>1 DEF Good, OwnDetail, Registers
  <1>11. \A o : Shelved(v, o) <=> Shelved(w, o)
    BY DEF Shelved, Registers
  <1>12. \A m, n : Filed(v, m, n) <=> Filed(w, m, n)
    BY DEF Filed, Registers
  <1>13. \A p, e : Told1(v, p, e) <=> Told1(w, p, e)
    BY DEF Told1, Registers
  <1>14. Stored(w)
    BY DEF Good, Stored, Registers
  <1>15. Held(w)
    BY <1>11, <1>12 DEF Good, Held, Registers
  <1>16. Split(w)
    BY <1>11, <1>12 DEF Good, Split, Registers
  <1>17. Ascends(w)
    BY DEF Good, Ascends, By, Registers
  <1>18. ToldOnShelf(w)
    BY <1>13 DEF Good, ToldOnShelf, Registers
  <1>19. ToldInStore(w)
    BY <1>13 DEF Good, ToldInStore, Registers
  <1>20. OneSoFar(w) /\ Listed(w)
    BY DEF Good, OneSoFar, Listed, Registers
  <1>21. Unborn(w)
    <2>1. \A n \in DOMAIN v.k : v.k[n].started # new[2]
      BY <1>2, <1>3, <1>5 DEF Marks, Mark
    <2>2. \A x \in v.sh : \A e \in x[1] : e.started # new[2]
      BY <1>2, <1>3, <1>5 DEF Marks, Mark
    <2>3. \A o \in v.ops : o[2] # new[2]
      BY <1>2, <1>3, <1>5 DEF Marks
    <2> QED
      BY <1>5, <2>1, <2>2, <2>3 DEF Good, Unborn, Registers
  <1>22. Stand(w)
    BY DEF Good, Stand, Registers
  <1> QED
    BY <1>21, <1>22, <1>7, <1>9, <1>10, <1>14, <1>15, <1>16, <1>17, <1>18, <1>19, <1>20 DEF Good

\* A row joins the others.
RowMore(v, w, r) ==
  /\ DOMAIN w.k = DOMAIN v.k \cup {Len(v.k) + 1} /\ Len(v.k) + 1 \notin DOMAIN v.k
  /\ w.k[Len(v.k) + 1] = r
  /\ \A n \in DOMAIN v.k : n \in Nat /\ n < Len(v.k) + 1 /\ w.k[n] = v.k[n]
  /\ Len(w.k) = Len(v.k) + 1

LEMMA RowMoreIs ==
  ASSUME NEW v, Typed(v), NEW w, NEW r, w.k = Append(v.k, r)
  PROVE  RowMore(v, w, r)
  <1>1. PICK s \in Seq(Rows) : s = v.k
    BY DEF Typed
  <1>2. Len(Append(s, r)) = Len(s) + 1 /\ Append(s, r)[Len(s) + 1] = r
    OBVIOUS
  <1>3. /\ DOMAIN Append(s, r) = DOMAIN s \cup {Len(s) + 1} /\ Len(s) + 1 \notin DOMAIN s
        /\ \A n \in DOMAIN s : n \in Nat /\ n < Len(s) + 1 /\ Append(s, r)[n] = s[n]
    BY AppendParts
  <1> QED
    BY <1>1, <1>2, <1>3 DEF RowMore

\* What was filed, and what was told, still is.
LEMMA RowMoreKeeps ==
  ASSUME NEW v, Typed(v), NEW w, NEW r, RowMore(v, w, r)
  PROVE  /\ \A m, n : m \in DOMAIN v.k /\ Filed(v, m, n) => Filed(w, m, n)
         /\ \A m \in DOMAIN v.k : Filed(v, m, Len(v.k) + 1) => Filed(w, m, Len(w.k) + 1)
  <1>1. ASSUME NEW m \in DOMAIN v.k, NEW n, Filed(v, m, n) PROVE Filed(w, m, n)
    BY <1>1 DEF Filed, RowMore
  <1>2. ASSUME NEW m \in DOMAIN v.k, Filed(v, m, Len(v.k) + 1) PROVE Filed(w, m, Len(w.k) + 1)
    <2>1. PICK k \in DOMAIN v.k : m < k /\ ~IsLive(v.k[k]) /\ v.k[k].started = v.k[m].started
      BY <1>2 DEF Filed
    <2>2. k \in DOMAIN w.k /\ w.k[k] = v.k[k] /\ w.k[m] = v.k[m] /\ k < Len(w.k) + 1
      BY <2>1, ViewTypes DEF RowMore
    <2> QED
      BY <2>1, <2>2 DEF Filed
  <1> QED
    BY <1>1, <1>2

\* The new row matters to what is told of e only if it is of an earlier operation of its id.
LEMMA RowMoreTold ==
  ASSUME NEW v, Typed(v), NEW w, NEW r, RowMore(v, w, r), NEW p \in Nat, NEW q \in Nat, p <= q,
         NEW e, Told1(v, p, e),
         ~IsLive(r) \/ r.id[1] # e.id[1] \/ ~(r.started < e.started)
  PROVE  Told1(w, q, e)
  <1> SUFFICES ASSUME NEW m \in DOMAIN w.k, IsLive(w.k[m]), w.k[m].id[1] = e.id[1],
                      w.k[m].started < e.started
               PROVE  \E n \in DOMAIN w.k :
                        m < n /\ n <= q /\ IsVerdict(w.k[n]) /\ w.k[n].started = e.started
    BY DEF Told1
  <1>1. m \in DOMAIN v.k /\ w.k[m] = v.k[m]
    BY DEF RowMore
  <1>2. PICK n \in DOMAIN v.k :
          m < n /\ n <= p /\ IsVerdict(v.k[n]) /\ v.k[n].started = e.started
    BY <1>1 DEF Told1
  <1>3. n \in DOMAIN w.k /\ w.k[n] = v.k[n] /\ n \in Nat /\ n <= q
    BY <1>2, ViewTypes DEF RowMore
  <1> QED
    BY <1>2, <1>3

\* An operation takes its id, and its start row is on its way.
Starts(v, w, i, s, r) ==
  /\ <<i, s>> \in v.opens
  /\ w.k = Append(v.k, r)
  /\ r.id = Live(i) /\ r.kind = "start" /\ r.started = s /\ r.saved = s
  /\ w.d = v.d /\ w.lost = v.lost /\ w.t = v.t /\ w.n = v.n
  /\ w.lg = v.lg \cup {i} /\ v.c <= w.c
  /\ w.ops \subseteq {o \in v.ops : o[1] # i} \cup {<<i, s>>}
  /\ w.opens \subseteq v.opens /\ \A o \in w.opens : o[2] # s
  /\ \A y \in w.sh : Stays(v.sh, y)

LEMMA StartsGood ==
  ASSUME NEW v, NEW w, NEW i, NEW s, NEW r, Good(v), Typed(w), Starts(v, w, i, s, r)
  PROVE  Good(w)
  <1>1. Typed(v)
    BY DEF Good
  <1>2. RowMore(v, w, r)
    BY <1>1, RowMoreIs DEF Starts
  <1>3. PICK new \in v.opens : new = <<i, s>>
    BY DEF Starts
  <1>4. /\ new[1] = i /\ new[2] = s /\ r.started = s /\ r.saved = s /\ r.kind = "start"
        /\ r.id[1] = i /\ r.id[2] = 0 /\ IsLive(r) /\ ~IsVerdict(r)
    BY <1>3 DEF Starts, Live, IsLive, IsVerdict
  <1>5. s \in Nat
    BY <1>1, <1>3, <1>4 DEF Typed
  <1>6. \A y \in w.sh : \A e \in y[1] : \E x \in v.sh : e \in x[1] /\ x[1] = y[1] /\ x[2] <= y[2]
    BY DEF Starts, Stays
  <1>7. \A o : Shelved(v, o) => Shelved(w, o)
    BY ShelvedStays DEF Starts
  <1>8. \A n \in DOMAIN w.k : 
           \/ n \in DOMAIN v.k /\ w.k[n] = v.k[n]
           \/ n = Len(v.k) + 1 /\ w.k[n] = r
    BY <1>2 DEF RowMore
  <1>9. Reach(v, new)
    BY DEF Good, Newest
  <1>10. Marked(w)
    <2>1. PICK st, own : Marks(v, st, own)
      BY DEF Good, Marked
    <2>2. new[2] \in 1..v.t /\ own[new[2]] = new[1] /\ st[new[2]] = new[2]
      BY <2>1 DEF Marks
    <2>3. Mark(r, v.t, st, own)
      BY <1>4, <2>2 DEF Mark
    <2>4. \A n \in DOMAIN w.k : Mark(w.k[n], w.t, st, own)
      BY <1>8, <2>1, <2>3 DEF Marks, Starts
    <2>5. \A x \in w.sh : \A e \in x[1] : Mark(e, w.t, st, own)
      BY <1>6, <2>1 DEF Marks, Starts
    <2>6. \A o \in w.ops \cup w.opens : o \in v.ops \cup v.opens
      BY <1>3 DEF Starts
    <2>7. Marks(w, st, own)
      BY <2>1, <2>4, <2>5, <2>6 DEF Marks, Starts
    <2> QED
      BY <2>7 DEF Marked
  <1>11. Stored(w)
    BY <1>4, <1>8 DEF Good, Stored, Starts
  <1>12. Held(w)
    <2> SUFFICES ASSUME NEW m \in DOMAIN w.k, IsVerdict(w.k[m]), w.k[m].started \notin w.lost,
                        ~Shelved(w, w.k[m].started),
                        ~\E e \in w.d : IsLive(e) /\ e.started = w.k[m].started
                 PROVE  Filed(w, m, Len(w.k) + 1)
      BY DEF Held
    <2>1. m \in DOMAIN v.k /\ w.k[m] = v.k[m]
      BY <1>4, <1>8
    <2>2. Filed(v, m, Len(v.k) + 1)
      BY <1>7, <2>1 DEF Good, Held, Starts
    <2> QED
      BY <1>1, <1>2, <2>1, <2>2, RowMoreKeeps
  <1>13. Split(w)
    <2> SUFFICES ASSUME NEW m \in DOMAIN w.k, NEW n \in DOMAIN w.k, IsVerdict(w.k[m]),
                        IsVerdict(w.k[n]), w.k[m].id = w.k[n].id,
                        m < n, w.k[m].started < w.k[n].started, w.k[m].started \notin w.lost,
                        ~Shelved(w, w.k[m].started)
                 PROVE  Filed(w, m, n)
      BY DEF Split
    <2>1. m \in DOMAIN v.k /\ w.k[m] = v.k[m] /\ n \in DOMAIN v.k /\ w.k[n] = v.k[n]
      BY <1>4, <1>8
    <2>2. Filed(v, m, n)
      BY <1>7, <2>1 DEF Good, Split, Starts
    <2> QED
      BY <1>1, <1>2, <2>1, <2>2, RowMoreKeeps
  <1>14. Ascends(w)
    <2> SUFFICES ASSUME NEW m \in DOMAIN w.k, NEW n \in DOMAIN w.k, m < n, IsLive(w.k[m]),
                        w.k[m].id = w.k[n].id
                 PROVE  By(w, w.k[m], w.k[n].started)
      BY DEF Ascends
    <2>1. m \in DOMAIN v.k /\ w.k[m] = v.k[m]
      <3>1. n <= Len(v.k) + 1 /\ Len(v.k) \in Nat
        BY <1>1, <1>2, ViewTypes DEF RowMore
      <3> QED
        BY <1>8, <3>1
    <2>2. CASE n \in DOMAIN v.k /\ w.k[n] = v.k[n]
      BY <2>1, <2>2 DEF Good, Ascends, By, Starts
    <2>3. CASE w.k[n] = r
      BY <1>4, <1>9, <2>1, <2>3 DEF Reach, By, Starts
    <2> QED
      BY <1>8, <2>2, <2>3
  <1>15. Newest(w)
    <2>1. ASSUME NEW o, Reach(v, o) PROVE Reach(w, o)
      <3>1. \A n \in DOMAIN w.k : (IsLive(w.k[n]) /\ w.k[n].id[1] = o[1]) => By(w, w.k[n], o[2])
        BY <1>4, <1>8, <2>1 DEF Reach, By, Starts
      <3>2. \A x \in w.sh : \A e \in x[1] :
              (IsLive(e) /\ e.id[1] = o[1]) => (e.started <= o[2] \/ e.started \in w.lost)
        BY <1>6, <2>1 DEF Reach, Starts
      <3> QED
        BY <3>1, <3>2 DEF Reach
    <2>2. \A o \in w.ops \cup w.opens : o \in v.ops \cup v.opens
      BY <1>3 DEF Starts
    <2> QED
      BY <2>1, <2>2 DEF Good, Newest
  <1>16. OwnDetail(w)
    <2>1. \A e \in v.d : e.id = Live(i) => e.started \in v.lost
      BY <1>4 DEF Good, OwnDetail
    <2>2. \A o \in w.ops : o \in v.ops \/ o[1] = i
      BY <1>3, <1>4 DEF Starts
    <2> QED
      BY <2>1, <2>2 DEF Good, OwnDetail, Starts
  <1>17. ToldOnShelf(w)
    <2> SUFFICES ASSUME NEW y \in w.sh, NEW e \in y[1], IsLive(e), e.started \notin w.lost
                 PROVE  Told1(w, y[2], e)
      BY DEF ToldOnShelf
    <2>1. PICK x \in v.sh : e \in x[1] /\ x[2] <= y[2]
      BY <1>6
    <2>2. Told1(v, x[2], e)
      BY <2>1 DEF Good, ToldOnShelf, Starts
    <2>3. x[2] \in Nat /\ y[2] \in Nat /\ e \in Entries
      BY <1>1, <2>1, ViewTypes
    <2>4. r.id[1] # e.id[1] \/ ~(r.started < e.started)
      <3>1. e.started \in Nat
        BY <2>3, EntryFields
      <3> QED
        BY <1>4, <1>5, <1>9, <2>1, <3>1 DEF Reach, Starts
    <2> QED
      BY <1>1, <1>2, <2>1, <2>2, <2>3, <2>4, RowMoreTold
  <1>18. ASSUME NEW e \in w.d, e.id[1] \notin w.lg
         PROVE  e \in v.d /\ e.id[1] \notin v.lg /\ e.id[1] # i
    BY <1>18 DEF Starts
  <1>19. ToldInStore(w)
    <2> SUFFICES ASSUME NEW e \in w.d, IsLive(e), e.id[1] \notin w.lg, e.started \notin w.lost
                 PROVE  Told1(w, w.c, e)
      BY DEF ToldInStore
    <2>1. Told1(v, v.c, e)
      BY <1>18 DEF Good, ToldInStore, Starts
    <2>2. v.c \in Nat /\ w.c \in Nat /\ v.c <= w.c
      BY <1>1 DEF Typed, Starts
    <2> QED
      BY <1>1, <1>2, <1>4, <1>18, <2>1, <2>2, RowMoreTold
  <1>20. OneSoFar(w)
    <2> SUFFICES ASSUME w.n = 0, NEW e \in w.d, NEW n \in DOMAIN w.k, IsLive(e), IsLive(w.k[n]),
                        w.k[n].id[1] = e.id[1], e.id[1] \notin w.lg
                 PROVE  w.k[n].started = e.started
      BY DEF OneSoFar
    <2>1. n \in DOMAIN v.k /\ w.k[n] = v.k[n]
      BY <1>4, <1>8, <1>18
    <2> QED
      BY <1>18, <2>1 DEF Good, OneSoFar, Starts
  <1>21. Listed(w)
    <2>1. \A o \in w.ops : o \in v.ops \/ o[1] = i
      BY <1>3, <1>4 DEF Starts
    <2> QED
      BY <2>1 DEF Good, Listed, Starts
  <1>22. Unborn(w)
    <2> SUFFICES ASSUME NEW o \in w.opens
                 PROVE  /\ \A n \in DOMAIN w.k : w.k[n].started # o[2]
                        /\ \A y \in w.sh : \A e \in y[1] : e.started # o[2]
                        /\ \A q \in w.ops : q[2] # o[2]
      BY DEF Unborn
    <2>1. o \in v.opens /\ o[2] # s
      BY DEF Starts
    <2>2. \A n \in DOMAIN w.k : w.k[n].started # o[2]
      BY <1>4, <1>8, <2>1 DEF Good, Unborn
    <2>3. \A y \in w.sh : \A e \in y[1] : e.started # o[2]
      BY <1>6, <2>1 DEF Good, Unborn
    <2>4. \A q \in w.ops : q \in v.ops \/ q = new
      BY <1>3 DEF Starts
    <2>5. \A q \in w.ops : q[2] # o[2]
      BY <1>4, <2>1, <2>4 DEF Good, Unborn
    <2> QED
      BY <2>2, <2>3, <2>5
  <1>23. Stand(w)
    <2> SUFFICES ASSUME NEW o \in w.ops, NEW m \in DOMAIN w.k, NEW n \in DOMAIN w.k, m < n,
                        w.k[m].started = o[2], IsVerdict(w.k[m]), IsVerdict(w.k[n]),
                        w.k[m].id = w.k[n].id
                 PROVE  w.k[n].started <= o[2]
      BY DEF Stand
    <2>1. m \in DOMAIN v.k /\ w.k[m] = v.k[m] /\ n \in DOMAIN v.k /\ w.k[n] = v.k[n]
      BY <1>4, <1>8
    <2>2. o # new
      BY <1>4, <2>1 DEF Good, Unborn
    <2>3. o \in v.ops
      BY <1>3, <2>2 DEF Starts
    <2> QED
      BY <2>1, <2>3 DEF Good, Stand
  <1> QED
    BY <1>22, <1>23, <1>10, <1>11, <1>12, <1>13, <1>14, <1>15, <1>16, <1>17, <1>19, <1>20, <1>21 DEF Good

\* The detail of an earlier operation is archived: it gets a new name in every snapshot
\* that shares it, and its row is on its way.
Retitled(S, e, f) == {IF g = e THEN f ELSE g : g \in S}
Renames(v, w, e, f, r) ==
  /\ e \in v.d /\ IsLive(e)
  /\ f.id = <<e.id[1], e.saved>> /\ f.started = e.started /\ f.saved = e.saved
  /\ w.k = Append(v.k, r)
  /\ r.id = f.id /\ r.kind = "terminal" /\ r.started = e.started /\ r.saved = e.saved
  /\ w.d = Retitled(v.d, e, f)
  /\ w.lg = v.lg /\ w.lost = v.lost /\ w.t = v.t /\ w.n = v.n /\ w.c = v.c
  /\ w.ops = v.ops /\ w.opens = v.opens
  /\ \A y \in w.sh :
       \/ y[1] = {}
       \/ \E x \in v.sh : x[2] <= y[2] /\ (y[1] = x[1] \/ y[1] = Retitled(x[1], e, f))

LEMMA RetitledIs ==
  ASSUME NEW S, NEW e, NEW f
  PROVE  /\ \A g \in Retitled(S, e, f) : (g = f /\ e \in S) \/ (g \in S /\ g # e)
         /\ e \in S => f \in Retitled(S, e, f)
         /\ \A g \in S : g # e => g \in Retitled(S, e, f)
  BY DEF Retitled

LEMMA RenamesGood ==
  ASSUME NEW v, NEW w, NEW e, NEW f, NEW r, Good(v), Typed(w), Renames(v, w, e, f, r)
  PROVE  Good(w)
  <1>1. Typed(v)
    BY DEF Good
  <1>2. RowMore(v, w, r)
    BY <1>1, RowMoreIs DEF Renames
  <1>3. PICK st, own : Marks(v, st, own)
    BY DEF Good, Marked
  <1>4. PICK top \in v.sh : top[1] = v.d
    BY <1>1 DEF Typed
  <1>5. Mark(e, v.t, st, own)
    BY <1>3, <1>4 DEF Marks, Renames
  <1>6. /\ f.id[2] = e.saved /\ f.id[1] = e.id[1] /\ f.started = e.started /\ f.saved = e.saved
        /\ r.id[2] = e.saved /\ r.id[1] = e.id[1] /\ r.started = e.started /\ r.saved = e.saved
        /\ r.kind = "terminal" /\ e \in v.d /\ IsLive(e)
    BY DEF Renames
  <1>7. ~IsLive(f) /\ ~IsLive(r) /\ ~IsVerdict(r)
    BY <1>5, <1>6 DEF Mark, IsLive, IsVerdict
  <1>8. Mark(f, v.t, st, own) /\ Mark(r, v.t, st, own)
    BY <1>5, <1>6 DEF Mark
  <1>9. ASSUME NEW y \in w.sh, NEW g \in y[1], IsLive(g)
        PROVE  \E x \in v.sh : g \in x[1] /\ x[2] <= y[2]
    BY <1>7, <1>9, RetitledIs DEF Renames
  <1>10. \A y \in w.sh : \A g \in y[1] : g = f \/ \E x \in v.sh : g \in x[1]
    BY RetitledIs DEF Renames
  <1>11. ASSUME NEW S, NEW o, Named(S, o) PROVE Named(Retitled(S, e, f), o)
    <2> SUFFICES ASSUME NEW g \in Retitled(S, e, f), g.started = o
                 PROVE  \E h \in Retitled(S, e, f) : h.started = o /\ ~IsLive(h)
      BY DEF Named
    <2>1. CASE g = f
      BY <1>7, <2>1
    <2>2. CASE g \in S
      <3>1. PICK h \in S : h.started = o /\ ~IsLive(h)
        BY <1>11, <2>2 DEF Named
      <3>2. h \in Retitled(S, e, f)
        BY <1>6, <3>1, RetitledIs
      <3> QED
        BY <3>1, <3>2
    <2> QED
      BY <2>1, <2>2, RetitledIs
  <1>12. ASSUME NEW o, Shelved(v, o) PROVE Shelved(w, o)
    <2> SUFFICES ASSUME NEW y \in w.sh PROVE Named(y[1], o)
      BY DEF Shelved
    <2>1. CASE y[1] = {}
      BY <2>1 DEF Named
    <2>2. CASE \E x \in v.sh : y[1] = x[1] \/ y[1] = Retitled(x[1], e, f)
      BY <1>11, <1>12, <2>2 DEF Shelved
    <2> QED
      BY <2>1, <2>2 DEF Renames
  <1>13. \A n \in DOMAIN w.k :
           \/ n \in DOMAIN v.k /\ w.k[n] = v.k[n]
           \/ n = Len(v.k) + 1 /\ w.k[n] = r
    BY <1>2 DEF RowMore
  <1>14. f \in w.d /\ \A g \in v.d : g # e => g \in w.d
    BY <1>6, RetitledIs DEF Renames
  <1>15. \A g \in w.d : IsLive(g) => g \in v.d
    BY <1>7, RetitledIs DEF Renames
  <1>16. Marked(w)
    <2>1. \A n \in DOMAIN w.k : Mark(w.k[n], w.t, st, own)
      BY <1>3, <1>8, <1>13 DEF Marks, Renames
    <2>2. \A x \in w.sh : \A g \in x[1] : Mark(g, w.t, st, own)
      BY <1>3, <1>8, <1>10 DEF Marks, Renames
    <2>3. Marks(w, st, own)
      BY <1>3, <2>1, <2>2 DEF Marks, Renames
    <2> QED
      BY <2>3 DEF Marked
  <1>17. Stored(w)
    <2> SUFFICES ASSUME NEW m \in DOMAIN w.k, w.k[m].kind = "terminal",
                        w.k[m].started \notin w.lost
                 PROVE  \E g \in w.d : g.started = w.k[m].started
      BY DEF Stored
    <2>1. CASE w.k[m] = r
      BY <1>6, <1>14, <2>1
    <2>2. CASE m \in DOMAIN v.k /\ w.k[m] = v.k[m]
      <3>1. PICK g \in v.d : g.started = w.k[m].started
        BY <2>2 DEF Good, Stored, Renames
      <3> QED
        BY <1>6, <1>14, <3>1
    <2> QED
      BY <1>13, <2>1, <2>2
  <1>18. Held(w)
    <2> SUFFICES ASSUME NEW m \in DOMAIN w.k, IsVerdict(w.k[m]), w.k[m].started \notin w.lost,
                        ~Shelved(w, w.k[m].started), ~Filed(w, m, Len(w.k) + 1)
                 PROVE  \E g \in w.d : IsLive(g) /\ g.started = w.k[m].started
      BY DEF Held
    <2>1. m \in DOMAIN v.k /\ w.k[m] = v.k[m]
      BY <1>7, <1>13
    <2>2. ~Filed(v, m, Len(v.k) + 1)
      BY <1>1, <1>2, <2>1, RowMoreKeeps
    <2>3. PICK g \in v.d : IsLive(g) /\ g.started = w.k[m].started
      BY <1>12, <2>1, <2>2 DEF Good, Held, Renames
    <2>4. g # e
      <3>1. ASSUME g = e PROVE FALSE
        <4>1. PICK k \in DOMAIN w.k : k = Len(v.k) + 1 /\ w.k[k] = r
          BY <1>2 DEF RowMore
        <4>2. m < k /\ k < Len(w.k) + 1
          BY <1>1, <1>2, <2>1, <4>1, ViewTypes DEF RowMore
        <4>3. Filed(w, m, Len(w.k) + 1)
          BY <1>6, <1>7, <2>3, <3>1, <4>1, <4>2 DEF Filed
        <4> QED
          BY <4>3
      <3> QED
        BY <3>1
    <2> QED
      BY <1>14, <2>3, <2>4
  <1>19. Split(w)
    <2> SUFFICES ASSUME NEW m \in DOMAIN w.k, NEW n \in DOMAIN w.k, IsVerdict(w.k[m]),
                        IsVerdict(w.k[n]), w.k[m].id = w.k[n].id,
                        m < n, w.k[m].started < w.k[n].started, w.k[m].started \notin w.lost,
                        ~Shelved(w, w.k[m].started)
                 PROVE  Filed(w, m, n)
      BY DEF Split
    <2>1. m \in DOMAIN v.k /\ w.k[m] = v.k[m] /\ n \in DOMAIN v.k /\ w.k[n] = v.k[n]
      BY <1>7, <1>13
    <2>2. Filed(v, m, n)
      BY <1>12, <2>1 DEF Good, Split, Renames
    <2> QED
      BY <1>1, <1>2, <2>1, <2>2, RowMoreKeeps
  <1>20. Ascends(w)
    <2> SUFFICES ASSUME NEW m \in DOMAIN w.k, NEW n \in DOMAIN w.k, m < n, IsLive(w.k[m]),
                        w.k[m].id = w.k[n].id
                 PROVE  By(w, w.k[m], w.k[n].started)
      BY DEF Ascends
    <2>1. IsLive(w.k[n])
      BY DEF IsLive
    <2>2. m \in DOMAIN v.k /\ w.k[m] = v.k[m] /\ n \in DOMAIN v.k /\ w.k[n] = v.k[n]
      BY <1>7, <1>13, <2>1
    <2> QED
      BY <2>2 DEF Good, Ascends, By, Renames
  <1>21. Newest(w)
    <2>1. ASSUME NEW o, Reach(v, o) PROVE Reach(w, o)
      <3>1. \A n \in DOMAIN w.k : (IsLive(w.k[n]) /\ w.k[n].id[1] = o[1]) => By(w, w.k[n], o[2])
        BY <1>7, <1>13, <2>1 DEF Reach, By, Renames
      <3>2. \A y \in w.sh : \A g \in y[1] :
              (IsLive(g) /\ g.id[1] = o[1]) => (g.started <= o[2] \/ g.started \in w.lost)
        BY <1>9, <2>1 DEF Reach, Renames
      <3> QED
        BY <3>1, <3>2 DEF Reach
    <2> QED
      BY <2>1 DEF Good, Newest, Renames
  <1>22. OwnDetail(w)
    <2>1. \A i : \A g \in w.d : g.id = Live(i) => g \in v.d
      BY <1>15 DEF Live, IsLive
    <2> QED
      BY <2>1 DEF Good, OwnDetail, Renames
  <1>23. ToldOnShelf(w)
    <2> SUFFICES ASSUME NEW y \in w.sh, NEW g \in y[1], IsLive(g), g.started \notin w.lost
                 PROVE  Told1(w, y[2], g)
      BY DEF ToldOnShelf
    <2>1. PICK x \in v.sh : g \in x[1] /\ x[2] <= y[2]
      BY <1>9
    <2>2. Told1(v, x[2], g)
      BY <2>1 DEF Good, ToldOnShelf, Renames
    <2>3. x[2] \in Nat /\ y[2] \in Nat
      BY <1>1, <2>1, ViewTypes
    <2> QED
      BY <1>1, <1>2, <1>7, <2>1, <2>2, <2>3, RowMoreTold
  <1>24. ToldInStore(w)
    <2> SUFFICES ASSUME NEW g \in w.d, IsLive(g), g.id[1] \notin w.lg, g.started \notin w.lost
                 PROVE  Told1(w, w.c, g)
      BY DEF ToldInStore
    <2>1. Told1(v, v.c, g)
      BY <1>15 DEF Good, ToldInStore, Renames
    <2>2. v.c \in Nat /\ w.c \in Nat /\ v.c <= w.c
      BY <1>1 DEF Typed, Renames
    <2> QED
      BY <1>1, <1>2, <1>7, <2>1, <2>2, RowMoreTold
  <1>25. OneSoFar(w)
    BY <1>7, <1>13, <1>15 DEF Good, OneSoFar, Renames
  <1>26. Listed(w)
    BY DEF Good, Listed, Renames
  <1>27. Unborn(w)
    <2> SUFFICES ASSUME NEW o \in v.opens
                 PROVE  /\ \A n \in DOMAIN w.k : w.k[n].started # o[2]
                        /\ \A y \in w.sh : \A g \in y[1] : g.started # o[2]
                        /\ \A q \in v.ops : q[2] # o[2]
      BY DEF Unborn, Renames
    <2>1. e.started # o[2]
      BY <1>4, <1>6 DEF Good, Unborn
    <2>2. \A n \in DOMAIN w.k : w.k[n].started # o[2]
      BY <1>6, <1>13, <2>1 DEF Good, Unborn
    <2>3. \A y \in w.sh : \A g \in y[1] : g.started # o[2]
      BY <1>6, <1>10, <2>1 DEF Good, Unborn
    <2> QED
      BY <2>2, <2>3 DEF Good, Unborn
  <1>28. Stand(w)
    BY <1>7, <1>13 DEF Good, Stand, Renames
  <1> QED
    BY <1>27, <1>28, <1>16, <1>17, <1>18, <1>19, <1>20, <1>21, <1>22, <1>23, <1>24, <1>25, <1>26 DEF Good

\* A record is persisted: its detail takes the place of the one under its id, the store
\* forgets some, and the verdict is on its way.
Persists(v, w, i, s, e, r) ==
  /\ <<i, s>> \in v.ops /\ i \in v.lg /\ \A o \in v.ops : o[1] = i => o[2] = s
  /\ e.id = Live(i) /\ e.started = s /\ e.saved = v.t + 1
  /\ w.k = Append(v.k, r)
  /\ r.id = Live(i) /\ r.kind = "terminal" /\ r.started = s /\ r.saved = v.t + 1
  /\ w.t = v.t + 1 /\ w.n = v.n /\ w.c = v.c /\ w.ops = v.ops /\ w.opens = v.opens
  /\ v.lost \subseteq w.lost
  /\ \A g \in v.d : g.id # Live(i) => (g \in w.d \/ g.started \in w.lost)
  /\ e \in w.d \/ s \in w.lost
  /\ \A g \in w.d : g = e \/ (g \in v.d /\ g.id # Live(i))
  /\ (\E o \in v.opens : o[1] = i) => s \in w.lost
  /\ \A g \in w.d : (IsLive(g) /\ g.id[1] \in v.lg) => g.id[1] \in w.lg
  /\ \A o \in v.ops : o[1] \in w.lg
  /\ \A y \in w.sh : Stays(v.sh, y) \/ (y[1] = w.d /\ y[2] = Len(w.k))

LEMMA PersistsGood ==
  ASSUME NEW v, NEW w, NEW i, NEW s, NEW e, NEW r, Good(v), Typed(w), Persists(v, w, i, s, e, r)
  PROVE  Good(w)
  <1>1. Typed(v)
    BY DEF Good
  <1>2. RowMore(v, w, r)
    BY <1>1, RowMoreIs DEF Persists
  <1>3. PICK t \in Nat : t = v.t
    BY <1>1 DEF Typed
  <1>4. PICK st, own : Marks(v, st, own)
    BY DEF Good, Marked
  <1>5. PICK top \in v.sh : top[1] = v.d /\ top[2] = Len(v.k)
    BY <1>1 DEF Typed
  <1>6. PICK new \in v.ops : new = <<i, s>>
    BY DEF Persists
  <1>7. new[1] = i /\ new[2] = s /\ s \in 1..t /\ own[s] = i /\ s \in Nat
    BY <1>3, <1>4, <1>6 DEF Marks
  <1>8. /\ r.id[1] = i /\ r.id[2] = 0 /\ e.id[1] = i /\ e.id[2] = 0 /\ r.started = s /\ e.started = s
        /\ r.saved = t + 1 /\ e.saved = t + 1 /\ r.kind = "terminal"
        /\ IsLive(r) /\ IsVerdict(r) /\ IsLive(e)
    BY <1>3 DEF Persists, Live, IsLive, IsVerdict
  <1>9. Reach(v, new)
    BY DEF Good, Newest
  <1>10. \A n \in DOMAIN w.k :
           \/ n \in DOMAIN v.k /\ w.k[n] = v.k[n]
           \/ n = Len(v.k) + 1 /\ w.k[n] = r
    BY <1>2 DEF RowMore
  <1>11. \A y \in w.sh : \A g \in y[1] : g = e \/ \E x \in v.sh : g \in x[1]
    BY <1>5 DEF Persists, Stays
  <1>12. ASSUME NEW o, Shelved(v, o), o # s, o \notin w.lost PROVE Shelved(w, o)
    <2>1. Named(w.d, o)
      <3> SUFFICES ASSUME NEW g \in w.d, g.started = o
                   PROVE  \E h \in w.d : h.started = o /\ ~IsLive(h)
        BY DEF Named
      <3>1. g \in v.d
        BY <1>8, <1>12 DEF Persists
      <3>2. PICK h \in v.d : h.started = o /\ ~IsLive(h)
        BY <1>5, <1>12, <3>1 DEF Shelved, Named
      <3>3. h.id # Live(i)
        BY <3>2 DEF Live, IsLive
      <3> QED
        BY <1>12, <3>2, <3>3 DEF Persists
    <2> SUFFICES ASSUME NEW y \in w.sh PROVE Named(y[1], o)
      BY DEF Shelved
    <2>2. CASE y[1] = {}
      BY <2>2 DEF Named
    <2>3. CASE \E x \in v.sh : x[1] = y[1]
      BY <1>12, <2>3 DEF Shelved
    <2> QED
      BY <2>1, <2>2, <2>3 DEF Persists, Stays
  <1>13. Marked(w)
    <2>1. PICK st2 : st2 = Fresh(st, t, s)
      OBVIOUS
    <2>2. st2[t + 1] = s /\ \A n \in 1..t : st2[n] = st[n]
      BY <2>1, FreshIs
    <2>3. \A x : Mark(x, t, st, own) => Mark(x, t + 1, st2, own)
      BY <2>2, MarkLater
    <2>4. \A x : (x.saved = t + 1 /\ x.started = s /\ x.id[1] = i /\ x.id[2] = 0)
                   => Mark(x, t + 1, st2, own)
      BY <1>7, <2>2 DEF Mark
    <2>5. w.t = t + 1
      BY <1>3 DEF Persists
    <2>6. \A n \in DOMAIN w.k : Mark(w.k[n], w.t, st2, own)
      BY <1>3, <1>4, <1>8, <1>10, <2>3, <2>4, <2>5 DEF Marks
    <2>7. \A x \in w.sh : \A g \in x[1] : Mark(g, w.t, st2, own)
      BY <1>3, <1>4, <1>8, <1>11, <2>3, <2>4, <2>5 DEF Marks
    <2>8. \A o \in w.ops \cup w.opens : o[2] \in 1..w.t /\ own[o[2]] = o[1]
      BY <1>3, <1>4, <2>5 DEF Marks, Persists
    <2>9. \A o \in w.opens : st2[o[2]] = o[2]
      BY <1>3, <1>4, <2>2 DEF Marks, Persists
    <2>10. Marks(w, st2, own)
      BY <2>6, <2>7, <2>8, <2>9 DEF Marks
    <2> QED
      BY <2>10 DEF Marked
  <1>14. ASSUME NEW g \in v.d, g.id = Live(i) PROVE g.started = s \/ g.started \in w.lost
    BY <1>6, <1>7, <1>14 DEF Good, OwnDetail, Persists
  <1>15. Stored(w)
    <2> SUFFICES ASSUME NEW m \in DOMAIN w.k, w.k[m].kind = "terminal",
                        w.k[m].started \notin w.lost
                 PROVE  \E g \in w.d : g.started = w.k[m].started
      BY DEF Stored
    <2>1. CASE w.k[m].started = s
      BY <1>8, <2>1 DEF Persists
    <2>2. CASE w.k[m].started # s
      <3>1. m \in DOMAIN v.k /\ w.k[m] = v.k[m]
        BY <1>8, <1>10, <2>2
      <3>2. PICK g \in v.d : g.started = w.k[m].started
        BY <3>1 DEF Good, Stored, Persists
      <3>3. g.id # Live(i)
        BY <1>14, <2>2, <3>2
      <3> QED
        BY <3>2, <3>3 DEF Persists
    <2> QED
      BY <2>1, <2>2
  <1>16. Held(w)
    <2> SUFFICES ASSUME NEW m \in DOMAIN w.k, IsVerdict(w.k[m]), w.k[m].started \notin w.lost,
                        ~Shelved(w, w.k[m].started), ~Filed(w, m, Len(w.k) + 1)
                 PROVE  \E g \in w.d : IsLive(g) /\ g.started = w.k[m].started
      BY DEF Held
    <2>1. CASE w.k[m].started = s
      BY <1>8, <2>1 DEF Persists
    <2>2. CASE w.k[m].started # s
      <3>1. m \in DOMAIN v.k /\ w.k[m] = v.k[m]
        BY <1>8, <1>10, <2>2
      <3>2. ~Filed(v, m, Len(v.k) + 1)
        BY <1>1, <1>2, <3>1, RowMoreKeeps
      <3>3. ~Shelved(v, w.k[m].started)
        BY <1>12, <2>2
      <3>4. PICK g \in v.d : IsLive(g) /\ g.started = w.k[m].started
        BY <3>1, <3>2, <3>3 DEF Good, Held, Persists
      <3>5. g.id # Live(i)
        BY <1>14, <2>2, <3>4
      <3> QED
        BY <3>4, <3>5 DEF Persists
    <2> QED
      BY <2>1, <2>2
  <1>17. Split(w)
    <2> SUFFICES ASSUME NEW m \in DOMAIN w.k, NEW n \in DOMAIN w.k, IsVerdict(w.k[m]),
                        IsVerdict(w.k[n]), w.k[m].id = w.k[n].id,
                        m < n, w.k[m].started < w.k[n].started, w.k[m].started \notin w.lost,
                        ~Shelved(w, w.k[m].started)
                 PROVE  Filed(w, m, n)
      BY DEF Split
    <2>1. \A j \in DOMAIN v.k : v.k[j].started \in Nat /\ own[v.k[j].started] = v.k[j].id[1]
      BY <1>1, <1>4, ViewTypes DEF Marks, Mark
    <2>2. m \in DOMAIN v.k /\ w.k[m] = v.k[m]
      <3>1. n <= Len(v.k) + 1 /\ Len(v.k) \in Nat
        BY <1>1, <1>2, ViewTypes DEF RowMore
      <3> QED
        BY <1>10, <3>1
    <2>3. w.k[m].started # s
      <3>1. ASSUME w.k[m].started = s PROVE FALSE
        <4>1. n \in DOMAIN v.k /\ w.k[n] = v.k[n]
          BY <1>7, <1>8, <1>10, <3>1
        <4>2. w.k[n].started <= s
          BY <1>6, <1>7, <2>2, <3>1, <4>1 DEF Good, Stand
        <4>3. w.k[n].started \in Nat
          BY <2>1, <4>1
        <4> QED
          BY <1>7, <3>1, <4>2, <4>3
      <3> QED
        BY <3>1
    <2>4. m \in DOMAIN v.k /\ w.k[m] = v.k[m] /\ ~Shelved(v, w.k[m].started)
          /\ w.k[m].started \notin v.lost
      BY <1>8, <1>10, <1>12, <2>3 DEF Persists
    <2>5. CASE n \in DOMAIN v.k /\ w.k[n] = v.k[n]
      <3>1. Filed(v, m, n)
        BY <2>4, <2>5 DEF Good, Split
      <3> QED
        BY <1>1, <1>2, <2>4, <3>1, RowMoreKeeps
    <2>6. CASE n = Len(v.k) + 1 /\ w.k[n] = r
      <3>1. ASSUME NEW g \in v.d, IsLive(g), g.started = w.k[m].started PROVE FALSE
        <4>1. own[g.started] = g.id[1] /\ g \in Entries
          <5>1. own[g.started] = g.id[1]
            BY <1>4, <1>5 DEF Marks, Mark
          <5> QED
            BY <1>1, <5>1 DEF Typed
        <4>2. g.id[1] = i
          BY <1>8, <2>1, <2>4, <2>6, <3>1, <4>1
        <4>3. g.id = Live(i)
          BY <1>1, <3>1, <4>1, <4>2, ViewTypes DEF Live, IsLive
        <4> QED
          BY <1>14, <2>3, <3>1, <4>3
      <3>2. Filed(v, m, n)
        BY <2>4, <2>6, <3>1 DEF Good, Held
      <3> QED
        BY <1>1, <1>2, <2>4, <3>2, RowMoreKeeps
    <2> QED
      BY <1>10, <2>5, <2>6
  <1>18. Ascends(w)
    <2> SUFFICES ASSUME NEW m \in DOMAIN w.k, NEW n \in DOMAIN w.k, m < n, IsLive(w.k[m]),
                        w.k[m].id = w.k[n].id
                 PROVE  By(w, w.k[m], w.k[n].started)
      BY DEF Ascends
    <2>1. m \in DOMAIN v.k /\ w.k[m] = v.k[m]
      <3>1. n <= Len(v.k) + 1 /\ Len(v.k) \in Nat
        BY <1>1, <1>2, ViewTypes DEF RowMore
      <3> QED
        BY <1>10, <3>1
    <2>2. CASE n \in DOMAIN v.k /\ w.k[n] = v.k[n]
      BY <2>1, <2>2 DEF Good, Ascends, By, Persists
    <2>3. CASE w.k[n] = r
      BY <1>7, <1>8, <1>9, <2>1, <2>3 DEF Reach, By, Persists
    <2> QED
      BY <1>10, <2>2, <2>3
  <1>19. Newest(w)
    <2>1. ASSUME NEW o, Reach(v, o), o[1] = i => (s <= o[2] \/ s \in w.lost) PROVE Reach(w, o)
      <3>1. \A n \in DOMAIN w.k : (IsLive(w.k[n]) /\ w.k[n].id[1] = o[1]) => By(w, w.k[n], o[2])
        BY <1>8, <1>10, <2>1 DEF Reach, By, Persists
      <3>2. \A x \in w.sh : \A g \in x[1] :
              (IsLive(g) /\ g.id[1] = o[1]) => (g.started <= o[2] \/ g.started \in w.lost)
        BY <1>8, <1>11, <2>1 DEF Reach, Persists
      <3> QED
        BY <3>1, <3>2 DEF Reach
    <2>2. \A o \in w.ops : o[1] = i => s <= o[2]
      BY <1>7 DEF Persists
    <2>3. \A o \in w.opens : o[1] = i => s \in w.lost
      BY DEF Persists
    <2>4. \A o \in w.ops \cup w.opens : Reach(v, o)
      BY DEF Good, Newest, Persists
    <2> QED
      BY <2>1, <2>2, <2>3, <2>4 DEF Newest
  <1>20. OwnDetail(w)
    <2> SUFFICES ASSUME NEW g \in w.d
                 PROVE  /\ \A o \in v.ops :
                             g.id = Live(o[1]) => (g.started = o[2] \/ g.started \in w.lost)
                        /\ \A o \in v.opens : g.id = Live(o[1]) => g.started \in w.lost
      BY DEF OwnDetail, Persists
    <2>1. CASE g \in v.d
      BY <2>1 DEF Good, OwnDetail, Persists
    <2>2. CASE g = e
      <3>1. \A j : Live(j) = Live(i) => j = i
        BY DEF Live
      <3> QED
        BY <1>8, <2>2, <3>1 DEF Persists
    <2> QED
      BY <2>1, <2>2 DEF Persists
  <1>21. ASSUME NEW x \in v.sh, NEW g \in x[1], IsLive(g), g.started \notin w.lost,
                NEW q \in Nat, x[2] <= q
         PROVE  Told1(w, q, g)
    <2>1. Told1(v, x[2], g)
      BY <1>21 DEF Good, ToldOnShelf, Persists
    <2>2. x[2] \in Nat /\ g \in Entries
      BY <1>1, ViewTypes
    <2>3. r.id[1] # g.id[1] \/ ~(r.started < g.started)
      <3>1. g.started \in Nat
        BY <2>2, EntryFields
      <3> QED
        BY <1>7, <1>8, <1>9, <1>21, <3>1 DEF Reach, Persists
    <2> QED
      BY <1>1, <1>2, <1>21, <2>1, <2>2, <2>3, RowMoreTold
  <1>22. PICK l \in Nat : l = Len(v.k) /\ Len(w.k) = l + 1
    BY <1>1, <1>2, ViewTypes DEF RowMore
  <1>23. Told1(w, l + 1, e)
    <2> SUFFICES ASSUME NEW m \in DOMAIN w.k, w.k[m].started < e.started
                 PROVE  \E n \in DOMAIN w.k :
                          m < n /\ n <= l + 1 /\ IsVerdict(w.k[n]) /\ w.k[n].started = e.started
      BY DEF Told1
    <2>1. m \in DOMAIN v.k /\ m < l + 1
      <3>1. w.k[m] # r
        BY <1>7, <1>8
      <3> QED
        BY <1>2, <1>10, <1>22, <3>1 DEF RowMore
    <2>2. l + 1 \in DOMAIN w.k /\ w.k[l + 1] = r
      BY <1>2, <1>22 DEF RowMore
    <2> QED
      BY <1>8, <1>22, <2>1, <2>2
  <1>24. ToldOnShelf(w)
    <2> SUFFICES ASSUME NEW y \in w.sh, NEW g \in y[1], IsLive(g), g.started \notin w.lost
                 PROVE  Told1(w, y[2], g)
      BY DEF ToldOnShelf
    <2>1. y[2] \in Nat
      BY ViewTypes
    <2>2. CASE Stays(v.sh, y)
      <3>1. PICK x \in v.sh : g \in x[1] /\ x[2] <= y[2]
        BY <2>2 DEF Stays
      <3> QED
        BY <1>21, <2>1, <3>1
    <2>3. CASE y[1] = w.d /\ y[2] = Len(w.k)
      <3>1. CASE g = e
        BY <1>22, <1>23, <2>3, <3>1
      <3>2. CASE g \in v.d
        <4>1. top[2] <= y[2] /\ g \in top[1]
          BY <1>5, <1>22, <2>3, <3>2
        <4> QED
          BY <1>21, <2>1, <4>1
      <3> QED
        BY <2>3, <3>1, <3>2 DEF Persists
    <2> QED
      BY <2>2, <2>3 DEF Persists
  <1>25. ASSUME NEW g \in w.d, IsLive(g), g.id[1] \notin w.lg
         PROVE  g \in v.d /\ g.id[1] \notin v.lg /\ g.id[1] # i
    <2>1. g.id[1] \notin v.lg
      BY <1>25 DEF Persists
    <2>2. g # e /\ g.id[1] # i
      BY <1>8, <2>1 DEF Persists
    <2> QED
      BY <2>1, <2>2 DEF Persists
  <1>26. ToldInStore(w)
    <2> SUFFICES ASSUME NEW g \in w.d, IsLive(g), g.id[1] \notin w.lg, g.started \notin w.lost
                 PROVE  Told1(w, w.c, g)
      BY DEF ToldInStore
    <2>1. Told1(v, v.c, g)
      BY <1>25 DEF Good, ToldInStore, Persists
    <2>2. v.c \in Nat /\ w.c \in Nat /\ v.c <= w.c
      BY <1>1 DEF Typed, Persists
    <2> QED
      BY <1>1, <1>2, <1>8, <1>25, <2>1, <2>2, RowMoreTold
  <1>27. OneSoFar(w)
    <2> SUFFICES ASSUME w.n = 0, NEW g \in w.d, NEW n \in DOMAIN w.k, IsLive(g), IsLive(w.k[n]),
                        w.k[n].id[1] = g.id[1], g.id[1] \notin w.lg
                 PROVE  w.k[n].started = g.started
      BY DEF OneSoFar
    <2>1. n \in DOMAIN v.k /\ w.k[n] = v.k[n]
      BY <1>8, <1>10, <1>25
    <2> QED
      BY <1>25, <2>1 DEF Good, OneSoFar, Persists
  <1>28. Listed(w)
    BY DEF Listed, Persists
  <1>29. Unborn(w)
    <2> SUFFICES ASSUME NEW o \in v.opens
                 PROVE  /\ \A n \in DOMAIN w.k : w.k[n].started # o[2]
                        /\ \A y \in w.sh : \A g \in y[1] : g.started # o[2]
                        /\ \A q \in v.ops : q[2] # o[2]
      BY DEF Unborn, Persists
    <2>1. o[2] # s
      BY <1>6, <1>7 DEF Good, Unborn
    <2>2. \A n \in DOMAIN w.k : w.k[n].started # o[2]
      BY <1>8, <1>10, <2>1 DEF Good, Unborn
    <2>3. \A y \in w.sh : \A g \in y[1] : g.started # o[2]
      BY <1>8, <1>11, <2>1 DEF Good, Unborn
    <2> QED
      BY <2>2, <2>3 DEF Good, Unborn
  <1>30. Stand(w)
    <2> SUFFICES ASSUME NEW o \in v.ops, NEW m \in DOMAIN w.k, NEW n \in DOMAIN w.k, m < n,
                        w.k[m].started = o[2], IsVerdict(w.k[m]), IsVerdict(w.k[n]),
                        w.k[m].id = w.k[n].id
                 PROVE  w.k[n].started <= o[2]
      BY DEF Stand, Persists
    <2>1. m \in DOMAIN v.k /\ w.k[m] = v.k[m]
      <3>1. n <= l + 1
        BY <1>1, <1>2, <1>22, ViewTypes DEF RowMore
      <3> QED
        BY <1>10, <1>22, <3>1
    <2>2. CASE n \in DOMAIN v.k /\ w.k[n] = v.k[n]
      BY <2>1, <2>2 DEF Good, Stand
    <2>3. CASE w.k[n] = r
      <3>1. own[o[2]] = o[1]
        BY <1>4 DEF Marks
      <3>2. own[o[2]] = i
        BY <1>4, <1>8, <2>1, <2>3 DEF Marks, Mark
      <3>3. o[2] = s
        BY <3>1, <3>2 DEF Persists
      <3> QED
        BY <1>7, <1>8, <2>3, <3>3
    <2> QED
      BY <1>10, <2>2, <2>3
  <1> QED
    BY <1>29, <1>30, <1>13, <1>15, <1>16, <1>17, <1>18, <1>19, <1>20, <1>24, <1>26, <1>27, <1>28 DEF Good

\* The first row on its way is lost.
Drops(v, w) ==
  /\ v.c + 1 \in DOMAIN v.k /\ Len(w.k) + 1 = Len(v.k)
  /\ \A n \in DOMAIN w.k : w.k[n] = IF n <= v.c THEN v.k[n] ELSE v.k[n + 1]
  /\ w.d = v.d /\ w.lg = v.lg /\ w.t = v.t /\ w.n = v.n /\ w.c = v.c
  /\ w.ops = v.ops /\ w.opens \subseteq v.opens
  /\ v.lost \subseteq w.lost /\ v.k[v.c + 1].started \in w.lost
  /\ \A y \in w.sh :
       \/ y[1] = {}
       \/ \E x \in v.sh : x[1] = y[1] /\ (x[2] <= y[2] \/ (v.c < x[2] /\ x[2] <= y[2] + 1))

\* The places of the rows before and after.
Before(c, n) == IF n <= c THEN n ELSE n + 1
After(c, n) == IF n <= c THEN n ELSE n - 1

LEMMA DropPlaces ==
  ASSUME NEW v, NEW w, Typed(v), Typed(w), Drops(v, w)
  PROVE  /\ v.c \in Nat
         /\ \A n \in DOMAIN w.k : Before(v.c, n) \in DOMAIN v.k /\ w.k[n] = v.k[Before(v.c, n)]
         /\ \A m \in DOMAIN v.k :
              v.k[m].started \notin w.lost =>
                /\ After(v.c, m) \in DOMAIN w.k /\ w.k[After(v.c, m)] = v.k[m]
                /\ m # v.c + 1
         /\ Before(v.c, Len(w.k) + 1) = Len(v.k) + 1
  <1>1. PICK c \in Nat, k \in Nat, l \in Nat : c = v.c /\ k = Len(v.k) /\ l = Len(w.k)
    BY ViewTypes DEF Typed
  <1>2. DOMAIN v.k = 1..k /\ DOMAIN w.k = 1..l
    BY <1>1, ViewTypes
  <1>3. l + 1 = k /\ c + 1 \in 1..k
    BY <1>1, <1>2 DEF Drops
  <1>4. ASSUME NEW n \in DOMAIN w.k
        PROVE  Before(c, n) \in DOMAIN v.k /\ w.k[n] = v.k[Before(c, n)]
    BY <1>1, <1>2, <1>3 DEF Drops, Before
  <1>5. ASSUME NEW m \in DOMAIN v.k, v.k[m].started \notin w.lost
        PROVE  After(c, m) \in DOMAIN w.k /\ w.k[After(c, m)] = v.k[m] /\ m # c + 1
    <2>1. m # c + 1
      BY <1>1, <1>5 DEF Drops
    <2>2. PICK a : a = After(c, m)
      OBVIOUS
    <2>3. a \in 1..l /\ m = IF a <= c THEN a ELSE a + 1
      BY <1>2, <1>3, <2>1, <2>2 DEF After
    <2>4. w.k[a] = v.k[m]
      BY <1>1, <1>2, <2>3 DEF Drops
    <2> QED
      BY <1>2, <2>1, <2>2, <2>3, <2>4
  <1>6. Before(c, l + 1) = k + 1
    BY <1>3 DEF Before
  <1> QED
    BY <1>1, <1>4, <1>5, <1>6

LEMMA DropsFiled ==
  ASSUME NEW v, NEW w, Typed(v), Typed(w), Drops(v, w),
         NEW m \in DOMAIN w.k, NEW n \in Nat, w.k[m].started \notin w.lost,
         Filed(v, Before(v.c, m), Before(v.c, n))
  PROVE  Filed(w, m, n)
  <1>1. PICK c \in Nat : c = v.c
    BY DropPlaces
  <1>2. Before(c, m) \in DOMAIN v.k /\ w.k[m] = v.k[Before(c, m)] /\ m \in Nat
    BY <1>1, DropPlaces, ViewTypes
  <1>3. PICK k \in DOMAIN v.k : /\ Before(c, m) < k /\ k < Before(c, n) /\ ~IsLive(v.k[k])
                                /\ v.k[k].started = w.k[m].started
    BY <1>1, <1>2 DEF Filed
  <1>4. k \in Nat /\ k # c + 1 /\ After(c, k) \in DOMAIN w.k /\ w.k[After(c, k)] = v.k[k]
    BY <1>1, <1>3, DropPlaces, ViewTypes
  <1>5. m < After(c, k) /\ After(c, k) < n
    BY <1>2, <1>3, <1>4 DEF Before, After
  <1> QED
    BY <1>3, <1>4, <1>5 DEF Filed

LEMMA DropsTold ==
  ASSUME NEW v, NEW w, Typed(v), Typed(w), Drops(v, w), NEW e, e.started \notin w.lost,
         NEW p \in Nat, NEW q \in Nat, p <= q \/ (v.c < p /\ p <= q + 1), Told1(v, p, e)
  PROVE  Told1(w, q, e)
  <1> SUFFICES ASSUME NEW m \in DOMAIN w.k, IsLive(w.k[m]), w.k[m].id[1] = e.id[1],
                      w.k[m].started < e.started
               PROVE  \E n \in DOMAIN w.k :
                        m < n /\ n <= q /\ IsVerdict(w.k[n]) /\ w.k[n].started = e.started
    BY DEF Told1
  <1>1. PICK c \in Nat : c = v.c
    BY DropPlaces
  <1>2. Before(c, m) \in DOMAIN v.k /\ w.k[m] = v.k[Before(c, m)] /\ m \in Nat
    BY <1>1, DropPlaces, ViewTypes
  <1>3. PICK n \in DOMAIN v.k : /\ Before(c, m) < n /\ n <= p /\ IsVerdict(v.k[n])
                                /\ v.k[n].started = e.started
    BY <1>2 DEF Told1
  <1>4. n \in Nat /\ n # c + 1 /\ After(c, n) \in DOMAIN w.k /\ w.k[After(c, n)] = v.k[n]
    BY <1>1, <1>3, DropPlaces, ViewTypes
  <1>5. m < After(c, n) /\ After(c, n) <= q
    BY <1>1, <1>2, <1>3, <1>4 DEF Before, After
  <1> QED
    BY <1>3, <1>4, <1>5

LEMMA DropsGood ==
  ASSUME NEW v, NEW w, Good(v), Typed(w), Drops(v, w)
  PROVE  Good(w)
  <1>1. Typed(v)
    BY DEF Good
  <1>2. PICK c \in Nat : c = v.c
    BY <1>1, DropPlaces
  <1>3. ASSUME NEW n \in DOMAIN w.k
        PROVE  /\ n \in Nat /\ Before(c, n) \in DOMAIN v.k /\ w.k[n] = v.k[Before(c, n)]
    BY <1>1, <1>2, DropPlaces, ViewTypes
  <1>4. \A y \in w.sh : \A e \in y[1] : \E x \in v.sh : e \in x[1] /\ x[1] = y[1]
    BY DEF Drops
  <1>5. ASSUME NEW o, Shelved(v, o) PROVE Shelved(w, o)
    <2> SUFFICES ASSUME NEW y \in w.sh PROVE Named(y[1], o)
      BY DEF Shelved
    <2>1. CASE y[1] = {}
      BY <2>1 DEF Named
    <2>2. CASE \E x \in v.sh : x[1] = y[1]
      BY <1>5, <2>2 DEF Shelved
    <2> QED
      BY <2>1, <2>2 DEF Drops
  <1>6. \A o : o \notin w.lost => o \notin v.lost
    BY DEF Drops
  <1>7. Marked(w)
    <2>1. PICK st, own : Marks(v, st, own)
      BY DEF Good, Marked
    <2>2. \A n \in DOMAIN w.k : Mark(w.k[n], w.t, st, own)
      BY <1>3, <2>1 DEF Marks, Drops
    <2>3. \A x \in w.sh : \A g \in x[1] : Mark(g, w.t, st, own)
      BY <1>4, <2>1 DEF Marks, Drops
    <2>4. Marks(w, st, own)
      BY <2>1, <2>2, <2>3 DEF Marks, Drops
    <2> QED
      BY <2>4 DEF Marked
  <1>8. Stored(w)
    BY <1>3, <1>6 DEF Good, Stored, Drops
  <1>9. Held(w)
    <2> SUFFICES ASSUME NEW m \in DOMAIN w.k, IsVerdict(w.k[m]), w.k[m].started \notin w.lost,
                        ~Shelved(w, w.k[m].started),
                        ~\E g \in w.d : IsLive(g) /\ g.started = w.k[m].started
                 PROVE  Filed(w, m, Len(w.k) + 1)
      BY DEF Held
    <2>1. Filed(v, Before(c, m), Len(v.k) + 1)
      BY <1>3, <1>5, <1>6 DEF Good, Held, Drops
    <2>2. Len(w.k) + 1 \in Nat
      BY ViewTypes
    <2> QED
      BY <1>1, <1>2, <2>1, <2>2, DropPlaces, DropsFiled
  <1>10. Split(w)
    <2> SUFFICES ASSUME NEW m \in DOMAIN w.k, NEW n \in DOMAIN w.k, IsVerdict(w.k[m]),
                        IsVerdict(w.k[n]), w.k[m].id = w.k[n].id,
                        m < n, w.k[m].started < w.k[n].started, w.k[m].started \notin w.lost,
                        ~Shelved(w, w.k[m].started)
                 PROVE  Filed(w, m, n)
      BY DEF Split
    <2>1. Before(c, m) < Before(c, n)
      BY <1>3 DEF Before
    <2>2. Filed(v, Before(c, m), Before(c, n))
      BY <1>3, <1>5, <1>6, <2>1 DEF Good, Split
    <2> QED
      BY <1>1, <1>2, <1>3, <2>2, DropsFiled
  <1>11. Ascends(w)
    <2> SUFFICES ASSUME NEW m \in DOMAIN w.k, NEW n \in DOMAIN w.k, m < n, IsLive(w.k[m]),
                        w.k[m].id = w.k[n].id
                 PROVE  By(w, w.k[m], w.k[n].started)
      BY DEF Ascends
    <2>1. Before(c, m) < Before(c, n)
      BY <1>3 DEF Before
    <2> QED
      BY <1>3, <1>6, <2>1 DEF Good, Ascends, By
  <1>12. Newest(w)
    <2>1. ASSUME NEW o, Reach(v, o) PROVE Reach(w, o)
      <3>1. \A n \in DOMAIN w.k : (IsLive(w.k[n]) /\ w.k[n].id[1] = o[1]) => By(w, w.k[n], o[2])
        BY <1>3, <1>6, <2>1 DEF Reach, By
      <3>2. \A x \in w.sh : \A g \in x[1] :
              (IsLive(g) /\ g.id[1] = o[1]) => (g.started <= o[2] \/ g.started \in w.lost)
        BY <1>4, <1>6, <2>1 DEF Reach
      <3> QED
        BY <3>1, <3>2 DEF Reach
    <2> QED
      BY <2>1 DEF Good, Newest, Drops
  <1>13. OwnDetail(w) /\ Listed(w)
    BY <1>6 DEF Good, OwnDetail, Listed, Drops
  <1>14. ToldOnShelf(w)
    <2> SUFFICES ASSUME NEW y \in w.sh, NEW g \in y[1], IsLive(g), g.started \notin w.lost
                 PROVE  Told1(w, y[2], g)
      BY DEF ToldOnShelf
    <2>1. PICK x \in v.sh : x[1] = y[1] /\ (x[2] <= y[2] \/ (v.c < x[2] /\ x[2] <= y[2] + 1))
      BY DEF Drops
    <2>2. Told1(v, x[2], g)
      BY <1>6, <2>1 DEF Good, ToldOnShelf
    <2>3. x[2] \in Nat /\ y[2] \in Nat
      BY <1>1, <2>1, ViewTypes
    <2> QED
      BY <1>1, <2>1, <2>2, <2>3, DropsTold
  <1>15. ToldInStore(w)
    <2> SUFFICES ASSUME NEW g \in w.d, IsLive(g), g.id[1] \notin w.lg, g.started \notin w.lost
                 PROVE  Told1(w, w.c, g)
      BY DEF ToldInStore
    <2>1. Told1(v, c, g) /\ w.c = c /\ c <= c
      BY <1>2, <1>6 DEF Good, ToldInStore, Drops
    <2> QED
      BY <1>1, <1>2, <2>1, DropsTold
  <1>16. OneSoFar(w)
    BY <1>3 DEF Good, OneSoFar, Drops
  <1>17. Unborn(w)
    BY <1>3, <1>4 DEF Good, Unborn, Drops
  <1>18. Stand(w)
    <2> SUFFICES ASSUME NEW o \in v.ops, NEW m \in DOMAIN w.k, NEW n \in DOMAIN w.k, m < n,
                        w.k[m].started = o[2], IsVerdict(w.k[m]), IsVerdict(w.k[n]),
                        w.k[m].id = w.k[n].id
                 PROVE  w.k[n].started <= o[2]
      BY DEF Stand, Drops
    <2>1. Before(c, m) < Before(c, n)
      BY <1>3 DEF Before
    <2> QED
      BY <1>3, <2>1 DEF Good, Stand
  <1> QED
    BY <1>17, <1>18, <1>7, <1>8, <1>9, <1>10, <1>11, <1>12, <1>13, <1>14, <1>15, <1>16 DEF Good

\* The controller stops: the store is the file's, and of the rows the last that were known
\* are left.
Crashes(v, w, a) ==
  /\ a \in Nat /\ a + Len(w.k) = v.c /\ v.c <= Len(v.k)
  /\ \A n \in DOMAIN w.k : w.k[n] = v.k[a + n]
  /\ w.c = Len(w.k) /\ w.t = v.t /\ w.n # 0
  /\ w.lg = {} /\ w.ops = {} /\ w.opens = {}
  /\ \E x \in v.sh : x[1] = w.d /\ x[2] <= v.c
  /\ \A y \in w.sh : y[1] = w.d /\ y[2] = Len(w.k)
  /\ v.lost \subseteq w.lost
  /\ \A e \in v.d : e.started \in w.lost \/ \E f \in w.d : f.started = e.started

LEMMA CrashesGood ==
  ASSUME NEW v, NEW w, NEW a, Good(v), Typed(w), Crashes(v, w, a)
  PROVE  Good(w)
  <1>1. Typed(v)
    BY DEF Good
  <1>2. PICK l \in Nat : l = Len(w.k) /\ DOMAIN w.k = 1..l
    BY ViewTypes
  <1>3. ASSUME NEW n \in DOMAIN w.k
        PROVE  n \in Nat /\ a + n \in DOMAIN v.k /\ w.k[n] = v.k[a + n] /\ a + n <= v.c
    <2>1. PICK k \in Nat : k = Len(v.k) /\ DOMAIN v.k = 1..k
      BY <1>1, ViewTypes
    <2>2. a \in Nat /\ a + l = v.c /\ v.c <= k /\ n \in 1..l
      BY <1>2, <2>1 DEF Crashes
    <2> QED
      BY <2>1, <2>2 DEF Crashes
  <1>4. \A k \in DOMAIN v.k : k \in Nat /\ ((a < k /\ k <= v.c) => k - a \in DOMAIN w.k)
    BY <1>1, <1>2, ViewTypes DEF Crashes
  <1>5. PICK x \in v.sh : x[1] = w.d /\ x[2] <= v.c
    BY DEF Crashes
  <1>6. a \in Nat /\ v.c \in Nat /\ x[2] \in Nat
    BY <1>1, ViewTypes DEF Crashes, Typed
  <1>7. \A o : o \notin w.lost => o \notin v.lost
    BY DEF Crashes
  <1>8. ASSUME NEW o, Named(w.d, o) PROVE Shelved(w, o)
    BY <1>8 DEF Crashes, Shelved
  <1>9. Marked(w)
    <2>1. PICK st, own : Marks(v, st, own)
      BY DEF Good, Marked
    <2>2. \A n \in DOMAIN w.k : Mark(w.k[n], w.t, st, own)
      BY <1>3, <2>1 DEF Marks, Crashes
    <2>3. \A y \in w.sh : \A g \in y[1] : Mark(g, w.t, st, own)
      BY <1>5, <2>1 DEF Marks, Crashes
    <2>4. Marks(w, st, own)
      BY <2>2, <2>3 DEF Marks, Crashes
    <2> QED
      BY <2>4 DEF Marked
  <1>10. ASSUME NEW m \in DOMAIN w.k, w.k[m].kind = "terminal", w.k[m].started \notin w.lost
         PROVE  \E f \in w.d : f.started = w.k[m].started
    <2>1. PICK e \in v.d : e.started = w.k[m].started
      BY <1>3, <1>7, <1>10 DEF Good, Stored
    <2> QED
      BY <1>10, <2>1 DEF Crashes
  <1>11. Stored(w)
    BY <1>10 DEF Stored
  <1>12. Held(w)
    <2> SUFFICES ASSUME NEW m \in DOMAIN w.k, IsVerdict(w.k[m]), w.k[m].started \notin w.lost,
                        ~\E g \in w.d : IsLive(g) /\ g.started = w.k[m].started
                 PROVE  Shelved(w, w.k[m].started)
      BY DEF Held
    <2>1. Named(w.d, w.k[m].started)
      BY <1>10 DEF Named, IsVerdict
    <2> QED
      BY <1>8, <2>1
  <1>13. Split(w)
    <2> SUFFICES ASSUME NEW m \in DOMAIN w.k, NEW n \in DOMAIN w.k, IsVerdict(w.k[m]),
                        IsVerdict(w.k[n]), w.k[m].id = w.k[n].id,
                        m < n, w.k[m].started < w.k[n].started, w.k[m].started \notin w.lost,
                        ~Shelved(w, w.k[m].started)
                 PROVE  Filed(w, m, n)
      BY DEF Split
    <2>1. ~Shelved(v, w.k[m].started)
      BY <1>5, <1>8 DEF Shelved
    <2>2. Filed(v, a + m, a + n)
      <3>1. a + m < a + n
        BY <1>3, <1>6
      <3> QED
        BY <1>3, <1>7, <2>1, <3>1 DEF Good, Split
    <2>3. PICK k \in DOMAIN v.k : /\ a + m < k /\ k < a + n /\ ~IsLive(v.k[k])
                                  /\ v.k[k].started = w.k[m].started
      BY <1>3, <2>2 DEF Filed
    <2>4. PICK j : j = k - a
      OBVIOUS
    <2>5. j \in DOMAIN w.k /\ a + j = k /\ m < j /\ j < n
      BY <1>3, <1>4, <1>6, <2>3, <2>4
    <2> QED
      BY <1>3, <2>3, <2>5 DEF Filed
  <1>14. Ascends(w)
    <2> SUFFICES ASSUME NEW m \in DOMAIN w.k, NEW n \in DOMAIN w.k, m < n, IsLive(w.k[m]),
                        w.k[m].id = w.k[n].id
                 PROVE  By(w, w.k[m], w.k[n].started)
      BY DEF Ascends
    <2>1. a + m < a + n
      BY <1>3, <1>6
    <2> QED
      BY <1>3, <1>7, <2>1 DEF Good, Ascends, By
  <1>15. Newest(w) /\ Unborn(w) /\ Stand(w) /\ OwnDetail(w) /\ OneSoFar(w) /\ Listed(w)
    BY DEF Newest, Unborn, Stand, OwnDetail, OneSoFar, Listed, Crashes
  <1>16. ASSUME NEW e \in w.d, IsLive(e), e.started \notin w.lost PROVE Told1(w, l, e)
    <2> SUFFICES ASSUME NEW m \in DOMAIN w.k, IsLive(w.k[m]), w.k[m].id[1] = e.id[1],
                        w.k[m].started < e.started
                 PROVE  \E n \in DOMAIN w.k :
                          m < n /\ n <= l /\ IsVerdict(w.k[n]) /\ w.k[n].started = e.started
      BY DEF Told1
    <2>1. Told1(v, x[2], e)
      BY <1>5, <1>7, <1>16 DEF Good, ToldOnShelf
    <2>2. PICK k \in DOMAIN v.k : a + m < k /\ k <= x[2] /\ IsVerdict(v.k[k])
                                  /\ v.k[k].started = e.started
      BY <1>3, <2>1 DEF Told1
    <2>3. PICK j : j = k - a
      OBVIOUS
    <2>4. j \in DOMAIN w.k /\ a + j = k /\ m < j
      BY <1>3, <1>4, <1>5, <1>6, <2>2, <2>3
    <2> QED
      BY <1>2, <1>3, <2>2, <2>4
  <1>17. ToldOnShelf(w)
    BY <1>2, <1>16 DEF ToldOnShelf, Crashes
  <1>18. ToldInStore(w)
    BY <1>2, <1>16 DEF ToldInStore, Crashes
  <1> QED
    BY <1>9, <1>11, <1>12, <1>13, <1>14, <1>15, <1>17, <1>18 DEF Good

\* The controller starts and cannot read the details.
Forgets(v, w) ==
  /\ w.k = v.k /\ w.c = v.c /\ w.t = v.t
  /\ w.d = {} /\ w.ops = {} /\ w.opens = {}
  /\ v.lost \subseteq w.lost /\ \A n \in DOMAIN v.k : v.k[n].started \in w.lost
  /\ \A y \in w.sh : Stays(v.sh, y)

LEMMA ForgetsGood ==
  ASSUME NEW v, NEW w, Good(v), Typed(w), Forgets(v, w)
  PROVE  Good(w)
  <1>1. \A y \in w.sh : \A e \in y[1] : \E x \in v.sh : e \in x[1] /\ x[1] = y[1] /\ x[2] <= y[2]
    BY DEF Forgets, Stays
  <1>2. Marked(w)
    <2>1. PICK st, own : Marks(v, st, own)
      BY DEF Good, Marked
    <2>2. Marks(w, st, own)
      BY <1>1, <2>1 DEF Marks, Forgets
    <2> QED
      BY <2>2 DEF Marked
  <1>3. Stored(w) /\ Held(w) /\ Split(w)
    BY DEF Stored, Held, Split, Forgets
  <1>4. Ascends(w)
    BY DEF Good, Ascends, By, Forgets
  <1>5. /\ Newest(w) /\ Unborn(w) /\ Stand(w) /\ OwnDetail(w) /\ ToldInStore(w)
        /\ OneSoFar(w) /\ Listed(w)
    BY DEF Newest, Unborn, Stand, OwnDetail, ToldInStore, OneSoFar, Listed, Forgets
  <1>6. ToldOnShelf(w)
    <2> SUFFICES ASSUME NEW y \in w.sh, NEW e \in y[1], IsLive(e), e.started \notin w.lost
                 PROVE  Told1(w, y[2], e)
      BY DEF ToldOnShelf
    <2>1. PICK x \in v.sh : e \in x[1] /\ x[2] <= y[2]
      BY <1>1
    <2>2. Told1(v, x[2], e)
      BY <2>1 DEF Good, ToldOnShelf, Forgets
    <2>3. x[2] \in Nat /\ y[2] \in Nat /\ \A n \in DOMAIN v.k : n \in Nat
      BY ViewTypes DEF Good
    <2> QED
      BY <2>1, <2>2, <2>3 DEF Told1, Forgets
  <1> QED
    BY <1>2, <1>3, <1>4, <1>5, <1>6 DEF Good

\* A store from before there was a ledger gets its rows.
Migrates(v, w) ==
  /\ w.d = v.d /\ w.ops = {} /\ w.opens = {} /\ w.t = v.t /\ w.c = Len(w.k)
  /\ \A n \in DOMAIN w.k : \E e \in v.d :
       w.k[n].id = e.id /\ w.k[n].started = e.started /\ w.k[n].saved = e.saved
  /\ \A e, f \in v.d : e.id = f.id => e = f
  /\ \A y \in w.sh : y[1] = v.d

LEMMA MigratesGood ==
  ASSUME NEW v, NEW w, Good(v), Typed(w), Migrates(v, w)
  PROVE  Good(w)
  <1>1. PICK x \in v.sh : x[1] = v.d
    BY DEF Good, Typed
  <1>2. Marked(w)
    <2>1. PICK st, own : Marks(v, st, own)
      BY DEF Good, Marked
    <2>2. \A e \in v.d : Mark(e, v.t, st, own)
      BY <1>1, <2>1 DEF Marks
    <2>3. \A n \in DOMAIN w.k : Mark(w.k[n], w.t, st, own)
      BY <2>2 DEF Mark, Migrates
    <2>4. Marks(w, st, own)
      BY <2>2, <2>3 DEF Marks, Migrates
    <2> QED
      BY <2>4 DEF Marked
  <1>3. ASSUME NEW n \in DOMAIN w.k
        PROVE  \E e \in w.d : w.k[n].id = e.id /\ w.k[n].started = e.started
    BY DEF Migrates
  <1>4. Stored(w)
    BY <1>3 DEF Stored
  <1>5. Held(w)
    BY <1>3 DEF Held, IsVerdict, IsLive
  <1>6. ASSUME NEW m \in DOMAIN w.k, NEW n \in DOMAIN w.k, w.k[m].id = w.k[n].id
        PROVE  w.k[m].started = w.k[n].started
    BY <1>6 DEF Migrates
  <1>7. \A n \in DOMAIN w.k : w.k[n].started \in Nat
    BY ViewTypes
  <1>8. Split(w) /\ Ascends(w)
    BY <1>6, <1>7 DEF Split, Ascends, By
  <1>9. Newest(w) /\ Unborn(w) /\ Stand(w) /\ OwnDetail(w) /\ Listed(w)
    BY DEF Newest, Unborn, Stand, OwnDetail, Listed, Migrates
  <1>10. ASSUME NEW e \in w.d, IsLive(e), NEW n \in DOMAIN w.k, IsLive(w.k[n]),
                w.k[n].id[1] = e.id[1]
         PROVE  w.k[n].started = e.started
    <2>1. e.id = <<e.id[1], e.id[2]>> /\ w.k[n].id = <<w.k[n].id[1], w.k[n].id[2]>>
      BY ViewTypes DEF Typed
    <2>2. w.k[n].id = e.id
      BY <1>10, <2>1 DEF IsLive
    <2> QED
      BY <2>2 DEF Migrates
  <1>11. ASSUME NEW e \in w.d, IsLive(e), NEW p PROVE Told1(w, p, e)
    <2>1. \A n \in DOMAIN w.k : ~(w.k[n].started < w.k[n].started)
      BY <1>7
    <2> QED
      BY <1>10, <1>11, <2>1 DEF Told1
  <1>12. ToldOnShelf(w) /\ ToldInStore(w)
    BY <1>11 DEF ToldOnShelf, ToldInStore, Migrates
  <1>13. OneSoFar(w)
    BY <1>10 DEF OneSoFar
  <1> QED
    BY <1>2, <1>4, <1>5, <1>8, <1>9, <1>12, <1>13 DEF Good

-----------------------------------------------------------------------------
(* The view of the history *)

\* The rows known, and then those that wait.
Joined(seen, rows) == seen \o [n \in DOMAIN rows |-> rows[n].row]

\* The shelf: the file and the snapshots on their way to it come after the rows that are
\* known, a snapshot that awaits its row after that row, and the store after all of them.
Shelf(f, files, rows, d, c) ==
  {<<Elements(f), c>>, <<Elements(d), c + Len(rows)>>}
    \cup {<<Elements(files[n]), c>> : n \in DOMAIN files}
    \cup {<<Elements(rows[n].snapshot), c + n>> : n \in DOMAIN rows}

Holders(ops) == {<<i, ops[i].started>> : i \in DOMAIN ops}
Waiters(rows) ==
  {<<rows[n].row.id[1], rows[n].started>> : n \in {m \in DOMAIN rows : rows[m].then = "open"}}
Opens(rows, i) == \E n \in DOMAIN rows : rows[n].then = "open" /\ rows[n].row.id[1] = i

\* No operation waits for two rows.
OpensOnce(rows) == \A m, n \in DOMAIN rows :
  (rows[m].then = "open" /\ rows[n].then = "open" /\ rows[m].started = rows[n].started)
    => m = n

LEMMA JoinedIs ==
  ASSUME NEW seen \in Seq(Rows), NEW rows \in Seq(Appends)
  PROVE  /\ Joined(seen, rows) \in Seq(Rows)
         /\ Len(seen) \in Nat /\ Len(rows) \in Nat /\ DOMAIN rows = 1..Len(rows)
         /\ Len(Joined(seen, rows)) = Len(seen) + Len(rows)
         /\ \A n \in 1..Len(seen) + Len(rows) :
              Joined(seen, rows)[n] = IF n <= Len(seen) THEN seen[n] ELSE rows[n - Len(seen)].row
  <1>1. PICK l \in Nat, k \in Nat : l = Len(rows) /\ DOMAIN rows = 1..l /\ k = Len(seen)
    BY SeqIs
  <1>2. \A n \in DOMAIN rows : rows[n].row \in Rows
    BY SeqIs, JobFields
  <1>3. PICK r : r = [n \in DOMAIN rows |-> rows[n].row]
    OBVIOUS
  <1>4. r = [n \in 1..l |-> r[n]] /\ \A n \in 1..l : r[n] = rows[n].row /\ r[n] \in Rows
    BY <1>1, <1>2, <1>3
  <1>5. r \in Seq(Rows)
    BY <1>4, SeqFrom
  <1>6. Len(r) = l
    <2>1. Len(r) \in Nat /\ DOMAIN r = 1..Len(r) /\ DOMAIN r = 1..l
      BY <1>4, <1>5, SeqIs
    <2> QED
      BY <2>1, SameInterval
  <1>7. PICK j : j = seen \o r
    OBVIOUS
  <1>8. /\ j \in Seq(Rows) /\ Len(j) = k + l
        /\ \A n \in 1..k + l : j[n] = IF n <= k THEN seen[n] ELSE r[n - k]
    <2>1. /\ seen \o r \in Seq(Rows) /\ Len(seen \o r) = Len(seen) + Len(r)
          /\ \A n \in 1..Len(seen) + Len(r) :
               (seen \o r)[n] = IF n <= Len(seen) THEN seen[n] ELSE r[n - Len(seen)]
      BY <1>5, ConcatProperties
    <2> QED
      BY <1>1, <1>6, <1>7, <2>1
  <1>9. \A n \in 1..k + l : ~(n <= k) => r[n - k] = rows[n - k].row
    BY <1>4
  <1>10. Joined(seen, rows) = j
    BY <1>3, <1>7 DEF Joined
  <1> QED
    BY <1>1, <1>8, <1>9, <1>10

LEMMA SameRows ==
  ASSUME NEW s \in Seq(Rows), NEW t \in Seq(Rows), Len(s) = Len(t),
         \A n \in 1..Len(s) : s[n] = t[n]
  PROVE  s = t
  BY SeqEqual

LEMMA JoinedAppend ==
  ASSUME NEW seen \in Seq(Rows), NEW rows \in Seq(Appends), NEW j \in Appends
  PROVE  Joined(seen, Append(rows, j)) = Append(Joined(seen, rows), j.row)
  <1>1. PICK more \in Seq(Appends) : more = Append(rows, j)
    BY AppendProperties
  <1>2. PICK k \in Nat, l \in Nat : k = Len(seen) /\ l = Len(rows)
    BY JoinedIs
  <1>3. Len(more) = l + 1 /\ more[l + 1] = j /\ \A n \in 1..l : more[n] = rows[n]
    BY <1>1, <1>2, AppendProperties
  <1>4. PICK s \in Seq(Rows), t \in Seq(Rows) : s = Joined(seen, more) /\ t = Joined(seen, rows)
    BY JoinedIs
  <1>5. /\ Len(s) = k + (l + 1)
        /\ \A n \in 1..k + (l + 1) : s[n] = IF n <= k THEN seen[n] ELSE more[n - k].row
    <2>1. /\ Len(s) = Len(seen) + Len(more)
          /\ \A n \in 1..Len(seen) + Len(more) :
               s[n] = IF n <= Len(seen) THEN seen[n] ELSE more[n - Len(seen)].row
      BY <1>4, JoinedIs
    <2> QED
      BY <1>2, <1>3, <2>1
  <1>6. Len(t) = k + l /\ \A n \in 1..k + l : t[n] = IF n <= k THEN seen[n] ELSE rows[n - k].row
    BY <1>2, <1>4, JoinedIs
  <1>7. j.row \in Rows
    BY JobFields
  <1>8. PICK u \in Seq(Rows) : u = Append(t, j.row)
    BY <1>7, AppendProperties
  <1>9. Len(u) = k + l + 1 /\ u[k + l + 1] = j.row /\ \A n \in 1..k + l : u[n] = t[n]
    BY <1>6, <1>7, <1>8, AppendProperties
  <1>10. ASSUME NEW n \in 1..Len(s) PROVE s[n] = u[n]
    <2>1. CASE n <= k
      BY <1>5, <1>6, <1>9, <2>1
    <2>2. CASE k < n /\ n <= k + l
      <3>1. n - k \in 1..l
        BY <2>2
      <3>2. s[n] = more[n - k].row /\ u[n] = rows[n - k].row
        BY <1>5, <1>6, <1>9, <2>2
      <3> QED
        BY <1>3, <3>1, <3>2
    <2>3. CASE n = k + l + 1
      <3>1. n - k = l + 1 /\ n \in 1..k + (l + 1) /\ ~(n <= k)
        BY <2>3
      <3>2. s[n] = more[l + 1].row
        BY <1>5, <3>1
      <3> QED
        BY <1>3, <1>9, <2>3, <3>2
    <2> QED
      BY <1>5, <2>1, <2>2, <2>3
  <1>11. s = u
    BY <1>5, <1>9, <1>10, SameRows
  <1> QED
    BY <1>1, <1>4, <1>8, <1>11

\* The first row that waits becomes known, or is lost.
LEMMA JoinedTail ==
  ASSUME NEW seen \in Seq(Rows), NEW rows \in Seq(Appends), rows # <<>>
  PROVE  /\ Tail(rows) \in Seq(Appends) /\ Head(rows) \in Appends
         /\ Len(Tail(rows)) + 1 = Len(rows)
         /\ Joined(Append(seen, Head(rows).row), Tail(rows)) = Joined(seen, rows)
         /\ Len(seen) + 1 \in DOMAIN Joined(seen, rows)
         /\ Joined(seen, rows)[Len(seen) + 1] = Head(rows).row
         /\ \A n \in DOMAIN Joined(seen, Tail(rows)) :
              Joined(seen, Tail(rows))[n] =
                IF n <= Len(seen) THEN Joined(seen, rows)[n] ELSE Joined(seen, rows)[n + 1]
  <1>1. PICK k \in Nat, l \in Nat : k = Len(seen) /\ l = Len(rows)
    BY JoinedIs
  <1>2. PICK rest \in Seq(Appends), j \in Appends : rest = Tail(rows) /\ j = Head(rows)
    BY HeadTypes
  <1>3. l >= 1 /\ j = rows[1] /\ Len(rest) = l - 1 /\ \A n \in 1..l - 1 : rest[n] = rows[n + 1]
    BY <1>1, <1>2, HeadTailProperties
  <1>4. PICK r \in Rows : r = j.row
    BY JobFields
  <1>5. PICK more \in Seq(Rows) : more = Append(seen, r)
    BY AppendProperties
  <1>6. Len(more) = k + 1 /\ more[k + 1] = r /\ \A n \in 1..k : more[n] = seen[n]
    BY <1>1, <1>5, AppendProperties
  <1>7. PICK s \in Seq(Rows), t \in Seq(Rows), u \in Seq(Rows) :
          s = Joined(seen, rows) /\ t = Joined(more, rest) /\ u = Joined(seen, rest)
    BY JoinedIs
  <1>8. Len(s) = k + l /\ \A n \in 1..k + l : s[n] = IF n <= k THEN seen[n] ELSE rows[n - k].row
    BY <1>1, <1>7, JoinedIs
  <1>9. /\ Len(t) = k + 1 + (l - 1)
        /\ \A n \in 1..k + 1 + (l - 1) : t[n] = IF n <= k + 1 THEN more[n] ELSE rest[n - (k + 1)].row
    <2>1. /\ Len(t) = Len(more) + Len(rest)
          /\ \A n \in 1..Len(more) + Len(rest) :
               t[n] = IF n <= Len(more) THEN more[n] ELSE rest[n - Len(more)].row
      BY <1>7, JoinedIs
    <2> QED
      BY <1>3, <1>6, <2>1
  <1>10. /\ Len(u) = k + (l - 1)
         /\ \A n \in 1..k + (l - 1) : u[n] = IF n <= k THEN seen[n] ELSE rest[n - k].row
    <2>1. /\ Len(u) = Len(seen) + Len(rest)
          /\ \A n \in 1..Len(seen) + Len(rest) :
               u[n] = IF n <= Len(seen) THEN seen[n] ELSE rest[n - Len(seen)].row
      BY <1>7, JoinedIs
    <2> QED
      BY <1>1, <1>3, <2>1
  <1>11. k + 1 \in 1..k + l /\ s[k + 1] = r
    <2>1. k + 1 \in 1..k + l /\ ~(k + 1 <= k) /\ (k + 1) - k = 1
      BY <1>3
    <2>2. s[k + 1] = rows[(k + 1) - k].row
      BY <1>8, <2>1
    <2> QED
      BY <1>3, <1>4, <2>1, <2>2
  <1>12. ASSUME NEW n \in 1..Len(s) PROVE s[n] = t[n]
    <2>1. n \in 1..k + l /\ n \in 1..k + 1 + (l - 1)
      BY <1>8
    <2>2. CASE n <= k
      BY <1>6, <1>8, <1>9, <2>1, <2>2
    <2>3. CASE n = k + 1
      BY <1>6, <1>9, <1>11, <2>1, <2>3
    <2>4. CASE n > k + 1
      <3>1. PICK m \in 1..l - 1 : m = n - (k + 1) /\ m + 1 = n - k
        BY <2>1, <2>4
      <3>2. t[n] = rest[m].row /\ s[n] = rows[m + 1].row
        BY <1>8, <1>9, <2>1, <2>4, <3>1
      <3> QED
        BY <1>3, <3>1, <3>2
    <2> QED
      BY <2>1, <2>2, <2>3, <2>4
  <1>13. s = t
    BY <1>8, <1>9, <1>12, SameRows
  <1>14. ASSUME NEW n \in 1..k + (l - 1) PROVE u[n] = IF n <= k THEN s[n] ELSE s[n + 1]
    <2>1. CASE n <= k
      BY <1>8, <1>10, <2>1
    <2>2. CASE n > k
      <3>1. PICK m \in 1..l - 1 : m = n - k /\ m + 1 = (n + 1) - k
        BY <2>2
      <3>2. u[n] = rest[m].row /\ s[n + 1] = rows[m + 1].row
        BY <1>8, <1>10, <2>2, <3>1
      <3> QED
        BY <1>3, <2>2, <3>1, <3>2
    <2> QED
      BY <2>1, <2>2
  <1>15. DOMAIN u = 1..k + (l - 1) /\ DOMAIN s = 1..k + l
    BY <1>8, <1>10, LenProperties
  <1>16. (l - 1) + 1 = l
    OBVIOUS
  <1> QED
    BY <1>1, <1>2, <1>3, <1>4, <1>5, <1>7, <1>11, <1>13, <1>14, <1>15, <1>16

LEMMA JoinedRenamed ==
  ASSUME NEW seen, NEW rows \in Seq(Appends), NEW e \in Entries
  PROVE  /\ Joined(seen, RenamedRows(rows, e)) = Joined(seen, rows)
         /\ Waiters(RenamedRows(rows, e)) = Waiters(rows)
         /\ Len(RenamedRows(rows, e)) = Len(rows)
  <1>1. PICK more \in Seq(Appends) : more = RenamedRows(rows, e)
    <2>1. <<>> \in Seq(Seq(Entries))
      BY EmptyType
    <2>2. RenamedRows(rows, e) \in Seq(Appends)
      BY <2>1, RenamedQueueTypes DEF RenamedRows
    <2> QED
      BY <2>2
  <1>2. \A n \in DOMAIN rows : rows[n] \in Appends
    BY SeqIs
  <1>3. DOMAIN more = DOMAIN rows
    BY <1>1 DEF RenamedRows
  <1>4. ASSUME NEW n \in DOMAIN rows
        PROVE  more[n].row = rows[n].row /\ more[n].then = rows[n].then /\ more[n].started = rows[n].started
    <2>1. PICK j \in Appends : j = rows[n]
      BY <1>2
    <2>2. PICK x : x = Renamed(j.snapshot, e)
      OBVIOUS
    <2>3. more[n] = [j EXCEPT !.snapshot = x]
      BY <1>1, <2>1, <2>2 DEF RenamedRows
    <2>4. [j EXCEPT !.snapshot = x].row = j.row /\ [j EXCEPT !.snapshot = x].then = j.then
          /\ [j EXCEPT !.snapshot = x].started = j.started
      BY DEF Appends
    <2> QED
      BY <2>1, <2>3, <2>4
  <1>5. [n \in DOMAIN more |-> more[n].row] = [n \in DOMAIN rows |-> rows[n].row]
    BY <1>3, <1>4
  <1>6. Waiters(more) = Waiters(rows)
    BY <1>3, <1>4 DEF Waiters
  <1>7. Len(more) = Len(rows)
    <2>1. Len(more) \in Nat /\ Len(rows) \in Nat /\ 1..Len(more) = 1..Len(rows)
      BY <1>3, SeqIs
    <2> QED
      BY <2>1, SameInterval
  <1> QED
    BY <1>1, <1>5, <1>6, <1>7 DEF Joined

OnShelf(y, f, files, rows, d, c) ==
  \/ y[1] = Elements(f) /\ y[2] = c
  \/ y[1] = Elements(d) /\ y[2] = c + Len(rows)
  \/ \E n \in DOMAIN files : y[1] = Elements(files[n]) /\ y[2] = c
  \/ \E n \in DOMAIN rows : y[1] = Elements(rows[n].snapshot) /\ y[2] = c + n
ShelfHas(sh, f, files, rows, d, c) ==
  /\ \E x \in sh : x[1] = Elements(f) /\ x[2] = c
  /\ \E x \in sh : x[1] = Elements(d) /\ x[2] = c + Len(rows)
  /\ \A n \in DOMAIN files : \E x \in sh : x[1] = Elements(files[n]) /\ x[2] = c
  /\ \A n \in DOMAIN rows : \E x \in sh : x[1] = Elements(rows[n].snapshot) /\ x[2] = c + n

LEMMA ShelfIs ==
  ASSUME NEW f, NEW files, NEW rows, NEW d, NEW c
  PROVE  /\ \A y \in Shelf(f, files, rows, d, c) : OnShelf(y, f, files, rows, d, c)
         /\ ShelfHas(Shelf(f, files, rows, d, c), f, files, rows, d, c)
  <1>1. PICK s : s = Shelf(f, files, rows, d, c)
    OBVIOUS
  <1>2. ASSUME NEW y \in s
        PROVE  \/ y[1] = Elements(f) /\ y[2] = c
               \/ y[1] = Elements(d) /\ y[2] = c + Len(rows)
               \/ \E n \in DOMAIN files : y[1] = Elements(files[n]) /\ y[2] = c
               \/ \E n \in DOMAIN rows : y[1] = Elements(rows[n].snapshot) /\ y[2] = c + n
    BY <1>1 DEF Shelf
  <1>3. <<Elements(f), c>> \in s /\ <<Elements(d), c + Len(rows)>> \in s
    BY <1>1 DEF Shelf
  <1>4. \A n \in DOMAIN files : <<Elements(files[n]), c>> \in s
    BY <1>1 DEF Shelf
  <1>5. \A n \in DOMAIN rows : <<Elements(rows[n].snapshot), c + n>> \in s
    BY <1>1 DEF Shelf
  <1>6. \A a, b : <<a, b>>[1] = a /\ <<a, b>>[2] = b
    OBVIOUS
  <1>7. \A y \in s : OnShelf(y, f, files, rows, d, c)
    BY <1>2 DEF OnShelf
  <1>8. ShelfHas(s, f, files, rows, d, c)
    BY <1>3, <1>4, <1>5, <1>6 DEF ShelfHas
  <1> QED
    BY <1>1, <1>7, <1>8

\* A view of the history.
Pictures(v, f, files, rows, d, seen) ==
  /\ v.k = Joined(seen, rows) /\ v.c = Len(seen)
  /\ v.sh = Shelf(f, files, rows, d, Len(seen)) /\ v.d = Elements(d)

LEMMA ElementsType ==
  ASSUME NEW s \in Seq(Entries)
  PROVE  Elements(s) \in SUBSET Entries
  BY SeqIs DEF Elements

LEMMA PictureTyped ==
  ASSUME NEW f \in Seq(Entries), NEW files \in Seq(Seq(Entries)), NEW rows \in Seq(Appends),
         NEW d \in Seq(Entries), NEW seen \in Seq(Rows), NEW v, Pictures(v, f, files, rows, d, seen),
         v.ops \subseteq Ids \X Nat, v.opens \subseteq Ids \X Nat, v.t \in Nat, v.n \in Nat
  PROVE  Typed(v)
  <1>1. PICK c \in Nat : c = Len(seen)
    BY JoinedIs
  <1>2. v.k \in Seq(Rows) /\ v.c = c /\ Len(v.k) = c + Len(rows) /\ Len(rows) \in Nat
        /\ \A n \in DOMAIN rows : n \in Nat
    BY <1>1, JoinedIs DEF Pictures
  <1>3. /\ \A n \in DOMAIN files : files[n] \in Seq(Entries)
        /\ \A n \in DOMAIN rows : rows[n].snapshot \in Seq(Entries)
    BY SeqIs, JobFields
  <1>4. ASSUME NEW y \in v.sh PROVE y \in (SUBSET Entries) \X Nat
    <2>1. \/ y = <<Elements(f), c>>
          \/ y = <<Elements(d), c + Len(rows)>>
          \/ \E n \in DOMAIN files : y = <<Elements(files[n]), c>>
          \/ \E n \in DOMAIN rows : y = <<Elements(rows[n].snapshot), c + n>>
      BY <1>1 DEF Pictures, Shelf
    <2>2. ASSUME NEW s \in Seq(Entries), NEW n \in Nat PROVE <<Elements(s), n>> \in (SUBSET Entries) \X Nat
      BY ElementsType
    <2>3. c + Len(rows) \in Nat /\ \A n \in DOMAIN rows : c + n \in Nat
      BY <1>2
    <2>4. CASE y = <<Elements(f), c>>
      BY <2>2, <2>4
    <2>5. CASE y = <<Elements(d), c + Len(rows)>>
      BY <2>2, <2>3, <2>5
    <2>6. CASE \E n \in DOMAIN files : y = <<Elements(files[n]), c>>
      BY <1>3, <2>2, <2>6
    <2>7. CASE \E n \in DOMAIN rows : y = <<Elements(rows[n].snapshot), c + n>>
      BY <1>3, <2>2, <2>3, <2>7
    <2> QED
      BY <2>1, <2>4, <2>5, <2>6, <2>7
  <1>5. <<v.d, Len(v.k)>> \in v.sh
    BY <1>1, <1>2 DEF Pictures, Shelf
  <1>6. v.d \in SUBSET Entries
    BY ElementsType DEF Pictures
  <1> QED
    BY <1>2, <1>4, <1>5, <1>6 DEF Typed

LEMMA HoldersType ==
  ASSUME NEW ops, Records(ops)
  PROVE  Holders(ops) \subseteq Ids \X Nat
  <1>1. \A i \in DOMAIN ops : i \in Ids /\ ops[i].started \in Nat
    BY DEF Records, Ops
  <1> QED
    BY <1>1 DEF Holders

LEMMA WaitersType ==
  ASSUME NEW rows \in Seq(Appends)
  PROVE  Waiters(rows) \subseteq Ids \X Nat
  <1>1. \A n \in DOMAIN rows : rows[n].row.id[1] \in Ids /\ rows[n].started \in Nat
    BY SeqIs, JobFields, RowFields
  <1> QED
    BY <1>1 DEF Waiters

LEMMA WaitersAppend ==
  ASSUME NEW rows \in Seq(Appends), NEW j
  PROVE  /\ j.then # "open" => Waiters(Append(rows, j)) = Waiters(rows)
         /\ j.then = "open" =>
              Waiters(Append(rows, j)) = Waiters(rows) \cup {<<j.row.id[1], j.started>>}
  <1>1. PICK more : more = Append(rows, j)
    OBVIOUS
  <1>2. PICK l : l = Len(rows) + 1
    OBVIOUS
  <1>3. /\ DOMAIN more = DOMAIN rows \cup {l} /\ l \notin DOMAIN rows
        /\ \A n \in DOMAIN rows : more[n] = rows[n]
        /\ more[l] = j
    BY <1>1, <1>2, AppendParts
  <1>4. ASSUME j.then # "open" PROVE Waiters(more) = Waiters(rows)
    <2>1. {m \in DOMAIN more : more[m].then = "open"} = {m \in DOMAIN rows : rows[m].then = "open"}
      BY <1>3, <1>4
    <2> QED
      BY <1>3, <2>1 DEF Waiters
  <1>5. ASSUME j.then = "open"
        PROVE  Waiters(more) = Waiters(rows) \cup {<<j.row.id[1], j.started>>}
    <2>1. {m \in DOMAIN more : more[m].then = "open"}
            = {m \in DOMAIN rows : rows[m].then = "open"} \cup {l}
      BY <1>3, <1>5
    <2> QED
      BY <1>3, <2>1 DEF Waiters
  <1> QED
    BY <1>1, <1>4, <1>5

LEMMA WaitersTail ==
  ASSUME NEW rows \in Seq(Appends), rows # <<>>
  PROVE  /\ Waiters(Tail(rows)) \subseteq Waiters(rows)
         /\ Head(rows).then = "open" =>
              <<Head(rows).row.id[1], Head(rows).started>> \in Waiters(rows)
         /\ Head(rows).then = "open" /\ OpensOnce(rows) =>
              \A o \in Waiters(Tail(rows)) : o[2] # Head(rows).started
  <1>1. PICK rest : rest = Tail(rows)
    OBVIOUS
  <1>2. /\ Head(rows) = rows[1] /\ 1 \in DOMAIN rows
        /\ \A n \in DOMAIN rest : n + 1 \in DOMAIN rows /\ rest[n] = rows[n + 1] /\ n + 1 # 1
    <2>1. PICK s \in Seq(Appends) : s = rest
      BY <1>1, HeadTypes
    <2>2. \A n \in DOMAIN rest : n \in 1..Len(s)
      BY <2>1, SeqIs
    <2>3. Len(s) \in Nat
      BY SeqIs
    <2> QED
      BY <1>1, <2>2, <2>3, TailParts
  <1>3. \A n \in DOMAIN rest : rest[n].then = "open" =>
          <<rest[n].row.id[1], rest[n].started>> \in Waiters(rows)
    BY <1>2 DEF Waiters
  <1>4. Waiters(rest) \subseteq Waiters(rows)
    BY <1>3 DEF Waiters
  <1>5. ASSUME Head(rows).then = "open", OpensOnce(rows), NEW o \in Waiters(rest)
        PROVE  o[2] # Head(rows).started
    <2>1. PICK n \in DOMAIN rest : rest[n].then = "open" /\ o[2] = rest[n].started
      BY DEF Waiters
    <2> QED
      BY <1>2, <1>5, <2>1 DEF OpensOnce
  <1>6. Head(rows).then = "open" => <<Head(rows).row.id[1], Head(rows).started>> \in Waiters(rows)
    BY <1>2 DEF Waiters
  <1> QED
    BY <1>1, <1>4, <1>5, <1>6

LEMMA OnceTail ==
  ASSUME NEW rows \in Seq(Appends), rows # <<>>, OpensOnce(rows)
  PROVE  OpensOnce(Tail(rows))
  <1>1. PICK rest : rest = Tail(rows)
    OBVIOUS
  <1>2. \A n \in DOMAIN rest : n \in Nat /\ n + 1 \in DOMAIN rows /\ rest[n] = rows[n + 1]
    BY <1>1, TailParts
  <1>3. ASSUME NEW m \in DOMAIN rest, NEW n \in DOMAIN rest, rest[m].then = "open",
               rest[n].then = "open", rest[m].started = rest[n].started
        PROVE  m = n
    <2>1. m + 1 = n + 1
      BY <1>2, <1>3 DEF OpensOnce
    <2> QED
      BY <1>2, <2>1
  <1>4. OpensOnce(rest)
    BY <1>3 DEF OpensOnce
  <1> QED
    BY <1>1, <1>4

LEMMA OnceAppend ==
  ASSUME NEW rows \in Seq(Appends), OpensOnce(rows), NEW j,
         j.then # "open" \/ \A o \in Waiters(rows) : o[2] # j.started
  PROVE  OpensOnce(Append(rows, j))
  <1>1. PICK more, l : more = Append(rows, j) /\ l = Len(rows) + 1
    OBVIOUS
  <1>2. /\ DOMAIN more = DOMAIN rows \cup {l} /\ more[l] = j
        /\ \A n \in DOMAIN rows : more[n] = rows[n]
    BY <1>1, AppendParts
  <1>3. ASSUME NEW n \in DOMAIN rows, rows[n].then = "open", j.then = "open"
        PROVE  rows[n].started # j.started
    <2>1. PICK o : o = <<rows[n].row.id[1], rows[n].started>>
      OBVIOUS
    <2>2. o \in Waiters(rows) /\ o[2] = rows[n].started
      BY <1>3, <2>1 DEF Waiters
    <2> QED
      BY <1>3, <2>2
  <1>4. OpensOnce(more)
    BY <1>2, <1>3 DEF OpensOnce
  <1> QED
    BY <1>1, <1>4

LEMMA OnceRenamed ==
  ASSUME NEW rows \in Seq(Appends), OpensOnce(rows), NEW e
  PROVE  OpensOnce(RenamedRows(rows, e))
  <1>1. PICK q : q = RenamedRows(rows, e)
    OBVIOUS
  <1>2. DOMAIN q = DOMAIN rows
    BY <1>1 DEF RenamedRows
  <1>3. ASSUME NEW n \in DOMAIN rows
        PROVE  q[n].then = rows[n].then /\ q[n].started = rows[n].started
    <2>1. PICK j \in Appends : j = rows[n]
      BY SeqIs
    <2>2. PICK u : u = Renamed(j.snapshot, e)
      OBVIOUS
    <2>3. q[n] = [j EXCEPT !.snapshot = u]
      BY <1>1, <2>1, <2>2 DEF RenamedRows
    <2>4. [j EXCEPT !.snapshot = u].then = j.then /\ [j EXCEPT !.snapshot = u].started = j.started
      BY DEF Appends
    <2> QED
      BY <2>1, <2>3, <2>4
  <1>4. OpensOnce(q)
    BY <1>2, <1>3 DEF OpensOnce
  <1> QED
    BY <1>1, <1>4

\* What becomes of the shelf.
LEMMA StaysBy ==
  ASSUME NEW sh, NEW y, NEW x \in sh, x[1] = y[1], x[2] <= y[2]
  PROVE  Stays(sh, y)
  BY DEF Stays

LEMMA ShelfAppend ==
  ASSUME NEW f, NEW files, NEW rows \in Seq(Appends), NEW d, NEW c \in Nat, NEW j, NEW g,
         NEW y \in Shelf(f, files, Append(rows, j), g, c)
  PROVE  \/ Stays(Shelf(f, files, rows, d, c), y)
         \/ y[2] = c + Len(rows) + 1 /\ y[1] \in {Elements(g), Elements(j.snapshot)}
  <1> DEFINE more == Append(rows, j)
             sh == Shelf(f, files, rows, d, c)
  <1>1. /\ DOMAIN more = DOMAIN rows \cup {Len(rows) + 1} /\ Len(rows) \in Nat
        /\ \A n \in DOMAIN rows : n \in Nat /\ more[n] = rows[n]
        /\ more[Len(rows) + 1] = j /\ Len(more) = Len(rows) + 1
    BY AppendParts, AppendIsSeq, ElementsSeq, SeqIs
  <1>0. OnShelf(y, f, files, Append(rows, j), g, c) /\ ShelfHas(Shelf(f, files, rows, d, c), f, files, rows, d, c)
    BY ShelfIs
  <1>2. \/ y[1] = Elements(f) /\ y[2] = c
        \/ y[1] = Elements(g) /\ y[2] = c + Len(more)
        \/ \E n \in DOMAIN files : y[1] = Elements(files[n]) /\ y[2] = c
        \/ \E n \in DOMAIN more : y[1] = Elements(more[n].snapshot) /\ y[2] = c + n
    BY <1>0 DEF OnShelf, ShelfHas
  <1>3. /\ \E x \in sh : x[1] = Elements(f) /\ x[2] = c
        /\ \A n \in DOMAIN files : \E x \in sh : x[1] = Elements(files[n]) /\ x[2] = c
        /\ \A n \in DOMAIN rows : \E x \in sh : x[1] = Elements(rows[n].snapshot) /\ x[2] = c + n
    BY <1>0 DEF OnShelf, ShelfHas
  <1> HIDE DEF more, sh
  <1>4. CASE y[1] = Elements(f) /\ y[2] = c
    BY <1>3, <1>4, StaysBy DEF sh
  <1>5. CASE y[1] = Elements(g) /\ y[2] = c + Len(more)
    BY <1>1, <1>5
  <1>6. CASE \E n \in DOMAIN files : y[1] = Elements(files[n]) /\ y[2] = c
    BY <1>3, <1>6, StaysBy DEF sh
  <1>7. ASSUME NEW n \in DOMAIN more, y[1] = Elements(more[n].snapshot), y[2] = c + n
        PROVE  \/ Stays(sh, y)
               \/ y[2] = c + Len(rows) + 1 /\ y[1] = Elements(j.snapshot)
    <2>1. CASE n = Len(rows) + 1
      BY <1>1, <1>7, <2>1
    <2>2. CASE n \in DOMAIN rows
      <3>1. PICK x \in sh : x[1] = Elements(rows[n].snapshot) /\ x[2] = c + n
        BY <1>3, <2>2
      <3>2. x[1] = y[1] /\ x[2] <= y[2]
        BY <1>1, <1>7, <2>2, <3>1
      <3> QED
        BY <3>2, StaysBy
    <2> QED
      BY <1>1, <2>1, <2>2
  <1> QED
    BY <1>2, <1>4, <1>5, <1>6, <1>7 DEF sh

\* The first job is done; its snapshot may be next for the file.
LEMMA ShelfTail ==
  ASSUME NEW f, NEW files, NEW rows \in Seq(Appends), rows # <<>>, NEW d, NEW c \in Nat,
         NEW b \in {c, c + 1}, NEW y \in Shelf(f, files, Tail(rows), d, b)
  PROVE  \E x \in Shelf(f, files, rows, d, c) :
           x[1] = y[1] /\ (x[2] <= y[2] \/ (c < x[2] /\ x[2] + b <= y[2] + c + 1))
  <1> DEFINE less == Tail(rows)
             sh == Shelf(f, files, rows, d, c)
  <1>1. /\ Len(rows) \in Nat /\ Len(less) + 1 = Len(rows) /\ Len(less) \in Nat
        /\ \A n \in DOMAIN less : n \in Nat /\ n + 1 \in DOMAIN rows /\ less[n] = rows[n + 1]
    <2>1. Len(Tail(rows)) + 1 = Len(rows) /\ Tail(rows) \in Seq(Appends)
      BY JoinedTail, EmptyType
    <2> QED
      BY <2>1, TailParts, SeqIs
  <1>0. OnShelf(y, f, files, Tail(rows), d, b) /\ ShelfHas(Shelf(f, files, rows, d, c), f, files, rows, d, c)
    BY ShelfIs
  <1>2. \/ y[1] = Elements(f) /\ y[2] = b
        \/ y[1] = Elements(d) /\ y[2] = b + Len(less)
        \/ \E n \in DOMAIN files : y[1] = Elements(files[n]) /\ y[2] = b
        \/ \E n \in DOMAIN less : y[1] = Elements(less[n].snapshot) /\ y[2] = b + n
    BY <1>0 DEF OnShelf, ShelfHas
  <1>3. /\ \E x \in sh : x[1] = Elements(f) /\ x[2] = c
        /\ \E x \in sh : x[1] = Elements(d) /\ x[2] = c + Len(rows)
        /\ \A n \in DOMAIN files : \E x \in sh : x[1] = Elements(files[n]) /\ x[2] = c
        /\ \A n \in DOMAIN rows : \E x \in sh : x[1] = Elements(rows[n].snapshot) /\ x[2] = c + n
    BY <1>0 DEF OnShelf, ShelfHas
  <1> HIDE DEF less, sh
  <1>4. CASE y[1] = Elements(f) /\ y[2] = b
    BY <1>3, <1>4 DEF sh
  <1>5. CASE y[1] = Elements(d) /\ y[2] = b + Len(less)
    <2>1. PICK x \in sh : x[1] = Elements(d) /\ x[2] = c + Len(rows)
      BY <1>3
    <2>2. x[1] = y[1] /\ c < x[2] /\ x[2] + b <= y[2] + c + 1
      BY <1>1, <1>5, <2>1
    <2> QED
      BY <2>2 DEF sh
  <1>6. CASE \E n \in DOMAIN files : y[1] = Elements(files[n]) /\ y[2] = b
    BY <1>3, <1>6 DEF sh
  <1>7. ASSUME NEW n \in DOMAIN less, y[1] = Elements(less[n].snapshot), y[2] = b + n
        PROVE  \E x \in sh : x[1] = y[1] /\ c < x[2] /\ x[2] + b <= y[2] + c + 1
    <2>1. PICK x \in sh : x[1] = Elements(rows[n + 1].snapshot) /\ x[2] = c + (n + 1)
      BY <1>1, <1>3
    <2>2. x[1] = y[1] /\ c < x[2] /\ x[2] + b <= y[2] + c + 1
      BY <1>1, <1>7, <2>1
    <2> QED
      BY <2>2
  <1> QED
    BY <1>2, <1>4, <1>5, <1>6, <1>7 DEF sh

LEMMA ShelfFile ==
  ASSUME NEW f, NEW files \in Seq(Seq(Entries)), NEW rows, NEW d, NEW c, NEW s,
         NEW y \in Shelf(f, Append(files, s), rows, d, c)
  PROVE  \/ y \in Shelf(f, files, rows, d, c)
         \/ y[1] = Elements(s) /\ y[2] = c
  <1>1. /\ DOMAIN Append(files, s) = DOMAIN files \cup {Len(files) + 1}
        /\ \A n \in DOMAIN files : Append(files, s)[n] = files[n]
        /\ Append(files, s)[Len(files) + 1] = s
    BY AppendParts
  <1>2. PICK more : more = Append(files, s)
    OBVIOUS
  <1>3. CASE \E n \in DOMAIN more : y = <<Elements(more[n]), c>>
    <2>1. PICK n \in DOMAIN more : y = <<Elements(more[n]), c>>
      BY <1>3
    <2>2. CASE n \in DOMAIN files
      BY <1>1, <1>2, <2>1, <2>2 DEF Shelf
    <2>3. CASE n = Len(files) + 1
      BY <1>1, <1>2, <2>1, <2>3
    <2> QED
      BY <1>1, <1>2, <2>1, <2>2, <2>3
  <1>4. CASE ~\E n \in DOMAIN more : y = <<Elements(more[n]), c>>
    <2>1. y \in Shelf(f, more, rows, d, c)
      BY <1>2
    <2>2. y \in Shelf(f, files, rows, d, c)
      BY <1>4, <2>1 DEF Shelf
    <2> QED
      BY <2>2
  <1> QED
    BY <1>3, <1>4

\* A snapshot is written, or the write fails.
LEMMA ShelfWrite ==
  ASSUME NEW f, NEW files \in Seq(Seq(Entries)), files # <<>>, NEW rows, NEW d, NEW c \in Nat,
         NEW g \in {f, Head(files)}, NEW y \in Shelf(g, Tail(files), rows, d, c)
  PROVE  y \in Shelf(f, files, rows, d, c)
  <1>1. /\ Head(files) = files[1] /\ 1 \in DOMAIN files
        /\ \A n \in DOMAIN Tail(files) : n + 1 \in DOMAIN files /\ Tail(files)[n] = files[n + 1]
    BY TailParts
  <1>2. PICK less : less = Tail(files)
    OBVIOUS
  <1>3. CASE \E n \in DOMAIN less : y = <<Elements(less[n]), c>>
    <2>1. PICK n \in DOMAIN less : y = <<Elements(less[n]), c>>
      BY <1>3
    <2>2. n + 1 \in DOMAIN files /\ y = <<Elements(files[n + 1]), c>>
      BY <1>1, <1>2, <2>1
    <2> QED
      BY <2>2 DEF Shelf
  <1>4. CASE y = <<Elements(g), c>>
    BY <1>1, <1>4 DEF Shelf
  <1>5. CASE ~(\E n \in DOMAIN less : y = <<Elements(less[n]), c>>) /\ y # <<Elements(g), c>>
    BY <1>2, <1>5 DEF Shelf
  <1> QED
    BY <1>3, <1>4, <1>5

\* A renaming shows in every snapshot but the file.
LEMMA ElementsRenamed ==
  ASSUME NEW s, NEW e, NEW g, g = [e EXCEPT !.id = Archival(e.id[1], e.saved)]
  PROVE  Elements(Renamed(s, e)) = Retitled(Elements(s), e, g)
  <1>1. PICK r : r = Renamed(s, e)
    OBVIOUS
  <1>2. DOMAIN r = DOMAIN s /\ \A n \in DOMAIN s : r[n] = IF s[n] = e THEN g ELSE s[n]
    BY <1>1 DEF Renamed
  <1>3. Elements(r) = {IF s[n] = e THEN g ELSE s[n] : n \in DOMAIN s}
    BY <1>2 DEF Elements
  <1>4. Retitled(Elements(s), e, g) = {IF s[n] = e THEN g ELSE s[n] : n \in DOMAIN s}
    BY DEF Elements, Retitled
  <1> QED
    BY <1>1, <1>3, <1>4

LEMMA ShelfRenamed ==
  ASSUME NEW f, NEW files, NEW rows \in Seq(Appends), NEW d, NEW c, NEW e \in Entries,
         NEW g, g = [e EXCEPT !.id = Archival(e.id[1], e.saved)],
         NEW y \in Shelf(f, RenamedFiles(files, e), RenamedRows(rows, e), Renamed(d, e), c)
  PROVE  \E x \in Shelf(f, files, rows, d, c) :
           x[2] = y[2] /\ (y[1] = x[1] \/ y[1] = Retitled(x[1], e, g))
  <1> DEFINE sh == Shelf(f, files, rows, d, c)
             nf == RenamedFiles(files, e)
             nr == RenamedRows(rows, e)
  <1>1. DOMAIN nf = DOMAIN files /\ \A n \in DOMAIN files : nf[n] = Renamed(files[n], e)
    BY DEF RenamedFiles
  <1>2. DOMAIN nr = DOMAIN rows /\ \A n \in DOMAIN rows : nr[n].snapshot = Renamed(rows[n].snapshot, e)
    <2>1. DOMAIN nr = DOMAIN rows
      BY DEF RenamedRows
    <2>2. ASSUME NEW n \in DOMAIN rows PROVE nr[n].snapshot = Renamed(rows[n].snapshot, e)
      <3>1. PICK j \in Appends : j = rows[n]
        BY SeqIs
      <3>2. PICK x : x = Renamed(j.snapshot, e)
        OBVIOUS
      <3>3. nr[n] = [j EXCEPT !.snapshot = x]
        BY <3>1, <3>2 DEF RenamedRows
      <3>4. [j EXCEPT !.snapshot = x].snapshot = x
        BY DEF Appends
      <3> QED
        BY <3>1, <3>2, <3>3, <3>4
    <2> QED
      BY <2>1, <2>2
  <1>3. Len(nr) = Len(rows)
    <2>1. \A s : Len(RenamedRows(rows, e)) = Len(rows)
      BY JoinedRenamed
    <2> QED
      BY <2>1
  <1>0. /\ OnShelf(y, f, RenamedFiles(files, e), RenamedRows(rows, e), Renamed(d, e), c)
         /\ ShelfHas(Shelf(f, files, rows, d, c), f, files, rows, d, c)
    BY ShelfIs
  <1>4. \/ y[1] = Elements(f) /\ y[2] = c
        \/ y[1] = Elements(Renamed(d, e)) /\ y[2] = c + Len(nr)
        \/ \E n \in DOMAIN nf : y[1] = Elements(nf[n]) /\ y[2] = c
        \/ \E n \in DOMAIN nr : y[1] = Elements(nr[n].snapshot) /\ y[2] = c + n
    BY <1>0 DEF OnShelf, ShelfHas
  <1>5. /\ \E x \in sh : x[1] = Elements(f) /\ x[2] = c
        /\ \E x \in sh : x[1] = Elements(d) /\ x[2] = c + Len(rows)
        /\ \A n \in DOMAIN files : \E x \in sh : x[1] = Elements(files[n]) /\ x[2] = c
        /\ \A n \in DOMAIN rows : \E x \in sh : x[1] = Elements(rows[n].snapshot) /\ x[2] = c + n
    BY <1>0 DEF OnShelf, ShelfHas
  <1>6. \A s : Elements(Renamed(s, e)) = Retitled(Elements(s), e, g)
    BY ElementsRenamed
  <1> HIDE DEF sh, nf, nr
  <1>7. CASE y[1] = Elements(f) /\ y[2] = c
    BY <1>5, <1>7 DEF sh
  <1>8. CASE y[1] = Elements(Renamed(d, e)) /\ y[2] = c + Len(nr)
    <2>1. PICK x \in sh : x[1] = Elements(d) /\ x[2] = c + Len(rows)
      BY <1>5
    <2> QED
      BY <1>3, <1>6, <1>8, <2>1 DEF sh
  <1>9. CASE \E n \in DOMAIN nf : y[1] = Elements(nf[n]) /\ y[2] = c
    <2>1. PICK n \in DOMAIN files : y[1] = Elements(Renamed(files[n], e)) /\ y[2] = c
      BY <1>1, <1>9
    <2>2. PICK x \in sh : x[1] = Elements(files[n]) /\ x[2] = c
      BY <1>5
    <2> QED
      BY <1>6, <2>1, <2>2 DEF sh
  <1>10. CASE \E n \in DOMAIN nr : y[1] = Elements(nr[n].snapshot) /\ y[2] = c + n
    <2>1. PICK n \in DOMAIN rows : y[1] = Elements(Renamed(rows[n].snapshot, e)) /\ y[2] = c + n
      BY <1>2, <1>10
    <2>2. PICK x \in sh : x[1] = Elements(rows[n].snapshot) /\ x[2] = c + n
      BY <1>5
    <2> QED
      BY <1>6, <2>1, <2>2 DEF sh
  <1> QED
    BY <1>4, <1>7, <1>8, <1>9, <1>10

\* The view of the history, from the values of its variables.
ViewOf(f, files, rows, d, seen, ops, lg, lost, t, n) ==
  [k |-> Joined(seen, rows), c |-> Len(seen), sh |-> Shelf(f, files, rows, d, Len(seen)),
   d |-> Elements(d), ops |-> Holders(ops), opens |-> Waiters(rows),
   lg |-> lg, lost |-> lost, t |-> t, n |-> n]
Views(v, f, files, rows, d, seen, ops, lg, lost, t, n) ==
  /\ Pictures(v, f, files, rows, d, seen)
  /\ v.ops = Holders(ops) /\ v.opens = Waiters(rows)
  /\ v.lg = lg /\ v.lost = lost /\ v.t = t /\ v.n = n

LEMMA ViewIs ==
  ASSUME NEW f \in Seq(Entries), NEW files \in Seq(Seq(Entries)), NEW rows \in Seq(Appends),
         NEW d \in Seq(Entries), NEW seen \in Seq(Rows), NEW ops, Records(ops), NEW lg, NEW lost,
         NEW t \in Nat, NEW n \in Nat, NEW v, v = ViewOf(f, files, rows, d, seen, ops, lg, lost, t, n)
  PROVE  Typed(v) /\ Views(v, f, files, rows, d, seen, ops, lg, lost, t, n)
  <1>1. Views(v, f, files, rows, d, seen, ops, lg, lost, t, n)
    BY DEF Views, ViewOf, Pictures
  <1>2. v.ops \subseteq Ids \X Nat /\ v.opens \subseteq Ids \X Nat
    BY <1>1, HoldersType, WaitersType DEF Views
  <1>3. Typed(v)
    BY <1>1, <1>2, PictureTyped DEF Views
  <1> QED
    BY <1>1, <1>3

\* The length of what is known.
LEMMA KnownLength ==
  ASSUME NEW seen \in Seq(Rows), NEW rows \in Seq(Appends)
  PROVE  /\ Len(seen) \in Nat /\ Len(rows) \in Nat
         /\ Len(Joined(seen, rows)) = Len(seen) + Len(rows)
         /\ \A r : Len(Append(seen, r)) = Len(seen) + 1
  BY JoinedIs

LEMMA StaysSelf ==
  ASSUME NEW sh, NEW y \in sh, y[2] \in Nat
  PROVE  Stays(sh, y)
  BY DEF Stays

\* A record goes, or nothing that shows.
LEMMA RecordsGo ==
  ASSUME NEW v, Good(v), NEW w, Typed(w),
         NEW f, NEW files, NEW rows, NEW d, NEW seen, NEW ops, NEW p, NEW lg, NEW lost, NEW t, NEW n,
         Views(v, f, files, rows, d, seen, ops, lg, lost, t, n),
         Views(w, f, files, rows, d, seen, p, lg, lost, t, n),
         \A i \in DOMAIN p : i \in DOMAIN ops /\ p[i].started = ops[i].started
  PROVE  Good(w)
  <1>1. Typed(v)
    BY DEF Good
  <1>2. w.ops \subseteq v.ops
    BY DEF Views, Holders
  <1>3. w.k = v.k /\ w.c = v.c /\ w.sh = v.sh /\ w.d = v.d /\ w.opens = v.opens
        /\ w.lg = v.lg /\ w.lost = v.lost /\ w.t = v.t /\ w.n = v.n
    BY DEF Views, Pictures
  <1>4. v.c \in Nat /\ \A y \in v.sh : Stays(v.sh, y)
    BY <1>1, ViewTypes, StaysSelf DEF Typed
  <1>5. v.c <= w.c
    BY <1>3, <1>4
  <1>6. Rests(v, w)
    BY <1>2, <1>3, <1>4, <1>5 DEF Rests
  <1> QED
    BY <1>6, RestsGood

\* A snapshot is written, or the write fails.
LEMMA SnapshotGoes ==
  ASSUME NEW v, Good(v), NEW w, Typed(w),
         NEW f, NEW files \in Seq(Seq(Entries)), files # <<>>, NEW g \in {f, Head(files)},
         NEW rows, NEW d, NEW seen \in Seq(Rows), NEW ops, NEW lg, NEW lost, NEW t, NEW n,
         Views(v, f, files, rows, d, seen, ops, lg, lost, t, n),
         Views(w, g, Tail(files), rows, d, seen, ops, lg, lost, t, n)
  PROVE  Good(w)
  <1>1. Typed(v)
    BY DEF Good
  <1>2. w.k = v.k /\ w.c = v.c /\ w.d = v.d /\ w.opens = v.opens /\ w.ops = v.ops
        /\ w.lg = v.lg /\ w.lost = v.lost /\ w.t = v.t /\ w.n = v.n
    BY DEF Views, Pictures
  <1>3. PICK c \in Nat : c = Len(seen)
    BY JoinedIs, EmptyType
  <1>4. v.sh = Shelf(f, files, rows, d, c) /\ w.sh = Shelf(g, Tail(files), rows, d, c)
    BY <1>3 DEF Views, Pictures
  <1>5. ASSUME NEW y \in w.sh PROVE y \in v.sh
    <2>1. y \in Shelf(g, Tail(files), rows, d, c)
      BY <1>4
    <2>2. y \in Shelf(f, files, rows, d, c)
      BY <2>1, ShelfWrite
    <2> QED
      BY <1>4, <2>2
  <1>6. v.c \in Nat /\ \A y \in w.sh : Stays(v.sh, y)
    BY <1>1, <1>5, ViewTypes, StaysSelf DEF Typed
  <1>7. v.c <= w.c
    BY <1>2, <1>6
  <1>8. Rests(v, w)
    BY <1>2, <1>6, <1>7 DEF Rests
  <1> QED
    BY <1>8, RestsGood

\* An operation begins under an id that nothing has.
NewStart(j, i, s) ==
  /\ j \in Appends /\ j.then = "none" /\ j.snapshot = <<>>
  /\ j.row.id = Live(i) /\ j.row.kind = "start" /\ j.row.started = s /\ j.row.saved = s

LEMMA EmptyElements == Elements(<<>>) = {}
  BY EmptyIsSeq DEF Elements

\* The shelf once such a row waits.
LEMMA ShelfStart ==
  ASSUME NEW f, NEW files, NEW rows \in Seq(Appends), NEW d, NEW c \in Nat, NEW j, j.snapshot = <<>>,
         NEW y \in Shelf(f, files, Append(rows, j), d, c)
  PROVE  Stays(Shelf(f, files, rows, d, c), y)
  <1>1. PICK sh : sh = Shelf(f, files, rows, d, c)
    OBVIOUS
  <1>2. \/ Stays(sh, y)
        \/ y[2] = c + Len(rows) + 1 /\ y[1] \in {Elements(d), Elements(j.snapshot)}
    BY <1>1, ShelfAppend
  <1>3. CASE y[2] = c + Len(rows) + 1 /\ y[1] = Elements(d)
    <2>1. ShelfHas(sh, f, files, rows, d, c)
      BY <1>1, ShelfIs
    <2>2. PICK x \in sh : x[1] = Elements(d) /\ x[2] = c + Len(rows)
      BY <2>1 DEF ShelfHas
    <2>3. x[1] = y[1] /\ x[2] <= y[2]
      BY <1>3, <2>2, SeqIs
    <2>4. Stays(sh, y)
      BY <2>2, <2>3 DEF Stays
    <2> QED
      BY <1>1, <2>4
  <1>4. CASE y[1] = Elements(<<>>)
    BY <1>4, EmptyElements DEF Stays
  <1> QED
    BY <1>1, <1>2, <1>3, <1>4

LEMMA BeginsFresh ==
  ASSUME NEW v, Good(v), NEW w, Typed(w), NEW i \in Ids,
         NEW f, NEW files, NEW rows \in Seq(Appends), NEW d, NEW seen \in Seq(Rows),
         NEW ops, NEW lg, NEW lost, NEW t \in Nat, NEW n, NEW op, op.started = t + 1,
         NEW j, NewStart(j, i, t + 1),
         Views(v, f, files, rows, d, seen, ops, lg, lost, t, n),
         Views(w, f, files, Append(rows, j), d, seen, Put(ops, i, op), lg \cup {i}, lost, t + 1, n),
         \A k \in DOMAIN d : d[k].id # Live(i)
  PROVE  Good(w)
  <1>1. Typed(v)
    BY DEF Good
  <1>2. PICK u : u = [k |-> v.k, c |-> v.c, sh |-> v.sh, d |-> v.d, ops |-> v.ops,
                      opens |-> v.opens \cup {<<i, t + 1>>}, lg |-> v.lg, lost |-> v.lost,
                      t |-> t + 1, n |-> v.n]
    OBVIOUS
  <1>3. v.t = t
    BY DEF Views
  <1>4. Typed(u)
    <2>1. t + 1 \in Nat
      OBVIOUS
    <2>2. <<i, t + 1>> \in Ids \X Nat
      BY <2>1
    <2> QED
      BY <1>1, <1>2, <2>1, <2>2 DEF Typed
  <1>5. \A e \in v.d : e.id # Live(i)
    BY DEF Views, Pictures, Elements
  <1>6. Registers(v, u, i)
    BY <1>2, <1>3, <1>5 DEF Registers
  <1>7. Good(u)
    BY <1>4, <1>6, RegistersGood
  <1>8. w.k = Append(u.k, j.row)
    BY <1>2, JoinedAppend DEF NewStart, Views, Pictures
  <1>9. \A y \in w.sh : Stays(u.sh, y)
    <2>1. PICK c \in Nat : c = Len(seen)
      BY KnownLength
    <2>2. u.sh = Shelf(f, files, rows, d, c) /\ w.sh = Shelf(f, files, Append(rows, j), d, c)
      BY <1>2, <2>1 DEF Views, Pictures
    <2>3. j.snapshot = <<>>
      BY DEF NewStart
    <2> QED
      BY <2>2, <2>3, ShelfStart
  <1>10. w.opens = v.opens /\ \A o \in w.opens : o[2] # t + 1
    <2>1. Waiters(Append(rows, j)) = Waiters(rows)
      <3>1. j.then # "open"
        BY DEF NewStart
      <3> QED
        BY <3>1, WaitersAppend
    <2>2. \A o \in v.opens : o[2] # t + 1
      <3>1. PICK st, own : Marks(v, st, own)
        BY DEF Good, Marked
      <3>2. \A o \in v.opens : o[2] \in 1..t
        BY <1>3, <3>1 DEF Marks
      <3> QED
        BY <3>2
    <2> QED
      BY <2>1, <2>2 DEF Views
  <1>11. w.ops \subseteq {o \in v.ops : o[1] # i} \cup {<<i, t + 1>>}
    <2>1. v.ops = Holders(ops) /\ w.ops = Holders(Put(ops, i, op))
      BY DEF Views
    <2>2. ASSUME NEW k \in DOMAIN Put(ops, i, op)
          PROVE  <<k, Put(ops, i, op)[k].started>> \in {o \in Holders(ops) : o[1] # i} \cup {<<i, t + 1>>}
      <3>1. CASE k = i
        BY <3>1 DEF Put
      <3>2. CASE k # i
        <4>1. k \in DOMAIN ops /\ Put(ops, i, op)[k] = ops[k]
          BY <3>2 DEF Put
        <4>2. <<k, ops[k].started>> \in Holders(ops) /\ <<k, ops[k].started>>[1] # i
          BY <3>2, <4>1 DEF Holders
        <4> QED
          BY <4>1, <4>2
      <3> QED
        BY <3>1, <3>2
    <2> QED
      BY <2>1, <2>2 DEF Holders
  <1>12. Starts(u, w, i, t + 1, j.row)
    <2>1. <<i, t + 1>> \in u.opens /\ w.opens \subseteq u.opens
      BY <1>2, <1>10
    <2>2. w.d = u.d /\ w.lost = u.lost /\ w.t = u.t /\ w.n = u.n /\ w.lg = u.lg \cup {i} /\ w.c = u.c
      BY <1>2 DEF Views, Pictures
    <2>3. u.c \in Nat
      BY <1>4 DEF Typed
    <2>4. u.c <= w.c
      BY <2>2, <2>3
    <2>5. u.ops = v.ops
      BY <1>2
    <2> QED
      BY <1>8, <1>9, <1>10, <1>11, <2>1, <2>2, <2>4, <2>5 DEF Starts, NewStart
  <1> QED
    BY <1>7, <1>12, StartsGood

\* A detail is renamed, its row and the operation to come wait.
LEMMA RenamedRowsType ==
  ASSUME NEW rows \in Seq(Appends), NEW e \in Entries
  PROVE  RenamedRows(rows, e) \in Seq(Appends)
  <1>1. <<>> \in Seq(Seq(Entries))
    BY EmptyType
  <1> QED
    BY <1>1, RenamedQueueTypes DEF RenamedRows

LEMMA ShelfArchive ==
  ASSUME NEW f, NEW files, NEW rows \in Seq(Appends), NEW d, NEW c \in Nat, NEW e \in Entries,
         NEW g, g = [e EXCEPT !.id = Archival(e.id[1], e.saved)], NEW j, j.snapshot = <<>>,
         NEW y \in Shelf(f, RenamedFiles(files, e), Append(RenamedRows(rows, e), j), Renamed(d, e), c)
  PROVE  \/ y[1] = {}
         \/ \E x \in Shelf(f, files, rows, d, c) :
              x[2] <= y[2] /\ (y[1] = x[1] \/ y[1] = Retitled(x[1], e, g))
  <1>1. PICK more \in Seq(Appends) : more = RenamedRows(rows, e)
    BY RenamedRowsType
  <1>2. PICK sh : sh = Shelf(f, RenamedFiles(files, e), more, Renamed(d, e), c)
    OBVIOUS
  <1>3. Stays(sh, y)
    BY <1>1, <1>2, ShelfStart
  <1>4. CASE y[1] = {}
    BY <1>4
  <1>5. CASE \E x \in sh : x[1] = y[1] /\ x[2] <= y[2]
    <2>1. PICK z \in sh : z[1] = y[1] /\ z[2] <= y[2]
      BY <1>5
    <2>2. z \in Shelf(f, RenamedFiles(files, e), RenamedRows(rows, e), Renamed(d, e), c)
      BY <1>1, <1>2, <2>1
    <2>3. \E x \in Shelf(f, files, rows, d, c) :
            x[2] = z[2] /\ (z[1] = x[1] \/ z[1] = Retitled(x[1], e, g))
      BY <2>2, ShelfRenamed
    <2> QED
      BY <2>1, <2>3
  <1> QED
    BY <1>3, <1>4, <1>5 DEF Stays

NewOpening(j, i, e, s) ==
  /\ j \in Appends /\ j.then = "open" /\ j.snapshot = <<>> /\ j.started = s
  /\ j.row.id = Archival(i, e.saved) /\ j.row.kind = "terminal"
  /\ j.row.started = e.started /\ j.row.saved = e.saved

LEMMA BeginsArchive ==
  ASSUME NEW v, Good(v), NEW w, Typed(w), NEW i \in Ids,
         NEW f, NEW files, NEW rows \in Seq(Appends), NEW d, NEW seen \in Seq(Rows),
         NEW ops, NEW lg, NEW lost, NEW t \in Nat, NEW n,
         NEW e \in Entries, e \in Elements(d), e.id = Live(i), NEW j, NewOpening(j, i, e, t + 1),
         \A k \in DOMAIN Renamed(d, e) : Renamed(d, e)[k].id # Live(i),
         Views(v, f, files, rows, d, seen, ops, lg, lost, t, n),
         Views(w, f, RenamedFiles(files, e), Append(RenamedRows(rows, e), j), Renamed(d, e),
               seen, ops, lg, lost, t + 1, n)
  PROVE  Good(w)
  <1>1. Typed(v)
    BY DEF Good
  <1>2. PICK u : u = [k |-> w.k, c |-> w.c, sh |-> w.sh, d |-> w.d, ops |-> v.ops,
                      opens |-> v.opens, lg |-> v.lg, lost |-> v.lost, t |-> v.t, n |-> v.n]
    OBVIOUS
  <1>3. Typed(u)
    BY <1>1, <1>2 DEF Typed
  <1>4. PICK g : g = [e EXCEPT !.id = Archival(e.id[1], e.saved)]
    OBVIOUS
  <1>5. g.id = <<i, e.saved>> /\ g.started = e.started /\ g.saved = e.saved /\ e.id[1] = i /\ IsLive(e)
    <2>1. e.id[1] = i /\ e.id[2] = 0
      BY DEF Live
    <2> QED
      BY <1>4, <2>1 DEF Entries, Archival, IsLive
  <1>6. j.row.id = <<i, e.saved>>
    BY DEF NewOpening, Archival
  <1>7. PICK more \in Seq(Appends) : more = RenamedRows(rows, e)
    BY RenamedRowsType
  <1>8. u.k = Append(v.k, j.row)
    <2>1. Joined(seen, Append(more, j)) = Append(Joined(seen, more), j.row)
      BY JoinedAppend DEF NewOpening
    <2>2. Joined(seen, RenamedRows(rows, e)) = Joined(seen, rows)
      BY JoinedRenamed
    <2>3. u.k = Joined(seen, Append(more, j)) /\ v.k = Joined(seen, rows)
      BY <1>2, <1>7 DEF Views, Pictures
    <2> QED
      BY <1>7, <2>1, <2>2, <2>3
  <1>9. u.d = Retitled(v.d, e, g)
    <2>1. Elements(Renamed(d, e)) = Retitled(Elements(d), e, g)
      BY <1>4, ElementsRenamed
    <2> QED
      BY <1>2, <2>1 DEF Views, Pictures
  <1>10. ASSUME NEW y \in u.sh
         PROVE  \/ y[1] = {}
                \/ \E x \in v.sh : x[2] <= y[2] /\ (y[1] = x[1] \/ y[1] = Retitled(x[1], e, g))
    <2>1. PICK c \in Nat : c = Len(seen)
      BY KnownLength
    <2>2. v.sh = Shelf(f, files, rows, d, c)
      BY <2>1 DEF Views, Pictures
    <2>3. y \in Shelf(f, RenamedFiles(files, e), Append(RenamedRows(rows, e), j), Renamed(d, e), c)
      BY <1>2, <2>1 DEF Views, Pictures
    <2>4. j.snapshot = <<>>
      BY DEF NewOpening
    <2>5. \/ y[1] = {}
          \/ \E x \in Shelf(f, files, rows, d, c) :
               x[2] <= y[2] /\ (y[1] = x[1] \/ y[1] = Retitled(x[1], e, g))
      BY <1>4, <2>3, <2>4, ShelfArchive
    <2> QED
      BY <2>2, <2>5
  <1>11. e \in v.d
    BY DEF Views, Pictures
  <1>12. u.lg = v.lg /\ u.lost = v.lost /\ u.t = v.t /\ u.n = v.n /\ u.c = v.c
         /\ u.ops = v.ops /\ u.opens = v.opens
    BY <1>2 DEF Views, Pictures
  <1>13. Renames(v, u, e, g, j.row)
    BY <1>5, <1>6, <1>8, <1>9, <1>10, <1>11, <1>12 DEF Renames, NewOpening
  <1>14. Good(u)
    BY <1>3, <1>13, RenamesGood
  <1>15. \A x \in u.d : x.id # Live(i)
    <2>1. PICK s : s = Renamed(d, e)
      OBVIOUS
    <2>2. u.d = Elements(s)
      BY <1>2, <2>1 DEF Views, Pictures
    <2> QED
      BY <2>1, <2>2 DEF Elements
  <1>16. w.opens = u.opens \cup {<<i, t + 1>>}
    <2>1. Waiters(Append(more, j)) = Waiters(more) \cup {<<j.row.id[1], j.started>>}
      <3>1. j.then = "open"
        BY DEF NewOpening
      <3> QED
        BY <3>1, WaitersAppend
    <2>2. Waiters(RenamedRows(rows, e)) = Waiters(rows)
      BY JoinedRenamed
    <2>3. w.opens = Waiters(Append(more, j)) /\ u.opens = Waiters(rows)
      BY <1>2, <1>7 DEF Views
    <2>4. <<j.row.id[1], j.started>> = <<i, t + 1>>
      BY <1>6 DEF NewOpening
    <2> QED
      BY <1>7, <2>1, <2>2, <2>3, <2>4
  <1>17. w.k = u.k /\ w.c = u.c /\ w.sh = u.sh /\ w.d = u.d /\ w.ops = u.ops
         /\ w.lg = u.lg /\ w.lost = u.lost /\ w.t = u.t + 1 /\ w.n = u.n /\ u.t = t
    BY <1>2 DEF Views
  <1>18. Registers(u, w, i)
    BY <1>15, <1>16, <1>17 DEF Registers
  <1> QED
    BY <1>14, <1>18, RegistersGood

\* The first job is done: its row is known, or was lost.
Carried(x, y, b, c) == x[1] = y[1] /\ (x[2] <= y[2] \/ (c < x[2] /\ x[2] + b <= y[2] + c + 1))

Written(more, files, j) == more = files \/ more = Append(files, j.snapshot)

LEMMA ShelfDone ==
  ASSUME NEW f, NEW files \in Seq(Seq(Entries)), NEW rows \in Seq(Appends), rows # <<>>, NEW d,
         NEW c \in Nat, NEW b \in {c, c + 1},
         NEW more, Written(more, files, Head(rows)),
         NEW y \in Shelf(f, more, Tail(rows), d, b)
  PROVE  \E x \in Shelf(f, files, rows, d, c) : Carried(x, y, b, c)
  <1>1. \/ y \in Shelf(f, files, Tail(rows), d, b)
        \/ y[1] = Elements(Head(rows).snapshot) /\ y[2] = b
    <2>1. CASE more = files
      BY <2>1
    <2>2. CASE more = Append(files, Head(rows).snapshot)
      BY <2>2, ShelfFile
    <2> QED
      BY <2>1, <2>2 DEF Written
  <1>2. CASE y \in Shelf(f, files, Tail(rows), d, b)
    BY <1>2, ShelfTail DEF Carried
  <1>3. CASE y[1] = Elements(Head(rows).snapshot) /\ y[2] = b
    <2>1. Head(rows) = rows[1] /\ 1 \in DOMAIN rows
      BY TailParts
    <2>2. PICK sh : sh = Shelf(f, files, rows, d, c)
      OBVIOUS
    <2>3. ShelfHas(sh, f, files, rows, d, c)
      BY <2>2, ShelfIs
    <2>4. PICK x \in sh : x[1] = Elements(rows[1].snapshot) /\ x[2] = c + 1
      BY <2>1, <2>3 DEF ShelfHas
    <2>5. x[1] = y[1] /\ c < x[2] /\ x[2] + b <= y[2] + c + 1
      BY <1>3, <2>1, <2>4
    <2> QED
      BY <2>2, <2>5 DEF Carried
  <1> QED
    BY <1>1, <1>2, <1>3

\* When the row is known, what is on the shelf has a row more before it.
LEMMA ShelfKnown ==
  ASSUME NEW f, NEW files \in Seq(Seq(Entries)), NEW rows \in Seq(Appends), rows # <<>>, NEW d,
         NEW c \in Nat, NEW more, Written(more, files, Head(rows)),
         NEW sh, sh = Shelf(f, files, rows, d, c), \A x \in sh : x[2] \in Nat,
         NEW y \in Shelf(f, more, Tail(rows), d, c + 1), y[2] \in Nat
  PROVE  Stays(sh, y)
  <1>1. PICK b : b = c + 1
    OBVIOUS
  <1>2. b \in {c, c + 1} /\ y \in Shelf(f, more, Tail(rows), d, b)
    BY <1>1
  <1>3. \E x \in Shelf(f, files, rows, d, c) : Carried(x, y, b, c)
    BY <1>2, ShelfDone
  <1>4. PICK x \in sh : x[1] = y[1] /\ (x[2] <= y[2] \/ (c < x[2] /\ x[2] + b <= y[2] + c + 1))
    BY <1>3 DEF Carried
  <1>5. x[2] <= y[2]
    BY <1>1, <1>4
  <1> QED
    BY <1>4, <1>5, StaysBy

\* The first row is known, and no operation waited for it.
LEMMA RowKnown ==
  ASSUME NEW v, Good(v), NEW w, Typed(w),
         NEW f, NEW files \in Seq(Seq(Entries)), NEW rows \in Seq(Appends), rows # <<>>, NEW d,
         NEW seen \in Seq(Rows), NEW ops, NEW lg, NEW lost, NEW t, NEW n,
         NEW more, Written(more, files, Head(rows)),
         Views(v, f, files, rows, d, seen, ops, lg, lost, t, n),
         Views(w, f, more, Tail(rows), d, Append(seen, Head(rows).row), ops, lg, lost, t, n)
  PROVE  Good(w)
  <1>1. Typed(v)
    BY DEF Good
  <1>2. w.d = v.d /\ w.ops = v.ops /\ w.lg = v.lg /\ w.lost = v.lost /\ w.t = v.t /\ w.n = v.n
    BY DEF Views, Pictures
  <1>3. PICK c \in Nat : c = Len(seen) /\ Len(Append(seen, Head(rows).row)) = c + 1
    BY KnownLength
  <1>4. w.k = v.k
    <2>1. Joined(Append(seen, Head(rows).row), Tail(rows)) = Joined(seen, rows)
      BY JoinedTail
    <2> QED
      BY <2>1 DEF Views, Pictures
  <1>5. w.opens \subseteq v.opens
    <2>1. Waiters(Tail(rows)) \subseteq Waiters(rows)
      BY WaitersTail
    <2> QED
      BY <2>1 DEF Views
  <1>6. v.c <= w.c
    BY <1>3 DEF Views, Pictures
  <1>7. (\A x \in v.sh : x[2] \in Nat) /\ \A y \in w.sh : y[2] \in Nat
    BY <1>1, ViewTypes
  <1>8. v.sh = Shelf(f, files, rows, d, c) /\ w.sh = Shelf(f, more, Tail(rows), d, c + 1)
    BY <1>3 DEF Views, Pictures
  <1>9. ASSUME NEW y \in w.sh PROVE Stays(v.sh, y)
    <2>1. y \in Shelf(f, more, Tail(rows), d, c + 1) /\ y[2] \in Nat
      BY <1>7, <1>8
    <2> QED
      BY <1>7, <1>8, <2>1, ShelfKnown
  <1>10. Rests(v, w)
    BY <1>2, <1>4, <1>5, <1>6, <1>9 DEF Rests
  <1> QED
    BY <1>10, RestsGood

\* The operation that waited for the first row goes on.
Waited(u, f, files, rows, d, ops, lg, lost, t, n, b) ==
  /\ u.d = Elements(d) /\ u.ops = Holders(ops) /\ u.opens = Waiters(rows)
  /\ u.lg = lg /\ u.lost = lost /\ u.t = t /\ u.n = n /\ u.c <= b
  /\ \A y \in Shelf(f, files, Tail(rows), d, b) : Stays(u.sh, y)

LEMMA StaysOn ==
  ASSUME NEW a, NEW b, NEW y, Stays(b, y), \A z \in b : Stays(a, z) /\ z[2] \in Nat,
         y[2] \in Nat, \A x \in a : x[2] \in Nat
  PROVE  Stays(a, y)
  <1>1. CASE y[1] = {}
    BY <1>1 DEF Stays
  <1>2. CASE y[1] # {}
    <2>1. PICK z \in b : z[1] = y[1] /\ z[2] <= y[2]
      BY <1>2 DEF Stays
    <2>2. PICK x \in a : x[1] = z[1] /\ x[2] <= z[2]
      BY <1>2, <2>1 DEF Stays
    <2>3. x[1] = y[1] /\ x[2] <= y[2]
      BY <2>1, <2>2
    <2> QED
      BY <2>3, StaysBy
  <1> QED
    BY <1>1, <1>2

LEMMA PutHolders ==
  ASSUME NEW ops, NEW i, NEW op
  PROVE  Holders(Put(ops, i, op)) \subseteq {o \in Holders(ops) : o[1] # i} \cup {<<i, op.started>>}
  <1>1. ASSUME NEW k \in DOMAIN Put(ops, i, op)
        PROVE  <<k, Put(ops, i, op)[k].started>>
                 \in {o \in Holders(ops) : o[1] # i} \cup {<<i, op.started>>}
    <2>1. CASE k = i
      BY <2>1 DEF Put
    <2>2. CASE k # i
      <3>1. k \in DOMAIN ops /\ Put(ops, i, op)[k] = ops[k]
        BY <2>2 DEF Put
      <3>2. <<k, ops[k].started>> \in Holders(ops) /\ <<k, ops[k].started>>[1] # i
        BY <2>2, <3>1 DEF Holders
      <3> QED
        BY <3>1, <3>2
    <2> QED
      BY <2>1, <2>2
  <1> QED
    BY <1>1 DEF Holders

LEMMA WaiterStarts ==
  ASSUME NEW u, Good(u), NEW w, Typed(w), NEW f, NEW files,
         NEW rows \in Seq(Appends), rows # <<>>, NEW d, NEW seen \in Seq(Rows),
         NEW ops, NEW lg, NEW lost, NEW t, NEW n,
         Head(rows).then = "open", OpensOnce(rows),
         NEW i, i = Head(rows).row.id[1], NEW s, s = Head(rows).started,
         NEW j, NewStart(j, i, s), NEW op, op.started = s,
         u.k = Joined(seen, Tail(rows)),
         Waited(u, f, files, rows, d, ops, lg, lost, t, n, Len(seen)),
         Views(w, f, files, Append(Tail(rows), j), d, seen, Put(ops, i, op), lg \cup {i}, lost, t, n)
  PROVE  Good(w)
  <1>1. Typed(u)
    BY DEF Good
  <1>2. PICK less \in Seq(Appends) : less = Tail(rows)
    BY JoinedTail
  <1>3. PICK c \in Nat : c = Len(seen)
    BY KnownLength
  <1>4. w.k = Append(u.k, j.row)
    BY <1>2, JoinedAppend DEF NewStart, Views, Pictures
  <1>5. ASSUME NEW y \in w.sh PROVE Stays(u.sh, y)
    <2>1. PICK b : b = Shelf(f, files, less, d, c)
      OBVIOUS
    <2>2. y \in Shelf(f, files, Append(less, j), d, c) /\ j.snapshot = <<>>
      BY <1>2, <1>3 DEF Views, Pictures, NewStart
    <2>3. Stays(b, y)
      BY <2>1, <2>2, ShelfStart
    <2>4. \A z \in b : Stays(u.sh, z)
      BY <1>2, <1>3, <2>1 DEF Waited
    <2>5. \A z \in b : z[2] \in Nat
      <3> SUFFICES ASSUME NEW z \in b PROVE z[2] \in Nat
        OBVIOUS
      <3>1. OnShelf(z, f, files, less, d, c)
        BY <2>1, ShelfIs
      <3>2. Len(less) \in Nat /\ \A m \in DOMAIN less : m \in Nat
        BY SeqIs
      <3> QED
        BY <3>1, <3>2 DEF OnShelf
    <2>6. y[2] \in Nat /\ \A x \in u.sh : x[2] \in Nat
      BY <1>1, ViewTypes
    <2> QED
      BY <2>3, <2>4, <2>5, <2>6, StaysOn
  <1>6. Waiters(Append(less, j)) = Waiters(less)
    <2>1. j.then # "open"
      BY DEF NewStart
    <2> QED
      BY <2>1, WaitersAppend
  <1>7. /\ Waiters(less) \subseteq Waiters(rows) /\ <<i, s>> \in Waiters(rows)
        /\ \A o \in Waiters(less) : o[2] # s
    BY <1>2, WaitersTail
  <1>8. w.opens \subseteq u.opens /\ <<i, s>> \in u.opens /\ \A o \in w.opens : o[2] # s
    BY <1>2, <1>6, <1>7 DEF Views, Waited
  <1>9. w.ops \subseteq {o \in u.ops : o[1] # i} \cup {<<i, s>>}
    BY PutHolders DEF Views, Waited
  <1>10. w.d = u.d /\ w.lost = u.lost /\ w.t = u.t /\ w.n = u.n /\ w.lg = u.lg \cup {i}
         /\ u.c <= w.c
    BY DEF Views, Pictures, Waited
  <1>11. Starts(u, w, i, s, j.row)
    BY <1>4, <1>5, <1>8, <1>9, <1>10 DEF Starts, NewStart
  <1> QED
    BY <1>11, StartsGood

LEMMA OpenKnown ==
  ASSUME NEW v, Good(v), NEW w, Typed(w),
         NEW f, NEW files \in Seq(Seq(Entries)), NEW rows \in Seq(Appends), rows # <<>>, NEW d,
         NEW seen \in Seq(Rows), NEW ops, NEW lg, NEW lost, NEW t, NEW n,
         Head(rows).then = "open", OpensOnce(rows),
         NEW i, i = Head(rows).row.id[1], NEW s, s = Head(rows).started,
         NEW j, NewStart(j, i, s), NEW op, op.started = s,
         Views(v, f, files, rows, d, seen, ops, lg, lost, t, n),
         Views(w, f, files, Append(Tail(rows), j), d, Append(seen, Head(rows).row),
               Put(ops, i, op), lg \cup {i}, lost, t, n)
  PROVE  Good(w)
  <1>1. Typed(v)
    BY DEF Good
  <1>2. PICK more \in Seq(Rows) : more = Append(seen, Head(rows).row)
    <2>1. PICK r \in Rows : r = Head(rows).row
      BY JoinedTail, JobFields
    <2>2. Append(seen, r) \in Seq(Rows)
      OBVIOUS
    <2> QED
      BY <2>1, <2>2
  <1>3. PICK c \in Nat : c = Len(seen) /\ Len(more) = c + 1
    BY <1>2, KnownLength
  <1>4. v.k = Joined(more, Tail(rows))
    BY <1>2, JoinedTail DEF Views, Pictures
  <1>5. v.sh = Shelf(f, files, rows, d, c) /\ v.c <= c + 1
    BY <1>3 DEF Views, Pictures
  <1>6. \A x \in v.sh : x[2] \in Nat
    BY <1>1, ViewTypes
  <1>7. PICK less \in Seq(Appends) : less = Tail(rows)
    BY JoinedTail
  <1>8. ASSUME NEW y \in Shelf(f, files, Tail(rows), d, c + 1) PROVE Stays(v.sh, y)
    <2>1. y[2] \in Nat
      <3>1. OnShelf(y, f, files, less, d, c + 1)
        BY <1>7, ShelfIs
      <3>2. Len(less) \in Nat /\ \A m \in DOMAIN less : m \in Nat
        BY SeqIs
      <3> QED
        BY <3>1, <3>2 DEF OnShelf
    <2>2. Written(files, files, Head(rows))
      BY DEF Written
    <2> QED
      BY <1>5, <1>6, <2>1, <2>2, ShelfKnown
  <1>9. Waited(v, f, files, rows, d, ops, lg, lost, t, n, Len(more))
    BY <1>3, <1>5, <1>8 DEF Waited, Views, Pictures
  <1>10. Views(w, f, files, Append(Tail(rows), j), d, more, Put(ops, i, op), lg \cup {i}, lost, t, n)
    BY <1>2
  <1> QED
    BY <1>4, <1>9, <1>10, WaiterStarts

\* The first row is lost.
LEMMA DropsRow ==
  ASSUME NEW v, Good(v), NEW w, Typed(w),
         NEW f, NEW files \in Seq(Seq(Entries)), NEW rows \in Seq(Appends), rows # <<>>, NEW d,
         NEW seen \in Seq(Rows), NEW ops, NEW lg, NEW lost, NEW t, NEW n,
         NEW more, Written(more, files, Head(rows)),
         Views(v, f, files, rows, d, seen, ops, lg, lost, t, n),
         Pictures(w, f, more, Tail(rows), d, seen),
         w.ops = v.ops, w.opens \subseteq v.opens, w.lg = lg,
         w.lost = lost \cup {Head(rows).row.started}, w.t = t, w.n = n
  PROVE  Good(w)
  <1>1. Typed(v)
    BY DEF Good
  <1>2. PICK c \in Nat : c = Len(seen)
    BY KnownLength
  <1>3. v.sh = Shelf(f, files, rows, d, c) /\ w.sh = Shelf(f, more, Tail(rows), d, c)
        /\ v.c = c /\ w.c = c /\ v.k = Joined(seen, rows) /\ w.k = Joined(seen, Tail(rows))
        /\ w.d = v.d
    BY <1>2 DEF Views, Pictures
  <1>4. (\A x \in v.sh : x[2] \in Nat) /\ \A y \in w.sh : y[2] \in Nat
    BY <1>1, ViewTypes
  <1>5. /\ c + 1 \in DOMAIN v.k /\ v.k[c + 1] = Head(rows).row
        /\ \A m \in DOMAIN w.k : w.k[m] = IF m <= c THEN v.k[m] ELSE v.k[m + 1]
    BY <1>2, <1>3, JoinedTail
  <1>6. Len(w.k) + 1 = Len(v.k)
    <2>1. PICK less \in Seq(Appends) : less = Tail(rows) /\ Len(less) + 1 = Len(rows)
      BY JoinedTail
    <2>2. Len(Joined(seen, less)) = c + Len(less) /\ Len(Joined(seen, rows)) = c + Len(rows)
          /\ Len(less) \in Nat
      BY <1>2, KnownLength
    <2> QED
      BY <1>3, <2>1, <2>2
  <1>7. ASSUME NEW y \in w.sh
        PROVE  \E x \in v.sh : x[1] = y[1] /\ (x[2] <= y[2] \/ (v.c < x[2] /\ x[2] <= y[2] + 1))
    <2>1. y \in Shelf(f, more, Tail(rows), d, c) /\ c \in {c, c + 1}
      BY <1>3
    <2>2. \E x \in Shelf(f, files, rows, d, c) : Carried(x, y, c, c)
      BY <2>1, ShelfDone
    <2>3. PICK x \in v.sh : x[1] = y[1] /\ (x[2] <= y[2] \/ (c < x[2] /\ x[2] + c <= y[2] + c + 1))
      BY <1>3, <2>2 DEF Carried
    <2>4. x[2] <= y[2] \/ (c < x[2] /\ x[2] <= y[2] + 1)
      BY <1>4, <2>3
    <2> QED
      BY <1>3, <2>3, <2>4
  <1>8. Drops(v, w)
    BY <1>3, <1>5, <1>6, <1>7 DEF Drops, Views
  <1> QED
    BY <1>8, DropsGood

LEMMA RowLost ==
  ASSUME NEW v, Good(v), NEW w, Typed(w),
         NEW f, NEW files \in Seq(Seq(Entries)), NEW rows \in Seq(Appends), rows # <<>>, NEW d,
         NEW seen \in Seq(Rows), NEW ops, NEW lg, NEW lost, NEW t, NEW n,
         NEW more, Written(more, files, Head(rows)),
         Views(v, f, files, rows, d, seen, ops, lg, lost, t, n),
         Views(w, f, more, Tail(rows), d, seen, ops, lg, lost \cup {Head(rows).row.started}, t, n)
  PROVE  Good(w)
  <1>1. w.opens \subseteq v.opens
    <2>1. Waiters(Tail(rows)) \subseteq Waiters(rows)
      BY WaitersTail
    <2> QED
      BY <2>1 DEF Views
  <1>2. /\ Pictures(w, f, more, Tail(rows), d, seen) /\ w.ops = v.ops
        /\ w.lg = lg /\ w.lost = lost \cup {Head(rows).row.started} /\ w.t = t /\ w.n = n
    BY DEF Views
  <1> QED
    BY <1>1, <1>2, DropsRow

LEMMA OpenLost ==
  ASSUME NEW v, Good(v), NEW w, Typed(w),
         NEW f \in Seq(Entries), NEW files \in Seq(Seq(Entries)),
         NEW rows \in Seq(Appends), rows # <<>>, NEW d \in Seq(Entries),
         NEW seen \in Seq(Rows), NEW ops, NEW lg, NEW lost, NEW t, NEW n,
         Head(rows).then = "open", OpensOnce(rows),
         NEW i, i = Head(rows).row.id[1], NEW s, s = Head(rows).started,
         NEW j, NewStart(j, i, s), NEW op, op.started = s,
         Views(v, f, files, rows, d, seen, ops, lg, lost, t, n),
         Views(w, f, files, Append(Tail(rows), j), d, seen, Put(ops, i, op), lg \cup {i},
               lost \cup {Head(rows).row.started}, t, n)
  PROVE  Good(w)
  <1>1. Typed(v)
    BY DEF Good
  <1>2. PICK less \in Seq(Appends) : less = Tail(rows)
    BY JoinedTail
  <1>3. PICK gone : gone = lost \cup {Head(rows).row.started}
    OBVIOUS
  <1>4. PICK u : u = [k |-> Joined(seen, less), c |-> Len(seen), sh |-> Shelf(f, files, less, d, Len(seen)),
                      d |-> Elements(d), ops |-> v.ops, opens |-> v.opens, lg |-> lg, lost |-> gone,
                      t |-> t, n |-> n]
    OBVIOUS
  <1>5. Pictures(u, f, files, less, d, seen)
    BY <1>4 DEF Pictures
  <1>6. u.ops = v.ops /\ u.opens = v.opens /\ u.lg = lg /\ u.lost = gone /\ u.t = t /\ u.n = n
    BY <1>4
  <1>7. v.ops \subseteq Ids \X Nat /\ v.opens \subseteq Ids \X Nat /\ t \in Nat /\ n \in Nat
    BY <1>1 DEF Typed, Views
  <1>8. Typed(u)
    BY <1>5, <1>6, <1>7, PictureTyped
  <1>9. Good(u)
    <2>1. Written(files, files, Head(rows))
      BY DEF Written
    <2>2. Pictures(u, f, files, Tail(rows), d, seen)
      BY <1>2, <1>5
    <2>3. u.opens \subseteq v.opens /\ u.lost = lost \cup {Head(rows).row.started}
      BY <1>3, <1>6
    <2> QED
      BY <1>6, <1>8, <2>1, <2>2, <2>3, DropsRow
  <1>10. PICK c \in Nat : c = Len(seen)
    BY KnownLength
  <1>11. Waited(u, f, files, rows, d, ops, lg, gone, t, n, c)
    <2>1. \A x \in u.sh : x[2] \in Nat
      BY <1>8, ViewTypes
    <2>2. u.sh = Shelf(f, files, less, d, c) /\ u.c = c /\ u.d = Elements(d)
      BY <1>5, <1>10 DEF Pictures
    <2>3. \A y \in Shelf(f, files, Tail(rows), d, c) : Stays(u.sh, y)
      BY <1>2, <2>1, <2>2, StaysSelf
    <2>4. u.c <= c
      BY <2>2
    <2> QED
      BY <1>6, <2>2, <2>3, <2>4 DEF Waited, Views
  <1>12. u.k = Joined(seen, Tail(rows))
    BY <1>2, <1>5 DEF Pictures
  <1>13. Views(w, f, files, Append(Tail(rows), j), d, seen, Put(ops, i, op), lg \cup {i}, gone, t, n)
    BY <1>3
  <1>14. Waited(u, f, files, rows, d, ops, lg, gone, t, n, Len(seen))
    BY <1>10, <1>11
  <1> QED
    BY <1>9, <1>12, <1>13, <1>14, WaiterStarts

\* A persist.
LEMMA UpsertHas ==
  ASSUME NEW s \in Seq(Entries), NEW e
  PROVE  /\ e \in Elements(Upsert(s, e))
         /\ \A g \in Elements(s) : g.id # e.id => g \in Elements(Upsert(s, e))
  <1>1. PICK n : n = Position(s, e.id)
    OBVIOUS
  <1>2. /\ Len(s) \in Nat /\ DOMAIN s = 1..Len(s)
        /\ \/ n = 0
           \/ n \in DOMAIN s /\ s[n].id = e.id /\ n # 0
    BY <1>1, PositionOf, ElementsSeq, SeqIs
  <1>3. CASE n = 0
    <2>1. Upsert(s, e) = Append(s, e)
      BY <1>1, <1>3 DEF Upsert
    <2>2. /\ DOMAIN Append(s, e) = DOMAIN s \cup {Len(s) + 1}
          /\ \A m \in DOMAIN s : Append(s, e)[m] = s[m]
          /\ Append(s, e)[Len(s) + 1] = e
      BY AppendParts
    <2> QED
      BY <2>1, <2>2 DEF Elements
  <1>4. CASE n \in DOMAIN s /\ n # 0 /\ s[n].id = e.id
    <2>1. PICK u : u = [s EXCEPT ![n] = e]
      OBVIOUS
    <2>2. Upsert(s, e) = u
      BY <1>1, <1>4, <2>1 DEF Upsert
    <2>3. DOMAIN u = DOMAIN s /\ u[n] = e /\ \A m \in DOMAIN s : m # n => u[m] = s[m]
      BY <1>4, <2>1
    <2> QED
      BY <1>4, <2>2, <2>3 DEF Elements
  <1> QED
    BY <1>2, <1>3, <1>4

NewVerdict(j, i, s, t, kept) ==
  /\ j \in Appends /\ j.then = "write" /\ j.snapshot = kept
  /\ j.row.id = Live(i) /\ j.row.kind = "terminal" /\ j.row.started = s /\ j.row.saved = t

\* What the retention drops is excused; the events of what it keeps stay.
Spared(all, kept, gone) == \A g \in Elements(all) : g \in Elements(kept) \/ g.started \in gone
StillListed(lg, ops, kept, new) ==
  \A x \in lg : (x \in DOMAIN ops \/ \E g \in Elements(kept) : g.id = Live(x)) => x \in new

LEMMA PersistShown ==
  ASSUME NEW v, Good(v), NEW w, Typed(w), NEW ops, NEW i \in DOMAIN ops, NEW s, s = ops[i].started,
         NEW f, NEW files, NEW rows \in Seq(Appends), NEW d \in Seq(Entries), NEW seen \in Seq(Rows),
         NEW lg, i \in lg, NEW new, NEW lost, NEW gone, NEW t \in Nat, NEW n,
         Sound(d, t), NEW e, e.id = Live(i), e.started = s, e.saved = t + 1,
         NEW kept, PartOf(kept, Upsert(d, e)), NEW j, NewVerdict(j, i, s, t + 1, kept),
         lost \subseteq gone,
         Spared(Upsert(d, e), kept, gone),
         Opens(rows, i) => s \in gone,
         StillListed(lg, ops, kept, new),
         Views(v, f, files, rows, d, seen, ops, lg, lost, t, n),
         Views(w, f, files, Append(rows, j), kept, seen, ops, new, gone, t + 1, n)
  PROVE  Good(w)
  <1>1. Typed(v) /\ Listed(v)
    BY DEF Good
  <1>2. <<i, s>> \in v.ops /\ \A o \in v.ops : o[1] = i => o[2] = s
    BY DEF Views, Holders
  <1>3. w.k = Append(v.k, j.row)
    BY JoinedAppend DEF NewVerdict, Views, Pictures
  <1>4. w.opens = v.opens
    <2>1. j.then # "open"
      BY DEF NewVerdict
    <2> QED
      BY <2>1, WaitersAppend DEF Views
  <1>5. w.t = v.t + 1 /\ w.n = v.n /\ w.c = v.c /\ w.ops = v.ops /\ v.lost \subseteq w.lost
        /\ v.t = t /\ v.lg = lg /\ w.lg = new /\ w.lost = gone
        /\ v.d = Elements(d) /\ w.d = Elements(kept)
    BY DEF Views, Pictures
  <1>6. \A g \in v.d : g.id # Live(i) => (g \in w.d \/ g.started \in w.lost)
    BY <1>5, UpsertHas DEF Spared
  <1>7. e \in w.d \/ s \in w.lost
    BY <1>5, UpsertHas DEF Spared
  <1>8. \A g \in w.d : g = e \/ (g \in v.d /\ g.id # Live(i))
    <2>1. PICK all : all = Upsert(d, e)
      OBVIOUS
    <2>2. \A m \in DOMAIN kept : \E k \in DOMAIN all : kept[m] = all[k]
      BY <2>1, PartKeeps
    <2>3. PICK p \in DOMAIN all :
            /\ all[p] = e
            /\ \A k \in DOMAIN all \ {p} : k \in DOMAIN d /\ all[k] = d[k] /\ d[k].id # e.id
      BY <2>1, UpsertParts
    <2> QED
      BY <1>5, <2>2, <2>3 DEF Elements
  <1>9. (\E o \in v.opens : o[1] = i) => s \in w.lost
    <2>1. (\E o \in Waiters(rows) : o[1] = i) => Opens(rows, i)
      BY DEF Waiters, Opens
    <2> QED
      BY <1>5, <2>1 DEF Views
  <1>10. \A g \in w.d : (IsLive(g) /\ g.id[1] \in v.lg) => g.id[1] \in w.lg
    <2> SUFFICES ASSUME NEW g \in w.d, IsLive(g), g.id[1] \in v.lg PROVE g.id[1] \in w.lg
      OBVIOUS
    <2>1. g \in Entries /\ w.d \subseteq Entries
      <3>1. w.d \in SUBSET Entries
        BY DEF Typed
      <3> QED
        BY <3>1
    <2>2. g.id = <<g.id[1], g.id[2]>>
      BY <1>1, <2>1, ViewTypes
    <2>3. g.id = Live(g.id[1])
      BY <2>2 DEF IsLive, Live
    <2> QED
      BY <1>5, <2>3 DEF StillListed
  <1>11. \A o \in v.ops : o[1] \in w.lg
    <2>1. \A o \in v.ops : o[1] \in DOMAIN ops
      BY DEF Views, Holders
    <2> QED
      BY <1>1, <1>5, <2>1 DEF Listed, StillListed
  <1>12. ASSUME NEW y \in w.sh
         PROVE  \/ Stays(v.sh, y)
                \/ y[1] = w.d /\ y[2] = Len(w.k)
    <2>1. PICK c \in Nat : c = Len(seen)
      BY KnownLength
    <2>2. v.sh = Shelf(f, files, rows, d, c)
      BY <2>1 DEF Views, Pictures
    <2>3. y \in Shelf(f, files, Append(rows, j), kept, c)
      BY <2>1 DEF Views, Pictures
    <2>4. \/ Stays(v.sh, y)
          \/ y[2] = c + Len(rows) + 1 /\ y[1] \in {Elements(kept), Elements(j.snapshot)}
      BY <2>2, <2>3, ShelfAppend
    <2>5. Len(w.k) = c + Len(rows) + 1
      <3>1. Len(v.k) = c + Len(rows)
        BY <2>1, KnownLength DEF Views, Pictures
      <3>2. Len(w.k) = Len(v.k) + 1
        BY <1>1, <1>3, RowMoreIs DEF RowMore
      <3> QED
        BY <3>1, <3>2
    <2>6. j.snapshot = kept
      BY DEF NewVerdict
    <2> QED
      BY <1>5, <2>4, <2>5, <2>6
  <1>13. i \in v.lg /\ w.t = v.t + 1 /\ e.saved = v.t + 1 /\ j.row.saved = v.t + 1
    BY <1>5 DEF NewVerdict
  <1>14. Persists(v, w, i, s, e, j.row)
    BY <1>2, <1>3, <1>4, <1>5, <1>6, <1>7, <1>8, <1>9, <1>10, <1>11, <1>12, <1>13
    DEF Persists, NewVerdict
  <1> QED
    BY <1>14, PersistsGood

\* A crash.
LEMMA CrashShown ==
  ASSUME NEW v, Good(v), NEW w, Typed(w),
         NEW f, NEW files, NEW rows \in Seq(Appends), NEW d, NEW seen \in Seq(Rows),
         NEW ops, NEW lg, NEW lost, NEW t, NEW n,
         NEW left \in Seq(Rows), Ending(left, seen), NEW gone, NEW m, m # 0,
         NEW none, DOMAIN none = {},
         lost \subseteq gone,
         \A e \in Elements(d) : e.started \in gone \/ \E g \in Elements(f) : g.started = e.started,
         Views(v, f, files, rows, d, seen, ops, lg, lost, t, n),
         Views(w, f, <<>>, <<>>, f, left, none, {}, gone, t, m)
  PROVE  Good(w)
  <1>1. PICK a \in Seq(Rows) : seen = a \o left
    BY DEF Ending
  <1>2. PICK c \in Nat : c = Len(seen)
    BY KnownLength
  <1>3. /\ Len(a) \in Nat /\ Len(left) \in Nat /\ c = Len(a) + Len(left)
        /\ \A k \in 1..Len(left) : seen[Len(a) + k] = left[k]
    BY <1>1, <1>2
  <1>4. w.k = left
    <2>1. <<>> \in Seq(Appends)
      BY EmptyType
    <2>2. /\ Joined(left, <<>>) \in Seq(Rows)
          /\ Len(<<>>) \in Nat /\ DOMAIN <<>> = 1..Len(<<>>)
          /\ Len(Joined(left, <<>>)) = Len(left) + Len(<<>>)
          /\ \A k \in 1..Len(left) + Len(<<>>) :
               Joined(left, <<>>)[k] = IF k <= Len(left) THEN left[k] ELSE <<>>[k - Len(left)].row
      BY <2>1, JoinedIs
    <2>3. Len(<<>>) = 0
      OBVIOUS
    <2>4. Joined(left, <<>>) = left
      BY <1>3, <2>2, <2>3, SameRows
    <2> QED
      BY <2>4 DEF Views, Pictures
  <1>5. v.k = Joined(seen, rows) /\ v.c = c /\ w.c = Len(left) /\ w.t = v.t
        /\ w.n # 0 /\ w.lg = {} /\ w.d = Elements(f) /\ v.d = Elements(d)
        /\ v.lost \subseteq w.lost /\ w.lost = gone
        /\ v.sh = Shelf(f, files, rows, d, c) /\ w.sh = Shelf(f, <<>>, <<>>, f, Len(left))
    BY <1>2 DEF Views, Pictures
  <1>6. c <= Len(v.k) /\ \A k \in DOMAIN left : left[k] = v.k[Len(a) + k]
    <2>1. Len(rows) \in Nat /\ Len(v.k) = c + Len(rows)
          /\ \A k \in 1..c + Len(rows) : v.k[k] = IF k <= c THEN seen[k] ELSE rows[k - c].row
      <3>1. /\ Len(rows) \in Nat
            /\ Len(Joined(seen, rows)) = Len(seen) + Len(rows)
            /\ \A k \in 1..Len(seen) + Len(rows) :
                 Joined(seen, rows)[k] = IF k <= Len(seen) THEN seen[k] ELSE rows[k - Len(seen)].row
        BY JoinedIs
      <3> QED
        BY <1>2, <1>5, <3>1
    <2>2. DOMAIN left = 1..Len(left)
      BY SeqIs
    <2>3. ASSUME NEW k \in DOMAIN left PROVE left[k] = v.k[Len(a) + k]
      <3>1. k \in 1..Len(left) /\ Len(a) + k \in 1..c + Len(rows) /\ Len(a) + k <= c
        BY <1>3, <2>1, <2>2
      <3>2. v.k[Len(a) + k] = seen[Len(a) + k]
        BY <2>1, <3>1
      <3> QED
        BY <1>3, <3>1, <3>2
    <2> QED
      BY <2>1, <2>3
  <1>7. w.ops = {} /\ w.opens = {}
    <2>1. Waiters(<<>>) = {}
      BY EmptyIsSeq DEF Waiters
    <2>2. Holders(none) = {}
      BY DEF Holders
    <2> QED
      BY <2>1, <2>2 DEF Views
  <1>8. \E x \in v.sh : x[1] = w.d /\ x[2] <= v.c
    <2>1. ShelfHas(v.sh, f, files, rows, d, c)
      BY <1>5, ShelfIs
    <2>2. PICK x \in v.sh : x[1] = Elements(f) /\ x[2] = c
      BY <2>1 DEF ShelfHas
    <2>3. x[2] <= v.c
      BY <1>5, <2>2
    <2> QED
      BY <1>5, <2>2, <2>3
  <1>9. ASSUME NEW y \in w.sh PROVE y[1] = w.d /\ y[2] = Len(w.k)
    <2>1. OnShelf(y, f, <<>>, <<>>, f, Len(left))
      BY <1>5, ShelfIs
    <2>2. DOMAIN <<>> = {} /\ Len(<<>>) = 0
      BY EmptyIsSeq
    <2> QED
      BY <1>3, <1>4, <1>5, <2>1, <2>2 DEF OnShelf
  <1>10. Len(a) + Len(w.k) = v.c /\ v.c <= Len(v.k) /\ w.c = Len(w.k)
         /\ \A k \in DOMAIN w.k : w.k[k] = v.k[Len(a) + k]
    BY <1>3, <1>4, <1>5, <1>6
  <1>11. \A e \in v.d : e.started \in w.lost \/ \E g \in w.d : g.started = e.started
    BY <1>5
  <1>12. Crashes(v, w, Len(a))
    BY <1>3, <1>5, <1>7, <1>8, <1>9, <1>10, <1>11 DEF Crashes
  <1> QED
    BY <1>12, CrashesGood

\* The file cannot be read, or the ledger is derived from it.
LEMMA ForgottenShown ==
  ASSUME NEW v, Good(v), NEW w, Typed(w),
         NEW f, NEW seen \in Seq(Rows), NEW none, DOMAIN none = {}, NEW lg, NEW lost, NEW gone,
         NEW t, NEW n, NEW m, lost \subseteq gone, \A k \in DOMAIN seen : seen[k].started \in gone,
         Views(v, f, <<>>, <<>>, f, seen, none, lg, lost, t, n),
         Views(w, f, <<>>, <<>>, <<>>, seen, none, lg, gone, t, m)
  PROVE  Good(w)
  <1>1. PICK c \in Nat : c = Len(seen)
    BY KnownLength, EmptyType
  <1>2. w.k = v.k /\ w.c = v.c /\ w.t = v.t /\ v.lost \subseteq w.lost /\ w.lost = gone
        /\ v.sh = Shelf(f, <<>>, <<>>, f, c) /\ w.sh = Shelf(f, <<>>, <<>>, <<>>, c)
    BY <1>1 DEF Views, Pictures
  <1>3. w.d = {} /\ w.ops = {} /\ w.opens = {}
    <2>1. Waiters(<<>>) = {}
      BY EmptyIsSeq DEF Waiters
    <2>2. Holders(none) = {}
      BY DEF Holders
    <2> QED
      BY <2>1, <2>2, EmptyElements DEF Views, Pictures
  <1>4. \A k \in DOMAIN v.k : v.k[k].started \in w.lost
    <2>1. <<>> \in Seq(Appends) /\ Len(<<>>) = 0
      BY EmptyType
    <2>2. /\ Joined(seen, <<>>) \in Seq(Rows)
          /\ Len(Joined(seen, <<>>)) = Len(seen) + Len(<<>>)
          /\ \A k \in 1..Len(seen) + Len(<<>>) :
               Joined(seen, <<>>)[k] = IF k <= Len(seen) THEN seen[k] ELSE <<>>[k - Len(seen)].row
      BY <2>1, JoinedIs
    <2>3. Joined(seen, <<>>) = seen
      BY <1>1, <2>1, <2>2, SameRows
    <2>4. v.k = seen
      BY <2>3 DEF Views, Pictures
    <2> QED
      BY <1>2, <2>4
  <1>5. ASSUME NEW y \in w.sh PROVE Stays(v.sh, y)
    <2>1. OnShelf(y, f, <<>>, <<>>, <<>>, c)
      BY <1>2, ShelfIs
    <2>2. DOMAIN <<>> = {} /\ Len(<<>>) = 0
      BY EmptyIsSeq
    <2>3. (y[1] = Elements(f) /\ y[2] = c) \/ y[1] = {}
      BY <2>1, <2>2, EmptyElements DEF OnShelf
    <2>4. ShelfHas(v.sh, f, <<>>, <<>>, f, c)
      BY <1>2, ShelfIs
    <2>5. PICK x \in v.sh : x[1] = Elements(f) /\ x[2] = c
      BY <2>4 DEF ShelfHas
    <2> QED
      BY <2>3, <2>5 DEF Stays
  <1>6. Forgets(v, w)
    BY <1>2, <1>3, <1>4, <1>5 DEF Forgets
  <1> QED
    BY <1>6, ForgetsGood

LEMMA MigratedShown ==
  ASSUME NEW v, Good(v), NEW w, Typed(w),
         NEW f \in Seq(Entries), NEW seen, NEW none, DOMAIN none = {}, NEW lg, NEW lost,
         NEW t, NEW n, NEW u, Sound(f, u), NEW rows, rows = Migrated(f),
         Views(v, f, <<>>, <<>>, f, seen, none, lg, lost, t, n),
         Views(w, f, <<>>, <<>>, f, rows, none, lg, lost, t, n)
  PROVE  Good(w)
  <1>1. rows \in Seq(Rows)
    BY MigratedType
  <1>2. w.d = v.d /\ v.d = Elements(f) /\ w.t = v.t /\ w.c = Len(rows) /\ w.k = Joined(rows, <<>>)
        /\ w.sh = Shelf(f, <<>>, <<>>, f, Len(rows))
    BY DEF Views, Pictures
  <1>3. w.ops = {} /\ w.opens = {}
    <2>1. Waiters(<<>>) = {}
      BY EmptyIsSeq DEF Waiters
    <2>2. Holders(none) = {}
      BY DEF Holders
    <2> QED
      BY <2>1, <2>2 DEF Views
  <1>4. w.k = rows
    <2>1. <<>> \in Seq(Appends) /\ Len(<<>>) = 0 /\ Len(rows) \in Nat
      BY <1>1, EmptyType, SeqIs
    <2>2. /\ Joined(rows, <<>>) \in Seq(Rows)
          /\ Len(Joined(rows, <<>>)) = Len(rows) + Len(<<>>)
          /\ \A k \in 1..Len(rows) + Len(<<>>) :
               Joined(rows, <<>>)[k] = IF k <= Len(rows) THEN rows[k] ELSE <<>>[k - Len(rows)].row
      BY <1>1, <2>1, JoinedIs
    <2>3. Joined(rows, <<>>) = rows
      BY <1>1, <2>1, <2>2, SameRows
    <2> QED
      BY <1>2, <2>3
  <1>5. ASSUME NEW k \in DOMAIN w.k
        PROVE  \E e \in v.d :
                 w.k[k].id = e.id /\ w.k[k].started = e.started /\ w.k[k].saved = e.saved
    <2>1. PICK m \in DOMAIN f : rows[k] = AuditRow(f[m].id, "terminal", f[m], f[m].saved)
      BY <1>4, MigratedType
    <2>2. rows[k].id = f[m].id /\ rows[k].started = f[m].started /\ rows[k].saved = f[m].saved
      BY <2>1 DEF AuditRow
    <2> QED
      BY <1>2, <1>4, <2>2 DEF Elements
  <1>6. \A e, g \in v.d : e.id = g.id => e = g
    <2>1. \A a, b \in DOMAIN f : f[a].id = f[b].id => a = b
      BY DEF Sound
    <2> QED
      BY <1>2, <2>1 DEF Elements
  <1>7. ASSUME NEW y \in w.sh PROVE y[1] = v.d
    <2>1. OnShelf(y, f, <<>>, <<>>, f, Len(rows))
      BY <1>2, ShelfIs
    <2>2. DOMAIN <<>> = {}
      BY EmptyIsSeq
    <2> QED
      BY <1>2, <2>1, <2>2 DEF OnShelf
  <1>8. Migrates(v, w)
    BY <1>2, <1>3, <1>4, <1>5, <1>6, <1>7 DEF Migrates
  <1> QED
    BY <1>8, MigratesGood

-----------------------------------------------------------------------------
(* The actions of the history are steps of its view *)

\* The view of the state.
StoreOf(u, d, f) == IF u THEN d ELSE f
SeenOf(u, k, l) == IF u THEN k ELSE LoadAuditLedger(l)
View ==
  ViewOf(file, fileQueue, rowQueue, StoreOf(up, detail, file), SeenOf(up, known, ledger),
         active, logs, excused, now, crashes)
InHand == OpensOnce(rowQueue) /\ (~up => DOMAIN active = {})
ShownInv == FitInv /\ LedgerInv /\ InHand /\ Good(View)

Running(v) ==
  Views(v, file, fileQueue, rowQueue, detail, known, active, logs, excused, now, crashes)
Stopped(v) ==
  Views(v, file, <<>>, <<>>, file, LoadAuditLedger(ledger), active, logs, excused, now, crashes)

LEMMA SeenType ==
  ASSUME NEW u, NEW k \in Seq(Rows), NEW l \in Ledgers
  PROVE  SeenOf(u, k, l) \in Seq(Rows)
  <1>1. LoadAuditLedger(l) \in Seq(Rows)
    BY LedgerLength, LoadType
  <1> QED
    BY <1>1 DEF SeenOf

LEMMA OpenedIs ==
  ASSUME NEW i \in Ids, NEW s \in Nat, NEW queue, Opened(i, s, queue)
  PROVE  \E op, j :
           /\ op.started = s /\ NewStart(j, i, s)
           /\ active' = Put(active, i, op) /\ logs' = logs \cup {i}
           /\ rowQueue' = Append(queue, j)
  <1>1. PICK op : op = [started |-> s, status |-> "in_progress"]
    OBVIOUS
  <1>2. op.started = s /\ op.status \in Statuses
    BY <1>1 DEF Statuses
  <1>3. Live(i) \in Names /\ <<>> \in Seq(Entries)
    BY EmptyType DEF Live, Names
  <1>4. PICK r \in Rows : r = AuditRow(Live(i), "start", op, s)
    BY <1>2, <1>3, RowType
  <1>5. r.id = Live(i) /\ r.kind = "start" /\ r.started = s /\ r.saved = s
    BY <1>2, <1>4 DEF AuditRow
  <1>6. PICK j : j = [row |-> r, then |-> "none", started |-> s, snapshot |-> <<>>]
    OBVIOUS
  <1>7. j \in Appends
    BY <1>3, <1>6, JobType
  <1>8. NewStart(j, i, s)
    BY <1>5, <1>6, <1>7 DEF NewStart
  <1>9. /\ active' = Put(active, i, op) /\ logs' = logs \cup {i}
        /\ rowQueue' = Append(queue, j)
    BY <1>1, <1>4, <1>6 DEF Opened
  <1> QED
    BY <1>2, <1>8, <1>9

LEMMA BeginShown ==
  ASSUME FitInv, NEW v, Good(v), Running(v), NEW w, Typed(w), Running(w)', NEW i \in Ids, Begin(i)
  PROVE  Good(w)
  <1>1. /\ rowQueue \in Seq(Appends) /\ detail \in Seq(Entries) /\ known \in Seq(Rows)
        /\ now \in Nat /\ Sound(detail, now) /\ fileQueue \in Seq(Seq(Entries))
        /\ Fits(file, fileQueue, rowQueue, detail)
    BY DEF FitInv, FileInv, TypeOK, InLine, AllSound
  <1>2. /\ now' = now + 1 /\ file' = file /\ known' = known /\ excused' = excused /\ crashes' = crashes
    BY DEF Begin, disk, ghost
  <1>3. PICK n : n = Position(detail, Live(i))
    OBVIOUS
  <1>4. PICK t \in Nat : t = now
    BY <1>1
  <1>5. CASE n = 0
    <2>1. Opened(i, now', rowQueue) /\ detail' = detail /\ fileQueue' = fileQueue
      BY <1>3, <1>5 DEF Begin
    <2>2. now' \in Nat
      BY <1>1, <1>2
    <2>3. PICK op, j :
            /\ op.started = now' /\ NewStart(j, i, now')
            /\ active' = Put(active, i, op) /\ logs' = logs \cup {i}
            /\ rowQueue' = Append(rowQueue, j)
      BY <2>1, <2>2, OpenedIs
    <2>4. \A k \in DOMAIN detail : detail[k].id # Live(i)
      BY <1>1, <1>3, <1>5, PositionOf, ElementsSeq, SeqIs
    <2>5. Views(v, file, fileQueue, rowQueue, detail, known, active, logs, excused, t, crashes)
      BY <1>4 DEF Running
    <2>6. Views(w, file, fileQueue, Append(rowQueue, j), detail, known, Put(active, i, op),
                logs \cup {i}, excused, t + 1, crashes)
      BY <1>2, <1>4, <2>1, <2>3 DEF Running
    <2>7. op.started = t + 1 /\ NewStart(j, i, t + 1)
      BY <1>2, <1>4, <2>3
    <2> QED
      BY <1>1, <1>2, <2>4, <2>5, <2>6, <2>7, BeginsFresh
  <1>6. CASE n # 0
    <2>1. PICK e \in Entries : e = detail[n] /\ n \in DOMAIN detail /\ e.id = Live(i)
      BY <1>1, <1>3, <1>6, LiveEntry
    <2>2. e \in Elements(detail)
      BY <2>1 DEF Elements
    <2>3. /\ detail' = Renamed(detail, e)
          /\ fileQueue' = RenamedFiles(fileQueue, e)
          /\ rowQueue' = Append(RenamedRows(rowQueue, e),
               [row |-> AuditRow(Archival(i, e.saved), "terminal", e, e.saved),
                then |-> "open", started |-> now', snapshot |-> <<>>])
          /\ active' = active /\ logs' = logs
      BY <1>3, <1>6, <2>1 DEF Begin, RenamedFiles, RenamedRows
    <2>4. /\ e.started \in Nat /\ e.saved \in Nat /\ e.status \in Statuses
          /\ Archival(i, e.saved) \in Names /\ <<>> \in Seq(Entries) /\ now' \in Nat
      BY <1>1, <1>2, <2>1, EntryFields, EmptyType DEF Archival, Names
    <2>5. PICK r \in Rows : r = AuditRow(Archival(i, e.saved), "terminal", e, e.saved)
      BY <2>4, RowType
    <2>6. PICK j : j = [row |-> r, then |-> "open", started |-> now', snapshot |-> <<>>]
      OBVIOUS
    <2>7. j \in Appends
      BY <2>4, <2>6, JobType
    <2>8. NewOpening(j, i, e, t + 1)
      <3>1. /\ r.id = Archival(i, e.saved) /\ r.kind = "terminal"
            /\ r.started = e.started /\ r.saved = e.saved
        BY <2>5 DEF AuditRow
      <3> QED
        BY <1>2, <1>4, <2>6, <2>7, <3>1 DEF NewOpening
    <2>9. \A k \in DOMAIN Renamed(detail, e) : Renamed(detail, e)[k].id # Live(i)
      <3>1. PICK f, files, rows, c :
              f = file /\ files = fileQueue /\ rows = rowQueue /\ c = detail
        OBVIOUS
      <3>2. /\ t \in Nat /\ files \in Seq(Seq(Entries)) /\ rows \in Seq(Appends)
            /\ c \in Seq(Entries) /\ Sound(c, t) /\ Fits(f, files, rows, c)
        BY <1>1, <1>4, <3>1
      <3>3. e \in Elements(c) /\ e.id = Live(i) /\ e \in Entries
        BY <2>1, <2>2, <3>1
      <3>4. /\ Fits(f, RenamedFiles(files, e), RenamedRows(rows, e), Renamed(c, e))
            /\ \A k \in DOMAIN Renamed(c, e) : Renamed(c, e)[k].id # Live(i)
        BY <3>2, <3>3, FitsRenamed
      <3> QED
        BY <3>1, <3>4
    <2>10. Views(v, file, fileQueue, rowQueue, detail, known, active, logs, excused, t, crashes)
      BY <1>4 DEF Running
    <2>11. Views(w, file, RenamedFiles(fileQueue, e), Append(RenamedRows(rowQueue, e), j),
                 Renamed(detail, e), known, active, logs, excused, t + 1, crashes)
      BY <1>2, <1>4, <2>3, <2>5, <2>6 DEF Running
    <2> QED
      BY <1>1, <2>1, <2>2, <2>8, <2>9, <2>10, <2>11, BeginsArchive
  <1> QED
    BY <1>5, <1>6

LEMMA PersistShows ==
  ASSUME FitInv, NEW v, Good(v), Running(v), NEW w, Typed(w), Running(w)',
         NEW i \in Ids, NEW stored, Persist(i, stored)
  PROVE  Good(w)
  <1>1. /\ rowQueue \in Seq(Appends) /\ detail \in Seq(Entries) /\ known \in Seq(Rows)
        /\ now \in Nat /\ Sound(detail, now) /\ TypeOK /\ i \in DOMAIN active /\ i \in logs
    BY DEF FitInv, FileInv, InLine, AllSound, TypeOK, Persist
  <1>2. PICK t \in Nat : t = now
    BY <1>1
  <1>3. PICK e : e = [id |-> Live(i), started |-> active[i].started, saved |-> now + 1,
                      status |-> active[i].status]
    OBVIOUS
  <1>4. PICK s : s = active[i].started
    OBVIOUS
  <1>5. e \in Entries /\ e.saved = t + 1 /\ e.id = Live(i) /\ e.started = s
    BY <1>1, <1>2, <1>3, <1>4, PersistEntry
  <1>6. PICK all \in Seq(Entries) : all = Upsert(detail, e)
    BY <1>1, <1>5, UpsertType
  <1>7. PICK kept \in Seq(Entries) : kept = Retained(all, Pinned(all, stored))
    BY RetainedType
  <1>8. /\ now' = now + 1 /\ file' = file /\ fileQueue' = fileQueue /\ known' = known
        /\ active' = active /\ crashes' = crashes
        /\ detail' = kept /\ logs' = PruneTransactionLogs(logs, kept)
        /\ rowQueue' = Enqueue(AuditRow(Live(i), "terminal", active[i], now'),
                               "write", active[i].started, kept)
        /\ excused' = excused \cup {g.started : g \in Elements(all) \ Elements(kept)}
                        \cup (IF Archiving(i) THEN {active[i].started} ELSE {})
    BY <1>3, <1>6, <1>7 DEF Persist, disk
  <1>9. PartOf(kept, Upsert(detail, e))
    BY <1>6, <1>7, RetainedIsPart
  <1>10. active[i] \in Ops /\ Live(i) \in Names
    BY <1>1 DEF TypeOK, Live, Names
  <1>11. PICK r \in Rows : r = AuditRow(Live(i), "terminal", active[i], now + 1)
    <2>1. active[i].started \in Nat /\ active[i].status \in Statuses /\ now + 1 \in Nat
      BY <1>1, <1>10 DEF Ops
    <2> QED
      BY <1>10, <2>1, RowType
  <1>12. PICK j : j = [row |-> r, then |-> "write", started |-> s, snapshot |-> kept]
    OBVIOUS
  <1>13. j \in Appends
    BY <1>4, <1>10, <1>12, JobType DEF Ops
  <1>14. NewVerdict(j, i, s, t + 1, kept)
    <2>1. r.id = Live(i) /\ r.kind = "terminal" /\ r.started = s /\ r.saved = t + 1
      BY <1>2, <1>4, <1>11 DEF AuditRow
    <2> QED
      BY <1>12, <1>13, <2>1 DEF NewVerdict
  <1>15. rowQueue' = Append(rowQueue, j)
    BY <1>4, <1>8, <1>11, <1>12 DEF Enqueue
  <1>16. PICK gone : gone = excused'
    OBVIOUS
  <1>17. excused \subseteq gone
    BY <1>8, <1>16
  <1>18. \A g \in Elements(Upsert(detail, e)) : g \in Elements(kept) \/ g.started \in gone
    BY <1>6, <1>8, <1>16
  <1>19. Opens(rowQueue, i) => s \in gone
    BY <1>4, <1>8, <1>16 DEF Archiving, Opens
  <1>20. PICK new : new = PruneTransactionLogs(logs, kept)
    OBVIOUS
  <1>21. \A x \in logs : (x \in DOMAIN active \/ \E g \in Elements(kept) : g.id = Live(x)) => x \in new
    BY <1>20 DEF PruneTransactionLogs
  <1>22. Views(v, file, fileQueue, rowQueue, detail, known, active, logs, excused, t, crashes)
    BY <1>2 DEF Running
  <1>23. Views(w, file, fileQueue, Append(rowQueue, j), kept, known, active, new, gone, t + 1, crashes)
    BY <1>2, <1>8, <1>15, <1>16, <1>20 DEF Running
  <1>24. Sound(detail, t)
    BY <1>1, <1>2
  <1>25. PICK d \in Seq(Entries), rows \in Seq(Appends), seen \in Seq(Rows) :
           d = detail /\ rows = rowQueue /\ seen = known
    BY <1>1
  <1>26. PICK ops, lg : ops = active /\ lg = logs
    OBVIOUS
  <1>27. i \in DOMAIN ops /\ s = ops[i].started /\ i \in lg
    BY <1>1, <1>4, <1>26
  <1>28. Sound(d, t) /\ PartOf(kept, Upsert(d, e)) /\ Spared(Upsert(d, e), kept, gone)
    BY <1>9, <1>18, <1>24, <1>25 DEF Spared
  <1>29. Opens(rows, i) => s \in gone
    BY <1>19, <1>25
  <1>30. StillListed(lg, ops, kept, new)
    BY <1>21, <1>26 DEF StillListed
  <1>31. Views(v, file, fileQueue, rows, d, seen, ops, lg, excused, t, crashes)
    BY <1>22, <1>25, <1>26
  <1>32. Views(w, file, fileQueue, Append(rows, j), kept, seen, ops, new, gone, t + 1, crashes)
    BY <1>23, <1>25, <1>26
  <1> QED
    BY <1>5, <1>14, <1>17, <1>27, <1>28, <1>29, <1>30, <1>31, <1>32, PersistShown

LEMMA ContinueCases ==
  ASSUME TypeOK, rowQueue # <<>>, Continue(Head(rowQueue)),
         NEW i, i = Head(rowQueue).row.id[1], NEW s, s = Head(rowQueue).started
  PROVE  \/ /\ Written(fileQueue', fileQueue, Head(rowQueue)) /\ rowQueue' = Tail(rowQueue)
            /\ active' = active /\ logs' = logs
         \/ /\ Head(rowQueue).then = "open" /\ fileQueue' = fileQueue
            /\ \E op, j :
                 /\ op.started = s /\ NewStart(j, i, s)
                 /\ active' = Put(active, i, op) /\ logs' = logs \cup {i}
                 /\ rowQueue' = Append(Tail(rowQueue), j)
  <1>1. PICK head \in Appends : head = Head(rowQueue)
    BY JoinedTail, EmptyType DEF TypeOK
  <1>2. head.then \in {"none", "open", "write"} /\ i \in Ids /\ s \in Nat
    BY <1>1, JobFields, RowFields
  <1>3. CASE head.then = "none"
    BY <1>1, <1>3 DEF Continue, Written
  <1>4. CASE head.then = "write"
    BY <1>1, <1>4 DEF Continue, Written
  <1>5. CASE head.then = "open"
    <2>1. Opened(i, s, Tail(rowQueue)) /\ fileQueue' = fileQueue
      BY <1>1, <1>5 DEF Continue
    <2>2. PICK queue : queue = Tail(rowQueue)
      OBVIOUS
    <2>3. Opened(i, s, queue)
      BY <2>1, <2>2
    <2>4. \E op, j :
            /\ op.started = s /\ NewStart(j, i, s)
            /\ active' = Put(active, i, op) /\ logs' = logs \cup {i}
            /\ rowQueue' = Append(queue, j)
      BY <1>2, <2>3, OpenedIs
    <2> QED
      BY <1>1, <1>5, <2>1, <2>2, <2>4
  <1> QED
    BY <1>2, <1>3, <1>4, <1>5

LEMMA AppendShown ==
  ASSUME FitInv, OpensOnce(rowQueue), NEW v, Good(v), Running(v), NEW w, Typed(w), Running(w)', AppendRow
  PROVE  Good(w)
  <1>1. PICK files \in Seq(Seq(Entries)), rows \in Seq(Appends), seen \in Seq(Rows) :
          files = fileQueue /\ rows = rowQueue /\ seen = known
    BY DEF FitInv, FileInv, TypeOK
  <1>2. PICK f, d, ops, lg, lost, t, n :
          /\ f = file /\ d = detail /\ ops = active /\ lg = logs /\ lost = excused
          /\ t = now /\ n = crashes
    OBVIOUS
  <1>3. PICK more : more = fileQueue'
    OBVIOUS
  <1>4. /\ rows # <<>> /\ Continue(Head(rowQueue)) /\ OpensOnce(rows) /\ TypeOK
        /\ file' = f /\ detail' = d /\ excused' = lost /\ now' = t /\ crashes' = n
        /\ known' = Append(seen, Head(rows).row)
    BY <1>1, <1>2 DEF FitInv, FileInv, AppendRow, RecordAuditRow
  <1>5. PICK i, s : i = Head(rows).row.id[1] /\ s = Head(rows).started
    OBVIOUS
  <1>6. Views(v, f, files, rows, d, seen, ops, lg, lost, t, n)
    BY <1>1, <1>2 DEF Running
  <1>7. CASE /\ Written(fileQueue', fileQueue, Head(rowQueue)) /\ rowQueue' = Tail(rowQueue)
             /\ active' = active /\ logs' = logs
    <2>1. Written(more, files, Head(rows))
      BY <1>1, <1>3, <1>7
    <2>2. Views(w, f, more, Tail(rows), d, Append(seen, Head(rows).row), ops, lg, lost, t, n)
      BY <1>1, <1>2, <1>3, <1>4, <1>7 DEF Running
    <2> QED
      BY <1>4, <1>6, <2>1, <2>2, RowKnown
  <1>8. CASE /\ Head(rowQueue).then = "open" /\ fileQueue' = fileQueue
             /\ \E op, j :
                  /\ op.started = s /\ NewStart(j, i, s)
                  /\ active' = Put(active, i, op) /\ logs' = logs \cup {i}
                  /\ rowQueue' = Append(Tail(rowQueue), j)
    <2>1. PICK op, j :
            /\ op.started = s /\ NewStart(j, i, s)
            /\ active' = Put(active, i, op) /\ logs' = logs \cup {i}
            /\ rowQueue' = Append(Tail(rowQueue), j)
      BY <1>8
    <2>2. Views(w, f, files, Append(Tail(rows), j), d, Append(seen, Head(rows).row),
                Put(ops, i, op), lg \cup {i}, lost, t, n)
      BY <1>1, <1>2, <1>4, <1>8, <2>1 DEF Running
    <2>3. Head(rows).then = "open"
      BY <1>1, <1>8
    <2> QED
      BY <1>4, <1>5, <1>6, <2>1, <2>2, <2>3, OpenKnown
  <1> QED
    BY <1>1, <1>4, <1>5, <1>7, <1>8, ContinueCases

LEMMA AppendFailsShown ==
  ASSUME FitInv, OpensOnce(rowQueue), NEW v, Good(v), Running(v), NEW w, Typed(w), Running(w)', AppendFails
  PROVE  Good(w)
  <1>1. PICK files \in Seq(Seq(Entries)), rows \in Seq(Appends), seen \in Seq(Rows) :
          files = fileQueue /\ rows = rowQueue /\ seen = known
    BY DEF FitInv, FileInv, TypeOK
  <1>2. PICK f \in Seq(Entries), d \in Seq(Entries) : f = file /\ d = detail
    BY DEF FitInv, FileInv, TypeOK
  <1>3. PICK ops, lg, lost, t, n :
          ops = active /\ lg = logs /\ lost = excused /\ t = now /\ n = crashes
    OBVIOUS
  <1>4. PICK more : more = fileQueue'
    OBVIOUS
  <1>5. /\ rows # <<>> /\ Continue(Head(rowQueue)) /\ OpensOnce(rows) /\ TypeOK
        /\ file' = f /\ detail' = d /\ excused' = lost \cup {Head(rows).row.started}
        /\ now' = t /\ crashes' = n /\ known' = seen
    BY <1>1, <1>2, <1>3 DEF FitInv, FileInv, AppendFails
  <1>6. PICK i, s : i = Head(rows).row.id[1] /\ s = Head(rows).started
    OBVIOUS
  <1>7. Views(v, f, files, rows, d, seen, ops, lg, lost, t, n)
    BY <1>1, <1>2, <1>3 DEF Running
  <1>8. CASE /\ Written(fileQueue', fileQueue, Head(rowQueue)) /\ rowQueue' = Tail(rowQueue)
             /\ active' = active /\ logs' = logs
    <2>1. Written(more, files, Head(rows))
      BY <1>1, <1>4, <1>8
    <2>2. Views(w, f, more, Tail(rows), d, seen, ops, lg, lost \cup {Head(rows).row.started}, t, n)
      BY <1>1, <1>3, <1>4, <1>5, <1>8 DEF Running
    <2> QED
      BY <1>5, <1>7, <2>1, <2>2, RowLost
  <1>9. CASE /\ Head(rowQueue).then = "open" /\ fileQueue' = fileQueue
             /\ \E op, j :
                  /\ op.started = s /\ NewStart(j, i, s)
                  /\ active' = Put(active, i, op) /\ logs' = logs \cup {i}
                  /\ rowQueue' = Append(Tail(rowQueue), j)
    <2>1. PICK op, j :
            /\ op.started = s /\ NewStart(j, i, s)
            /\ active' = Put(active, i, op) /\ logs' = logs \cup {i}
            /\ rowQueue' = Append(Tail(rowQueue), j)
      BY <1>9
    <2>2. Views(w, f, files, Append(Tail(rows), j), d, seen, Put(ops, i, op), lg \cup {i},
                lost \cup {Head(rows).row.started}, t, n)
      BY <1>1, <1>3, <1>5, <1>9, <2>1 DEF Running
    <2>3. Head(rows).then = "open"
      BY <1>1, <1>9
    <2> QED
      BY <1>5, <1>6, <1>7, <2>1, <2>2, <2>3, OpenLost
  <1> QED
    BY <1>1, <1>5, <1>6, <1>8, <1>9, ContinueCases

LEMMA WriteShown ==
  ASSUME FitInv, NEW v, Good(v), Running(v), NEW w, Typed(w), Running(w)',
         WriteDetails \/ WriteFails
  PROVE  Good(w)
  <1>1. PICK files \in Seq(Seq(Entries)), seen \in Seq(Rows) : files = fileQueue /\ seen = known
    BY DEF FitInv, FileInv, TypeOK
  <1>2. PICK f, rows, d, ops, lg, lost, t, n :
          /\ f = file /\ rows = rowQueue /\ d = detail /\ ops = active /\ lg = logs
          /\ lost = excused /\ t = now /\ n = crashes
    OBVIOUS
  <1>3. PICK g : g = file'
    OBVIOUS
  <1>4. /\ files # <<>> /\ g \in {f, Head(files)} /\ fileQueue' = Tail(files)
        /\ rowQueue' = rows /\ detail' = d /\ known' = seen /\ active' = ops /\ logs' = lg
        /\ excused' = lost /\ now' = t /\ crashes' = n
    BY <1>1, <1>2, <1>3 DEF WriteDetails, WriteFails, disk, ghost
  <1>5. Views(v, f, files, rows, d, seen, ops, lg, lost, t, n)
    BY <1>1, <1>2 DEF Running
  <1>6. Views(w, g, Tail(files), rows, d, seen, ops, lg, lost, t, n)
    BY <1>3, <1>4 DEF Running
  <1> QED
    BY <1>4, <1>5, <1>6, SnapshotGoes

\* What a crash leaves in the ledger is the end of what was known.
LEMMA CutEnding ==
  ASSUME NEW f \in Ledgers, NEW t \in Seq(Rows), Ending(LoadAuditLedger(f), t)
  PROVE  Ending(LoadAuditLedger(RotationCutShort(f)), t)
  <1>1. PICK g \in Ledgers : g = RotationCutShort(f)
    BY RotatedType
  <1>2. Moved(f, g, 2)
    BY <1>1, RotatedParts
  <1>3. MaxFiles \in Nat /\ MaxFiles >= 1
    BY HistoryAssumption
  <1>4. PICK k : k = MaxFiles + 1
    OBVIOUS
  <1>5. k \in 2..MaxFiles + 1 /\ k \in 1..MaxFiles + 1 /\ k - 1 = MaxFiles /\ MaxFiles \in 0..MaxFiles + 1
    BY <1>3, <1>4
  <1>6. ReadBack(g, k) = ReadBack(f, MaxFiles)
    BY <1>2, <1>5 DEF Moved
  <1>7. LoadAuditLedger(g) = ReadBack(g, k) /\ LoadAuditLedger(f) = ReadBack(f, k)
    BY <1>4, ReadIs
  <1>8. ReadBack(f, k) = f[k] \o ReadBack(f, MaxFiles)
    BY <1>5, ReadIs
  <1>9. PICK b \in Seq(Rows) : b = ReadBack(f, MaxFiles)
    BY <1>5, ReadType
  <1>10. PICK a \in Seq(Rows) : a = f[k]
    BY <1>5 DEF Ledgers
  <1>11. Ending(a \o b, t)
    BY <1>7, <1>8, <1>9, <1>10
  <1>12. Ending(b, t)
    BY <1>11, EndingDrop
  <1> QED
    BY <1>1, <1>6, <1>7, <1>9, <1>12

LEMMA CrashShows ==
  ASSUME FitInv, LedgerInv, NEW v, Good(v), Running(v), NEW w, Typed(w), Stopped(w)', Crash
  PROVE  Good(w)
  <1>1. PICK rows \in Seq(Appends), seen \in Seq(Rows) : rows = rowQueue /\ seen = known
    BY DEF FitInv, FileInv, TypeOK
  <1>2. PICK f, files, d, ops, lg, lost, t, n :
          /\ f = file /\ files = fileQueue /\ d = detail /\ ops = active /\ lg = logs
          /\ lost = excused /\ t = now /\ n = crashes
    OBVIOUS
  <1>3. PICK gone, m, none : gone = excused' /\ m = crashes' /\ none = active'
    OBVIOUS
  <1>4. /\ up /\ file' = f /\ logs' = {} /\ now' = t /\ none = NoKey
        /\ m = crashes + 1 /\ ledger' \in {ledger, RotationCutShort(ledger)}
        /\ gone = lost \cup ({e.started : e \in Elements(d)} \ {e.started : e \in Elements(f)})
    BY <1>2, <1>3 DEF Crash
  <1>5. DOMAIN none = {}
    BY <1>4 DEF NoKey
  <1>6. m # 0
    BY <1>4 DEF LedgerInv, TypeOK
  <1>7. ledger \in Ledgers /\ Ending(LoadAuditLedger(ledger), seen)
    BY <1>1, <1>4 DEF LedgerInv, TypeOK, Ledgers, Holds
  <1>8. Ending(LoadAuditLedger(ledger'), seen) /\ ledger' \in Ledgers
    <2>1. CASE ledger' = ledger
      BY <1>7, <2>1
    <2>2. CASE ledger' = RotationCutShort(ledger)
      <3>1. Ending(LoadAuditLedger(RotationCutShort(ledger)), seen)
        BY <1>7, CutEnding
      <3>2. RotationCutShort(ledger) \in Ledgers
        BY <1>7, RotatedType
      <3> QED
        BY <2>2, <3>1, <3>2
    <2> QED
      BY <1>4, <2>1, <2>2
  <1>9. PICK left \in Seq(Rows) : left = LoadAuditLedger(ledger')
    <2>1. LoadAuditLedger(ledger') \in Seq(Rows)
      BY <1>8, LedgerLength, LoadType
    <2> QED
      BY <2>1
  <1>10. Ending(left, seen)
    BY <1>8, <1>9
  <1>11. lost \subseteq gone
    BY <1>4
  <1>12. \A e \in Elements(d) : e.started \in gone \/ \E g \in Elements(f) : g.started = e.started
    BY <1>4
  <1>13. Views(v, f, files, rows, d, seen, ops, lg, lost, t, n)
    BY <1>1, <1>2 DEF Running
  <1>14. Views(w, f, <<>>, <<>>, f, left, none, {}, gone, t, m)
    BY <1>3, <1>4, <1>9 DEF Stopped
  <1> QED
    BY <1>5, <1>6, <1>10, <1>11, <1>12, <1>13, <1>14, CrashShown

LEMMA BootShown ==
  ASSUME FitInv, LedgerInv, DOMAIN active = {}, NEW v, Good(v), Stopped(v), NEW w, Typed(w),
         Running(w)', Boot
  PROVE  Good(w)
  <1>1. PICK f \in Seq(Entries) : f = file
    BY DEF FitInv, FileInv, TypeOK
  <1>2. PICK seen \in Seq(Rows) : seen = LoadAuditLedger(ledger)
    <2>1. ledger \in Ledgers
      BY DEF LedgerInv, TypeOK, Ledgers
    <2>2. LoadAuditLedger(ledger) \in Seq(Rows)
      BY <2>1, LedgerLength, LoadType
    <2> QED
      BY <2>2
  <1>3. PICK none, lg, lost, t, n :
          none = active /\ lg = logs /\ lost = excused /\ t = now /\ n = crashes
    OBVIOUS
  <1>4. PICK gone, known2 : gone = excused' /\ known2 = known'
    OBVIOUS
  <1>5. ~up /\ rowQueue = <<>> /\ fileQueue = <<>> /\ DOMAIN none = {} /\ Sound(f, t)
    BY <1>1, <1>3 DEF Boot, FitInv, FileInv, Latched, InLine, AllSound
  <1>6. /\ file' = f /\ fileQueue' = <<>> /\ rowQueue' = <<>> /\ active' = none /\ logs' = lg
        /\ now' = t /\ crashes' = n /\ detail' = IF damaged THEN <<>> ELSE f
        /\ gone = lost \cup {e \in {seen[k].started : k \in DOMAIN seen} : damaged}
    BY <1>1, <1>2, <1>3, <1>4, <1>5 DEF Boot, LoadTransactionLogs
  <1>7. \/ known2 = seen
        \/ detail' # <<>> /\ known2 = Migrated(detail')
        \/ seen = <<>> /\ known2 = <<>>
    BY <1>2, <1>4 DEF Boot
  <1>8. Views(v, f, <<>>, <<>>, f, seen, none, lg, lost, t, n)
    BY <1>1, <1>2, <1>3 DEF Stopped
  <1>9. CASE damaged
    <2>1. detail' = <<>> /\ known2 = seen
      BY <1>6, <1>7, <1>9
    <2>2. lost \subseteq gone /\ \A k \in DOMAIN seen : seen[k].started \in gone
      BY <1>6, <1>9
    <2>3. Views(w, f, <<>>, <<>>, <<>>, seen, none, lg, gone, t, n)
      BY <1>4, <1>6, <2>1 DEF Running
    <2> QED
      BY <1>5, <1>8, <2>2, <2>3, ForgottenShown
  <1>10. CASE ~damaged
    <2>1. detail' = f /\ gone = lost
      BY <1>6, <1>10
    <2>2. Views(w, f, <<>>, <<>>, f, known2, none, lg, lost, t, n)
      BY <1>4, <1>6, <2>1 DEF Running
    <2>3. CASE known2 = seen
      BY <1>8, <2>2, <2>3, RecordsGo
    <2>4. CASE known2 = Migrated(f)
      BY <1>5, <1>8, <2>2, <2>4, MigratedShown
    <2> QED
      BY <1>7, <2>1, <2>3, <2>4
  <1> QED
    BY <1>9, <1>10

LEMMA ViewAt ==
  ASSUME NEW u, NEW f \in Seq(Entries), NEW files \in Seq(Seq(Entries)), NEW rows \in Seq(Appends),
         NEW d \in Seq(Entries), NEW k \in Seq(Rows), NEW l \in Ledgers, NEW ops, Records(ops),
         NEW lg, NEW lost, NEW t \in Nat, NEW n \in Nat, NEW v,
         v = ViewOf(f, files, rows, StoreOf(u, d, f), SeenOf(u, k, l), ops, lg, lost, t, n)
  PROVE  /\ Typed(v)
         /\ u => Views(v, f, files, rows, d, k, ops, lg, lost, t, n)
         /\ (~u /\ rows = <<>> /\ files = <<>>) =>
              Views(v, f, <<>>, <<>>, f, LoadAuditLedger(l), ops, lg, lost, t, n)
  <1>1. PICK e \in Seq(Entries), seen \in Seq(Rows) : e = StoreOf(u, d, f) /\ seen = SeenOf(u, k, l)
    BY SeenType DEF StoreOf
  <1>2. v = ViewOf(f, files, rows, e, seen, ops, lg, lost, t, n)
    BY <1>1
  <1>3. Typed(v) /\ Views(v, f, files, rows, e, seen, ops, lg, lost, t, n)
    BY <1>2, ViewIs
  <1> QED
    BY <1>1, <1>3 DEF StoreOf, SeenOf

\* At the start.
LEMMA NothingRead ==
  ASSUME NEW f \in Ledgers, \A n \in 1..MaxFiles + 1 : f[n] = <<>>
  PROVE  LoadAuditLedger(f) = <<>>
  <1>1. MaxFiles \in Nat
    BY HistoryAssumption
  <1> DEFINE S == {n \in 0..MaxFiles + 1 : ReadBack(f, n) # <<>>}
  <1>2. S = {}
    <2> SUFFICES ASSUME S # {} PROVE FALSE
      OBVIOUS
    <2>1. S \in SUBSET Nat
      OBVIOUS
    <2>2. PICK n \in S : \A y \in S : n <= y
      BY <2>1, Minimum
    <2>3. n # 0
      BY <2>2, ReadIs
    <2>4. n \in 1..MaxFiles + 1 /\ n - 1 \in 0..MaxFiles + 1 /\ n - 1 \notin S
      BY <1>1, <2>2, <2>3
    <2>5. ReadBack(f, n) = f[n] \o ReadBack(f, n - 1) /\ ReadBack(f, n - 1) = <<>> /\ f[n] = <<>>
      BY <2>4, ReadIs
    <2>6. <<>> \o <<>> = <<>>
      OBVIOUS
    <2> QED
      BY <2>2, <2>5, <2>6
  <1>3. MaxFiles + 1 \in 0..MaxFiles + 1
    BY <1>1
  <1>4. ReadBack(f, MaxFiles + 1) = <<>>
    BY <1>2, <1>3
  <1> QED
    BY <1>4, ReadIs

FirstFile(f) ==
  f = <<>> \/ \E i \in Ids, s \in Statuses :
                f = <<[id |-> Live(i), started |-> 1, saved |-> 1, status |-> s]>>

LEMMA FirstEntries ==
  ASSUME NEW f, FirstFile(f), Ids # {}
  PROVE  \E i \in Ids : \A e \in Elements(f) : e.id = Live(i) /\ e.started = 1 /\ e.saved = 1
  <1>1. CASE f = <<>>
    BY <1>1, EmptyElements
  <1>2. CASE f # <<>>
    <2>1. PICK i \in Ids, s \in Statuses :
            f = <<[id |-> Live(i), started |-> 1, saved |-> 1, status |-> s]>>
      BY <1>2 DEF FirstFile
    <2>2. PICK e : e = [id |-> Live(i), started |-> 1, saved |-> 1, status |-> s]
      OBVIOUS
    <2>3. Elements(<<e>>) = {e}
      BY DEF Elements
    <2> QED
      BY <2>1, <2>2, <2>3
  <1> QED
    BY <1>1, <1>2

LEMMA FirstGood ==
  ASSUME NEW v, Typed(v), NEW f, FirstFile(f), NEW none, DOMAIN none = {},
         Views(v, f, <<>>, <<>>, f, <<>>, none, {}, {}, 1, 0)
  PROVE  Good(v)
  <1>1. v.k = <<>>
    <2>1. <<>> \in Seq(Rows) /\ <<>> \in Seq(Appends) /\ Len(<<>>) = 0
      BY EmptyType
    <2>2. Joined(<<>>, <<>>) \in Seq(Rows) /\ Len(Joined(<<>>, <<>>)) = Len(<<>>) + Len(<<>>)
      BY <2>1, JoinedIs
    <2>3. Joined(<<>>, <<>>) = <<>>
      BY <2>1, <2>2
    <2> QED
      BY <2>3 DEF Views, Pictures
  <1>2. DOMAIN v.k = {}
    BY <1>1, EmptyIsSeq
  <1>3. v.ops = {} /\ v.opens = {}
    <2>1. Waiters(<<>>) = {}
      BY EmptyIsSeq DEF Waiters
    <2>2. Holders(none) = {}
      BY DEF Holders
    <2> QED
      BY <2>1, <2>2 DEF Views
  <1>4. \A x \in v.sh : x[1] = Elements(f)
    <2> SUFFICES ASSUME NEW x \in v.sh PROVE x[1] = Elements(f)
      OBVIOUS
    <2>1. PICK c : c = Len(<<>>)
      OBVIOUS
    <2>2. OnShelf(x, f, <<>>, <<>>, f, c)
      BY <2>1, ShelfIs DEF Views, Pictures
    <2> QED
      BY <2>2, EmptyIsSeq DEF OnShelf
  <1>5. v.t = 1 /\ v.d = Elements(f)
    BY DEF Views, Pictures
  <1>6. Marked(v)
    <2>1. CASE Ids = {}
      <3>1. Entries = {}
        BY <2>1 DEF Entries, Names
      <3>2. \A x \in v.sh : x[1] = {}
        BY <3>1 DEF Typed
      <3>3. Marks(v, <<>>, <<>>)
        BY <1>2, <1>3, <3>2 DEF Marks
      <3> QED
        BY <3>3 DEF Marked
    <2>2. CASE Ids # {}
      <3>1. PICK i \in Ids : \A e \in Elements(f) : e.id = Live(i) /\ e.started = 1 /\ e.saved = 1
        BY <2>2, FirstEntries
      <3>2. PICK st, own : st = [n \in Nat |-> 1] /\ own = [n \in Nat |-> i]
        OBVIOUS
      <3>3. st[1] = 1 /\ own[1] = i
        BY <3>2
      <3>4. ASSUME NEW x \in v.sh, NEW e \in x[1] PROVE Mark(e, v.t, st, own)
        <4>1. e.id = Live(i) /\ e.started = 1 /\ e.saved = 1
          BY <1>4, <3>1, <3>4
        <4>2. e.id[1] = i /\ e.id[2] = 0 /\ 1 \in 1..1
          BY <4>1 DEF Live
        <4> QED
          BY <1>5, <3>3, <4>1, <4>2 DEF Mark
      <3>5. Marks(v, st, own)
        BY <1>2, <1>3, <3>4 DEF Marks
      <3> QED
        BY <3>5 DEF Marked
    <2> QED
      BY <2>1, <2>2
  <1>7. Stored(v) /\ Held(v) /\ Split(v) /\ Ascends(v)
    BY <1>2 DEF Stored, Held, Split, Ascends
  <1>8. Newest(v) /\ Unborn(v) /\ Stand(v) /\ OwnDetail(v) /\ Listed(v)
    BY <1>3 DEF Newest, Unborn, Stand, OwnDetail, Listed
  <1>9. ToldOnShelf(v) /\ ToldInStore(v) /\ OneSoFar(v)
    BY <1>2 DEF ToldOnShelf, ToldInStore, OneSoFar, Told1
  <1> QED
    BY <1>6, <1>7, <1>8, <1>9 DEF Good

LEMMA ShownInit == Init => ShownInv
  <1> SUFFICES ASSUME Init PROVE ShownInv
    OBVIOUS
  <1>1. FitInv /\ LedgerInv
    BY FitInit, LedgerInit
  <1>2. TypeOK
    BY <1>1 DEF LedgerInv
  <1>3. PICK v : v = View
    OBVIOUS
  <1>4. /\ ~up /\ rowQueue = <<>> /\ fileQueue = <<>> /\ active = NoKey /\ logs = {}
        /\ excused = {} /\ now = 1 /\ crashes = 0
    BY DEF Init
  <1>5. ledger \in Ledgers /\ Records(active)
    BY <1>2 DEF TypeOK, Ledgers, Records
  <1>6. /\ Typed(v)
        /\ Views(v, file, <<>>, <<>>, file, LoadAuditLedger(ledger), active, logs, excused, now, crashes)
    BY <1>2, <1>3, <1>4, <1>5, ViewAt DEF View, TypeOK
  <1>7. LoadAuditLedger(ledger) = <<>>
    <2>1. \A n \in 1..MaxFiles + 1 : ledger[n] = <<>>
      BY DEF Init
    <2> QED
      BY <1>5, <2>1, NothingRead
  <1>8. FirstFile(file)
    BY DEF Init, FirstFile, Statuses
  <1>9. DOMAIN active = {}
    BY <1>4 DEF NoKey
  <1>10. Views(v, file, <<>>, <<>>, file, <<>>, active, {}, {}, 1, 0)
    BY <1>4, <1>6, <1>7
  <1>11. Good(v)
    BY <1>6, <1>8, <1>9, <1>10, FirstGood
  <1>12. InHand
    BY <1>4, <1>9 DEF InHand, OpensOnce
  <1> QED
    BY <1>1, <1>3, <1>11, <1>12 DEF ShownInv

\* An operation that begins waits for one row.
LEMMA OnceStep ==
  ASSUME TypeOK, OpensOnce(rowQueue), up => \A o \in Waiters(rowQueue) : o[2] # now + 1,
         [Next]_vars
  PROVE  OpensOnce(rowQueue')
  <1>1. PICK rows \in Seq(Appends) : rows = rowQueue
    BY DEF TypeOK
  <1>2. detail \in Seq(Entries)
    BY DEF TypeOK
  <1>3. ASSUME NEW q \in Seq(Appends), OpensOnce(q), NEW j, j.then # "open"
        PROVE  OpensOnce(Append(q, j))
    BY <1>3, OnceAppend
  <1>4. ASSUME NEW i, NEW s, NEW q \in Seq(Appends), OpensOnce(q), Opened(i, s, q)
        PROVE  OpensOnce(rowQueue')
    <2>1. PICK r : rowQueue' = Append(q, [row |-> r, then |-> "none", started |-> s,
                                          snapshot |-> <<>>])
      BY <1>4 DEF Opened
    <2>2. PICK j : j = [row |-> r, then |-> "none", started |-> s, snapshot |-> <<>>]
      OBVIOUS
    <2>3. j.then # "open"
      BY <2>2
    <2>4. OpensOnce(Append(q, j))
      BY <1>3, <1>4, <2>3
    <2> QED
      BY <2>1, <2>2, <2>4
  <1>5. ASSUME NEW i \in Ids, Begin(i) PROVE OpensOnce(rowQueue')
    <2>1. PICK n : n = Position(detail, Live(i))
      OBVIOUS
    <2>2. CASE n = 0
      <3>1. Opened(i, now', rows)
        BY <1>1, <1>5, <2>1, <2>2 DEF Begin
      <3> QED
        BY <1>1, <1>4, <3>1
    <2>3. CASE n # 0
      <3>1. PICK e \in Entries : e = detail[n] /\ n \in DOMAIN detail /\ e.id = Live(i)
        BY <1>2, <2>1, <2>3, LiveEntry
      <3>2. PICK q \in Seq(Appends) : q = RenamedRows(rows, e)
        BY RenamedRowsType
      <3>3. OpensOnce(q)
        BY <1>1, <3>2, OnceRenamed
      <3>4. PICK r : rowQueue' = Append(q, [row |-> r, then |-> "open", started |-> now',
                                            snapshot |-> <<>>])
        BY <1>1, <1>5, <2>1, <2>3, <3>1, <3>2 DEF Begin, RenamedRows
      <3>5. PICK j : j = [row |-> r, then |-> "open", started |-> now', snapshot |-> <<>>]
        OBVIOUS
      <3>6. Waiters(q) = Waiters(rows)
        BY <3>2, JoinedRenamed
      <3>7. j.started = now + 1 /\ up
        BY <1>5, <3>5 DEF Begin
      <3>8. \A o \in Waiters(q) : o[2] # j.started
        BY <1>1, <3>6, <3>7
      <3>9. OpensOnce(Append(q, j))
        BY <3>3, <3>8, OnceAppend
      <3> QED
        BY <3>4, <3>5, <3>9
    <2> QED
      BY <2>2, <2>3
  <1>6. ASSUME NEW i \in Ids, NEW stored, Persist(i, stored) PROVE OpensOnce(rowQueue')
    <2>1. PICK r, s, k : rowQueue' = Append(rows, [row |-> r, then |-> "write", started |-> s,
                                                   snapshot |-> k])
      BY <1>1, <1>6 DEF Persist, Enqueue
    <2>2. PICK j : j = [row |-> r, then |-> "write", started |-> s, snapshot |-> k]
      OBVIOUS
    <2>3. j.then # "open"
      BY <2>2
    <2>4. OpensOnce(Append(rows, j))
      BY <1>1, <1>3, <2>3
    <2> QED
      BY <2>1, <2>2, <2>4
  <1>7. ASSUME AppendRow \/ AppendFails PROVE OpensOnce(rowQueue')
    <2>1. rows # <<>> /\ Continue(Head(rowQueue))
      BY <1>1, <1>7 DEF AppendRow, AppendFails
    <2>2. PICK less \in Seq(Appends) : less = Tail(rows)
      BY <2>1, HeadTypes
    <2>3. OpensOnce(less)
      BY <1>1, <2>1, <2>2, OnceTail
    <2>4. rowQueue' = less \/ \E i, s : Opened(i, s, less)
      <3>1. PICK head \in Appends : head = Head(rowQueue)
        BY <1>1, <2>1, HeadTypes
      <3>2. head.then \in {"none", "open", "write"}
        BY JobFields
      <3>3. CASE head.then = "none"
        BY <1>1, <2>1, <2>2, <3>1, <3>3 DEF Continue
      <3>4. CASE head.then = "write"
        BY <1>1, <2>1, <2>2, <3>1, <3>4 DEF Continue
      <3>5. CASE head.then = "open"
        <4>1. PICK i, s : i = head.row.id[1] /\ s = head.started
          OBVIOUS
        <4>2. Opened(i, s, less)
          BY <1>1, <2>1, <2>2, <3>1, <3>5, <4>1 DEF Continue
        <4> QED
          BY <4>2
      <3> QED
        BY <3>2, <3>3, <3>4, <3>5
    <2> QED
      BY <1>4, <2>3, <2>4
  <1>8. ASSUME Crash \/ Boot PROVE OpensOnce(rowQueue')
    <2>1. rowQueue' = <<>> \/ rowQueue' = rowQueue
      BY <1>8 DEF Crash, Boot
    <2> QED
      BY <2>1 DEF OpensOnce
  <1>9. ASSUME \/ \E i \in Ids, s \in Statuses : Settle(i, s)
               \/ PruneActive \/ WriteDetails \/ WriteFails \/ Damage \/ Repair
        PROVE  OpensOnce(rowQueue')
    <2>1. rowQueue' = rowQueue
      BY <1>9 DEF Settle, PruneActive, WriteDetails, WriteFails, Damage, Repair, memory
    <2> QED
      BY <2>1
  <1>10. CASE UNCHANGED vars
    BY <1>10 DEF vars, memory
  <1> QED
    BY <1>5, <1>6, <1>7, <1>8, <1>9, <1>10 DEF Next

\* At every step.
LEMMA ShownStep == ShownInv /\ [Next]_vars => ShownInv'
  <1> SUFFICES ASSUME ShownInv, [Next]_vars PROVE ShownInv'
    OBVIOUS
  <1>1. FitInv /\ LedgerInv /\ FitInv' /\ LedgerInv'
    BY FitStep, LedgerStep DEF ShownInv
  <1>2. TypeOK /\ TypeOK' /\ Latched /\ Latched' /\ (~up => DOMAIN active = {})
    BY <1>1 DEF ShownInv, InHand, LedgerInv, FitInv, FileInv
  <1>3. PICK v : v = View
    OBVIOUS
  <1>4. PICK w : w = View'
    OBVIOUS
  <1>5. Good(v)
    BY <1>3 DEF ShownInv
  <1>6. Typed(v) /\ (up => Running(v)) /\ (~up => Stopped(v))
    <2>1. ledger \in Ledgers /\ Records(active)
      BY <1>2 DEF TypeOK, Ledgers, Records
    <2>2. ~up => (rowQueue = <<>> /\ fileQueue = <<>>)
      BY <1>2 DEF Latched
    <2>3. /\ up => Views(v, file, fileQueue, rowQueue, detail, known, active, logs, excused, now, crashes)
          /\ (~up /\ rowQueue = <<>> /\ fileQueue = <<>>) =>
               Views(v, file, <<>>, <<>>, file, LoadAuditLedger(ledger), active, logs, excused,
                     now, crashes)
          /\ Typed(v)
      BY <1>2, <1>3, <2>1, ViewAt DEF View, TypeOK
    <2> QED
      BY <2>2, <2>3 DEF Running, Stopped
  <1>7. Typed(w) /\ (up' => Running(w)') /\ (~up' => Stopped(w)')
    <2>1. ledger' \in Ledgers /\ Records(active')
      BY <1>2 DEF TypeOK, Ledgers, Records
    <2>2. ~up' => (rowQueue' = <<>> /\ fileQueue' = <<>>)
      BY <1>2 DEF Latched
    <2>3. /\ up' => Views(w, file', fileQueue', rowQueue', detail', known', active', logs', excused',
                          now', crashes')
          /\ (~up' /\ rowQueue' = <<>> /\ fileQueue' = <<>>) =>
               Views(w, file', <<>>, <<>>, file', LoadAuditLedger(ledger'), active', logs', excused',
                     now', crashes')
          /\ Typed(w)
      BY <1>2, <1>4, <2>1, ViewAt DEF View, TypeOK
    <2> QED
      BY <2>2, <2>3 DEF Running, Stopped
  <1>8. ASSUME NEW i \in Ids, Begin(i) PROVE Good(w)
    <2>1. up /\ up'
      BY <1>8 DEF Begin
    <2> QED
      BY <1>1, <1>5, <1>6, <1>7, <1>8, <2>1, BeginShown
  <1>9. ASSUME NEW i \in Ids, NEW stored \in SUBSET Ids, Persist(i, stored) PROVE Good(w)
    <2>1. up /\ up'
      BY <1>9 DEF Persist
    <2> QED
      BY <1>1, <1>5, <1>6, <1>7, <1>9, <2>1, PersistShows
  <1>10. ASSUME up /\ up', \A i \in DOMAIN active' : i \in DOMAIN active /\ active'[i].started = active[i].started,
                UNCHANGED <<now, logs, detail, rowQueue, fileQueue, file, crashes, ghost>>
         PROVE  Good(w)
    <2>1. PICK ops, p : ops = active /\ p = active'
      OBVIOUS
    <2>2. Views(v, file, fileQueue, rowQueue, detail, known, ops, logs, excused, now, crashes)
      BY <1>6, <1>10, <2>1 DEF Running
    <2>3. Views(w, file, fileQueue, rowQueue, detail, known, p, logs, excused, now, crashes)
      BY <1>7, <1>10, <2>1 DEF Running, ghost
    <2>4. \A i \in DOMAIN p : i \in DOMAIN ops /\ p[i].started = ops[i].started
      BY <1>10, <2>1
    <2> QED
      BY <1>5, <1>7, <2>2, <2>3, <2>4, RecordsGo
  <1>11. ASSUME NEW i \in Ids, NEW s \in Statuses, Settle(i, s) PROVE Good(w)
    <2>1. up /\ up' /\ UNCHANGED <<now, logs, detail, rowQueue, fileQueue, file, crashes, ghost>>
      BY <1>11 DEF Settle, disk
    <2>2. \A x \in DOMAIN active' : x \in DOMAIN active /\ active'[x].started = active[x].started
      <3>1. active' = [active EXCEPT ![i].status = s] /\ i \in DOMAIN active
        BY <1>11 DEF Settle
      <3>2. active[i] \in Ops
        BY <1>2, <3>1 DEF TypeOK
      <3>3. [active[i] EXCEPT !.status = s].started = active[i].started
        BY <3>2 DEF Ops
      <3> QED
        BY <3>1, <3>3
    <2> QED
      BY <1>10, <2>1, <2>2
  <1>12. ASSUME PruneActive PROVE Good(w)
    <2>1. up /\ up' /\ UNCHANGED <<now, logs, detail, rowQueue, fileQueue, file, crashes, ghost>>
      BY <1>12 DEF PruneActive, disk
    <2>2. \A x \in DOMAIN active' : x \in DOMAIN active /\ active'[x].started = active[x].started
      BY <1>12 DEF PruneActive, PruneOldTransfers
    <2> QED
      BY <1>10, <2>1, <2>2
  <1>13. ASSUME AppendRow PROVE Good(w)
    <2>1. up /\ up'
      BY <1>13 DEF AppendRow
    <2> QED
      BY <1>1, <1>5, <1>6, <1>7, <1>13, <2>1, AppendShown DEF ShownInv, InHand
  <1>14. ASSUME AppendFails PROVE Good(w)
    <2>1. up /\ up'
      BY <1>14 DEF AppendFails
    <2> QED
      BY <1>1, <1>5, <1>6, <1>7, <1>14, <2>1, AppendFailsShown DEF ShownInv, InHand
  <1>15. ASSUME WriteDetails \/ WriteFails PROVE Good(w)
    <2>1. up /\ up'
      BY <1>15 DEF WriteDetails, WriteFails
    <2> QED
      BY <1>1, <1>5, <1>6, <1>7, <1>15, <2>1, WriteShown
  <1>16. ASSUME Crash PROVE Good(w)
    <2>1. up /\ ~up'
      BY <1>16 DEF Crash
    <2> QED
      BY <1>1, <1>5, <1>6, <1>7, <1>16, <2>1, CrashShows
  <1>17. ASSUME Boot PROVE Good(w)
    <2>1. ~up /\ up'
      BY <1>17 DEF Boot
    <2> QED
      BY <1>1, <1>5, <1>6, <1>7, <1>2, <1>17, <2>1, BootShown
  <1>18. ASSUME Damage \/ Repair PROVE Good(w)
    <2>1. ~up /\ ~up' /\ UNCHANGED <<file, ledger, active, logs, excused, now, crashes>>
      BY <1>18 DEF Damage, Repair, memory, ghost
    <2>2. PICK ops, seen : ops = active /\ seen = LoadAuditLedger(ledger)
      OBVIOUS
    <2>3. Views(v, file, <<>>, <<>>, file, seen, ops, logs, excused, now, crashes)
      BY <1>6, <2>1, <2>2 DEF Stopped
    <2>4. Views(w, file, <<>>, <<>>, file, seen, ops, logs, excused, now, crashes)
      BY <1>7, <2>1, <2>2 DEF Stopped
    <2> QED
      BY <1>5, <1>7, <2>3, <2>4, RecordsGo
  <1>19. ASSUME UNCHANGED vars PROVE Good(w)
    <2>1. v = w
      BY <1>3, <1>4, <1>19 DEF View, vars, memory, disk, ghost
    <2> QED
      BY <1>5, <2>1
  <1>20. Good(w)
    BY <1>8, <1>9, <1>11, <1>12, <1>13, <1>14, <1>15, <1>16, <1>17, <1>18, <1>19 DEF Next
  <1>21. OpensOnce(rowQueue')
    <2>1. ASSUME up, NEW o \in Waiters(rowQueue) PROVE o[2] # now + 1
      <3>1. PICK st, own : Marks(v, st, own)
        BY <1>5 DEF Good, Marked
      <3>2. v.opens = Waiters(rowQueue) /\ v.t = now
        BY <1>6, <2>1 DEF Running, Views
      <3>3. PICK t \in Nat : t = now
        BY <1>2 DEF TypeOK
      <3>4. o[2] \in 1..t
        BY <2>1, <3>1, <3>2, <3>3 DEF Marks
      <3> QED
        BY <3>3, <3>4
    <2> QED
      BY <1>2, <2>1, OnceStep DEF ShownInv, InHand
  <1>22. ~up' => DOMAIN active' = {}
    <2>1. CASE Crash
      BY <2>1 DEF Crash, NoKey
    <2>2. CASE Damage \/ Repair \/ UNCHANGED vars
      <3>1. up' = up /\ active' = active
        BY <2>2 DEF Damage, Repair, vars, memory
      <3> QED
        BY <1>2, <3>1
    <2>3. ASSUME \/ \E i \in Ids : Begin(i)
                 \/ \E i \in Ids, s \in Statuses : Settle(i, s)
                 \/ \E i \in Ids, stored \in SUBSET Ids : Persist(i, stored)
                 \/ PruneActive \/ AppendRow \/ AppendFails \/ WriteDetails \/ WriteFails
                 \/ Boot
          PROVE  up'
      <3>1. ASSUME NEW i \in Ids, Begin(i) PROVE up'
        BY <3>1 DEF Begin
      <3>2. ASSUME NEW i \in Ids, NEW s \in Statuses, Settle(i, s) PROVE up'
        BY <3>2 DEF Settle
      <3>3. ASSUME NEW i \in Ids, NEW stored \in SUBSET Ids, Persist(i, stored) PROVE up'
        BY <3>3 DEF Persist
      <3>4. ASSUME PruneActive \/ AppendRow \/ AppendFails \/ WriteDetails \/ WriteFails PROVE up'
        BY <3>4 DEF PruneActive, AppendRow, AppendFails, WriteDetails, WriteFails
      <3>5. Boot => up'
        BY DEF Boot
      <3> QED
        BY <2>3, <3>1, <3>2, <3>3, <3>4, <3>5
    <2> QED
      BY <2>1, <2>2, <2>3 DEF Next
  <1> QED
    BY <1>1, <1>4, <1>20, <1>21, <1>22 DEF ShownInv, InHand

-----------------------------------------------------------------------------
(* What the view says of the list of operations *)

\* What the index and the list show.
Indexes(ix, rows) ==
  /\ \A m \in DOMAIN rows : rows[m].id \in DOMAIN ix
  /\ \A x \in DOMAIN ix : \E p \in DOMAIN rows :
       /\ ix[x] = rows[p] /\ rows[p].id = x
       /\ \A m \in DOMAIN rows :
            (rows[m].id = x /\ rows[m].kind = "terminal") => (rows[p].kind = "terminal" /\ m <= p)

LEMMA IndexIs ==
  ASSUME NEW rows \in Seq(Rows)
  PROVE  Indexes(FoldAuditRows(rows), rows)
  <1>1. IsRows(rows) /\ DOMAIN rows = 1..Len(rows) /\ Len(rows) \in Nat
    BY RowsAreRows, SeqIs
  <1>2. PICK ix : ix = FoldAuditRows(rows)
    OBVIOUS
  <1>3. /\ DOMAIN ix = {rows[n].id : n \in DOMAIN rows}
        /\ \A x \in DOMAIN ix : ix[x] = rows[Greatest(Candidates(rows, x))]
    BY <1>2 DEF FoldAuditRows
  <1>4. ASSUME NEW x \in DOMAIN ix
        PROVE  \E p \in DOMAIN rows :
                 /\ ix[x] = rows[p] /\ rows[p].id = x
                 /\ \A m \in DOMAIN rows :
                      (rows[m].id = x /\ rows[m].kind = "terminal")
                        => (rows[p].kind = "terminal" /\ m <= p)
    <2>1. PICK C : C = Candidates(rows, x)
      OBVIOUS
    <2>2. PICK p : p = Greatest(C)
      OBVIOUS
    <2>3. p \in C
      BY <1>1, <1>3, <2>1, <2>2, CandidateExists
    <2>4. C = {n \in DOMAIN rows :
                 /\ rows[n].id = x
                 /\ rows[n].kind = "start" =>
                      \A m \in DOMAIN rows : rows[m].id = x => rows[m].kind = "start"}
      BY <2>1 DEF Candidates
    <2>5. \A y \in C : p >= y
      <3>1. C \in SUBSET (1..Len(rows)) /\ C # {}
        BY <1>1, <2>3, <2>4
      <3> QED
        BY <1>1, <2>2, <3>1, Maximum
    <2>6. \A m \in DOMAIN rows : rows[m].kind \in {"start", "terminal"}
      BY SeqIs, RowFields
    <2>7. p \in DOMAIN rows /\ rows[p].id = x
      BY <2>3, <2>4
    <2>8. ASSUME NEW m \in DOMAIN rows, rows[m].id = x, rows[m].kind = "terminal"
          PROVE  rows[p].kind = "terminal" /\ m <= p
      <3>1. m \in C
        BY <2>4, <2>8
      <3>2. rows[p].kind # "start"
        BY <2>3, <2>4, <2>8
      <3>3. p >= m /\ p \in Nat /\ m \in Nat
        BY <1>1, <2>5, <2>7, <3>1
      <3>4. m <= p
        BY <3>3
      <3> QED
        BY <2>6, <2>7, <3>2, <3>4
    <2> QED
      BY <1>3, <2>1, <2>2, <2>7, <2>8
  <1>5. Indexes(ix, rows)
    BY <1>3, <1>4 DEF Indexes
  <1> QED
    BY <1>2, <1>5

LEMMA SummariesAre ==
  /\ \A i \in DOMAIN active : <<Live(i), active[i].started>> \in Summaries
  /\ \A x \in DOMAIN index :
       (\A i \in DOMAIN active : Live(i) # x) => <<x, index[x].started>> \in Summaries
  /\ \A e \in Elements(detail) :
       (e.id \notin DOMAIN index /\ \A i \in DOMAIN active : Live(i) # e.id)
         => <<e.id, e.started>> \in Summaries
  /\ \A s \in Summaries :
       \/ \E i \in DOMAIN active : s = <<Live(i), active[i].started>>
       \/ \E x \in DOMAIN index :
            s = <<x, index[x].started>> /\ \A i \in DOMAIN active : Live(i) # x
       \/ \E e \in Elements(detail) :
            s = <<e.id, e.started>> /\ \A i \in DOMAIN active : Live(i) # e.id
  <1> DEFINE A == {<<Live(i), active[i].started>> : i \in DOMAIN active}
             B == {<<x, index[x].started>> : x \in DOMAIN index}
             C == {<<e.id, e.started>> : e \in Elements(detail)}
             Unless(S, T) == {x \in S : \A y \in T : y[1] # x[1]}
  <1>1. Summaries = A \cup Unless(B, A) \cup Unless(C, A \cup B)
    BY DEF Summaries
  <1>2. \A i \in DOMAIN active : <<Live(i), active[i].started>> \in A
    OBVIOUS
  <1>3. ASSUME NEW x \in DOMAIN index, \A i \in DOMAIN active : Live(i) # x
        PROVE  <<x, index[x].started>> \in Unless(B, A)
    <2>1. \A y \in A : y[1] # x
      BY <1>3
    <2> QED
      BY <2>1
  <1>4. ASSUME NEW e \in Elements(detail), e.id \notin DOMAIN index,
               \A i \in DOMAIN active : Live(i) # e.id
        PROVE  <<e.id, e.started>> \in Unless(C, A \cup B)
    <2>1. \A y \in A : y[1] # e.id
      BY <1>4
    <2>2. \A y \in B : y[1] # e.id
      BY <1>4
    <2> QED
      BY <2>1, <2>2
  <1>5. ASSUME NEW s \in Unless(B, A)
        PROVE  \E x \in DOMAIN index :
                 s = <<x, index[x].started>> /\ \A i \in DOMAIN active : Live(i) # x
    <2>1. PICK x \in DOMAIN index : s = <<x, index[x].started>>
      OBVIOUS
    <2>2. \A y \in A : y[1] # x
      BY <2>1
    <2>3. \A i \in DOMAIN active : <<Live(i), active[i].started>>[1] # x
      BY <1>2, <2>2
    <2> QED
      BY <2>1, <2>3
  <1>6. ASSUME NEW s \in Unless(C, A \cup B)
        PROVE  \E e \in Elements(detail) :
                 s = <<e.id, e.started>> /\ \A i \in DOMAIN active : Live(i) # e.id
    <2>1. PICK e \in Elements(detail) : s = <<e.id, e.started>>
      OBVIOUS
    <2>2. \A y \in A : y[1] # e.id
      BY <2>1
    <2>3. \A i \in DOMAIN active : <<Live(i), active[i].started>>[1] # e.id
      BY <1>2, <2>2
    <2> QED
      BY <2>1, <2>3
  <1>7. \A s \in A : \E i \in DOMAIN active : s = <<Live(i), active[i].started>>
    OBVIOUS
  <1> HIDE DEF A, B, C, Unless
  <1> QED
    BY <1>1, <1>2, <1>3, <1>4, <1>5, <1>6, <1>7

\* Two of one archival name are of one operation; two of one operation are of one id.
LEMMA MarksTell ==
  ASSUME NEW t \in Nat, NEW st, NEW own, NEW x, NEW y, Mark(x, t, st, own), Mark(y, t, st, own)
  PROVE  /\ (x.id = y.id /\ ~IsLive(x)) => x.started = y.started
         /\ x.started = y.started => x.id[1] = y.id[1]
  BY DEF Mark, IsLive

\* What is on record, of the view.
LEMMA OnRecord ==
  ASSUME NEW v, Good(v), NEW f, NEW files, NEW rows \in Seq(Appends), NEW d, NEW seen \in Seq(Rows),
         NEW ops, NEW lg, NEW lost, NEW t, NEW n,
         Views(v, f, files, rows, d, seen, ops, lg, lost, t, n)
  PROVE  /\ v.c = Len(seen) /\ Len(seen) \in Nat /\ DOMAIN seen = 1..Len(seen)
         /\ \A m \in DOMAIN seen : m \in DOMAIN v.k /\ v.k[m] = seen[m] /\ seen[m] \in Rows
         /\ \A m \in DOMAIN v.k : m <= v.c => m \in DOMAIN seen
  <1>1. /\ Len(seen) \in Nat /\ Len(rows) \in Nat
        /\ Len(Joined(seen, rows)) = Len(seen) + Len(rows)
        /\ \A m \in 1..Len(seen) + Len(rows) :
             Joined(seen, rows)[m] = IF m <= Len(seen) THEN seen[m] ELSE rows[m - Len(seen)].row
    BY JoinedIs
  <1>2. v.k = Joined(seen, rows) /\ v.c = Len(seen)
    BY DEF Views, Pictures
  <1>3. DOMAIN seen = 1..Len(seen) /\ \A m \in DOMAIN seen : seen[m] \in Rows
    BY SeqIs
  <1>4. DOMAIN v.k = 1..Len(v.k)
    BY ViewTypes DEF Good
  <1> QED
    BY <1>1, <1>2, <1>3, <1>4

\* What a verdict shows, and what a line of the list opens.
Sees(v) ==
  /\ v.d = Elements(detail) /\ v.lost = excused /\ v.lg = logs /\ v.n = crashes /\ v.c = Len(known)
  /\ Len(known) \in Nat /\ DOMAIN known = 1..Len(known)
  /\ \A m \in DOMAIN known : m \in DOMAIN v.k /\ v.k[m] = known[m]
  /\ \A m \in DOMAIN v.k : m <= v.c => m \in DOMAIN known
  /\ \A i \in DOMAIN active : <<i, active[i].started>> \in v.ops

LEMMA SeesIs ==
  ASSUME TypeOK, NEW v, Good(v), Running(v)
  PROVE  Sees(v)
  <1>1. PICK rows \in Seq(Appends), seen \in Seq(Rows) : rows = rowQueue /\ seen = known
    BY DEF TypeOK
  <1>2. Views(v, file, fileQueue, rows, detail, seen, active, logs, excused, now, crashes)
    BY <1>1 DEF Running
  <1>3. /\ v.c = Len(seen) /\ Len(seen) \in Nat /\ DOMAIN seen = 1..Len(seen)
        /\ \A m \in DOMAIN seen : m \in DOMAIN v.k /\ v.k[m] = seen[m] /\ seen[m] \in Rows
        /\ \A m \in DOMAIN v.k : m <= v.c => m \in DOMAIN seen
    BY <1>2, OnRecord
  <1>4. \A i \in DOMAIN active : <<i, active[i].started>> \in v.ops
    BY <1>2 DEF Views, Holders
  <1>5. v.d = Elements(detail) /\ v.lost = excused /\ v.lg = logs /\ v.n = crashes
    BY <1>2 DEF Views, Pictures
  <1> QED
    BY <1>1, <1>3, <1>4, <1>5 DEF Sees

LEMMA VerdictListed ==
  ASSUME NEW v, Good(v), Sees(v), Indexes(index, known),
         NEW m \in DOMAIN known, known[m].kind = "terminal", known[m].started \notin excused
  PROVE  \E s \in Summaries : s[2] = known[m].started
  <1>1. Typed(v)
    BY DEF Good
  <1>2. PICK st, own : Marks(v, st, own)
    BY DEF Good, Marked
  <1>3. v.t \in Nat
    BY <1>1 DEF Typed
  <1>4. PICK o : o = known[m].started
    OBVIOUS
  <1>5. \A k \in DOMAIN known : k \in DOMAIN v.k /\ v.k[k] = known[k] /\ Mark(known[k], v.t, st, own)
    BY <1>2 DEF Sees, Marks
  <1>6. <<v.d, Len(v.k)>> \in v.sh
    BY <1>1 DEF Typed
  <1>7. \A e \in v.d : Mark(e, v.t, st, own)
    <2>1. PICK x \in v.sh : x = <<v.d, Len(v.k)>>
      BY <1>6
    <2>2. x[1] = v.d
      BY <2>1
    <2> QED
      BY <1>2, <2>1, <2>2 DEF Marks
  <1>8. \A s, b : <<s, b>>[2] = b
    OBVIOUS
  <1>9. ASSUME NEW x, ~IsLive(x), Mark(x, v.t, st, own), x.started = o, x.id \in DOMAIN index
        PROVE  \E s \in Summaries : s[2] = o
    <2>1. PICK p \in DOMAIN known : index[x.id] = known[p] /\ known[p].id = x.id
      BY <1>9 DEF Indexes
    <2>2. known[p].started = o
      BY <1>3, <1>5, <1>9, <2>1, MarksTell
    <2>3. \A i \in DOMAIN active : Live(i) # x.id
      BY <1>9 DEF Live, IsLive
    <2>4. <<x.id, index[x.id].started>> \in Summaries
      BY <1>9, <2>3, SummariesAre
    <2> QED
      BY <1>8, <2>1, <2>2, <2>4
  <1>10. ASSUME NEW k \in DOMAIN known, ~IsLive(known[k]), known[k].started = o
         PROVE  \E s \in Summaries : s[2] = o
    <2>1. known[k].id \in DOMAIN index
      BY DEF Indexes
    <2> QED
      BY <1>5, <1>9, <1>10, <2>1
  <1>11. ASSUME NEW e \in v.d, e.started = o, ~IsLive(e)
         PROVE  \E s \in Summaries : s[2] = o
    <2>1. CASE e.id \in DOMAIN index
      BY <1>7, <1>9, <1>11, <2>1
    <2>2. CASE e.id \notin DOMAIN index
      <3>1. \A i \in DOMAIN active : Live(i) # e.id
        BY <1>11 DEF Live, IsLive
      <3>2. <<e.id, e.started>> \in Summaries
        BY <2>2, <3>1, SummariesAre DEF Sees
      <3> QED
        BY <1>8, <1>11, <3>2
    <2> QED
      BY <2>1, <2>2
  <1>12. CASE ~IsLive(known[m])
    BY <1>4, <1>10, <1>12
  <1>13. CASE IsLive(known[m])
    <2>1. IsVerdict(v.k[m]) /\ m \in DOMAIN v.k /\ v.k[m] = known[m] /\ o \notin v.lost
      BY <1>4, <1>5, <1>13 DEF IsVerdict, Sees
    <2>2. PICK e \in v.d : e.started = o
      BY <1>4, <2>1 DEF Good, Stored, IsVerdict
    <2>3. CASE ~IsLive(e)
      BY <1>4, <1>11, <2>2, <2>3
    <2>4. CASE IsLive(e)
      <3>1. PICK i : i = e.id[1]
        OBVIOUS
      <3>2. e.id = Live(i) /\ known[m].id = Live(i)
        <4>1. e \in Entries
          BY <1>1 DEF Typed
        <4>2. e.id = <<e.id[1], e.id[2]>>
          BY <1>1, <4>1, ViewTypes
        <4>3. v.k[m].id = <<v.k[m].id[1], v.k[m].id[2]>>
          BY <1>1, <2>1, ViewTypes
        <4>4. known[m].id[1] = e.id[1]
          BY <1>3, <1>4, <1>5, <1>7, <2>2, MarksTell
        <4> QED
          BY <1>13, <2>1, <2>4, <3>1, <4>2, <4>3, <4>4 DEF IsLive, Live
      <3>3. CASE i \in DOMAIN active
        <4>1. PICK w \in v.ops : w = <<i, active[i].started>>
          BY <3>3 DEF Sees
        <4>2. w[1] = i /\ w[2] = active[i].started
          BY <4>1
        <4>3. e.started = w[2]
          BY <2>1, <2>2, <3>2, <4>2 DEF Good, OwnDetail
        <4>4. <<Live(i), active[i].started>> \in Summaries
          BY <3>3, SummariesAre
        <4> QED
          BY <1>4, <1>8, <2>2, <4>2, <4>3, <4>4
      <3>4. CASE i \notin DOMAIN active
        <4>1. PICK x : x = Live(i)
          OBVIOUS
        <4>2. x \in DOMAIN index
          BY <3>2, <4>1 DEF Indexes
        <4>3. PICK p \in DOMAIN known :
                index[x] = known[p] /\ known[p].id = x /\ known[p].kind = "terminal" /\ m <= p
          BY <3>2, <4>1, <4>2 DEF Indexes
        <4>4. \A j \in DOMAIN active : Live(j) # x
          BY <3>4, <4>1 DEF Live
        <4>5. <<x, index[x].started>> \in Summaries
          BY <4>2, <4>4, SummariesAre
        <4>6. CASE known[p].started = o
          BY <1>4, <1>8, <4>3, <4>5, <4>6
        <4>7. CASE known[p].started # o
          <5>1. v.k[p] = known[p] /\ p \in DOMAIN v.k /\ IsVerdict(v.k[p]) /\ v.k[m].id = v.k[p].id
            BY <1>5, <2>1, <3>2, <4>1, <4>3 DEF IsVerdict, IsLive, Live
          <5>2. m < p
            <6>1. m \in Nat /\ p \in Nat /\ m # p
              BY <1>4, <4>7 DEF Sees
            <6> QED
              BY <4>3, <6>1
          <5>3. v.k[m].started < v.k[p].started
            <6>2. v.k[m].started <= v.k[p].started
              BY <1>4, <2>1, <5>1, <5>2 DEF Good, Ascends, By, IsVerdict
            <6>3. v.k[m].started \in Nat /\ v.k[p].started \in Nat
              BY <1>1, <2>1, <5>1, ViewTypes
            <6>4. v.k[m].started # v.k[p].started
              BY <1>4, <2>1, <4>7, <5>1
            <6> QED
              BY <6>2, <6>3, <6>4
          <5>4. Shelved(v, o) \/ Filed(v, m, p)
            BY <1>4, <2>1, <5>1, <5>3, <5>2 DEF Good, Split
          <5>5. CASE Shelved(v, o)
            <6>1. Named(v.d, o)
              <7>1. PICK y \in v.sh : y = <<v.d, Len(v.k)>>
                BY <1>6
              <7>2. y[1] = v.d
                BY <7>1
              <7> QED
                BY <5>5, <7>2 DEF Shelved
            <6>2. PICK g \in v.d : g.started = o /\ ~IsLive(g)
              BY <2>2, <6>1 DEF Named
            <6> QED
              BY <1>4, <1>11, <6>2
          <5>6. CASE Filed(v, m, p)
            <6>1. PICK k \in DOMAIN v.k :
                    m < k /\ k < p /\ ~IsLive(v.k[k]) /\ v.k[k].started = o
              BY <1>4, <2>1, <5>6 DEF Filed
            <6>2. k \in DOMAIN known
              <7>1. k \in Nat
                BY <1>1, ViewTypes
              <7>2. p \in Nat /\ p <= v.c /\ v.c \in Nat
                BY DEF Sees
              <7>3. k <= v.c
                BY <6>1, <7>1, <7>2
              <7> QED
                BY <7>3 DEF Sees
            <6> QED
              BY <1>4, <1>5, <1>10, <6>1, <6>2
          <5> QED
            BY <5>4, <5>5, <5>6
        <4> QED
          BY <4>6, <4>7
      <3> QED
        BY <3>3, <3>4
    <2> QED
      BY <1>4, <2>3, <2>4
  <1> QED
    BY <1>12, <1>13

LEMMA LineOpens ==
  ASSUME TypeOK, Sound(detail, now), NEW v, Good(v), Sees(v), Indexes(index, known),
         NEW s \in Summaries
  PROVE  \/ TransactionLog(s[1]) \in {s[2], NoRecord}
         \/ crashes > 0 /\ TransactionLog(s[1]) \in 1..s[2]
         \/ TransactionLog(s[1]) \in excused
  <1>1. Typed(v)
    BY DEF Good
  <1>2. PICK st, own : Marks(v, st, own)
    BY DEF Good, Marked
  <1>3. v.t \in Nat
    BY <1>1 DEF Typed
  <1>4. \A k \in DOMAIN known : k \in DOMAIN v.k /\ v.k[k] = known[k] /\ Mark(known[k], v.t, st, own)
    BY <1>2 DEF Sees, Marks
  <1>5. \A e \in v.d : Mark(e, v.t, st, own)
    <2>1. PICK x \in v.sh : x = <<v.d, Len(v.k)>>
      BY <1>1 DEF Typed
    <2>2. x[1] = v.d
      BY <2>1
    <2> QED
      BY <1>2, <2>1, <2>2 DEF Marks
  <1>6. ASSUME NEW x
        PROVE  \/ Position(detail, x) = 0 /\ \A k \in DOMAIN detail : detail[k].id # x
               \/ /\ Position(detail, x) # 0 /\ Position(detail, x) \in DOMAIN detail
                  /\ detail[Position(detail, x)].id = x
    <2>1. IsSeq(detail)
      BY ElementsSeq DEF TypeOK
    <2> QED
      BY <2>1, PositionOf
  <1>7. ASSUME NEW i \in DOMAIN active, s = <<Live(i), active[i].started>>
        PROVE  TransactionLog(s[1]) \in {s[2], NoRecord}
    <2>1. i \in logs
      <3>1. PICK w \in v.ops : w = <<i, active[i].started>>
        BY DEF Sees
      <3>2. w[1] = i
        BY <3>1
      <3> QED
        BY <3>2 DEF Good, Listed, Sees
    <2>2. s[1] = Live(i) /\ s[2] = active[i].started /\ Live(i)[1] = i
      BY <1>7 DEF Live
    <2>3. TransactionLog(Live(i)) = active[i].started
      BY <2>1, <2>2 DEF TransactionLog
    <2> QED
      BY <2>2, <2>3
  <1>8. ASSUME NEW x, \A i \in DOMAIN active : Live(i) # x, x[1] \in logs, x = Live(x[1])
        PROVE  TransactionLog(x) = NoRecord
    <2>1. x[1] \notin DOMAIN active
      BY <1>8
    <2> QED
      BY <1>8, <2>1 DEF TransactionLog
  <1>9. ASSUME NEW x \in DOMAIN index, s = <<x, index[x].started>>,
               \A i \in DOMAIN active : Live(i) # x
        PROVE  \/ TransactionLog(s[1]) \in {s[2], NoRecord}
               \/ crashes > 0 /\ TransactionLog(s[1]) \in 1..s[2]
               \/ TransactionLog(s[1]) \in excused
    <2>1. s[1] = x /\ s[2] = index[x].started
      BY <1>9
    <2>2. CASE x[1] \in logs /\ x = Live(x[1])
      BY <1>8, <1>9, <2>1, <2>2
    <2>3. CASE ~(x[1] \in logs /\ x = Live(x[1])) /\ Position(detail, x) = 0
      BY <2>1, <2>3 DEF TransactionLog
    <2>4. CASE ~(x[1] \in logs /\ x = Live(x[1])) /\ Position(detail, x) # 0
      <3>1. PICK e : e = detail[Position(detail, x)]
        OBVIOUS
      <3>2. e \in v.d /\ e.id = x
        BY <1>6, <2>4, <3>1 DEF Sees, Elements
      <3>3. TransactionLog(x) = e.started
        BY <2>4, <3>1 DEF TransactionLog
      <3>4. PICK p \in DOMAIN known :
              /\ index[x] = known[p] /\ known[p].id = x
              /\ \A m \in DOMAIN known :
                   (known[m].id = x /\ known[m].kind = "terminal") => m <= p
        BY <1>9 DEF Indexes
      <3>5. CASE ~IsLive(e)
        <4>1. e.started = known[p].started
          BY <1>3, <1>4, <1>5, <3>2, <3>4, <3>5, MarksTell
        <4> QED
          BY <2>1, <3>3, <3>4, <4>1
      <3>6. CASE IsLive(e)
        <4>1. e \in Entries /\ e.id = <<e.id[1], e.id[2]>>
          <5>1. e \in Entries
            BY <1>1, <3>2 DEF Typed
          <5> QED
            BY <1>1, <5>1, ViewTypes
        <4>2. x = Live(x[1]) /\ x[1] = e.id[1] /\ x[1] \notin logs
          <5>1. x = Live(x[1])
            BY <3>2, <3>6, <4>1 DEF IsLive, Live
          <5> QED
            BY <2>4, <3>2, <5>1
        <4>3. p \in DOMAIN v.k /\ v.k[p] = known[p] /\ IsLive(v.k[p]) /\ v.k[p].id[1] = e.id[1]
          BY <1>4, <3>2, <3>4, <3>6 DEF IsLive
        <4>4. known[p].started \in Nat /\ e.started \in Nat /\ e.started >= 1
          <5>1. e.started \in 1..v.t
            BY <1>5, <3>2 DEF Mark
          <5>2. known[p].started \in 1..v.t
            BY <1>4 DEF Mark
          <5> QED
            BY <1>3, <5>1, <5>2
        <4>5. CASE crashes = 0
          <5>1. v.k[p].started = e.started
            BY <3>2, <3>6, <4>2, <4>3, <4>5 DEF Good, OneSoFar, Sees
          <5> QED
            BY <2>1, <3>3, <3>4, <4>3, <5>1
        <4>6. CASE crashes # 0
          <5>1. crashes > 0
            BY <4>6 DEF TypeOK
          <5>2. e.started \in v.lost \/ Told1(v, v.c, e)
            BY <3>2, <3>6, <4>2 DEF Good, ToldInStore, Sees
          <5>3. CASE e.started \in v.lost
            BY <2>1, <3>3, <5>3 DEF Sees
          <5>4. CASE Told1(v, v.c, e)
            <6>1. ~(known[p].started < e.started)
              <7> SUFFICES ASSUME known[p].started < e.started PROVE FALSE
                OBVIOUS
              <7>1. PICK n \in DOMAIN v.k :
                      p < n /\ n <= v.c /\ IsVerdict(v.k[n]) /\ v.k[n].started = e.started
                BY <4>3, <5>4 DEF Told1
              <7>2. n \in DOMAIN known /\ v.k[n] = known[n]
                BY <1>4, <7>1 DEF Sees
              <7>3. known[n].id[1] = e.id[1]
                BY <1>3, <1>4, <1>5, <3>2, <7>1, <7>2, MarksTell
              <7>4. v.k[n].id = <<v.k[n].id[1], v.k[n].id[2]>>
                BY <1>1, <7>1, ViewTypes
              <7>5. known[n].id = x /\ known[n].kind = "terminal"
                BY <4>2, <7>1, <7>2, <7>3, <7>4 DEF IsVerdict, IsLive, Live
              <7>6. n <= p
                BY <3>4, <7>2, <7>5
              <7>7. n \in Nat /\ p \in Nat
                BY <7>2 DEF Sees
              <7> QED
                BY <7>1, <7>6, <7>7
            <6>2. e.started \in 1..known[p].started
              BY <4>4, <6>1
            <6> QED
              BY <2>1, <3>3, <3>4, <5>1, <6>2
          <5> QED
            BY <5>2, <5>3, <5>4
        <4> QED
          BY <4>5, <4>6
      <3> QED
        BY <3>5, <3>6
    <2> QED
      BY <2>2, <2>3, <2>4
  <1>10. ASSUME NEW e \in Elements(detail), s = <<e.id, e.started>>,
                \A i \in DOMAIN active : Live(i) # e.id
         PROVE  TransactionLog(s[1]) \in {s[2], NoRecord}
    <2>1. s[1] = e.id /\ s[2] = e.started
      BY <1>10
    <2>2. CASE e.id[1] \in logs /\ e.id = Live(e.id[1])
      BY <1>8, <1>10, <2>1, <2>2
    <2>3. CASE ~(e.id[1] \in logs /\ e.id = Live(e.id[1]))
      <3>1. PICK k \in DOMAIN detail : detail[k] = e
        BY DEF Elements
      <3>2. PICK q : q = Position(detail, e.id)
        OBVIOUS
      <3>3. q # 0 /\ q \in DOMAIN detail /\ detail[q].id = e.id
        BY <1>6, <3>1, <3>2
      <3>4. q = k
        BY <3>1, <3>3 DEF Sound
      <3>5. TransactionLog(e.id) = e.started
        BY <2>3, <3>1, <3>2, <3>3, <3>4 DEF TransactionLog
      <3> QED
        BY <2>1, <3>5
    <2> QED
      BY <2>2, <2>3
  <1>11. \/ \E i \in DOMAIN active : s = <<Live(i), active[i].started>>
         \/ \E x \in DOMAIN index :
              s = <<x, index[x].started>> /\ \A i \in DOMAIN active : Live(i) # x
         \/ \E e \in Elements(detail) :
              s = <<e.id, e.started>> /\ \A i \in DOMAIN active : Live(i) # e.id
    BY SummariesAre
  <1> QED
    BY <1>7, <1>9, <1>10, <1>11

LEMMA NothingShown ==
  ASSUME ShownInv, IndexIsFold, ~up
  PROVE  EveryVerdictShown
  <1>1. known = <<>> /\ detail = <<>> /\ DOMAIN active = {}
    BY DEF ShownInv, InHand, FitInv, LedgerInv, FileInv, Latched
  <1>2. index = NoKey
    BY <1>1, EmptyIndex DEF IndexIsFold
  <1>3. DOMAIN index = {}
    BY <1>2 DEF NoKey
  <1>4. Elements(known) = {} /\ Elements(detail) = {}
    BY <1>1, EmptyElements
  <1>5. Summaries = {}
    BY <1>1, <1>3, <1>4, SummariesAre
  <1> QED
    BY <1>4, <1>5 DEF EveryVerdictShown

LEMMA ShownEnough == ShownInv /\ IndexIsFold => EveryVerdictShown
  <1> SUFFICES ASSUME ShownInv, IndexIsFold PROVE EveryVerdictShown
    OBVIOUS
  <1>1. CASE ~up
    BY <1>1, NothingShown
  <1>2. CASE up
    <2>1. TypeOK /\ Sound(detail, now)
      BY DEF ShownInv, FitInv, FileInv, InLine, AllSound
    <2>2. PICK v : v = View
      OBVIOUS
    <2>3. Good(v)
      BY <2>2 DEF ShownInv
    <2>4. Running(v)
      <3>1. ledger \in Ledgers /\ Records(active)
        BY <2>1 DEF TypeOK, Ledgers, Records
      <3>2. up => Views(v, file, fileQueue, rowQueue, detail, known, active, logs, excused, now, crashes)
        BY <2>1, <2>2, <3>1, ViewAt DEF View, TypeOK
      <3> QED
        BY <1>2, <3>2 DEF Running
    <2>5. Sees(v)
      BY <2>1, <2>3, <2>4, SeesIs
    <2>6. Indexes(index, known)
      <3>1. known \in Seq(Rows)
        BY <2>1 DEF TypeOK
      <3>2. Indexes(FoldAuditRows(known), known)
        BY <3>1, IndexIs
      <3> QED
        BY <3>2 DEF IndexIsFold
    <2>7. ASSUME NEW r \in Elements(known), r.kind = "terminal", r.started \notin excused
          PROVE  \E s \in Summaries : s[2] = r.started
      <3>1. PICK m \in DOMAIN known : r = known[m]
        BY DEF Elements
      <3> QED
        BY <2>3, <2>5, <2>6, <2>7, <3>1, VerdictListed
    <2>8. ASSUME NEW s \in Summaries
          PROVE  \/ TransactionLog(s[1]) \in {s[2], NoRecord}
                 \/ crashes > 0 /\ TransactionLog(s[1]) \in 1..s[2]
                 \/ TransactionLog(s[1]) \in excused
      BY <2>1, <2>3, <2>5, <2>6, LineOpens
    <2> QED
      BY <2>7, <2>8 DEF EveryVerdictShown
  <1> QED
    BY <1>1, <1>2

\* A verdict on record stays in the list when its id is used again, crash or no crash,
\* unless an append failed for it, its detail had left the store, or it was persisted
\* once more while it was archived; and what is listed opens what it listed, or after a
\* crash an earlier operation of the id (getTransferSummaries, handleGetTransactionLog).
THEOREM VerdictsShown == Spec => []EveryVerdictShown
  <1>1. Spec => []ShownInv
    BY ShownInit, ShownStep, PTL DEF Spec
  <1>2. Spec => []IndexIsFold
    BY IndexAgrees
  <1> QED
    BY <1>1, <1>2, ShownEnough, PTL
=============================================================================

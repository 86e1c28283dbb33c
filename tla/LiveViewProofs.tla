--------------------------- MODULE LiveViewProofs ---------------------------
(* Theorems of LiveView. *)
EXTENDS LiveView, FiniteSetTheorems, SequenceTheorems, TLAPS

USE DEF vars, game, server, queues, client

-----------------------------------------------------------------------------
(* Sequences *)

LEMMA Elements ==
  ASSUME NEW S, NEW q \in Seq(S)
  PROVE  Len(q) \in Nat /\ DOMAIN q = 1..Len(q) /\ \A n \in DOMAIN q : q[n] \in S
  OBVIOUS

LEMMA AppendTo ==
  ASSUME NEW S, NEW q \in Seq(S), NEW e \in S, NEW r, r = Append(q, e)
  PROVE  /\ r \in Seq(S) /\ Len(q) \in Nat
         /\ DOMAIN r = 1..(Len(q) + 1) /\ DOMAIN q = 1..Len(q)
         /\ r[Len(q) + 1] = e /\ \A n \in DOMAIN q : r[n] = q[n]
  OBVIOUS

LEMMA TailFrom ==
  ASSUME NEW S, NEW q \in Seq(S), NEW r, q # <<>>, r = Tail(q)
  PROVE  /\ r \in Seq(S) /\ Len(q) \in Nat /\ Len(q) >= 1 /\ 1 \in DOMAIN q /\ Head(q) = q[1]
         /\ DOMAIN r = 1..(Len(q) - 1) /\ DOMAIN q = 1..Len(q) /\ Head(q) \in S
         /\ \A n \in DOMAIN r : r[n] = q[n + 1]
  OBVIOUS

LEMMA Joined ==
  ASSUME NEW S, NEW q \in Seq(S), NEW e \in Seq(S), NEW r, r = q \o e
  PROVE  /\ r \in Seq(S) /\ Len(q) \in Nat /\ Len(e) \in Nat
         /\ DOMAIN r = 1..(Len(q) + Len(e)) /\ DOMAIN q = 1..Len(q) /\ DOMAIN e = 1..Len(e)
         /\ \A n \in DOMAIN r : /\ n <= Len(q) => r[n] = q[n]
                                /\ n > Len(q) => n - Len(q) \in DOMAIN e /\ r[n] = e[n - Len(q)]
  BY ConcatProperties

\* The sequence without its n-th element.
LEMMA Removed ==
  ASSUME NEW S, NEW q \in Seq(S), NEW n \in DOMAIN q
  PROVE  \E r :
           /\ r = SubSeq(q, 1, n - 1) \o SubSeq(q, n + 1, Len(q))
           /\ r \in Seq(S) /\ Len(q) \in Nat
           /\ DOMAIN r = 1..(Len(q) - 1) /\ DOMAIN q = 1..Len(q)
           /\ \A k \in DOMAIN r : /\ k < n => r[k] = q[k]
                                  /\ k >= n => k + 1 \in DOMAIN q /\ r[k] = q[k + 1]
  <1>1. PICK L \in Nat : L = Len(q) /\ DOMAIN q = 1..L /\ n \in Nat /\ n >= 1 /\ n <= L
    OBVIOUS
  <1>2. PICK a : a = SubSeq(q, 1, n - 1)
    OBVIOUS
  <1>3. PICK b : b = SubSeq(q, n + 1, L)
    OBVIOUS
  <1>r. PICK r : r = a \o b
    OBVIOUS
  <1>4. \A k \in 1..L : q[k] \in S
    BY <1>1
  <1>5. a \in Seq(S) /\ Len(a) = n - 1 /\ \A k \in 1..n - 1 : a[k] = q[k]
    <2>1. \A k \in 1..n - 1 : q[k] \in S
      BY <1>1, <1>4
    <2>2. /\ a \in Seq(S) /\ Len(a) = IF 1 <= n - 1 THEN (n - 1) - 1 + 1 ELSE 0
          /\ \A k \in 1..(n - 1) - 1 + 1 : a[k] = q[1 + k - 1]
      BY <1>1, <1>2, <2>1, SubSeqProperties
    <2> QED
      BY <1>1, <2>2
  <1>6. b \in Seq(S) /\ Len(b) = L - n /\ \A k \in 1..L - n : b[k] = q[k + n]
    <2>1. \A k \in n + 1..L : q[k] \in S
      BY <1>1, <1>4
    <2>2. /\ b \in Seq(S) /\ Len(b) = IF n + 1 <= L THEN L - (n + 1) + 1 ELSE 0
          /\ \A k \in 1..L - (n + 1) + 1 : b[k] = q[(n + 1) + k - 1]
      BY <1>1, <1>3, <2>1, SubSeqProperties
    <2>3. L - (n + 1) + 1 = L - n /\ (n + 1 > L => L - n = 0)
      BY <1>1
    <2>4. ASSUME NEW k \in 1..L - n PROVE b[k] = q[k + n]
      <3>1. (n + 1) + k - 1 = k + n
        BY <1>1
      <3>2. b[k] = q[(n + 1) + k - 1]
        BY <2>2, <2>3
      <3> QED
        BY <3>1, <3>2
    <2> QED
      BY <2>2, <2>3, <2>4
  <1>7. /\ r \in Seq(S) /\ Len(r) = L - 1
        /\ \A k \in 1..L - 1 : r[k] = IF k < n THEN q[k] ELSE q[k + 1]
    <2>0. n \in Nat /\ n >= 1 /\ n <= L
      BY <1>1
    <2>1. /\ r \in Seq(S) /\ Len(r) = L - 1
          /\ \A k \in 1..L - 1 : r[k] = IF k <= n - 1 THEN a[k] ELSE b[k - (n - 1)]
      <3>1. /\ r \in Seq(S) /\ Len(r) = Len(a) + Len(b)
            /\ \A k \in 1..Len(a) + Len(b) : r[k] = IF k <= Len(a) THEN a[k] ELSE b[k - Len(a)]
        BY <1>5, <1>6, <1>r, ConcatProperties
      <3>2. Len(a) + Len(b) = L - 1
        BY <1>5, <1>6, <2>0
      <3> QED
        BY <1>5, <3>1, <3>2
    <2>2. ASSUME NEW k \in 1..L - 1, k >= n PROVE r[k] = q[k + 1]
      <3>1. PICK j \in Int : j = k - (n - 1)
        BY <2>0
      <3>2. r[k] = b[j] /\ j \in 1..L - n /\ j + n = k + 1
        BY <2>0, <2>1, <2>2, <3>1
      <3> QED
        BY <1>6, <3>2
    <2> QED
      BY <1>5, <2>0, <2>1, <2>2
  <1>8. DOMAIN r = 1..(L - 1)
    BY <1>7
  <1>9. /\ r \in Seq(S) /\ Len(q) \in Nat /\ DOMAIN r = 1..(Len(q) - 1) /\ DOMAIN q = 1..Len(q)
        /\ \A k \in DOMAIN r : /\ k < n => r[k] = q[k]
                               /\ k >= n => k + 1 \in DOMAIN q /\ r[k] = q[k + 1]
    BY <1>1, <1>7, <1>8
  <1>10. r = SubSeq(q, 1, n - 1) \o SubSeq(q, n + 1, Len(q))
    BY <1>1, <1>2, <1>3, <1>r
  <1> QED
    BY <1>9, <1>10, Zenon

\* A sequence defined on the domain of another.
LEMMA MapOf ==
  ASSUME NEW S, NEW T, NEW q \in Seq(S), NEW r, DOMAIN r = DOMAIN q,
         r = [n \in DOMAIN q |-> r[n]], \A n \in DOMAIN q : r[n] \in T
  PROVE  r \in Seq(T) /\ Len(q) \in Nat /\ DOMAIN q = 1..Len(q) /\ DOMAIN r = 1..Len(q)
  <1>1. Len(q) \in Nat /\ DOMAIN q = 1..Len(q)
    OBVIOUS
  <1>2. r \in [1..Len(q) -> T]
    BY <1>1
  <1> QED
    BY <1>1, <1>2

-----------------------------------------------------------------------------
(* Types *)

Messages == TreeEvents \cup TransferEvents \cup Logs \cup Answers

GameTyped ==
  /\ world \in [Instances -> Nat] /\ host \in [Instances -> {"up", "dropped", "lost"}]
  /\ status \in [Transfers -> Nat] /\ mounted \in BOOLEAN /\ mayViewLogs \in BOOLEAN
  /\ mounts \in Nat /\ faults \in Nat
ServerTyped ==
  /\ active \subseteq Transfers /\ IsFiniteSet(active) /\ due \in BOOLEAN
  /\ builds \in Seq(Builds) /\ subscription \in Subscriptions /\ replies \subseteq Answers
  /\ treeRevision \in Nat /\ transferRevision \in Nat /\ logRevision \in Nat
LinkTyped ==
  /\ link \in {"up", "dropped", "lost"} /\ up \in Seq(Requests) /\ down \in Seq(Messages)
Pages == [tree : Trees, summaries : [Transfers -> Nat], lastTree : Nat, lastTransfer : Nat,
          lastLog : Nat, canViewLogs : BOOLEAN, live : LiveStatuses]
Events == {"none", "connect", "drop", "resume", "close"}
PageTyped ==
  /\ page \in Pages /\ syncs \in [Slots -> Syncs] /\ lastEvent \in Events
  /\ generation \in Nat /\ timer \in BOOLEAN

\* A controller has finitely many active transfers; the rest is TypeOK.
Typed == GameTyped /\ ServerTyped /\ LinkTyped /\ PageTyped
SeenTyped == opened \subseteq Logs /\ told \subseteq Transfers /\ missed \subseteq Transfers

LEMMA TypedIsTypeOK == Typed /\ SeenTyped => TypeOK
  BY DEF Typed, SeenTyped, GameTyped, ServerTyped, LinkTyped, PageTyped, TypeOK, Messages, Pages,
     Events

LEMMA SlotsAreNat == Slots \subseteq Nat /\ Slots # {} /\ IsFiniteSet(Slots)
  BY LiveViewAssumption

LEMMA IdleIs == Idle \in Syncs /\ Idle.step = "idle" /\ Idle.enable = FALSE /\ Idle.touched = {}
  BY DEF Idle, Syncs, Trees, Offline

LEMMA SubscriptionIs ==
  /\ None \in Subscriptions /\ None.tree = FALSE /\ None.transfers = FALSE /\ None.logs = FALSE
  /\ \A e, l \in BOOLEAN : [tree |-> e, transfers |-> e, logs |-> l] \in Subscriptions
  BY DEF None, Subscriptions

AnswerKinds == {"ok", "denied", "error", "fetchError", "treeAnswer", "listAnswer"}

\* What a message of each kind carries.
LEMMA MessageIs ==
  ASSUME NEW m \in Messages
  PROVE  /\ m.kind \in {"tree", "transfer", "log", "opened", "ok", "denied", "error",
                        "fetchError", "treeAnswer", "listAnswer"}
         /\ m.kind \in AnswerKinds => m.id \in Slots
         /\ m.kind \in {"tree", "treeAnswer"} => m.revision \in Nat /\ m.tree \in Trees
         /\ m.kind \in {"transfer", "log"} =>
              m.revision \in Nat /\ m.t \in Transfers /\ m.v \in Nat
         /\ m.kind = "opened" => m.t \in Transfers /\ m.v \in Nat
         /\ m.kind = "listAnswer" => m.list \in [Transfers -> Nat]
  <1>1. CASE m \in TreeEvents
    BY <1>1 DEF TreeEvents, AnswerKinds
  <1>2. CASE m \in TransferEvents
    BY <1>2 DEF TransferEvents, AnswerKinds
  <1>3. CASE m \in [kind : {"ok", "denied", "error", "fetchError"}, id : Slots]
    BY <1>3 DEF AnswerKinds
  <1>4. CASE m \in [kind : {"treeAnswer"}, id : Slots, revision : Nat, tree : Trees]
    BY <1>4 DEF AnswerKinds
  <1>5. CASE m \in [kind : {"listAnswer"}, id : Slots, list : [Transfers -> Nat]]
    BY <1>5 DEF AnswerKinds
  <1>6. CASE m \in Logs
    BY <1>6 DEF Logs, AnswerKinds
  <1> QED
    BY <1>1, <1>2, <1>3, <1>4, <1>5, <1>6 DEF Messages, Answers

\* The answer of a list names its synchronisation and tells of every transfer.
LEMMA ListAnswerIs ==
  ASSUME NEW m \in Messages, m.kind = "listAnswer"
  PROVE  m.id \in Slots /\ m.list \in [Transfers -> Nat]
  <1>1. m.kind \in AnswerKinds
    BY DEF AnswerKinds
  <1>2. m.id \in Slots
    BY <1>1, MessageIs
  <1>3. m.list \in [Transfers -> Nat]
    BY MessageIs
  <1> QED
    BY <1>2, <1>3

LEMMA RequestIs ==
  ASSUME NEW r \in Requests
  PROVE  /\ r.kind \in {"subscribe", "tree", "list"} /\ r.id \in Slots
         /\ r.kind = "subscribe" => r.enable \in BOOLEAN /\ r.logs \in BOOLEAN
  BY DEF Requests

LEMMA NewMessages ==
  ASSUME NEW s \in Slots
  PROVE  /\ \A k \in {"ok", "denied", "error", "fetchError"} : [kind |-> k, id |-> s] \in Answers
         /\ \A n \in Nat, t \in Trees :
              /\ [kind |-> "treeAnswer", id |-> s, revision |-> n, tree |-> t] \in Answers
              /\ [kind |-> "tree", revision |-> n, tree |-> t] \in TreeEvents
         /\ \A l \in [Transfers -> Nat] :
              [kind |-> "listAnswer", id |-> s, list |-> l] \in Answers
         /\ \A k \in {"transfer", "log"}, n \in Nat, t \in Transfers, v \in Nat :
              [kind |-> k, revision |-> n, t |-> t, v |-> v] \in TransferEvents
         /\ \A k \in {"tree", "list"} : [kind |-> k, id |-> s] \in Requests
         /\ \A e, l \in BOOLEAN :
              [kind |-> "subscribe", id |-> s, enable |-> e, logs |-> l] \in Requests
  BY DEF Answers, TreeEvents, TransferEvents, Requests

-----------------------------------------------------------------------------
(* Answers: a synchronisation awaits one at a time, and it is in one place. *)

\* An answer is asked for, being built, computed or on its way: a token of each.
Awaited(q)   == {n \in DOMAIN q : q[n].for \in {"subscribe", "fetch"}}
Answering(q) == {n \in DOMAIN q : q[n].kind \in AnswerKinds}
Token(place, i, k) == [at |-> place, id |-> i, kind |-> k]
Asked(q)    == {Token("up", q[n].id, q[n].kind) : n \in DOMAIN q}
Computed(q) == {Token("builds", q[n].id, q[n].for) : n \in Awaited(q)}
Ready(r)    == {Token("replies", x.id, x.kind) : x \in r}
Sent(q)     == {Token("down", q[n].id, q[n].kind) : n \in Answering(q)}
Waiting     == Asked(up) \cup Computed(builds) \cup Ready(replies) \cup Sent(down)

OnceAsked(q)    == \A n, k \in DOMAIN q : q[n].id = q[k].id => n = k
OnceComputed(q) == \A n, k \in Awaited(q) : q[n].id = q[k].id => n = k
OnceReady(r)    == \A x, y \in r : x.id = y.id => x = y
OnceSent(q)     == \A n, k \in Answering(q) : q[n].id = q[k].id => n = k

\* The steps of a synchronisation that may await it.
Steps(k) ==
  IF k \in {"subscribe", "ok", "denied", "error"} THEN {"subscribe", "plain"}
  ELSE IF k \in {"tree", "fetch", "treeAnswer"} THEN {"tree"}
  ELSE IF k = "fetchError" THEN {"tree", "list"} ELSE {"list"}

Alone(tokens) == \A a, b \in tokens : a.id = b.id => a = b
Fit(tokens, table) == \A a \in tokens : a.id \in Slots /\ table[a.id].step \in Steps(a.kind)

OneAnswer ==
  /\ OnceAsked(up) /\ OnceComputed(builds) /\ OnceReady(replies) /\ OnceSent(down)
  /\ Alone(Waiting) /\ Fit(Waiting, syncs)
  /\ \A x \in replies : x.kind = "listAnswer"
  /\ link = "lost" => replies = {} /\ Awaited(builds) = {}

LEMMA TokenIs ==
  ASSUME NEW place, NEW i, NEW k
  PROVE  /\ Token(place, i, k).at = place /\ Token(place, i, k).id = i
         /\ Token(place, i, k).kind = k
  BY DEF Token

\* Where a token is, it says.
LEMMA PlacesAre ==
  ASSUME NEW a
  PROVE  /\ \A q : a \in Asked(q) => a.at = "up"
         /\ \A q : a \in Computed(q) => a.at = "builds"
         /\ \A r : a \in Ready(r) => a.at = "replies"
         /\ \A q : a \in Sent(q) => a.at = "down"
  BY TokenIs DEF Asked, Computed, Ready, Sent

\* The tokens of synchronisation s leave, and perhaps a new one of it comes.
LEMMA Moved ==
  ASSUME NEW W, NEW V, NEW t, NEW u, NEW s \in Slots, NEW b, Alone(W), Fit(W, t),
         \A x \in V : (x \in W /\ x.id # s) \/ x = b,
         b.id = s, u[s].step \in Steps(b.kind), \A y \in Slots \ {s} : u[y].step = t[y].step
  PROVE  Alone(V) /\ Fit(V, u)
  <1>1. Alone(V)
    BY DEF Alone
  <1>2. Fit(V, u)
    BY DEF Fit
  <1> QED
    BY <1>1, <1>2

LEMMA Left ==
  ASSUME NEW W, NEW V, NEW t, NEW u, NEW s \in Slots, Alone(W), Fit(W, t),
         \A x \in V : x \in W /\ x.id # s, \A y \in Slots \ {s} : u[y].step = t[y].step
  PROVE  Alone(V) /\ Fit(V, u)
  <1>1. Alone(V)
    BY DEF Alone
  <1>2. Fit(V, u)
    BY DEF Fit
  <1> QED
    BY <1>1, <1>2

\* No token of a synchronisation that is idle, and none comes from nothing.
LEMMA Fewer ==
  ASSUME NEW W, NEW V, NEW t, NEW u, Alone(W), Fit(W, t), V \subseteq W,
         \A y \in Slots : u[y].step = t[y].step
  PROVE  Alone(V) /\ Fit(V, u)
  <1>1. Alone(V)
    BY DEF Alone
  <1>2. Fit(V, u)
    BY DEF Fit
  <1> QED
    BY <1>1, <1>2

LEMMA IdleHasNone ==
  ASSUME NEW W, NEW t, NEW s \in Slots, Fit(W, t), t[s].step = "idle"
  PROVE  \A x \in W : x.id # s
  BY DEF Fit, Steps

\* The queues.
LEMMA AskedTail ==
  ASSUME NEW q \in Seq(Requests), NEW r, q # <<>>, r = Tail(q), OnceAsked(q)
  PROVE  /\ OnceAsked(r)
         /\ \A x \in Asked(r) : x \in Asked(q) /\ x.id # q[1].id
         /\ Head(q) = q[1] /\ Token("up", q[1].id, q[1].kind) \in Asked(q)
  <1>1. /\ r \in Seq(Requests) /\ Len(q) \in Nat /\ Len(q) >= 1 /\ 1 \in DOMAIN q /\ Head(q) = q[1]
        /\ DOMAIN r = 1..(Len(q) - 1) /\ DOMAIN q = 1..Len(q)
        /\ \A n \in DOMAIN r : r[n] = q[n + 1]
    BY TailFrom
  <1>2. \A n \in DOMAIN r : n + 1 \in DOMAIN q /\ n + 1 # 1 /\ r[n] = q[n + 1]
    BY <1>1
  <1>3. OnceAsked(r)
    <2> SUFFICES ASSUME NEW n \in DOMAIN r, NEW k \in DOMAIN r, r[n].id = r[k].id PROVE n = k
      BY DEF OnceAsked
    <2>1. n + 1 = k + 1
      BY <1>2 DEF OnceAsked
    <2> QED
      BY <1>1, <2>1
  <1>4. ASSUME NEW x \in Asked(r) PROVE x \in Asked(q) /\ x.id # q[1].id
    <2>1. PICK n \in DOMAIN r : x = Token("up", r[n].id, r[n].kind)
      BY DEF Asked
    <2>2. PICK k \in DOMAIN q : k # 1 /\ x = Token("up", q[k].id, q[k].kind)
      BY <1>2, <2>1
    <2>3. x \in Asked(q)
      BY <2>2 DEF Asked
    <2>4. q[k].id # q[1].id
      BY <1>1, <2>2 DEF OnceAsked
    <2> QED
      BY <2>2, <2>3, <2>4, TokenIs
  <1>5. Token("up", q[1].id, q[1].kind) \in Asked(q)
    BY <1>1 DEF Asked
  <1> QED
    BY <1>1, <1>3, <1>4, <1>5

LEMMA AskedAppend ==
  ASSUME NEW q \in Seq(Requests), NEW e \in Requests, NEW r, r = Append(q, e), OnceAsked(q),
         \A x \in Asked(q) : x.id # e.id
  PROVE  OnceAsked(r) /\ \A x \in Asked(r) : x \in Asked(q) \/ x = Token("up", e.id, e.kind)
  <1>1. /\ DOMAIN r = 1..(Len(q) + 1) /\ DOMAIN q = 1..Len(q) /\ Len(q) \in Nat
        /\ r[Len(q) + 1] = e /\ \A n \in DOMAIN q : r[n] = q[n]
    BY AppendTo
  <1>2. PICK l : l = Len(q) + 1
    OBVIOUS
  <1>3. \A n \in DOMAIN r : (n \in DOMAIN q /\ r[n] = q[n]) \/ (n = l /\ r[n] = e)
    BY <1>1, <1>2
  <1>4. \A n \in DOMAIN q : q[n].id # e.id
    BY TokenIs DEF Asked
  <1>5. OnceAsked(r)
    BY <1>3, <1>4 DEF OnceAsked
  <1>6. \A x \in Asked(r) : x \in Asked(q) \/ x = Token("up", e.id, e.kind)
    BY <1>3 DEF Asked
  <1> QED
    BY <1>5, <1>6

LEMMA ComputedAppend ==
  ASSUME NEW q \in Seq(Builds), NEW e \in Builds, NEW r, r = Append(q, e), OnceComputed(q),
         e.for \in {"subscribe", "fetch"} => \A x \in Computed(q) : x.id # e.id
  PROVE  /\ OnceComputed(r)
         /\ \A x \in Computed(r) : \/ x \in Computed(q)
                                   \/ /\ x = Token("builds", e.id, e.for)
                                      /\ e.for \in {"subscribe", "fetch"}
         /\ e.for \notin {"subscribe", "fetch"} => Awaited(r) = Awaited(q)
  <1>1. /\ DOMAIN r = 1..(Len(q) + 1) /\ DOMAIN q = 1..Len(q) /\ Len(q) \in Nat
        /\ r[Len(q) + 1] = e /\ \A n \in DOMAIN q : r[n] = q[n]
    BY AppendTo
  <1>2. PICK l : l = Len(q) + 1
    OBVIOUS
  <1>3. \A n \in Awaited(r) : \/ n \in Awaited(q) /\ r[n] = q[n]
                              \/ n = l /\ r[n] = e /\ e.for \in {"subscribe", "fetch"}
    BY <1>1, <1>2 DEF Awaited
  <1>4. e.for \in {"subscribe", "fetch"} => \A n \in Awaited(q) : q[n].id # e.id
    BY TokenIs DEF Computed
  <1>5. OnceComputed(r)
    BY <1>3, <1>4 DEF OnceComputed
  <1>6. \A x \in Computed(r) : \/ x \in Computed(q)
                               \/ /\ x = Token("builds", e.id, e.for)
                                  /\ e.for \in {"subscribe", "fetch"}
    BY <1>3 DEF Computed
  <1>7. ASSUME e.for \notin {"subscribe", "fetch"} PROVE Awaited(r) = Awaited(q)
    <2>1. \A n \in Awaited(q) : n \in Awaited(r)
      BY <1>1 DEF Awaited
    <2> QED
      BY <1>3, <1>7, <2>1
  <1> QED
    BY <1>5, <1>6, <1>7

\* The n-th build leaves.
LEMMA ComputedRemoved ==
  ASSUME NEW q \in Seq(Builds), NEW n \in DOMAIN q, OnceComputed(q)
  PROVE  \E r :
           /\ r = SubSeq(q, 1, n - 1) \o SubSeq(q, n + 1, Len(q))
           /\ OnceComputed(r)
           /\ \A x \in Computed(r) : /\ x \in Computed(q)
                                     /\ n \in Awaited(q) => x.id # q[n].id
           /\ n \in Awaited(q) => Token("builds", q[n].id, q[n].for) \in Computed(q)
           /\ Awaited(q) = {} => Awaited(r) = {}
  <1>1. PICK r :
           /\ r = SubSeq(q, 1, n - 1) \o SubSeq(q, n + 1, Len(q))
           /\ r \in Seq(Builds) /\ Len(q) \in Nat
           /\ DOMAIN r = 1..(Len(q) - 1) /\ DOMAIN q = 1..Len(q)
           /\ \A k \in DOMAIN r : /\ k < n => r[k] = q[k]
                                  /\ k >= n => k + 1 \in DOMAIN q /\ r[k] = q[k + 1]
    BY Removed
  <1> DEFINE At(k) == IF k < n THEN k ELSE k + 1
  <1>2. \A k \in DOMAIN r : At(k) \in DOMAIN q /\ At(k) # n /\ r[k] = q[At(k)]
    <2>1. PICK L \in Nat : L = Len(q) /\ DOMAIN q = 1..L /\ DOMAIN r = 1..L - 1
      BY <1>1
    <2>2. \A k \in DOMAIN r : /\ k < n => r[k] = q[k]
                              /\ k >= n => k + 1 \in DOMAIN q /\ r[k] = q[k + 1]
      BY <1>1
    <2> QED
      BY <2>1, <2>2
  <1>3. \A k, j \in DOMAIN r : At(k) = At(j) => k = j
    <2>1. PICK L \in Nat : DOMAIN q = 1..L /\ DOMAIN r = 1..L - 1
      BY <1>1
    <2> QED
      BY <2>1
  <1> HIDE DEF At
  <1>4. \A k \in Awaited(r) : /\ At(k) \in Awaited(q) /\ At(k) # n /\ r[k] = q[At(k)]
                              /\ k \in DOMAIN r
    BY <1>2 DEF Awaited
  <1>5. OnceComputed(r)
    BY <1>3, <1>4 DEF OnceComputed
  <1>6. \A x \in Computed(r) : x \in Computed(q)
    BY <1>4 DEF Computed
  <1>7. ASSUME n \in Awaited(q), NEW x \in Computed(r) PROVE x.id # q[n].id
    <2>1. PICK k \in Awaited(r) : x = Token("builds", r[k].id, r[k].for)
      BY DEF Computed
    <2>2. q[At(k)].id # q[n].id
      BY <1>4, <1>7, <2>1 DEF OnceComputed
    <2> QED
      BY <1>4, <2>1, <2>2, TokenIs
  <1>8. n \in Awaited(q) => Token("builds", q[n].id, q[n].for) \in Computed(q)
    BY DEF Computed
  <1>9. Awaited(q) = {} => Awaited(r) = {}
    BY <1>4
  <1>10. r = SubSeq(q, 1, n - 1) \o SubSeq(q, n + 1, Len(q))
    BY <1>1
  <1>11. /\ OnceComputed(r)
         /\ \A x \in Computed(r) : x \in Computed(q) /\ (n \in Awaited(q) => x.id # q[n].id)
         /\ n \in Awaited(q) => Token("builds", q[n].id, q[n].for) \in Computed(q)
         /\ Awaited(q) = {} => Awaited(r) = {}
    BY <1>5, <1>6, <1>7, <1>8, <1>9
  <1> QED
    BY <1>10, <1>11, Zenon

\* Builds for the same, as far along as they may be.
LEMMA ComputedSame ==
  ASSUME NEW q, NEW r, DOMAIN r = DOMAIN q,
         \A n \in DOMAIN q : r[n].for = q[n].for /\ r[n].id = q[n].id
  PROVE  /\ OnceComputed(q) => OnceComputed(r)
         /\ Computed(r) = Computed(q) /\ Awaited(r) = Awaited(q)
  <1>1. Awaited(r) = Awaited(q)
    BY DEF Awaited
  <1>2. \A n \in Awaited(q) : r[n].for = q[n].for /\ r[n].id = q[n].id
    BY DEF Awaited
  <1>3. OnceComputed(q) => OnceComputed(r)
    BY <1>1, <1>2 DEF OnceComputed
  <1>4. Computed(r) = Computed(q)
    BY <1>1, <1>2 DEF Computed
  <1> QED
    BY <1>1, <1>3, <1>4

LEMMA ComputedNone ==
  ASSUME NEW q, \A n \in DOMAIN q : q[n].for \notin {"subscribe", "fetch"}
  PROVE  Awaited(q) = {} /\ Computed(q) = {} /\ OnceComputed(q)
  BY DEF Awaited, Computed, OnceComputed

LEMMA SentTail ==
  ASSUME NEW q \in Seq(Messages), NEW r, q # <<>>, r = Tail(q), OnceSent(q)
  PROVE  /\ OnceSent(r) /\ Head(q) = q[1]
         /\ \A x \in Sent(r) : x \in Sent(q) /\ (q[1].kind \in AnswerKinds => x.id # q[1].id)
         /\ q[1].kind \in AnswerKinds => Token("down", q[1].id, q[1].kind) \in Sent(q)
  <1>1. /\ Len(q) \in Nat /\ Len(q) >= 1 /\ 1 \in DOMAIN q /\ Head(q) = q[1]
        /\ DOMAIN r = 1..(Len(q) - 1) /\ DOMAIN q = 1..Len(q)
        /\ \A n \in DOMAIN r : r[n] = q[n + 1]
    BY TailFrom
  <1>2. \A n \in DOMAIN r : n + 1 \in DOMAIN q /\ n + 1 # 1 /\ r[n] = q[n + 1]
    BY <1>1
  <1>3. OnceSent(r)
    <2> SUFFICES ASSUME NEW n \in Answering(r), NEW k \in Answering(r), r[n].id = r[k].id
                 PROVE n = k
      BY DEF OnceSent
    <2>0. n \in DOMAIN r /\ k \in DOMAIN r
      BY DEF Answering
    <2>1. n + 1 = k + 1
      BY <1>2, <2>0 DEF OnceSent, Answering
    <2> QED
      BY <1>1, <2>0, <2>1
  <1>4. ASSUME NEW x \in Sent(r)
        PROVE  x \in Sent(q) /\ (q[1].kind \in AnswerKinds => x.id # q[1].id)
    <2>1. PICK n \in Answering(r) : x = Token("down", r[n].id, r[n].kind)
      BY DEF Sent
    <2>2. PICK k \in Answering(q) : k # 1 /\ x = Token("down", q[k].id, q[k].kind)
      BY <1>2, <2>1 DEF Answering
    <2>3. x \in Sent(q)
      BY <2>2 DEF Sent
    <2>4. q[1].kind \in AnswerKinds => q[k].id # q[1].id
      BY <1>1, <2>2 DEF OnceSent, Answering
    <2> QED
      BY <2>2, <2>3, <2>4, TokenIs
  <1>5. q[1].kind \in AnswerKinds => Token("down", q[1].id, q[1].kind) \in Sent(q)
    BY <1>1 DEF Sent, Answering
  <1> QED
    BY <1>1, <1>3, <1>4, <1>5

LEMMA SentJoined ==
  ASSUME NEW q \in Seq(Messages), NEW e \in Seq(Messages), NEW r, r = q \o e,
         OnceSent(q), OnceSent(e), \A x \in Sent(q), y \in Sent(e) : x.id # y.id
  PROVE  OnceSent(r) /\ \A x \in Sent(r) : x \in Sent(q) \/ x \in Sent(e)
  <1>1. /\ r \in Seq(Messages) /\ Len(q) \in Nat /\ Len(e) \in Nat
        /\ DOMAIN r = 1..(Len(q) + Len(e)) /\ DOMAIN q = 1..Len(q) /\ DOMAIN e = 1..Len(e)
        /\ \A n \in DOMAIN r : /\ n <= Len(q) => r[n] = q[n]
                               /\ n > Len(q) => n - Len(q) \in DOMAIN e /\ r[n] = e[n - Len(q)]
    BY Joined
  <1>2. PICK L \in Nat : L = Len(q) /\ DOMAIN q = 1..L
    BY <1>1
  <1>3. \A n \in DOMAIN r : \/ n \in DOMAIN q /\ r[n] = q[n]
                            \/ n - L \in DOMAIN e /\ r[n] = e[n - L]
    <2>1. DOMAIN r \subseteq Nat \ {0}
      BY <1>1
    <2>2. \A n \in DOMAIN r : n <= L => n \in DOMAIN q
      BY <1>2, <2>1
    <2>3. \A n \in DOMAIN r : n <= L \/ n > L
      BY <1>2, <2>1
    <2> QED
      BY <1>1, <1>2, <2>2, <2>3
  <1>4. \A n \in Answering(r) : \/ n \in Answering(q) /\ r[n] = q[n]
                                \/ n - L \in Answering(e) /\ r[n] = e[n - L]
    BY <1>3 DEF Answering
  <1>5. ASSUME NEW n \in Answering(q), NEW k \in Answering(e) PROVE q[n].id # e[k].id
    <2>1. Token("down", q[n].id, q[n].kind) \in Sent(q)
      BY DEF Sent
    <2>2. Token("down", e[k].id, e[k].kind) \in Sent(e)
      BY DEF Sent
    <2>3. Token("down", q[n].id, q[n].kind).id # Token("down", e[k].id, e[k].kind).id
      BY <2>1, <2>2
    <2> QED
      BY <2>3, TokenIs
  <1>6. OnceSent(r)
    <2> SUFFICES ASSUME NEW n \in Answering(r), NEW k \in Answering(r), r[n].id = r[k].id
                 PROVE n = k
      BY DEF OnceSent
    <2>1. CASE n \in Answering(q) /\ r[n] = q[n] /\ k \in Answering(q) /\ r[k] = q[k]
      BY <2>1 DEF OnceSent
    <2>2. CASE n - L \in Answering(e) /\ r[n] = e[n - L] /\ k - L \in Answering(e) /\ r[k] = e[k - L]
      <3>1. n - L = k - L
        BY <2>2 DEF OnceSent
      <3>2. n \in Int /\ k \in Int
        BY <1>1 DEF Answering
      <3> QED
        BY <1>2, <3>1, <3>2
    <2> QED
      BY <1>4, <1>5, <2>1, <2>2
  <1>7. ASSUME NEW x \in Sent(r) PROVE x \in Sent(q) \/ x \in Sent(e)
    <2>1. PICK n \in Answering(r) : x = Token("down", r[n].id, r[n].kind)
      BY DEF Sent
    <2> QED
      BY <1>4, <2>1 DEF Sent
  <1> QED
    BY <1>6, <1>7

\* A sequence of one message, and one with no answer.
LEMMA SentOne ==
  ASSUME NEW m
  PROVE  OnceSent(<<m>>) /\ \A x \in Sent(<<m>>) : x = Token("down", m.id, m.kind)
  <1>1. \A n \in Answering(<<m>>) : n = 1 /\ <<m>>[n] = m
    BY DEF Answering
  <1> QED
    BY <1>1 DEF OnceSent, Sent

LEMMA SentNone ==
  ASSUME NEW q, \A n \in DOMAIN q : q[n].kind \notin AnswerKinds
  PROVE  Answering(q) = {} /\ OnceSent(q) /\ Sent(q) = {}
  BY DEF Answering, OnceSent, Sent

-----------------------------------------------------------------------------
(* Type correctness *)

LEMMA TypedInit == Init => Typed
  <1> SUFFICES ASSUME Init PROVE Typed
    OBVIOUS
  <1>1. GameTyped
    BY DEF Init, GameTyped
  <1>2. ServerTyped
    <2>1. /\ active = {} /\ due = FALSE /\ builds = <<>> /\ subscription = None /\ replies = {}
          /\ treeRevision = 0 /\ transferRevision = 0 /\ logRevision = 0
      BY DEF Init
    <2>2. IsFiniteSet(active) /\ builds \in Seq(Builds) /\ subscription \in Subscriptions
      BY <2>1, FS_EmptySet, SubscriptionIs
    <2> QED
      BY <2>1, <2>2 DEF ServerTyped
  <1>3. LinkTyped
    BY DEF Init, LinkTyped
  <1>4. PageTyped
    <2>1. /\ page = [tree |-> [i \in Instances |-> Offline], summaries |-> [t \in Transfers |-> 0],
                     lastTree |-> 0, lastTransfer |-> 0, lastLog |-> 0,
                     canViewLogs |-> TRUE, live |-> "reconnecting"]
          /\ syncs = [s \in Slots |-> Idle] /\ lastEvent = "none" /\ generation = 0
          /\ timer = FALSE
      BY DEF Init
    <2>2. page \in Pages
      <3>1. [i \in Instances |-> Offline] \in Trees /\ [t \in Transfers |-> 0] \in [Transfers -> Nat]
        BY DEF Trees, Offline
      <3> QED
        BY <2>1, <3>1 DEF Pages, LiveStatuses
    <2>3. syncs \in [Slots -> Syncs]
      BY <2>1, IdleIs
    <2> QED
      BY <2>1, <2>2, <2>3 DEF PageTyped, Events
  <1> QED
    BY <1>1, <1>2, <1>3, <1>4 DEF Typed

LEMMA BuildIs ==
  ASSUME NEW for \in Purposes, NEW id \in Slots
  PROVE  Build(for, id) \in Builds
  BY DEF Build, Builds, Trees, Offline

LEMMA NextLiveStatusIs ==
  ASSUME NEW previous \in LiveStatuses, NEW connected, NEW event, NEW outcome
  PROVE  NextLiveStatus(previous, connected, event, outcome) \in LiveStatuses
  BY DEF NextLiveStatus, LiveStatuses

LEMMA TruthIs == world \in [Instances -> Nat] => \A i \in Instances : world[i] \in Int
  OBVIOUS

\* What is pushed is of the types of the link.
LEMMA PushIs ==
  ASSUME LinkTyped, NEW filter, NEW events \in Seq(Messages), Push(filter, events)
  PROVE  down' \in Seq(Messages)
  BY ConcatProperties DEF LinkTyped, Push

LEMMA PushesAre ==
  ASSUME NEW t \in Transfers, NEW v \in Nat, NEW to,
         transferRevision \in Nat, logRevision \in Nat
  PROVE  TransferPushes(t, v, to) \in Seq(Messages)
  <1> DEFINE e == [kind |-> "transfer", revision |-> transferRevision + 1, t |-> t, v |-> v]
             l == [kind |-> "log", revision |-> logRevision + 1, t |-> t, v |-> v]
  <1>1. e \in Messages /\ l \in Messages
    BY DEF Messages, TransferEvents
  <1> HIDE DEF e, l
  <1>2. PICK a : a = IF to.transfers THEN <<e>> ELSE <<>>
    OBVIOUS
  <1>3. PICK b : b = IF to.logs THEN <<l>> ELSE <<>>
    OBVIOUS
  <1>4. a \in Seq(Messages) /\ b \in Seq(Messages)
    BY <1>1, <1>2, <1>3
  <1>5. TransferPushes(t, v, to) = a \o b
    BY <1>2, <1>3 DEF TransferPushes, e, l
  <1> QED
    BY <1>4, <1>5, ConcatProperties

\* A handler of the controller changes the controller and what is on its way.
LEMMA HandleTypes ==
  ASSUME Typed, Handle \/ HandleFails
  PROVE  Typed'
  <1> USE DEF Typed
  <1> PICK r : r = Head(up)
    OBVIOUS
  <1>1. up # <<>> /\ up' = Tail(up) /\ UNCHANGED <<game, status, mounted, client, mayViewLogs, mounts>>
        /\ UNCHANGED <<active, due, treeRevision, transferRevision, logRevision, link>>
    BY DEF Handle, HandleFails
  <1>2. r \in Requests /\ up' \in Seq(Requests)
    BY <1>1, TailFrom DEF LinkTyped
  <1>3. r.id \in Slots /\ (r.kind = "subscribe" => r.enable \in BOOLEAN /\ r.logs \in BOOLEAN)
    BY <1>2, RequestIs
  <1>4. PageTyped'
    BY <1>1 DEF PageTyped
  <1>5. ASSUME NEW k \in {"ok", "denied", "error", "fetchError"},
               Push(TRUE, <<[kind |-> k, id |-> r.id]>>)
        PROVE  down' \in Seq(Messages)
    <2>1. [kind |-> k, id |-> r.id] \in Messages
      BY <1>3, NewMessages DEF Messages
    <2>2. <<[kind |-> k, id |-> r.id]>> \in Seq(Messages)
      BY <2>1
    <2> QED
      BY <1>5, <2>2, PushIs
  <1>6. ASSUME NEW for \in Purposes, builds' = Append(builds, Build(for, r.id))
        PROVE  builds' \in Seq(Builds)
    BY <1>3, <1>6, BuildIs, AppendTo DEF ServerTyped
  <1>7. CASE HandleFails
    <2>1. faults' \in Nat
      BY <1>7 DEF HandleFails, GameTyped
    <2>2. down' \in Seq(Messages)
      BY <1>5, <1>7 DEF HandleFails
    <2> QED
      BY <1>1, <1>2, <1>4, <1>7, <2>1, <2>2 DEF HandleFails, GameTyped, ServerTyped, LinkTyped
  <1>8. CASE Handle
    <2>0. GameTyped'
      BY <1>1, <1>8 DEF GameTyped, Handle
    <2>1. CASE r.kind = "subscribe" /\ SetSubscription(r) /\ UNCHANGED replies
      <3>1. PICK wanted : wanted = [tree |-> r.enable, transfers |-> r.enable, logs |-> r.logs]
        OBVIOUS
      <3>2. wanted \in Subscriptions
        BY <1>3, <2>1, <3>1, SubscriptionIs
      <3>3. subscription' \in Subscriptions
        BY <2>1, <3>1, <3>2, SubscriptionIs DEF SetSubscription, ServerTyped
      <3>4. \/ Push(TRUE, <<[kind |-> "denied", id |-> r.id]>>) /\ UNCHANGED builds
            \/ Push(TRUE, <<[kind |-> "ok", id |-> r.id]>>) /\ UNCHANGED builds
            \/ builds' = Append(builds, Build("subscribe", r.id)) /\ UNCHANGED down
        BY <2>1 DEF SetSubscription
      <3>5. down' \in Seq(Messages) /\ builds' \in Seq(Builds)
        BY <1>5, <1>6, <3>4 DEF ServerTyped, LinkTyped, Purposes
      <3> QED
        BY <1>1, <1>2, <1>4, <2>0, <2>1, <3>3, <3>5 DEF ServerTyped, LinkTyped
    <2>2. CASE r.kind = "tree" /\ builds' = Append(builds, Build("fetch", r.id))
               /\ UNCHANGED <<subscription, replies, down>>
      BY <1>1, <1>2, <1>4, <1>6, <2>0, <2>2 DEF ServerTyped, LinkTyped, Purposes
    <2>3. CASE r.kind = "list"
               /\ replies' = replies \cup {[kind |-> "listAnswer", id |-> r.id, list |-> status]}
               /\ UNCHANGED <<subscription, builds, down>>
      <3>1. [kind |-> "listAnswer", id |-> r.id, list |-> status] \in Answers
        BY <1>3, NewMessages DEF GameTyped
      <3> QED
        BY <1>1, <1>2, <1>4, <2>0, <2>3, <3>1 DEF ServerTyped, LinkTyped
    <2> QED
      BY <1>8, <2>1, <2>2, <2>3 DEF Handle
  <1> QED
    BY <1>7, <1>8

\* A build that is done leaves the list.
Without(q, n) == SubSeq(q, 1, n - 1) \o SubSeq(q, n + 1, Len(q))

LEMMA WithoutIs ==
  ASSUME NEW q \in Seq(Builds), NEW n \in DOMAIN q
  PROVE  /\ Without(q, n) \in Seq(Builds)
         /\ OnceComputed(q) => OnceComputed(Without(q, n))
         /\ OnceComputed(q) =>
              \A x \in Computed(Without(q, n)) :
                x \in Computed(q) /\ (n \in Awaited(q) => x.id # q[n].id)
         /\ n \in Awaited(q) => Token("builds", q[n].id, q[n].for) \in Computed(q)
         /\ OnceComputed(q) /\ Awaited(q) = {} => Awaited(Without(q, n)) = {}
  <1>1. PICK r : r = SubSeq(q, 1, n - 1) \o SubSeq(q, n + 1, Len(q))
    OBVIOUS
  <1>2. r = Without(q, n)
    BY <1>1, Zenon DEF Without
  <1>3. r \in Seq(Builds)
    <2>1. \E z : z = SubSeq(q, 1, n - 1) \o SubSeq(q, n + 1, Len(q)) /\ z \in Seq(Builds)
      BY Removed, Zenon
    <2> QED
      BY <1>1, <2>1, Zenon
  <1>4. OnceComputed(q) =>
          /\ OnceComputed(r)
          /\ \A x \in Computed(r) : x \in Computed(q) /\ (n \in Awaited(q) => x.id # q[n].id)
          /\ Awaited(q) = {} => Awaited(r) = {}
    BY <1>1, ComputedRemoved, Zenon
  <1>5. n \in Awaited(q) => Token("builds", q[n].id, q[n].for) \in Computed(q)
    BY DEF Computed
  <1> QED
    BY <1>2, <1>3, <1>4, <1>5, Zenon

\* Messages that carry no list, and of a transfer no other version than w.
Current(q, w) ==
  \A k \in DOMAIN q : /\ q[k].kind \notin {"listAnswer", "opened"}
                      /\ q[k].kind \in {"transfer", "log"} => q[k].v = w[q[k].t]

LEMMA CurrentOne ==
  ASSUME NEW m, NEW w, m.kind \notin {"listAnswer", "opened", "transfer", "log"}
  PROVE  Current(<<m>>, w)
  BY DEF Current

LEMMA CurrentJoined ==
  ASSUME NEW q \in Seq(Messages), NEW e \in Seq(Messages), NEW r, r = q \o e, NEW w,
         Current(q, w), Current(e, w)
  PROVE  Current(r, w)
  <1>1. \A k \in DOMAIN r : (\E j \in DOMAIN q : r[k] = q[j]) \/ (\E j \in DOMAIN e : r[k] = e[j])
    <2>1. /\ Len(q) \in Nat /\ Len(e) \in Nat
          /\ DOMAIN r = 1..(Len(q) + Len(e)) /\ DOMAIN q = 1..Len(q) /\ DOMAIN e = 1..Len(e)
          /\ \A n \in DOMAIN r : /\ n <= Len(q) => r[n] = q[n]
                                 /\ n > Len(q) => n - Len(q) \in DOMAIN e /\ r[n] = e[n - Len(q)]
      BY Joined
    <2>2. PICK L \in Nat : L = Len(q) /\ DOMAIN q = 1..L
      BY <2>1
    <2>3. \A k \in DOMAIN r : (k <= L /\ k \in DOMAIN q) \/ k > L
      BY <2>1, <2>2
    <2> QED
      BY <2>1, <2>2, <2>3
  <1> QED
    BY <1>1 DEF Current

\* The active transfers that a new subscriber is sent.
ActivePushes(order) ==
  [k \in DOMAIN order |->
     [kind |-> "transfer", revision |-> transferRevision + k, t |-> order[k],
      v |-> status[order[k]]]]

LEMMA ActivePushesAre ==
  ASSUME Typed, NEW order \in [1..Cardinality(active) -> active]
  PROVE  /\ ActivePushes(order) \in Seq(Messages) /\ Current(ActivePushes(order), status)
         /\ \A k \in DOMAIN ActivePushes(order) : ActivePushes(order)[k].kind = "transfer"
         /\ Cardinality(active) \in Nat
  <1>1. Cardinality(active) \in Nat
    BY FS_CardinalityType DEF Typed, ServerTyped
  <1>2. PICK c \in Nat : c = Cardinality(active)
    BY <1>1
  <1>3. PICK p : p = ActivePushes(order)
    OBVIOUS
  <1>4. /\ DOMAIN p = 1..c
        /\ p = [k \in 1..c |-> [kind |-> "transfer", revision |-> transferRevision + k,
                                t |-> order[k], v |-> status[order[k]]]]
    BY <1>2, <1>3 DEF ActivePushes
  <1>5. ASSUME NEW k \in 1..c
        PROVE  /\ p[k] = [kind |-> "transfer", revision |-> transferRevision + k, t |-> order[k],
                          v |-> status[order[k]]]
               /\ p[k] \in Messages
    <2>1. order[k] \in Transfers /\ status[order[k]] \in Nat /\ transferRevision + k \in Nat
      BY <1>2 DEF Typed, ServerTyped, GameTyped
    <2> QED
      BY <1>4, <2>1 DEF Messages, TransferEvents
  <1>6. p \in Seq(Messages)
    <2>1. p \in [1..c -> Messages]
      BY <1>4, <1>5
    <2> QED
      BY <2>1
  <1>7. \A k \in DOMAIN p : p[k].kind = "transfer" /\ p[k].v = status[p[k].t]
    BY <1>4, <1>5
  <1> QED
    BY <1>1, <1>3, <1>6, <1>7 DEF Current

\* What a finished tree does: its build leaves, and it is pushed with what it brings.
LEMMA BuildDoneIs ==
  ASSUME Typed, BuildDone
  PROVE  /\ UNCHANGED <<game, status, active, due, logRevision, subscription, replies, link, up,
                        mounted, client, mayViewLogs, mounts, faults>>
         /\ treeRevision' \in Nat /\ transferRevision' \in Nat
         /\ \E n \in DOMAIN builds, e \in Seq(Messages) :
              /\ builds' = Without(builds, n)
              /\ down' = down \/ down' = down \o e
              /\ OnceSent(e) /\ Current(e, status)
              /\ \A x \in Sent(e) :
                   /\ n \in Awaited(builds)
                   /\ x = Token("down", builds[n].id,
                                IF builds[n].for = "subscribe" THEN "ok" ELSE "treeAnswer")
  <1> USE DEF Typed
  <1>1. PICK n \in Complete :
          LET b     == builds[n]
              event == [kind |-> "tree", revision |-> treeRevision + 1, tree |-> b.tree]
          IN  /\ treeRevision' = treeRevision + 1
              /\ builds' = SubSeq(builds, 1, n - 1) \o SubSeq(builds, n + 1, Len(builds))
              /\ CASE b.for = "broadcast" ->
                        Push(subscription.tree, <<event>>) /\ UNCHANGED transferRevision
                   [] b.for = "subscribe" ->
                        \E order \in [1..Cardinality(active) -> active] :
                          /\ \A t \in active : \E k \in DOMAIN order : order[k] = t
                          /\ transferRevision' = transferRevision + Cardinality(active)
                          /\ Push(TRUE,
                               <<event>>
                               \o [k \in DOMAIN order |->
                                    [kind |-> "transfer", revision |-> transferRevision + k,
                                     t |-> order[k], v |-> status[order[k]]]]
                               \o <<[kind |-> "ok", id |-> b.id]>>)
                   [] b.for = "fetch" ->
                        /\ Push(TRUE, <<[kind |-> "treeAnswer", id |-> b.id,
                                         revision |-> treeRevision + 1, tree |-> b.tree]>>)
                        /\ UNCHANGED transferRevision
                   [] b.for = "nobody" -> UNCHANGED <<down, transferRevision>>
    BY DEF BuildDone
  <1>2. UNCHANGED <<game, status, active, due, logRevision, subscription, replies, link, up,
                    mounted, client, mayViewLogs, mounts, faults>>
    BY DEF BuildDone
  <1>3. builds' = Without(builds, n) /\ treeRevision' = treeRevision + 1
    BY <1>1, Zenon DEF Without
  <1> PICK b : b = builds[n]
    OBVIOUS
  <1> DEFINE event == [kind |-> "tree", revision |-> treeRevision + 1, tree |-> b.tree]
  <1>4. n \in DOMAIN builds
    BY DEF Complete
  <1>5. b.for \in Purposes /\ b.id \in Slots /\ b.tree \in Trees
    <2>1. b \in Builds
      BY <1>4 DEF ServerTyped
    <2> QED
      BY <2>1 DEF Builds
  <1>6. event \in Messages /\ event.kind = "tree" /\ treeRevision + 1 \in Nat
    BY <1>5 DEF ServerTyped, Messages, TreeEvents
  <1> DEFINE answer == [kind |-> "treeAnswer", id |-> b.id,
                        revision |-> treeRevision + 1, tree |-> b.tree]
             ok == [kind |-> "ok", id |-> b.id]
  <1>7. /\ ok \in Messages /\ answer \in Messages /\ ok.kind = "ok" /\ answer.kind = "treeAnswer"
        /\ ok.id = b.id /\ answer.id = b.id
    BY <1>5, <1>6, NewMessages DEF Messages
  <1> HIDE DEF event, answer, ok
  <1>8. \/ b.for = "broadcast" /\ Push(subscription.tree, <<event>>) /\ UNCHANGED transferRevision
        \/ /\ b.for = "subscribe"
           /\ \E order \in [1..Cardinality(active) -> active] :
                /\ transferRevision' = transferRevision + Cardinality(active)
                /\ Push(TRUE, <<event>> \o ActivePushes(order) \o <<ok>>)
        \/ b.for = "fetch" /\ Push(TRUE, <<answer>>) /\ UNCHANGED transferRevision
        \/ UNCHANGED <<down, transferRevision>>
    <2>1. b.for \in {"broadcast", "subscribe", "fetch", "nobody"}
      BY <1>5 DEF Purposes
    <2> QED
      BY <1>1, <2>1, Zenon DEF event, answer, ok, ActivePushes
  <1> DEFINE Pushed(e) ==
        /\ down' = down \/ down' = down \o e
        /\ OnceSent(e) /\ Current(e, status)
        /\ \A x \in Sent(e) : /\ n \in Awaited(builds)
                              /\ x = Token("down", b.id, IF b.for = "subscribe" THEN "ok"
                                                         ELSE "treeAnswer")
  <1>9. transferRevision' \in Nat /\ \E e \in Seq(Messages) : Pushed(e)
    <2>1. <<event>> \in Seq(Messages) /\ Sent(<<event>>) = {} /\ OnceSent(<<event>>)
          /\ Current(<<event>>, status)
      <3>1. \A k \in DOMAIN <<event>> : <<event>>[k].kind \notin AnswerKinds
        BY <1>6 DEF AnswerKinds
      <3> QED
        BY <1>6, <3>1, SentNone, CurrentOne
    <2>2. CASE b.for = "broadcast" /\ Push(subscription.tree, <<event>>) /\ UNCHANGED transferRevision
      <3>1. Pushed(<<event>>)
        BY <2>1, <2>2 DEF Push
      <3>2. transferRevision' \in Nat
        BY <2>2 DEF ServerTyped
      <3> QED
        BY <2>1, <3>1, <3>2
    <2>3. ASSUME NEW order \in [1..Cardinality(active) -> active], b.for = "subscribe",
                 transferRevision' = transferRevision + Cardinality(active),
                 Push(TRUE, <<event>> \o ActivePushes(order) \o <<ok>>)
          PROVE  transferRevision' \in Nat /\ \E e \in Seq(Messages) : Pushed(e)
      <3>1. PICK p \in Seq(Messages) : p = ActivePushes(order)
        BY ActivePushesAre
      <3>2. Current(p, status) /\ Sent(p) = {} /\ OnceSent(p)
        <4>1. \A k \in DOMAIN p : p[k].kind = "transfer"
          BY <3>1, ActivePushesAre
        <4>2. \A k \in DOMAIN p : p[k].kind \notin AnswerKinds
          BY <4>1 DEF AnswerKinds
        <4> QED
          BY <3>1, <4>2, SentNone, ActivePushesAre
      <3>3. PICK head \in Seq(Messages) : head = <<event>>
        BY <2>1
      <3>4. PICK q \in Seq(Messages) : q = head \o p
        BY ConcatProperties
      <3>5. Current(q, status) /\ OnceSent(q) /\ \A x \in Sent(q) : FALSE
        BY <2>1, <3>2, <3>3, <3>4, SentJoined, CurrentJoined
      <3>6. PICK last \in Seq(Messages) : last = <<ok>>
        <4>1. <<ok>> \in Seq(Messages)
          BY <1>7
        <4> QED
          BY <4>1, Zenon
      <3>7. /\ Current(last, status) /\ OnceSent(last)
            /\ \A x \in Sent(last) : x = Token("down", b.id, "ok")
        BY <1>7, <3>6, SentOne, CurrentOne
      <3>8. PICK e \in Seq(Messages) : e = q \o last
        BY ConcatProperties
      <3>9. Current(e, status) /\ OnceSent(e) /\ \A x \in Sent(e) : x = Token("down", b.id, "ok")
        BY <3>5, <3>7, <3>8, SentJoined, CurrentJoined
      <3>10. e = <<event>> \o ActivePushes(order) \o <<ok>>
        BY <3>1, <3>3, <3>4, <3>6, <3>8
      <3>11. down' = down \o e
        BY <2>3, <3>10 DEF Push
      <3>12. n \in Awaited(builds)
        BY <1>4, <2>3 DEF Awaited
      <3>13. Pushed(e)
        BY <2>3, <3>9, <3>11, <3>12
      <3>14. transferRevision' \in Nat
        <4>1. Cardinality(active) \in Nat /\ transferRevision \in Nat
          BY ActivePushesAre DEF ServerTyped
        <4> QED
          BY <2>3, <4>1
      <3> QED
        BY <3>13, <3>14
    <2>4. CASE b.for = "fetch" /\ Push(TRUE, <<answer>>) /\ UNCHANGED transferRevision
      <3>1. <<answer>> \in Seq(Messages) /\ OnceSent(<<answer>>) /\ Current(<<answer>>, status)
            /\ \A x \in Sent(<<answer>>) : x = Token("down", b.id, "treeAnswer")
        BY <1>7, SentOne, CurrentOne
      <3>2. n \in Awaited(builds)
        BY <1>4, <2>4 DEF Awaited
      <3>3. Pushed(<<answer>>)
        BY <2>4, <3>1, <3>2 DEF Push
      <3>4. transferRevision' \in Nat
        BY <2>4 DEF ServerTyped
      <3> QED
        BY <3>1, <3>3, <3>4
    <2>5. CASE UNCHANGED <<down, transferRevision>>
      <3>1. Pushed(<<event>>)
        BY <2>1, <2>5
      <3>2. transferRevision' \in Nat
        BY <2>5 DEF ServerTyped
      <3> QED
        BY <2>1, <3>1, <3>2
    <2> QED
      BY <1>8, <2>2, <2>3, <2>4, <2>5
  <1>10. treeRevision' \in Nat
    BY <1>3, <1>6
  <1> HIDE DEF Typed
  <1>11. PICK e \in Seq(Messages) : Pushed(e)
    BY <1>9
  <1> QED
    BY <1>2, <1>3, <1>4, <1>9, <1>10, <1>11, Zenon

LEMMA BuildDoneTypes ==
  ASSUME Typed, BuildDone
  PROVE  Typed'
  <1> USE DEF Typed
  <1>1. PICK n \in DOMAIN builds, e \in Seq(Messages) :
          builds' = Without(builds, n) /\ (down' = down \/ down' = down \o e)
    BY BuildDoneIs
  <1>2. builds' \in Seq(Builds)
    BY <1>1, WithoutIs DEF ServerTyped
  <1>3. down' \in Seq(Messages)
    BY <1>1, ConcatProperties DEF LinkTyped
  <1>4. /\ UNCHANGED <<game, status, active, due, logRevision, subscription, replies, link, up,
                       mounted, client, mayViewLogs, mounts, faults>>
        /\ treeRevision' \in Nat /\ transferRevision' \in Nat
    BY BuildDoneIs
  <1> QED
    BY <1>2, <1>3, <1>4 DEF GameTyped, ServerTyped, LinkTyped, PageTyped

LEMMA StartTypes ==
  ASSUME NEW base \in Pages, NEW table \in [Slots -> Syncs], NEW queue \in Seq(Requests),
         NEW loop \in Nat, mounted' \in BOOLEAN, Start(base, table, queue, loop)
  PROVE  page' \in Pages /\ syncs' \in [Slots -> Syncs] /\ up' \in Seq(Requests)
  <1>1. PICK s \in Slots :
          /\ syncs' = [table EXCEPT ![s] =
               [Idle EXCEPT !.step = "subscribe", !.enable = mounted', !.loop = loop]]
          /\ up' = Append(queue, [kind |-> "subscribe", id |-> s, enable |-> mounted',
                                  logs |-> mounted' /\ base.canViewLogs])
          /\ page' = base
    BY DEF Start
  <1>2. [Idle EXCEPT !.step = "subscribe", !.enable = mounted', !.loop = loop] \in Syncs
    BY IdleIs DEF Syncs
  <1>3. (mounted' /\ base.canViewLogs) \in BOOLEAN
    OBVIOUS
  <1>4. PICK logs \in BOOLEAN : logs = (mounted' /\ base.canViewLogs)
    BY <1>3
  <1>5. [kind |-> "subscribe", id |-> s, enable |-> mounted', logs |-> logs] \in Requests
    BY NewMessages
  <1>6. up' \in Seq(Requests)
    BY <1>1, <1>4, <1>5, AppendTo
  <1> QED
    BY <1>1, <1>2, <1>6

LEMMA LiveIs ==
  ASSUME NEW base \in Pages, NEW connected, NEW event, NEW outcome
  PROVE  [base EXCEPT !.live = NextLiveStatus(@, connected, event, outcome)] \in Pages
  <1>1. base.live \in LiveStatuses
    BY DEF Pages
  <1>2. PICK live : live = NextLiveStatus(base.live, connected, event, outcome)
    OBVIOUS
  <1>3. live \in LiveStatuses
    BY <1>1, <1>2, NextLiveStatusIs
  <1>4. [base EXCEPT !.live = live] \in Pages
    BY <1>3 DEF Pages
  <1> QED
    BY <1>2, <1>4

LEMMA FinishTypes ==
  ASSUME PageTyped, NEW s \in Slots, NEW base \in Pages, NEW outcome,
         NEW replaced \in SUBSET Transfers, Finish(s, base, outcome, replaced)
  PROVE  page' \in Pages /\ syncs' \in [Slots -> Syncs] /\ timer' \in BOOLEAN
  <1>1. page' = [base EXCEPT !.live = NextLiveStatus(@, Connected, lastEvent, outcome)]
    BY DEF Finish
  <1>2. page' \in Pages
    BY <1>1, LiveIs
  <1>3. \A x \in Slots : [syncs[x] EXCEPT !.touched = @ \cup replaced] \in Syncs
    BY DEF PageTyped, Syncs
  <1>4. syncs' \in [Slots -> Syncs]
    BY <1>3, IdleIs DEF Finish
  <1>5. timer' \in BOOLEAN
    BY DEF Finish, PageTyped
  <1> QED
    BY <1>2, <1>4, <1>5

LEMMA SnapshotIs ==
  ASSUME NEW base \in Pages, NEW revision \in Nat, NEW tree \in Trees
  PROVE  WithSnapshot(base, revision, tree) \in Pages
  BY DEF WithSnapshot, Pages

LEMMA ListIs ==
  ASSUME NEW base \in Pages, NEW list \in [Transfers -> Nat], NEW touched
  PROVE  WithList(base, list, touched) \in Pages
  <1>1. [t \in Transfers |-> IF t \in touched THEN base.summaries[t] ELSE list[t]]
          \in [Transfers -> Nat]
    BY DEF Pages
  <1> QED
    BY <1>1 DEF WithList, Pages

LEMMA SyncChanges ==
  ASSUME NEW table \in [Slots -> Syncs], NEW s \in Slots
  PROVE  /\ [table EXCEPT ![s].step = "plain"] \in [Slots -> Syncs]
         /\ [table EXCEPT ![s].step = "tree", ![s].touched = {}] \in [Slots -> Syncs]
  <1>1. PICK y \in Syncs : y = table[s]
    OBVIOUS
  <1>2. ASSUME NEW z \in Syncs PROVE [table EXCEPT ![s] = z] \in [Slots -> Syncs]
    OBVIOUS
  <1>3. [table EXCEPT ![s].step = "plain"] \in [Slots -> Syncs]
    <2>1. [y EXCEPT !.step = "plain"] \in Syncs
      BY DEF Syncs
    <2> QED
      BY <1>1, <2>1
  <1>4. [table EXCEPT ![s].step = "tree", ![s].touched = {}] \in [Slots -> Syncs]
    <2>1. PICK u : u = [y EXCEPT !.step = "tree"]
      OBVIOUS
    <2>2. u \in Syncs
      BY <2>1 DEF Syncs
    <2>3. [u EXCEPT !.touched = {}] \in Syncs
      BY <2>2 DEF Syncs
    <2>4. [table EXCEPT ![s].step = "tree", ![s].touched = {}] =
            [table EXCEPT ![s] = [u EXCEPT !.touched = {}]]
      BY <1>1, <2>1
    <2> QED
      BY <1>2, <2>3, <2>4
  <1> QED
    BY <1>3, <1>4

\* The same of a synchronisation that was answered its tree.
LEMMA SyncListed ==
  ASSUME NEW table \in [Slots -> Syncs], NEW s \in Slots, NEW n \in Nat, NEW tree \in Trees
  PROVE  [table EXCEPT ![s].step = "list", ![s].tree = tree, ![s].revision = n]
           \in [Slots -> Syncs]
  <1>1. PICK y \in Syncs : y = table[s]
    OBVIOUS
  <1>2. PICK u : u = [y EXCEPT !.step = "list"]
    OBVIOUS
  <1>3. PICK v : v = [u EXCEPT !.tree = tree]
    OBVIOUS
  <1>4. [v EXCEPT !.revision = n] \in Syncs
    <2>1. u \in Syncs
      BY <1>2 DEF Syncs
    <2>2. v \in Syncs
      BY <2>1, <1>3 DEF Syncs
    <2> QED
      BY <2>2 DEF Syncs
  <1>5. [table EXCEPT ![s].step = "list", ![s].tree = tree, ![s].revision = n] =
          [table EXCEPT ![s] = [v EXCEPT !.revision = n]]
    BY <1>1, <1>2, <1>3
  <1> QED
    BY <1>4, <1>5

LEMMA ReceiveTypes ==
  ASSUME Typed, Receive
  PROVE  Typed'
  <1> USE DEF Typed
  <1> PICK m : m = Head(down)
    OBVIOUS
  <1>1. /\ down # <<>> /\ down' = Tail(down)
        /\ UNCHANGED <<game, status, server, link, mounted, lastEvent, generation, mayViewLogs,
                       mounts, faults>>
        /\ \/ AnswerOk(m) \/ AnswerDenied(m) \/ AnswerError(m) \/ AnswerTree(m) \/ AnswerList(m)
           \/ AnswerFetchError(m) \/ TreeUpdate(m) \/ TransferUpdate(m) \/ LogUpdate(m)
           \/ LogOpened(m)
    BY DEF Receive
  <1>2. m \in Messages /\ down' \in Seq(Messages)
    BY <1>1, TailFrom DEF LinkTyped
  <1>3. page \in Pages /\ syncs \in [Slots -> Syncs] /\ up \in Seq(Requests) /\ timer \in BOOLEAN
    BY DEF PageTyped, LinkTyped
  <1> DEFINE Goal == /\ page' \in Pages /\ syncs' \in [Slots -> Syncs] /\ up' \in Seq(Requests)
                     /\ timer' \in BOOLEAN
  <1>4. ASSUME AnswerOk(m) PROVE Goal
    <2>0. m.id \in Slots
      BY <1>2, <1>4, MessageIs DEF AnswerOk, AnswerKinds
    <2>1. CASE Refresh(m.id)
      <3>1. [kind |-> "tree", id |-> m.id] \in Requests
        BY <2>0, NewMessages
      <3>2. up' \in Seq(Requests)
        BY <1>3, <2>1, <3>1, AppendTo DEF Refresh
      <3>3. syncs' \in [Slots -> Syncs]
        BY <1>3, <2>0, <2>1, SyncChanges DEF Refresh
      <3> QED
        BY <1>3, <2>1, <3>2, <3>3 DEF Refresh
    <2>2. CASE Finish(m.id, page, "unsubscribed", {}) /\ UNCHANGED up
      BY <1>3, <2>0, <2>2, FinishTypes
    <2> QED
      BY <1>4, <2>1, <2>2 DEF AnswerOk
  <1>5. ASSUME AnswerDenied(m) PROVE Goal
    <2>0. m.id \in Slots
      BY <1>2, <1>5, MessageIs DEF AnswerDenied, AnswerKinds
    <2>1. syncs[m.id].enable \in BOOLEAN
      BY <1>3, <2>0 DEF Syncs
    <2>2. [kind |-> "subscribe", id |-> m.id, enable |-> syncs[m.id].enable, logs |-> FALSE]
            \in Requests
      BY <2>0, <2>1, NewMessages
    <2>3. up' \in Seq(Requests)
      BY <1>3, <1>5, <2>2, AppendTo DEF AnswerDenied
    <2>4. syncs' \in [Slots -> Syncs]
      BY <1>3, <1>5, <2>0, SyncChanges DEF AnswerDenied
    <2>5. page' \in Pages
      BY <1>3, <1>5 DEF AnswerDenied, Pages
    <2> QED
      BY <1>3, <1>5, <2>3, <2>4, <2>5 DEF AnswerDenied
  <1>6. ASSUME AnswerError(m) PROVE Goal
    <2>1. m.id \in Slots
      BY <1>2, <1>6, MessageIs DEF AnswerError, AnswerKinds
    <2> QED
      BY <1>3, <1>6, <2>1, FinishTypes DEF AnswerError
  <1>7. ASSUME AnswerTree(m) PROVE Goal
    <2>0. m.id \in Slots /\ m.revision \in Nat /\ m.tree \in Trees
      BY <1>2, <1>7, MessageIs DEF AnswerTree, AnswerKinds
    <2>1. CASE /\ syncs' = [syncs EXCEPT ![m.id].step = "list", ![m.id].tree = m.tree,
                                         ![m.id].revision = m.revision]
               /\ up' = Append(up, [kind |-> "list", id |-> m.id])
               /\ UNCHANGED <<page, timer>>
      <3>1. [kind |-> "list", id |-> m.id] \in Requests
        BY <2>0, NewMessages
      <3>2. up' \in Seq(Requests)
        BY <1>3, <2>1, <3>1, AppendTo
      <3>3. syncs' \in [Slots -> Syncs]
        <4>1. syncs' = [syncs EXCEPT ![m.id].step = "list", ![m.id].tree = m.tree,
                                     ![m.id].revision = m.revision]
          BY <2>1
        <4>2. PICK s \in Slots, n \in Nat, tree \in Trees :
                s = m.id /\ n = m.revision /\ tree = m.tree
          BY <2>0
        <4>3. PICK table : table = [syncs EXCEPT ![s].step = "list", ![s].tree = tree,
                                                 ![s].revision = n]
          OBVIOUS
        <4>4. table \in [Slots -> Syncs]
          BY <1>3, <4>3, SyncListed
        <4>5. syncs' = table
          BY <4>1, <4>2, <4>3, Zenon
        <4> QED
          BY <4>4, <4>5
      <3> QED
        BY <1>3, <2>1, <3>2, <3>3
    <2>2. CASE UNCHANGED up /\ Finish(m.id, WithSnapshot(page, m.revision, m.tree), "subscribed", {})
      BY <1>3, <2>0, <2>2, SnapshotIs, FinishTypes
    <2> QED
      BY <1>7, <2>1, <2>2 DEF AnswerTree
  <1>8. ASSUME AnswerList(m) PROVE Goal
    <2>0. m.id \in Slots /\ m.list \in [Transfers -> Nat]
      BY <1>2, <1>8, MessageIs DEF AnswerList, AnswerKinds
    <2>1. syncs[m.id] \in Syncs /\ syncs[m.id].revision \in Nat /\ syncs[m.id].tree \in Trees
      BY <1>3, <2>0 DEF Syncs
    <2>2. PICK base : base = WithSnapshot(WithList(page, m.list, syncs[m.id].touched),
                                          syncs[m.id].revision, syncs[m.id].tree)
      OBVIOUS
    <2>3. base \in Pages
      BY <1>3, <2>0, <2>1, <2>2, ListIs, SnapshotIs
    <2>4. UNCHANGED up /\ Finish(m.id, base, "subscribed", Transfers)
      BY <1>8, <2>2 DEF AnswerList
    <2> QED
      BY <1>3, <2>0, <2>3, <2>4, FinishTypes
  <1>9. ASSUME TreeUpdate(m) PROVE Goal
    BY <1>2, <1>3, <1>9, MessageIs, SnapshotIs DEF TreeUpdate
  <1>10. ASSUME TransferUpdate(m) \/ LogUpdate(m) \/ LogOpened(m) PROVE Goal
    <2>0. /\ m.t \in Transfers /\ m.v \in Nat
          /\ TransferUpdate(m) \/ LogUpdate(m) => m.revision \in Nat
      BY <1>2, <1>10, MessageIs DEF TransferUpdate, LogUpdate, LogOpened
    <2>1. UNCHANGED <<up, timer>>
      BY <1>10 DEF TransferUpdate, LogUpdate, LogOpened
    <2>2. \/ /\ page' = [page EXCEPT !.summaries[m.t] = m.v, !.lastTransfer = m.revision]
             /\ m.revision \in Nat /\ Touch(m.t)
          \/ /\ page' = [page EXCEPT !.summaries[m.t] = m.v, !.lastLog = m.revision]
             /\ m.revision \in Nat /\ Touch(m.t)
          \/ page' = [page EXCEPT !.summaries[m.t] = m.v] /\ Touch(m.t)
          \/ UNCHANGED <<page, syncs>>
      BY <1>10, <2>0 DEF TransferUpdate, LogUpdate, LogOpened
    <2>3. page' \in Pages
      <3>1. PICK f : f = [page.summaries EXCEPT ![m.t] = m.v]
        OBVIOUS
      <3>2. f \in [Transfers -> Nat]
        BY <1>3, <2>0, <3>1 DEF Pages
      <3>3. /\ [page EXCEPT !.summaries = f] \in Pages
            /\ m.revision \in Nat =>
                 /\ [[page EXCEPT !.summaries = f] EXCEPT !.lastTransfer = m.revision] \in Pages
                 /\ [[page EXCEPT !.summaries = f] EXCEPT !.lastLog = m.revision] \in Pages
        BY <1>3, <2>0, <3>2 DEF Pages
      <3> QED
        BY <1>3, <2>2, <3>1, <3>3
    <2>4. Touch(m.t) => syncs' \in [Slots -> Syncs]
      <3>1. \A s \in Slots : [syncs[s] EXCEPT !.touched = @ \cup {m.t}] \in Syncs
        BY <1>3, <2>0 DEF Syncs
      <3> QED
        BY <3>1 DEF Touch
    <2> QED
      BY <1>3, <2>1, <2>2, <2>3, <2>4
  <1>11. ASSUME AnswerFetchError(m) PROVE Goal
    <2>1. m.id \in Slots
      BY <1>2, <1>11, MessageIs DEF AnswerFetchError, AnswerKinds
    <2> QED
      BY <1>3, <1>11, <2>1, FinishTypes DEF AnswerFetchError
  <1>12. Goal
    BY <1>1, <1>4, <1>5, <1>6, <1>7, <1>8, <1>9, <1>10, <1>11
  <1> QED
    BY <1>1, <1>2, <1>12 DEF GameTyped, ServerTyped, LinkTyped, PageTyped

\* What moves a message from the controller onto the link.
LEMMA SendReplyTypes ==
  ASSUME Typed, SendReply
  PROVE  Typed'
  <1> USE DEF Typed
  <1>1. PICK x \in replies : replies' = replies \ {x} /\ Push(TRUE, <<x>>)
    BY DEF SendReply
  <1>2. x \in Messages
    BY DEF ServerTyped, Messages
  <1>3. <<x>> \in Seq(Messages)
    BY <1>2
  <1>4. down' \in Seq(Messages)
    BY <1>1, <1>3, PushIs
  <1>5. UNCHANGED <<game, status, active, due, builds, treeRevision, transferRevision, logRevision,
                    subscription, link, up, mounted, client, mayViewLogs, mounts, faults>>
    BY DEF SendReply
  <1> QED
    BY <1>1, <1>4, <1>5 DEF GameTyped, ServerTyped, LinkTyped, PageTyped

LEMMA LogTypes ==
  ASSUME Typed, SeenTyped, NEW t \in Transfers, OpenLog(t) \/ SendLog
  PROVE  Typed'
  <1> USE DEF Typed
  <1>1. UNCHANGED <<game, status, active, due, builds, treeRevision, transferRevision, logRevision,
                    subscription, replies, link, up, mounted, client, mayViewLogs, mounts, faults>>
    BY DEF OpenLog, SendLog, queues
  <1>2. down' \in Seq(Messages)
    <2>1. CASE OpenLog(t)
      BY <2>1 DEF OpenLog, LinkTyped, queues
    <2>2. CASE SendLog
      <3>1. PICK x \in opened : Push(TRUE, <<x>>)
        BY <2>2 DEF SendLog
      <3>2. x \in Messages
        BY DEF SeenTyped, Messages
      <3>3. <<x>> \in Seq(Messages)
        BY <3>2
      <3> QED
        BY <3>1, <3>3, PushIs
    <2> QED
      BY <2>1, <2>2
  <1> QED
    BY <1>1, <1>2 DEF GameTyped, ServerTyped, LinkTyped, PageTyped

LEMMA BroadcastTypes ==
  ASSUME Typed, Broadcast
  PROVE  Typed'
  <1> USE DEF Typed
  <1>1. /\ due' = FALSE
        /\ builds' = IF subscription.tree
                     THEN Append(builds, Build("broadcast", CHOOSE s \in Slots : TRUE))
                     ELSE builds
        /\ UNCHANGED <<game, status, active, treeRevision, transferRevision, logRevision,
                       subscription, replies, queues, mounted, client, mayViewLogs, mounts, faults>>
    BY DEF Broadcast
  <1>2. PICK s \in Slots : s = CHOOSE x \in Slots : TRUE
    BY SlotsAreNat
  <1>3. Build("broadcast", s) \in Builds
    BY BuildIs DEF Purposes
  <1>4. builds' \in Seq(Builds)
    BY <1>1, <1>2, <1>3, AppendTo DEF ServerTyped
  <1> QED
    BY <1>1, <1>4 DEF GameTyped, ServerTyped, LinkTyped, PageTyped

\* A build that an instance answers, or that stops waiting for it.
LEMMA AnsweredBuildIs ==
  ASSUME NEW b \in Builds, NEW i \in Instances, NEW v \in Int
  PROVE  [b EXCEPT !.awaits = @ \ {i}, !.tree[i] = v] \in Builds
  <1>1. PICK f : f = [b.tree EXCEPT ![i] = v]
    OBVIOUS
  <1>2. f \in Trees
    BY <1>1 DEF Builds, Trees
  <1>3. PICK a : a = b.awaits \ {i}
    OBVIOUS
  <1>4. a \in SUBSET Instances
    BY <1>3 DEF Builds
  <1>5. [[b EXCEPT !.awaits = a] EXCEPT !.tree = f] \in Builds
    BY <1>2, <1>4 DEF Builds
  <1>6. [b EXCEPT !.awaits = @ \ {i}, !.tree[i] = v] = [[b EXCEPT !.awaits = a] EXCEPT !.tree = f]
    BY <1>1, <1>3
  <1> QED
    BY <1>5, <1>6

LEMMA InstanceAnswersTypes ==
  ASSUME Typed, NEW i \in Instances, InstanceAnswers(i)
  PROVE  Typed'
  <1> USE DEF Typed
  <1>1. PICK n \in DOMAIN builds :
          builds' = [builds EXCEPT ![n].awaits = @ \ {i}, ![n].tree[i] = world[i]]
    BY DEF InstanceAnswers
  <1>2. PICK b \in Builds : b = builds[n]
    BY DEF ServerTyped
  <1>3. PICK v \in Int : v = world[i]
    BY DEF GameTyped
  <1>4. PICK c : c = [b EXCEPT !.awaits = @ \ {i}, !.tree[i] = v]
    OBVIOUS
  <1>5. c \in Builds
    BY <1>4, AnsweredBuildIs
  <1>6. builds' = [builds EXCEPT ![n] = c]
    BY <1>1, <1>2, <1>3, <1>4
  <1>7. builds' \in Seq(Builds)
    BY <1>5, <1>6, ExceptSeq DEF ServerTyped
  <1>8. UNCHANGED <<game, status, active, due, treeRevision, transferRevision, logRevision,
                    subscription, replies, queues, mounted, client, mayViewLogs, mounts, faults>>
    BY DEF InstanceAnswers
  <1> QED
    BY <1>7, <1>8 DEF GameTyped, ServerTyped, LinkTyped, PageTyped

LEMMA GameTypes ==
  ASSUME Typed, NEW i \in Instances,
         PlatformsChange(i) \/ HostDrops(i) \/ HostResumes(i)
  PROVE  Typed'
  <1> USE DEF Typed
  <1>1. UNCHANGED <<status, active, builds, treeRevision, transferRevision, logRevision,
                    subscription, replies, queues, mounted, client, mayViewLogs, mounts>>
    BY DEF PlatformsChange, HostDrops, HostResumes
  <1>2. due' = TRUE /\ faults' \in Nat
    BY DEF PlatformsChange, HostDrops, HostResumes, QueueTreeBroadcast, GameTyped
  <1>3. world' \in [Instances -> Nat] /\ host' \in [Instances -> {"up", "dropped", "lost"}]
    BY DEF PlatformsChange, HostDrops, HostResumes, GameTyped
  <1> QED
    BY <1>1, <1>2, <1>3 DEF GameTyped, ServerTyped, LinkTyped, PageTyped

LEMMA HostLostTypes ==
  ASSUME Typed, NEW i \in Instances, HostLost(i)
  PROVE  Typed'
  <1> USE DEF Typed
  <1>1. /\ builds' = [n \in DOMAIN builds |->
             IF i \in builds[n].awaits
             THEN [builds[n] EXCEPT !.awaits = @ \ {i}, !.tree[i] = Failed] ELSE builds[n]]
        /\ host' = [host EXCEPT ![i] = "lost"] /\ due' = TRUE
        /\ UNCHANGED <<world, status, active, treeRevision, transferRevision, logRevision,
                       subscription, replies, queues, mounted, client, mayViewLogs, mounts, faults>>
    BY DEF HostLost, QueueTreeBroadcast
  <1>2. ASSUME NEW n \in DOMAIN builds PROVE builds'[n] \in Builds
    <2>1. PICK b \in Builds : b = builds[n]
      BY DEF ServerTyped
    <2>2. PICK v \in Int : v = Failed
      BY DEF Failed
    <2>3. [b EXCEPT !.awaits = @ \ {i}, !.tree[i] = v] \in Builds
      BY AnsweredBuildIs
    <2> QED
      BY <1>1, <2>1, <2>2, <2>3
  <1>3. PICK r : r = builds'
    OBVIOUS
  <1>4. DOMAIN r = DOMAIN builds /\ r = [n \in DOMAIN builds |-> r[n]]
    BY <1>1, <1>3
  <1>5. r \in Seq(Builds)
    BY <1>2, <1>3, <1>4, MapOf DEF ServerTyped
  <1>6. host' \in [Instances -> {"up", "dropped", "lost"}]
    BY <1>1 DEF GameTyped
  <1> QED
    BY <1>1, <1>3, <1>5, <1>6 DEF GameTyped, ServerTyped, LinkTyped, PageTyped

LEMMA TransferStepsTypes ==
  ASSUME Typed, NEW t \in Transfers, TransferSteps(t)
  PROVE  Typed'
  <1> USE DEF Typed
  <1>1. /\ status' = [status EXCEPT ![t] = @ + 1] /\ active' = active \cup {t}
        /\ Push(TRUE, TransferPushes(t, status'[t], subscription))
        /\ transferRevision' = transferRevision + 1 /\ logRevision' = logRevision + 1
        /\ UNCHANGED <<game, due, builds, treeRevision, subscription, replies, link, up, mounted,
                       client, mayViewLogs, mounts, faults>>
    BY DEF TransferSteps
  <1>2. status' \in [Transfers -> Nat] /\ status'[t] \in Nat
    BY <1>1 DEF GameTyped
  <1>3. PICK v \in Nat : v = status'[t]
    BY <1>2
  <1>4. TransferPushes(t, v, subscription) \in Seq(Messages)
    BY PushesAre DEF ServerTyped
  <1>5. Push(TRUE, TransferPushes(t, v, subscription))
    BY <1>1, <1>3
  <1>6. down' \in Seq(Messages)
    BY <1>4, <1>5, PushIs
  <1>7. active' \subseteq Transfers /\ IsFiniteSet(active')
    BY <1>1, FS_AddElement DEF ServerTyped
  <1> QED
    BY <1>1, <1>2, <1>6, <1>7 DEF GameTyped, ServerTyped, LinkTyped, PageTyped

LEMMA MountTypes ==
  ASSUME Typed, Mount
  PROVE  Typed'
  <1> USE DEF Typed
  <1>1. /\ mounts' = mounts + 1 /\ mounted' = ~mounted
        /\ Start(page, syncs, up, 0) \/ Skip
        /\ UNCHANGED <<game, status, server, link, down, lastEvent, generation, timer, mayViewLogs,
                       faults>>
    BY DEF Mount
  <1>2. mounted' \in BOOLEAN /\ mounts' \in Nat
    BY <1>1 DEF GameTyped
  <1>3. page \in Pages /\ syncs \in [Slots -> Syncs] /\ up \in Seq(Requests)
    BY DEF PageTyped, LinkTyped
  <1>4. page' \in Pages /\ syncs' \in [Slots -> Syncs] /\ up' \in Seq(Requests)
    <2>1. CASE Start(page, syncs, up, 0)
      BY <1>2, <1>3, <2>1, StartTypes
    <2>2. CASE Skip
      <3>1. page' = [page EXCEPT !.live = NextLiveStatus(@, FALSE, lastEvent, "skipped")]
            /\ UNCHANGED <<syncs, up>>
        BY <2>2 DEF Skip
      <3> QED
        BY <1>3, <3>1, LiveIs
    <2> QED
      BY <1>1, <2>1, <2>2
  <1> QED
    BY <1>1, <1>2, <1>4 DEF GameTyped, ServerTyped, LinkTyped, PageTyped

LEMMA RetryTypes ==
  ASSUME Typed, TimerFires \/ LinkResumes
  PROVE  Typed'
  <1> USE DEF Typed
  <1>1. /\ UNCHANGED <<game, status, server, down, mounted, mayViewLogs, mounts, faults>>
        /\ timer' = FALSE /\ generation' \in Nat /\ generation \in Nat
        /\ lastEvent' \in Events /\ link' \in {"up", "dropped", "lost"}
        /\ Start(page, syncs, up, generation')
    BY DEF TimerFires, LinkResumes, PageTyped, LinkTyped, Events
  <1>2. page \in Pages /\ syncs \in [Slots -> Syncs] /\ up \in Seq(Requests) /\ mounted' \in BOOLEAN
    BY <1>1 DEF PageTyped, LinkTyped, GameTyped
  <1>3. PICK loop \in Nat : loop = generation'
    BY <1>1
  <1>4. Start(page, syncs, up, loop)
    BY <1>1, <1>3
  <1>5. page' \in Pages /\ syncs' \in [Slots -> Syncs] /\ up' \in Seq(Requests)
    BY <1>2, <1>4, StartTypes
  <1> QED
    BY <1>1, <1>5 DEF GameTyped, ServerTyped, LinkTyped, PageTyped

LEMMA FreshIs ==
  ASSUME NEW base \in Pages
  PROVE  Fresh(base) \in Pages
  BY DEF Fresh, Pages

LEMMA LinkConnectsTypes ==
  ASSUME Typed, LinkConnects
  PROVE  Typed'
  <1> USE DEF Typed
  <1>1. /\ UNCHANGED <<game, status, server, mounted, mayViewLogs, mounts, faults>>
        /\ timer' = FALSE /\ generation' \in Nat /\ down' = <<>>
        /\ lastEvent' \in Events /\ link' \in {"up", "dropped", "lost"}
        /\ Start(Fresh(page), [s \in Slots |-> Idle], <<>>, generation')
    BY DEF LinkConnects, PageTyped, LinkTyped, Events
  <1>2. PICK base \in Pages : base = Fresh(page)
    BY FreshIs DEF PageTyped
  <1>3. PICK table \in [Slots -> Syncs] : table = [s \in Slots |-> Idle]
    BY IdleIs
  <1>4. PICK loop \in Nat : loop = generation'
    BY <1>1
  <1>5. PICK queue \in Seq(Requests) : queue = <<>>
    <2>1. <<>> \in Seq(Requests)
      OBVIOUS
    <2> QED
      BY <2>1, Zenon
  <1>6. Start(base, table, queue, loop)
    BY <1>1, <1>2, <1>3, <1>4, <1>5, Zenon
  <1>7. mounted' \in BOOLEAN
    BY <1>1 DEF GameTyped
  <1>8. page' \in Pages /\ syncs' \in [Slots -> Syncs] /\ up' \in Seq(Requests)
    BY <1>6, <1>7, StartTypes
  <1>9. down' \in Seq(Messages)
    BY <1>1
  <1> QED
    BY <1>1, <1>8, <1>9 DEF GameTyped, ServerTyped, LinkTyped, PageTyped

LEMMA LinkDropsTypes ==
  ASSUME Typed, LinkDrops
  PROVE  Typed'
  <1> USE DEF Typed
  <1>1. page' \in Pages
    BY LiveIs DEF LinkDrops, PageTyped
  <1>2. faults' \in Nat /\ generation' \in Nat
    BY DEF LinkDrops, GameTyped, PageTyped
  <1>3. /\ UNCHANGED <<game, status, server, up, down, mounted, syncs, mayViewLogs, mounts>>
        /\ link' = "dropped" /\ lastEvent' = "drop" /\ timer' = FALSE
    BY DEF LinkDrops
  <1> QED
    BY <1>1, <1>2, <1>3 DEF GameTyped, ServerTyped, LinkTyped, PageTyped, Events

\* What was awaited for the page is for nobody.
LEMMA OrphanedIs ==
  ASSUME NEW q \in Seq(Builds), NEW r, r = Orphaned(q)
  PROVE  /\ r \in Seq(Builds) /\ DOMAIN r = DOMAIN q
         /\ \A n \in DOMAIN q : r[n].for \notin {"subscribe", "fetch"}
  <1>1. DOMAIN r = DOMAIN q /\ r = [n \in DOMAIN q |-> r[n]]
    BY DEF Orphaned
  <1>2. ASSUME NEW n \in DOMAIN q
        PROVE  r[n] \in Builds /\ r[n].for \notin {"subscribe", "fetch"}
    <2>1. PICK b \in Builds : b = q[n]
      OBVIOUS
    <2>2. r[n] = IF b.for \in {"subscribe", "fetch"} THEN [b EXCEPT !.for = "nobody"] ELSE b
      BY <2>1 DEF Orphaned
    <2>3. [b EXCEPT !.for = "nobody"] \in Builds /\ [b EXCEPT !.for = "nobody"].for = "nobody"
      BY DEF Builds, Purposes
    <2> QED
      BY <2>2, <2>3
  <1>3. r \in Seq(Builds)
    BY <1>1, <1>2, MapOf
  <1> QED
    BY <1>1, <1>2, <1>3

LEMMA SessionLostTypes ==
  ASSUME Typed, SessionLost
  PROVE  Typed'
  <1> USE DEF Typed
  <1>1. /\ link' = "lost" /\ subscription' = None /\ builds' = Orphaned(builds) /\ replies' = {}
        /\ lastEvent' \in {lastEvent, "close"} /\ generation' = generation + 1
        /\ page' = [page EXCEPT !.live = NextLiveStatus(@, FALSE, lastEvent', "none")]
        /\ UNCHANGED <<game, status, active, due, treeRevision, transferRevision, logRevision, up,
                       down, mounted, syncs, timer, mayViewLogs, mounts, faults>>
    BY DEF SessionLost
  <1>2. PICK event \in Events : event = lastEvent'
    BY <1>1 DEF PageTyped, Events
  <1>3. page' \in Pages
    BY <1>1, <1>2, LiveIs DEF PageTyped
  <1>4. builds' \in Seq(Builds)
    BY <1>1, OrphanedIs DEF ServerTyped
  <1> QED
    BY <1>1, <1>2, <1>3, <1>4, SubscriptionIs DEF GameTyped, ServerTyped, LinkTyped, PageTyped

LEMMA ControllerRestartsTypes ==
  ASSUME Typed, ControllerRestarts
  PROVE  Typed'
  <1> USE DEF Typed
  <1>1. /\ faults' \in Nat /\ active' = {} /\ builds' = <<>> /\ replies' = {}
        /\ subscription' = None /\ treeRevision' = 0 /\ transferRevision' = 0 /\ logRevision' = 0
        /\ due' = TRUE /\ link' = "lost" /\ lastEvent' = (IF Connected THEN "drop" ELSE lastEvent)
        /\ page' = [page EXCEPT !.live = NextLiveStatus(@, FALSE, lastEvent', "none")]
        /\ generation' \in Nat /\ timer' = FALSE
        /\ status' \in [Transfers -> Nat]
        /\ UNCHANGED <<game, up, down, mounted, syncs, mayViewLogs, mounts>>
    BY DEF ControllerRestarts, Known, QueueTreeBroadcast, GameTyped, PageTyped
  <1>2. PICK event \in Events : event = lastEvent'
    BY <1>1 DEF PageTyped, Events
  <1>3. page' \in Pages
    BY <1>1, <1>2, LiveIs DEF PageTyped
  <1>4. builds' \in Seq(Builds) /\ IsFiniteSet(active')
    BY <1>1, FS_EmptySet
  <1> QED
    BY <1>1, <1>2, <1>3, <1>4, SubscriptionIs DEF GameTyped, ServerTyped, LinkTyped, PageTyped

LEMMA TypedStep ==
  ASSUME Typed, SeenTyped, [Next]_vars
  PROVE  Typed'
  <1>1. CASE UNCHANGED vars
    BY <1>1 DEF Typed, GameTyped, ServerTyped, LinkTyped, PageTyped
  <1>2. CASE Next
    <2>1. SendLog => Typed'
      <3>1. SendLog => \E t : t \in Transfers
        BY DEF SendLog, SeenTyped, Logs
      <3> QED
        BY <3>1, LogTypes, Zenon
    <2> QED
      BY <1>2, <2>1, HandleTypes, BuildDoneTypes, ReceiveTypes, SendReplyTypes, BroadcastTypes,
         InstanceAnswersTypes, GameTypes, HostLostTypes, TransferStepsTypes, LogTypes, MountTypes,
         RetryTypes, LinkConnectsTypes, LinkDropsTypes, SessionLostTypes, ControllerRestartsTypes,
         Zenon DEF Next
  <1> QED
    BY <1>1, <1>2

LEMMA SeenKept ==
  ASSUME \/ Handle \/ HandleFails \/ SendReply \/ Broadcast \/ BuildDone
         \/ \E i \in Instances : \/ InstanceAnswers(i) \/ PlatformsChange(i)
                                 \/ HostDrops(i) \/ HostResumes(i) \/ HostLost(i)
         \/ \E t \in Transfers : TransferSteps(t)
         \/ Mount \/ TimerFires \/ LinkDrops \/ LinkResumes
  PROVE  UNCHANGED <<opened, told, missed>>
  <1>1. CASE Handle \/ HandleFails \/ SendReply \/ Broadcast
    BY <1>1, Zenon DEF Handle, HandleFails, SendReply, Broadcast, seen, server
  <1>2. CASE BuildDone
    BY <1>2, Zenon DEF BuildDone, seen
  <1>3. CASE \E i \in Instances : \/ InstanceAnswers(i) \/ PlatformsChange(i)
                                  \/ HostDrops(i) \/ HostResumes(i) \/ HostLost(i)
    BY <1>3, Zenon DEF InstanceAnswers, PlatformsChange, HostDrops, HostResumes, HostLost, seen
  <1>4. CASE \E t \in Transfers : TransferSteps(t)
    BY <1>4, Zenon DEF TransferSteps, seen
  <1>5. CASE Mount \/ TimerFires \/ LinkDrops \/ LinkResumes
    BY <1>5, Zenon DEF Mount, TimerFires, LinkDrops, LinkResumes, seen, server
  <1> QED
    BY <1>1, <1>2, <1>3, <1>4, <1>5

LEMMA SeenTypedStep ==
  ASSUME Typed, SeenTyped, [Next]_vars
  PROVE  SeenTyped'
  <1>1. CASE UNCHANGED <<opened, told, missed>>
    BY <1>1 DEF SeenTyped
  <1>2. ASSUME NEW t \in Transfers, OpenLog(t) PROVE SeenTyped'
    <2>1. status[t] \in Nat
      BY DEF Typed, GameTyped
    <2>2. [kind |-> "opened", t |-> t, v |-> status[t]] \in Logs
      BY <2>1 DEF Logs
    <2> QED
      BY <1>2, <2>2 DEF OpenLog, SeenTyped, seen
  <1>3. CASE SendLog
    BY <1>3 DEF SendLog, SeenTyped, seen
  <1>4. CASE SessionLost \/ ControllerRestarts \/ LinkConnects
    <2>1. opened' = {} \/ opened' = opened
      BY <1>4, Zenon DEF SessionLost, ControllerRestarts, LinkConnects, server
    <2>2. UNCHANGED <<told, missed>> \/ (told' = {} /\ missed' = {})
      BY <1>4, Zenon DEF SessionLost, ControllerRestarts, LinkConnects, seen
    <2> QED
      BY <2>1, <2>2 DEF SeenTyped
  <1>5. CASE Receive
    <2>1. PICK m : m = Head(down)
      OBVIOUS
    <2>2. m \in Messages
      BY <1>5, <2>1, TailFrom DEF Receive, Typed, LinkTyped
    <2>3. m.kind \in {"transfer", "log", "opened"} => m.t \in Transfers
      BY <2>2, MessageIs
    <2>4. opened' = opened
      BY <1>5, Zenon DEF Receive, server
    <2>5. told' \subseteq Transfers /\ missed' \subseteq Transfers
      <3>1. \/ UNCHANGED <<told, missed>>
            \/ told' = told /\ missed' = Transfers
            \/ told' = Transfers /\ missed' \subseteq missed
            \/ /\ m.kind \in {"transfer", "log", "opened"} /\ told' = told \cup {m.t}
               /\ missed' \subseteq missed \cup {m.t}
        <4>1. \/ UNCHANGED seen \/ AnswerFetchError(m) \/ AnswerList(m)
              \/ TransferUpdate(m) \/ LogUpdate(m) \/ LogOpened(m)
          BY <1>5, <2>1, Zenon DEF Receive
        <4>2. CASE UNCHANGED seen
          BY <4>2 DEF seen
        <4>3. CASE AnswerFetchError(m)
          BY <4>3 DEF AnswerFetchError
        <4>4. CASE AnswerList(m)
          BY <4>4 DEF AnswerList
        <4>5. CASE TransferUpdate(m) \/ LogUpdate(m)
          BY <4>5 DEF TransferUpdate, LogUpdate, Touch, seen
        <4>6. CASE LogOpened(m)
          BY <4>6 DEF LogOpened, Touch
        <4> QED
          BY <4>1, <4>2, <4>3, <4>4, <4>5, <4>6
      <3> QED
        BY <2>3, <3>1 DEF SeenTyped
    <2> QED
      BY <2>4, <2>5 DEF SeenTyped
  <1>6. CASE UNCHANGED vars
    BY <1>1, <1>6 DEF vars, seen, server
  <1>7. CASE Next
    <2>1. CASE \/ Handle \/ HandleFails \/ SendReply \/ Broadcast \/ BuildDone
               \/ \E i \in Instances : \/ InstanceAnswers(i) \/ PlatformsChange(i)
                                       \/ HostDrops(i) \/ HostResumes(i) \/ HostLost(i)
               \/ \E t \in Transfers : TransferSteps(t)
               \/ Mount \/ TimerFires \/ LinkDrops \/ LinkResumes
      BY <1>1, <2>1, SeenKept, Zenon
    <2> QED
      BY <1>2, <1>3, <1>4, <1>5, <1>7, <2>1, Zenon DEF Next
  <1> QED
    BY <1>6, <1>7

LEMMA TypedAlways == Spec => [](Typed /\ SeenTyped)
  <1>1. Init => SeenTyped
    BY DEF Init, SeenTyped
  <1> QED
    BY <1>1, TypedInit, TypedStep, SeenTypedStep, PTL DEF Spec

\* TypeOK: whatever is answered, dropped or forgotten, every list, number and message
\* of the controller, the link and the page is of its kind.
THEOREM TypesAlways == Spec => []TypeOK
  BY TypedAlways, TypedIsTypeOK, PTL

-----------------------------------------------------------------------------
(* A synchronisation awaits one answer. *)

LEMMA OneAnswerInit == Init => OneAnswer
  <1> SUFFICES ASSUME Init PROVE OneAnswer
    OBVIOUS
  <1>1. up = <<>> /\ builds = <<>> /\ replies = {} /\ down = <<>>
    BY DEF Init
  <1>2. Asked(up) = {} /\ OnceAsked(up)
    BY <1>1 DEF Asked, OnceAsked
  <1>3. Awaited(builds) = {} /\ Computed(builds) = {} /\ OnceComputed(builds)
    BY <1>1, ComputedNone
  <1>4. Sent(down) = {} /\ OnceSent(down)
    BY <1>1, SentNone
  <1>5. Ready(replies) = {} /\ OnceReady(replies)
    BY <1>1 DEF Ready, OnceReady
  <1>6. Waiting = {}
    BY <1>2, <1>3, <1>4, <1>5 DEF Waiting
  <1> QED
    BY <1>1, <1>2, <1>3, <1>4, <1>5, <1>6 DEF OneAnswer, Alone, Fit

\* One more answer is on its way.
LEMMA AnswerSent ==
  ASSUME Typed, NEW m \in Messages, Push(TRUE, <<m>>), OnceSent(down),
         \A x \in Sent(down) : x.id # m.id
  PROVE  OnceSent(down') /\ \A x \in Sent(down') : x \in Sent(down) \/ x = Token("down", m.id, m.kind)
  <1>1. PICK e \in Seq(Messages) : e = <<m>>
    <2>1. <<m>> \in Seq(Messages)
      OBVIOUS
    <2> QED
      BY <2>1, Zenon
  <1>2. OnceSent(e) /\ \A x \in Sent(e) : x = Token("down", m.id, m.kind) /\ x.id = m.id
    BY <1>1, SentOne, TokenIs
  <1>3. down' = down \o e
    BY <1>1 DEF Push
  <1>4. PICK q \in Seq(Messages) : q = down
    BY DEF Typed, LinkTyped
  <1>5. PICK r : r = q \o e
    OBVIOUS
  <1>6. OnceSent(r) /\ \A x \in Sent(r) : x \in Sent(q) \/ x \in Sent(e)
    <2>1. OnceSent(q) /\ \A x \in Sent(q), y \in Sent(e) : x.id # y.id
      BY <1>2, <1>4
    <2> QED
      BY <1>2, <1>5, <2>1, SentJoined
  <1> QED
    BY <1>2, <1>3, <1>4, <1>5, <1>6

\* Tokens in the same place have other synchronisations than one that is elsewhere.
LEMMA ElsewhereNone ==
  ASSUME OneAnswer, NEW a \in Waiting
  PROVE  /\ a.at # "up" => \A x \in Asked(up) : x.id # a.id
         /\ a.at # "builds" => \A x \in Computed(builds) : x.id # a.id
         /\ a.at # "replies" => \A x \in Ready(replies) : x.id # a.id
         /\ a.at # "down" => \A x \in Sent(down) : x.id # a.id
  <1>1. \A x \in Waiting : x.id = a.id => x = a
    BY DEF OneAnswer, Alone
  <1> QED
    BY <1>1, PlacesAre DEF Waiting

\* The same of the tokens there are.
LEMMA TokensMove ==
  ASSUME OneAnswer, NEW s \in Slots, NEW b,
         \A x \in Waiting' : (x \in Waiting /\ x.id # s) \/ x = b,
         b.id = s, syncs'[s].step \in Steps(b.kind),
         \A y \in Slots \ {s} : syncs'[y].step = syncs[y].step
  PROVE  Alone(Waiting') /\ Fit(Waiting', syncs')
  <1>1. PICK W, V, t, u : W = Waiting /\ V = Waiting' /\ t = syncs /\ u = syncs'
    OBVIOUS
  <1>2. Alone(W) /\ Fit(W, t)
    BY <1>1 DEF OneAnswer
  <1>3. \A x \in V : (x \in W /\ x.id # s) \/ x = b
    BY <1>1
  <1>4. u[s].step \in Steps(b.kind) /\ \A y \in Slots \ {s} : u[y].step = t[y].step
    BY <1>1
  <1>5. Alone(V) /\ Fit(V, u)
    BY <1>2, <1>3, <1>4, Moved
  <1> QED
    BY <1>1, <1>5

LEMMA TokensLeave ==
  ASSUME OneAnswer, NEW s \in Slots, \A x \in Waiting' : x \in Waiting /\ x.id # s,
         \A y \in Slots \ {s} : syncs'[y].step = syncs[y].step
  PROVE  Alone(Waiting') /\ Fit(Waiting', syncs')
  <1>1. PICK W, V, t, u : W = Waiting /\ V = Waiting' /\ t = syncs /\ u = syncs'
    OBVIOUS
  <1>2. Alone(W) /\ Fit(W, t)
    BY <1>1 DEF OneAnswer
  <1>3. \A x \in V : x \in W /\ x.id # s
    BY <1>1
  <1>4. \A y \in Slots \ {s} : u[y].step = t[y].step
    BY <1>1
  <1>5. Alone(V) /\ Fit(V, u)
    BY <1>2, <1>3, <1>4, Left
  <1> QED
    BY <1>1, <1>5

LEMMA TokensStay ==
  ASSUME OneAnswer, \A x \in Waiting' : x \in Waiting,
         \A y \in Slots : syncs'[y].step = syncs[y].step
  PROVE  Alone(Waiting') /\ Fit(Waiting', syncs')
  <1>1. PICK W, V, t, u : W = Waiting /\ V = Waiting' /\ t = syncs /\ u = syncs'
    OBVIOUS
  <1>2. Alone(W) /\ Fit(W, t)
    BY <1>1 DEF OneAnswer
  <1>3. V \subseteq W
    BY <1>1
  <1>4. \A y \in Slots : u[y].step = t[y].step
    BY <1>1
  <1>5. Alone(V) /\ Fit(V, u)
    BY <1>2, <1>3, <1>4, Fewer
  <1> QED
    BY <1>1, <1>5

LEMMA HandleOneAnswer ==
  ASSUME Typed, OneAnswer, Handle \/ HandleFails
  PROVE  OneAnswer'
  <1>1. /\ up # <<>> /\ up' = Tail(up) /\ UNCHANGED <<syncs, link, status>> /\ link = "up"
    BY DEF Handle, HandleFails, Connected
  <1>2. PICK q \in Seq(Requests) : q = up
    BY DEF Typed, LinkTyped
  <1>3. PICK r \in Requests : r = q[1] /\ r = Head(up)
    BY <1>1, <1>2, TailFrom
  <1>4. PICK a : a = Token("up", r.id, r.kind)
    OBVIOUS
  <1>5. /\ OnceAsked(up') /\ a \in Asked(up)
        /\ \A x \in Asked(up') : x \in Asked(up) /\ x.id # r.id
    BY <1>1, <1>2, <1>3, <1>4, AskedTail DEF OneAnswer
  <1>6. a.id = r.id /\ a.kind = r.kind /\ a.at = "up" /\ a \in Waiting
    BY <1>4, <1>5, TokenIs DEF Waiting
  <1>7. /\ \A x \in Computed(builds) : x.id # r.id
        /\ \A x \in Ready(replies) : x.id # r.id
        /\ \A x \in Sent(down) : x.id # r.id
    BY <1>6, ElsewhereNone
  <1>8. r.id \in Slots /\ syncs[r.id].step \in Steps(r.kind)
    BY <1>6 DEF OneAnswer, Fit
  <1>9. OnceComputed(builds) /\ OnceReady(replies) /\ OnceSent(down) /\ Alone(Waiting)
        /\ Fit(Waiting, syncs) /\ (\A x \in replies : x.kind = "listAnswer") /\ ~(link' = "lost")
    BY <1>1 DEF OneAnswer
  <1>10. ASSUME NEW k \in {"ok", "denied", "error", "fetchError"},
                k = "fetchError" <=> r.kind # "subscribe",
                Push(TRUE, <<[kind |-> k, id |-> r.id]>>), UNCHANGED <<builds, replies>>
         PROVE  OneAnswer'
    <2>1. PICK m \in Messages : m = [kind |-> k, id |-> r.id]
      BY <1>8, NewMessages DEF Messages
    <2>2. PICK b : b = Token("down", r.id, k)
      OBVIOUS
    <2>3. OnceSent(down') /\ \A x \in Sent(down') : x \in Sent(down) \/ x = b
      <3>1. m.id = r.id /\ m.kind = k
        BY <2>1
      <3>2. Push(TRUE, <<m>>)
        BY <1>10, <2>1
      <3> QED
        BY <1>7, <1>9, <2>2, <3>1, <3>2, AnswerSent
    <2>4. \A x \in Waiting' : (x \in Waiting /\ x.id # r.id) \/ x = b
      BY <1>5, <1>7, <1>10, <2>3 DEF Waiting
    <2>5. b.id = r.id /\ syncs[r.id].step \in Steps(b.kind)
      <3>1. r.kind \in {"subscribe", "tree", "list"}
        BY RequestIs
      <3> QED
        BY <1>8, <1>10, <2>2, <3>1, TokenIs DEF Steps
    <2>6. Alone(Waiting') /\ Fit(Waiting', syncs')
      BY <1>1, <1>8, <2>4, <2>5, TokensMove
    <2> QED
      BY <1>1, <1>5, <1>9, <1>10, <2>3, <2>6 DEF OneAnswer
  <1>11. ASSUME NEW for \in {"subscribe", "fetch"},
                for = "subscribe" => r.kind = "subscribe", for = "fetch" => r.kind = "tree",
                builds' = Append(builds, Build(for, r.id)), UNCHANGED <<down, replies>>
         PROVE  OneAnswer'
    <2>1. PICK e \in Builds : e = Build(for, r.id)
      BY <1>8, BuildIs DEF Purposes
    <2>2. e.for = for /\ e.id = r.id
      BY <2>1 DEF Build
    <2>3. PICK b : b = Token("builds", r.id, for)
      OBVIOUS
    <2>4. OnceComputed(builds') /\ \A x \in Computed(builds') : x \in Computed(builds) \/ x = b
      <3>1. PICK s \in Seq(Builds) : s = builds
        BY DEF Typed, ServerTyped
      <3>2. builds' = Append(s, e)
        BY <1>11, <2>1, <3>1
      <3> QED
        <4>1. OnceComputed(s) /\ \A x \in Computed(s) : x.id # e.id
          BY <1>7, <1>9, <2>2, <3>1
        <4>2. PICK z : z = Append(s, e)
          OBVIOUS
        <4>3. OnceComputed(z) /\ \A x \in Computed(z) : x \in Computed(s) \/ x = Token("builds", e.id, e.for)
          BY <4>1, <4>2, ComputedAppend
        <4> QED
          BY <2>2, <2>3, <3>1, <3>2, <4>2, <4>3
    <2>5. \A x \in Waiting' : (x \in Waiting /\ x.id # r.id) \/ x = b
      BY <1>5, <1>7, <1>11, <2>4 DEF Waiting
    <2>6. b.id = r.id /\ syncs[r.id].step \in Steps(b.kind)
      BY <1>8, <1>11, <2>3, TokenIs DEF Steps
    <2>7. Alone(Waiting') /\ Fit(Waiting', syncs')
      BY <1>1, <1>8, <2>5, <2>6, TokensMove
    <2> QED
      BY <1>1, <1>5, <1>9, <1>11, <2>4, <2>7 DEF OneAnswer
  <1>12. ASSUME r.kind = "list", UNCHANGED <<down, builds>>,
                replies' = replies \cup {[kind |-> "listAnswer", id |-> r.id, list |-> status]}
         PROVE  OneAnswer'
    <2>1. PICK y : y = [kind |-> "listAnswer", id |-> r.id, list |-> status]
      OBVIOUS
    <2>2. y.id = r.id /\ y.kind = "listAnswer" /\ replies' = replies \cup {y}
      BY <1>12, <2>1
    <2>3. PICK b : b = Token("replies", r.id, "listAnswer")
      OBVIOUS
    <2>4. \A x \in Ready(replies') : x \in Ready(replies) \/ x = b
      BY <2>2, <2>3 DEF Ready
    <2>5. OnceReady(replies')
      <3>1. \A x \in replies : x.id # r.id
        BY <1>7, TokenIs DEF Ready
      <3> QED
        BY <1>9, <2>2, <3>1 DEF OnceReady
    <2>6. \A x \in Waiting' : (x \in Waiting /\ x.id # r.id) \/ x = b
      BY <1>5, <1>7, <1>12, <2>4 DEF Waiting
    <2>7. b.id = r.id /\ syncs[r.id].step \in Steps(b.kind)
      BY <1>8, <1>12, <2>3, TokenIs DEF Steps
    <2>8. Alone(Waiting') /\ Fit(Waiting', syncs')
      BY <1>1, <1>8, <2>6, <2>7, TokensMove
    <2>9. \A x \in replies' : x.kind = "listAnswer"
      BY <1>9, <2>2
    <2> QED
      BY <1>1, <1>5, <1>9, <1>12, <2>5, <2>8, <2>9 DEF OneAnswer
  <1>13. CASE HandleFails
    <2>1. PICK k : k = IF r.kind = "subscribe" THEN "error" ELSE "fetchError"
      OBVIOUS
    <2>2. UNCHANGED <<builds, replies>> /\ Push(TRUE, <<[kind |-> k, id |-> r.id]>>)
      BY <1>3, <1>13, <2>1 DEF HandleFails, server
    <2>3. k \in {"ok", "denied", "error", "fetchError"} /\ (k = "fetchError" <=> r.kind # "subscribe")
      BY <2>1
    <2> QED
      BY <1>10, <2>2, <2>3
  <1>14. CASE Handle
    <2>1. CASE r.kind = "subscribe" /\ SetSubscription(r) /\ UNCHANGED replies
      <3>1. \/ Push(TRUE, <<[kind |-> "denied", id |-> r.id]>>) /\ UNCHANGED builds
            \/ Push(TRUE, <<[kind |-> "ok", id |-> r.id]>>) /\ UNCHANGED builds
            \/ builds' = Append(builds, Build("subscribe", r.id)) /\ UNCHANGED down
        BY <2>1 DEF SetSubscription
      <3> QED
        BY <1>10, <1>11, <2>1, <3>1
    <2>2. CASE r.kind = "tree" /\ builds' = Append(builds, Build("fetch", r.id))
               /\ UNCHANGED <<subscription, replies, down>>
      BY <1>11, <2>2
    <2>3. CASE r.kind = "list"
               /\ replies' = replies \cup {[kind |-> "listAnswer", id |-> r.id, list |-> status]}
               /\ UNCHANGED <<subscription, builds, down>>
      BY <1>12, <2>3
    <2> QED
      BY <1>3, <1>14, <2>1, <2>2, <2>3 DEF Handle
  <1> QED
    BY <1>13, <1>14

LEMMA SendReplyOneAnswer ==
  ASSUME Typed, OneAnswer, SendReply
  PROVE  OneAnswer'
  <1>1. PICK y \in replies : replies' = replies \ {y} /\ Push(TRUE, <<y>>)
    BY DEF SendReply
  <1>2. UNCHANGED <<builds, up, syncs, link>>
    BY DEF SendReply
  <1>3. PICK a : a = Token("replies", y.id, y.kind)
    OBVIOUS
  <1>4. a \in Waiting /\ a.id = y.id /\ a.kind = y.kind /\ a.at = "replies"
    BY <1>3, TokenIs DEF Waiting, Ready
  <1>5. y \in Messages /\ y.id \in Slots /\ syncs[y.id].step \in Steps(y.kind)
    <2>1. y \in Messages
      BY DEF Typed, ServerTyped, Messages
    <2> QED
      BY <1>4, <2>1 DEF OneAnswer, Fit
  <1>6. /\ \A x \in Asked(up) : x.id # y.id
        /\ \A x \in Computed(builds) : x.id # y.id
        /\ \A x \in Sent(down) : x.id # y.id
    BY <1>4, ElsewhereNone
  <1>7. OnceReady(replies') /\ \A x \in Ready(replies') : x \in Ready(replies) /\ x.id # y.id
    <2>1. \A x \in replies' : x \in replies /\ x.id # y.id
      BY <1>1 DEF OneAnswer, OnceReady
    <2> QED
      BY <2>1, TokenIs DEF OneAnswer, OnceReady, Ready
  <1>8. PICK b : b = Token("down", y.id, y.kind)
    OBVIOUS
  <1>9. OnceSent(down') /\ \A x \in Sent(down') : x \in Sent(down) \/ x = b
    BY <1>1, <1>5, <1>6, <1>8, AnswerSent DEF OneAnswer
  <1>10. \A x \in Waiting' : (x \in Waiting /\ x.id # y.id) \/ x = b
    BY <1>2, <1>6, <1>7, <1>9 DEF Waiting
  <1>11. b.id = y.id /\ syncs[y.id].step \in Steps(b.kind)
    BY <1>5, <1>8, TokenIs
  <1>12. Alone(Waiting') /\ Fit(Waiting', syncs')
    BY <1>2, <1>5, <1>10, <1>11, TokensMove
  <1> QED
    BY <1>1, <1>2, <1>7, <1>9, <1>12 DEF OneAnswer

LEMMA BuildDoneOneAnswer ==
  ASSUME Typed, OneAnswer, BuildDone
  PROVE  OneAnswer'
  <1>1. PICK n \in DOMAIN builds, e \in Seq(Messages) :
          /\ builds' = Without(builds, n)
          /\ down' = down \/ down' = down \o e
          /\ OnceSent(e)
          /\ \A x \in Sent(e) :
               /\ n \in Awaited(builds)
               /\ x = Token("down", builds[n].id,
                            IF builds[n].for = "subscribe" THEN "ok" ELSE "treeAnswer")
    BY BuildDoneIs
  <1>2. UNCHANGED <<up, replies, syncs, link>>
    BY BuildDoneIs
  <1>3. PICK q \in Seq(Builds) : q = builds
    BY DEF Typed, ServerTyped
  <1>4. PICK b \in Builds : b = builds[n]
    BY <1>3
  <1>5. /\ OnceComputed(builds')
        /\ \A x \in Computed(builds') : x \in Computed(builds) /\ (n \in Awaited(builds) => x.id # b.id)
        /\ n \in Awaited(builds) => Token("builds", b.id, b.for) \in Computed(builds)
        /\ Awaited(builds) = {} => Awaited(builds') = {}
    <2>1. builds' = Without(q, n) /\ OnceComputed(q) /\ n \in DOMAIN q
      BY <1>1, <1>3 DEF OneAnswer
    <2> QED
      BY <1>3, <1>4, <2>1, WithoutIs
  <1>6. PICK down0 \in Seq(Messages) : down0 = down
    BY DEF Typed, LinkTyped
  <1>7. CASE n \in Awaited(builds)
    <2>1. PICK a : a = Token("builds", b.id, b.for)
      OBVIOUS
    <2>2. a \in Waiting /\ a.id = b.id /\ a.kind = b.for /\ a.at = "builds"
      BY <1>5, <1>7, <2>1, TokenIs DEF Waiting
    <2>3. b.for \in {"subscribe", "fetch"} /\ b.id \in Slots /\ syncs[b.id].step \in Steps(b.for)
      BY <1>4, <1>7, <2>2 DEF OneAnswer, Fit, Awaited
    <2>4. /\ \A x \in Asked(up) : x.id # b.id
          /\ \A x \in Ready(replies) : x.id # b.id
          /\ \A x \in Sent(down) : x.id # b.id
      BY <2>2, ElsewhereNone
    <2>5. PICK k : k = IF b.for = "subscribe" THEN "ok" ELSE "treeAnswer"
      OBVIOUS
    <2>6. PICK c : c = Token("down", b.id, k)
      OBVIOUS
    <2>7. c.id = b.id /\ syncs[b.id].step \in Steps(c.kind)
      BY <2>3, <2>5, <2>6, TokenIs DEF Steps
    <2>8. \A x \in Sent(e) : x = c
      BY <1>1, <1>4, <2>5, <2>6
    <2>9. OnceSent(down') /\ \A x \in Sent(down') : x \in Sent(down) \/ x = c
      <3>1. CASE down' = down
        BY <3>1 DEF OneAnswer
      <3>2. CASE down' = down \o e
        <4>1. PICK r : r = down0 \o e
          OBVIOUS
        <4>2. \A x \in Sent(down0), y \in Sent(e) : x.id # y.id
          BY <1>6, <2>4, <2>7, <2>8
        <4>3. OnceSent(r) /\ \A x \in Sent(r) : x \in Sent(down0) \/ x \in Sent(e)
          BY <1>1, <1>6, <4>1, <4>2, SentJoined DEF OneAnswer
        <4> QED
          BY <1>6, <2>8, <3>2, <4>1, <4>3
      <3> QED
        BY <1>1, <3>1, <3>2
    <2>10. \A x \in Waiting' : (x \in Waiting /\ x.id # b.id) \/ x = c
      BY <1>2, <1>5, <1>7, <2>4, <2>9 DEF Waiting
    <2>11. Alone(Waiting') /\ Fit(Waiting', syncs')
      BY <1>2, <2>3, <2>7, <2>10, TokensMove
    <2> QED
      BY <1>2, <1>5, <2>9, <2>11 DEF OneAnswer
  <1>8. CASE n \notin Awaited(builds)
    <2>1. \A x \in Sent(e) : FALSE
      BY <1>1, <1>8
    <2>2. OnceSent(down') /\ \A x \in Sent(down') : x \in Sent(down)
      <3>1. CASE down' = down
        BY <3>1 DEF OneAnswer
      <3>2. CASE down' = down \o e
        <4>1. PICK r : r = down0 \o e
          OBVIOUS
        <4>2. OnceSent(r) /\ \A x \in Sent(r) : x \in Sent(down0) \/ x \in Sent(e)
          BY <1>1, <1>6, <2>1, <4>1, SentJoined DEF OneAnswer
        <4> QED
          BY <1>6, <2>1, <3>2, <4>1, <4>2
      <3> QED
        BY <1>1, <3>1, <3>2
    <2>3. \A x \in Waiting' : x \in Waiting
      BY <1>2, <1>5, <2>2 DEF Waiting
    <2>4. Alone(Waiting') /\ Fit(Waiting', syncs')
      BY <1>2, <2>3, TokensStay
    <2> QED
      BY <1>2, <1>5, <2>2, <2>4 DEF OneAnswer
  <1> QED
    BY <1>7, <1>8

\* A synchronisation starts: its request goes to the end of the queue.
LEMMA StartIs ==
  ASSUME NEW base \in Pages, NEW table \in [Slots -> Syncs], NEW queue, NEW loop,
         mounted' \in BOOLEAN, Start(base, table, queue, loop)
  PROVE  \E s \in Slots, e \in Requests :
           /\ table[s].step = "idle" /\ e.id = s /\ e.kind = "subscribe"
           /\ up' = Append(queue, e) /\ page' = base
           /\ syncs'[s].step = "subscribe" /\ syncs'[s].touched = {}
           /\ \A y \in Slots \ {s} : syncs'[y] = table[y]
  <1>1. PICK s \in Slots :
          /\ table[s].step = "idle"
          /\ syncs' = [table EXCEPT ![s] =
               [Idle EXCEPT !.step = "subscribe", !.enable = mounted', !.loop = loop]]
          /\ up' = Append(queue, [kind |-> "subscribe", id |-> s, enable |-> mounted',
                                  logs |-> mounted' /\ base.canViewLogs])
          /\ page' = base
    BY DEF Start
  <1>2. (mounted' /\ base.canViewLogs) \in BOOLEAN
    OBVIOUS
  <1>3. PICK logs \in BOOLEAN : logs = (mounted' /\ base.canViewLogs)
    BY <1>2
  <1>4. PICK e \in Requests : e = [kind |-> "subscribe", id |-> s, enable |-> mounted', logs |-> logs]
    BY NewMessages
  <1>5. e.id = s /\ e.kind = "subscribe" /\ up' = Append(queue, e)
    BY <1>1, <1>3, <1>4
  <1>6. PICK y : y = [Idle EXCEPT !.step = "subscribe", !.enable = mounted', !.loop = loop]
    OBVIOUS
  <1>7. y.step = "subscribe" /\ y.touched = {}
    BY <1>6 DEF Idle
  <1>8. syncs'[s] = y /\ \A x \in Slots \ {s} : syncs'[x] = table[x]
    BY <1>1, <1>6
  <1> QED
    BY <1>1, <1>5, <1>7, <1>8

LEMMA AskedNext ==
  ASSUME Typed, OneAnswer, NEW e \in Requests, up' = Append(up, e),
         \A x \in Asked(up) : x.id # e.id
  PROVE  OnceAsked(up') /\ \A x \in Asked(up') : x \in Asked(up) \/ x = Token("up", e.id, e.kind)
  <1>1. PICK q \in Seq(Requests) : q = up
    BY DEF Typed, LinkTyped
  <1>2. PICK r : r = Append(q, e)
    OBVIOUS
  <1>3. OnceAsked(q) /\ \A x \in Asked(q) : x.id # e.id
    BY <1>1 DEF OneAnswer
  <1>4. OnceAsked(r) /\ \A x \in Asked(r) : x \in Asked(q) \/ x = Token("up", e.id, e.kind)
    BY <1>2, <1>3, AskedAppend
  <1> QED
    BY <1>1, <1>2, <1>4

LEMMA StartOneAnswer ==
  ASSUME Typed, OneAnswer, NEW loop, mounted' \in BOOLEAN, Start(page, syncs, up, loop),
         UNCHANGED <<builds, replies, down>>, link' # "lost"
  PROVE  OneAnswer'
  <1>1. PICK base \in Pages, table \in [Slots -> Syncs] : base = page /\ table = syncs
    BY DEF Typed, PageTyped
  <1>2. Start(base, table, up, loop)
    BY <1>1, Zenon
  <1>3. PICK s \in Slots, e \in Requests :
          /\ table[s].step = "idle" /\ e.id = s /\ e.kind = "subscribe"
          /\ up' = Append(up, e) /\ syncs'[s].step = "subscribe"
          /\ \A y \in Slots \ {s} : syncs'[y] = table[y]
    <2>1. PICK queue : queue = up
      OBVIOUS
    <2>2. Start(base, table, queue, loop)
      BY <1>2, <2>1
    <2>3. \E s \in Slots, e \in Requests :
            /\ table[s].step = "idle" /\ e.id = s /\ e.kind = "subscribe"
            /\ up' = Append(queue, e) /\ syncs'[s].step = "subscribe"
            /\ \A y \in Slots \ {s} : syncs'[y] = table[y]
      BY <2>2, StartIs
    <2> QED
      BY <2>1, <2>3
  <1>4. \A x \in Waiting : x.id # s
    <2>1. PICK W : W = Waiting
      OBVIOUS
    <2>2. Fit(W, table)
      BY <1>1, <2>1 DEF OneAnswer
    <2>3. \A x \in W : x.id # s
      BY <1>3, <2>2, IdleHasNone
    <2> QED
      BY <2>1, <2>3
  <1>5. PICK b : b = Token("up", s, "subscribe")
    OBVIOUS
  <1>6. OnceAsked(up') /\ \A x \in Asked(up') : x \in Asked(up) \/ x = b
    <2>1. \A x \in Asked(up) : x.id # e.id
      BY <1>3, <1>4 DEF Waiting
    <2> QED
      BY <1>3, <1>5, <2>1, AskedNext
  <1>7. \A x \in Waiting' : (x \in Waiting /\ x.id # s) \/ x = b
    BY <1>4, <1>6 DEF Waiting
  <1>8. b.id = s /\ syncs'[s].step \in Steps(b.kind)
    BY <1>3, <1>5, TokenIs DEF Steps
  <1>9. Alone(Waiting') /\ Fit(Waiting', syncs')
    BY <1>1, <1>3, <1>7, <1>8, TokensMove
  <1> QED
    BY <1>6, <1>9 DEF OneAnswer

LEMMA MountOneAnswer ==
  ASSUME Typed, OneAnswer, Mount \/ TimerFires \/ LinkResumes
  PROVE  OneAnswer'
  <1>1. UNCHANGED <<builds, replies, down>> /\ mounted' \in BOOLEAN
    BY DEF Mount, TimerFires, LinkResumes, Typed, GameTyped
  <1>2. CASE Mount /\ Skip
    <2>1. UNCHANGED <<up, syncs, link>>
      BY <1>2 DEF Mount, Skip
    <2>2. \A x \in Waiting' : x \in Waiting
      BY <1>1, <2>1 DEF Waiting
    <2>3. Alone(Waiting') /\ Fit(Waiting', syncs')
      BY <2>1, <2>2, TokensStay
    <2> QED
      BY <1>1, <2>1, <2>3 DEF OneAnswer
  <1>3. CASE Mount /\ Connected /\ Start(page, syncs, up, 0)
    BY <1>1, <1>3, StartOneAnswer DEF Mount, Connected
  <1>4. CASE TimerFires \/ LinkResumes
    <2>1. PICK loop : loop = generation'
      OBVIOUS
    <2>2. Start(page, syncs, up, loop) /\ link' = "up"
      BY <1>4, <2>1 DEF TimerFires, LinkResumes, Connected
    <2> QED
      BY <1>1, <2>2, StartOneAnswer
  <1> QED
    BY <1>2, <1>3, <1>4 DEF Mount

LEMMA LinkConnectsOneAnswer ==
  ASSUME Typed, OneAnswer, LinkConnects
  PROVE  OneAnswer'
  <1>1. /\ UNCHANGED <<builds, replies, mounted>> /\ link' = "up" /\ down' = <<>>
        /\ Start(Fresh(page), [s \in Slots |-> Idle], <<>>, generation')
        /\ replies = {} /\ Awaited(builds) = {}
    BY DEF LinkConnects, OneAnswer
  <1>2. PICK base \in Pages : base = Fresh(page)
    BY FreshIs DEF Typed, PageTyped
  <1>3. PICK table \in [Slots -> Syncs] : table = [s \in Slots |-> Idle]
    BY IdleIs
  <1>4. PICK loop : loop = generation'
    OBVIOUS
  <1>5. PICK queue \in Seq(Requests) : queue = <<>>
    <2>1. <<>> \in Seq(Requests)
      OBVIOUS
    <2> QED
      BY <2>1, Zenon
  <1>6. Start(base, table, queue, loop)
    BY <1>1, <1>2, <1>3, <1>4, <1>5, Zenon
  <1>7. PICK s \in Slots, e \in Requests :
          /\ e.id = s /\ e.kind = "subscribe" /\ up' = Append(queue, e)
          /\ syncs'[s].step = "subscribe"
    <2>1. mounted' \in BOOLEAN
      BY <1>1 DEF Typed, GameTyped
    <2> QED
      BY <1>6, <2>1, StartIs
  <1>8. PICK b : b = Token("up", s, "subscribe")
    OBVIOUS
  <1>9. OnceAsked(up') /\ \A x \in Asked(up') : x = b
    <2>1. OnceAsked(queue) /\ \A x \in Asked(queue) : FALSE
      BY <1>5 DEF OnceAsked, Asked
    <2>2. PICK r : r = Append(queue, e)
      OBVIOUS
    <2>3. OnceAsked(r) /\ \A x \in Asked(r) : x = Token("up", e.id, e.kind)
      BY <2>1, <2>2, AskedAppend
    <2> QED
      BY <1>7, <1>8, <2>2, <2>3
  <1>10. OnceSent(down') /\ Sent(down') = {}
    <2>1. PICK q : q = down' /\ q = <<>>
      BY <1>1
    <2>2. OnceSent(q) /\ Sent(q) = {}
      BY <2>1, SentNone
    <2> QED
      BY <2>1, <2>2
  <1>11. \A x \in Waiting' : x = b
    BY <1>1, <1>9, <1>10 DEF Waiting, Computed, Ready
  <1>12. b.id = s /\ syncs'[s].step \in Steps(b.kind)
    BY <1>7, <1>8, TokenIs DEF Steps
  <1>13. Alone(Waiting') /\ Fit(Waiting', syncs')
    BY <1>11, <1>12 DEF Alone, Fit
  <1> QED
    BY <1>1, <1>9, <1>10, <1>13 DEF OneAnswer

\* Nothing that is awaited moves.
LEMMA OthersOneAnswer ==
  ASSUME Typed, OneAnswer, UNCHANGED <<up, replies, down, syncs>>,
         \/ OnceComputed(builds') /\ (\A x \in Computed(builds') : x \in Computed(builds))
              /\ (Awaited(builds) = {} => Awaited(builds') = {})
         \/ UNCHANGED builds,
         link' = "lost" => link = "lost"
  PROVE  OneAnswer'
  <1>1. /\ OnceComputed(builds') /\ \A x \in Computed(builds') : x \in Computed(builds)
        /\ Awaited(builds) = {} => Awaited(builds') = {}
    BY DEF OneAnswer
  <1>2. \A x \in Waiting' : x \in Waiting
    BY <1>1 DEF Waiting
  <1>3. Alone(Waiting') /\ Fit(Waiting', syncs')
    BY <1>2, TokensStay
  <1> QED
    BY <1>1, <1>3 DEF OneAnswer

LEMMA GameOneAnswer ==
  ASSUME Typed, OneAnswer,
         \/ \E i \in Instances : PlatformsChange(i) \/ HostDrops(i) \/ HostResumes(i)
         \/ LinkDrops
  PROVE  OneAnswer'
  <1>1. UNCHANGED <<up, replies, down, syncs>> /\ UNCHANGED builds /\ (link' = "lost" => link = "lost")
    BY DEF PlatformsChange, HostDrops, HostResumes, LinkDrops
  <1> QED
    BY <1>1, OthersOneAnswer

LEMMA BroadcastOneAnswer ==
  ASSUME Typed, OneAnswer, Broadcast
  PROVE  OneAnswer'
  <1>1. UNCHANGED <<up, replies, down, syncs, link>>
    BY DEF Broadcast
  <1>2. PICK s \in Slots : s = CHOOSE x \in Slots : TRUE
    BY SlotsAreNat
  <1>3. PICK e \in Builds : e = Build("broadcast", s)
    BY BuildIs DEF Purposes
  <1>4. CASE builds' = Append(builds, e)
    <2>1. PICK q, r : q \in Seq(Builds) /\ q = builds /\ r = builds' /\ r = Append(q, e)
      BY <1>4 DEF Typed, ServerTyped
    <2>2. OnceComputed(q) /\ e.for \notin {"subscribe", "fetch"}
      BY <1>3, <2>1 DEF OneAnswer, Build
    <2>3. /\ OnceComputed(r) /\ \A x \in Computed(r) : x \in Computed(q)
          /\ Awaited(r) = Awaited(q)
      BY <2>1, <2>2, ComputedAppend
    <2> QED
      BY <1>1, <2>1, <2>3, OthersOneAnswer
  <1>5. CASE UNCHANGED builds
    BY <1>1, <1>5, OthersOneAnswer
  <1> QED
    BY <1>2, <1>3, <1>4, <1>5 DEF Broadcast

LEMMA InstanceOneAnswer ==
  ASSUME Typed, OneAnswer, NEW i \in Instances, InstanceAnswers(i) \/ HostLost(i)
  PROVE  OneAnswer'
  <1>1. UNCHANGED <<up, replies, down, syncs, link>>
    BY DEF InstanceAnswers, HostLost
  <1>2. PICK q, r : q \in Seq(Builds) /\ q = builds /\ r = builds'
    BY DEF Typed, ServerTyped
  <1>3. DOMAIN r = DOMAIN q /\ \A n \in DOMAIN q : r[n].for = q[n].for /\ r[n].id = q[n].id
    <2>1. CASE InstanceAnswers(i)
      <3>1. PICK n, v : n \in DOMAIN q /\ r = [q EXCEPT ![n].awaits = @ \ {i}, ![n].tree[i] = v]
        BY <1>2, <2>1 DEF InstanceAnswers
      <3>2. PICK b \in Builds : b = q[n]
        BY <1>2, <3>1
      <3>3. PICK c : c = [b EXCEPT !.awaits = @ \ {i}, !.tree[i] = v]
        OBVIOUS
      <3>4. c.for = b.for /\ c.id = b.id
        BY <3>3 DEF Builds
      <3>5. r = [q EXCEPT ![n] = c]
        BY <3>1, <3>2, <3>3
      <3> QED
        BY <3>2, <3>4, <3>5
    <2>2. CASE HostLost(i)
      <3>1. r = [n \in DOMAIN q |->
                   IF i \in q[n].awaits
                   THEN [q[n] EXCEPT !.awaits = @ \ {i}, !.tree[i] = Failed] ELSE q[n]]
        BY <1>2, <2>2 DEF HostLost
      <3>2. ASSUME NEW n \in DOMAIN q PROVE r[n].for = q[n].for /\ r[n].id = q[n].id
        <4>1. PICK b \in Builds : b = q[n]
          BY <1>2
        <4>2. PICK c : c = [b EXCEPT !.awaits = @ \ {i}, !.tree[i] = Failed]
          OBVIOUS
        <4>3. c.for = b.for /\ c.id = b.id
          BY <4>2 DEF Builds
        <4>4. r[n] = c \/ r[n] = b
          BY <3>1, <4>1, <4>2
        <4> QED
          BY <4>1, <4>3, <4>4
      <3> QED
        BY <3>1, <3>2
    <2> QED
      BY <2>1, <2>2
  <1>4. (OnceComputed(q) => OnceComputed(r)) /\ Computed(r) = Computed(q) /\ Awaited(r) = Awaited(q)
    BY <1>3, ComputedSame
  <1>5. OnceComputed(builds)
    BY DEF OneAnswer
  <1> QED
    BY <1>1, <1>2, <1>4, <1>5, OthersOneAnswer

\* What is pushed of a transfer.
LEMMA TransferPushesAre ==
  ASSUME Typed, NEW t \in Transfers, NEW v \in Nat, NEW to, NEW w, w[t] = v
  PROVE  /\ TransferPushes(t, v, to) \in Seq(Messages)
         /\ Current(TransferPushes(t, v, to), w)
         /\ OnceSent(TransferPushes(t, v, to)) /\ Sent(TransferPushes(t, v, to)) = {}
  <1> DEFINE e == [kind |-> "transfer", revision |-> transferRevision + 1, t |-> t, v |-> v]
             l == [kind |-> "log", revision |-> logRevision + 1, t |-> t, v |-> v]
  <1>1. /\ e \in Messages /\ l \in Messages /\ e.kind = "transfer" /\ l.kind = "log"
        /\ e.t = t /\ l.t = t /\ e.v = v /\ l.v = v
    BY DEF Messages, TransferEvents, Typed, ServerTyped
  <1> HIDE DEF e, l
  <1>2. PICK a : a = IF to.transfers THEN <<e>> ELSE <<>>
    OBVIOUS
  <1>3. PICK b : b = IF to.logs THEN <<l>> ELSE <<>>
    OBVIOUS
  <1>4. a \in Seq(Messages) /\ b \in Seq(Messages)
    BY <1>1, <1>2, <1>3
  <1>5. Current(a, w) /\ Current(b, w)
    BY <1>1, <1>2, <1>3 DEF Current
  <1>6. /\ \A n \in DOMAIN a : a[n].kind \notin AnswerKinds
        /\ \A n \in DOMAIN b : b[n].kind \notin AnswerKinds
    BY <1>1, <1>2, <1>3 DEF AnswerKinds
  <1>7. OnceSent(a) /\ OnceSent(b) /\ Sent(a) = {} /\ Sent(b) = {}
    BY <1>6, SentNone
  <1>8. PICK r : r = a \o b
    OBVIOUS
  <1>9. r \in Seq(Messages)
    BY <1>4, <1>8, ConcatProperties
  <1>10. Current(r, w)
    BY <1>4, <1>5, <1>8, CurrentJoined
  <1>11. OnceSent(r) /\ \A x \in Sent(r) : FALSE
    BY <1>4, <1>7, <1>8, SentJoined
  <1>12. TransferPushes(t, v, to) = r
    BY <1>2, <1>3, <1>8 DEF TransferPushes, e, l
  <1> QED
    BY <1>9, <1>10, <1>11, <1>12

\* A step of a transfer pushes what the page may show of it.
LEMMA TransferStepsIs ==
  ASSUME Typed, NEW t \in Transfers, TransferSteps(t)
  PROVE  /\ status' = [status EXCEPT ![t] = @ + 1]
         /\ UNCHANGED <<builds, replies, link, up, syncs, page>>
         /\ \E e \in Seq(Messages) :
              down' = down \o e /\ Current(e, status') /\ OnceSent(e) /\ Sent(e) = {}
  <1>1. /\ status' = [status EXCEPT ![t] = @ + 1]
        /\ UNCHANGED <<builds, replies, link, up, syncs, page>>
        /\ down' = down \o TransferPushes(t, status'[t], subscription)
    BY DEF TransferSteps, Push
  <1>2. PICK w : w = status'
    OBVIOUS
  <1>7. PICK v \in Nat : v = status'[t]
    BY <1>1 DEF Typed, GameTyped
  <1>3. PICK to : to = subscription
    OBVIOUS
  <1>4. PICK e : e = TransferPushes(t, v, to)
    OBVIOUS
  <1>5. e \in Seq(Messages) /\ Current(e, w) /\ OnceSent(e) /\ Sent(e) = {}
    BY <1>2, <1>7, <1>4, TransferPushesAre
  <1>6. down' = down \o e
    BY <1>1, <1>7, <1>3, <1>4
  <1> QED
    BY <1>1, <1>2, <1>5, <1>6

LEMMA TransferStepsOneAnswer ==
  ASSUME Typed, OneAnswer, NEW t \in Transfers, TransferSteps(t)
  PROVE  OneAnswer'
  <1>1. UNCHANGED <<builds, replies, link, up, syncs>>
    BY TransferStepsIs
  <1>2. PICK e \in Seq(Messages) : down' = down \o e /\ OnceSent(e) /\ Sent(e) = {}
    BY TransferStepsIs
  <1>3. PICK q, r : q \in Seq(Messages) /\ q = down /\ r = q \o e
    BY DEF Typed, LinkTyped
  <1>4. OnceSent(r) /\ \A x \in Sent(r) : x \in Sent(q)
    BY <1>2, <1>3, SentJoined DEF OneAnswer
  <1>5. OnceSent(down') /\ \A x \in Sent(down') : x \in Sent(down)
    BY <1>2, <1>3, <1>4
  <1>6. \A x \in Waiting' : x \in Waiting
    BY <1>1, <1>5 DEF Waiting
  <1>7. Alone(Waiting') /\ Fit(Waiting', syncs')
    BY <1>1, <1>6, TokensStay
  <1> QED
    BY <1>1, <1>5, <1>7 DEF OneAnswer

\* A session ends, or the controller: what it was computing for the page is gone.
LEMMA EndOneAnswer ==
  ASSUME Typed, OneAnswer, SessionLost \/ ControllerRestarts
  PROVE  OneAnswer'
  <1>1. UNCHANGED <<up, down, syncs>> /\ replies' = {}
    BY DEF SessionLost, ControllerRestarts
  <1>2. Awaited(builds') = {} /\ Computed(builds') = {} /\ OnceComputed(builds')
    <2>1. PICK q, r : q \in Seq(Builds) /\ q = builds /\ r = builds'
      BY DEF Typed, ServerTyped
    <2>2. r = Orphaned(q) \/ r = <<>>
      BY <2>1 DEF SessionLost, ControllerRestarts
    <2>3. \A n \in DOMAIN r : r[n].for \notin {"subscribe", "fetch"}
      <3>1. CASE r = Orphaned(q)
        BY <2>1, <3>1, OrphanedIs
      <3>2. CASE r = <<>>
        BY <3>2
      <3> QED
        BY <2>2, <3>1, <3>2
    <2> QED
      BY <2>1, <2>3, ComputedNone
  <1>3. Ready(replies') = {} /\ OnceReady(replies')
    BY <1>1 DEF Ready, OnceReady
  <1>4. \A x \in Waiting' : x \in Waiting
    BY <1>1, <1>2, <1>3 DEF Waiting
  <1>5. Alone(Waiting') /\ Fit(Waiting', syncs')
    BY <1>1, <1>4, TokensStay
  <1> QED
    BY <1>1, <1>2, <1>3, <1>5 DEF OneAnswer

\* The page is answered: the token leaves, and the next request takes its place.
LEMMA ReceivedAnswer ==
  ASSUME Typed, OneAnswer, Receive, NEW m, m = Head(down), m.kind \in AnswerKinds
  PROVE  /\ m.id \in Slots /\ syncs[m.id].step \in Steps(m.kind) /\ link' # "lost"
         /\ UNCHANGED <<builds, replies>> /\ OnceSent(down')
         /\ \A x \in Sent(down') : x \in Sent(down) /\ x.id # m.id
         /\ \A x \in Asked(up) \cup Computed(builds) \cup Ready(replies) : x.id # m.id
  <1>1. down # <<>> /\ down' = Tail(down) /\ link' # "lost" /\ UNCHANGED <<builds, replies>>
    BY DEF Receive, Connected
  <1>2. PICK q, r : q \in Seq(Messages) /\ q = down /\ r = down'
    BY DEF Typed, LinkTyped
  <1>3. OnceSent(q) /\ q # <<>> /\ r = Tail(q)
    BY <1>1, <1>2 DEF OneAnswer
  <1>4. /\ OnceSent(r) /\ Head(q) = q[1]
        /\ \A x \in Sent(r) : x \in Sent(q) /\ (q[1].kind \in AnswerKinds => x.id # q[1].id)
        /\ q[1].kind \in AnswerKinds => Token("down", q[1].id, q[1].kind) \in Sent(q)
    BY <1>2, <1>3, SentTail
  <1>5. m = q[1]
    BY <1>2, <1>4
  <1>6. PICK a : a = Token("down", m.id, m.kind)
    OBVIOUS
  <1>7. a \in Waiting /\ a.id = m.id /\ a.kind = m.kind /\ a.at = "down"
    BY <1>2, <1>4, <1>5, <1>6, TokenIs DEF Waiting
  <1>8. m.id \in Slots /\ syncs[m.id].step \in Steps(m.kind)
    BY <1>7 DEF OneAnswer, Fit
  <1>9. \A x \in Asked(up) \cup Computed(builds) \cup Ready(replies) : x.id # m.id
    BY <1>7, ElsewhereNone
  <1> QED
    BY <1>1, <1>2, <1>4, <1>5, <1>8, <1>9

\* What a message does to the synchronisation it answers, and to the requests.
LEMMA AnswerChanges ==
  ASSUME Typed, NEW m \in Messages,
         \/ AnswerOk(m) \/ AnswerDenied(m) \/ AnswerError(m) \/ AnswerTree(m) \/ AnswerList(m)
         \/ AnswerFetchError(m)
  PROVE  /\ m.kind \in AnswerKinds
         /\ \A y \in Slots \ {m.id} : syncs'[y].step = syncs[y].step
         /\ \/ UNCHANGED up
            \/ \E e \in Requests : /\ e.id = m.id /\ up' = Append(up, e)
                                   /\ syncs'[m.id].step \in Steps(e.kind)
  <1>1. m.kind \in AnswerKinds /\ m.id \in Slots
    <2>1. m.kind \in AnswerKinds
      BY DEF AnswerKinds, AnswerOk, AnswerDenied, AnswerError, AnswerTree, AnswerList,
         AnswerFetchError
    <2> QED
      BY <2>1, MessageIs DEF AnswerKinds
  <1>2. syncs \in [Slots -> Syncs]
    BY DEF Typed, PageTyped
  <1>3. \A base, outcome, replaced :
          Finish(m.id, base, outcome, replaced) =>
            \A y \in Slots \ {m.id} : syncs'[y].step = syncs[y].step
    <2> SUFFICES ASSUME NEW base, NEW outcome, NEW replaced, Finish(m.id, base, outcome, replaced),
                        NEW y \in Slots \ {m.id}
                 PROVE  syncs'[y].step = syncs[y].step
      OBVIOUS
    <2>1. syncs'[y] = [syncs[y] EXCEPT !.touched = @ \cup replaced]
      BY DEF Finish
    <2>2. PICK z \in Syncs : z = syncs[y]
      BY <1>2
    <2>3. [z EXCEPT !.touched = @ \cup replaced].step = z.step
      BY DEF Syncs
    <2> QED
      BY <2>1, <2>2, <2>3
  <1>4. CASE AnswerOk(m) /\ Refresh(m.id)
    <2>1. PICK e \in Requests : e = [kind |-> "tree", id |-> m.id]
      BY <1>1, NewMessages
    <2>2. e.id = m.id /\ e.kind = "tree" /\ up' = Append(up, e)
      BY <1>4, <2>1 DEF Refresh
    <2>3. PICK y \in Syncs : y = syncs[m.id]
      BY <1>1, <1>2
    <2>4. PICK z : z = [y EXCEPT !.step = "tree", !.touched = {}]
      OBVIOUS
    <2>5. z.step = "tree" /\ syncs' = [syncs EXCEPT ![m.id] = z]
      BY <1>4, <2>3, <2>4 DEF Refresh, Syncs
    <2>6. syncs'[m.id].step = "tree" /\ \A x \in Slots \ {m.id} : syncs'[x] = syncs[x]
      BY <1>1, <1>2, <2>5
    <2> QED
      BY <1>1, <2>2, <2>6 DEF Steps
  <1>5. CASE AnswerOk(m) /\ Finish(m.id, page, "unsubscribed", {}) /\ UNCHANGED up
    BY <1>1, <1>3, <1>5
  <1>6. CASE AnswerDenied(m)
    <2>0. syncs[m.id].enable \in BOOLEAN
      BY <1>1, <1>2 DEF Syncs
    <2>1. PICK e \in Requests :
            e = [kind |-> "subscribe", id |-> m.id, enable |-> syncs[m.id].enable, logs |-> FALSE]
      BY <1>1, <2>0, NewMessages
    <2>2. e.id = m.id /\ e.kind = "subscribe" /\ up' = Append(up, e)
      BY <1>6, <2>1 DEF AnswerDenied
    <2>3. PICK y \in Syncs : y = syncs[m.id]
      BY <1>1, <1>2
    <2>4. PICK z : z = [y EXCEPT !.step = "plain"]
      OBVIOUS
    <2>5. z.step = "plain" /\ syncs' = [syncs EXCEPT ![m.id] = z]
      BY <1>6, <2>3, <2>4 DEF AnswerDenied, Syncs
    <2>6. syncs'[m.id].step = "plain" /\ \A x \in Slots \ {m.id} : syncs'[x] = syncs[x]
      BY <1>1, <1>2, <2>5
    <2> QED
      BY <1>1, <2>2, <2>6 DEF Steps
  <1>7. CASE AnswerError(m)
    BY <1>1, <1>3, <1>7 DEF AnswerError
  <1>8. CASE /\ AnswerTree(m)
             /\ syncs' = [syncs EXCEPT ![m.id].step = "list", ![m.id].tree = m.tree,
                                       ![m.id].revision = m.revision]
             /\ up' = Append(up, [kind |-> "list", id |-> m.id])
    <2>1. PICK e \in Requests : e = [kind |-> "list", id |-> m.id]
      BY <1>1, NewMessages
    <2>2. e.id = m.id /\ e.kind = "list" /\ up' = Append(up, e)
      BY <1>8, <2>1
    <2>3. PICK y \in Syncs : y = syncs[m.id]
      BY <1>1, <1>2
    <2>4. PICK z : z = [y EXCEPT !.step = "list", !.tree = m.tree, !.revision = m.revision]
      OBVIOUS
    <2>5. z.step = "list" /\ syncs' = [syncs EXCEPT ![m.id] = z]
      BY <1>8, <2>3, <2>4 DEF Syncs
    <2>6. syncs'[m.id].step = "list" /\ \A x \in Slots \ {m.id} : syncs'[x] = syncs[x]
      BY <1>1, <1>2, <2>5
    <2> QED
      BY <1>1, <2>2, <2>6 DEF Steps
  <1>9. CASE /\ AnswerTree(m) /\ UNCHANGED up
             /\ Finish(m.id, WithSnapshot(page, m.revision, m.tree), "subscribed", {})
    BY <1>1, <1>3, <1>9
  <1>10. CASE AnswerList(m)
    BY <1>1, <1>3, <1>10 DEF AnswerList
  <1>11. CASE AnswerFetchError(m)
    BY <1>1, <1>3, <1>11 DEF AnswerFetchError
  <1> QED
    BY <1>4, <1>5, <1>6, <1>7, <1>8, <1>9, <1>10, <1>11 DEF AnswerOk, AnswerTree

\* What a push does to the synchronisations: it may touch a summary.
LEMMA PushChanges ==
  ASSUME Typed, NEW m \in Messages,
         TreeUpdate(m) \/ TransferUpdate(m) \/ LogUpdate(m) \/ LogOpened(m)
  PROVE  /\ m.kind \notin AnswerKinds /\ UNCHANGED up
         /\ \A y \in Slots : syncs'[y].step = syncs[y].step
  <1>1. UNCHANGED up /\ (UNCHANGED syncs \/ Touch(m.t)) /\ m.kind \notin AnswerKinds
    BY DEF TreeUpdate, TransferUpdate, LogUpdate, LogOpened, AnswerKinds
  <1>2. ASSUME Touch(m.t), NEW y \in Slots PROVE syncs'[y].step = syncs[y].step
    <2>1. PICK z \in Syncs : z = syncs[y]
      BY DEF Typed, PageTyped
    <2>2. syncs'[y] = [z EXCEPT !.touched = @ \cup {m.t}]
      BY <1>2, <2>1 DEF Touch
    <2>3. [z EXCEPT !.touched = @ \cup {m.t}].step = z.step
      BY DEF Syncs
    <2> QED
      BY <2>1, <2>2, <2>3
  <1> QED
    BY <1>1, <1>2

LEMMA ReceiveOneAnswer ==
  ASSUME Typed, OneAnswer, Receive
  PROVE  OneAnswer'
  <1>1. PICK m : m = Head(down)
    OBVIOUS
  <1>2. m \in Messages
    <2>1. PICK q \in Seq(Messages) : q = down
      BY DEF Typed, LinkTyped
    <2>2. q # <<>>
      BY <2>1 DEF Receive
    <2> QED
      BY <1>1, <2>1, <2>2, TailFrom
  <1>3. CASE \/ AnswerOk(m) \/ AnswerDenied(m) \/ AnswerError(m) \/ AnswerTree(m)
             \/ AnswerList(m) \/ AnswerFetchError(m)
    <2>1. /\ m.kind \in AnswerKinds
          /\ \A y \in Slots \ {m.id} : syncs'[y].step = syncs[y].step
          /\ \/ UNCHANGED up
             \/ \E e \in Requests : /\ e.id = m.id /\ up' = Append(up, e)
                                    /\ syncs'[m.id].step \in Steps(e.kind)
      BY <1>2, <1>3, AnswerChanges
    <2>2. /\ m.id \in Slots /\ link' # "lost"
          /\ UNCHANGED <<builds, replies>> /\ OnceSent(down')
          /\ \A x \in Sent(down') : x \in Sent(down) /\ x.id # m.id
          /\ \A x \in Asked(up) \cup Computed(builds) \cup Ready(replies) : x.id # m.id
      BY <1>1, <2>1, ReceivedAnswer
    <2>3. CASE UNCHANGED up
      <3>1. \A x \in Waiting' : x \in Waiting /\ x.id # m.id
        BY <2>2, <2>3 DEF Waiting
      <3>2. Alone(Waiting') /\ Fit(Waiting', syncs')
        BY <2>1, <2>2, <3>1, TokensLeave
      <3> QED
        BY <2>2, <2>3, <3>2 DEF OneAnswer
    <2>4. ASSUME NEW e \in Requests, e.id = m.id, up' = Append(up, e),
                 syncs'[m.id].step \in Steps(e.kind)
          PROVE  OneAnswer'
      <3>1. PICK b : b = Token("up", m.id, e.kind)
        OBVIOUS
      <3>2. OnceAsked(up') /\ \A x \in Asked(up') : x \in Asked(up) \/ x = b
        <4>1. \A x \in Asked(up) : x.id # e.id
          BY <2>2, <2>4
        <4> QED
          BY <2>4, <3>1, <4>1, AskedNext
      <3>3. \A x \in Waiting' : (x \in Waiting /\ x.id # m.id) \/ x = b
        BY <2>2, <3>2 DEF Waiting
      <3>4. b.id = m.id /\ syncs'[m.id].step \in Steps(b.kind)
        BY <2>4, <3>1, TokenIs
      <3>5. Alone(Waiting') /\ Fit(Waiting', syncs')
        BY <2>1, <2>2, <3>3, <3>4, TokensMove
      <3> QED
        BY <2>2, <3>2, <3>5 DEF OneAnswer
    <2> QED
      BY <2>1, <2>3, <2>4
  <1>4. CASE TreeUpdate(m) \/ TransferUpdate(m) \/ LogUpdate(m) \/ LogOpened(m)
    <2>1. UNCHANGED up /\ \A y \in Slots : syncs'[y].step = syncs[y].step
      BY <1>2, <1>4, PushChanges
    <2>2. UNCHANGED <<builds, replies>> /\ link' # "lost" /\ down # <<>> /\ down' = Tail(down)
      BY DEF Receive, Connected
    <2>3. PICK q, r : q \in Seq(Messages) /\ q = down /\ r = down'
      BY DEF Typed, LinkTyped
    <2>4. OnceSent(r) /\ \A x \in Sent(r) : x \in Sent(q)
      BY <2>2, <2>3, SentTail DEF OneAnswer
    <2>5. \A x \in Waiting' : x \in Waiting
      BY <2>1, <2>2, <2>3, <2>4 DEF Waiting
    <2>6. Alone(Waiting') /\ Fit(Waiting', syncs')
      BY <2>1, <2>5, TokensStay
    <2> QED
      BY <2>1, <2>2, <2>3, <2>4, <2>6 DEF OneAnswer
  <1> QED
    BY <1>1, <1>3, <1>4 DEF Receive

\* A log is no answer that a synchronisation awaits.
LEMMA SendLogIs ==
  ASSUME SeenTyped, SendLog
  PROVE  \E x \in opened : /\ <<x>> \in Seq(Messages) /\ down' = down \o <<x>>
                           /\ x \in Logs /\ OnceSent(<<x>>) /\ Sent(<<x>>) = {}
  <1>1. PICK x \in opened : down' = down \o <<x>>
    BY DEF SendLog, Push
  <1>2. x \in Logs /\ x \in Messages /\ x.kind = "opened"
    BY DEF SeenTyped, Logs, Messages
  <1>3. <<x>> \in Seq(Messages)
    BY <1>2
  <1>4. \A k \in DOMAIN <<x>> : <<x>>[k].kind \notin AnswerKinds
    BY <1>2 DEF AnswerKinds
  <1>5. OnceSent(<<x>>) /\ Sent(<<x>>) = {}
    BY <1>3, <1>4, SentNone
  <1> QED
    BY <1>1, <1>2, <1>3, <1>5

LEMMA LogOneAnswer ==
  ASSUME Typed, SeenTyped, OneAnswer, SendLog \/ \E t \in Transfers : OpenLog(t)
  PROVE  OneAnswer'
  <1>1. UNCHANGED <<builds, replies, link, up, syncs>>
    BY DEF OpenLog, SendLog, queues, client
  <1>2. CASE \E t \in Transfers : OpenLog(t)
    <2>1. UNCHANGED down
      BY <1>2 DEF OpenLog, queues
    <2> QED
      BY <1>1, <2>1, OthersOneAnswer
  <1>3. CASE SendLog
    <2>1. PICK e \in Seq(Messages) : down' = down \o e /\ OnceSent(e) /\ Sent(e) = {}
      BY <1>3, SendLogIs
    <2>2. PICK q, r : q \in Seq(Messages) /\ q = down /\ r = q \o e
      BY DEF Typed, LinkTyped
    <2>3. OnceSent(r) /\ \A x \in Sent(r) : x \in Sent(q)
      BY <2>1, <2>2, SentJoined DEF OneAnswer
    <2>4. OnceSent(down') /\ \A x \in Sent(down') : x \in Sent(down)
      BY <2>1, <2>2, <2>3
    <2>5. \A x \in Waiting' : x \in Waiting
      BY <1>1, <2>4 DEF Waiting
    <2>6. Alone(Waiting') /\ Fit(Waiting', syncs')
      BY <1>1, <2>5, TokensStay
    <2> QED
      BY <1>1, <2>4, <2>6 DEF OneAnswer
  <1> QED
    BY <1>2, <1>3

LEMMA OneAnswerStep ==
  ASSUME Typed, SeenTyped, OneAnswer, [Next]_vars
  PROVE  OneAnswer'
  <1>1. CASE UNCHANGED vars
    <2>1. /\ UNCHANGED <<up, replies, down, syncs>> /\ UNCHANGED builds
          /\ link' = "lost" => link = "lost"
      BY <1>1
    <2> QED
      BY <2>1, OthersOneAnswer
  <1>2. CASE Next
    BY <1>2, HandleOneAnswer, SendReplyOneAnswer, BroadcastOneAnswer, BuildDoneOneAnswer,
       InstanceOneAnswer, GameOneAnswer, TransferStepsOneAnswer, MountOneAnswer, ReceiveOneAnswer,
       EndOneAnswer, LinkConnectsOneAnswer, LogOneAnswer, Zenon DEF Next
  <1> QED
    BY <1>1, <1>2

-----------------------------------------------------------------------------
(* Summaries *)

Pushed(q) == {n \in DOMAIN q : q[n].kind \in {"transfer", "log"}}
Listed(q) == {n \in DOMAIN q : q[n].kind = "listAnswer"}
Noted(q)  == {n \in DOMAIN q : q[n].kind = "opened"}
Lists     == replies \cup {down[n] : n \in Listed(down)}

\* What the page was told of in this session, and has of it.
Shown == [t \in Transfers |-> IF t \in told THEN page.summaries[t] ELSE 0]

\* Of what is on its way, s is shown and w is true: pushes are newer than what is
\* shown, in order, and newer than the lists and the logs sent before them.
Ahead(q, s, w) == \A n \in Pushed(q) : s[q[n].t] <= q[n].v /\ q[n].v <= w[q[n].t]
InOrder(q)     == \A n, k \in Pushed(q) : n < k /\ q[n].t = q[k].t => q[n].v <= q[k].v
ListsBefore(q) == \A n \in Listed(q), k \in Pushed(q) : n < k => q[n].list[q[k].t] <= q[k].v
NotesBefore(q) ==
  \A n \in Noted(q), k \in Pushed(q) : n < k /\ q[n].t = q[k].t => q[n].v <= q[k].v
Notes(q, w) == NotesBefore(q) /\ \A n \in Noted(q) : q[n].v <= w[q[n].t]

\* A list shows nothing that was not, and nothing older than the page, except of the
\* transfers that were replaced since it was asked for.
ListTrue(x, w)        == \A t \in Transfers : x.list[t] <= w[t]
ListKept(x, s, table) == \A t \in Transfers : t \in table[x.id].touched \/ s[t] <= x.list[t]

NeverAhead ==
  /\ \A t \in Transfers : Shown[t] <= status[t]
  /\ Ahead(down, Shown, status) /\ InOrder(down) /\ ListsBefore(down)
  /\ \A x \in Lists : ListTrue(x, status) /\ ListKept(x, Shown, syncs)
  /\ Notes(down, status) /\ \A x \in opened : x.v <= status[x.t]

Grows == \A t \in told : page.summaries[t] <= page'.summaries[t] \/ Arrives("opened", t)

LEMMA ShownIs ==
  ASSUME Typed
  PROVE  Shown \in [Transfers -> Nat] /\ \A t \in told \cap Transfers : Shown[t] = page.summaries[t]
  <1>1. page.summaries \in [Transfers -> Nat]
    BY DEF Typed, PageTyped, Pages
  <1>2. \A t \in Transfers : (IF t \in told THEN page.summaries[t] ELSE 0) \in Nat
    BY <1>1
  <1> QED
    BY <1>2 DEF Shown

\* The page has what it had.
SameShown == page'.summaries = page.summaries /\ told' = told

LEMMA KeptShows ==
  ASSUME SameShown
  PROVE  Shown' = Shown
  BY DEF SameShown, Shown

LEMMA SameGrows ==
  ASSUME Typed, SeenTyped, page'.summaries = page.summaries
  PROVE  Grows
  <1>1. \A t \in Transfers : page.summaries[t] \in Nat
    BY DEF Typed, PageTyped, Pages
  <1>2. \A t \in Transfers : page.summaries[t] <= page.summaries[t]
    BY <1>1
  <1> QED
    BY <1>2 DEF Grows, SeenTyped

LEMMA PushedIs ==
  ASSUME NEW q \in Seq(Messages)
  PROVE  /\ \A n \in Pushed(q) : /\ n \in DOMAIN q /\ q[n] \in Messages
                                 /\ q[n].t \in Transfers /\ q[n].v \in Nat
         /\ \A n \in Listed(q) : /\ n \in DOMAIN q /\ q[n] \in Messages /\ q[n].id \in Slots
                                 /\ q[n].list \in [Transfers -> Nat]
         /\ \A n \in Noted(q) : q[n] \in Messages /\ q[n].t \in Transfers /\ q[n].v \in Nat
         /\ DOMAIN q \subseteq Nat
  <1>1. \A n \in DOMAIN q : q[n] \in Messages
    BY Elements
  <1>2. DOMAIN q \subseteq Nat
    BY Elements
  <1>3. ASSUME NEW n \in Pushed(q) PROVE q[n].t \in Transfers /\ q[n].v \in Nat
    <2>1. q[n] \in Messages /\ q[n].kind \in {"transfer", "log"}
      BY <1>1 DEF Pushed
    <2> QED
      BY <2>1, MessageIs
  <1>4. ASSUME NEW n \in Listed(q) PROVE q[n].id \in Slots /\ q[n].list \in [Transfers -> Nat]
    <2>1. q[n] \in Messages /\ q[n].kind = "listAnswer"
      BY <1>1 DEF Listed
    <2>2. PICK x : x = q[n]
      OBVIOUS
    <2>3. x.id \in Slots /\ x.list \in [Transfers -> Nat]
      BY <2>1, <2>2, ListAnswerIs
    <2> QED
      BY <2>2, <2>3
  <1>5. ASSUME NEW n \in Noted(q) PROVE q[n].t \in Transfers /\ q[n].v \in Nat
    <2>1. q[n] \in Messages /\ q[n].kind = "opened"
      BY <1>1 DEF Noted
    <2> QED
      BY <2>1, MessageIs
  <1> QED
    BY <1>1, <1>2, <1>3, <1>4, <1>5 DEF Pushed, Listed, Noted

\* The elements of a joined sequence: the first L are of one, the others of the other.
JoinedAt(r, q, e, L) ==
  /\ L \in Nat /\ DOMAIN r \subseteq Nat
  /\ \A n \in DOMAIN r : \/ n <= L /\ n \in DOMAIN q /\ r[n] = q[n]
                         \/ n > L /\ n - L \in DOMAIN e /\ r[n] = e[n - L]

LEMMA JoinedParts ==
  ASSUME NEW q \in Seq(Messages), NEW e \in Seq(Messages), NEW r, r = q \o e
  PROVE  \E L : JoinedAt(r, q, e, L)
  <1>1. /\ Len(q) \in Nat /\ Len(e) \in Nat
        /\ DOMAIN r = 1..(Len(q) + Len(e)) /\ DOMAIN q = 1..Len(q) /\ DOMAIN e = 1..Len(e)
        /\ \A n \in DOMAIN r : /\ n <= Len(q) => r[n] = q[n]
                               /\ n > Len(q) => n - Len(q) \in DOMAIN e /\ r[n] = e[n - Len(q)]
    BY Joined
  <1>2. PICK L \in Nat : L = Len(q) /\ DOMAIN q = 1..L
    BY <1>1
  <1>3. DOMAIN r \subseteq Nat \ {0}
    BY <1>1
  <1>4. \A n \in DOMAIN r : (n <= L /\ n \in DOMAIN q) \/ n > L
    BY <1>2, <1>3
  <1>5. \A n \in DOMAIN r : \/ n <= L /\ n \in DOMAIN q /\ r[n] = q[n]
                            \/ n > L /\ n - L \in DOMAIN e /\ r[n] = e[n - L]
    BY <1>1, <1>2, <1>4
  <1> QED
    BY <1>2, <1>3, <1>5 DEF JoinedAt

Joinable(q, s, w, z) ==
  /\ \A t \in Transfers : s[t] <= w[t] /\ w[t] <= z[t]
  /\ Ahead(q, s, w) /\ InOrder(q) /\ ListsBefore(q)
  /\ \A n \in Listed(q) : ListTrue(q[n], w)
  /\ Notes(q, w)

Queued(r, q, s, z) ==
  /\ Ahead(r, s, z) /\ InOrder(r) /\ ListsBefore(r) /\ Notes(r, z)
  /\ \A n \in Listed(r) : n \in Listed(q) /\ r[n] = q[n]

LEMMA QueueJoined ==
  ASSUME NEW q \in Seq(Messages), NEW e \in Seq(Messages), NEW r, r = q \o e,
         NEW s \in [Transfers -> Nat], NEW w \in [Transfers -> Nat], NEW z \in [Transfers -> Nat],
         Joinable(q, s, w, z), Current(e, z)
  PROVE  Queued(r, q, s, z)
  <1> USE DEF Joinable
  <1>0. PICK L : JoinedAt(r, q, e, L)
    BY JoinedParts
  <1>1. /\ DOMAIN r \subseteq Nat
        /\ \A n \in DOMAIN r : \/ n <= L /\ n \in DOMAIN q /\ r[n] = q[n]
                               \/ n > L /\ n - L \in DOMAIN e /\ r[n] = e[n - L]
    BY <1>0 DEF JoinedAt
  <1>11. L \in Nat
    BY <1>0 DEF JoinedAt
  <1>2. \A n \in Pushed(r) : \/ n <= L /\ n \in Pushed(q) /\ r[n] = q[n]
                             \/ n > L /\ r[n].v = z[r[n].t]
    BY <1>1 DEF Pushed, Current
  <1>3. \A n \in Listed(r) : n <= L /\ n \in Listed(q) /\ r[n] = q[n]
    BY <1>1 DEF Listed, Current
  <1>4. r \in Seq(Messages)
    BY ConcatProperties
  <1>5. /\ \A n \in Pushed(r) : n \in Nat /\ r[n].t \in Transfers /\ r[n].v \in Nat
        /\ \A n \in Pushed(q) : n \in Nat /\ q[n].t \in Transfers /\ q[n].v \in Nat
        /\ \A n \in Listed(q) : n \in Nat /\ q[n].list \in [Transfers -> Nat]
        /\ \A n \in Noted(q) : n \in Nat /\ q[n].t \in Transfers /\ q[n].v \in Nat
    <2>1. Pushed(r) \subseteq Nat /\ Pushed(q) \subseteq Nat /\ Listed(q) \subseteq Nat
      BY <1>4, PushedIs
    <2>2. Noted(q) \subseteq DOMAIN q /\ DOMAIN q \subseteq Nat
      BY PushedIs DEF Noted
    <2> QED
      BY <1>4, <2>1, <2>2, PushedIs
  <1>6. \A n \in Pushed(q) : /\ s[q[n].t] <= q[n].v /\ q[n].v <= z[q[n].t]
                             /\ z[q[n].t] \in Nat
    <2> SUFFICES ASSUME NEW n \in Pushed(q)
                 PROVE  s[q[n].t] <= q[n].v /\ q[n].v <= z[q[n].t] /\ z[q[n].t] \in Nat
      OBVIOUS
    <2>1. s[q[n].t] <= q[n].v /\ q[n].v <= w[q[n].t] /\ w[q[n].t] <= z[q[n].t]
      BY <1>5 DEF Ahead
    <2>2. q[n].v \in Nat /\ w[q[n].t] \in Nat /\ z[q[n].t] \in Nat
      BY <1>5
    <2> QED
      BY <2>1, <2>2
  <1>7. \A t \in Transfers : s[t] <= z[t] /\ s[t] \in Nat /\ z[t] \in Nat
    <2> SUFFICES ASSUME NEW t \in Transfers PROVE s[t] <= z[t] /\ s[t] \in Nat /\ z[t] \in Nat
      OBVIOUS
    <2>1. s[t] \in Nat /\ w[t] \in Nat /\ z[t] \in Nat /\ s[t] <= w[t] /\ w[t] <= z[t]
      OBVIOUS
    <2> QED
      BY <2>1
  <1>8. ASSUME NEW n \in Pushed(r) PROVE s[r[n].t] <= r[n].v /\ r[n].v <= z[r[n].t]
    <2>1. CASE n \in Pushed(q) /\ r[n] = q[n]
      BY <1>6, <2>1
    <2>2. CASE r[n].v = z[r[n].t]
      <3>1. PICK t \in Transfers : t = r[n].t
        BY <1>5
      <3>2. s[t] <= z[t] /\ z[t] <= z[t]
        BY <1>7
      <3> QED
        BY <2>2, <3>1, <3>2
    <2> QED
      BY <1>2, <2>1, <2>2
  <1>9. ASSUME NEW n \in Pushed(r), NEW k \in Pushed(r), n < k, r[n].t = r[k].t
        PROVE  r[n].v <= r[k].v
    <2>0. n \in Nat /\ k \in Nat /\ r[n].v \in Nat /\ r[k].v \in Nat
      BY <1>5
    <2>1. CASE k <= L /\ k \in Pushed(q) /\ r[k] = q[k]
      <3>1. n <= L
        BY <1>11, <1>9, <2>0, <2>1
      <3>2. ~(n > L)
        BY <1>11, <2>0, <3>1
      <3>3. n \in Pushed(q) /\ r[n] = q[n]
        BY <1>2, <3>2
      <3> QED
        BY <1>9, <2>1, <3>3 DEF InOrder
    <2>2. CASE r[k].v = z[r[k].t]
      BY <1>8, <1>9, <2>2
    <2> QED
      BY <1>2, <2>1, <2>2
  <1>10. ASSUME NEW n \in Listed(r), NEW k \in Pushed(r), n < k PROVE r[n].list[r[k].t] <= r[k].v
    <2>0. /\ n \in Listed(q) /\ r[n] = q[n] /\ q[n].list \in [Transfers -> Nat]
          /\ r[k].t \in Transfers
      BY <1>3, <1>5
    <2>1. CASE k \in Pushed(q) /\ r[k] = q[k]
      BY <1>10, <2>0, <2>1 DEF ListsBefore
    <2>2. CASE r[k].v = z[r[k].t]
      <3>1. PICK t \in Transfers : t = r[k].t
        BY <2>0
      <3>2. q[n].list[t] <= w[t] /\ w[t] <= z[t]
        BY <2>0 DEF ListTrue
      <3>3. PICK a \in Nat, b \in Nat, c \in Nat : a = q[n].list[t] /\ b = w[t] /\ c = z[t]
        BY <2>0
      <3>4. a <= c
        BY <3>2, <3>3
      <3>5. r[n].list[r[k].t] = a /\ r[k].v = c
        BY <2>0, <2>2, <3>1, <3>3
      <3> QED
        BY <3>4, <3>5
    <2> QED
      BY <1>2, <2>1, <2>2
  <1>12. \A n \in Noted(r) : n <= L /\ n \in Noted(q) /\ r[n] = q[n]
    BY <1>1 DEF Noted, Current
  <1>13. ASSUME NEW n \in Noted(q) PROVE q[n].v <= z[q[n].t]
    <2>1. q[n].v <= w[q[n].t] /\ w[q[n].t] <= z[q[n].t]
      BY <1>5 DEF Notes
    <2>2. q[n].v \in Nat /\ w[q[n].t] \in Nat /\ z[q[n].t] \in Nat
      BY <1>5
    <2> QED
      BY <2>1, <2>2
  <1>14. ASSUME NEW n \in Noted(r), NEW k \in Pushed(r), n < k, r[n].t = r[k].t
         PROVE  r[n].v <= r[k].v
    <2>1. n \in Noted(q) /\ r[n] = q[n]
      BY <1>12
    <2>2. CASE k \in Pushed(q) /\ r[k] = q[k]
      BY <1>14, <2>1, <2>2 DEF Notes, NotesBefore
    <2>3. CASE r[k].v = z[r[k].t]
      BY <1>13, <1>14, <2>1, <2>3
    <2> QED
      BY <1>2, <2>2, <2>3
  <1>15. Notes(r, z)
    BY <1>12, <1>13, <1>14 DEF Notes, NotesBefore
  <1> QED
    BY <1>3, <1>8, <1>9, <1>10, <1>15 DEF Ahead, InOrder, ListsBefore, Queued

\* A list or a log is sent after everything that was pushed.
LastListed(r, q, y, s, w) ==
  /\ Ahead(r, s, w) /\ InOrder(r) /\ ListsBefore(r) /\ Notes(r, w)
  /\ \A n \in Listed(r) : (n \in Listed(q) /\ r[n] = q[n]) \/ r[n] = y

LEMMA QueueListed ==
  ASSUME NEW q \in Seq(Messages), NEW y \in Messages, y.kind \notin {"transfer", "log"},
         NEW r, r = q \o <<y>>, NEW s, NEW w,
         Ahead(q, s, w), InOrder(q), ListsBefore(q), Notes(q, w),
         y.kind = "opened" => y.v <= w[y.t]
  PROVE  LastListed(r, q, y, s, w)
  <1>1. PICK e \in Seq(Messages) : e = <<y>>
    <2>1. <<y>> \in Seq(Messages)
      OBVIOUS
    <2> QED
      BY <2>1, Zenon
  <1>0. PICK L : JoinedAt(r, q, e, L)
    <2>1. r = q \o e
      BY <1>1
    <2> QED
      BY <2>1, JoinedParts
  <1>2. /\ L \in Nat /\ DOMAIN r \subseteq Nat
        /\ \A n \in DOMAIN r : \/ n <= L /\ n \in DOMAIN q /\ r[n] = q[n]
                               \/ n > L /\ n - L \in DOMAIN e /\ r[n] = e[n - L]
    BY <1>0 DEF JoinedAt
  <1>3. \A n \in DOMAIN e : e[n] = y
    BY <1>1
  <1>4. \A n \in DOMAIN r : \/ n <= L /\ n \in DOMAIN q /\ r[n] = q[n]
                            \/ n > L /\ r[n] = y
    BY <1>2, <1>3
  <1>5. \A n \in Pushed(r) : n <= L /\ n \in Pushed(q) /\ r[n] = q[n]
    BY <1>4 DEF Pushed
  <1>6. \A n \in Listed(r) : \/ n <= L /\ n \in Listed(q) /\ r[n] = q[n]
                             \/ n > L /\ r[n] = y
    BY <1>4 DEF Listed
  <1>7. Ahead(r, s, w) /\ InOrder(r)
    <2>1. Ahead(r, s, w)
      BY <1>5 DEF Ahead
    <2>2. ASSUME NEW n \in Pushed(r), NEW k \in Pushed(r), n < k, r[n].t = r[k].t
          PROVE  r[n].v <= r[k].v
      <3>1. n \in Pushed(q) /\ r[n] = q[n] /\ k \in Pushed(q) /\ r[k] = q[k]
        BY <1>5
      <3> QED
        BY <2>2, <3>1 DEF InOrder
    <2> QED
      BY <2>1, <2>2 DEF InOrder
  <1>8. ASSUME NEW n \in Listed(r), NEW k \in Pushed(r), n < k PROVE r[n].list[r[k].t] <= r[k].v
    <2>1. n \in Nat /\ k \in Nat
      BY <1>2 DEF Listed, Pushed
    <2>2. ~(n > L)
      <3>1. k <= L
        BY <1>5
      <3>2. L \in Nat
        BY <1>2
      <3> QED
        BY <1>8, <2>1, <3>1, <3>2
    <2>3. n \in Listed(q) /\ r[n] = q[n] /\ k \in Pushed(q) /\ r[k] = q[k]
      BY <1>5, <1>6, <2>2
    <2> QED
      BY <1>8, <2>3 DEF ListsBefore
  <1>9. \A n \in Noted(r) : \/ n <= L /\ n \in Noted(q) /\ r[n] = q[n]
                            \/ n > L /\ r[n] = y /\ y.kind = "opened"
    BY <1>4 DEF Noted
  <1>10. ASSUME NEW n \in Noted(r), NEW k \in Pushed(r), n < k, r[n].t = r[k].t
         PROVE  r[n].v <= r[k].v
    <2>1. n \in Nat /\ k \in Nat
      BY <1>2 DEF Noted, Pushed
    <2>2. ~(n > L)
      <3>1. k <= L
        BY <1>5
      <3>2. L \in Nat
        BY <1>2
      <3> QED
        BY <1>10, <2>1, <3>1, <3>2
    <2>3. n \in Noted(q) /\ r[n] = q[n] /\ k \in Pushed(q) /\ r[k] = q[k]
      BY <1>5, <1>9, <2>2
    <2> QED
      BY <1>10, <2>3 DEF Notes, NotesBefore
  <1>11. \A n \in Noted(r) : r[n].v <= w[r[n].t]
    BY <1>9 DEF Notes
  <1>12. Notes(r, w)
    BY <1>10, <1>11 DEF Notes, NotesBefore
  <1> QED
    BY <1>6, <1>7, <1>8, <1>12 DEF ListsBefore, LastListed

\* The first message leaves, and what comes after it is no older.
Followed(r, q, s, w) ==
  /\ Ahead(r, s, w) /\ InOrder(r) /\ ListsBefore(r) /\ Notes(r, w) /\ r \in Seq(Messages)
  /\ \A n \in Listed(r) : \E k \in Listed(q) : r[n] = q[k]
  /\ Head(q) = q[1] /\ 1 \in DOMAIN q
  /\ 1 \in Pushed(q) \cup Noted(q) => \A n \in Pushed(r) : r[n].t = q[1].t => q[1].v <= r[n].v
  /\ 1 \in Listed(q) => \A n \in Pushed(r) : q[1].list[r[n].t] <= r[n].v

LEMMA QueueTail ==
  ASSUME NEW q \in Seq(Messages), NEW r, q # <<>>, r = Tail(q),
         NEW s, NEW w, Ahead(q, s, w), InOrder(q), ListsBefore(q), Notes(q, w)
  PROVE  Followed(r, q, s, w)
  <1>1. /\ r \in Seq(Messages) /\ Len(q) \in Nat /\ Len(q) >= 1 /\ 1 \in DOMAIN q /\ Head(q) = q[1]
        /\ DOMAIN r = 1..(Len(q) - 1) /\ DOMAIN q = 1..Len(q)
        /\ \A n \in DOMAIN r : r[n] = q[n + 1]
    BY TailFrom
  <1>2. \A n \in DOMAIN r : n + 1 \in DOMAIN q /\ 1 < n + 1 /\ r[n] = q[n + 1] /\ n \in Nat
    BY <1>1
  <1>3. /\ \A n \in Pushed(r) : n + 1 \in Pushed(q) /\ 1 < n + 1 /\ r[n] = q[n + 1] /\ n \in Nat
        /\ \A n \in Listed(r) : n + 1 \in Listed(q) /\ r[n] = q[n + 1] /\ n \in Nat
        /\ \A n \in Noted(r) : n + 1 \in Noted(q) /\ r[n] = q[n + 1] /\ n \in Nat
    BY <1>2 DEF Pushed, Listed, Noted
  <1>4. Ahead(r, s, w)
    BY <1>3 DEF Ahead
  <1>5. ASSUME NEW n \in Pushed(r), NEW k \in Pushed(r), n < k, r[n].t = r[k].t
        PROVE  r[n].v <= r[k].v
    <2>1. n + 1 < k + 1
      BY <1>3, <1>5
    <2> QED
      BY <1>3, <1>5, <2>1 DEF InOrder
  <1>6. ASSUME NEW n \in Listed(r), NEW k \in Pushed(r), n < k PROVE r[n].list[r[k].t] <= r[k].v
    <2>1. n + 1 < k + 1
      BY <1>3, <1>6
    <2> QED
      BY <1>3, <2>1 DEF ListsBefore
  <1>7. ASSUME 1 \in Pushed(q) \cup Noted(q), NEW n \in Pushed(r), r[n].t = q[1].t
        PROVE  q[1].v <= r[n].v
    BY <1>3, <1>7 DEF InOrder, Notes, NotesBefore
  <1>8. ASSUME 1 \in Listed(q), NEW n \in Pushed(r) PROVE q[1].list[r[n].t] <= r[n].v
    BY <1>3, <1>8 DEF ListsBefore
  <1>9. ASSUME NEW n \in Noted(r), NEW k \in Pushed(r), n < k, r[n].t = r[k].t
        PROVE  r[n].v <= r[k].v
    <2>1. n + 1 < k + 1
      BY <1>3, <1>9
    <2> QED
      BY <1>3, <1>9, <2>1 DEF Notes, NotesBefore
  <1>10. Notes(r, w)
    BY <1>3, <1>9 DEF Notes, NotesBefore
  <1> QED
    BY <1>1, <1>3, <1>4, <1>5, <1>6, <1>7, <1>8, <1>10 DEF InOrder, ListsBefore, Followed

LEMMA ListsAre ==
  ASSUME Typed, OneAnswer, NEW x \in Lists
  PROVE  x \in Messages /\ x.kind = "listAnswer" /\ x.id \in Slots /\ x.list \in [Transfers -> Nat]
  <1>1. x \in Messages /\ x.kind = "listAnswer"
    <2>1. CASE x \in replies
      BY <2>1 DEF Typed, ServerTyped, OneAnswer, Messages
    <2>2. CASE x \notin replies
      <3>1. PICK q \in Seq(Messages) : q = down
        BY DEF Typed, LinkTyped
      <3>2. PICK n \in Listed(q) : x = q[n]
        BY <2>2, <3>1 DEF Lists
      <3>3. n \in DOMAIN q /\ q[n].kind = "listAnswer"
        BY DEF Listed
      <3> QED
        BY <3>2, <3>3, Elements
    <2> QED
      BY <2>1, <2>2
  <1> QED
    BY <1>1, ListAnswerIs

\* A step that shows nothing new keeps the order, if the queue does.
LEMMA QuietStep ==
  ASSUME Typed, SeenTyped, OneAnswer, NeverAhead, SameShown, \A x \in opened' : x \in opened,
         \A t \in Transfers : status[t] <= status'[t], status' \in [Transfers -> Nat],
         Ahead(down', Shown, status'), InOrder(down'), ListsBefore(down'), Notes(down', status'),
         \A x \in Lists' : x \in Lists /\ syncs[x.id].touched \subseteq syncs'[x.id].touched
  PROVE  NeverAhead' /\ Grows
  <1>1. Shown \in [Transfers -> Nat] /\ status \in [Transfers -> Nat]
    BY ShownIs DEF Typed, GameTyped
  <1>2. PICK s \in [Transfers -> Nat], w \in [Transfers -> Nat], z \in [Transfers -> Nat] :
          s = Shown /\ w = status /\ z = status'
    BY <1>1
  <1>3. \A t \in Transfers : s[t] <= w[t] /\ w[t] <= z[t]
    BY <1>2 DEF NeverAhead
  <1>4. ASSUME NEW t \in Transfers PROVE s[t] <= z[t] /\ s[t] <= s[t]
    <2>1. PICK a \in Nat, b \in Nat, c \in Nat : a = s[t] /\ b = w[t] /\ c = z[t]
      OBVIOUS
    <2>2. a <= b /\ b <= c
      BY <1>3, <2>1
    <2>3. a <= c /\ a <= a
      BY <2>2
    <2> QED
      BY <2>1, <2>3
  <1>5. \A x \in Lists : x.list \in [Transfers -> Nat]
    BY ListsAre
  <1>6. ASSUME NEW x \in Lists' PROVE ListTrue(x, z) /\ ListKept(x, s, syncs')
    <2>1. x \in Lists /\ ListTrue(x, w) /\ ListKept(x, s, syncs)
      BY <1>2 DEF NeverAhead
    <2>2. ASSUME NEW t \in Transfers PROVE x.list[t] <= z[t]
      <3>1. PICK a \in Nat, b \in Nat, c \in Nat : a = x.list[t] /\ b = w[t] /\ c = z[t]
        BY <1>5, <2>1
      <3>2. a <= b /\ b <= c
        BY <1>3, <2>1, <3>1 DEF ListTrue
      <3>3. a <= c
        BY <3>2
      <3> QED
        BY <3>1, <3>3
    <2>3. ListKept(x, s, syncs')
      BY <2>1 DEF ListKept
    <2> QED
      BY <2>2, <2>3 DEF ListTrue
  <1>7. /\ \A t \in Transfers : s[t] <= z[t]
        /\ Ahead(down', s, z) /\ InOrder(down') /\ ListsBefore(down')
        /\ \A x \in Lists' : ListTrue(x, z) /\ ListKept(x, s, syncs')
    BY <1>2, <1>4, <1>6
  <1>8. Shown' = s /\ status' = z
    BY <1>2, KeptShows
  <1>9. ASSUME NEW x \in opened PROVE x.v <= z[x.t]
    <2>1. x.t \in Transfers /\ x.v \in Nat
      BY DEF SeenTyped, Logs
    <2>2. PICK a \in Nat, b \in Nat, c \in Nat : a = x.v /\ b = w[x.t] /\ c = z[x.t]
      BY <2>1
    <2>3. a <= b /\ b <= c
      BY <1>2, <1>3, <2>1, <2>2 DEF NeverAhead
    <2>4. a <= c
      BY <2>3
    <2> QED
      BY <2>2, <2>4
  <1>10. Notes(down', z) /\ \A x \in opened' : x.v <= z[x.t]
    BY <1>2, <1>9
  <1>11. NeverAhead'
    BY <1>7, <1>8, <1>10 DEF NeverAhead
  <1>12. Grows
    BY SameGrows DEF SameShown
  <1> QED
    BY <1>11, <1>12

\* The queue when nothing but what is current is pushed.
LEMMA JoinedStep ==
  ASSUME Typed, SeenTyped, OneAnswer, NeverAhead, NEW e \in Seq(Messages), Current(e, status'),
         down' = down \/ down' = down \o e,
         \A t \in Transfers : status[t] <= status'[t], status' \in [Transfers -> Nat],
         SameShown, opened' = opened, \A x \in replies' : x \in replies,
         \A x \in Lists : syncs[x.id].touched \subseteq syncs'[x.id].touched
  PROVE  NeverAhead' /\ Grows
  <1>1. PICK q \in Seq(Messages), s \in [Transfers -> Nat], w \in [Transfers -> Nat],
             z \in [Transfers -> Nat] :
          q = down /\ s = Shown /\ w = status /\ z = status'
    BY ShownIs DEF Typed, LinkTyped, GameTyped
  <1>2. Joinable(q, s, w, z)
    BY <1>1 DEF NeverAhead, Lists, Joinable
  <1>3. PICK r : r = q \o e
    OBVIOUS
  <1>4. PICK none \in Seq(Messages) : none = <<>>
    <2>1. <<>> \in Seq(Messages)
      OBVIOUS
    <2> QED
      BY <2>1, Zenon
  <1>5. Current(e, z) /\ Current(none, z)
    BY <1>1, <1>4 DEF Current
  <1>6. Queued(r, q, s, z)
    BY <1>2, <1>3, <1>5, QueueJoined
  <1>7. PICK u : u = q \o none
    OBVIOUS
  <1>8. Queued(u, q, s, z)
    BY <1>2, <1>5, <1>7, QueueJoined
  <1>9. u = q
    BY <1>4, <1>7
  <1>10. down' = r \/ down' = u
    BY <1>1, <1>3, <1>9
  <1>11. /\ Ahead(down', s, z) /\ InOrder(down') /\ ListsBefore(down') /\ Notes(down', z)
         /\ \A n \in Listed(down') : n \in Listed(q) /\ down'[n] = q[n]
    BY <1>6, <1>8, <1>10 DEF Queued
  <1>12. \A x \in Lists' : x \in Lists
    BY <1>1, <1>11 DEF Lists
  <1>13. Ahead(down', Shown, status') /\ Notes(down', status')
    BY <1>1, <1>11
  <1> QED
    BY <1>11, <1>12, <1>13, QuietStep

LEMMA StatusGrows ==
  ASSUME Typed, NEW t \in Transfers, status' = [status EXCEPT ![t] = @ + 1]
  PROVE  status' \in [Transfers -> Nat] /\ \A x \in Transfers : status[x] <= status'[x]
  <1>1. status \in [Transfers -> Nat]
    BY DEF Typed, GameTyped
  <1>2. ASSUME NEW x \in Transfers PROVE status[x] <= status'[x] /\ status'[x] \in Nat
    <2>1. PICK a \in Nat : a = status[x]
      BY <1>1
    <2>2. status'[x] = a \/ status'[x] = a + 1
      BY <1>1, <2>1
    <2> QED
      BY <2>1, <2>2
  <1>3. status' = [x \in Transfers |-> status'[x]]
    BY <1>1
  <1> QED
    BY <1>2, <1>3

LEMMA SameStatus ==
  ASSUME Typed, UNCHANGED status
  PROVE  status' \in [Transfers -> Nat] /\ \A x \in Transfers : status[x] <= status'[x]
  <1>1. status \in [Transfers -> Nat]
    BY DEF Typed, GameTyped
  <1>2. \A x \in Transfers : status[x] \in Nat
    BY <1>1
  <1>3. \A x \in Transfers : status[x] <= status[x]
    BY <1>2
  <1> QED
    BY <1>1, <1>3

\* Steps of the game, the hosts and the controller that send no list.
LEMMA ServerNeverAhead ==
  ASSUME Typed, SeenTyped, OneAnswer, NeverAhead,
         \/ HandleFails \/ Broadcast \/ BuildDone \/ UNCHANGED vars
         \/ \E i \in Instances : \/ InstanceAnswers(i) \/ PlatformsChange(i)
                                 \/ HostDrops(i) \/ HostResumes(i) \/ HostLost(i)
         \/ \E t \in Transfers : TransferSteps(t)
  PROVE  NeverAhead' /\ Grows
  <1>1. UNCHANGED <<replies, syncs, page>> /\ SameShown /\ opened' = opened
    <2>1. UNCHANGED <<replies, syncs, page>>
      BY DEF HandleFails, Broadcast, BuildDone, InstanceAnswers, PlatformsChange, HostDrops,
             HostResumes, HostLost, TransferSteps
    <2>2. UNCHANGED <<opened, told>>
      <3>1. CASE UNCHANGED vars
        BY <3>1 DEF vars, seen, server
      <3> QED
        BY <3>1, SeenKept, Zenon
    <2> QED
      BY <2>1, <2>2 DEF SameShown
  <1>2. CASE \E t \in Transfers : TransferSteps(t)
    <2>1. PICK t \in Transfers : TransferSteps(t)
      BY <1>2
    <2>2. PICK e \in Seq(Messages) : down' = down \o e /\ Current(e, status')
      BY <2>1, TransferStepsIs
    <2>3. status' \in [Transfers -> Nat] /\ \A x \in Transfers : status[x] <= status'[x]
      BY <2>1, TransferStepsIs, StatusGrows
    <2> QED
      BY <1>1, <2>2, <2>3, JoinedStep
  <1>3. CASE BuildDone
    <2>1. UNCHANGED status
      BY <1>3 DEF BuildDone
    <2>2. PICK e \in Seq(Messages) : (down' = down \/ down' = down \o e) /\ Current(e, status)
      BY <1>3, BuildDoneIs
    <2>3. status' \in [Transfers -> Nat] /\ \A x \in Transfers : status[x] <= status'[x]
      BY <2>1, SameStatus
    <2>4. Current(e, status')
      BY <2>1, <2>2
    <2> QED
      BY <1>1, <2>2, <2>3, <2>4, JoinedStep
  <1>4. CASE HandleFails
    <2>1. PICK r \in Requests : r = Head(up)
      <3>1. PICK q \in Seq(Requests) : q = up
        BY DEF Typed, LinkTyped
      <3>2. q # <<>>
        BY <1>4, <3>1 DEF HandleFails
      <3> QED
        BY <3>1, <3>2, TailFrom
    <2>8. PICK k \in {"error", "fetchError"} :
            k = IF r.kind = "subscribe" THEN "error" ELSE "fetchError"
      OBVIOUS
    <2>2. PICK m \in Messages : m = [kind |-> k, id |-> r.id]
      BY RequestIs, NewMessages DEF Messages
    <2>3. PICK e \in Seq(Messages) : e = <<m>>
      <3>1. <<m>> \in Seq(Messages)
        OBVIOUS
      <3> QED
        BY <3>1, Zenon
    <2>4. PICK w : w = status'
      OBVIOUS
    <2>5. Current(e, w)
      <3>1. m.kind \notin {"listAnswer", "opened", "transfer", "log"}
        BY <2>2
      <3> QED
        BY <2>3, <3>1, CurrentOne
    <2>6. down' = down \o e /\ UNCHANGED status
      BY <1>4, <2>1, <2>2, <2>3, <2>8 DEF HandleFails, Push
    <2>7. status' \in [Transfers -> Nat] /\ \A x \in Transfers : status[x] <= status'[x]
      BY <2>6, SameStatus
    <2> QED
      BY <1>1, <2>4, <2>5, <2>6, <2>7, JoinedStep
  <1>5. CASE UNCHANGED <<down, status>>
    <2>1. PICK e \in Seq(Messages) : e = <<>>
      <3>1. <<>> \in Seq(Messages)
        OBVIOUS
      <3> QED
        BY <3>1, Zenon
    <2>2. Current(e, status')
      BY <2>1 DEF Current
    <2>3. status' \in [Transfers -> Nat] /\ \A x \in Transfers : status[x] <= status'[x]
      BY <1>5, SameStatus
    <2> QED
      BY <1>1, <1>5, <2>2, <2>3, JoinedStep
  <1>6. \/ UNCHANGED <<down, status>> \/ BuildDone \/ HandleFails
        \/ \E t \in Transfers : TransferSteps(t)
    BY DEF Broadcast, InstanceAnswers, PlatformsChange, HostDrops, HostResumes, HostLost
  <1> QED
    BY <1>2, <1>3, <1>4, <1>5, <1>6

\* An answer that carries no list is pushed.
LEMMA AnswerIsCurrent ==
  ASSUME Typed, NEW m \in Messages, m.kind \notin {"listAnswer", "opened", "transfer", "log"},
         Push(TRUE, <<m>>), NEW w
  PROVE  \E e \in Seq(Messages) : down' = down \o e /\ Current(e, w)
  <1>1. PICK e \in Seq(Messages) : e = <<m>>
    <2>1. <<m>> \in Seq(Messages)
      OBVIOUS
    <2> QED
      BY <2>1, Zenon
  <1>2. Current(e, w)
    BY <1>1, CurrentOne
  <1>3. down' = down \o e
    BY <1>1 DEF Push
  <1> QED
    BY <1>2, <1>3

LEMMA HandleNeverAhead ==
  ASSUME Typed, SeenTyped, OneAnswer, NeverAhead, Handle
  PROVE  NeverAhead' /\ Grows
  <1>1. UNCHANGED <<status, page, syncs, opened>> /\ SameShown /\ up # <<>>
    <2>1. UNCHANGED <<status, page, syncs>> /\ up # <<>>
      BY DEF Handle
    <2> QED
      BY <2>1, SeenKept DEF SameShown
  <1>2. PICK r \in Requests : r = Head(up)
    <2>1. PICK q \in Seq(Requests) : q = up
      BY DEF Typed, LinkTyped
    <2> QED
      BY <1>1, <2>1, TailFrom
  <1>3. status' \in [Transfers -> Nat] /\ \A x \in Transfers : status[x] <= status'[x]
    BY <1>1, SameStatus
  <1>4. PICK w : w = status'
    OBVIOUS
  <1>5. CASE UNCHANGED <<down, replies>>
    <2>1. PICK e \in Seq(Messages) : e = <<>>
      <3>1. <<>> \in Seq(Messages)
        OBVIOUS
      <3> QED
        BY <3>1, Zenon
    <2>2. Current(e, status')
      BY <2>1 DEF Current
    <2> QED
      BY <1>1, <1>3, <1>5, <2>2, JoinedStep
  <1>6. ASSUME NEW k \in {"ok", "denied"}, Push(TRUE, <<[kind |-> k, id |-> r.id]>>),
               UNCHANGED replies
        PROVE  NeverAhead' /\ Grows
    <2>1. PICK m \in Messages : m = [kind |-> k, id |-> r.id]
      BY RequestIs, NewMessages DEF Messages
    <2>2. m.kind \notin {"listAnswer", "opened", "transfer", "log"} /\ Push(TRUE, <<m>>)
      BY <1>6, <2>1
    <2>3. PICK e \in Seq(Messages) : down' = down \o e /\ Current(e, w)
      BY <2>2, AnswerIsCurrent
    <2> QED
      BY <1>1, <1>3, <1>4, <1>6, <2>3, JoinedStep
  <1>7. CASE /\ replies' = replies \cup {[kind |-> "listAnswer", id |-> r.id, list |-> status]}
             /\ UNCHANGED down
    <2>1. PICK y : y = [kind |-> "listAnswer", id |-> r.id, list |-> status]
      OBVIOUS
    <2>2. y.list = status
      BY <2>1
    <2>3. \A t \in Transfers : Shown[t] <= y.list[t] /\ y.list[t] <= status[t]
      <3>1. \A t \in Transfers : status[t] <= status[t]
        BY <1>1, <1>3
      <3> QED
        BY <2>2, <3>1 DEF NeverAhead
    <2>4. ListTrue(y, status) /\ ListKept(y, Shown, syncs)
      BY <2>3 DEF ListTrue, ListKept
    <2>5. \A x \in Lists' : x \in Lists \/ x = y
      BY <1>7, <2>1 DEF Lists
    <2>6. \A x \in Lists' : ListTrue(x, status) /\ ListKept(x, Shown, syncs)
      BY <2>4, <2>5 DEF NeverAhead
    <2>9. Shown' = Shown
      BY <1>1, KeptShows
    <2>7. NeverAhead'
      BY <1>1, <1>7, <2>6, <2>9 DEF NeverAhead
    <2>8. Grows
      BY <1>1, SameGrows DEF SameShown
    <2> QED
      BY <2>7, <2>8
  <1>8. \/ UNCHANGED <<down, replies>>
        \/ Push(TRUE, <<[kind |-> "denied", id |-> r.id]>>) /\ UNCHANGED replies
        \/ Push(TRUE, <<[kind |-> "ok", id |-> r.id]>>) /\ UNCHANGED replies
        \/ /\ replies' = replies \cup {[kind |-> "listAnswer", id |-> r.id, list |-> status]}
           /\ UNCHANGED down
    BY <1>2 DEF Handle, SetSubscription
  <1> QED
    BY <1>5, <1>6, <1>7, <1>8

LEMMA SendReplyNeverAhead ==
  ASSUME Typed, SeenTyped, OneAnswer, NeverAhead, SendReply
  PROVE  NeverAhead' /\ Grows
  <1>1. PICK y \in replies : replies' = replies \ {y} /\ Push(TRUE, <<y>>)
    BY DEF SendReply
  <1>2. UNCHANGED <<status, page, syncs>> /\ SameShown /\ opened' = opened
    <2>1. UNCHANGED <<status, page, syncs>>
      BY DEF SendReply
    <2> QED
      BY <2>1, SeenKept DEF SameShown
  <1>3. y \in Lists /\ y \in Messages /\ y.kind = "listAnswer"
    BY ListsAre DEF Lists
  <1>4. PICK q, r, s, w :
          q \in Seq(Messages) /\ q = down /\ r = down' /\ s = Shown /\ w = status
    BY DEF Typed, LinkTyped
  <1>5. r = q \o <<y>> /\ Ahead(q, s, w) /\ InOrder(q) /\ ListsBefore(q) /\ Notes(q, w)
    BY <1>1, <1>4 DEF Push, NeverAhead
  <1>6. LastListed(r, q, y, s, w)
    BY <1>3, <1>4, <1>5, QueueListed
  <1>7. \A x \in Lists' : x \in Lists /\ syncs[x.id].touched \subseteq syncs'[x.id].touched
    BY <1>1, <1>2, <1>3, <1>4, <1>6 DEF Lists, LastListed
  <1>8. status' \in [Transfers -> Nat] /\ \A x \in Transfers : status[x] <= status'[x]
    BY <1>2, SameStatus
  <1>9. /\ Ahead(down', Shown, status') /\ InOrder(down') /\ ListsBefore(down')
        /\ Notes(down', status')
    BY <1>2, <1>4, <1>6 DEF LastListed
  <1> QED
    BY <1>2, <1>7, <1>8, <1>9, QuietStep

\* A log tells what the controller knows, and is sent after everything that was pushed.
LEMMA LogNeverAhead ==
  ASSUME Typed, SeenTyped, OneAnswer, NeverAhead, SendLog \/ \E t \in Transfers : OpenLog(t)
  PROVE  NeverAhead' /\ Grows
  <1>1. UNCHANGED <<status, page, syncs, replies>> /\ SameShown
    <2>1. UNCHANGED <<status, page, syncs, replies, told>>
      BY DEF OpenLog, SendLog, client, seen
    <2> QED
      BY <2>1 DEF SameShown
  <1>2. CASE \E t \in Transfers : OpenLog(t)
    <2>1. PICK t \in Transfers : OpenLog(t)
      BY <1>2
    <2>2. UNCHANGED down /\ opened' = {[kind |-> "opened", t |-> t, v |-> status[t]]}
      BY <2>1 DEF OpenLog, queues
    <2>3. status[t] <= status[t]
      <3>1. status[t] \in Nat
        BY DEF Typed, GameTyped
      <3> QED
        BY <3>1
    <2>4. \A x \in opened' : x.v <= status[x.t]
      BY <2>2, <2>3
    <2>5. Shown' = Shown /\ Lists' = Lists
      BY <1>1, <2>2, KeptShows DEF Lists
    <2>6. NeverAhead'
      BY <1>1, <2>2, <2>4, <2>5 DEF NeverAhead
    <2>7. Grows
      BY <1>1, SameGrows DEF SameShown
    <2> QED
      BY <2>6, <2>7
  <1>3. CASE SendLog
    <2>1. PICK y \in opened : opened' = opened \ {y} /\ down' = down \o <<y>>
      BY <1>3 DEF SendLog, Push
    <2>2. y \in Messages /\ y.kind = "opened"
      BY DEF SeenTyped, Logs, Messages
    <2>3. PICK q, r, s, w :
            q \in Seq(Messages) /\ q = down /\ r = down' /\ s = Shown /\ w = status
      BY DEF Typed, LinkTyped
    <2>4. /\ r = q \o <<y>> /\ Ahead(q, s, w) /\ InOrder(q) /\ ListsBefore(q) /\ Notes(q, w)
          /\ y.v <= w[y.t]
      BY <2>1, <2>3 DEF NeverAhead
    <2>5. LastListed(r, q, y, s, w)
      BY <2>2, <2>3, <2>4, QueueListed
    <2>6. \A n \in Listed(r) : r[n] # y
      BY <2>2 DEF Listed
    <2>7. \A x \in Lists' : x \in Lists /\ syncs[x.id].touched \subseteq syncs'[x.id].touched
      BY <1>1, <2>3, <2>5, <2>6 DEF Lists, LastListed
    <2>8. status' \in [Transfers -> Nat] /\ \A x \in Transfers : status[x] <= status'[x]
      BY <1>1, SameStatus
    <2>9. /\ Ahead(down', Shown, status') /\ InOrder(down') /\ ListsBefore(down')
          /\ Notes(down', status')
      BY <1>1, <2>3, <2>5 DEF LastListed
    <2>10. \A x \in opened' : x \in opened
      BY <2>1
    <2> QED
      BY <1>1, <2>7, <2>8, <2>9, <2>10, QuietStep
  <1> QED
    BY <1>2, <1>3

\* A synchronisation that waits for its list, or whose list came, is at that step.
LEMMA ListStep ==
  ASSUME OneAnswer, NEW x \in Lists
  PROVE  syncs[x.id].step = "list"
  <1>1. CASE x \in replies
    <2>1. PICK a \in Waiting : a = Token("replies", x.id, x.kind)
      BY <1>1 DEF Waiting, Ready
    <2> QED
      BY <1>1, <2>1, TokenIs DEF OneAnswer, Fit, Steps
  <1>2. CASE x \notin replies
    <2>1. PICK n \in Listed(down) : x = down[n]
      BY <1>2 DEF Lists
    <2>2. n \in Answering(down) /\ x.kind = "listAnswer"
      BY <2>1 DEF Listed, Answering, AnswerKinds
    <2>3. PICK a \in Waiting : a = Token("down", x.id, x.kind)
      BY <2>1, <2>2 DEF Waiting, Sent
    <2> QED
      BY <2>2, <2>3, TokenIs DEF OneAnswer, Fit, Steps
  <1> QED
    BY <1>1, <1>2

\* What the page says of the link is none of what it shows of the transfers.
LEMMA LiveShows ==
  ASSUME Typed, LinkDrops \/ SessionLost \/ ControllerRestarts \/ (Mount /\ Skip)
  PROVE  page'.summaries = page.summaries
  <1>1. PICK base \in Pages : base = page
    BY DEF Typed, PageTyped
  <1>2. \E live : page' = [base EXCEPT !.live = live]
    BY <1>1 DEF LinkDrops, SessionLost, ControllerRestarts, Skip
  <1> QED
    BY <1>1, <1>2 DEF Pages

LEMMA LiveNeverAhead ==
  ASSUME Typed, SeenTyped, OneAnswer, NeverAhead, LinkDrops \/ (Mount /\ Skip)
  PROVE  NeverAhead' /\ Grows
  <1>1. UNCHANGED <<status, syncs, down, replies>>
    BY DEF LinkDrops, Mount, Skip, server
  <1>2. SameShown /\ opened' = opened
    BY LiveShows, SeenKept DEF SameShown
  <1>3. PICK e \in Seq(Messages) : e = <<>>
    <2>1. <<>> \in Seq(Messages)
      OBVIOUS
    <2> QED
      BY <2>1, Zenon
  <1>4. Current(e, status')
    BY <1>3 DEF Current
  <1>5. status' \in [Transfers -> Nat] /\ \A x \in Transfers : status[x] <= status'[x]
    BY <1>1, SameStatus
  <1>6. \A x \in Lists : syncs[x.id].touched \subseteq syncs'[x.id].touched
    BY <1>1
  <1>7. down' = down \/ down' = down \o e
    BY <1>1
  <1> QED
    BY <1>1, <1>2, <1>4, <1>5, <1>6, <1>7, JoinedStep

LEMMA StartNeverAhead ==
  ASSUME Typed, SeenTyped, OneAnswer, NeverAhead, (Mount /\ ~Skip) \/ TimerFires \/ LinkResumes
  PROVE  NeverAhead' /\ Grows
  <1>1. UNCHANGED <<status, down, replies>> /\ mounted' \in BOOLEAN
    BY DEF Mount, TimerFires, LinkResumes, Typed, GameTyped
  <1>2. PICK base \in Pages, table \in [Slots -> Syncs] : base = page /\ table = syncs
    BY DEF Typed, PageTyped
  <1>3. PICK queue, loop : queue = up /\ Start(base, table, queue, loop)
    <2>1. CASE Mount /\ ~Skip
      BY <1>2, <2>1, Zenon DEF Mount
    <2>2. CASE TimerFires \/ LinkResumes
      <3>1. PICK loop : loop = generation'
        OBVIOUS
      <3>2. Start(page, syncs, up, loop)
        BY <2>2, <3>1 DEF TimerFires, LinkResumes
      <3> QED
        BY <1>2, <3>2, Zenon
    <2> QED
      BY <2>1, <2>2
  <1>4. PICK s \in Slots :
          /\ table[s].step = "idle" /\ page' = base /\ \A y \in Slots \ {s} : syncs'[y] = table[y]
    BY <1>1, <1>3, StartIs
  <1>5. ASSUME NEW x \in Lists PROVE syncs[x.id].touched \subseteq syncs'[x.id].touched
    <2>1. x.id \in Slots /\ x.id # s
      BY <1>2, <1>4, ListsAre, ListStep
    <2> QED
      BY <1>2, <1>4, <2>1
  <1>6. PICK e \in Seq(Messages) : e = <<>>
    <2>1. <<>> \in Seq(Messages)
      OBVIOUS
    <2> QED
      BY <2>1, Zenon
  <1>7. Current(e, status')
    BY <1>6 DEF Current
  <1>8. status' \in [Transfers -> Nat] /\ \A x \in Transfers : status[x] <= status'[x]
    BY <1>1, SameStatus
  <1>9. SameShown /\ opened' = opened /\ (down' = down \/ down' = down \o e)
    BY <1>1, <1>2, <1>4, SeenKept DEF SameShown
  <1> QED
    BY <1>1, <1>5, <1>7, <1>8, <1>9, JoinedStep

\* A new session starts with nothing told, and nothing on its way.
LEMMA LinkConnectsNeverAhead ==
  ASSUME Typed, OneAnswer, opened = {}, LinkConnects
  PROVE  NeverAhead' /\ page'.summaries = page.summaries
  <1>1. /\ UNCHANGED <<status, replies, opened>> /\ down' = <<>> /\ replies = {} /\ told' = {}
        /\ page' = Fresh(page)
    BY DEF LinkConnects, OneAnswer, Start, server
  <1>2. page'.summaries = page.summaries
    BY <1>1 DEF Fresh, Typed, PageTyped, Pages
  <1>3. Pushed(down') = {} /\ Listed(down') = {} /\ Noted(down') = {}
    BY <1>1 DEF Pushed, Listed, Noted
  <1>4. Lists' = {}
    BY <1>1, <1>3 DEF Lists
  <1>5. /\ Ahead(down', Shown', status') /\ InOrder(down') /\ ListsBefore(down')
        /\ Notes(down', status')
    BY <1>3 DEF Ahead, InOrder, ListsBefore, Notes, NotesBefore
  <1>6. \A t \in Transfers : Shown'[t] <= status'[t]
    <2>1. \A t \in Transfers : Shown'[t] = 0
      BY <1>1 DEF Shown
    <2>2. \A t \in Transfers : status'[t] \in Nat
      BY <1>1 DEF Typed, GameTyped
    <2> QED
      BY <2>1, <2>2
  <1>7. opened' = {}
    BY <1>1
  <1> QED
    BY <1>2, <1>4, <1>5, <1>6, <1>7 DEF NeverAhead

\* What the end of a synchronisation shows, and what it leaves of the others.
LEMMA FinishShows ==
  ASSUME Typed, NEW s \in Slots, NEW base \in Pages, NEW outcome, NEW replaced,
         Finish(s, base, outcome, replaced)
  PROVE  /\ page'.summaries = base.summaries
         /\ \A y \in Slots \ {s} : syncs'[y].touched = syncs[y].touched \cup replaced
  <1>1. PICK live : page' = [base EXCEPT !.live = live]
    BY DEF Finish
  <1>2. page'.summaries = base.summaries
    BY <1>1 DEF Pages
  <1>3. ASSUME NEW y \in Slots \ {s} PROVE syncs'[y].touched = syncs[y].touched \cup replaced
    <2>1. PICK z \in Syncs : z = syncs[y]
      BY DEF Typed, PageTyped
    <2>2. syncs'[y] = [z EXCEPT !.touched = @ \cup replaced]
      BY <2>1 DEF Finish
    <2>3. [z EXCEPT !.touched = @ \cup replaced].touched = z.touched \cup replaced
      BY DEF Syncs
    <2> QED
      BY <2>1, <2>2, <2>3
  <1> QED
    BY <1>2, <1>3

LEMMA SnapshotShows ==
  ASSUME NEW base \in Pages, NEW revision, NEW tree
  PROVE  WithSnapshot(base, revision, tree).summaries = base.summaries
  BY DEF WithSnapshot, Pages

LEMMA ListShows ==
  ASSUME NEW base \in Pages, NEW list, NEW touched
  PROVE  WithList(base, list, touched).summaries =
           [t \in Transfers |-> IF t \in touched THEN base.summaries[t] ELSE list[t]]
  BY DEF WithList, Pages

\* An answer other than a list shows nothing, and touches no other synchronisation.
LEMMA AnswerShows ==
  ASSUME Typed, NEW m \in Messages,
         \/ AnswerOk(m) \/ AnswerDenied(m) \/ AnswerError(m) \/ AnswerTree(m)
         \/ AnswerFetchError(m)
  PROVE  /\ page'.summaries = page.summaries
         /\ \A y \in Slots \ {m.id} : syncs[y].touched \subseteq syncs'[y].touched
  <1>1. m.id \in Slots
    <2>1. m.kind \in AnswerKinds
      BY AnswerChanges
    <2> QED
      BY <2>1, MessageIs
  <1>2. page \in Pages /\ syncs \in [Slots -> Syncs]
    BY DEF Typed, PageTyped
  <1>3. CASE AnswerOk(m) /\ Refresh(m.id)
    <2>1. PICK z : syncs' = [syncs EXCEPT ![m.id] = z]
      BY <1>3 DEF Refresh
    <2>2. \A y \in Slots \ {m.id} : syncs'[y] = syncs[y]
      BY <1>1, <1>2, <2>1
    <2> QED
      BY <1>3, <2>2 DEF Refresh
  <1>4. CASE AnswerOk(m) /\ Finish(m.id, page, "unsubscribed", {})
    BY <1>1, <1>2, <1>4, FinishShows
  <1>5. CASE AnswerDenied(m)
    <2>1. PICK z : syncs' = [syncs EXCEPT ![m.id] = z]
      BY <1>5 DEF AnswerDenied
    <2>2. \A y \in Slots \ {m.id} : syncs'[y] = syncs[y]
      BY <1>1, <1>2, <2>1
    <2>3. page'.summaries = page.summaries
      BY <1>2, <1>5 DEF AnswerDenied, Pages
    <2> QED
      BY <2>2, <2>3
  <1>6. CASE AnswerError(m)
    BY <1>1, <1>2, <1>6, FinishShows DEF AnswerError
  <1>7. CASE /\ AnswerTree(m) /\ UNCHANGED page
             /\ syncs' = [syncs EXCEPT ![m.id].step = "list", ![m.id].tree = m.tree,
                                       ![m.id].revision = m.revision]
    <2>1. PICK z : syncs' = [syncs EXCEPT ![m.id] = z]
      BY <1>7
    <2>2. \A y \in Slots \ {m.id} : syncs'[y] = syncs[y]
      BY <1>1, <1>2, <2>1
    <2> QED
      BY <1>7, <2>2
  <1>8. CASE /\ AnswerTree(m)
             /\ Finish(m.id, WithSnapshot(page, m.revision, m.tree), "subscribed", {})
    <2>1. m.revision \in Nat /\ m.tree \in Trees
      BY <1>8, MessageIs DEF AnswerTree
    <2>2. PICK base \in Pages : base = WithSnapshot(page, m.revision, m.tree)
      BY <1>2, <2>1, SnapshotIs
    <2>3. base.summaries = page.summaries
      BY <1>2, <2>2, SnapshotShows
    <2>4. Finish(m.id, base, "subscribed", {})
      BY <1>8, <2>2
    <2> QED
      BY <1>1, <2>3, <2>4, FinishShows
  <1>9. CASE AnswerFetchError(m)
    BY <1>1, <1>2, <1>9, FinishShows DEF AnswerFetchError
  <1> QED
    BY <1>3, <1>4, <1>5, <1>6, <1>7, <1>8, <1>9 DEF AnswerOk, AnswerTree

\* What is kept of the summaries that were replaced, the page was told of.
Noticed == \A y \in Slots : syncs[y].touched \subseteq told

\* The steps of synchronisation s as an answer is taken: it starts to fetch, or ends, or
\* keeps what it noted; the others keep theirs.
LEMMA AnswerNotes ==
  ASSUME Typed, Noticed, NEW m \in Messages,
         \/ AnswerOk(m) \/ AnswerDenied(m) \/ AnswerError(m) \/ AnswerTree(m)
         \/ AnswerFetchError(m)
  PROVE  \A y \in Slots : syncs'[y].touched \subseteq told
  <1>1. m.id \in Slots /\ syncs \in [Slots -> Syncs]
    <2>1. m.kind \in AnswerKinds
      BY AnswerChanges
    <2> QED
      BY <2>1, MessageIs DEF Typed, PageTyped
  <1>2. PICK w \in Syncs : w = syncs[m.id]
    BY <1>1
  <1>3. ASSUME NEW base, NEW outcome, Finish(m.id, base, outcome, {}), NEW y \in Slots
        PROVE  syncs'[y].touched \subseteq told
    <2>1. CASE y = m.id
      <3>1. syncs'[y] = Idle
        BY <1>3, <2>1 DEF Finish
      <3> QED
        BY <3>1, IdleIs
    <2>2. CASE y # m.id
      <3>1. syncs'[y] = [syncs[y] EXCEPT !.touched = @ \cup {}]
        BY <1>3, <2>2 DEF Finish
      <3>2. PICK z \in Syncs : z = syncs[y]
        BY <1>1
      <3>3. [z EXCEPT !.touched = @ \cup {}].touched = z.touched \cup {}
        BY DEF Syncs
      <3> QED
        BY <3>1, <3>2, <3>3 DEF Noticed
    <2> QED
      BY <2>1, <2>2
  <1>4. ASSUME NEW z, syncs' = [syncs EXCEPT ![m.id] = z], z.touched \subseteq told
        PROVE  \A y \in Slots : syncs'[y].touched \subseteq told
    <2>1. syncs'[m.id] = z /\ \A y \in Slots \ {m.id} : syncs'[y] = syncs[y]
      BY <1>1, <1>4
    <2> QED
      BY <1>4, <2>1 DEF Noticed
  <1>5. CASE AnswerOk(m) /\ Refresh(m.id)
    <2>1. PICK z : z = [w EXCEPT !.step = "tree", !.touched = {}]
      OBVIOUS
    <2>2. z.touched = {} /\ syncs' = [syncs EXCEPT ![m.id] = z]
      BY <1>2, <1>5, <2>1 DEF Refresh, Syncs
    <2> QED
      BY <1>4, <2>2
  <1>6. CASE AnswerDenied(m)
    <2>1. PICK z : z = [w EXCEPT !.step = "plain"]
      OBVIOUS
    <2>2. z.touched = w.touched /\ syncs' = [syncs EXCEPT ![m.id] = z]
      BY <1>2, <1>6, <2>1 DEF AnswerDenied, Syncs
    <2>3. z.touched \subseteq told
      BY <1>1, <1>2, <2>2 DEF Noticed
    <2> QED
      BY <1>4, <2>2, <2>3
  <1>7. CASE /\ AnswerTree(m)
             /\ syncs' = [syncs EXCEPT ![m.id].step = "list", ![m.id].tree = m.tree,
                                       ![m.id].revision = m.revision]
    <2>1. PICK z : z = [w EXCEPT !.step = "list", !.tree = m.tree, !.revision = m.revision]
      OBVIOUS
    <2>2. z.touched = w.touched /\ syncs' = [syncs EXCEPT ![m.id] = z]
      BY <1>2, <1>7, <2>1 DEF Syncs
    <2>3. z.touched \subseteq told
      BY <1>1, <1>2, <2>2 DEF Noticed
    <2> QED
      BY <1>4, <2>2, <2>3
  <1>8. \/ AnswerOk(m) /\ Refresh(m.id)
        \/ AnswerDenied(m)
        \/ /\ AnswerTree(m)
           /\ syncs' = [syncs EXCEPT ![m.id].step = "list", ![m.id].tree = m.tree,
                                     ![m.id].revision = m.revision]
        \/ \E base, outcome : Finish(m.id, base, outcome, {})
    BY DEF AnswerOk, AnswerError, AnswerTree, AnswerFetchError
  <1> QED
    BY <1>3, <1>5, <1>6, <1>7, <1>8

\* A summary that is replaced is noted in every synchronisation, and the page was told.
LEMMA TouchNotes ==
  ASSUME Typed, Noticed, NEW t, Touch(t)
  PROVE  /\ \A y \in Slots : syncs'[y].touched = syncs[y].touched \cup {t}
         /\ told' = told \cup {t} /\ Noticed'
  <1>1. ASSUME NEW y \in Slots PROVE syncs'[y].touched = syncs[y].touched \cup {t}
    <2>1. PICK z \in Syncs : z = syncs[y]
      BY DEF Typed, PageTyped
    <2>2. syncs'[y] = [z EXCEPT !.touched = @ \cup {t}]
      BY <2>1 DEF Touch
    <2>3. [z EXCEPT !.touched = @ \cup {t}].touched = z.touched \cup {t}
      BY DEF Syncs
    <2> QED
      BY <2>1, <2>2, <2>3
  <1>2. told' = told \cup {t}
    BY DEF Touch
  <1>3. Noticed'
    BY <1>1, <1>2 DEF Noticed
  <1> QED
    BY <1>1, <1>2, <1>3

LEMMA ReceiveNoticed ==
  ASSUME Typed, Noticed, Receive
  PROVE  Noticed'
  <1>1. PICK m : m = Head(down)
    OBVIOUS
  <1>2. m \in Messages
    BY <1>1, TailFrom DEF Receive, Typed, LinkTyped
  <1>3. CASE /\ UNCHANGED told
             /\ \/ AnswerOk(m) \/ AnswerDenied(m) \/ AnswerError(m) \/ AnswerTree(m)
                \/ AnswerFetchError(m)
    <2>1. \A y \in Slots : syncs'[y].touched \subseteq told
      BY <1>2, <1>3, AnswerNotes
    <2> QED
      BY <1>3, <2>1 DEF Noticed
  <1>4. CASE UNCHANGED <<syncs, told>>
    BY <1>4 DEF Noticed
  <1>5. CASE Touch(m.t)
    BY <1>5, TouchNotes
  <1>6. CASE AnswerList(m)
    <2>1. told' = Transfers /\ \A y \in Slots : syncs'[y] \in Syncs
      BY <1>6, ReceiveTypes DEF AnswerList, Typed, PageTyped
    <2>2. \A y \in Slots : syncs'[y].touched \subseteq Transfers
      BY <2>1 DEF Syncs
    <2> QED
      BY <2>1, <2>2 DEF Noticed
  <1>7. \/ /\ AnswerOk(m) \/ AnswerDenied(m) \/ AnswerError(m) \/ AnswerTree(m) \/ TreeUpdate(m)
           /\ UNCHANGED seen
        \/ AnswerFetchError(m) \/ AnswerList(m)
        \/ TransferUpdate(m) \/ LogUpdate(m) \/ LogOpened(m)
    BY <1>1, Zenon DEF Receive
  <1>8. TransferUpdate(m) \/ LogUpdate(m) \/ LogOpened(m) =>
          UNCHANGED <<syncs, told>> \/ Touch(m.t)
    BY DEF TransferUpdate, LogUpdate, LogOpened, seen
  <1>9. TreeUpdate(m) => UNCHANGED syncs
    BY DEF TreeUpdate
  <1>10. AnswerFetchError(m) => UNCHANGED told
    BY DEF AnswerFetchError
  <1>11. UNCHANGED seen => UNCHANGED told
    BY DEF seen
  <1> QED
    BY <1>3, <1>4, <1>5, <1>6, <1>7, <1>8, <1>9, <1>10, <1>11

\* The queue when its first message is taken.
LEMMA ReceivedQueue ==
  ASSUME Typed, NeverAhead, Receive
  PROVE  \E q \in Seq(Messages), r \in Seq(Messages), s \in [Transfers -> Nat],
             w \in [Transfers -> Nat] :
           /\ q = down /\ r = down' /\ s = Shown /\ w = status /\ status' = w
           /\ Followed(r, q, s, w) /\ Head(q) = q[1] /\ replies' = replies /\ opened' = opened
           /\ \A x \in Lists' : x \in Lists
  <1>1. down # <<>> /\ down' = Tail(down) /\ UNCHANGED <<status, replies, opened>>
    BY DEF Receive, server
  <1>2. PICK q \in Seq(Messages), r \in Seq(Messages), s \in [Transfers -> Nat],
            w \in [Transfers -> Nat] :
          q = down /\ r = down' /\ s = Shown /\ w = status
    <2>1. down \in Seq(Messages)
      BY DEF Typed, LinkTyped
    <2>2. down' \in Seq(Messages)
      BY <1>1, <2>1
    <2>3. Shown \in [Transfers -> Nat] /\ status \in [Transfers -> Nat]
      BY ShownIs DEF Typed, GameTyped
    <2> QED
      BY <2>1, <2>2, <2>3
  <1>3. /\ q # <<>> /\ r = Tail(q) /\ Ahead(q, s, w) /\ InOrder(q) /\ ListsBefore(q)
        /\ Notes(q, w)
    BY <1>1, <1>2 DEF NeverAhead
  <1>4. Followed(r, q, s, w)
    BY <1>3, QueueTail
  <1>5. ASSUME NEW x \in Lists' PROVE x \in Lists
    <2>1. CASE x \in replies
      BY <2>1 DEF Lists
    <2>2. CASE x \notin replies
      <3>1. PICK n \in Listed(down') : x = down'[n]
        BY <1>1, <2>2 DEF Lists
      <3>2. n \in Listed(r) /\ x = r[n]
        BY <1>2, <3>1
      <3>3. PICK k \in Listed(q) : r[n] = q[k]
        BY <1>4, <3>2 DEF Followed
      <3>4. k \in Listed(down) /\ x = down[k]
        BY <1>2, <3>2, <3>3
      <3> QED
        BY <3>4 DEF Lists
    <2> QED
      BY <2>1, <2>2
  <1>6. Head(q) = q[1]
    BY <1>4 DEF Followed
  <1> QED
    BY <1>1, <1>2, <1>4, <1>5, <1>6

\* The lists that are left belong to other synchronisations than the one answered.
LEMMA OtherLists ==
  ASSUME Typed, OneAnswer, NeverAhead, Receive, NEW m, m = Head(down), m.kind \in AnswerKinds,
         NEW x \in Lists'
  PROVE  x.id # m.id
  <1>1. /\ UNCHANGED <<builds, replies>>
        /\ \A y \in Sent(down') : y.id # m.id
        /\ \A y \in Ready(replies) : y.id # m.id
    BY ReceivedAnswer
  <1>2. CASE x \in replies
    BY <1>1, <1>2, TokenIs DEF Ready
  <1>3. CASE x \notin replies
    <2>1. PICK n \in Listed(down') : x = down'[n]
      BY <1>1, <1>3 DEF Lists
    <2>2. n \in Answering(down')
      BY DEF Listed, Answering, AnswerKinds
    <2>3. Token("down", x.id, x.kind) \in Sent(down')
      BY <2>1, <2>2 DEF Sent
    <2> QED
      BY <1>1, <2>3, TokenIs
  <1> QED
    BY <1>2, <1>3

LEMMA ReceiveNeverAhead ==
  ASSUME Typed, SeenTyped, OneAnswer, NeverAhead, Noticed, Receive
  PROVE  NeverAhead' /\ Grows
  <1>1. PICK q \in Seq(Messages), r \in Seq(Messages), s \in [Transfers -> Nat],
            w \in [Transfers -> Nat] :
          /\ q = down /\ r = down' /\ s = Shown /\ w = status /\ status' = w
          /\ Followed(r, q, s, w) /\ Head(q) = q[1] /\ replies' = replies /\ opened' = opened
          /\ \A x \in Lists' : x \in Lists
    BY ReceivedQueue
  <1>2. PICK m : m = q[1]
    OBVIOUS
  <1>3. m \in Messages /\ m = Head(down) /\ 1 \in DOMAIN q
    BY <1>1, <1>2, Elements DEF Followed
  <1>4. /\ status' \in [Transfers -> Nat] /\ \A x \in Transfers : status[x] <= status'[x]
        /\ Ahead(down', Shown, status') /\ InOrder(down') /\ ListsBefore(down')
        /\ Notes(down', status')
    BY <1>1, SameStatus DEF Followed
  <1>5. ASSUME SameShown,
               \A x \in Lists' : syncs[x.id].touched \subseteq syncs'[x.id].touched
        PROVE  NeverAhead' /\ Grows
    BY <1>1, <1>4, <1>5, QuietStep
  <1>13. /\ r \in Seq(Messages) /\ InOrder(r) /\ ListsBefore(r) /\ Notes(r, w)
         /\ \A x \in opened' : x.v <= w[x.t]
    BY <1>1 DEF Followed, NeverAhead
  <1>14. page.summaries \in [Transfers -> Nat] /\ told \subseteq Transfers
    BY DEF Typed, PageTyped, Pages, SeenTyped
  <1>6. CASE /\ \/ AnswerOk(m) \/ AnswerDenied(m) \/ AnswerError(m) \/ AnswerTree(m)
                \/ AnswerFetchError(m)
             /\ UNCHANGED told
    <2>1. m.kind \in AnswerKinds
      BY <1>3, <1>6, AnswerChanges
    <2>2. /\ page'.summaries = page.summaries
          /\ \A y \in Slots \ {m.id} : syncs[y].touched \subseteq syncs'[y].touched
      BY <1>3, <1>6, AnswerShows
    <2>3. ASSUME NEW x \in Lists' PROVE syncs[x.id].touched \subseteq syncs'[x.id].touched
      <3>1. x.id # m.id
        BY <1>3, <2>1, OtherLists
      <3>2. x.id \in Slots
        BY <1>1, ListsAre
      <3> QED
        BY <2>2, <3>1, <3>2
    <2>4. SameShown
      BY <1>6, <2>2 DEF SameShown
    <2> QED
      BY <1>5, <2>3, <2>4
  <1>7. CASE AnswerList(m)
    <2>1. m.kind = "listAnswer" /\ m.kind \in AnswerKinds
      BY <1>7 DEF AnswerList, AnswerKinds
    <2>2. m.id \in Slots /\ m.list \in [Transfers -> Nat]
      BY <1>3, <2>1, MessageIs
    <2>3. 1 \in Listed(q) /\ m \in Lists
      BY <1>1, <1>2, <1>3, <2>1 DEF Listed, Lists
    <2>4. PICK touched : touched = syncs[m.id].touched
      OBVIOUS
    <2>5. /\ page'.summaries =
               [t \in Transfers |-> IF t \in touched THEN page.summaries[t] ELSE m.list[t]]
          /\ \A y \in Slots \ {m.id} : syncs'[y].touched = syncs[y].touched \cup Transfers
      <3>1. page \in Pages /\ syncs[m.id] \in Syncs
        BY <2>2 DEF Typed, PageTyped
      <3>2. PICK base0 \in Pages : base0 = WithList(page, m.list, touched)
        BY <2>2, <3>1, ListIs
      <3>3. syncs[m.id].revision \in Nat /\ syncs[m.id].tree \in Trees
        BY <3>1 DEF Syncs
      <3>4. PICK base \in Pages : base = WithSnapshot(base0, syncs[m.id].revision, syncs[m.id].tree)
        BY <3>3, SnapshotIs
      <3>5. base.summaries = [t \in Transfers |->
                                IF t \in touched THEN page.summaries[t] ELSE m.list[t]]
        <4>1. base.summaries = base0.summaries
          BY <3>4, SnapshotShows, Zenon
        <4>2. base0.summaries = [t \in Transfers |->
                                   IF t \in touched THEN page.summaries[t] ELSE m.list[t]]
          <5>1. PICK list : list = m.list
            OBVIOUS
          <5>2. WithList(page, list, touched).summaries =
                  [t \in Transfers |-> IF t \in touched THEN page.summaries[t] ELSE list[t]]
            BY <3>1, ListShows
          <5> QED
            BY <3>2, <5>1, <5>2
        <4> QED
          BY <4>1, <4>2
      <3>6. Finish(m.id, base, "subscribed", Transfers)
        BY <1>7, <2>4, <3>2, <3>4 DEF AnswerList
      <3> QED
        BY <2>2, <3>5, <3>6, FinishShows
    <2>6. PICK u : u = Shown'
      OBVIOUS
    <2>12. touched \subseteq told /\ told' = Transfers
      BY <1>7, <2>2, <2>4 DEF Noticed, AnswerList
    <2>13. \A t \in told : s[t] = page.summaries[t]
      BY <1>1, <1>14, ShownIs
    <2>14. \A t \in Transfers : u[t] = page'.summaries[t]
      BY <2>6, <2>12 DEF Shown
    <2>7. ASSUME NEW t \in Transfers
          PROVE  s[t] <= u[t] /\ u[t] <= w[t] /\ (u[t] = s[t] \/ u[t] = m.list[t])
      <3>1. u[t] = IF t \in touched THEN s[t] ELSE m.list[t]
        BY <2>5, <2>12, <2>13, <2>14
      <3>2. s[t] <= w[t] /\ m.list[t] <= w[t] /\ (t \in touched \/ s[t] <= m.list[t])
        BY <1>1, <2>3, <2>4 DEF NeverAhead, ListTrue, ListKept
      <3>3. s[t] <= s[t]
        <4>1. s[t] \in Nat
          OBVIOUS
        <4> QED
          BY <4>1
      <3> QED
        BY <3>1, <3>2, <3>3
    <2>8. Ahead(r, u, w)
      <3> SUFFICES ASSUME NEW n \in Pushed(r) PROVE u[r[n].t] <= r[n].v /\ r[n].v <= w[r[n].t]
        BY DEF Ahead
      <3>1. s[r[n].t] <= r[n].v /\ r[n].v <= w[r[n].t] /\ m.list[r[n].t] <= r[n].v
        BY <1>1, <1>2, <2>3 DEF Followed, Ahead
      <3>2. r[n].t \in Transfers
        BY <1>1, PushedIs DEF Followed
      <3> QED
        BY <2>7, <3>1, <3>2
    <2>9. ASSUME NEW x \in Lists' PROVE ListTrue(x, w) /\ ListKept(x, u, syncs')
      <3>1. x.id # m.id
        BY <1>3, <2>1, OtherLists
      <3>2. x \in Lists /\ x.id \in Slots
        BY <1>1, ListsAre
      <3>3. Transfers \subseteq syncs'[x.id].touched
        BY <2>5, <3>1, <3>2
      <3>4. ListTrue(x, w)
        BY <1>1, <3>2 DEF NeverAhead
      <3> QED
        BY <3>3, <3>4 DEF ListKept
    <2>10. NeverAhead'
      <3>1. \A t \in Transfers : u[t] <= w[t]
        BY <2>7
      <3> QED
        BY <1>1, <1>13, <2>6, <2>8, <2>9, <3>1 DEF NeverAhead
    <2>11. Grows
      BY <1>14, <2>7, <2>13, <2>14 DEF Grows
    <2> QED
      BY <2>10, <2>11
  <1>8. CASE TreeUpdate(m) /\ UNCHANGED told
    <2>1. page'.summaries = page.summaries
      BY <1>8, SnapshotShows DEF TreeUpdate, Typed, PageTyped
    <2>2. UNCHANGED syncs
      BY <1>8 DEF TreeUpdate
    <2> QED
      BY <1>5, <1>8, <2>1, <2>2 DEF SameShown
  <1>9. CASE UNCHANGED <<page, syncs, told>>
    BY <1>5, <1>9 DEF SameShown
  <1>10. CASE /\ TransferUpdate(m) \/ LogUpdate(m) \/ LogOpened(m)
              /\ Touch(m.t)
              /\ \/ page' = [page EXCEPT !.summaries[m.t] = m.v, !.lastTransfer = m.revision]
                 \/ page' = [page EXCEPT !.summaries[m.t] = m.v, !.lastLog = m.revision]
                 \/ page' = [page EXCEPT !.summaries[m.t] = m.v]
    <2>1. m.kind \in {"transfer", "log", "opened"}
      BY <1>10 DEF TransferUpdate, LogUpdate, LogOpened
    <2>2. m.t \in Transfers /\ m.v \in Nat
      BY <1>3, <2>1, MessageIs
    <2>3. 1 \in Pushed(q) \cup Noted(q) /\ (m.kind # "opened" => 1 \in Pushed(q))
      BY <1>2, <1>3, <2>1 DEF Pushed, Noted
    <2>4. (m.kind = "opened" \/ s[m.t] <= m.v) /\ m.v <= w[m.t]
      <3>1. CASE m.kind # "opened"
        BY <1>1, <1>2, <2>3, <3>1 DEF NeverAhead, Ahead
      <3>2. CASE m.kind = "opened"
        BY <1>1, <1>2, <1>3, <3>2 DEF NeverAhead, Notes, Noted
      <3> QED
        BY <3>1, <3>2
    <2>5. PICK u : u = [s EXCEPT ![m.t] = m.v]
      OBVIOUS
    <2>12. PICK p : p = [page.summaries EXCEPT ![m.t] = m.v]
      OBVIOUS
    <2>13. page'.summaries = p
      <3>1. PICK base \in Pages : base = page
        BY DEF Typed, PageTyped
      <3>2. \/ page' = [base EXCEPT !.summaries = p, !.lastTransfer = m.revision]
            \/ page' = [base EXCEPT !.summaries = p, !.lastLog = m.revision]
            \/ page' = [base EXCEPT !.summaries = p]
        BY <1>10, <2>12, <3>1
      <3> QED
        BY <3>2 DEF Pages
    <2>6. Shown' = u
      <3>1. told' = told \cup {m.t}
        BY <1>10, TouchNotes
      <3>2. Shown' = [t \in Transfers |-> IF t \in told' THEN p[t] ELSE 0]
        BY <2>13 DEF Shown
      <3>3. s = [t \in Transfers |-> IF t \in told THEN page.summaries[t] ELSE 0]
        BY <1>1 DEF Shown
      <3>4. \A t \in Transfers : (IF t \in told' THEN p[t] ELSE 0) = u[t]
        BY <1>14, <2>2, <2>5, <2>12, <3>1, <3>3
      <3>5. u = [t \in Transfers |-> u[t]]
        BY <2>5
      <3> QED
        BY <3>2, <3>4, <3>5
    <2>7. ASSUME NEW t \in Transfers
          PROVE  /\ s[t] <= u[t] \/ (m.kind = "opened" /\ t = m.t)
                 /\ u[t] <= w[t] /\ (u[t] = s[t] \/ t = m.t)
      <3>1. s[t] <= w[t]
        BY <1>1 DEF NeverAhead
      <3>2. s[t] \in Nat
        OBVIOUS
      <3>3. s[t] <= s[t]
        BY <3>2
      <3> QED
        BY <2>2, <2>4, <2>5, <3>1, <3>3
    <2>8. Ahead(r, u, w)
      <3> SUFFICES ASSUME NEW n \in Pushed(r) PROVE u[r[n].t] <= r[n].v /\ r[n].v <= w[r[n].t]
        BY DEF Ahead
      <3>1. s[r[n].t] <= r[n].v /\ r[n].v <= w[r[n].t] /\ (r[n].t = m.t => m.v <= r[n].v)
        BY <1>1, <1>2, <2>3 DEF Followed, Ahead
      <3>2. r[n].t \in Transfers
        BY <1>1, PushedIs DEF Followed
      <3> QED
        BY <2>2, <2>5, <3>1, <3>2
    <2>9. ASSUME NEW x \in Lists' PROVE ListTrue(x, w) /\ ListKept(x, u, syncs')
      <3>1. x \in Lists /\ x.id \in Slots
        BY <1>1, ListsAre
      <3>2. ListTrue(x, w) /\ ListKept(x, s, syncs)
        BY <1>1, <3>1 DEF NeverAhead
      <3>3. syncs'[x.id].touched = syncs[x.id].touched \cup {m.t}
        BY <1>10, <3>1, TouchNotes
      <3>4. ListKept(x, u, syncs')
        BY <2>7, <3>2, <3>3 DEF ListKept
      <3> QED
        BY <3>2, <3>4
    <2>10. NeverAhead'
      <3>1. \A t \in Transfers : u[t] <= w[t]
        BY <2>7
      <3> QED
        BY <1>1, <1>13, <2>6, <2>8, <2>9, <3>1 DEF NeverAhead
    <2>11. ASSUME NEW t \in told
           PROVE  page.summaries[t] <= page'.summaries[t] \/ Arrives("opened", t)
      <3>1. CASE m.kind = "opened" /\ t = m.t
        BY <1>1, <1>3, <3>1 DEF Receive, Arrives
      <3>2. CASE ~(m.kind = "opened" /\ t = m.t)
        <4>1. s[t] = page.summaries[t] /\ s[t] <= u[t]
          BY <1>1, <1>14, <2>7, <3>2, ShownIs
        <4>2. u[t] = p[t]
          BY <1>14, <2>2, <2>5, <2>12, <4>1
        <4> QED
          BY <2>13, <4>1, <4>2
      <3> QED
        BY <3>1, <3>2
    <2> QED
      BY <2>10, <2>11 DEF Grows
  <1>11. \/ /\ AnswerOk(m) \/ AnswerDenied(m) \/ AnswerError(m) \/ AnswerTree(m) \/ TreeUpdate(m)
            /\ UNCHANGED told
         \/ AnswerFetchError(m) /\ UNCHANGED told
         \/ AnswerList(m) \/ TransferUpdate(m) \/ LogUpdate(m) \/ LogOpened(m)
    BY <1>3 DEF Receive, seen, AnswerFetchError
  <1>12. TransferUpdate(m) \/ LogUpdate(m) \/ LogOpened(m) =>
           \/ UNCHANGED <<page, syncs, told>>
           \/ /\ Touch(m.t)
              /\ \/ page' = [page EXCEPT !.summaries[m.t] = m.v, !.lastTransfer = m.revision]
                 \/ page' = [page EXCEPT !.summaries[m.t] = m.v, !.lastLog = m.revision]
                 \/ page' = [page EXCEPT !.summaries[m.t] = m.v]
    BY DEF TransferUpdate, LogUpdate, LogOpened, seen
  <1> QED
    BY <1>6, <1>7, <1>8, <1>9, <1>10, <1>11, <1>12

\* In a session the page is never ahead; between sessions nothing is read for it.
Session ==
  /\ link # "lost" => NeverAhead /\ Noticed
  /\ link = "lost" => opened = {}

LEMMA SessionInit == Init => Session
  BY DEF Init, Session

\* What keeps the notes of the synchronisations, and the session.
LEMMA NoticedStep ==
  ASSUME Typed, SeenTyped, Noticed, link # "lost", link' # "lost", [Next]_vars
  PROVE  Noticed'
  <1>1. CASE UNCHANGED <<syncs, told>>
    BY <1>1 DEF Noticed
  <1>2. CASE Receive
    BY <1>2, ReceiveNoticed
  <1>3. CASE Mount \/ TimerFires \/ LinkResumes
    <2>1. UNCHANGED told /\ mounted' \in BOOLEAN
      BY <1>3, SeenKept DEF Mount, TimerFires, LinkResumes, Typed, GameTyped
    <2>2. PICK base \in Pages, table \in [Slots -> Syncs] : base = page /\ table = syncs
      BY DEF Typed, PageTyped
    <2>3. UNCHANGED syncs \/ \E queue, loop : Start(base, table, queue, loop)
      BY <1>3, <2>2 DEF Mount, TimerFires, LinkResumes, Skip
    <2>4. ASSUME NEW queue, NEW loop, Start(base, table, queue, loop) PROVE Noticed'
      <3>1. PICK s \in Slots :
              syncs'[s].touched = {} /\ \A y \in Slots \ {s} : syncs'[y] = table[y]
        BY <2>1, <2>4, StartIs
      <3>2. \A y \in Slots : syncs'[y].touched \subseteq told
        BY <2>2, <3>1 DEF Noticed
      <3> QED
        BY <2>1, <3>2 DEF Noticed
    <2> QED
      BY <1>1, <2>1, <2>3, <2>4
  <1>4. CASE UNCHANGED vars
    BY <1>1, <1>4 DEF vars, seen, client
  <1>5. CASE Next
    <2>1. CASE \/ Handle \/ HandleFails \/ SendReply \/ Broadcast \/ BuildDone
               \/ \E i \in Instances : \/ InstanceAnswers(i) \/ PlatformsChange(i)
                                       \/ HostDrops(i) \/ HostResumes(i) \/ HostLost(i)
               \/ \E t \in Transfers : TransferSteps(t)
               \/ LinkDrops
      <3>1. UNCHANGED told
        BY <2>1, SeenKept, Zenon
      <3>2. UNCHANGED syncs
        BY <2>1 DEF Handle, HandleFails, SendReply, Broadcast, BuildDone, InstanceAnswers,
           PlatformsChange, HostDrops, HostResumes, HostLost, TransferSteps, LinkDrops, client
      <3> QED
        BY <1>1, <3>1, <3>2
    <2>2. CASE SendLog \/ \E t \in Transfers : OpenLog(t)
      BY <1>1, <2>2 DEF SendLog, OpenLog, client, seen
    <2>3. ~SessionLost /\ ~ControllerRestarts /\ ~LinkConnects
      BY DEF SessionLost, ControllerRestarts, LinkConnects
    <2> QED
      BY <1>2, <1>3, <1>5, <2>1, <2>2, <2>3, Zenon DEF Next
  <1> QED
    BY <1>4, <1>5

LEMMA NeverAheadStep ==
  ASSUME Typed, SeenTyped, OneAnswer, NeverAhead, Noticed, link' # "lost", link # "lost",
         [Next]_vars
  PROVE  NeverAhead' /\ Grows
  <1>1. CASE UNCHANGED vars
    BY <1>1, ServerNeverAhead, Zenon
  <1>2. CASE Next
    <2>1. ~SessionLost /\ ~ControllerRestarts /\ ~LinkConnects
      BY DEF SessionLost, ControllerRestarts, LinkConnects
    <2> QED
      BY <1>2, <2>1, ServerNeverAhead, HandleNeverAhead, SendReplyNeverAhead, LogNeverAhead,
         LiveNeverAhead, StartNeverAhead, ReceiveNeverAhead, Zenon DEF Next
  <1> QED
    BY <1>1, <1>2

\* Without a link nothing is received or read, and the page shows what it did.
LEMMA LostKeeps ==
  ASSUME Typed, SeenTyped, Session, link = "lost" \/ link' = "lost", [Next]_vars
  PROVE  Grows /\ (link' = "lost" => opened' = {})
  <1>1. CASE UNCHANGED <<page, opened, link>>
    BY <1>1, SameGrows DEF Session
  <1>2. CASE UNCHANGED vars
    BY <1>1, <1>2 DEF vars, client, server, queues
  <1>3. CASE \/ Handle \/ HandleFails \/ SendReply \/ Broadcast \/ BuildDone
             \/ \E i \in Instances : \/ InstanceAnswers(i) \/ PlatformsChange(i)
                                     \/ HostDrops(i) \/ HostResumes(i) \/ HostLost(i)
             \/ \E t \in Transfers : TransferSteps(t)
    <2>1. UNCHANGED opened
      BY <1>3, SeenKept, Zenon
    <2>2. UNCHANGED <<page, link>>
      BY <1>3 DEF Handle, HandleFails, SendReply, Broadcast, BuildDone, InstanceAnswers,
         PlatformsChange, HostDrops, HostResumes, HostLost, TransferSteps, client, queues
    <2> QED
      BY <1>1, <2>1, <2>2
  <1>4. CASE SessionLost \/ ControllerRestarts
    <2>1. opened' = {} /\ page'.summaries = page.summaries
      BY <1>4, LiveShows DEF SessionLost, ControllerRestarts
    <2> QED
      BY <2>1, SameGrows
  <1>5. CASE Mount /\ ~Connected
    <2>1. Skip /\ UNCHANGED link
      BY <1>5 DEF Mount
    <2>2. UNCHANGED opened /\ page'.summaries = page.summaries
      BY <1>5, <2>1, SeenKept, LiveShows
    <2> QED
      BY <2>1, <2>2, SameGrows DEF Session, Connected
  <1>6. CASE LinkConnects
    <2>1. link' # "lost" /\ page' = Fresh(page)
      BY <1>6 DEF LinkConnects, Start
    <2>2. page'.summaries = page.summaries
      BY <2>1 DEF Fresh, Typed, PageTyped, Pages
    <2> QED
      BY <2>1, <2>2, SameGrows
  <1>7. CASE SendLog
    <2>1. link' = link /\ opened # {} /\ UNCHANGED page
      BY <1>7 DEF SendLog, client
    <2> QED
      BY <2>1 DEF Session
  <1>8. /\ \A t \in Transfers : ~OpenLog(t)
        /\ ~(Mount /\ Connected) /\ ~Receive /\ ~TimerFires /\ ~LinkDrops /\ ~LinkResumes
    BY DEF OpenLog, Mount, Receive, TimerFires, LinkDrops, LinkResumes, Connected, queues
  <1> QED
    BY <1>2, <1>3, <1>4, <1>5, <1>6, <1>7, <1>8, Zenon DEF Next

LEMMA SessionStep ==
  ASSUME Typed, SeenTyped, OneAnswer, Session, [Next]_vars
  PROVE  Session' /\ Grows
  <1>1. CASE link # "lost" /\ link' # "lost"
    BY <1>1, NeverAheadStep, NoticedStep DEF Session
  <1>2. CASE link' = "lost"
    BY <1>2, LostKeeps DEF Session
  <1>3. CASE link = "lost" /\ link' # "lost"
    <2>1. LinkConnects
      <3>1. ~UNCHANGED link
        BY <1>3
      <3>2. Next
        BY <3>1 DEF vars, queues
      <3> QED
        BY <1>3, <3>1, <3>2 DEF Next, Handle, HandleFails, SendReply, SendLog, Broadcast, BuildDone,
           InstanceAnswers, PlatformsChange, HostDrops, HostResumes, HostLost, TransferSteps,
           OpenLog, Mount, Receive, TimerFires, LinkDrops, LinkResumes, SessionLost,
           ControllerRestarts, Connected, queues
    <2>2. NeverAhead'
      BY <1>3, <2>1, LinkConnectsNeverAhead DEF Session
    <2>3. Noticed'
      <3>1. PICK table \in [Slots -> Syncs] : table = [s \in Slots |-> Idle]
        BY IdleIs
      <3>2. PICK base \in Pages : base = Fresh(page)
        BY FreshIs DEF Typed, PageTyped
      <3>3. PICK queue, loop : Start(base, table, queue, loop)
        BY <2>1, <3>1, <3>2 DEF LinkConnects
      <3>4. mounted' \in BOOLEAN
        BY <2>1 DEF LinkConnects, Typed, GameTyped
      <3>5. PICK s \in Slots :
              syncs'[s].touched = {} /\ \A y \in Slots \ {s} : syncs'[y] = table[y]
        BY <3>3, <3>4, StartIs
      <3>6. \A y \in Slots : syncs'[y].touched = {}
        BY <3>1, <3>5, IdleIs
      <3> QED
        BY <3>6 DEF Noticed
    <2> QED
      BY <1>3, <2>2, <2>3, LostKeeps DEF Session
  <1> QED
    BY <1>1, <1>2, <1>3

\* SummariesNeverRegress: whatever is pushed, answered, dropped or resumed, and whichever
\* synchronisation began when, a page that was told of a transfer in its session shows
\* nothing older of it later, but for what a log that it opened says.
THEOREM SummariesGrow == Spec => SummariesNeverRegress
  <1> DEFINE Inv == Typed /\ SeenTyped /\ OneAnswer /\ Session
             Act == \A t \in told : page'.summaries[t] >= page.summaries[t] \/ Arrives("opened", t)
  <1>1. Init => Inv
    BY TypedInit, OneAnswerInit, SessionInit DEF Init, SeenTyped
  <1>2. Inv /\ [Next]_vars => Inv'
    BY TypedStep, SeenTypedStep, OneAnswerStep, SessionStep
  <1>3. Inv /\ [Next]_vars => [Act]_vars
    <2> SUFFICES ASSUME Inv, [Next]_vars PROVE Act
      OBVIOUS
    <2>1. Grows
      BY SessionStep
    <2>2. Typed'
      BY TypedStep
    <2>3. \A t \in told : page.summaries[t] \in Nat
      BY DEF Typed, PageTyped, Pages, SeenTyped
    <2>4. \A t \in told : page'.summaries[t] \in Nat
      BY <2>2 DEF Typed, PageTyped, Pages, SeenTyped
    <2>5. \A a, b \in Nat : a <= b => b >= a
      OBVIOUS
    <2> QED
      BY <2>1, <2>3, <2>4, <2>5 DEF Grows
  <1> HIDE DEF Inv
  <1> QED
    BY <1>1, <1>2, <1>3, PTL DEF Spec, SummariesNeverRegress

-----------------------------------------------------------------------------
(* Subscriptions *)

\* Requests that subscribe to the tree and the transfers, and that unsubscribe.
Wanting(q)  == {n \in DOMAIN q : q[n].kind = "subscribe" /\ q[n].enable}
Refusing(q) == {n \in DOMAIN q : q[n].kind = "subscribe" /\ ~q[n].enable}
LastWants(q) == \E k \in Wanting(q) : \A l \in Refusing(q) : l < k
Ordered(q)   == \A k \in Wanting(q), l \in Refusing(q) : l < k

\* A request asks what its synchronisation was started for; it asks for logs as long
\* as the page has not learnt that it may not see them.
Knows(q, table, may, can) ==
  \A n \in DOMAIN q : q[n].kind = "subscribe" =>
    /\ q[n].enable = table[q[n].id].enable
    /\ q[n].logs => q[n].enable
    /\ q[n].enable => q[n].logs \/ (~may /\ ~can)

Asks(e, u, may, can) ==
  e.kind = "subscribe" => /\ e.enable = u[e.id].enable /\ (e.logs => e.enable)
                          /\ e.enable => e.logs \/ (~may /\ ~can)
SameFor(q, t, u) == \A x \in Asked(q) : u[x.id].enable = t[x.id].enable

LEMMA RequestsTail ==
  ASSUME NEW q \in Seq(Requests), NEW r, q # <<>>, r = Tail(q), NEW table, NEW may, NEW can,
         Knows(q, table, may, can)
  PROVE  /\ Knows(r, table, may, can)
         /\ Ordered(q) => Ordered(r)
         /\ Refusing(q) = {} => Refusing(r) = {}
         /\ LastWants(q) => LastWants(r) \/ (1 \in Wanting(q) /\ Refusing(r) = {})
         /\ Ordered(q) /\ 1 \in Wanting(q) => Refusing(q) = {}
  <1>1. /\ 1 \in DOMAIN q /\ DOMAIN q \subseteq Nat \ {0} /\ DOMAIN r \subseteq Nat \ {0}
        /\ \A n \in DOMAIN r : n + 1 \in DOMAIN q /\ r[n] = q[n + 1]
        /\ \A n \in DOMAIN q : n = 1 \/ (n - 1 \in DOMAIN r /\ q[n] = r[n - 1])
    <2>1. /\ Len(q) \in Nat /\ 1 \in DOMAIN q /\ DOMAIN r = 1..(Len(q) - 1) /\ DOMAIN q = 1..Len(q)
          /\ \A n \in DOMAIN r : r[n] = q[n + 1]
      BY TailFrom
    <2>2. ASSUME NEW n \in DOMAIN q, n # 1 PROVE n - 1 \in DOMAIN r /\ q[n] = r[n - 1]
      <3>1. n - 1 \in DOMAIN r /\ (n - 1) + 1 = n
        BY <2>1, <2>2
      <3> QED
        BY <2>1, <3>1
    <2> QED
      BY <2>1, <2>2
  <1>2. /\ \A n \in Wanting(r) : n + 1 \in Wanting(q)
        /\ \A n \in Refusing(r) : n + 1 \in Refusing(q)
        /\ \A n \in Wanting(q) : n = 1 \/ n - 1 \in Wanting(r)
    BY <1>1 DEF Wanting, Refusing
  <1>3. Wanting(q) \cup Refusing(q) \cup Wanting(r) \cup Refusing(r) \subseteq Nat \ {0}
    BY <1>1 DEF Wanting, Refusing
  <1>4. Knows(r, table, may, can)
    BY <1>1 DEF Knows
  <1>5. Ordered(q) => Ordered(r)
    <2> SUFFICES ASSUME Ordered(q), NEW k \in Wanting(r), NEW l \in Refusing(r) PROVE l < k
      BY DEF Ordered
    <2>1. l + 1 < k + 1
      BY <1>2 DEF Ordered
    <2> QED
      BY <1>3, <2>1
  <1>6. LastWants(q) => LastWants(r) \/ (1 \in Wanting(q) /\ Refusing(r) = {})
    <2> SUFFICES ASSUME NEW k \in Wanting(q), \A l \in Refusing(q) : l < k
                 PROVE  LastWants(r) \/ (1 \in Wanting(q) /\ Refusing(r) = {})
      BY DEF LastWants
    <2>1. \A l \in Refusing(r) : l + 1 < k
      BY <1>2
    <2>2. CASE k = 1
      BY <1>3, <2>1, <2>2
    <2>3. CASE k - 1 \in Wanting(r)
      <3>1. \A l \in Refusing(r) : l < k - 1
        BY <1>3, <2>1
      <3> QED
        BY <2>3, <3>1 DEF LastWants
    <2> QED
      BY <1>2, <2>2, <2>3
  <1>7. Ordered(q) /\ 1 \in Wanting(q) => Refusing(q) = {}
    BY <1>3 DEF Ordered
  <1>8. Refusing(q) = {} => Refusing(r) = {}
    BY <1>2
  <1> QED
    BY <1>4, <1>5, <1>6, <1>7, <1>8

LEMMA RequestsAppend ==
  ASSUME NEW q \in Seq(Requests), NEW e \in Requests, NEW r, r = Append(q, e)
  PROVE  /\ e.kind # "subscribe" => Wanting(r) = Wanting(q)
         /\ e.kind # "subscribe" \/ e.enable => Refusing(r) = Refusing(q)
         /\ e.kind # "subscribe" => (Ordered(q) => Ordered(r)) /\ (LastWants(q) => LastWants(r))
         /\ e.kind = "subscribe" /\ e.enable => LastWants(r) /\ (Ordered(q) => Ordered(r))
  <1>1. PICK L \in Nat : L = Len(q)
    BY Elements
  <1>2. /\ DOMAIN r = 1..(L + 1) /\ DOMAIN q = 1..L
        /\ r[L + 1] = e /\ \A n \in DOMAIN q : r[n] = q[n]
    BY <1>1, AppendTo
  <1>3. \A n \in DOMAIN r : n \in DOMAIN q \/ n = L + 1
    BY <1>2
  <1>4. \A n \in DOMAIN q : n \in DOMAIN r /\ n < L + 1 /\ n \in Nat
    BY <1>2
  <1>5. e.kind # "subscribe" => Wanting(r) = Wanting(q)
    BY <1>2, <1>3, <1>4 DEF Wanting
  <1>6. (e.kind # "subscribe" \/ e.enable) => Refusing(r) = Refusing(q)
    BY <1>2, <1>3, <1>4 DEF Refusing
  <1>7. e.kind # "subscribe" => (Ordered(q) => Ordered(r)) /\ (LastWants(q) => LastWants(r))
    BY <1>5, <1>6 DEF Ordered, LastWants
  <1>8. ASSUME e.kind = "subscribe", e.enable
        PROVE  LastWants(r) /\ (Ordered(q) => Ordered(r))
    <2>1. L + 1 \in Wanting(r) /\ \A k \in Wanting(r) : k \in Wanting(q) \/ k = L + 1
      BY <1>2, <1>3, <1>8 DEF Wanting
    <2>2. \A l \in Refusing(r) : l \in Refusing(q) /\ l < L + 1
      BY <1>4, <1>6, <1>8 DEF Refusing
    <2> QED
      BY <2>1, <2>2 DEF LastWants, Ordered
  <1> QED
    BY <1>5, <1>6, <1>7, <1>8

\* The new request and the earlier ones, of synchronisations that did not change.
LEMMA KnowsNext ==
  ASSUME NEW q \in Seq(Requests), NEW e \in Requests, NEW r, r = Append(q, e),
         NEW t, NEW u, NEW may, NEW can, Knows(q, t, may, can),
         SameFor(q, t, u), Asks(e, u, may, can)
  PROVE  Knows(r, u, may, can)
  <1>1. /\ DOMAIN r = 1..(Len(q) + 1) /\ DOMAIN q = 1..Len(q) /\ Len(q) \in Nat
        /\ r[Len(q) + 1] = e /\ \A n \in DOMAIN q : r[n] = q[n]
    BY AppendTo
  <1>2. \A n \in DOMAIN r : n \in DOMAIN q \/ n = Len(q) + 1
    BY <1>1
  <1>3. \A n \in DOMAIN q : u[q[n].id].enable = t[q[n].id].enable
    BY TokenIs DEF Asked, SameFor
  <1>4. ASSUME NEW n \in DOMAIN r, r[n].kind = "subscribe"
        PROVE  /\ r[n].enable = u[r[n].id].enable
               /\ r[n].logs => r[n].enable
               /\ r[n].enable => r[n].logs \/ (~may /\ ~can)
    <2>1. CASE n \in DOMAIN q
      BY <1>1, <1>3, <1>4, <2>1 DEF Knows
    <2>2. CASE n = Len(q) + 1
      BY <1>1, <1>4, <2>2 DEF Asks
    <2> QED
      BY <1>2, <2>1, <2>2
  <1> QED
    BY <1>4 DEF Knows

LEMMA KnowsSame ==
  ASSUME NEW q, NEW t, NEW u, NEW may, NEW can, Knows(q, t, may, can), SameFor(q, t, u)
  PROVE  Knows(q, u, may, can)
  <1>1. \A n \in DOMAIN q : u[q[n].id].enable = t[q[n].id].enable
    BY TokenIs DEF Asked, SameFor
  <1> QED
    BY <1>1 DEF Knows

LEMMA KnowsDenied ==
  ASSUME NEW q, NEW t, NEW may, NEW could, Knows(q, t, may, could), ~may
  PROVE  Knows(q, t, may, FALSE)
  BY DEF Knows

\* Answers stay on their way until they are received.
LEMMA SentStays ==
  ASSUME NEW q \in Seq(Messages), NEW e \in Seq(Messages), NEW r, r = q \o e
  PROVE  \A x \in Sent(q) \cup Sent(e) : x \in Sent(r)
  <1>1. /\ Len(q) \in Nat /\ Len(e) \in Nat
        /\ DOMAIN r = 1..(Len(q) + Len(e)) /\ DOMAIN q = 1..Len(q) /\ DOMAIN e = 1..Len(e)
        /\ \A n \in DOMAIN r : /\ n <= Len(q) => r[n] = q[n]
                               /\ n > Len(q) => n - Len(q) \in DOMAIN e /\ r[n] = e[n - Len(q)]
    BY Joined
  <1>2. PICK L \in Nat, M \in Nat : L = Len(q) /\ M = Len(e)
    BY <1>1
  <1>3. /\ DOMAIN r = 1..(L + M) /\ DOMAIN q = 1..L /\ DOMAIN e = 1..M
        /\ \A n \in DOMAIN r : n <= L => r[n] = q[n]
        /\ \A n \in DOMAIN r : n > L => r[n] = e[n - L]
    BY <1>1, <1>2
  <1>4. \A n \in 1..L : n \in 1..(L + M) /\ n <= L
    OBVIOUS
  <1>5. \A n \in DOMAIN q : n \in DOMAIN r /\ r[n] = q[n]
    BY <1>3, <1>4
  <1>6. \A n \in 1..M : n + L \in 1..(L + M) /\ n + L > L /\ (n + L) - L = n
    OBVIOUS
  <1>7. \A n \in DOMAIN e : n + L \in DOMAIN r /\ r[n + L] = e[n]
    BY <1>3, <1>6
  <1>8. \A x \in Sent(q) : x \in Sent(r)
    BY <1>5 DEF Sent, Answering
  <1>9. \A x \in Sent(e) : x \in Sent(r)
    BY <1>7 DEF Sent, Answering
  <1> QED
    BY <1>8, <1>9

LEMMA SentAfter ==
  ASSUME NEW q \in Seq(Messages), NEW r, q # <<>>, r = Tail(q)
  PROVE  \A x \in Sent(q) : x \in Sent(r) \/ x = Token("down", q[1].id, q[1].kind)
  <1>1. /\ Len(q) \in Nat /\ DOMAIN r = 1..(Len(q) - 1) /\ DOMAIN q = 1..Len(q)
        /\ \A n \in DOMAIN r : r[n] = q[n + 1]
    BY TailFrom
  <1>2. ASSUME NEW n \in DOMAIN q, n # 1 PROVE n - 1 \in DOMAIN r /\ q[n] = r[n - 1]
    <2>1. n - 1 \in DOMAIN r /\ (n - 1) + 1 = n
      BY <1>1, <1>2
    <2> QED
      BY <1>1, <2>1
  <1> QED
    BY <1>2 DEF Sent, Answering

Good == subscription.tree /\ subscription.transfers /\ (subscription.logs <=> page.canViewLogs)
SomeDenied == \E x \in Sent(down) : x.kind = "denied"
Fetches(y) == y.step \in {"tree", "list"}

RequestsInv ==
  /\ Knows(up, syncs, mayViewLogs, page.canViewLogs)
  /\ \A s \in Slots : Fetches(syncs[s]) => syncs[s].enable
  /\ \A x \in Sent(down) : x.kind = "denied" => ~mayViewLogs /\ syncs[x.id].enable
  /\ mayViewLogs => page.canViewLogs
  /\ subscription.logs => mayViewLogs

\* Without errors: the last word on the subscription is on its way, or is said.
Restored    == LastWants(up) \/ (Refusing(up) = {} /\ (SomeDenied \/ Good))
CarefulInv  == link = "up" /\ mounted => Restored

\* The controller accepted a subscription, and the page shows it or will.
Accepted == {x \in Computed(builds) : x.kind = "subscribe"} \cup {x \in Sent(down) : x.kind = "ok"}
Secured  == \/ page.live = "live" \/ \E s \in Slots : Fetches(syncs[s])
            \/ \E x \in Accepted : syncs[x.id].enable

\* With one mount: nothing unsubscribes after it.
OnceInv ==
  /\ mounts \in 0..2 /\ (mounted <=> mounts = 1)
  /\ link = "lost" => page.live # "live"
  /\ mounts = 0 => page.live # "live" /\ \A s \in Slots : ~syncs[s].enable
  /\ mounts = 1 => Ordered(up)
  /\ mounts = 1 /\ link # "lost" /\ Secured => Good /\ Refusing(up) = {}

-----------------------------------------------------------------------------
(* What each kind of step does to them. *)

SameView  == page'.canViewLogs = page.canViewLogs
SameMount == UNCHANGED <<mounted, mounts, mayViewLogs>>
SameSync(s) == syncs'[s].step = syncs[s].step /\ syncs'[s].enable = syncs[s].enable

Quiet ==
  /\ SameMount /\ SameView /\ UNCHANGED <<up, subscription, link>> /\ page'.live = page.live
  /\ \A s \in Slots : SameSync(s)
  /\ \A x \in Sent(down) : x \in Sent(down')
  /\ \A x \in Sent(down') :
       \/ x \in Sent(down) \/ x.kind \in {"treeAnswer", "listAnswer"}
       \/ x.kind = "ok" /\ \E y \in Computed(builds) : y.kind = "subscribe" /\ y.id = x.id
  /\ \A x \in Computed(builds') : x \in Computed(builds)

Ended ==
  /\ SameMount /\ SameView /\ UNCHANGED <<up, down, syncs>> /\ page'.live # "live" /\ link' # "up"
  /\ \A x \in Computed(builds') : x \in Computed(builds)
  /\ \/ UNCHANGED subscription /\ link = "up"
     \/ subscription' = None /\ link' = "lost"

Turned == mounts < MaxMounts /\ mounts' = mounts + 1 /\ mounted' = ~mounted
Skipped ==
  /\ Turned /\ SameView /\ UNCHANGED <<up, down, syncs, builds, subscription, link, mayViewLogs>>
  /\ page'.live # "live" /\ link # "up"

Begins(s, e, t, q) ==
  /\ SameView /\ UNCHANGED <<builds, subscription, mayViewLogs>> /\ page'.live = page.live
  /\ link' = "up"
  /\ t[s].step = "idle" /\ syncs'[s].step = "subscribe" /\ syncs'[s].enable = mounted'
  /\ \A y \in Slots \ {s} : syncs'[y] = t[y]
  /\ e.id = s /\ e.kind = "subscribe" /\ e.enable = mounted'
  /\ e.logs = (mounted' /\ page.canViewLogs) /\ up' = Append(q, e)
  /\ SameMount \/ (Turned /\ UNCHANGED mayViewLogs)

Handled(r) ==
  /\ SameMount /\ SameView /\ UNCHANGED <<syncs, link>> /\ page'.live = page.live
  /\ link = "up" /\ up # <<>> /\ r = up[1] /\ up' = Tail(up)
  /\ \A x \in Sent(down) : x \in Sent(down')
Ignored(r) ==
  /\ r.kind # "subscribe" /\ UNCHANGED subscription
  /\ \A x \in Sent(down') : x \in Sent(down) \/ x.kind = "fetchError"
  /\ \A x \in Computed(builds') : x \in Computed(builds) \/ x.kind = "fetch"
Refused(r) ==
  /\ r.kind = "subscribe" /\ UNCHANGED <<builds, subscription>>
  /\ \/ /\ Errors /\ \A x \in Sent(down') : x \in Sent(down) \/ x.kind = "error"
     \/ /\ r.logs /\ ~mayViewLogs /\ Token("down", r.id, "denied") \in Sent(down')
        /\ \A x \in Sent(down') : x \in Sent(down) \/ x = Token("down", r.id, "denied")
Unsubscribed(r) ==
  /\ r.kind = "subscribe" /\ ~r.enable /\ ~r.logs /\ subscription' = None /\ UNCHANGED builds
  /\ \A x \in Sent(down') : x \in Sent(down) \/ x = Token("down", r.id, "ok")
Subscribed(r) ==
  /\ r.kind = "subscribe" /\ (r.enable \/ r.logs) /\ (r.logs => mayViewLogs)
  /\ subscription' = [tree |-> r.enable, transfers |-> r.enable, logs |-> r.logs]
  /\ Sent(down') = Sent(down)
  /\ \A x \in Computed(builds') : x \in Computed(builds) \/ x = Token("builds", r.id, "subscribe")

Received(m) ==
  /\ SameMount /\ UNCHANGED <<subscription, builds, link>> /\ link = "up"
  /\ m.id \in Slots /\ syncs[m.id].step \in Steps(m.kind)
  /\ Token("down", m.id, m.kind) \in Sent(down)
  /\ \A x \in Sent(down') : x \in Sent(down) /\ x.id # m.id
  /\ \A x \in Sent(down) : x \in Sent(down') \/ x = Token("down", m.id, m.kind)
  /\ \A x \in Asked(up) \cup Computed(builds) \cup Ready(replies) : x.id # m.id
  /\ \A y \in Slots \ {m.id} : SameSync(y)
GoesOn(m) ==
  /\ \/ m.kind = "ok" /\ syncs[m.id].enable /\ syncs'[m.id].step = "tree"
     \/ m.kind = "treeAnswer" /\ syncs'[m.id].step = "list"
  /\ syncs'[m.id].enable = syncs[m.id].enable /\ UNCHANGED page
  /\ \E e \in Requests : e.id = m.id /\ e.kind # "subscribe" /\ up' = Append(up, e)
Plain(m) ==
  /\ m.kind = "denied" /\ page' = [page EXCEPT !.canViewLogs = FALSE]
  /\ syncs'[m.id].step = "plain" /\ syncs'[m.id].enable = syncs[m.id].enable
  /\ \E e \in Requests : /\ e.id = m.id /\ e.kind = "subscribe" /\ e.enable = syncs[m.id].enable
                         /\ e.logs = FALSE /\ up' = Append(up, e)
Over(m) ==
  /\ SameView /\ UNCHANGED up /\ syncs'[m.id].step = "idle" /\ syncs'[m.id].enable = FALSE
  /\ \/ m.kind = "ok" /\ ~syncs[m.id].enable /\ page'.live = page.live
     \/ m.kind = "error" /\ page'.live # "live"
     \/ m.kind \in {"treeAnswer", "listAnswer", "fetchError"}

-----------------------------------------------------------------------------
(* Each keeps them. *)

\* Whoever is waited for has a synchronisation.
LEMMA WaitingSlots ==
  ASSUME OneAnswer
  PROVE  /\ \A x \in Waiting : x.id \in Slots /\ syncs[x.id].step \in Steps(x.kind)
         /\ \A x \in Asked(up) \cup Computed(builds) \cup Sent(down) : x \in Waiting
         /\ \A x, y \in Waiting : x.id = y.id => x = y
  BY DEF OneAnswer, Fit, Waiting, Alone

\* No more was accepted than before, and those of it are as they were.
LEMMA SecuredSame ==
  ASSUME OneAnswer, NEW T \in SUBSET Slots, page'.live = page.live \/ page'.live # "live",
         \A s \in T : SameSync(s),
         \A s \in Slots \ T : ~Fetches(syncs'[s]),
         \A x \in Accepted' :
           \/ x.id \in Slots \ T /\ ~syncs'[x.id].enable
           \/ x.id \in T /\ \E y \in Accepted : y.id = x.id,
         Secured'
  PROVE  Secured
  <1>1. CASE \E s \in Slots : Fetches(syncs'[s])
    <2>1. PICK s \in T : Fetches(syncs'[s])
      BY <1>1
    <2>2. Fetches(syncs[s])
      BY <2>1 DEF SameSync, Fetches
    <2> QED
      BY <2>2 DEF Secured
  <1>2. CASE page'.live = "live"
    BY <1>2 DEF Secured
  <1>3. ASSUME NEW x \in Accepted', syncs'[x.id].enable PROVE Secured
    <2>1. x.id \in T
      BY <1>3
    <2>2. PICK y \in Accepted : y.id = x.id
      BY <1>3
    <2>3. syncs[y.id].enable
      BY <1>3, <2>1, <2>2 DEF SameSync
    <2> QED
      BY <2>3 DEF Secured
  <1> QED
    BY <1>1, <1>2, <1>3 DEF Secured

LEMMA QuietKeeps ==
  ASSUME Typed, OneAnswer, Quiet, RequestsInv
  PROVE  RequestsInv' /\ (CarefulInv => CarefulInv') /\ (OnceInv => OnceInv')
  <1>1. /\ UNCHANGED <<mounted, mounts, mayViewLogs, up, subscription, link>>
        /\ page'.canViewLogs = page.canViewLogs /\ page'.live = page.live
        /\ \A s \in Slots : SameSync(s)
    BY DEF Quiet, SameMount, SameView
  <1>2. Knows(up, syncs, mayViewLogs, page.canViewLogs)'
    <2>1. PICK u, can : u = syncs' /\ can = page'.canViewLogs
      OBVIOUS
    <2>2. SameFor(up, syncs, u)
      BY <1>1, <2>1, WaitingSlots DEF SameSync, SameFor
    <2>3. Knows(up, syncs, mayViewLogs, can)
      BY <1>1, <2>1 DEF RequestsInv
    <2>4. Knows(up, u, mayViewLogs, can)
      BY <2>2, <2>3, KnowsSame
    <2> QED
      BY <1>1, <2>1, <2>4
  <1>3. ASSUME NEW x \in Sent(down'), x.kind = "denied"
        PROVE  ~mayViewLogs' /\ syncs'[x.id].enable
    <2>1. x \in Sent(down)
      BY <1>3 DEF Quiet
    <2>2. x.id \in Slots
      BY <2>1, WaitingSlots
    <2> QED
      BY <1>1, <1>3, <2>1, <2>2 DEF RequestsInv, SameSync
  <1>4. RequestsInv'
    <2>1. \A s \in Slots : Fetches(syncs'[s]) => syncs'[s].enable
      BY <1>1 DEF SameSync, RequestsInv, Fetches
    <2> QED
      BY <1>1, <1>2, <1>3, <2>1 DEF RequestsInv
  <1>5. ASSUME CarefulInv PROVE CarefulInv'
    <2>1. Good' <=> Good
      BY <1>1 DEF Good
    <2>2. SomeDenied => SomeDenied'
      BY DEF SomeDenied, Quiet
    <2>3. Restored => Restored'
      BY <1>1, <2>1, <2>2 DEF Restored
    <2> QED
      BY <1>1, <1>5, <2>3 DEF CarefulInv
  <1>6. ASSUME OnceInv PROVE OnceInv'
    <2>1. \A x \in Accepted' : x.id \in Slots /\ \E y \in Accepted : y.id = x.id
      <3>1. ASSUME NEW x \in Computed(builds'), x.kind = "subscribe"
            PROVE  x.id \in Slots /\ \E y \in Accepted : y.id = x.id
        BY <3>1, WaitingSlots DEF Quiet, Accepted
      <3>2. ASSUME NEW x \in Sent(down'), x.kind = "ok"
            PROVE  x.id \in Slots /\ \E y \in Accepted : y.id = x.id
        <4>1. CASE x \in Sent(down)
          BY <3>2, <4>1, WaitingSlots DEF Accepted
        <4>2. CASE \E y \in Computed(builds) : y.kind = "subscribe" /\ y.id = x.id
          BY <3>2, <4>2, WaitingSlots DEF Accepted
        <4> QED
          BY <3>2, <4>1, <4>2 DEF Quiet
      <3> QED
        BY <3>1, <3>2 DEF Accepted
    <2>2. Secured' => Secured
      BY <1>1, <2>1, SecuredSame
    <2>3. Good' <=> Good
      BY <1>1 DEF Good
    <2>4. \A s \in Slots : syncs'[s].enable = syncs[s].enable
      BY <1>1 DEF SameSync
    <2> QED
      BY <1>1, <1>6, <2>2, <2>3, <2>4 DEF OnceInv
  <1> QED
    BY <1>4, <1>5, <1>6

LEMMA EndedKeeps ==
  ASSUME Typed, OneAnswer, Ended, RequestsInv
  PROVE  RequestsInv' /\ (CarefulInv => CarefulInv') /\ (OnceInv => OnceInv')
  <1>1. /\ UNCHANGED <<mounted, mounts, mayViewLogs, up, down, syncs>>
        /\ page'.canViewLogs = page.canViewLogs /\ page'.live # "live" /\ link' # "up"
        /\ \/ UNCHANGED subscription /\ link = "up"
           \/ subscription' = None /\ link' = "lost"
    BY DEF Ended, SameMount, SameView
  <1>2. RequestsInv'
    BY <1>1, SubscriptionIs DEF RequestsInv
  <1>3. CarefulInv'
    BY <1>1 DEF CarefulInv
  <1>4. ASSUME OnceInv PROVE OnceInv'
    <2>1. \A x \in Accepted' : x.id \in Slots /\ \E y \in Accepted : y.id = x.id
      BY <1>1, WaitingSlots DEF Ended, Accepted
    <2>2. \A s \in Slots : SameSync(s)
      BY <1>1 DEF SameSync
    <2>3. Secured' => Secured
      BY <1>1, <2>1, <2>2, SecuredSame
    <2>4. link' # "lost" => link # "lost" /\ (Good' <=> Good)
      BY <1>1 DEF Good
    <2> QED
      BY <1>1, <1>4, <2>3, <2>4 DEF OnceInv
  <1> QED
    BY <1>2, <1>3, <1>4

LEMMA TurnedIs ==
  ASSUME Typed, Turned
  PROVE  /\ OnceInv /\ MaxMounts <= 2 =>
              /\ mounts' \in 1..2 /\ (mounted' <=> mounts' = 1)
              /\ mounts' = 1 => mounts = 0
  <1>1. mounts \in Nat /\ MaxMounts \in Nat /\ mounted \in BOOLEAN
    BY LiveViewAssumption DEF Typed, GameTyped
  <1>2. mounts < MaxMounts /\ mounts' = mounts + 1
    BY DEF Turned
  <1>3. mounted' = ~mounted
    BY DEF Turned
  <1>4. ASSUME OnceInv, MaxMounts <= 2
        PROVE  mounts' \in 1..2 /\ (mounted' <=> mounts' = 1) /\ (mounts' = 1 => mounts = 0)
    <2>1. mounts \in 0..1
      BY <1>1, <1>2, <1>4 DEF OnceInv
    <2>2. mounts = 0 => mounts' = 1 /\ mounts' \in 1..2
      BY <1>2
    <2>3. mounts = 1 => mounts' = 2 /\ mounts' \in 1..2
      BY <1>2
    <2>4. mounted <=> mounts = 1
      BY <1>4 DEF OnceInv
    <2>5. mounts = 0 <=> ~(mounts = 1)
      BY <2>1
    <2>6. mounted' <=> mounts = 0
      BY <1>3, <2>4, <2>5, Zenon
    <2> QED
      BY <2>1, <2>2, <2>3, <2>6
  <1> QED
    BY <1>4

LEMMA SkippedKeeps ==
  ASSUME Typed, OneAnswer, Skipped, RequestsInv
  PROVE  RequestsInv' /\ (CarefulInv => CarefulInv') /\ (OnceInv /\ MaxMounts <= 2 => OnceInv')
  <1>1. /\ UNCHANGED <<up, down, syncs, builds, subscription, link, mayViewLogs>>
        /\ page'.canViewLogs = page.canViewLogs /\ page'.live # "live" /\ link # "up" /\ Turned
    BY DEF Skipped, SameView
  <1>2. RequestsInv'
    BY <1>1 DEF RequestsInv
  <1>3. CarefulInv'
    BY <1>1 DEF CarefulInv
  <1>4. ASSUME OnceInv, MaxMounts <= 2 PROVE OnceInv'
    <2>1. mounts' \in 1..2 /\ (mounted' <=> mounts' = 1) /\ (mounts' = 1 => mounts = 0)
      BY <1>1, <1>4, TurnedIs
    <2>2. ASSUME mounts' = 1 PROVE ~Secured' /\ Ordered(up')
      <3>1. \A s \in Slots : ~syncs'[s].enable
        BY <1>1, <1>4, <2>1, <2>2 DEF OnceInv
      <3>2. \A s \in Slots : ~Fetches(syncs'[s])
        BY <1>2, <3>1 DEF RequestsInv
      <3>3. \A x \in Accepted' : x.id \in Slots
        BY <1>1, WaitingSlots DEF Accepted
      <3>4. Wanting(up) = {}
        <4>1. ASSUME NEW n \in Wanting(up) PROVE FALSE
          <5>1. n \in DOMAIN up /\ up[n].kind = "subscribe" /\ up[n].enable
            BY <4>1 DEF Wanting
          <5>2. Token("up", up[n].id, up[n].kind) \in Asked(up)
            BY <5>1 DEF Asked
          <5>3. up[n].id \in Slots
            BY <5>2, WaitingSlots, TokenIs
          <5>4. syncs[up[n].id].enable
            BY <5>1 DEF RequestsInv, Knows
          <5> QED
            BY <1>4, <2>1, <2>2, <5>3, <5>4 DEF OnceInv
        <4> QED
          BY <4>1
      <3>5. Ordered(up')
        BY <1>1, <3>4 DEF Ordered
      <3> QED
        BY <1>1, <3>1, <3>2, <3>3, <3>5 DEF Secured
    <2> QED
      BY <1>1, <2>1, <2>2 DEF OnceInv
  <1> QED
    BY <1>2, <1>3, <1>4

\* What a synchronisation that begins asks for, it was asked for by nobody before.
LEMMA BeginsKeeps ==
  ASSUME Typed, OneAnswer, RequestsInv, NEW s \in Slots, NEW e \in Requests,
         link # "lost", UNCHANGED down, Begins(s, e, syncs, up)
  PROVE  RequestsInv' /\ (CarefulInv => CarefulInv') /\ (OnceInv /\ MaxMounts <= 2 => OnceInv')
  <1>1. /\ page'.canViewLogs = page.canViewLogs /\ UNCHANGED <<builds, subscription, mayViewLogs, down>>
        /\ page'.live = page.live /\ link' = "up"
        /\ syncs[s].step = "idle" /\ syncs'[s].step = "subscribe" /\ syncs'[s].enable = mounted'
        /\ \A y \in Slots \ {s} : syncs'[y] = syncs[y]
        /\ e.id = s /\ e.kind = "subscribe" /\ e.enable = mounted'
        /\ e.logs = (mounted' /\ page.canViewLogs) /\ up' = Append(up, e)
        /\ (UNCHANGED <<mounted, mounts>> \/ Turned)
    BY DEF Begins, SameView, SameMount
  <1>2. \A x \in Waiting : x.id \in Slots \ {s}
    <2>1. PICK W, t : W = Waiting /\ t = syncs
      OBVIOUS
    <2>2. Fit(W, t) /\ t[s].step = "idle"
      BY <1>1, <2>1 DEF OneAnswer
    <2>3. \A x \in W : x.id # s
      BY <2>2, IdleHasNone
    <2> QED
      BY <2>1, <2>3 DEF OneAnswer, Fit
  <1>3. PICK q, r : q \in Seq(Requests) /\ q = up /\ r = Append(q, e) /\ r = up'
    BY <1>1 DEF Typed, LinkTyped
  <1>4. PICK u, t, can : u = syncs' /\ t = syncs /\ can = page.canViewLogs
    OBVIOUS
  <1>5. mayViewLogs \in BOOLEAN /\ mounted \in BOOLEAN
    BY DEF Typed, GameTyped
  <1>6. Knows(r, u, mayViewLogs, can)
    <2>1. SameFor(q, t, u)
      BY <1>1, <1>2, <1>3, <1>4, WaitingSlots DEF SameFor
    <2>2. Asks(e, u, mayViewLogs, can)
      BY <1>1, <1>4, <1>5 DEF RequestsInv, Typed, PageTyped, Pages, Asks
    <2>3. Knows(q, t, mayViewLogs, can)
      BY <1>3, <1>4 DEF RequestsInv
    <2> QED
      BY <1>3, <2>1, <2>2, <2>3, KnowsNext
  <1>7. RequestsInv'
    <2>1. Knows(up, syncs, mayViewLogs, page.canViewLogs)'
      BY <1>1, <1>3, <1>4, <1>6
    <2>2. \A y \in Slots : Fetches(syncs'[y]) => syncs'[y].enable
      BY <1>1 DEF Fetches, RequestsInv
    <2>3. \A x \in Sent(down') : x.kind = "denied" => ~mayViewLogs' /\ syncs'[x.id].enable
      BY <1>1, <1>2, WaitingSlots DEF RequestsInv
    <2> QED
      BY <1>1, <2>1, <2>2, <2>3 DEF RequestsInv
  <1>8. /\ mounted' => LastWants(r) /\ (Ordered(q) => Ordered(r)) /\ Refusing(r) = Refusing(q)
    BY <1>1, <1>3, RequestsAppend
  <1>9. CarefulInv'
    BY <1>3, <1>8 DEF CarefulInv, Restored
  <1>10. ASSUME OnceInv, MaxMounts <= 2 PROVE OnceInv'
    <2>1. CASE Turned
      <3>1. mounts' \in 1..2 /\ (mounted' <=> mounts' = 1) /\ (mounts' = 1 => mounts = 0)
        BY <1>10, <2>1, TurnedIs
      <3>2. ASSUME mounts' = 1 PROVE ~Secured' /\ Ordered(up')
        <4>1. page.live # "live" /\ \A y \in Slots : ~syncs[y].enable
          BY <1>10, <3>1, <3>2 DEF OnceInv
        <4>2. \A y \in Slots : ~Fetches(syncs'[y])
          BY <1>1, <4>1 DEF RequestsInv, Fetches
        <4>3. \A x \in Accepted' : x.id \in Slots \ {s}
          BY <1>1, <1>2, WaitingSlots DEF Accepted
        <4>4. \A x \in Accepted' : ~syncs'[x.id].enable
          BY <1>1, <4>1, <4>3
        <4>5. Wanting(up) = {}
          <5>1. ASSUME NEW n \in Wanting(up) PROVE FALSE
            <6>1. n \in DOMAIN up /\ up[n].kind = "subscribe" /\ up[n].enable
              BY <5>1 DEF Wanting
            <6>2. Token("up", up[n].id, up[n].kind) \in Asked(up)
              BY <6>1 DEF Asked
            <6>3. up[n].id \in Slots
              BY <6>2, WaitingSlots, TokenIs
            <6>4. syncs[up[n].id].enable
              BY <6>1 DEF RequestsInv, Knows
            <6> QED
              BY <4>1, <6>3, <6>4
          <5> QED
            BY <5>1
        <4>6. Ordered(q)
          BY <1>3, <4>5 DEF Ordered
        <4> QED
          BY <1>1, <1>3, <1>8, <3>1, <3>2, <4>1, <4>2, <4>4, <4>6 DEF Secured
      <3> QED
        BY <1>1, <3>1, <3>2 DEF OnceInv
    <2>2. CASE UNCHANGED <<mounted, mounts>>
      <3>1. mounts' \in 0..2 /\ (mounted' <=> mounts' = 1)
        BY <1>10, <2>2 DEF OnceInv
      <3>2. mounts' = 0 => page'.live # "live" /\ \A y \in Slots : ~syncs'[y].enable
        <4>1. ASSUME mounts' = 0 PROVE page'.live # "live" /\ \A y \in Slots : ~syncs'[y].enable
          <5>1. page.live # "live" /\ (\A y \in Slots : ~syncs[y].enable) /\ ~mounted'
            BY <1>10, <2>2, <3>1, <4>1 DEF OnceInv
          <5> QED
            BY <1>1, <5>1
        <4> QED
          BY <4>1
      <3>3. ASSUME mounts' = 1 PROVE Ordered(up') /\ (Secured' => Good' /\ Refusing(up') = {})
        <4>1. mounted' /\ mounts = 1
          BY <2>2, <3>1, <3>3
        <4>2. Ordered(up')
          BY <1>3, <1>8, <1>10, <4>1 DEF OnceInv
        <4>3. Secured' => Secured
          <5>1. PICK T \in SUBSET Slots : T = Slots \ {s}
            OBVIOUS
          <5>2. \A y \in T : SameSync(y)
            BY <1>1, <5>1 DEF SameSync
          <5>3. \A y \in Slots \ T : ~Fetches(syncs'[y])
            BY <1>1, <5>1 DEF Fetches
          <5>4. \A x \in Accepted' : x.id \in T /\ \E y \in Accepted : y.id = x.id
            BY <1>1, <1>2, <5>1, WaitingSlots DEF Accepted
          <5> QED
            BY <1>1, <5>2, <5>3, <5>4, SecuredSame
        <4>4. Good' <=> Good
          BY <1>1 DEF Good
        <4> QED
          BY <1>3, <1>8, <1>10, <4>1, <4>2, <4>3, <4>4 DEF OnceInv
      <3> QED
        BY <1>1, <3>1, <3>2, <3>3 DEF OnceInv
    <2> QED
      BY <1>1, <2>1, <2>2
  <1> QED
    BY <1>7, <1>9, <1>10

LEMMA ConnectsKeeps ==
  ASSUME Typed, OneAnswer, RequestsInv, NEW s \in Slots, NEW e \in Requests,
         Begins(s, e, [x \in Slots |-> Idle], <<>>), SameMount, down' = <<>>,
         Awaited(builds) = {}, link = "lost"
  PROVE  RequestsInv' /\ CarefulInv' /\ (OnceInv => OnceInv')
  <1>1. /\ page'.canViewLogs = page.canViewLogs
        /\ UNCHANGED <<builds, subscription, mayViewLogs, mounted, mounts>>
        /\ page'.live = page.live /\ link' = "up"
        /\ syncs'[s].step = "subscribe" /\ syncs'[s].enable = mounted'
        /\ \A y \in Slots \ {s} : syncs'[y] = Idle
        /\ e.id = s /\ e.kind = "subscribe" /\ e.enable = mounted'
        /\ e.logs = (mounted' /\ page.canViewLogs) /\ up' = Append(<<>>, e)
    BY DEF Begins, SameView, SameMount
  <1>2. Sent(down') = {} /\ Computed(builds') = {}
    <2>1. PICK q : q = down' /\ q = <<>>
      BY DEF Begins
    <2>2. Sent(q) = {}
      BY <2>1, SentNone
    <2> QED
      BY <1>1, <2>1, <2>2 DEF Computed
  <1>3. PICK q, r : q \in Seq(Requests) /\ q = <<>> /\ r = Append(q, e) /\ r = up'
    <2>1. <<>> \in Seq(Requests)
      OBVIOUS
    <2> QED
      BY <1>1, <2>1, Zenon
  <1>4. PICK u, can : u = syncs' /\ can = page.canViewLogs
    OBVIOUS
  <1>5. mayViewLogs \in BOOLEAN /\ mounted \in BOOLEAN
    BY DEF Typed, GameTyped
  <1>6. Knows(r, u, mayViewLogs, can)
    <2>1. Asked(q) = {} /\ Knows(q, u, mayViewLogs, can)
      BY <1>3 DEF Asked, Knows
    <2>2. Asks(e, u, mayViewLogs, can)
      BY <1>1, <1>4, <1>5 DEF RequestsInv, Typed, PageTyped, Pages, Asks
    <2>3. SameFor(q, u, u)
      BY DEF SameFor
    <2> QED
      BY <1>3, <2>1, <2>2, <2>3, KnowsNext
  <1>7. \A y \in Slots : ~Fetches(syncs'[y])
    BY <1>1, IdleIs DEF Fetches
  <1>8. RequestsInv'
    <2>1. Knows(up, syncs, mayViewLogs, page.canViewLogs)'
      BY <1>1, <1>3, <1>4, <1>6
    <2> QED
      BY <1>1, <1>2, <1>7, <2>1 DEF RequestsInv
  <1>9. mounted' => LastWants(r) /\ (Ordered(q) => Ordered(r)) /\ Refusing(r) = Refusing(q)
    BY <1>1, <1>3, RequestsAppend
  <1>10. Ordered(q) /\ Refusing(q) = {}
    BY <1>3 DEF Ordered, Wanting, Refusing
  <1>11. CarefulInv'
    BY <1>3, <1>9 DEF CarefulInv, Restored
  <1>12. ASSUME OnceInv PROVE OnceInv'
    <2>1. page'.live # "live"
      BY <1>1, <1>12 DEF OnceInv
    <2>2. ~Secured'
      BY <1>2, <1>7, <2>1 DEF Secured, Accepted
    <2>3. mounts' = 0 => \A y \in Slots : ~syncs'[y].enable
      <3>1. mounts' = 0 => ~mounted'
        BY <1>1, <1>12 DEF OnceInv
      <3> QED
        BY <1>1, <3>1, IdleIs
    <2>4. mounts' = 1 => Ordered(up')
      BY <1>1, <1>3, <1>9, <1>10, <1>12 DEF OnceInv
    <2> QED
      BY <1>1, <1>12, <2>1, <2>2, <2>3, <2>4 DEF OnceInv
  <1> QED
    BY <1>8, <1>11, <1>12

\* The controller takes a request: the first of the queue.
LEMMA HandledKeeps ==
  ASSUME Typed, OneAnswer, RequestsInv, NEW r \in Requests, Handled(r),
         Ignored(r) \/ Refused(r) \/ Unsubscribed(r) \/ Subscribed(r)
  PROVE  RequestsInv' /\ (CarefulInv /\ ~Errors => CarefulInv') /\ (OnceInv => OnceInv')
  <1>1. /\ UNCHANGED <<mounted, mounts, mayViewLogs, syncs, link>>
        /\ page'.canViewLogs = page.canViewLogs /\ page'.live = page.live
        /\ link = "up" /\ up # <<>> /\ r = up[1] /\ up' = Tail(up)
        /\ \A x \in Sent(down) : x \in Sent(down')
    BY DEF Handled, SameMount, SameView
  <1>2. PICK q, z : q \in Seq(Requests) /\ q = up /\ z = Tail(q) /\ z = up' /\ q # <<>> /\ r = q[1]
    BY <1>1 DEF Typed, LinkTyped
  <1>3. PICK t, can : t = syncs /\ can = page.canViewLogs
    OBVIOUS
  <1>4. /\ Knows(z, t, mayViewLogs, can)
        /\ Ordered(q) => Ordered(z)
        /\ Refusing(q) = {} => Refusing(z) = {}
        /\ LastWants(q) => LastWants(z) \/ (1 \in Wanting(q) /\ Refusing(z) = {})
        /\ Ordered(q) /\ 1 \in Wanting(q) => Refusing(q) = {}
    <2>1. Knows(q, t, mayViewLogs, can)
      BY <1>2, <1>3 DEF RequestsInv
    <2> QED
      BY <1>2, <2>1, RequestsTail
  <1>5. PICK a : a = Token("up", r.id, r.kind)
    OBVIOUS
  <1>6. a \in Waiting /\ a.at = "up" /\ a.id = r.id /\ a.kind = r.kind /\ 1 \in DOMAIN up
    <2>1. 1 \in DOMAIN q
      BY <1>2, TailFrom
    <2> QED
      BY <1>2, <1>5, <2>1, TokenIs DEF Waiting, Asked
  <1>7. /\ r.id \in Slots /\ syncs[r.id].step \in Steps(r.kind)
        /\ \A x \in Computed(builds) : x.id # r.id
        /\ \A x \in Sent(down) : x.id # r.id
    BY <1>6, WaitingSlots, ElsewhereNone
  <1>8. r.kind = "subscribe" =>
          /\ r.enable = syncs[r.id].enable /\ (r.logs => r.enable)
          /\ r.enable => r.logs \/ (~mayViewLogs /\ ~page.canViewLogs)
          /\ ~Fetches(syncs[r.id])
    BY <1>1, <1>6, <1>7 DEF RequestsInv, Knows, Steps, Fetches
  <1>9. r.kind = "subscribe" => /\ r.enable => 1 \in Wanting(q)
                                /\ ~r.enable => 1 \in Refusing(q)
    BY <1>2, <1>6 DEF Wanting, Refusing
  <1>10. 1 \in Wanting(q) => r.kind = "subscribe" /\ r.enable
    BY <1>2 DEF Wanting
  <1>11. Subscribed(r) => Good' /\ r.enable
    <2>1. ASSUME Subscribed(r) PROVE Good' /\ r.enable
      <3>1. /\ r.enable /\ (r.logs <=> page.canViewLogs)
        BY <1>8, <2>1 DEF Subscribed, RequestsInv
      <3>2. subscription' = [tree |-> r.enable, transfers |-> r.enable, logs |-> r.logs]
        BY <2>1 DEF Subscribed
      <3>3. subscription'.tree = r.enable /\ subscription'.transfers = r.enable
            /\ subscription'.logs = r.logs
        BY <3>2
      <3>4. page'.canViewLogs = page.canViewLogs
        BY <1>1
      <3> QED
        BY <3>1, <3>3, <3>4 DEF Good
    <2> QED
      BY <2>1
  <1>12. Ignored(r) \/ Refused(r) => (Good' <=> Good)
    BY <1>1 DEF Ignored, Refused, Good
  <1>13. RequestsInv'
    <2>1. Knows(up, syncs, mayViewLogs, page.canViewLogs)'
      BY <1>1, <1>2, <1>3, <1>4
    <2>2. ASSUME NEW x \in Sent(down'), x.kind = "denied"
          PROVE  ~mayViewLogs' /\ syncs'[x.id].enable
      <3>1. CASE x \in Sent(down)
        BY <1>1, <2>2, <3>1 DEF RequestsInv
      <3>2. CASE x \notin Sent(down)
        <4>1. Refused(r) /\ r.logs /\ ~mayViewLogs /\ x = Token("down", r.id, "denied")
          BY <2>2, <3>2, TokenIs DEF Ignored, Refused, Unsubscribed, Subscribed
        <4>2. x.id = r.id /\ r.kind = "subscribe"
          BY <4>1, TokenIs DEF Refused
        <4> QED
          BY <1>1, <1>8, <4>1, <4>2
      <3> QED
        BY <3>1, <3>2
    <2>3. subscription'.logs => mayViewLogs
      <3>1. CASE Ignored(r) \/ Refused(r)
        BY <3>1 DEF Ignored, Refused, RequestsInv
      <3>2. CASE Unsubscribed(r)
        BY <3>2, SubscriptionIs DEF Unsubscribed
      <3>3. CASE Subscribed(r)
        BY <3>3 DEF Subscribed
      <3> QED
        BY <3>1, <3>2, <3>3
    <2> QED
      BY <1>1, <2>1, <2>2, <2>3 DEF RequestsInv
  <1>14. ASSUME CarefulInv, ~Errors PROVE CarefulInv'
    <2>1. ASSUME mounted, Refusing(q) = {}, SomeDenied \/ Good
          PROVE  Restored'
      <3>1. Refusing(up') = {}
        BY <1>2, <1>4, <2>1
      <3>2. CASE SomeDenied
        BY <1>1, <3>1, <3>2 DEF SomeDenied, Restored
      <3>3. CASE Good
        <4>1. ~Unsubscribed(r)
          BY <1>9, <2>1 DEF Unsubscribed
        <4>2. Good'
          BY <1>11, <1>12, <3>3, <4>1
        <4> QED
          BY <3>1, <4>2 DEF Restored
      <3> QED
        BY <2>1, <3>2, <3>3
    <2>2. ASSUME 1 \in Wanting(q), Refusing(z) = {}
          PROVE  Restored'
      <3>1. r.kind = "subscribe" /\ r.enable
        BY <1>10, <2>2
      <3>2. Refused(r) => SomeDenied'
        BY <1>14, TokenIs DEF Refused, SomeDenied
      <3>3. SomeDenied' \/ Good'
        BY <1>11, <3>1, <3>2 DEF Ignored, Unsubscribed
      <3> QED
        BY <1>2, <2>2, <3>3 DEF Restored
    <2>3. LastWants(z) => Restored'
      BY <1>2 DEF Restored
    <2> QED
      BY <1>1, <1>2, <1>4, <1>14, <2>1, <2>2, <2>3 DEF CarefulInv, Restored
  <1>15. ASSUME OnceInv PROVE OnceInv'
    <2>1. CASE Subscribed(r)
      <3>1. mounts = 1 => Good' /\ Refusing(up') = {} /\ Ordered(up')
        BY <1>2, <1>4, <1>9, <1>11, <1>15, <2>1 DEF OnceInv, Subscribed
      <3> QED
        BY <1>1, <1>15, <3>1 DEF OnceInv
    <2>2. CASE ~Subscribed(r)
      <3>1. PICK T \in SUBSET Slots : T = IF Unsubscribed(r) THEN Slots \ {r.id} ELSE Slots
        OBVIOUS
      <3>2. \A s \in T : SameSync(s)
        BY <1>1 DEF SameSync
      <3>3. \A s \in Slots \ T : ~Fetches(syncs'[s])
        BY <1>1, <1>8, <3>1 DEF Unsubscribed
      <3>4. ASSUME NEW x \in Accepted'
            PROVE  \/ x.id \in Slots \ T /\ ~syncs'[x.id].enable
                   \/ x.id \in T /\ \E y \in Accepted : y.id = x.id
        <4>1. ASSUME x \in Computed(builds) \/ x \in Sent(down),
                     x.kind = "subscribe" \/ x.kind = "ok",
                     x.kind = "subscribe" => x \in Computed(builds),
                     x.kind = "ok" => x \in Sent(down)
              PROVE  x.id \in T /\ \E y \in Accepted : y.id = x.id
          <5>1. x.id \in Slots \ {r.id}
            BY <1>7, <4>1, WaitingSlots
          <5> QED
            BY <3>1, <4>1, <5>1 DEF Accepted
        <4>2. CASE Unsubscribed(r) /\ x = Token("down", r.id, "ok")
          <5>1. x.id = r.id /\ ~syncs'[r.id].enable
            BY <1>1, <1>8, <4>2, TokenIs DEF Unsubscribed
          <5> QED
            BY <1>7, <3>1, <4>2, <5>1
        <4>3. /\ x.kind = "subscribe" \/ x.kind = "ok"
              /\ x.kind = "subscribe" => x \in Computed(builds')
              /\ x.kind = "ok" => x \in Sent(down')
          BY DEF Accepted
        <4>4. x.kind = "subscribe" => x \in Computed(builds)
          BY <2>2, <4>3, Zenon DEF Ignored, Refused, Unsubscribed
        <4>5. x.kind = "ok" => x \in Sent(down) \/ (Unsubscribed(r) /\ x = Token("down", r.id, "ok"))
          <5>1. Token("down", r.id, "denied").kind = "denied"
            BY TokenIs
          <5> QED
            BY <2>2, <4>3, <5>1 DEF Ignored, Refused, Unsubscribed
        <4> QED
          BY <4>1, <4>2, <4>3, <4>4, <4>5
      <3>5. Secured' => Secured
        BY <1>1, <3>2, <3>3, <3>4, SecuredSame
      <3>6. ASSUME mounts = 1, Secured' PROVE Good' /\ Refusing(up') = {}
        <4>1. Good /\ Refusing(q) = {}
          BY <1>1, <1>2, <1>15, <3>5, <3>6 DEF OnceInv
        <4>2. ~Unsubscribed(r)
          BY <1>9, <4>1 DEF Unsubscribed
        <4> QED
          BY <1>2, <1>4, <1>12, <2>2, <4>1, <4>2
      <3> QED
        BY <1>1, <1>2, <1>4, <1>15, <3>6 DEF OnceInv
    <2> QED
      BY <2>1, <2>2
  <1> QED
    BY <1>13, <1>14, <1>15

\* The page is answered.
LEMMA ReceivedKeeps ==
  ASSUME Typed, OneAnswer, RequestsInv, NEW m, Received(m), GoesOn(m) \/ Plain(m) \/ Over(m)
  PROVE  RequestsInv' /\ (CarefulInv => CarefulInv') /\ (OnceInv => OnceInv')
  <1>1. /\ UNCHANGED <<mounted, mounts, mayViewLogs, subscription, builds, link>> /\ link = "up"
        /\ m.id \in Slots /\ syncs[m.id].step \in Steps(m.kind)
        /\ Token("down", m.id, m.kind) \in Sent(down)
        /\ \A x \in Sent(down') : x \in Sent(down) /\ x.id # m.id
        /\ \A x \in Sent(down) : x \in Sent(down') \/ x = Token("down", m.id, m.kind)
        /\ \A x \in Asked(up) \cup Computed(builds) : x.id # m.id
        /\ \A y \in Slots \ {m.id} : SameSync(y)
    BY DEF Received, SameMount
  <1>2. PICK q, z : q \in Seq(Requests) /\ q = up /\ z = up'
    BY DEF Typed, LinkTyped
  <1>3. PICK u, t, can : u = syncs' /\ t = syncs /\ can = page.canViewLogs
    OBVIOUS
  <1>4. SameFor(q, t, u)
    BY <1>1, <1>2, <1>3, WaitingSlots DEF SameFor, SameSync
  <1>5. Knows(q, t, mayViewLogs, can)
    BY <1>2, <1>3 DEF RequestsInv
  <1>6. m.kind = "denied" => ~mayViewLogs /\ syncs[m.id].enable
    <2>1. PICK x \in Sent(down) : x = Token("down", m.id, m.kind)
      BY <1>1
    <2>2. x.id = m.id /\ x.kind = m.kind
      BY <2>1, TokenIs
    <2> QED
      BY <2>1, <2>2 DEF RequestsInv
  <1>7. m.kind = "ok" => \E x \in Accepted : x.id = m.id
    <2>1. PICK x \in Sent(down) : x = Token("down", m.id, m.kind)
      BY <1>1
    <2>2. x.id = m.id /\ x.kind = m.kind
      BY <2>1, TokenIs
    <2> QED
      BY <2>1, <2>2 DEF Accepted
  <1>8. m.kind \in {"treeAnswer", "listAnswer", "fetchError"} => Fetches(syncs[m.id]) /\ syncs[m.id].enable
    BY <1>1 DEF Steps, Fetches, RequestsInv
  <1>9. Plain(m) => ~mayViewLogs /\ syncs[m.id].enable
    BY <1>6 DEF Plain
  <1>10. page'.canViewLogs = page.canViewLogs \/ (Plain(m) /\ page'.canViewLogs = FALSE)
    <2>1. Plain(m) => page'.canViewLogs = FALSE
      <3>1. page \in Pages
        BY DEF Typed, PageTyped
      <3>2. [page EXCEPT !.canViewLogs = FALSE].canViewLogs = FALSE
        BY <3>1 DEF Pages
      <3> QED
        BY <3>2 DEF Plain
    <2> QED
      BY <2>1 DEF GoesOn, Over, SameView
  <1>11. /\ Knows(z, u, mayViewLogs, page'.canViewLogs)
         /\ Refusing(z) = Refusing(q) /\ (Ordered(q) => Ordered(z)) /\ (LastWants(q) => LastWants(z))
    <2>1. CASE GoesOn(m)
      <3>1. PICK e \in Requests : e.kind # "subscribe" /\ z = Append(q, e)
        BY <1>2, <2>1 DEF GoesOn
      <3>2. Asks(e, u, mayViewLogs, can)
        BY <3>1 DEF Asks
      <3>3. Knows(z, u, mayViewLogs, can)
        BY <1>2, <1>4, <1>5, <3>1, <3>2, KnowsNext
      <3>4. can = page'.canViewLogs
        BY <1>3, <2>1 DEF GoesOn
      <3> QED
        BY <1>2, <3>1, <3>3, <3>4, RequestsAppend
    <2>2. CASE Plain(m)
      <3>1. PICK e \in Requests : /\ e.kind = "subscribe" /\ e.enable /\ e.logs = FALSE
                                  /\ e.id = m.id /\ z = Append(q, e)
        BY <1>2, <1>9, <2>2 DEF Plain
      <3>2. u[m.id].enable = syncs[m.id].enable
        BY <1>3, <2>2 DEF Plain
      <3>3. e.enable = syncs[m.id].enable
        <4>1. e.enable = TRUE /\ syncs[m.id].enable = TRUE
          BY <1>1, <1>9, <2>2, <3>1 DEF Requests, Typed, PageTyped, Syncs
        <4> QED
          BY <4>1
      <3>4. Asks(e, u, mayViewLogs, FALSE)
        BY <1>9, <2>2, <3>1, <3>2, <3>3 DEF Asks
      <3>5. Knows(q, t, mayViewLogs, FALSE)
        BY <1>5, <1>9, <2>2, KnowsDenied
      <3>6. Knows(z, u, mayViewLogs, FALSE)
        BY <1>2, <1>4, <3>1, <3>4, <3>5, KnowsNext
      <3>7. page'.canViewLogs = FALSE
        <4>1. page \in Pages
          BY DEF Typed, PageTyped
        <4>2. [page EXCEPT !.canViewLogs = FALSE].canViewLogs = FALSE
          BY <4>1 DEF Pages
        <4> QED
          BY <2>2, <4>2 DEF Plain
      <3>8. Refusing(z) = Refusing(q) /\ LastWants(z) /\ (Ordered(q) => Ordered(z))
        BY <1>2, <3>1, RequestsAppend
      <3> QED
        BY <3>6, <3>7, <3>8
    <2>3. CASE Over(m)
      <3>1. z = q /\ can = page'.canViewLogs
        BY <1>2, <1>3, <2>3 DEF Over, SameView
      <3>2. Knows(q, u, mayViewLogs, can)
        BY <1>4, <1>5, KnowsSame
      <3> QED
        BY <3>1, <3>2
    <2> QED
      BY <2>1, <2>2, <2>3
  <1>12. RequestsInv'
    <2>1. Knows(up, syncs, mayViewLogs, page.canViewLogs)'
      BY <1>1, <1>2, <1>3, <1>11
    <2>2. ASSUME NEW s \in Slots, Fetches(syncs'[s]) PROVE syncs'[s].enable
      <3>1. CASE s # m.id
        BY <1>1, <2>2, <3>1 DEF SameSync, Fetches, RequestsInv
      <3>2. CASE s = m.id
        BY <1>8, <2>2, <3>2 DEF GoesOn, Plain, Over, Fetches
      <3> QED
        BY <3>1, <3>2
    <2>3. \A x \in Sent(down') : x.kind = "denied" => ~mayViewLogs /\ syncs'[x.id].enable
      BY <1>1, WaitingSlots DEF RequestsInv, SameSync
    <2>4. mayViewLogs => page'.canViewLogs
      BY <1>9, <1>10 DEF RequestsInv
    <2>5. subscription'.logs => mayViewLogs
      BY <1>1 DEF RequestsInv
    <2> QED
      BY <1>1, <2>1, <2>2, <2>3, <2>4, <2>5 DEF RequestsInv
  <1>13. Good => Good'
    <2>1. CASE page'.canViewLogs = page.canViewLogs
      BY <1>1, <2>1 DEF Good
    <2>2. CASE Plain(m) /\ page'.canViewLogs = FALSE
      <3>1. ~subscription.logs
        BY <1>9, <2>2 DEF RequestsInv
      <3> QED
        BY <1>1, <2>2, <3>1 DEF Good
    <2> QED
      BY <1>10, <2>1, <2>2
  <1>14. ASSUME CarefulInv PROVE CarefulInv'
    <2>1. CASE Plain(m)
      <3>1. PICK e \in Requests : e.kind = "subscribe" /\ e.enable /\ z = Append(q, e)
        BY <1>2, <1>9, <2>1 DEF Plain
      <3>2. LastWants(z)
        BY <1>2, <3>1, RequestsAppend
      <3> QED
        BY <1>2, <3>2 DEF CarefulInv, Restored
    <2>2. CASE m.kind # "denied"
      <3>1. SomeDenied => SomeDenied'
        BY <1>1, <2>2, TokenIs DEF SomeDenied
      <3>2. Restored => Restored'
        BY <1>2, <1>11, <1>13, <3>1 DEF Restored
      <3> QED
        BY <1>1, <1>14, <3>2 DEF CarefulInv
    <2> QED
      BY <2>1, <2>2 DEF GoesOn, Over
  <1>15. ASSUME OnceInv PROVE OnceInv'
    <2>1. Secured' => Secured
      <3>1. CASE m.kind \in {"treeAnswer", "listAnswer", "fetchError"}
        BY <1>1, <1>8, <3>1 DEF Secured
      <3>2. CASE m.kind = "ok" /\ syncs[m.id].enable
        BY <1>7, <3>2 DEF Secured
      <3>3. CASE Plain(m) \/ (Over(m) /\ m.kind \notin {"treeAnswer", "listAnswer", "fetchError"})
        <4>1. PICK T \in SUBSET Slots : T = Slots \ {m.id}
          OBVIOUS
        <4>2. \A s \in T : SameSync(s)
          BY <1>1, <4>1
        <4>3. \A s \in Slots \ T : ~Fetches(syncs'[s])
          BY <3>3, <4>1 DEF Plain, Over, Fetches
        <4>4. page'.live = page.live \/ page'.live # "live"
          <5>1. page \in Pages
            BY DEF Typed, PageTyped
          <5>2. [page EXCEPT !.canViewLogs = FALSE].live = page.live
            BY <5>1 DEF Pages
          <5> QED
            BY <3>3, <5>2 DEF Plain, Over
        <4>5. \A x \in Accepted' : x.id \in T /\ \E y \in Accepted : y.id = x.id
          BY <1>1, <4>1, WaitingSlots DEF Accepted
        <4> QED
          BY <4>2, <4>3, <4>4, <4>5, SecuredSame
      <3> QED
        BY <3>1, <3>2, <3>3 DEF GoesOn
    <2>2. ASSUME mounts = 0 PROVE page'.live # "live" /\ \A s \in Slots : ~syncs'[s].enable
      <3>1. page.live # "live" /\ \A s \in Slots : ~syncs[s].enable
        BY <1>15, <2>2 DEF OnceInv
      <3>2. m.kind \notin {"denied", "treeAnswer", "listAnswer", "fetchError"}
        BY <1>1, <1>6, <1>8, <3>1
      <3>3. \A s \in Slots \ {m.id} : ~syncs'[s].enable
        BY <1>1, <3>1 DEF SameSync
      <3>4. Over(m)
        BY <1>1, <3>1, <3>2 DEF GoesOn, Plain
      <3> QED
        BY <3>1, <3>2, <3>3, <3>4 DEF Over
    <2>3. mounts = 1 /\ Secured' => Good' /\ Refusing(up') = {}
      BY <1>1, <1>2, <1>11, <1>13, <1>15, <2>1 DEF OnceInv
    <2>4. mounts = 1 => Ordered(up')
      BY <1>2, <1>11, <1>15 DEF OnceInv
    <2> QED
      BY <1>1, <1>15, <2>2, <2>3, <2>4 DEF OnceInv
  <1> QED
    BY <1>12, <1>14, <1>15

LEMMA BuildsAnswered ==
  ASSUME Typed, NEW i \in Instances, InstanceAnswers(i) \/ HostLost(i)
  PROVE  Computed(builds') = Computed(builds)
  <1>2. PICK q, r : q \in Seq(Builds) /\ q = builds /\ r = builds'
    BY DEF Typed, ServerTyped
  <1>3. DOMAIN r = DOMAIN q /\ \A n \in DOMAIN q : r[n].for = q[n].for /\ r[n].id = q[n].id
    <2>1. CASE InstanceAnswers(i)
      <3>1. PICK n, v : n \in DOMAIN q /\ r = [q EXCEPT ![n].awaits = @ \ {i}, ![n].tree[i] = v]
        BY <1>2, <2>1 DEF InstanceAnswers
      <3>2. PICK b \in Builds : b = q[n]
        BY <1>2, <3>1
      <3>3. PICK c : c = [b EXCEPT !.awaits = @ \ {i}, !.tree[i] = v]
        OBVIOUS
      <3>4. c.for = b.for /\ c.id = b.id
        BY <3>3 DEF Builds
      <3>5. r = [q EXCEPT ![n] = c]
        BY <3>1, <3>2, <3>3
      <3> QED
        BY <3>2, <3>4, <3>5
    <2>2. CASE HostLost(i)
      <3>1. r = [n \in DOMAIN q |->
                   IF i \in q[n].awaits
                   THEN [q[n] EXCEPT !.awaits = @ \ {i}, !.tree[i] = Failed] ELSE q[n]]
        BY <1>2, <2>2 DEF HostLost
      <3>2. ASSUME NEW n \in DOMAIN q PROVE r[n].for = q[n].for /\ r[n].id = q[n].id
        <4>1. PICK b \in Builds : b = q[n]
          BY <1>2
        <4>2. PICK c : c = [b EXCEPT !.awaits = @ \ {i}, !.tree[i] = Failed]
          OBVIOUS
        <4>3. c.for = b.for /\ c.id = b.id
          BY <4>2 DEF Builds
        <4>4. r[n] = c \/ r[n] = b
          BY <3>1, <4>1, <4>2
        <4> QED
          BY <4>1, <4>3, <4>4
      <3> QED
        BY <3>1, <3>2
    <2> QED
      BY <2>1, <2>2
  <1>4. Computed(r) = Computed(q)
    BY <1>3, ComputedSame
  <1> QED
    BY <1>2, <1>4


\* What was being computed for the page is gone.
LEMMA NothingComputed ==
  ASSUME Typed, SessionLost \/ ControllerRestarts
  PROVE  Awaited(builds') = {} /\ Computed(builds') = {}
  <1>1. PICK q, r : q \in Seq(Builds) /\ q = builds /\ r = builds'
    BY DEF Typed, ServerTyped
  <1>2. r = Orphaned(q) \/ r = <<>>
    BY <1>1 DEF SessionLost, ControllerRestarts
  <1>3. \A n \in DOMAIN r : r[n].for \notin {"subscribe", "fetch"}
    <2>1. CASE r = Orphaned(q)
      BY <1>1, <2>1, OrphanedIs
    <2>2. CASE r = <<>>
      BY <2>2
    <2> QED
      BY <1>2, <2>1, <2>2
  <1> QED
    BY <1>1, <1>3, ComputedNone
-----------------------------------------------------------------------------
(* Which step is of which kind. *)

LEMMA SameIsQuiet ==
  ASSUME UNCHANGED <<mounted, mounts, mayViewLogs, page, syncs, up, subscription, link>>,
         \A x \in Sent(down) : x \in Sent(down'),
         \A x \in Sent(down') :
           \/ x \in Sent(down) \/ x.kind \in {"treeAnswer", "listAnswer"}
           \/ x.kind = "ok" /\ \E y \in Computed(builds) : y.kind = "subscribe" /\ y.id = x.id,
         \A x \in Computed(builds') : x \in Computed(builds)
  PROVE  Quiet
  BY DEF Quiet, SameMount, SameView, SameSync

LEMMA ControllerQuiet ==
  ASSUME Typed, SeenTyped, OneAnswer,
         \/ SendReply \/ SendLog \/ Broadcast \/ BuildDone
         \/ \E i \in Instances : \/ InstanceAnswers(i) \/ PlatformsChange(i)
                                 \/ HostDrops(i) \/ HostResumes(i) \/ HostLost(i)
         \/ \E t \in Transfers : TransferSteps(t) \/ OpenLog(t)
  PROVE  Quiet
  <1>1. PICK q \in Seq(Messages), b \in Seq(Builds) : q = down /\ b = builds
    BY DEF Typed, LinkTyped, ServerTyped
  <1>2. CASE SendReply
    <2>1. PICK y \in replies : Push(TRUE, <<y>>)
      BY <1>2 DEF SendReply
    <2>2. y \in Messages /\ y.kind = "listAnswer"
      BY DEF Typed, ServerTyped, Messages, OneAnswer
    <2>3. PICK e, r : e \in Seq(Messages) /\ e = <<y>> /\ r = q \o e /\ r = down'
      <3>1. <<y>> \in Seq(Messages)
        BY <2>2
      <3> QED
        BY <1>1, <2>1, <3>1 DEF Push
    <2>4. \A x \in Sent(q) : x \in Sent(r)
      BY <2>3, SentStays
    <2>5. \A x \in Sent(e) : x.kind = "listAnswer" /\ x.id = y.id
      BY <2>2, <2>3, SentOne, TokenIs
    <2>6. \A x \in Sent(r) : x \in Sent(q) \/ x \in Sent(e)
      <3>1. OnceSent(q) /\ OnceSent(e)
        BY <1>1, <2>3, SentOne DEF OneAnswer
      <3>2. \A x \in Sent(q), w \in Sent(e) : x.id # w.id
        <4>1. PICK a : a = Token("replies", y.id, y.kind)
          OBVIOUS
        <4>2. a \in Waiting /\ a.at = "replies" /\ a.id = y.id
          BY <4>1, TokenIs DEF Waiting, Ready
        <4> QED
          BY <1>1, <2>5, <4>2, ElsewhereNone
      <3> QED
        BY <2>3, <3>1, <3>2, SentJoined
    <2>7. UNCHANGED <<mounted, mounts, mayViewLogs, page, syncs, up, subscription, link, builds>>
      BY <1>2 DEF SendReply
    <2> QED
      BY <1>1, <2>3, <2>4, <2>5, <2>6, <2>7, SameIsQuiet
  <1>3. CASE Broadcast
    <2>1. PICK s \in Slots : s = CHOOSE x \in Slots : TRUE
      BY SlotsAreNat
    <2>2. PICK e \in Builds : e = Build("broadcast", s)
      BY BuildIs DEF Purposes
    <2>3. builds' = Append(b, e) \/ builds' = b
      BY <1>1, <1>3, <2>1, <2>2 DEF Broadcast
    <2>4. \A x \in Computed(builds') : x \in Computed(builds)
      <3>1. CASE builds' = Append(b, e)
        <4>1. PICK r : r = Append(b, e)
          OBVIOUS
        <4>2. e.for \notin {"subscribe", "fetch"} /\ OnceComputed(b)
          BY <1>1, <2>2 DEF Build, OneAnswer
        <4>3. \A x \in Computed(r) : x \in Computed(b)
          BY <4>1, <4>2, ComputedAppend
        <4> QED
          BY <1>1, <3>1, <4>1, <4>3
      <3> QED
        BY <1>1, <2>3, <3>1
    <2>5. UNCHANGED <<mounted, mounts, mayViewLogs, page, syncs, up, subscription, link, down>>
      BY <1>3 DEF Broadcast
    <2> QED
      BY <2>4, <2>5, SameIsQuiet
  <1>4. CASE BuildDone
    <2>1. UNCHANGED <<mounted, mounts, mayViewLogs, page, syncs, up, subscription, link>>
      BY <1>4, BuildDoneIs
    <2>2. PICK n \in DOMAIN builds, e \in Seq(Messages) :
            /\ builds' = Without(builds, n)
            /\ down' = down \/ down' = down \o e
            /\ OnceSent(e)
            /\ \A x \in Sent(e) :
                 /\ n \in Awaited(builds)
                 /\ x = Token("down", builds[n].id,
                              IF builds[n].for = "subscribe" THEN "ok" ELSE "treeAnswer")
      BY <1>4, BuildDoneIs
    <2>3. PICK w \in Builds : w = b[n]
      BY <1>1, <2>2
    <2>4. \A x \in Computed(builds') : x \in Computed(builds)
      <3>1. OnceComputed(b) /\ n \in DOMAIN b
        BY <1>1, <2>2 DEF OneAnswer
      <3>2. \A x \in Computed(Without(b, n)) : x \in Computed(b)
        BY <3>1, WithoutIs
      <3> QED
        BY <1>1, <2>2, <3>2
    <2>5. n \in Awaited(b) => Token("builds", w.id, w.for) \in Computed(b)
      BY <2>3 DEF Computed
    <2>6. ASSUME NEW x \in Sent(e)
          PROVE  /\ x.id = w.id
                 /\ \/ x.kind = "treeAnswer"
                    \/ x.kind = "ok" /\ \E y \in Computed(b) : y.kind = "subscribe" /\ y.id = x.id
                 /\ \E y \in Computed(b) : y.id = x.id
      <3>1. n \in Awaited(b) /\ x = Token("down", w.id, IF w.for = "subscribe" THEN "ok" ELSE "treeAnswer")
        BY <1>1, <2>2, <2>3
      <3>2. PICK y \in Computed(b) : y = Token("builds", w.id, w.for)
        BY <2>5, <3>1
      <3>3. y.id = w.id /\ y.kind = w.for
        BY <3>2, TokenIs
      <3>4. x.id = w.id /\ x.kind = IF w.for = "subscribe" THEN "ok" ELSE "treeAnswer"
        BY <3>1, TokenIs
      <3> QED
        BY <3>3, <3>4
    <2>7. /\ \A x \in Sent(down) : x \in Sent(down')
          /\ \A x \in Sent(down') : x \in Sent(down) \/ x \in Sent(e)
      <3>1. CASE down' = down \o e
        <4>1. PICK r : r = q \o e /\ r = down'
          BY <1>1, <3>1
        <4>2. \A x \in Sent(q) : x \in Sent(r)
          BY <4>1, SentStays
        <4>3. \A x \in Sent(q), y \in Sent(e) : x.id # y.id
          <5> SUFFICES ASSUME NEW x \in Sent(q), NEW y \in Sent(e) PROVE x.id # y.id
            OBVIOUS
          <5>1. PICK v \in Computed(b) : v.id = y.id
            BY <2>6
          <5>2. v \in Waiting /\ v.at = "builds"
            BY <1>1, PlacesAre DEF Waiting
          <5> QED
            BY <1>1, <5>1, <5>2, ElsewhereNone
        <4>4. \A x \in Sent(r) : x \in Sent(q) \/ x \in Sent(e)
          BY <1>1, <2>2, <4>1, <4>3, SentJoined DEF OneAnswer
        <4> QED
          BY <1>1, <4>1, <4>2, <4>4
      <3> QED
        BY <2>2, <3>1
    <2> QED
      BY <1>1, <2>1, <2>4, <2>6, <2>7, SameIsQuiet
  <1>5. ASSUME NEW i \in Instances, InstanceAnswers(i) \/ HostLost(i)
        PROVE  Quiet
    <2>1. UNCHANGED <<mounted, mounts, mayViewLogs, page, syncs, up, subscription, link, down>>
      BY <1>5 DEF InstanceAnswers, HostLost
    <2>2. Computed(builds') = Computed(builds)
      BY <1>5, BuildsAnswered
    <2> QED
      BY <2>1, <2>2, SameIsQuiet
  <1>6. ASSUME NEW i \in Instances, PlatformsChange(i) \/ HostDrops(i) \/ HostResumes(i)
        PROVE  Quiet
    <2>1. UNCHANGED <<mounted, mounts, mayViewLogs, page, syncs, up, subscription, link, down, builds>>
      BY <1>6 DEF PlatformsChange, HostDrops, HostResumes
    <2> QED
      BY <2>1, SameIsQuiet
  <1>7. ASSUME NEW t \in Transfers, TransferSteps(t)
        PROVE  Quiet
    <2>1. PICK e \in Seq(Messages) : down' = down \o e /\ OnceSent(e) /\ Sent(e) = {}
      BY <1>7, TransferStepsIs
    <2>2. PICK r : r = q \o e /\ r = down'
      BY <1>1, <2>1
    <2>3. \A x \in Sent(q) : x \in Sent(r)
      BY <2>2, SentStays
    <2>4. \A x \in Sent(r) : x \in Sent(q)
      BY <1>1, <2>1, <2>2, SentJoined DEF OneAnswer
    <2>5. UNCHANGED <<mounted, mounts, mayViewLogs, page, syncs, up, subscription, link, builds>>
      BY <1>7 DEF TransferSteps
    <2> QED
      BY <1>1, <2>2, <2>3, <2>4, <2>5, SameIsQuiet
  <1>8. ASSUME NEW t \in Transfers, OpenLog(t)
        PROVE  Quiet
    <2>1. UNCHANGED <<mounted, mounts, mayViewLogs, page, syncs, up, subscription, link, down, builds>>
      BY <1>8 DEF OpenLog, queues, client
    <2> QED
      BY <2>1, SameIsQuiet
  <1>9. CASE SendLog
    <2>1. PICK x \in opened : /\ <<x>> \in Seq(Messages) /\ down' = down \o <<x>>
                              /\ x \in Logs /\ OnceSent(<<x>>) /\ Sent(<<x>>) = {}
      BY <1>9, SendLogIs
    <2>2. PICK e \in Seq(Messages) : e = <<x>> /\ OnceSent(e) /\ Sent(e) = {}
      BY <2>1
    <2>3. PICK r : r = q \o e /\ r = down'
      BY <1>1, <2>1, <2>2
    <2>4. \A y \in Sent(q) : y \in Sent(r)
      BY <2>3, SentStays
    <2>5. \A y \in Sent(r) : y \in Sent(q)
      BY <1>1, <2>2, <2>3, SentJoined DEF OneAnswer
    <2>6. UNCHANGED <<mounted, mounts, mayViewLogs, page, syncs, up, subscription, link, builds>>
      BY <1>9 DEF SendLog, client
    <2> QED
      BY <1>1, <2>3, <2>4, <2>5, <2>6, SameIsQuiet
  <1> QED
    BY <1>2, <1>3, <1>4, <1>5, <1>6, <1>7, <1>8, <1>9

LEMMA EndsAre ==
  ASSUME Typed, OneAnswer, LinkDrops \/ SessionLost \/ ControllerRestarts
  PROVE  Ended
  <1>1. UNCHANGED <<mounted, mounts, mayViewLogs, up, down, syncs>>
    BY DEF LinkDrops, SessionLost, ControllerRestarts
  <1>2. PICK event : page' = [page EXCEPT !.live = NextLiveStatus(@, FALSE, event, "none")]
    BY DEF LinkDrops, SessionLost, ControllerRestarts
  <1>3. page \in Pages
    BY DEF Typed, PageTyped
  <1>4. page'.canViewLogs = page.canViewLogs /\ page'.live # "live"
    <2>1. page'.canViewLogs = page.canViewLogs
          /\ page'.live = NextLiveStatus(page.live, FALSE, event, "none")
      BY <1>2, <1>3 DEF Pages
    <2>2. NextLiveStatus(page.live, FALSE, event, "none") # "live"
      BY DEF NextLiveStatus
    <2> QED
      BY <2>1, <2>2
  <1>5. link' # "up" /\ (\/ UNCHANGED subscription /\ link = "up"
                         \/ subscription' = None /\ link' = "lost")
    BY DEF LinkDrops, SessionLost, ControllerRestarts, Connected
  <1>6. \A x \in Computed(builds') : x \in Computed(builds)
    <2>1. CASE LinkDrops
      BY <2>1 DEF LinkDrops
    <2>2. CASE SessionLost \/ ControllerRestarts
      <3>1. Awaited(builds') = {} /\ Computed(builds') = {}
        BY <2>2, NothingComputed
      <3> QED
        BY <3>1
    <2> QED
      BY <2>1, <2>2
  <1> QED
    BY <1>1, <1>4, <1>5, <1>6 DEF Ended, SameMount, SameView


-----------------------------------------------------------------------------
(* The page begins, goes on with and ends its synchronisations. *)

LEMMA StartBegins ==
  ASSUME NEW base \in Pages, NEW table \in [Slots -> Syncs], NEW queue, NEW loop,
         mounted' \in BOOLEAN, Start(base, table, queue, loop)
  PROVE  \E s \in Slots, e \in Requests :
           /\ table[s].step = "idle" /\ syncs'[s].step = "subscribe" /\ syncs'[s].enable = mounted'
           /\ \A y \in Slots \ {s} : syncs'[y] = table[y]
           /\ e.id = s /\ e.kind = "subscribe" /\ e.enable = mounted'
           /\ e.logs = (mounted' /\ base.canViewLogs) /\ up' = Append(queue, e) /\ page' = base
  <1>1. PICK s \in Slots :
          /\ table[s].step = "idle"
          /\ syncs' = [table EXCEPT ![s] =
               [Idle EXCEPT !.step = "subscribe", !.enable = mounted', !.loop = loop]]
          /\ up' = Append(queue, [kind |-> "subscribe", id |-> s, enable |-> mounted',
                                  logs |-> mounted' /\ base.canViewLogs])
          /\ page' = base
    BY DEF Start
  <1>2. (mounted' /\ base.canViewLogs) \in BOOLEAN
    OBVIOUS
  <1>3. PICK logs \in BOOLEAN : logs = (mounted' /\ base.canViewLogs)
    BY <1>2
  <1>4. PICK on \in BOOLEAN : on = mounted'
    OBVIOUS
  <1>5. PICK e \in Requests : e = [kind |-> "subscribe", id |-> s, enable |-> on, logs |-> logs]
    BY NewMessages
  <1>6. e.id = s /\ e.kind = "subscribe" /\ e.enable = on /\ e.logs = logs
    BY <1>5
  <1>7. up' = Append(queue, e)
    BY <1>1, <1>3, <1>4, <1>5
  <1>8. PICK y : y = [Idle EXCEPT !.step = "subscribe", !.enable = on, !.loop = loop]
    OBVIOUS
  <1>9. y.step = "subscribe" /\ y.enable = on
    BY <1>8 DEF Idle
  <1>10. syncs'[s] = y /\ \A x \in Slots \ {s} : syncs'[x] = table[x]
    BY <1>1, <1>4, <1>8
  <1> QED
    BY <1>1, <1>3, <1>4, <1>6, <1>7, <1>9, <1>10

LEMMA BeginsStep ==
  ASSUME Typed, OneAnswer, RequestsInv, NEW loop, Start(page, syncs, up, loop),
         UNCHANGED <<builds, subscription, mayViewLogs, down>>, link' = "up", link # "lost",
         SameMount \/ Turned
  PROVE  RequestsInv' /\ (CarefulInv => CarefulInv') /\ (OnceInv /\ MaxMounts <= 2 => OnceInv')
  <1>1. PICK base \in Pages, table \in [Slots -> Syncs] : base = page /\ table = syncs
    BY DEF Typed, PageTyped
  <1>2. mounted' \in BOOLEAN
    BY DEF SameMount, Turned, Typed, GameTyped
  <1>3. PICK queue : queue = up
    OBVIOUS
  <1>4. Start(base, table, queue, loop)
    BY <1>1, <1>3, Zenon
  <1>5. PICK s \in Slots, e \in Requests :
           /\ table[s].step = "idle" /\ syncs'[s].step = "subscribe" /\ syncs'[s].enable = mounted'
           /\ \A y \in Slots \ {s} : syncs'[y] = table[y]
           /\ e.id = s /\ e.kind = "subscribe" /\ e.enable = mounted'
           /\ e.logs = (mounted' /\ base.canViewLogs) /\ up' = Append(queue, e) /\ page' = base
    BY <1>2, <1>4, StartBegins
  <1>6. SameMount \/ (Turned /\ UNCHANGED mayViewLogs)
    BY DEF SameMount
  <1>7. SameView /\ page'.live = page.live
    BY <1>1, <1>5 DEF SameView
  <1>8. Begins(s, e, syncs, up)
    BY <1>1, <1>3, <1>5, <1>6, <1>7, Zenon DEF Begins
  <1> QED
    BY <1>8, BeginsKeeps

LEMMA PageBegins ==
  ASSUME Typed, OneAnswer, RequestsInv, Mount \/ TimerFires \/ LinkResumes
  PROVE  RequestsInv' /\ (CarefulInv => CarefulInv') /\ (OnceInv /\ MaxMounts <= 2 => OnceInv')
  <1>1. UNCHANGED <<builds, subscription, down, mayViewLogs>>
    BY DEF Mount, TimerFires, LinkResumes
  <1>2. CASE Mount
    <2>1. Turned /\ UNCHANGED link
      BY <1>2 DEF Mount, Turned
    <2>2. CASE Connected /\ Start(page, syncs, up, 0)
      <3>1. PICK loop : loop = 0
        OBVIOUS
      <3>2. Start(page, syncs, up, loop) /\ link = "up"
        BY <2>2, <3>1 DEF Connected
      <3> QED
        BY <1>1, <2>1, <3>2, BeginsStep
    <2>3. CASE ~Connected /\ Skip
      <3>1. link # "up" /\ UNCHANGED <<syncs, up>>
            /\ page' = [page EXCEPT !.live = NextLiveStatus(@, FALSE, lastEvent, "skipped")]
        BY <2>3 DEF Skip, Connected
      <3>2. page \in Pages
        BY DEF Typed, PageTyped
      <3>3. /\ page'.canViewLogs = page.canViewLogs
            /\ page'.live = NextLiveStatus(page.live, FALSE, lastEvent, "skipped")
        BY <3>1, <3>2 DEF Pages
      <3>4. NextLiveStatus(page.live, FALSE, lastEvent, "skipped") # "live"
        BY DEF NextLiveStatus
      <3>5. Skipped
        BY <1>1, <2>1, <3>1, <3>3, <3>4 DEF Skipped, SameView
      <3> QED
        BY <3>5, SkippedKeeps
    <2> QED
      BY <1>2, <2>2, <2>3 DEF Mount
  <1>3. CASE TimerFires \/ LinkResumes
    <2>1. PICK loop : loop = generation'
      OBVIOUS
    <2>2. Start(page, syncs, up, loop) /\ link' = "up" /\ link # "lost"
      BY <1>3, <2>1 DEF TimerFires, LinkResumes, Connected
    <2>3. SameMount
      BY <1>3 DEF TimerFires, LinkResumes, SameMount
    <2> QED
      BY <1>1, <2>2, <2>3, BeginsStep
  <1> QED
    BY <1>2, <1>3

LEMMA PageConnects ==
  ASSUME Typed, OneAnswer, RequestsInv, LinkConnects
  PROVE  RequestsInv' /\ CarefulInv' /\ (OnceInv => OnceInv')
  <1>1. /\ UNCHANGED <<builds, subscription, mayViewLogs, mounted, mounts>> /\ link' = "up"
        /\ down' = <<>> /\ link = "lost"
        /\ Start(Fresh(page), [s \in Slots |-> Idle], <<>>, generation')
        /\ Awaited(builds) = {}
    BY DEF LinkConnects, OneAnswer
  <1>2. PICK base \in Pages : base = Fresh(page)
    BY FreshIs DEF Typed, PageTyped
  <1>3. base.canViewLogs = page.canViewLogs /\ base.live = page.live
    BY <1>2 DEF Fresh, Typed, PageTyped, Pages
  <1>4. PICK table \in [Slots -> Syncs] : table = [s \in Slots |-> Idle]
    BY IdleIs
  <1>5. PICK loop : loop = generation'
    OBVIOUS
  <1>6. PICK queue : queue = <<>>
    OBVIOUS
  <1>7. Start(base, table, queue, loop)
    BY <1>1, <1>2, <1>4, <1>5, <1>6, Zenon
  <1>8. mounted' \in BOOLEAN /\ SameMount
    BY <1>1 DEF Typed, GameTyped, SameMount
  <1>9. PICK s \in Slots, e \in Requests :
           /\ table[s].step = "idle" /\ syncs'[s].step = "subscribe" /\ syncs'[s].enable = mounted'
           /\ \A y \in Slots \ {s} : syncs'[y] = table[y]
           /\ e.id = s /\ e.kind = "subscribe" /\ e.enable = mounted'
           /\ e.logs = (mounted' /\ base.canViewLogs) /\ up' = Append(queue, e) /\ page' = base
    BY <1>7, <1>8, StartBegins
  <1>10. SameView /\ page'.live = page.live
    BY <1>3, <1>9 DEF SameView
  <1>11. e.logs = (mounted' /\ page.canViewLogs)
    BY <1>3, <1>9, Zenon
  <1>12. Begins(s, e, table, queue)
    BY <1>1, <1>8, <1>9, <1>10, <1>11, Zenon DEF Begins
  <1>13. Begins(s, e, [x \in Slots |-> Idle], <<>>)
    BY <1>4, <1>6, <1>12
  <1> QED
    BY <1>1, <1>8, <1>13, ConnectsKeeps

LEMMA FinishIs ==
  ASSUME Typed, link = "up", NEW s \in Slots, NEW base \in Pages, NEW outcome, NEW replaced,
         Finish(s, base, outcome, replaced)
  PROVE  /\ page'.canViewLogs = base.canViewLogs
         /\ syncs'[s].step = "idle" /\ syncs'[s].enable = FALSE
         /\ \A y \in Slots \ {s} : SameSync(y)
         /\ outcome = "unsubscribed" => page'.live = base.live
         /\ outcome = "failed" => page'.live # "live"
  <1>1. PICK live : live = NextLiveStatus(base.live, TRUE, lastEvent, outcome)
    OBVIOUS
  <1>2. page' = [base EXCEPT !.live = live]
    BY <1>1 DEF Finish, Connected
  <1>3. page'.canViewLogs = base.canViewLogs /\ page'.live = live
    BY <1>2 DEF Pages
  <1>4. outcome = "unsubscribed" => live = base.live
    BY <1>1 DEF NextLiveStatus
  <1>5. outcome = "failed" => live # "live"
    BY <1>1 DEF NextLiveStatus
  <1>6. syncs'[s] = Idle
    BY DEF Finish
  <1>7. syncs'[s].step = "idle" /\ syncs'[s].enable = FALSE
    BY <1>6, IdleIs
  <1>8. ASSUME NEW y \in Slots \ {s} PROVE SameSync(y)
    <2>1. PICK z \in Syncs : z = syncs[y]
      BY DEF Typed, PageTyped
    <2>2. syncs'[y] = [z EXCEPT !.touched = @ \cup replaced]
      BY <2>1 DEF Finish
    <2>3. PICK v : v = [z EXCEPT !.touched = @ \cup replaced]
      OBVIOUS
    <2>4. v.step = z.step /\ v.enable = z.enable
      BY <2>3 DEF Syncs
    <2> QED
      BY <2>1, <2>2, <2>3, <2>4 DEF SameSync
  <1> QED
    BY <1>3, <1>4, <1>5, <1>7, <1>8

\* An answer lets its synchronisation go on, ask again without logs, or end.
LEMMA AnswerParts ==
  ASSUME Typed, link = "up", NEW m \in Messages,
         \/ AnswerOk(m) \/ AnswerDenied(m) \/ AnswerError(m) \/ AnswerTree(m) \/ AnswerList(m)
         \/ AnswerFetchError(m)
  PROVE  /\ \A y \in Slots \ {m.id} : SameSync(y)
         /\ GoesOn(m) \/ Plain(m) \/ Over(m)
  <1>1. m.id \in Slots
    <2>1. m.kind \in AnswerKinds
      BY AnswerChanges
    <2> QED
      BY <2>1, MessageIs
  <1>2. page \in Pages /\ syncs \in [Slots -> Syncs]
    BY DEF Typed, PageTyped
  <1>3. PICK y \in Syncs : y = syncs[m.id]
    BY <1>1, <1>2
  <1>4. CASE AnswerOk(m) /\ syncs[m.id].enable /\ Refresh(m.id)
    <2>1. PICK e \in Requests : e = [kind |-> "tree", id |-> m.id]
      BY <1>1, NewMessages
    <2>2. e.id = m.id /\ e.kind # "subscribe" /\ up' = Append(up, e) /\ UNCHANGED page
      BY <1>4, <2>1 DEF Refresh
    <2>3. PICK z : z = [y EXCEPT !.step = "tree", !.touched = {}]
      OBVIOUS
    <2>4. z.step = "tree" /\ z.enable = y.enable
      BY <2>3 DEF Syncs
    <2>5. syncs' = [syncs EXCEPT ![m.id] = z]
      BY <1>3, <1>4, <2>3 DEF Refresh, Syncs
    <2>6. syncs'[m.id] = z /\ \A x \in Slots \ {m.id} : syncs'[x] = syncs[x]
      BY <1>1, <1>2, <2>5
    <2>7. m.kind = "ok"
      BY <1>4 DEF AnswerOk
    <2>8. GoesOn(m)
      BY <1>3, <1>4, <2>2, <2>4, <2>6, <2>7 DEF GoesOn
    <2> QED
      BY <2>6, <2>8 DEF SameSync
  <1>5. CASE AnswerOk(m) /\ ~syncs[m.id].enable /\ Finish(m.id, page, "unsubscribed", {})
             /\ UNCHANGED up
    <2>1. /\ page'.canViewLogs = page.canViewLogs
          /\ syncs'[m.id].step = "idle" /\ syncs'[m.id].enable = FALSE
          /\ \A x \in Slots \ {m.id} : SameSync(x)
          /\ page'.live = page.live
      BY <1>1, <1>2, <1>5, FinishIs
    <2>2. m.kind = "ok"
      BY <1>5 DEF AnswerOk
    <2>3. Over(m)
      BY <1>5, <2>1, <2>2 DEF Over, SameView
    <2> QED
      BY <2>1, <2>3
  <1>6. CASE AnswerDenied(m)
    <2>1. PICK on \in BOOLEAN : on = syncs[m.id].enable
      BY <1>1, <1>2 DEF Syncs
    <2>2. PICK e \in Requests :
            e = [kind |-> "subscribe", id |-> m.id, enable |-> on, logs |-> FALSE]
      BY <1>1, NewMessages
    <2>3. e.id = m.id /\ e.kind = "subscribe" /\ e.enable = on /\ e.logs = FALSE
      BY <2>2
    <2>4. up' = Append(up, e) /\ page' = [page EXCEPT !.canViewLogs = FALSE] /\ m.kind = "denied"
      BY <1>6, <2>1, <2>2 DEF AnswerDenied
    <2>5. PICK z : z = [y EXCEPT !.step = "plain"]
      OBVIOUS
    <2>6. z.step = "plain" /\ z.enable = y.enable
      BY <2>5 DEF Syncs
    <2>7. syncs' = [syncs EXCEPT ![m.id] = z]
      BY <1>3, <1>6, <2>5 DEF AnswerDenied, Syncs
    <2>8. syncs'[m.id] = z /\ \A x \in Slots \ {m.id} : syncs'[x] = syncs[x]
      BY <1>1, <1>2, <2>7
    <2>9. \E d \in Requests : /\ d.id = m.id /\ d.kind = "subscribe" /\ d.enable = syncs[m.id].enable
                              /\ d.logs = FALSE /\ up' = Append(up, d)
      BY <2>1, <2>3, <2>4
    <2>10. Plain(m)
      BY <1>3, <2>4, <2>6, <2>8, <2>9 DEF Plain
    <2> QED
      BY <2>8, <2>10 DEF SameSync
  <1>7. CASE AnswerError(m)
    <2>1. m.kind = "error" /\ UNCHANGED up /\ Finish(m.id, page, "failed", {})
      BY <1>7 DEF AnswerError
    <2>2. /\ page'.canViewLogs = page.canViewLogs
          /\ syncs'[m.id].step = "idle" /\ syncs'[m.id].enable = FALSE
          /\ \A x \in Slots \ {m.id} : SameSync(x)
          /\ page'.live # "live"
      BY <1>1, <1>2, <2>1, FinishIs
    <2>3. Over(m)
      BY <2>1, <2>2 DEF Over, SameView
    <2> QED
      BY <2>2, <2>3
  <1>8. CASE /\ AnswerTree(m) /\ UNCHANGED page
             /\ syncs' = [syncs EXCEPT ![m.id].step = "list", ![m.id].tree = m.tree,
                                       ![m.id].revision = m.revision]
             /\ up' = Append(up, [kind |-> "list", id |-> m.id])
    <2>1. PICK e \in Requests : e = [kind |-> "list", id |-> m.id]
      BY <1>1, NewMessages
    <2>2. e.id = m.id /\ e.kind # "subscribe" /\ up' = Append(up, e)
      BY <1>8, <2>1
    <2>3. PICK z : z = [y EXCEPT !.step = "list", !.tree = m.tree, !.revision = m.revision]
      OBVIOUS
    <2>4. z.step = "list" /\ z.enable = y.enable
      BY <2>3 DEF Syncs
    <2>5. syncs' = [syncs EXCEPT ![m.id] = z]
      BY <1>3, <1>8, <2>3 DEF Syncs
    <2>6. syncs'[m.id] = z /\ \A x \in Slots \ {m.id} : syncs'[x] = syncs[x]
      BY <1>1, <1>2, <2>5
    <2>7. m.kind = "treeAnswer"
      BY <1>8 DEF AnswerTree
    <2>8. GoesOn(m)
      BY <1>3, <1>8, <2>2, <2>4, <2>6, <2>7 DEF GoesOn
    <2> QED
      BY <2>6, <2>8 DEF SameSync
  <1>9. ASSUME NEW base \in Pages, base.canViewLogs = page.canViewLogs, NEW replaced,
               m.kind \in {"treeAnswer", "listAnswer", "fetchError"}, UNCHANGED up,
               Finish(m.id, base, "subscribed", replaced)
        PROVE  (\A x \in Slots \ {m.id} : SameSync(x)) /\ Over(m)
    <2>1. /\ page'.canViewLogs = base.canViewLogs
          /\ syncs'[m.id].step = "idle" /\ syncs'[m.id].enable = FALSE
          /\ \A x \in Slots \ {m.id} : SameSync(x)
      BY <1>1, <1>9, FinishIs
    <2> QED
      BY <1>9, <2>1 DEF Over, SameView
  <1>10. ASSUME NEW base \in Pages, NEW revision \in Nat, NEW tree \in Trees
         PROVE  WithSnapshot(base, revision, tree).canViewLogs = base.canViewLogs
    BY DEF WithSnapshot, Pages
  <1>11. CASE /\ AnswerTree(m) /\ UNCHANGED up
              /\ Finish(m.id, WithSnapshot(page, m.revision, m.tree), "subscribed", {})
    <2>1. m.kind = "treeAnswer" /\ m.revision \in Nat /\ m.tree \in Trees
      BY <1>11, MessageIs DEF AnswerTree
    <2>2. PICK base \in Pages : base = WithSnapshot(page, m.revision, m.tree)
      BY <1>2, <2>1, SnapshotIs
    <2>3. base.canViewLogs = page.canViewLogs
      BY <1>2, <1>10, <2>1, <2>2
    <2>4. Finish(m.id, base, "subscribed", {})
      BY <1>11, <2>2
    <2> QED
      BY <1>9, <1>11, <2>1, <2>3, <2>4
  <1>12. CASE AnswerList(m)
    <2>1. PICK v \in Syncs : v = syncs[m.id]
      BY <1>1, <1>2
    <2>2. m.kind = "listAnswer" /\ UNCHANGED up
          /\ Finish(m.id, WithSnapshot(WithList(page, m.list, v.touched), v.revision, v.tree),
                    "subscribed", Transfers)
      BY <1>12, <2>1 DEF AnswerList
    <2>3. m.list \in [Transfers -> Nat]
      BY <2>2, ListAnswerIs
    <2>4. PICK mid \in Pages : mid = WithList(page, m.list, v.touched)
      BY <1>2, <2>3, ListIs
    <2>5. mid.canViewLogs = page.canViewLogs
      BY <1>2, <2>4 DEF WithList, Pages
    <2>6. v.revision \in Nat /\ v.tree \in Trees
      BY DEF Syncs
    <2>7. PICK base \in Pages : base = WithSnapshot(mid, v.revision, v.tree)
      BY <2>6, SnapshotIs
    <2>8. base.canViewLogs = page.canViewLogs
      BY <1>10, <2>5, <2>6, <2>7
    <2>9. Finish(m.id, base, "subscribed", Transfers)
      BY <2>2, <2>4, <2>7
    <2> QED
      BY <1>9, <2>2, <2>8, <2>9
  <1>13. CASE AnswerFetchError(m)
    <2>1. m.kind = "fetchError" /\ UNCHANGED up /\ Finish(m.id, page, "subscribed", {})
      BY <1>13 DEF AnswerFetchError
    <2> QED
      BY <1>2, <1>9, <2>1
  <1> QED
    BY <1>4, <1>5, <1>6, <1>7, <1>8, <1>11, <1>12, <1>13 DEF AnswerOk, AnswerTree

\* A push may touch a summary, and leaves the rest of the page as it was.
LEMMA PushParts ==
  ASSUME Typed, NEW m \in Messages, TreeUpdate(m) \/ TransferUpdate(m) \/ LogUpdate(m) \/ LogOpened(m)
  PROVE  SameView /\ page'.live = page.live /\ \A y \in Slots : SameSync(y)
  <1>1. page \in Pages /\ syncs \in [Slots -> Syncs]
    BY DEF Typed, PageTyped
  <1>2. page'.canViewLogs = page.canViewLogs /\ page'.live = page.live
    <2>1. CASE UNCHANGED page
      BY <2>1
    <2>2. CASE TreeUpdate(m)
      BY <1>1, <2>2 DEF TreeUpdate, WithSnapshot, Pages
    <2>3. ASSUME NEW v, NEW w, page' = [page EXCEPT !.summaries[m.t] = v, !.lastTransfer = w]
          PROVE  page'.canViewLogs = page.canViewLogs /\ page'.live = page.live
      BY <1>1, <2>3 DEF Pages
    <2>4. ASSUME NEW v, NEW w, page' = [page EXCEPT !.summaries[m.t] = v, !.lastLog = w]
          PROVE  page'.canViewLogs = page.canViewLogs /\ page'.live = page.live
      BY <1>1, <2>4 DEF Pages
    <2>5. ASSUME NEW v, page' = [page EXCEPT !.summaries[m.t] = v]
          PROVE  page'.canViewLogs = page.canViewLogs /\ page'.live = page.live
      BY <1>1, <2>5 DEF Pages
    <2> QED
      BY <2>1, <2>2, <2>3, <2>4, <2>5 DEF TransferUpdate, LogUpdate, LogOpened
  <1>3. UNCHANGED syncs \/ Touch(m.t)
    BY DEF TreeUpdate, TransferUpdate, LogUpdate, LogOpened
  <1>4. ASSUME Touch(m.t), NEW y \in Slots PROVE SameSync(y)
    <2>1. PICK z \in Syncs : z = syncs[y]
      BY <1>1
    <2>2. PICK v : v = [z EXCEPT !.touched = @ \cup {m.t}]
      OBVIOUS
    <2>3. syncs'[y] = v
      BY <1>4, <2>1, <2>2 DEF Touch
    <2>4. v.step = z.step /\ v.enable = z.enable
      BY <2>2 DEF Syncs
    <2> QED
      BY <2>1, <2>3, <2>4 DEF SameSync
  <1> QED
    BY <1>2, <1>3, <1>4 DEF SameView, SameSync

LEMMA PageReceives ==
  ASSUME Typed, OneAnswer, RequestsInv, Receive
  PROVE  RequestsInv' /\ (CarefulInv => CarefulInv') /\ (OnceInv => OnceInv')
  <1>1. PICK m : m = Head(down)
    OBVIOUS
  <1>2. PICK q, r : q \in Seq(Messages) /\ q = down /\ r = down'
    BY DEF Typed, LinkTyped
  <1>3. /\ q # <<>> /\ r = Tail(q) /\ link = "up" /\ SameMount
        /\ UNCHANGED <<subscription, builds, link>>
    BY <1>2 DEF Receive, Connected, SameMount
  <1>4. m \in Messages /\ m = q[1]
    BY <1>1, <1>2, <1>3, TailFrom
  <1>5. /\ \A x \in Sent(r) : x \in Sent(q)
        /\ q[1].kind \in AnswerKinds => Token("down", q[1].id, q[1].kind) \in Sent(q)
    BY <1>2, <1>3, SentTail DEF OneAnswer
  <1>6. \A x \in Sent(q) : x \in Sent(r) \/ x = Token("down", q[1].id, q[1].kind)
    BY <1>2, <1>3, SentAfter
  <1>7. CASE \/ AnswerOk(m) \/ AnswerDenied(m) \/ AnswerError(m) \/ AnswerTree(m)
             \/ AnswerList(m) \/ AnswerFetchError(m)
    <2>1. m.kind \in AnswerKinds
      BY <1>4, <1>7, AnswerChanges
    <2>2. /\ m.id \in Slots /\ syncs[m.id].step \in Steps(m.kind)
          /\ \A x \in Sent(down') : x \in Sent(down) /\ x.id # m.id
          /\ \A x \in Asked(up) \cup Computed(builds) \cup Ready(replies) : x.id # m.id
      BY <1>1, <2>1, ReceivedAnswer
    <2>3. (\A y \in Slots \ {m.id} : SameSync(y)) /\ (GoesOn(m) \/ Plain(m) \/ Over(m))
      BY <1>3, <1>4, <1>7, AnswerParts
    <2>4. Received(m)
      BY <1>2, <1>3, <1>4, <1>5, <1>6, <2>1, <2>2, <2>3 DEF Received
    <2> QED
      BY <2>3, <2>4, ReceivedKeeps
  <1>8. CASE TreeUpdate(m) \/ TransferUpdate(m) \/ LogUpdate(m) \/ LogOpened(m)
    <2>1. m.kind \notin AnswerKinds /\ UNCHANGED up
      BY <1>4, <1>8, PushChanges
    <2>2. SameView /\ page'.live = page.live /\ \A y \in Slots : SameSync(y)
      BY <1>4, <1>8, PushParts
    <2>3. \A x \in Sent(q) : x \in Sent(r)
      <3> SUFFICES ASSUME NEW x \in Sent(q), x = Token("down", q[1].id, q[1].kind) PROVE FALSE
        BY <1>6
      <3>1. x.kind \in AnswerKinds
        BY TokenIs DEF Sent, Answering
      <3> QED
        BY <1>4, <2>1, <3>1, TokenIs
    <2>4. Quiet
      BY <1>2, <1>3, <1>5, <2>1, <2>2, <2>3 DEF Quiet
    <2> QED
      BY <2>4, QuietKeeps
  <1> QED
    BY <1>1, <1>7, <1>8 DEF Receive

LEMMA Replies ==
  ASSUME Typed, OneAnswer, NEW m \in Messages, m.kind \in AnswerKinds, Push(TRUE, <<m>>),
         \A x \in Sent(down) : x.id # m.id
  PROVE  /\ \A x \in Sent(down) : x \in Sent(down')
         /\ Token("down", m.id, m.kind) \in Sent(down')
         /\ \A x \in Sent(down') : x \in Sent(down) \/ x = Token("down", m.id, m.kind)
  <1>1. PICK e \in Seq(Messages) : e = <<m>>
    <2>1. <<m>> \in Seq(Messages)
      OBVIOUS
    <2> QED
      BY <2>1, Zenon
  <1>2. PICK q \in Seq(Messages) : q = down
    BY DEF Typed, LinkTyped
  <1>3. PICK r : r = q \o e
    OBVIOUS
  <1>4. r = down'
    BY <1>1, <1>2, <1>3 DEF Push
  <1>5. \A x \in Sent(q) \cup Sent(e) : x \in Sent(r)
    BY <1>3, SentStays
  <1>6. Token("down", m.id, m.kind) \in Sent(e)
    <2>1. 1 \in DOMAIN e /\ e[1] = m
      BY <1>1
    <2> QED
      BY <2>1 DEF Sent, Answering
  <1>7. OnceSent(down)
    BY DEF OneAnswer
  <1>8. \A x \in Sent(down') : x \in Sent(down) \/ x = Token("down", m.id, m.kind)
    BY <1>7, AnswerSent
  <1> QED
    BY <1>2, <1>4, <1>5, <1>6, <1>8

\* The controller takes a request: it answers it, or begins to compute the answer.
LEMMA ControllerHandles ==
  ASSUME Typed, OneAnswer, RequestsInv, Handle \/ HandleFails
  PROVE  RequestsInv' /\ (CarefulInv /\ ~Errors => CarefulInv') /\ (OnceInv => OnceInv')
  <1>1. /\ up # <<>> /\ up' = Tail(up) /\ link = "up" /\ SameMount
        /\ UNCHANGED <<syncs, link, page>>
    BY DEF Handle, HandleFails, Connected, SameMount
  <1>2. PICK q \in Seq(Requests) : q = up
    BY DEF Typed, LinkTyped
  <1>3. PICK r \in Requests : r = q[1] /\ r = Head(up)
    BY <1>1, <1>2, TailFrom
  <1>4. PICK a : a = Token("up", r.id, r.kind)
    OBVIOUS
  <1>5. a \in Asked(up)
    BY <1>1, <1>2, <1>3, <1>4, AskedTail DEF OneAnswer
  <1>6. a.id = r.id /\ a.at = "up" /\ a \in Waiting
    BY <1>4, <1>5, TokenIs DEF Waiting
  <1>7. (\A x \in Computed(builds) : x.id # r.id) /\ (\A x \in Sent(down) : x.id # r.id)
    BY <1>6, ElsewhereNone
  <1>8. r.id \in Slots
    BY RequestIs
  <1>9. ASSUME \A x \in Sent(down) : x \in Sent(down') PROVE Handled(r)
    BY <1>1, <1>2, <1>3, <1>9 DEF Handled, SameView
  <1>10. ASSUME NEW k \in {"ok", "denied", "error", "fetchError"}, Push(TRUE, <<[kind |-> k, id |-> r.id]>>)
         PROVE  /\ Handled(r) /\ Token("down", r.id, k) \in Sent(down')
                /\ \A x \in Sent(down') : x \in Sent(down) \/ x = Token("down", r.id, k)
    <2>1. PICK m \in Messages : m = [kind |-> k, id |-> r.id]
      BY <1>8, NewMessages DEF Messages
    <2>2. m.kind = k /\ m.id = r.id /\ m.kind \in AnswerKinds
      BY <2>1 DEF AnswerKinds
    <2>3. Push(TRUE, <<m>>)
      BY <1>10, <2>1
    <2>4. /\ \A x \in Sent(down) : x \in Sent(down')
          /\ Token("down", m.id, m.kind) \in Sent(down')
          /\ \A x \in Sent(down') : x \in Sent(down) \/ x = Token("down", m.id, m.kind)
      BY <1>7, <2>2, <2>3, Replies
    <2> QED
      BY <1>9, <2>2, <2>4
  <1>11. ASSUME NEW for \in {"subscribe", "fetch"}, builds' = Append(builds, Build(for, r.id))
         PROVE  \A x \in Computed(builds') : x \in Computed(builds) \/ x = Token("builds", r.id, for)
    <2>1. PICK e \in Builds : e = Build(for, r.id)
      BY <1>8, BuildIs DEF Purposes
    <2>2. e.for = for /\ e.id = r.id
      BY <2>1 DEF Build
    <2>3. PICK s \in Seq(Builds) : s = builds
      BY DEF Typed, ServerTyped
    <2>4. OnceComputed(s) /\ \A x \in Computed(s) : x.id # e.id
      BY <1>7, <2>2, <2>3 DEF OneAnswer
    <2>5. PICK z : z = Append(s, e)
      OBVIOUS
    <2>6. \A x \in Computed(z) : x \in Computed(s) \/ x = Token("builds", e.id, e.for)
      BY <2>4, <2>5, ComputedAppend
    <2> QED
      BY <1>11, <2>1, <2>2, <2>3, <2>5, <2>6
  <1>12. CASE HandleFails
    <2>1. /\ UNCHANGED <<builds, subscription>> /\ Errors
          /\ Push(TRUE, <<[kind |-> IF r.kind = "subscribe" THEN "error" ELSE "fetchError",
                            id |-> r.id]>>)
      BY <1>3, <1>12 DEF HandleFails, server
    <2>2. CASE r.kind = "subscribe"
      <3>1. Push(TRUE, <<[kind |-> "error", id |-> r.id]>>)
        BY <2>1, <2>2
      <3>2. Token("down", r.id, "error").kind = "error"
        BY TokenIs
      <3>3. Handled(r) /\ Refused(r)
        BY <1>10, <2>1, <2>2, <3>1, <3>2 DEF Refused
      <3> QED
        BY <3>3, HandledKeeps
    <2>3. CASE r.kind # "subscribe"
      <3>1. Push(TRUE, <<[kind |-> "fetchError", id |-> r.id]>>)
        BY <2>1, <2>3
      <3>2. Token("down", r.id, "fetchError").kind = "fetchError"
        BY TokenIs
      <3>3. Handled(r) /\ Ignored(r)
        BY <1>10, <2>1, <2>3, <3>1, <3>2 DEF Ignored
      <3> QED
        BY <3>3, HandledKeeps
    <2> QED
      BY <2>2, <2>3
  <1>13. CASE r.kind = "subscribe" /\ SetSubscription(r)
    <2>1. PICK wanted : wanted = [tree |-> r.enable, transfers |-> r.enable, logs |-> r.logs]
      OBVIOUS
    <2>2. HasAny(wanted) <=> r.enable \/ r.logs
      BY <2>1 DEF HasAny
    <2>3. CASE r.logs /\ ~mayViewLogs
      <3>1. /\ Push(TRUE, <<[kind |-> "denied", id |-> r.id]>>)
            /\ UNCHANGED <<subscription, builds>>
        BY <1>13, <2>3 DEF SetSubscription
      <3>2. Handled(r) /\ Refused(r)
        BY <1>10, <1>13, <2>3, <3>1 DEF Refused
      <3> QED
        BY <3>2, HandledKeeps
    <2>4. CASE ~(r.logs /\ ~mayViewLogs) /\ ~HasAny(wanted)
      <3>1. /\ subscription' = None /\ UNCHANGED builds
            /\ Push(TRUE, <<[kind |-> "ok", id |-> r.id]>>)
        BY <1>13, <2>1, <2>4 DEF SetSubscription
      <3>2. Handled(r) /\ Unsubscribed(r)
        BY <1>10, <1>13, <2>2, <2>4, <3>1 DEF Unsubscribed
      <3> QED
        BY <3>2, HandledKeeps
    <2>5. CASE ~(r.logs /\ ~mayViewLogs) /\ HasAny(wanted)
      <3>1. /\ subscription' = wanted /\ UNCHANGED down
            /\ builds' = Append(builds, Build("subscribe", r.id))
        BY <1>13, <2>1, <2>5 DEF SetSubscription
      <3>2. Handled(r)
        BY <1>9, <3>1
      <3>3. \A x \in Computed(builds') : x \in Computed(builds) \/ x = Token("builds", r.id, "subscribe")
        BY <1>11, <3>1
      <3>4. Subscribed(r)
        BY <1>13, <2>1, <2>2, <2>5, <3>1, <3>3 DEF Subscribed
      <3> QED
        BY <3>2, <3>4, HandledKeeps
    <2> QED
      BY <2>3, <2>4, <2>5
  <1>14. CASE r.kind = "tree" /\ builds' = Append(builds, Build("fetch", r.id))
              /\ UNCHANGED <<subscription, down>>
    <2>1. \A x \in Computed(builds') : x \in Computed(builds) \/ x = Token("builds", r.id, "fetch")
      BY <1>11, <1>14
    <2>2. Token("builds", r.id, "fetch").kind = "fetch"
      BY TokenIs
    <2>3. Ignored(r) /\ Handled(r)
      BY <1>9, <1>14, <2>1, <2>2 DEF Ignored
    <2> QED
      BY <2>3, HandledKeeps
  <1>15. CASE r.kind = "list" /\ UNCHANGED <<subscription, builds, down>>
    <2>1. Ignored(r) /\ Handled(r)
      BY <1>9, <1>15 DEF Ignored
    <2> QED
      BY <2>1, HandledKeeps
  <1> QED
    BY <1>3, <1>12, <1>13, <1>14, <1>15 DEF Handle

-----------------------------------------------------------------------------
(* Always *)

\* What is known of the requests, whatever happens, and what is known of the
\* subscription when no handler throws, or when the page is mounted once.
SubscriptionInv ==
  /\ Typed /\ SeenTyped /\ OneAnswer /\ RequestsInv
  /\ ~Errors => CarefulInv
  /\ MaxMounts <= 2 => OnceInv

LEMMA SubscriptionInit == Init => SubscriptionInv
  <1> SUFFICES ASSUME Init PROVE SubscriptionInv
    OBVIOUS
  <1>1. Typed /\ SeenTyped /\ OneAnswer
    BY TypedInit, OneAnswerInit DEF Init, SeenTyped
  <1>2. PICK q : q = up /\ q = <<>>
    BY DEF Init
  <1>3. DOMAIN q = {}
    BY <1>2
  <1>4. PICK d : d = down /\ d = <<>>
    BY DEF Init
  <1>5. Sent(d) = {}
    BY <1>4, SentNone
  <1>6. \A s \in Slots : syncs[s].enable = FALSE /\ syncs[s].step = "idle"
    BY IdleIs DEF Init
  <1>7. page.canViewLogs /\ page.live # "live" /\ subscription.logs = FALSE
    BY SubscriptionIs DEF Init, None
  <1>8. RequestsInv
    BY <1>2, <1>3, <1>4, <1>5, <1>6, <1>7 DEF RequestsInv, Knows, Fetches
  <1>9. link = "lost" /\ mounts = 0 /\ ~mounted
    BY DEF Init
  <1>10. CarefulInv
    BY <1>9 DEF CarefulInv
  <1>11. OnceInv
    BY <1>6, <1>7, <1>9 DEF OnceInv
  <1> QED
    BY <1>1, <1>8, <1>10, <1>11 DEF SubscriptionInv

LEMMA SubscriptionStep ==
  ASSUME SubscriptionInv, [Next]_vars
  PROVE  SubscriptionInv'
  <1>1. Typed /\ SeenTyped /\ OneAnswer /\ RequestsInv
    BY DEF SubscriptionInv
  <1>2. Typed' /\ SeenTyped' /\ OneAnswer'
    BY <1>1, TypedStep, SeenTypedStep, OneAnswerStep
  <1> DEFINE Kept == /\ RequestsInv'
                     /\ CarefulInv /\ ~Errors => CarefulInv'
                     /\ OnceInv /\ MaxMounts <= 2 => OnceInv'
  <1>3. Kept
    <2>1. CASE UNCHANGED vars
      <3>1. Quiet
        <4>1. UNCHANGED <<mounted, mounts, mayViewLogs, page, syncs, up, subscription, link, down>>
              /\ UNCHANGED builds
          BY <2>1 DEF vars, game, server, queues, client
        <4> QED
          BY <4>1, SameIsQuiet
      <3> QED
        BY <1>1, <3>1, QuietKeeps
    <2>2. CASE Handle \/ HandleFails
      BY <1>1, <2>2, ControllerHandles
    <2>3. CASE \/ SendReply \/ SendLog \/ Broadcast \/ BuildDone
               \/ \E i \in Instances : \/ InstanceAnswers(i) \/ PlatformsChange(i)
                                       \/ HostDrops(i) \/ HostResumes(i) \/ HostLost(i)
               \/ \E t \in Transfers : TransferSteps(t) \/ OpenLog(t)
      <3>1. Quiet
        BY <1>1, <2>3, ControllerQuiet
      <3> QED
        BY <1>1, <3>1, QuietKeeps
    <2>4. CASE Mount \/ TimerFires \/ LinkResumes
      BY <1>1, <2>4, PageBegins
    <2>5. CASE Receive
      BY <1>1, <2>5, PageReceives
    <2>6. CASE LinkDrops \/ SessionLost \/ ControllerRestarts
      <3>1. Ended
        BY <1>1, <2>6, EndsAre
      <3> QED
        BY <1>1, <3>1, EndedKeeps
    <2>7. CASE LinkConnects
      BY <1>1, <2>7, PageConnects
    <2> QED
      BY <2>1, <2>2, <2>3, <2>4, <2>5, <2>6, <2>7, Zenon DEF Next
  <1> QED
    BY <1>2, <1>3, Zenon DEF SubscriptionInv

\* A page that waits for no answer has asked for nothing, and no refusal is on its way.
LEMMA SubscriptionShown ==
  ASSUME SubscriptionInv, ~Errors \/ MaxMounts <= 2
  PROVE  LiveMeansSubscribed
  <1> SUFFICES ASSUME Connected, mounted, Settled, page.live = "live" PROVE Good
    BY DEF LiveMeansSubscribed, Good
  <1>1. link = "up" /\ OneAnswer
    BY DEF Connected, SubscriptionInv
  <1>2. \A x \in Waiting : FALSE
    BY <1>1, WaitingSlots DEF Settled, Steps
  <1>3. Asked(up) = {} /\ Sent(down) = {}
    BY <1>2 DEF Waiting
  <1>4. DOMAIN up = {}
    BY <1>3 DEF Asked
  <1>5. ~LastWants(up) /\ ~SomeDenied
    BY <1>3, <1>4 DEF LastWants, Wanting, SomeDenied
  <1>6. CASE ~Errors
    BY <1>1, <1>5, <1>6 DEF SubscriptionInv, CarefulInv, Restored
  <1>7. CASE MaxMounts <= 2
    <2>1. OnceInv
      BY <1>7 DEF SubscriptionInv
    <2>2. mounts = 1
      BY <2>1, Zenon DEF OnceInv
    <2>3. Secured
      BY DEF Secured
    <2> QED
      BY <1>1, <2>1, <2>2, <2>3 DEF OnceInv
  <1> QED
    BY <1>6, <1>7

\* LiveMeansSubscribed: a page that says it updates on its own, and waits for no answer,
\* has its whole subscription at the controller, with logs just if it may see them:
\* whatever drops, resumes or restarts, and whichever synchronisations overlap, provided
\* no handler throws; or, if one may, that the page is mounted no more than once.
THEOREM LiveIsSubscribed ==
  ASSUME ~Errors \/ MaxMounts <= 2
  PROVE  Spec => []LiveMeansSubscribed
  <1>1. Init => SubscriptionInv
    BY SubscriptionInit
  <1>2. SubscriptionInv /\ [Next]_vars => SubscriptionInv'
    BY SubscriptionStep
  <1>3. SubscriptionInv => LiveMeansSubscribed
    BY SubscriptionShown
  <1> QED
    BY <1>1, <1>2, <1>3, PTL DEF Spec
=============================================================================

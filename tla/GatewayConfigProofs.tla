------------------------- MODULE GatewayConfigProofs -------------------------
(* Theorems of GatewayConfig. *)
EXTENDS GatewayConfig, TLAPS, NaturalsInduction, WellFoundedInduction

\* The rule of the Multi Cluster mode, of any set of links.
RuleKept(L) ==
  \A l, m \in L :
    l[1][1] = m[1][1] /\ l[1][2] \in MultiNames /\ m[1][2] \in MultiNames =>
      IF l[1] = m[1] THEN l[2] = m[2] ELSE l[2][1] # m[2][1]

Snapshots ==
  {w \in [links : Edits, by : Canvases \cup {"load"}] : RuleKept(w.links)}

\* The rule of whatever the map may become: it is in memory, or it is read from the
\* file, or from what will be the file.
RuleInv ==
  /\ links \in Edits /\ RuleKept(links)
  /\ Loaded(disk) \in Edits /\ RuleKept(Loaded(disk))
  /\ writes \in Seq(Snapshots)

-----------------------------------------------------------------------------
(* What is read back from a file that was written is what was written. *)
LEMMA LoadedFile ==
  ASSUME NEW L \in Edits
  PROVE  Loaded(File(L)) = L
  BY DEF Loaded, File, Migrated, Edits

LEMMA LoadedType ==
  ASSUME NEW file, file.links \in Edits
  PROVE  Loaded(file) \in Edits
  BY DEF Loaded, Migrated, Edits

\* The links of an older version have names of the One Gate mode, which the rule is
\* not about.
LEMMA MigratedRule ==
  ASSUME NEW legacy, legacy \subseteq HubNames \X Keys
  PROVE  RuleKept(Loaded([links |-> {}, legacy |-> legacy]))
  <1> DEFINE file == [links |-> {}, legacy |-> legacy]
  <1>1. ASSUME NEW l \in Loaded(file) PROVE l[1][2] \in HubNames
    BY DEF Loaded, Migrated
  <1> QED
    BY <1>1, GatewayGraphAssumption DEF RuleKept

-----------------------------------------------------------------------------
(* A request that is not refused keeps the rule. *)
LEMMA ProposedType ==
  ASSUME NEW c, NEW i, links \in Edits
  PROVE  Proposed(c, i) \in Edits
  BY DEF Proposed, Edits

\* A link of a submitted gateway has been checked against every link of its instance.
LEMMA SubmittedChecked ==
  ASSUME NEW c, NEW i, links \in Edits, ~Refused(c, i), mode \in Modes,
         NEW l \in Proposed(c, i), NEW m \in Proposed(c, i),
         l[1] \in Submitted(c, i), l[1][2] \in MultiNames,
         l[1][1] = m[1][1], m[1][2] \in MultiNames
  PROVE  IF l[1] = m[1] THEN l[2] = m[2] ELSE l[2][1] # m[2][1]
  <1> DEFINE P == Proposed(c, i)
  <1>1. l \in Keys \X Keys /\ m \in Keys \X Keys
    BY ProposedType DEF Edits
  <1>2. mode = "multi"
    BY GatewayGraphAssumption DEF Refused, NamesFor, Modes
  <1>3. ~CheckMultiModeLink(Targets(P, l[1]), Others(P, l[1], MultiNames))
    BY <1>2 DEF Refused
  <1>4. l[2] \in Targets(P, l[1])
    BY <1>1 DEF Targets
  <1>5. CASE l[1] = m[1]
    <2>1. m[2] \in Targets(P, l[1])
      BY <1>1, <1>5 DEF Targets
    <2> QED
      BY <1>3, <1>4, <1>5, <2>1 DEF CheckMultiModeLink
  <1>6. CASE l[1] # m[1]
    <2>1. m[2] \in Others(P, l[1], MultiNames)
      BY <1>6 DEF Others
    <2> QED
      BY <1>3, <1>4, <1>6, <2>1 DEF CheckMultiModeLink
  <1> QED
    BY <1>5, <1>6

LEMMA ProposedRule ==
  ASSUME NEW c, NEW i, links \in Edits, RuleKept(links), ~Refused(c, i), mode \in Modes
  PROVE  RuleKept(Proposed(c, i))
  <1> SUFFICES ASSUME NEW l \in Proposed(c, i), NEW m \in Proposed(c, i),
                      l[1][1] = m[1][1], l[1][2] \in MultiNames, m[1][2] \in MultiNames
               PROVE  IF l[1] = m[1] THEN l[2] = m[2] ELSE l[2][1] # m[2][1]
    BY DEF RuleKept
  <1>1. CASE l[1] \in Submitted(c, i)
    BY <1>1, SubmittedChecked
  <1>2. CASE m[1] \in Submitted(c, i)
    BY <1>2, SubmittedChecked
  <1>3. CASE l[1] \notin Submitted(c, i) /\ m[1] \notin Submitted(c, i)
    <2>1. l \in links /\ m \in links
      BY <1>3 DEF Proposed
    <2> QED
      BY <2>1 DEF RuleKept
  <1> QED
    BY <1>1, <1>2, <1>3

-----------------------------------------------------------------------------
(* Steps *)

LEMMA MigrationType ==
  ASSUME NEW file, Loaded(file) \in Edits, RuleKept(Loaded(file))
  PROVE  Migration(file) \in Seq(Snapshots)
  <1>1. [links |-> Loaded(file), by |-> "load"] \in Snapshots
    BY DEF Snapshots
  <1> QED
    BY <1>1 DEF Migration

LEMMA RuleInit ==
  ASSUME Found \subseteq HubNames \X Keys, Init
  PROVE  RuleInv /\ mode \in Modes
  <1>1. Loaded(disk) \in Edits /\ RuleKept(Loaded(disk))
    BY LoadedType, MigratedRule DEF Init, Edits
  <1>2. writes \in Seq(Snapshots)
    BY <1>1, MigrationType DEF Init
  <1> QED
    BY <1>1, <1>2 DEF RuleInv, Init

\* The three steps that touch the map, its file or what waits for it.
LEMMA RuleSet ==
  ASSUME RuleInv, mode \in Modes, NEW c \in Canvases, HandleSet(c)
  PROVE  RuleInv'
  <1> PICK i \in canvas[c].save.todo :
        \/ UNCHANGED server
        \/ /\ ~Refused(c, i)
           /\ links' = Proposed(c, i)
           /\ writes' = Append(writes, [links |-> links', by |-> c])
           /\ UNCHANGED disk
    BY DEF HandleSet
  <1>1. CASE UNCHANGED server
    BY <1>1 DEF RuleInv, server, Loaded, Migrated
  <1>2. CASE /\ ~Refused(c, i)
             /\ links' = Proposed(c, i)
             /\ writes' = Append(writes, [links |-> links', by |-> c])
             /\ UNCHANGED disk
    <2>1. links' \in Edits /\ RuleKept(links')
      BY <1>2, ProposedType, ProposedRule DEF RuleInv
    <2>2. Loaded(disk)' = Loaded(disk)
      BY <1>2 DEF Loaded, Migrated
    <2>3. [links |-> links', by |-> c] \in Snapshots
      BY <2>1 DEF Snapshots
    <2>4. writes' \in Seq(Snapshots)
      BY <1>2, <2>3 DEF RuleInv
    <2> QED
      BY <2>1, <2>2, <2>4 DEF RuleInv
  <1> QED
    BY <1>1, <1>2

LEMMA RuleWrite ==
  ASSUME RuleInv, Write \/ WriteFails
  PROVE  RuleInv'
  <1>1. /\ writes # <<>> /\ writes' = Tail(writes) /\ UNCHANGED links
        /\ disk' = disk \/ disk' = File(Head(writes).links)
    BY DEF Write, WriteFails
  <1>2. Head(writes) \in Snapshots /\ writes' \in Seq(Snapshots)
    BY <1>1 DEF RuleInv
  <1>3. Loaded(disk') \in Edits /\ RuleKept(Loaded(disk'))
    BY <1>1, <1>2, LoadedFile DEF RuleInv, Snapshots
  <1> QED
    BY <1>1, <1>2, <1>3 DEF RuleInv

LEMMA RuleRestart ==
  ASSUME RuleInv, ControllerRestart
  PROVE  RuleInv'
  <1>1. links' = Loaded(disk) /\ writes' = Migration(disk) /\ disk' = disk
    BY DEF ControllerRestart
  <1>2. writes' \in Seq(Snapshots)
    BY <1>1, MigrationType DEF RuleInv
  <1> QED
    BY <1>1, <1>2 DEF RuleInv

\* No other step touches them.
LEMMA ServerUntouched ==
  ASSUME Next, ~Write, ~WriteFails, ~ControllerRestart,
         \A c \in Canvases : ~HandleSet(c)
  PROVE  UNCHANGED server
  <1>1. ASSUME NEW c \in Canvases, Load(c) \/ Revert(c) \/ BeginSave(c) \/ EndSave(c)
        PROVE  UNCHANGED server
    BY <1>1 DEF Load, Revert, BeginSave, EndSave
  <1>2. ASSUME NEW c \in Canvases, BulkLink(c) \/ Connect(c) \/ EdgeClick(c)
        PROVE  UNCHANGED server
    BY <1>2 DEF BulkLink, Connect, EdgeClick, Click
  <1>3. ASSUME NEW c \in Canvases, Push(c)
        PROVE  UNCHANGED server
    BY <1>3 DEF Push
  <1>4. ASSUME NEW i \in Instances, \/ Pull(i) \/ Running(i) \/ Prune(i)
                                     \/ LinkDown(i) \/ LinkUp(i) \/ GameRestart(i)
        PROVE  UNCHANGED server
    BY <1>4 DEF Pull, Running, Prune, LinkDown, LinkUp, GameRestart
  <1>5. ASSUME NEW s \in 1..Slots, Run(s) \/ LoseCommand(s) \/ LoseReply(s)
        PROVE  UNCHANGED server
    BY <1>5 DEF Run, LoseCommand, LoseReply
  <1>6. ASSUME SwitchMode PROVE UNCHANGED server
    BY <1>6 DEF SwitchMode
  <1> QED
    BY <1>1, <1>2, <1>3, <1>4, <1>5, <1>6 DEF Next

\* The mode changes by SwitchMode only.
LEMMA ModeStep ==
  ASSUME Next, mode \in Modes
  PROVE  mode' \in Modes
  <1>1. ASSUME NEW c \in Canvases,
               \/ Load(c) \/ BulkLink(c) \/ Connect(c) \/ EdgeClick(c) \/ Revert(c)
               \/ BeginSave(c) \/ HandleSet(c) \/ Push(c) \/ EndSave(c)
        PROVE  UNCHANGED mode
    BY <1>1 DEF Load, BulkLink, Connect, EdgeClick, Revert, Click, BeginSave, HandleSet,
                Push, EndSave
  <1>2. ASSUME NEW i \in Instances, \/ Pull(i) \/ Running(i) \/ Prune(i)
                                     \/ LinkDown(i) \/ LinkUp(i) \/ GameRestart(i)
        PROVE  UNCHANGED mode
    BY <1>2 DEF Pull, Running, Prune, LinkDown, LinkUp, GameRestart
  <1>3. ASSUME NEW s \in 1..Slots, Run(s) \/ LoseCommand(s) \/ LoseReply(s)
        PROVE  UNCHANGED mode
    BY <1>3 DEF Run, LoseCommand, LoseReply
  <1>4. ASSUME Write \/ WriteFails \/ ControllerRestart PROVE UNCHANGED mode
    BY <1>4 DEF Write, WriteFails, ControllerRestart
  <1>5. ASSUME SwitchMode PROVE mode' \in Modes
    BY <1>5 DEF SwitchMode
  <1> QED
    BY <1>1, <1>2, <1>3, <1>4, <1>5 DEF Next

LEMMA RuleStep ==
  ASSUME RuleInv, mode \in Modes, [Next]_vars
  PROVE  RuleInv' /\ mode' \in Modes
  <1>1. CASE UNCHANGED server /\ UNCHANGED mode
    BY <1>1 DEF RuleInv, server, Loaded, Migrated
  <1>2. CASE Next
    <2>1. mode' \in Modes
      BY <1>2, ModeStep
    <2>2. CASE UNCHANGED server
      BY <2>1, <2>2 DEF RuleInv, server, Loaded, Migrated
    <2> QED
      BY <1>2, <2>1, <2>2, ServerUntouched, RuleSet, RuleWrite, RuleRestart
  <1> QED
    BY <1>1, <1>2 DEF vars

-----------------------------------------------------------------------------
\* Whichever canvases save what and when, across failed writes, restarts and changes of
\* the mode, the map the controller holds keeps the rule of the Multi Cluster mode, if
\* the links taken over from an older version have the names they had there.
THEOREM MultiModeAlways ==
  ASSUME Found \subseteq HubNames \X Keys
  PROVE  Spec => []MultiModeOk
  <1> DEFINE Inv == RuleInv /\ mode \in Modes
  <1>1. Init => Inv
    BY RuleInit
  <1>2. Inv /\ [Next]_vars => Inv'
    BY RuleStep
  <1>3. Inv => MultiModeOk
    BY DEF RuleInv, RuleKept, MultiModeOk
  <1> QED
    BY <1>1, <1>2, <1>3, PTL DEF Spec

-----------------------------------------------------------------------------
(* Deliveries.  What is under way to an instance is numbered; what its game has *)
(* not begun is in its inbox in that order, and is ahead of what the game has   *)
(* staged, which is ahead of what it applied.  What a canvas may have sent to   *)
(* anything that is no instance reaches no game, and is left out.               *)

\* An instance whose configuration is always sent in the same way.
OneSize == \A i \in Instances : "single" \notin Sizes[i] \/ "chunked" \notin Sizes[i]

Busy(s) == delivery[s].ph # "free"
Waits(s) == delivery[s].ph \in {"single", "begin"}
BusyAt(s, i) == Busy(s) /\ delivery[s].at = i
WaitsAt(s, i) == Waits(s) /\ delivery[s].at = i

IsDelivery(d) ==
  /\ d = [ph |-> d.ph, at |-> d.at, to |-> d.to, no |-> d.no, got |-> d.got, next |-> d.next]
  /\ d.ph \in {"single", "begin", "chunk", "commit"}
Pulls == {"ask", "wait", "ask_again", "wait_again", "done"}
Statuses == [running : BOOLEAN, heard : BOOLEAN, pull : Pulls]
Stages == [token : Nat, got : Nat]

Shapes ==
  /\ sent \in [Instances -> Nat] /\ told \in [Instances -> BOOLEAN]
  /\ staging \in [Instances -> Stages] /\ status \in [Instances -> Statuses]
  /\ DOMAIN game = Instances /\ game = [i \in Instances |-> game[i]]
  /\ delivery = [s \in 1..Slots |-> delivery[s]]
  /\ \A s \in 1..Slots : delivery[s] = Free \/ IsDelivery(delivery[s])
  /\ inbox \in [Instances -> Seq(1..Slots)]

Numbered ==
  \A i \in Instances :
    /\ game[i].no \in 0..sent[i] /\ staging[i].token \in 0..sent[i]
    /\ \A s \in 1..Slots : BusyAt(s, i) => delivery[s].no \in 1..sent[i]

Sized ==
  \A i \in Instances :
    /\ \A s \in 1..Slots : BusyAt(s, i) =>
         (IF delivery[s].ph = "single" THEN "single" ELSE "chunked") \in Sizes[i]
    /\ staging[i].token # 0 => "chunked" \in Sizes[i]

InOrder ==
  \A i \in Instances :
    /\ \A s \in 1..Slots : WaitsAt(s, i) <=> \E n \in DOMAIN (inbox[i]) : inbox[i][n] = s
    /\ \A m, n \in DOMAIN (inbox[i]) :
         m < n => delivery[inbox[i][m]].no < delivery[inbox[i][n]].no

Ahead ==
  \A i \in Instances :
    /\ \A s \in 1..Slots : WaitsAt(s, i) =>
         game[i].no < delivery[s].no /\ staging[i].token < delivery[s].no
    /\ staging[i].token # 0 => game[i].no < staging[i].token

\* What the last delivery carries is what the controller would send now; it is under way,
\* or was applied last.
Latest ==
  \A i \in Instances :
    told[i] =>
      \/ \E s \in 1..Slots :
           BusyAt(s, i) /\ delivery[s].no = sent[i] /\ delivery[s].got = Resolved(i)
      \/ game[i].no = sent[i] /\ game[i].got = Resolved(i)

DeliveryInv ==
  Shapes /\ Numbered /\ Sized /\ InOrder /\ Ahead /\ Latest

\* No game goes back to an older configuration, in a step.
NoneRegresses == \A i \in Instances : ~(game'[i].no < game[i].no)

LEMMA DeliveryInit == Init => DeliveryInv
  <1> SUFFICES ASSUME Init PROVE DeliveryInv
    OBVIOUS
  <1>1. /\ sent = [i \in Instances |-> 0] /\ told = [i \in Instances |-> TRUE]
        /\ staging = [i \in Instances |-> NoStaging]
        /\ status = [i \in Instances |-> [running |-> TRUE, heard |-> TRUE, pull |-> "done"]]
        /\ game = [i \in Instances |-> [no |-> 0, got |-> Resolved(i)]]
        /\ delivery = [s \in 1..Slots |-> Free] /\ inbox = [i \in Instances |-> <<>>]
    BY DEF Init
  <1>2. \A s \in 1..Slots : delivery[s] = Free /\ ~Busy(s) /\ ~Waits(s)
    BY <1>1 DEF Busy, Waits, Free
  <1>3. Shapes
    BY <1>1, <1>2 DEF Shapes, NoStaging, Stages, Statuses, Pulls
  <1>4. Numbered /\ Sized /\ InOrder /\ Ahead /\ Latest
    BY <1>1, <1>2 DEF Numbered, Sized, InOrder, Ahead, Latest, BusyAt, WaitsAt, NoStaging
  <1> QED
    BY <1>3, <1>4 DEF DeliveryInv

\* A step that sends, moves and applies nothing.
LEMMA NothingMoves ==
  ASSUME DeliveryInv, UNCHANGED <<delivery, inbox, staging, game, sent>>,
         status' \in [Instances -> Statuses], told' \in [Instances -> BOOLEAN],
         \A i \in Instances : told'[i] => told[i] /\ Resolved(i)' = Resolved(i)
  PROVE  DeliveryInv'
  <1>1. \A s : Busy(s)' = Busy(s) /\ Waits(s)' = Waits(s)
    BY DEF Busy, Waits
  <1>2. \A s, i : BusyAt(s, i)' = BusyAt(s, i) /\ WaitsAt(s, i)' = WaitsAt(s, i)
    BY DEF Busy, Waits, BusyAt, WaitsAt
  <1>3. Shapes' /\ Numbered' /\ Sized'
    BY <1>2 DEF DeliveryInv, Shapes, Numbered, Sized
  <1>4. InOrder' /\ Ahead'
    BY <1>2 DEF DeliveryInv, InOrder, Ahead
  <1>5. Latest'
    BY <1>2 DEF DeliveryInv, Latest
  <1> QED
    BY <1>3, <1>4, <1>5 DEF DeliveryInv

LEMMA Elements ==
  ASSUME NEW S, NEW q \in Seq(S)
  PROVE  \A n \in DOMAIN q : q[n] \in S
  OBVIOUS

LEMMA AppendTo ==
  ASSUME NEW S, NEW q \in Seq(S), NEW e \in S, NEW r, r = Append(q, e)
  PROVE  /\ r \in Seq(S) /\ Len(q) \in Nat
         /\ DOMAIN r = 1..(Len(q) + 1) /\ DOMAIN q = 1..Len(q)
         /\ r[Len(q) + 1] = e /\ \A n \in DOMAIN q : r[n] = q[n]
  OBVIOUS

LEMMA TailFrom ==
  ASSUME NEW S, NEW q \in Seq(S), NEW r, q # <<>>, r = Tail(q)
  PROVE  /\ r \in Seq(S) /\ Len(q) \in Nat /\ Len(q) >= 1 /\ 1 \in DOMAIN q /\ Head(q) = q[1]
         /\ DOMAIN r = 1..(Len(q) - 1) /\ DOMAIN q = 1..Len(q)
         /\ \A n \in DOMAIN r : r[n] = q[n + 1]
  OBVIOUS

\* A delivery leaves: it has the highest number, and is the last of the inbox.
LEMMA DispatchStep ==
  ASSUME DeliveryInv, NEW i, NEW to, Dispatch(i, to), UNCHANGED <<links, mode>>,
         status' \in [Instances -> Statuses]
  PROVE  DeliveryInv'
  <1>0. Shapes /\ Numbered /\ Sized /\ InOrder /\ Ahead /\ Latest
    BY DEF DeliveryInv
  <1>1. PICK s \in 1..Slots, size \in Sizes[i] :
          /\ delivery[s] = Free
          /\ delivery' = [delivery EXCEPT ![s] =
               [ph |-> IF size = "single" THEN "single" ELSE "begin",
                at |-> i, to |-> to, no |-> sent[i] + 1, got |-> Resolved(i), next |-> 1]]
          /\ inbox' = [inbox EXCEPT ![i] = Append(@, s)]
          /\ sent' = [sent EXCEPT ![i] = @ + 1]
          /\ told' = [told EXCEPT ![i] = TRUE]
          /\ UNCHANGED <<staging, game>>
    BY DEF Dispatch
  <1>2. PICK d : d = [ph |-> IF size = "single" THEN "single" ELSE "begin",
                      at |-> i, to |-> to, no |-> sent[i] + 1, got |-> Resolved(i), next |-> 1]
    OBVIOUS
  <1>3. /\ d.ph \in {"single", "begin"} /\ d.at = i /\ d.no = sent[i] + 1 /\ d.got = Resolved(i)
        /\ IsDelivery(d) /\ (d.ph = "single" => size = "single")
        /\ (d.ph = "begin" => size # "single")
    BY <1>2 DEF IsDelivery
  <1>4. /\ delivery' = [t \in 1..Slots |-> delivery'[t]] /\ delivery'[s] = d
        /\ \A t \in 1..Slots : t # s => delivery'[t] = delivery[t]
    BY <1>0, <1>1, <1>2 DEF Shapes
  <1>5. /\ \A t \in 1..Slots : t # s =>
             \A k : BusyAt(t, k)' = BusyAt(t, k) /\ WaitsAt(t, k)' = WaitsAt(t, k)
        /\ \A k : (BusyAt(s, k)' <=> k = i) /\ (WaitsAt(s, k)' <=> k = i)
        /\ \A k : ~BusyAt(s, k) /\ ~WaitsAt(s, k)
    BY <1>1, <1>3, <1>4 DEF BusyAt, WaitsAt, Busy, Waits, Free
  <1>6. /\ sent' \in [Instances -> Nat] /\ told' \in [Instances -> BOOLEAN]
        /\ \A k \in Instances : k # i => sent'[k] = sent[k] /\ inbox'[k] = inbox[k]
        /\ \A k \in Instances : k # i => (told'[k] <=> told[k])
        /\ i \in Instances => sent'[i] = sent[i] + 1 /\ inbox'[i] = Append(inbox[i], s)
        /\ DOMAIN inbox' = Instances /\ inbox' = [k \in Instances |-> inbox'[k]]
    <2>1. sent \in [Instances -> Nat] /\ told \in [Instances -> BOOLEAN]
          /\ inbox \in [Instances -> Seq(1..Slots)]
      BY <1>0 DEF Shapes
    <2>2. /\ sent' \in [Instances -> Nat]
          /\ \A k \in Instances : k # i => sent'[k] = sent[k]
          /\ i \in Instances => sent'[i] = sent[i] + 1
      <3>1. CASE i \in Instances
        BY <1>1, <2>1, <3>1
      <3>2. CASE i \notin Instances
        <4>1. sent' = sent
          BY <1>1, <2>1, <3>2
        <4> QED
          BY <2>1, <3>2, <4>1
      <3> QED
        BY <3>1, <3>2
    <2>3. /\ told' \in [Instances -> BOOLEAN]
          /\ \A k \in Instances : k # i => (told'[k] <=> told[k])
      BY <1>1, <2>1
    <2>4. /\ \A k \in Instances : k # i => inbox'[k] = inbox[k]
          /\ i \in Instances => inbox'[i] = Append(inbox[i], s)
          /\ DOMAIN inbox' = Instances /\ inbox' = [k \in Instances |-> inbox'[k]]
      BY <1>1, <2>1
    <2> QED
      BY <2>2, <2>3, <2>4
  <1>7. ASSUME i \in Instances
        PROVE  /\ inbox'[i] \in Seq(1..Slots) /\ Len(inbox[i]) \in Nat
               /\ DOMAIN (inbox'[i]) = 1..(Len(inbox[i]) + 1)
               /\ DOMAIN (inbox[i]) = 1..Len(inbox[i])
               /\ inbox'[i][Len(inbox[i]) + 1] = s
               /\ \A n \in DOMAIN (inbox[i]) : inbox'[i][n] = inbox[i][n]
    <2>1. inbox[i] \in Seq(1..Slots)
      BY <1>0, <1>7 DEF Shapes
    <2>2. PICK q \in Seq(1..Slots) : q = inbox[i]
      BY <2>1
    <2>3. PICK r : r = inbox'[i]
      OBVIOUS
    <2>4. r = Append(q, s)
      BY <1>6, <1>7, <2>2, <2>3
    <2> QED
      BY <2>2, <2>3, <2>4, AppendTo
  <1>8. Shapes'
    <2>1. inbox' \in [Instances -> Seq(1..Slots)]
      BY <1>0, <1>6, <1>7 DEF Shapes
    <2>2. \A t \in 1..Slots : delivery'[t] = Free \/ IsDelivery(delivery'[t])
      BY <1>0, <1>3, <1>4 DEF Shapes
    <2> QED
      BY <1>0, <1>1, <1>4, <1>6, <2>1, <2>2 DEF Shapes
  <1>9. Numbered'
    <2> SUFFICES ASSUME NEW k \in Instances
                 PROVE  /\ game[k].no \in 0..sent'[k] /\ staging[k].token \in 0..sent'[k]
                        /\ \A t \in 1..Slots : BusyAt(t, k)' => delivery'[t].no \in 1..sent'[k]
      BY <1>1 DEF Numbered
    <2>1. /\ game[k].no \in 0..sent[k] /\ staging[k].token \in 0..sent[k]
          /\ \A t \in 1..Slots : BusyAt(t, k) => delivery[t].no \in 1..sent[k]
          /\ sent[k] \in Nat
      BY <1>0 DEF Numbered, Shapes
    <2>2. sent'[k] >= sent[k] /\ sent'[k] \in Nat
      BY <1>6, <2>1
    <2>3. game[k].no \in 0..sent'[k] /\ staging[k].token \in 0..sent'[k]
      BY <2>1, <2>2
    <2>4. ASSUME NEW t \in 1..Slots, BusyAt(t, k)' PROVE delivery'[t].no \in 1..sent'[k]
      <3>1. CASE t = s
        BY <1>3, <1>4, <1>5, <1>6, <2>1, <2>4, <3>1
      <3>2. CASE t # s
        BY <1>4, <1>5, <2>1, <2>2, <2>4, <3>2
      <3> QED
        BY <3>1, <3>2
    <2> QED
      BY <2>3, <2>4
  <1>10. Sized'
    <2>1. i \in Instances =>
            (IF d.ph = "single" THEN "single" ELSE "chunked") \in Sizes[i]
      BY <1>1, <1>3, GatewayConfigAssumption
    <2> QED
      BY <1>0, <1>1, <1>4, <1>5, <2>1 DEF Sized
  <1>11. InOrder'
    <2> SUFFICES ASSUME NEW k \in Instances
                 PROVE  /\ \A t \in 1..Slots :
                             WaitsAt(t, k)' <=> \E n \in DOMAIN (inbox'[k]) : inbox'[k][n] = t
                        /\ \A m, n \in DOMAIN (inbox'[k]) :
                             m < n => delivery'[inbox'[k][m]].no < delivery'[inbox'[k][n]].no
      BY DEF InOrder
    <2>1. /\ \A t \in 1..Slots : WaitsAt(t, k) <=> \E n \in DOMAIN (inbox[k]) : inbox[k][n] = t
          /\ \A m, n \in DOMAIN (inbox[k]) :
               m < n => delivery[inbox[k][m]].no < delivery[inbox[k][n]].no
      BY <1>0 DEF InOrder
    <2>2. \A n \in DOMAIN (inbox[k]) : inbox[k][n] \in 1..Slots /\ inbox[k][n] # s
      <3>1. PICK q \in Seq(1..Slots) : q = inbox[k]
        <4>1. inbox[k] \in Seq(1..Slots)
          BY <1>0 DEF Shapes
        <4> QED
          BY <4>1
      <3>2. \A n \in DOMAIN q : q[n] \in 1..Slots
        BY Elements
      <3> QED
        BY <1>5, <2>1, <3>1, <3>2
    <2>3. CASE k # i
      <3>1. inbox'[k] = inbox[k]
        BY <1>6, <2>3
      <3>2. \A t \in 1..Slots : WaitsAt(t, k)' <=> WaitsAt(t, k)
        BY <1>5, <2>3
      <3> QED
        BY <1>4, <2>1, <2>2, <3>1, <3>2
    <2>4. CASE k = i
      <3>2. ASSUME NEW m \in DOMAIN (inbox'[k]), NEW n \in DOMAIN (inbox'[k]), m < n
            PROVE  delivery'[inbox'[k][m]].no < delivery'[inbox'[k][n]].no
        <4>1. m \in DOMAIN (inbox[k]) /\ inbox'[k][m] = inbox[k][m]
          BY <1>7, <2>4, <3>2
        <4>2. delivery'[inbox'[k][m]].no = delivery[inbox[k][m]].no
          BY <1>4, <2>2, <4>1
        <4>3. CASE n \in DOMAIN (inbox[k])
          <5>1. delivery'[inbox'[k][n]].no = delivery[inbox[k][n]].no
            BY <1>4, <1>7, <2>2, <2>4, <4>3
          <5> QED
            BY <2>1, <3>2, <4>1, <4>2, <4>3, <5>1
        <4>4. CASE n = Len(inbox[k]) + 1
          <5>1. delivery'[inbox'[k][n]].no = sent[i] + 1
            BY <1>3, <1>4, <1>7, <2>4, <4>4
          <5>2. BusyAt(inbox[k][m], k)
            <6>1. WaitsAt(inbox[k][m], k)
              BY <2>1, <2>2, <4>1
            <6> QED
              BY <6>1 DEF WaitsAt, BusyAt, Waits, Busy
          <5>3. delivery[inbox[k][m]].no \in 1..sent[k] /\ sent[k] \in Nat
            BY <1>0, <2>2, <4>1, <5>2 DEF Numbered, Shapes
          <5> QED
            BY <2>4, <4>2, <5>1, <5>3
        <4> QED
          BY <1>7, <2>4, <4>3, <4>4
      <3>3. ASSUME NEW t \in 1..Slots
            PROVE  WaitsAt(t, k)' <=> \E n \in DOMAIN (inbox'[k]) : inbox'[k][n] = t
        <4>1. CASE t = s
          BY <1>5, <1>7, <2>4, <4>1
        <4>2. CASE t # s
          <5>1. WaitsAt(t, k)' <=> WaitsAt(t, k)
            BY <1>5, <4>2
          <5>2. \A n : n \in DOMAIN (inbox'[k]) /\ inbox'[k][n] = t
                        <=> n \in DOMAIN (inbox[k]) /\ inbox[k][n] = t
            BY <1>7, <2>4, <4>2
          <5> QED
            BY <2>1, <5>1, <5>2
        <4> QED
          BY <4>1, <4>2
      <3> QED
        BY <3>2, <3>3
    <2> QED
      BY <2>3, <2>4
  <1>12. Ahead'
    <2> SUFFICES ASSUME NEW k \in Instances, NEW t \in 1..Slots, WaitsAt(t, k)'
                 PROVE  game[k].no < delivery'[t].no /\ staging[k].token < delivery'[t].no
      BY <1>0, <1>1 DEF Ahead
    <2>1. CASE t = s
      <3>1. game[k].no \in 0..sent[k] /\ staging[k].token \in 0..sent[k] /\ sent[k] \in Nat
        BY <1>0 DEF Numbered, Shapes
      <3> QED
        BY <1>3, <1>4, <1>5, <2>1, <3>1
    <2>2. CASE t # s
      BY <1>0, <1>4, <1>5, <2>2 DEF Ahead
    <2> QED
      BY <2>1, <2>2
  <1>13. Latest'
    <2> SUFFICES ASSUME NEW k \in Instances, told'[k]
                 PROVE  \/ \E t \in 1..Slots : /\ BusyAt(t, k)' /\ delivery'[t].no = sent'[k]
                                               /\ delivery'[t].got = Resolved(k)'
                        \/ game'[k].no = sent'[k] /\ game'[k].got = Resolved(k)'
      BY DEF Latest
    <2>1. Resolved(k)' = Resolved(k)
      BY DEF Resolved, Of
    <2>2. CASE k = i
      BY <1>3, <1>4, <1>5, <1>6, <2>1, <2>2
    <2>3. CASE k # i
      <3>1. \/ \E t \in 1..Slots : BusyAt(t, k) /\ delivery[t].no = sent[k]
                                   /\ delivery[t].got = Resolved(k)
            \/ game[k].no = sent[k] /\ game[k].got = Resolved(k)
        BY <1>0, <1>6, <2>3 DEF Latest
      <3> QED
        BY <1>1, <1>4, <1>5, <1>6, <2>1, <2>3, <3>1
    <2> QED
      BY <2>2, <2>3
  <1> QED
    BY <1>8, <1>9, <1>10, <1>11, <1>12, <1>13 DEF DeliveryInv

\* A command of a delivery, or the end of it.  Its effect is at its instance only: its
\* first command is the first of the inbox, and what it applies is newer than what is there.
SlotEffect(s, e) ==
  LET d == delivery[s]
      i == d.at
  IN  /\ MayRun(s)
      /\ \/ e = Free
         \/ /\ IsDelivery(e) /\ e.at = i /\ e.no = d.no /\ e.got = d.got
            /\ e.ph \in {"chunk", "commit"} /\ d.ph # "single"
      /\ delivery' = [delivery EXCEPT ![s] = e] /\ inbox' = Taken(s)
      /\ UNCHANGED <<sent, links, mode>>
      /\ status' \in [Instances -> Statuses] /\ told' \in [Instances -> BOOLEAN]
      /\ staging' \in [Instances -> Stages]
      /\ DOMAIN game' = Instances /\ game' = [k \in Instances |-> game'[k]]
      /\ \A k \in Instances : k # i => staging'[k] = staging[k] /\ game'[k] = game[k]
      /\ i \in Instances => \/ staging'[i].token \in {staging[i].token, 0}
                            \/ d.ph = "begin" /\ staging'[i].token = d.no
      /\ i \in Instances => \/ game'[i] = game[i]
                            \/ /\ game'[i].no = d.no /\ game'[i].got = d.got
                               /\ \/ d.ph = "single"
                                  \/ /\ d.ph = "commit" /\ staging[i].token = d.no
                                     /\ staging'[i].token = 0
      /\ \A k \in Instances : told'[k] => told[k]
      /\ i \in Instances /\ told'[i] /\ d.no = sent[i] =>
           e # Free \/ (game'[i].no = d.no /\ game'[i].got = d.got)

LEMMA SlotStep ==
  ASSUME DeliveryInv, OneSize, NEW s \in 1..Slots, NEW e, SlotEffect(s, e)
  PROVE  DeliveryInv' /\ NoneRegresses
  <1> PICK d, i : d = delivery[s] /\ i = d.at
    OBVIOUS
  <1>effect. /\ MayRun(s)
             /\ \/ e = Free
                \/ /\ IsDelivery(e) /\ e.at = i /\ e.no = d.no /\ e.got = d.got
                   /\ e.ph \in {"chunk", "commit"} /\ d.ph # "single"
             /\ delivery' = [delivery EXCEPT ![s] = e] /\ inbox' = Taken(s)
             /\ UNCHANGED <<sent, links, mode>>
             /\ status' \in [Instances -> Statuses] /\ told' \in [Instances -> BOOLEAN]
             /\ staging' \in [Instances -> Stages]
             /\ DOMAIN game' = Instances /\ game' = [k \in Instances |-> game'[k]]
             /\ \A k \in Instances : k # i => staging'[k] = staging[k] /\ game'[k] = game[k]
             /\ i \in Instances => \/ staging'[i].token \in {staging[i].token, 0}
                                   \/ d.ph = "begin" /\ staging'[i].token = d.no
             /\ i \in Instances => \/ game'[i] = game[i]
                                   \/ /\ game'[i].no = d.no /\ game'[i].got = d.got
                                      /\ \/ d.ph = "single"
                                         \/ /\ d.ph = "commit" /\ staging[i].token = d.no
                                            /\ staging'[i].token = 0
             /\ \A k \in Instances : told'[k] => told[k]
             /\ i \in Instances /\ told'[i] /\ d.no = sent[i] =>
                  e # Free \/ (game'[i].no = d.no /\ game'[i].got = d.got)
    BY DEF SlotEffect
  <1> USE <1>effect
  <1>0. Shapes /\ Numbered /\ Sized /\ InOrder /\ Ahead /\ Latest
    BY DEF DeliveryInv
  <1>1. /\ delivery = [t \in 1..Slots |-> delivery[t]] /\ inbox \in [Instances -> Seq(1..Slots)]
        /\ sent \in [Instances -> Nat] /\ staging \in [Instances -> Stages]
        /\ IsDelivery(d)
    BY <1>0 DEF Shapes, MayRun
  <1>2. d.ph \in {"single", "begin", "chunk", "commit"}
    BY <1>1 DEF IsDelivery
  <1>3. /\ delivery' = [t \in 1..Slots |-> delivery'[t]] /\ delivery'[s] = e
        /\ \A t \in 1..Slots : t # s => delivery'[t] = delivery[t]
    BY <1>1
  <1>4. /\ e = Free => e.ph = "free"
        /\ e # Free => e.ph \in {"chunk", "commit"} /\ e.at = i /\ e.no = d.no /\ e.got = d.got
    BY DEF Free
  <1>5. /\ \A t \in 1..Slots : t # s =>
             \A k : BusyAt(t, k)' = BusyAt(t, k) /\ WaitsAt(t, k)' = WaitsAt(t, k)
        /\ \A k : (BusyAt(s, k)' <=> k = i /\ e # Free) /\ ~WaitsAt(s, k)'
        /\ \A k : (BusyAt(s, k) <=> k = i)
        /\ \A k : (WaitsAt(s, k) <=> k = i /\ d.ph \in {"single", "begin"})
    BY <1>2, <1>3, <1>4 DEF BusyAt, WaitsAt, Busy, Waits
  <1>6. /\ DOMAIN inbox' = Instances /\ inbox' = [k \in Instances |-> inbox'[k]]
        /\ \A k \in Instances : k # i \/ d.ph \notin {"single", "begin"} => inbox'[k] = inbox[k]
        /\ i \in Instances /\ d.ph \in {"single", "begin"} =>
             inbox[i] # <<>> /\ Head(inbox[i]) = s /\ inbox'[i] = Tail(inbox[i])
    <2>1. inbox' = IF d.ph \in {"single", "begin"} THEN [inbox EXCEPT ![i] = Tail(@)] ELSE inbox
      BY DEF Taken
    <2>2. d.ph \in {"single", "begin"} => inbox[i] # <<>> /\ Head(inbox[i]) = s
      BY DEF MayRun
    <2>3. CASE d.ph \in {"single", "begin"}
      BY <1>1, <2>1, <2>2, <2>3
    <2>4. CASE d.ph \notin {"single", "begin"}
      BY <1>1, <2>1, <2>4
    <2> QED
      BY <2>3, <2>4
  <1>7. ASSUME i \in Instances, d.ph \in {"single", "begin"}
        PROVE  /\ inbox'[i] \in Seq(1..Slots) /\ Len(inbox[i]) \in Nat /\ Len(inbox[i]) >= 1
               /\ inbox[i][1] = s /\ 1 \in DOMAIN (inbox[i])
               /\ DOMAIN (inbox'[i]) = 1..(Len(inbox[i]) - 1)
               /\ DOMAIN (inbox[i]) = 1..Len(inbox[i])
               /\ \A n \in DOMAIN (inbox'[i]) : inbox'[i][n] = inbox[i][n + 1]
    <2>1. inbox[i] \in Seq(1..Slots)
      BY <1>1, <1>7
    <2>2. PICK q \in Seq(1..Slots) : q = inbox[i]
      BY <2>1
    <2>3. PICK r : r = inbox'[i]
      OBVIOUS
    <2>4. q # <<>> /\ Head(q) = s /\ r = Tail(q)
      BY <1>6, <1>7, <2>2, <2>3
    <2>5. /\ r \in Seq(1..Slots) /\ Len(q) \in Nat /\ Len(q) >= 1 /\ 1 \in DOMAIN q
          /\ Head(q) = q[1] /\ DOMAIN r = 1..(Len(q) - 1) /\ DOMAIN q = 1..Len(q)
          /\ \A n \in DOMAIN r : r[n] = q[n + 1]
      <3>1. PICK S : S = 1..Slots
        OBVIOUS
      <3>2. q \in Seq(S) /\ q # <<>> /\ r = Tail(q)
        BY <2>2, <2>4, <3>1
      <3> QED
        BY <3>1, <3>2, TailFrom
    <2> QED
      BY <2>2, <2>3, <2>4, <2>5
  <1>8. ASSUME i \in Instances, d.ph \in {"single", "begin"},
               NEW t \in 1..Slots, t # s, WaitsAt(t, i)
        PROVE  d.no < delivery[t].no
    <2>1. PICK n \in DOMAIN (inbox[i]) : inbox[i][n] = t
      BY <1>0, <1>8 DEF InOrder
    <2>2. 1 \in DOMAIN (inbox[i]) /\ inbox[i][1] = s /\ 1 < n
      BY <1>7, <1>8, <2>1
    <2> QED
      BY <1>0, <1>8, <2>1, <2>2 DEF InOrder
  <1>9. ASSUME i \in Instances
        PROVE  /\ d.no \in 1..sent[i] /\ sent[i] \in Nat /\ staging[i].token \in 0..sent[i]
               /\ game[i].no \in 0..sent[i]
               /\ (IF d.ph = "single" THEN "single" ELSE "chunked") \in Sizes[i]
               /\ staging[i].token # 0 => "chunked" \in Sizes[i] /\ game[i].no < staging[i].token
               /\ d.ph \in {"single", "begin"} => game[i].no < d.no
               /\ d.ph = "single" => staging[i].token = 0
    <2>1. d.no \in 1..sent[i] /\ sent[i] \in Nat /\ staging[i].token \in 0..sent[i]
          /\ game[i].no \in 0..sent[i]
      BY <1>0, <1>1, <1>5, <1>9 DEF Numbered
    <2>2. /\ (IF d.ph = "single" THEN "single" ELSE "chunked") \in Sizes[i]
          /\ staging[i].token # 0 => "chunked" \in Sizes[i]
      BY <1>0, <1>5, <1>9 DEF Sized
    <2>3. staging[i].token # 0 => game[i].no < staging[i].token
      BY <1>0, <1>9 DEF Ahead
    <2>4. d.ph \in {"single", "begin"} => game[i].no < d.no
      BY <1>0, <1>5, <1>9 DEF Ahead
    <2>5. d.ph = "single" => staging[i].token = 0
      BY <1>9, <2>2 DEF OneSize
    <2> QED
      BY <2>1, <2>2, <2>3, <2>4, <2>5
  <1>10. Shapes'
    <2>1. ASSUME NEW k \in Instances PROVE inbox'[k] \in Seq(1..Slots)
      BY <1>1, <1>6, <1>7
    <2>2. inbox' \in [Instances -> Seq(1..Slots)]
      BY <1>6, <2>1
    <2>3. \A t \in 1..Slots : delivery'[t] = Free \/ IsDelivery(delivery'[t])
      BY <1>0, <1>3 DEF Shapes
    <2> QED
      BY <1>1, <1>3, <2>2, <2>3 DEF Shapes
  <1>11. Numbered'
    <2> SUFFICES ASSUME NEW k \in Instances
                 PROVE  /\ game'[k].no \in 0..sent[k] /\ staging'[k].token \in 0..sent[k]
                        /\ \A t \in 1..Slots : BusyAt(t, k)' => delivery'[t].no \in 1..sent[k]
      BY DEF Numbered
    <2>1. game'[k].no \in 0..sent[k] /\ staging'[k].token \in 0..sent[k]
      BY <1>0, <1>9 DEF Numbered
    <2>2. \A t \in 1..Slots : BusyAt(t, k)' => delivery'[t].no \in 1..sent[k]
      BY <1>0, <1>3, <1>4, <1>5, <1>9 DEF Numbered
    <2> QED
      BY <2>1, <2>2
  <1>12. Sized'
    <2> SUFFICES ASSUME NEW k \in Instances
                 PROVE  /\ \A t \in 1..Slots : BusyAt(t, k)' =>
                             (IF delivery'[t].ph = "single" THEN "single" ELSE "chunked") \in Sizes[k]
                        /\ staging'[k].token # 0 => "chunked" \in Sizes[k]
      BY DEF Sized
    <2>1. ASSUME NEW t \in 1..Slots, BusyAt(t, k)'
          PROVE  (IF delivery'[t].ph = "single" THEN "single" ELSE "chunked") \in Sizes[k]
      <3>1. CASE t = s
        BY <1>3, <1>4, <1>5, <1>9, <2>1, <3>1
      <3>2. CASE t # s
        BY <1>0, <1>3, <1>5, <2>1, <3>2 DEF Sized
      <3> QED
        BY <3>1, <3>2
    <2>2. staging'[k].token # 0 => "chunked" \in Sizes[k]
      BY <1>0, <1>9 DEF Sized
    <2> QED
      BY <2>1, <2>2
  <1>13. InOrder'
    <2> SUFFICES ASSUME NEW k \in Instances
                 PROVE  /\ \A t \in 1..Slots :
                             WaitsAt(t, k)' <=> \E n \in DOMAIN (inbox'[k]) : inbox'[k][n] = t
                        /\ \A m, n \in DOMAIN (inbox'[k]) :
                             m < n => delivery'[inbox'[k][m]].no < delivery'[inbox'[k][n]].no
      BY DEF InOrder
    <2>1. /\ \A t \in 1..Slots : WaitsAt(t, k) <=> \E n \in DOMAIN (inbox[k]) : inbox[k][n] = t
          /\ \A m, n \in DOMAIN (inbox[k]) :
               m < n => delivery[inbox[k][m]].no < delivery[inbox[k][n]].no
      BY <1>0 DEF InOrder
    <2>2. \A n \in DOMAIN (inbox[k]) : inbox[k][n] \in 1..Slots
      <3>1. PICK q \in Seq(1..Slots) : q = inbox[k]
        BY <1>1
      <3>2. \A n \in DOMAIN q : q[n] \in 1..Slots
        BY Elements
      <3> QED
        BY <3>1, <3>2
    <2>3. CASE k # i \/ d.ph \notin {"single", "begin"}
      <3>1. inbox'[k] = inbox[k] /\ ~WaitsAt(s, k)
        BY <1>5, <1>6, <2>3
      <3>2. \A n \in DOMAIN (inbox[k]) : inbox[k][n] # s
        BY <2>1, <3>1
      <3>3. \A t \in 1..Slots : WaitsAt(t, k)' <=> WaitsAt(t, k)
        BY <1>5, <3>1
      <3> QED
        BY <1>3, <2>1, <2>2, <3>1, <3>2, <3>3
    <2>4. CASE k = i /\ d.ph \in {"single", "begin"}
      <3>1. ASSUME NEW n \in DOMAIN (inbox'[k])
            PROVE  /\ n + 1 \in DOMAIN (inbox[k]) /\ inbox'[k][n] = inbox[k][n + 1]
                   /\ inbox[k][n + 1] # s /\ n \in Nat
        <4>1. /\ n + 1 \in DOMAIN (inbox[k]) /\ inbox'[k][n] = inbox[k][n + 1]
              /\ 1 \in DOMAIN (inbox[k]) /\ 1 < n + 1 /\ inbox[k][1] = s /\ n \in Nat
          BY <1>7, <2>4, <3>1
        <4>2. d.no < delivery[inbox[k][n + 1]].no /\ d.no \in Nat
          BY <1>9, <2>1, <2>4, <4>1
        <4> QED
          BY <4>1, <4>2
      <3>2. ASSUME NEW m \in DOMAIN (inbox'[k]), NEW n \in DOMAIN (inbox'[k]), m < n
            PROVE  delivery'[inbox'[k][m]].no < delivery'[inbox'[k][n]].no
        <4>1. /\ delivery'[inbox'[k][m]] = delivery[inbox[k][m + 1]]
              /\ delivery'[inbox'[k][n]] = delivery[inbox[k][n + 1]]
          BY <1>3, <2>2, <3>1
        <4>2. m + 1 < n + 1
          BY <3>1, <3>2
        <4> QED
          BY <2>1, <3>1, <4>1, <4>2
      <3>3. ASSUME NEW t \in 1..Slots, t # s
            PROVE  (\E n \in DOMAIN (inbox'[k]) : inbox'[k][n] = t)
                     <=> \E n \in DOMAIN (inbox[k]) : inbox[k][n] = t
        <4>1. ASSUME NEW n \in DOMAIN (inbox[k]), inbox[k][n] = t
              PROVE  \E m \in DOMAIN (inbox'[k]) : inbox'[k][m] = t
          <5>1. PICK m : m = n - 1
            OBVIOUS
          <5>2. n = m + 1 /\ m \in DOMAIN (inbox'[k])
            BY <1>7, <2>4, <3>3, <4>1, <5>1
          <5> QED
            BY <3>1, <4>1, <5>2
        <4> QED
          BY <3>1, <4>1
      <3>4. \A n \in DOMAIN (inbox'[k]) : inbox'[k][n] # s
        BY <3>1
      <3>5. \A t \in 1..Slots : WaitsAt(t, k)' <=> \E n \in DOMAIN (inbox'[k]) : inbox'[k][n] = t
        BY <1>5, <2>1, <3>3, <3>4
      <3> QED
        BY <3>2, <3>5
    <2> QED
      BY <2>3, <2>4
  <1>14. Ahead'
    <2> SUFFICES ASSUME NEW k \in Instances
                 PROVE  /\ \A t \in 1..Slots : WaitsAt(t, k)' =>
                             game'[k].no < delivery'[t].no /\ staging'[k].token < delivery'[t].no
                        /\ staging'[k].token # 0 => game'[k].no < staging'[k].token
      BY DEF Ahead
    <2>1. /\ \A t \in 1..Slots : WaitsAt(t, k) =>
               game[k].no < delivery[t].no /\ staging[k].token < delivery[t].no
          /\ staging[k].token # 0 => game[k].no < staging[k].token
      BY <1>0 DEF Ahead
    <2>2. CASE k # i
      BY <1>3, <1>5, <2>1, <2>2
    <2>3. CASE k = i
      <3>1. ASSUME NEW t \in 1..Slots, WaitsAt(t, k)'
            PROVE  game'[k].no < delivery'[t].no /\ staging'[k].token < delivery'[t].no
        <4>1. t # s /\ WaitsAt(t, k) /\ delivery'[t] = delivery[t]
          BY <1>3, <1>5, <3>1
        <4>2. game[k].no < delivery[t].no /\ staging[k].token < delivery[t].no
          BY <2>1, <4>1
        <4>3. d.ph \in {"single", "begin"} => d.no < delivery[t].no
          BY <1>8, <2>3, <4>1
        <4>4. game'[k].no < delivery[t].no
          BY <2>3, <4>2, <4>3
        <4>5. delivery[t].no \in Nat \ {0}
          <5>1. BusyAt(t, k)
            BY <4>1 DEF WaitsAt, BusyAt, Waits, Busy
          <5> QED
            BY <1>0, <1>1, <5>1 DEF Numbered
        <4>6. staging'[k].token < delivery[t].no
          BY <2>3, <4>2, <4>3, <4>5
        <4> QED
          BY <4>1, <4>4, <4>6
      <3>2. staging'[k].token # 0 => game'[k].no < staging'[k].token
        BY <1>9, <2>3
      <3> QED
        BY <3>1, <3>2
    <2> QED
      BY <2>2, <2>3
  <1>15. Latest'
    <2> SUFFICES ASSUME NEW k \in Instances, told'[k]
                 PROVE  \/ \E t \in 1..Slots : /\ BusyAt(t, k)' /\ delivery'[t].no = sent[k]
                                               /\ delivery'[t].got = Resolved(k)
                        \/ game'[k].no = sent[k] /\ game'[k].got = Resolved(k)
      <3>1. \A k \in Instances : Resolved(k)' = Resolved(k)
        BY DEF Resolved, Of
      <3> QED
        BY <3>1 DEF Latest
    <2>1. \/ \E t \in 1..Slots : BusyAt(t, k) /\ delivery[t].no = sent[k]
                                 /\ delivery[t].got = Resolved(k)
          \/ game[k].no = sent[k] /\ game[k].got = Resolved(k)
      BY <1>0 DEF Latest
    <2>2. CASE k # i
      BY <1>3, <1>5, <2>1, <2>2
    <2>3. CASE k = i
      <3>1. CASE \E t \in 1..Slots : BusyAt(t, k) /\ delivery[t].no = sent[k]
                                     /\ delivery[t].got = Resolved(k)
        <4>1. PICK t \in 1..Slots : BusyAt(t, k) /\ delivery[t].no = sent[k]
                                    /\ delivery[t].got = Resolved(k)
          BY <3>1
        <4>2. CASE t # s
          BY <1>3, <1>5, <4>1, <4>2
        <4>3. CASE t = s
          BY <1>3, <1>4, <1>5, <2>3, <4>1, <4>3
        <4> QED
          BY <4>2, <4>3
      <3>2. CASE game[k].no = sent[k] /\ game[k].got = Resolved(k)
        <4>1. game'[k] = game[k]
          BY <1>9, <2>3, <3>2
        <4> QED
          BY <3>2, <4>1
      <3> QED
        BY <2>1, <3>1, <3>2
    <2> QED
      BY <2>2, <2>3
  <1>16. NoneRegresses
    <2> SUFFICES ASSUME NEW k \in Instances PROVE ~(game'[k].no < game[k].no)
      BY DEF NoneRegresses
    <2>1. game[k].no \in Nat
      BY <1>0 DEF Numbered
    <2> QED
      BY <1>9, <2>1
  <1> QED
    BY <1>10, <1>11, <1>12, <1>13, <1>14, <1>15, <1>16 DEF DeliveryInv

LEMMA PullAfterType ==
  ASSUME NEW pull \in Pulls, NEW ok
  PROVE  PullAfter(pull, ok) \in Pulls
  BY DEF Pulls, PullAfter

\* What a command changes in the game of its instance.
LEMMA CommandEffect ==
  ASSUME DeliveryInv, NEW s \in 1..Slots, MayRun(s), NEW d, d = delivery[s],
         NEW i, i = d.at, NEW effect, effect = Command(d), Apply(d, effect)
  PROVE  /\ staging' \in [Instances -> Stages]
         /\ DOMAIN game' = Instances /\ game' = [k \in Instances |-> game'[k]]
         /\ \A k \in Instances : k # i => staging'[k] = staging[k] /\ game'[k] = game[k]
         /\ i \in Instances => \/ staging'[i].token \in {staging[i].token, 0}
                               \/ d.ph = "begin" /\ staging'[i].token = d.no
         /\ i \in Instances => \/ game'[i] = game[i]
                               \/ /\ game'[i].no = d.no /\ game'[i].got = d.got
                                  /\ \/ d.ph = "single"
                                     \/ /\ d.ph = "commit" /\ staging[i].token = d.no
                                        /\ staging'[i].token = 0
         /\ i \in Instances /\ effect.ok /\ d.ph \in {"single", "commit"} =>
              game'[i].no = d.no /\ game'[i].got = d.got
  <1>1. /\ staging \in [Instances -> Stages] /\ DOMAIN game = Instances
        /\ game = [k \in Instances |-> game[k]] /\ IsDelivery(d)
    BY DEF DeliveryInv, Shapes, MayRun
  <1>2. d.ph \in {"single", "begin", "chunk", "commit"}
    BY <1>1 DEF IsDelivery
  <1>3. PICK stage, g : /\ stage = effect.staging /\ g = effect.game
                        /\ staging' = [staging EXCEPT ![i] = stage]
                        /\ game' = [game EXCEPT ![i] = g]
    BY DEF Apply
  <1>4. CASE i \notin Instances
    <2>1. staging' = staging /\ game' = game
      BY <1>1, <1>3, <1>4
    <2> QED
      BY <1>1, <1>4, <2>1
  <1>5. CASE i \in Instances
    <2>1. /\ staging'[i] = stage /\ game'[i] = g
          /\ \A k \in Instances : k # i => staging'[k] = staging[k] /\ game'[k] = game[k]
          /\ DOMAIN game' = Instances /\ game' = [k \in Instances |-> game'[k]]
          /\ stage \in Stages => staging' \in [Instances -> Stages]
      BY <1>1, <1>3, <1>5
    <2>2. d.no \in Nat /\ staging[i] \in Stages
      <3>1. BusyAt(s, i)
        BY <1>2 DEF BusyAt, Busy
      <3> QED
        BY <1>1, <1>5, <3>1 DEF DeliveryInv, Numbered, Shapes
    <2> DEFINE new == [no |-> d.no, got |-> d.got]
    <2>3. new.no = d.no /\ new.got = d.got
      OBVIOUS
    <2>4. CASE d.ph = "single"
      <3>1. stage = staging[i] /\ g = new
        BY <1>3, <2>4 DEF Command
      <3> QED
        BY <1>5, <2>1, <2>2, <2>3, <2>4, <3>1
    <2>5. CASE d.ph = "begin"
      <3>1. stage = [token |-> d.no, got |-> 0] /\ g = game[i]
        BY <1>3, <2>5 DEF Command
      <3> QED
        BY <1>5, <2>1, <2>2, <2>5, <3>1 DEF Stages
    <2>6. CASE d.ph = "chunk"
      <3>1. /\ stage = IF staging[i].token = d.no THEN [staging[i] EXCEPT !.got = @ + 1]
                       ELSE staging[i]
            /\ g = game[i]
        BY <1>3, <2>6 DEF Command
      <3>2. stage \in Stages /\ stage.token = staging[i].token
        BY <2>2, <3>1 DEF Stages
      <3> QED
        BY <1>5, <2>1, <2>6, <3>1, <3>2
    <2>7. CASE d.ph = "commit"
      <3>1. /\ stage = IF staging[i].token = d.no THEN NoStaging ELSE staging[i]
            /\ \/ g = game[i] /\ ~effect.ok
               \/ g = new /\ staging[i].token = d.no
        BY <1>3, <2>7 DEF Command
      <3>2. /\ stage \in Stages /\ stage.token \in {staging[i].token, 0}
            /\ staging[i].token = d.no => stage.token = 0
        BY <2>2, <3>1 DEF Stages, NoStaging
      <3> QED
        BY <1>5, <2>1, <2>3, <2>7, <3>1, <3>2
    <2> QED
      BY <1>2, <2>4, <2>5, <2>6, <2>7
  <1> QED
    BY <1>4, <1>5

\* What the end of a delivery changes.
LEMMA EndEffect ==
  ASSUME DeliveryInv, NEW s \in 1..Slots, NEW d, d = delivery[s], NEW ok, End(s, ok)
  PROVE  /\ delivery' = [delivery EXCEPT ![s] = Free]
         /\ status' \in [Instances -> Statuses] /\ told' \in [Instances -> BOOLEAN]
         /\ \A k \in Instances : told'[k] => told[k]
         /\ d.at \in Instances /\ told'[d.at] /\ d.no = sent[d.at] => ok
  <1>1. status \in [Instances -> Statuses] /\ told \in [Instances -> BOOLEAN]
    BY DEF DeliveryInv, Shapes
  <1>2. status' \in [Instances -> Statuses]
    <2>1. CASE d.to = "pull" /\ d.at \in Instances
      <3>1. PICK p \in Pulls : p = PullAfter(status[d.at].pull, ok)
        BY <1>1, <2>1, PullAfterType DEF Statuses
      <3>2. status' = [status EXCEPT ![d.at].pull = p]
        BY <2>1, <3>1 DEF End
      <3> QED
        BY <1>1, <2>1, <3>1, <3>2 DEF Statuses
    <2>2. CASE d.to # "pull" \/ d.at \notin Instances
      <3>1. status' = status
        BY <1>1, <2>2 DEF End
      <3> QED
        BY <1>1, <3>1
    <2> QED
      BY <2>1, <2>2
  <1>3. told' = [told EXCEPT ![d.at] = @ /\ (ok \/ d.no # sent[d.at])]
    BY DEF End
  <1>4. told' \in [Instances -> BOOLEAN] /\ \A k \in Instances : told'[k] => told[k]
    BY <1>1, <1>3
  <1>5. d.at \in Instances /\ told'[d.at] /\ d.no = sent[d.at] => ok
    BY <1>1, <1>3
  <1> QED
    BY <1>2, <1>4, <1>5 DEF End

\* Every command of a delivery, and its end.
LEMMA RunStep ==
  ASSUME DeliveryInv, OneSize, NEW s \in 1..Slots, Run(s) \/ LoseCommand(s) \/ LoseReply(s)
  PROVE  DeliveryInv' /\ NoneRegresses
  <1> USE DEF server
  <1> DEFINE d == delivery[s]
             i == d.at
  <1>1. MayRun(s) /\ inbox' = Taken(s) /\ UNCHANGED <<sent, links, mode>>
    BY DEF Run, LoseCommand, LoseReply
  <1>2. /\ IsDelivery(d) /\ staging \in [Instances -> Stages]
        /\ DOMAIN game = Instances /\ game = [k \in Instances |-> game[k]]
        /\ status \in [Instances -> Statuses] /\ told \in [Instances -> BOOLEAN]
    BY <1>1 DEF DeliveryInv, Shapes, MayRun
  <1>3. CASE LoseCommand(s)
    <2>1. End(s, FALSE) /\ UNCHANGED <<staging, game>>
      BY <1>3 DEF LoseCommand
    <2>2. /\ delivery' = [delivery EXCEPT ![s] = Free]
          /\ status' \in [Instances -> Statuses] /\ told' \in [Instances -> BOOLEAN]
          /\ \A k \in Instances : told'[k] => told[k]
          /\ i \in Instances /\ told'[i] /\ d.no = sent[i] => FALSE
      BY <2>1, EndEffect
    <2>3. SlotEffect(s, Free)
      BY <1>1, <1>2, <2>1, <2>2 DEF SlotEffect
    <2> QED
      BY <2>3, SlotStep
  <1>4. ASSUME NEW effect, effect = Command(d), Apply(d, effect), NEW ok, End(s, ok),
               ok => effect.ok /\ d.ph \in {"single", "commit"}
        PROVE  DeliveryInv' /\ NoneRegresses
    <2>1. /\ delivery' = [delivery EXCEPT ![s] = Free]
          /\ status' \in [Instances -> Statuses] /\ told' \in [Instances -> BOOLEAN]
          /\ \A k \in Instances : told'[k] => told[k]
          /\ i \in Instances /\ told'[i] /\ d.no = sent[i] => ok
      BY <1>4, EndEffect
    <2>2. /\ staging' \in [Instances -> Stages]
          /\ DOMAIN game' = Instances /\ game' = [k \in Instances |-> game'[k]]
          /\ \A k \in Instances : k # i => staging'[k] = staging[k] /\ game'[k] = game[k]
          /\ i \in Instances => \/ staging'[i].token \in {staging[i].token, 0}
                                \/ d.ph = "begin" /\ staging'[i].token = d.no
          /\ i \in Instances => \/ game'[i] = game[i]
                                \/ /\ game'[i].no = d.no /\ game'[i].got = d.got
                                   /\ \/ d.ph = "single"
                                      \/ /\ d.ph = "commit" /\ staging[i].token = d.no
                                         /\ staging'[i].token = 0
          /\ i \in Instances /\ effect.ok /\ d.ph \in {"single", "commit"} =>
               game'[i].no = d.no /\ game'[i].got = d.got
      BY <1>1, <1>4, CommandEffect
    <2>3. i \in Instances /\ told'[i] /\ d.no = sent[i] => game'[i].no = d.no /\ game'[i].got = d.got
      BY <1>4, <2>1, <2>2
    <2>4. SlotEffect(s, Free)
      BY <1>1, <2>1, <2>2, <2>3 DEF SlotEffect
    <2> QED
      BY <2>4, SlotStep
  <1>5. CASE LoseReply(s)
    BY <1>4, <1>5 DEF LoseReply
  <1>6. CASE Run(s)
    <2>1. PICK effect : effect = Command(d) /\ Apply(d, effect)
      BY <1>6 DEF Run
    <2>2. CASE effect.ok /\ d.ph \in {"begin", "chunk"}
      <3>1. Advance(s)
        BY <1>6, <2>1, <2>2 DEF Run
      <3>2. PICK e : /\ e = IF d.ph = "chunk" /\ d.next < Chunks THEN [d EXCEPT !.next = @ + 1]
                            ELSE [d EXCEPT !.ph = IF d.ph = "begin" THEN "chunk" ELSE "commit"]
                     /\ delivery' = [delivery EXCEPT ![s] = e]
                     /\ UNCHANGED <<status, told>>
        BY <3>1 DEF Advance
      <3>3. /\ IsDelivery(e) /\ e.at = i /\ e.no = d.no /\ e.got = d.got
            /\ e.ph \in {"chunk", "commit"} /\ d.ph # "single" /\ e # Free
        BY <1>2, <2>2, <3>2 DEF IsDelivery, Free
      <3>4. /\ staging' \in [Instances -> Stages]
            /\ DOMAIN game' = Instances /\ game' = [k \in Instances |-> game'[k]]
            /\ \A k \in Instances : k # i => staging'[k] = staging[k] /\ game'[k] = game[k]
            /\ i \in Instances => \/ staging'[i].token \in {staging[i].token, 0}
                                  \/ d.ph = "begin" /\ staging'[i].token = d.no
            /\ i \in Instances => \/ game'[i] = game[i]
                                  \/ /\ game'[i].no = d.no /\ game'[i].got = d.got
                                     /\ \/ d.ph = "single"
                                        \/ /\ d.ph = "commit" /\ staging[i].token = d.no
                                           /\ staging'[i].token = 0
        BY <1>1, <2>1, CommandEffect
      <3>5. SlotEffect(s, e)
        BY <1>1, <1>2, <3>2, <3>3, <3>4 DEF SlotEffect
      <3> QED
        BY <3>5, SlotStep
    <2>3. CASE ~(effect.ok /\ d.ph \in {"begin", "chunk"})
      <3>1. End(s, effect.ok)
        BY <1>6, <2>1, <2>3 DEF Run
      <3>2. effect.ok => d.ph \in {"single", "commit"}
        BY <1>2, <2>3 DEF IsDelivery
      <3> QED
        BY <1>4, <2>1, <3>1, <3>2
    <2> QED
      BY <2>2, <2>3
  <1> QED
    BY <1>3, <1>5, <1>6

LEMMA PruneStep ==
  ASSUME DeliveryInv, NEW i \in Instances, Prune(i)
  PROVE  DeliveryInv'
  <1> USE DEF server
  <1>0. Shapes /\ Numbered /\ Sized /\ InOrder /\ Ahead /\ Latest
    BY DEF DeliveryInv
  <1>1. /\ UNCHANGED <<delivery, inbox, game, sent, told, status, links, mode>>
        /\ staging' = [staging EXCEPT ![i] = NoStaging]
    BY DEF Prune
  <1>2. /\ staging' \in [Instances -> Stages]
        /\ \A k \in Instances : staging'[k] = staging[k] \/ staging'[k].token = 0
    BY <1>0, <1>1 DEF Shapes, Stages, NoStaging
  <1>3. \A s, k : BusyAt(s, k)' = BusyAt(s, k) /\ WaitsAt(s, k)' = WaitsAt(s, k)
    BY <1>1 DEF BusyAt, WaitsAt, Busy, Waits
  <1>4. Shapes' /\ InOrder'
    <2>1. Shapes'
      BY <1>0, <1>1, <1>2 DEF Shapes
    <2>2. InOrder'
      BY <1>0, <1>1, <1>3 DEF InOrder
    <2> QED
      BY <2>1, <2>2
  <1>5. \A k \in Instances : sent[k] \in Nat
    BY <1>0 DEF Shapes
  <1>6. Numbered' /\ Sized'
    BY <1>0, <1>1, <1>2, <1>3, <1>5 DEF Numbered, Sized
  <1>7. Ahead'
    <2> SUFFICES ASSUME NEW k \in Instances
                 PROVE  /\ \A t \in 1..Slots : WaitsAt(t, k) =>
                             game[k].no < delivery[t].no /\ staging'[k].token < delivery[t].no
                        /\ staging'[k].token # 0 => game[k].no < staging'[k].token
      BY <1>1, <1>3 DEF Ahead
    <2>1. /\ \A t \in 1..Slots : WaitsAt(t, k) =>
               game[k].no < delivery[t].no /\ staging[k].token < delivery[t].no
          /\ staging[k].token # 0 => game[k].no < staging[k].token
          /\ game[k].no \in Nat
      BY <1>0 DEF Ahead, Numbered
    <2>2. \A t \in 1..Slots : WaitsAt(t, k) => delivery[t].no \in Nat
      BY <1>0 DEF Numbered, WaitsAt, BusyAt, Waits, Busy
    <2> QED
      BY <1>2, <2>1, <2>2
  <1>8. Latest'
    <2>1. \A k : Resolved(k)' = Resolved(k)
      BY <1>1 DEF Resolved, Of
    <2> QED
      BY <1>0, <1>1, <1>3, <2>1 DEF Latest
  <1> QED
    BY <1>4, <1>6, <1>7, <1>8 DEF DeliveryInv

\* What a restarted game was sent is lost, and its answer with it.
LEMMA GameRestartStep ==
  ASSUME DeliveryInv, NEW i \in Instances, GameRestart(i)
  PROVE  /\ DeliveryInv' /\ ~status'[i].running /\ status'[i].pull = "ask"
         /\ \A k \in Instances : k # i => game'[k] = game[k]
  <1> USE DEF server
  <1>0. Shapes /\ Numbered /\ Sized /\ InOrder /\ Ahead /\ Latest
    BY DEF DeliveryInv
  <1>1. PICK slots : slots = {s \in 1..Slots : delivery[s] # Free /\ delivery[s].at = i}
    OBVIOUS
  <1>2. /\ UNCHANGED <<sent, links, mode>>
        /\ delivery' = [s \in 1..Slots |-> IF s \in slots THEN Free ELSE delivery[s]]
        /\ inbox' = [inbox EXCEPT ![i] = <<>>]
        /\ status' = [status EXCEPT ![i] = [@ EXCEPT !.running = FALSE, !.pull = "ask"]]
        /\ staging' = [staging EXCEPT ![i] = NoStaging]
        /\ told' = [told EXCEPT ![i] = FALSE]
    BY <1>1 DEF GameRestart, Lost
  <1>3. PICK g : /\ game' = [game EXCEPT ![i] = g]
                 /\ g = game[i] \/ g.no = 0
    <2>1. PICK older \in BOOLEAN :
            game' = [game EXCEPT ![i] =
                IF older THEN [no |-> 0, got |-> [links |-> {}, mode |-> mode]] ELSE @]
      BY DEF GameRestart
    <2>2. PICK saved : saved = [no |-> 0, got |-> [links |-> {}, mode |-> mode]]
      OBVIOUS
    <2>3. CASE older
      <3>1. game' = [game EXCEPT ![i] = saved] /\ saved.no = 0
        BY <2>1, <2>2, <2>3
      <3> QED
        BY <3>1
    <2>4. CASE ~older
      <3>1. game' = [game EXCEPT ![i] = game[i]]
        BY <2>1, <2>4
      <3> QED
        BY <3>1
    <2> QED
      BY <2>3, <2>4
  <1>4. /\ inbox \in [Instances -> Seq(1..Slots)] /\ staging \in [Instances -> Stages]
        /\ status \in [Instances -> Statuses] /\ told \in [Instances -> BOOLEAN]
        /\ sent \in [Instances -> Nat] /\ delivery = [s \in 1..Slots |-> delivery[s]]
        /\ DOMAIN game = Instances /\ game = [k \in Instances |-> game[k]]
        /\ \A s \in 1..Slots : delivery[s] = Free \/ IsDelivery(delivery[s])
    BY <1>0 DEF Shapes
  <1>5. /\ inbox'[i] = <<>> /\ inbox' \in [Instances -> Seq(1..Slots)]
        /\ \A k \in Instances : k # i => inbox'[k] = inbox[k]
    BY <1>2, <1>4
  <1>6. /\ staging'[i].token = 0 /\ staging' \in [Instances -> Stages]
        /\ \A k \in Instances : k # i => staging'[k] = staging[k]
    BY <1>2, <1>4 DEF Stages, NoStaging
  <1>7. /\ status' \in [Instances -> Statuses]
        /\ ~status'[i].running /\ status'[i].pull = "ask"
    BY <1>2, <1>4 DEF Statuses, Pulls
  <1>8. /\ told' \in [Instances -> BOOLEAN] /\ ~told'[i]
        /\ \A k \in Instances : k # i => (told'[k] <=> told[k])
    BY <1>2, <1>4
  <1>9. /\ DOMAIN game' = Instances /\ game' = [k \in Instances |-> game'[k]]
        /\ game'[i] = game[i] \/ game'[i].no = 0
        /\ \A k \in Instances : k # i => game'[k] = game[k]
    BY <1>3, <1>4
  <1>10. \A s \in 1..Slots : s \in slots <=> BusyAt(s, i)
    <2>1. ASSUME NEW s \in 1..Slots PROVE delivery[s] # Free <=> Busy(s)
      <3>1. CASE delivery[s] = Free
        <4>1. delivery[s].ph = "free"
          BY <3>1 DEF Free
        <4> QED
          BY <3>1, <4>1 DEF Busy
      <3>2. CASE delivery[s] # Free
        <4>1. delivery[s].ph \in {"single", "begin", "chunk", "commit"}
          BY <1>4, <3>2 DEF IsDelivery
        <4> QED
          BY <3>2, <4>1 DEF Busy
      <3> QED
        BY <3>1, <3>2
    <2>2. \A s \in 1..Slots : delivery[s] # Free <=> Busy(s)
      BY <2>1
    <2> QED
      BY <1>1, <2>2 DEF BusyAt
  <1>11. /\ \A s \in 1..Slots : ~BusyAt(s, i) => delivery'[s] = delivery[s]
         /\ \A s \in 1..Slots : BusyAt(s, i) => delivery'[s] = Free
         /\ delivery' = [s \in 1..Slots |-> delivery'[s]]
    BY <1>2, <1>10
  <1>12. /\ \A s \in 1..Slots : ~BusyAt(s, i)' /\ ~WaitsAt(s, i)'
         /\ \A s \in 1..Slots : \A k : k # i =>
              /\ BusyAt(s, k)' <=> BusyAt(s, k)
              /\ WaitsAt(s, k)' <=> WaitsAt(s, k)
              /\ BusyAt(s, k) => delivery'[s] = delivery[s]
    BY <1>11 DEF BusyAt, WaitsAt, Busy, Waits, Free
  <1>13. \A s, k : WaitsAt(s, k) => BusyAt(s, k)
    BY DEF WaitsAt, BusyAt, Waits, Busy
  <1>14. Shapes'
    <2>1. \A s \in 1..Slots : delivery'[s] = Free \/ IsDelivery(delivery'[s])
      BY <1>4, <1>11
    <2> QED
      BY <1>2, <1>4, <1>5, <1>6, <1>7, <1>8, <1>9, <1>11, <2>1 DEF Shapes
  <1>15. Numbered' /\ Sized'
    BY <1>0, <1>2, <1>4, <1>6, <1>9, <1>12 DEF Numbered, Sized
  <1>16. InOrder'
    <2> SUFFICES ASSUME NEW k \in Instances
                 PROVE  /\ \A t \in 1..Slots :
                             WaitsAt(t, k)' <=> \E n \in DOMAIN (inbox'[k]) : inbox'[k][n] = t
                        /\ \A m, n \in DOMAIN (inbox'[k]) :
                             m < n => delivery'[inbox'[k][m]].no < delivery'[inbox'[k][n]].no
      BY DEF InOrder
    <2>1. CASE k = i
      BY <1>5, <1>12, <2>1
    <2>2. CASE k # i
      <3>1. /\ \A t \in 1..Slots : WaitsAt(t, k) <=> \E n \in DOMAIN (inbox[k]) : inbox[k][n] = t
            /\ \A m, n \in DOMAIN (inbox[k]) :
                 m < n => delivery[inbox[k][m]].no < delivery[inbox[k][n]].no
            /\ inbox'[k] = inbox[k]
        BY <1>0, <1>5, <2>2 DEF InOrder
      <3>2. \A n \in DOMAIN (inbox[k]) : inbox[k][n] \in 1..Slots
        <4>1. PICK q \in Seq(1..Slots) : q = inbox[k]
          BY <1>4
        <4>2. \A n \in DOMAIN q : q[n] \in 1..Slots
          BY Elements
        <4> QED
          BY <4>1, <4>2
      <3>3. \A n \in DOMAIN (inbox[k]) : delivery'[inbox[k][n]] = delivery[inbox[k][n]]
        <4>1. \A n \in DOMAIN (inbox[k]) : BusyAt(inbox[k][n], k)
          BY <1>13, <3>1, <3>2
        <4> QED
          BY <1>12, <2>2, <3>2, <4>1
      <3> QED
        BY <1>12, <2>2, <3>1, <3>3
    <2> QED
      BY <2>1, <2>2
  <1>17. Ahead'
    BY <1>0, <1>6, <1>9, <1>12, <1>13 DEF Ahead
  <1>18. Latest'
    <2> SUFFICES ASSUME NEW k \in Instances, told'[k]
                 PROVE  \/ \E t \in 1..Slots : /\ BusyAt(t, k)' /\ delivery'[t].no = sent[k]
                                               /\ delivery'[t].got = Resolved(k)
                        \/ game'[k].no = sent[k] /\ game'[k].got = Resolved(k)
      <3>1. \A k \in Instances : Resolved(k)' = Resolved(k)
        BY <1>2 DEF Resolved, Of
      <3> QED
        BY <1>2, <3>1 DEF Latest
    <2>1. k # i
      BY <1>8
    <2>2. \/ \E t \in 1..Slots : BusyAt(t, k) /\ delivery[t].no = sent[k]
                                 /\ delivery[t].got = Resolved(k)
          \/ game[k].no = sent[k] /\ game[k].got = Resolved(k)
      BY <1>0, <1>8, <2>1 DEF Latest
    <2> QED
      BY <1>9, <1>12, <2>1, <2>2
  <1> QED
    BY <1>7, <1>9, <1>14, <1>15, <1>16, <1>17, <1>18 DEF DeliveryInv

\* What no game has begun is lost; what one has begun goes on without anyone who waits.
LEMMA ServerRestartStep ==
  ASSUME DeliveryInv, ControllerRestart
  PROVE  DeliveryInv'
  <1>0. Shapes /\ Numbered /\ Sized /\ InOrder /\ Ahead /\ Latest
    BY DEF DeliveryInv
  <1>1. PICK slots, loaded :
          /\ slots = {s \in 1..Slots : delivery[s] # Free /\
                        \E n \in DOMAIN inbox[delivery[s].at] : inbox[delivery[s].at][n] = s}
          /\ loaded = Loaded(disk)
    OBVIOUS
  <1>2. /\ UNCHANGED <<sent, mode, staging, game>> /\ links' = loaded
        /\ delivery' = [s \in 1..Slots |->
             IF s \in slots \/ delivery[s] = Free THEN Free
             ELSE IF delivery[s].to = "pull" THEN delivery[s]
             ELSE [delivery[s] EXCEPT !.to = "nobody"]]
        /\ inbox' = [i \in Instances |-> <<>>]
        /\ told' = [i \in Instances |-> told[i] /\ Of(loaded, i) = Of(links, i)
                                               /\ \A s \in slots : delivery[s].at # i]
    BY <1>1 DEF ControllerRestart
  <1>3. /\ status \in [Instances -> Statuses] /\ told \in [Instances -> BOOLEAN]
        /\ sent \in [Instances -> Nat] /\ DOMAIN game = Instances
        /\ game = [k \in Instances |-> game[k]] /\ staging \in [Instances -> Stages]
        /\ \A s \in 1..Slots : delivery[s] = Free \/ IsDelivery(delivery[s])
    BY <1>0 DEF Shapes
  <1>4. status' \in [Instances -> Statuses]
    <2>1. \A k \in Instances : [status[k] EXCEPT !.pull = PullAfter(@, FALSE)] \in Statuses
      <3> SUFFICES ASSUME NEW k \in Instances
                   PROVE  [status[k] EXCEPT !.pull = PullAfter(@, FALSE)] \in Statuses
        OBVIOUS
      <3>1. status[k] \in Statuses /\ status[k].pull \in Pulls
        BY <1>3 DEF Statuses
      <3>2. PICK p \in Pulls : p = PullAfter(status[k].pull, FALSE)
        BY <3>1, PullAfterType
      <3> QED
        BY <3>1, <3>2 DEF Statuses
    <2> QED
      BY <1>1, <1>3, <2>1 DEF ControllerRestart
  <1>5. ASSUME NEW s \in 1..Slots
        PROVE  \/ delivery'[s] = Free
               \/ /\ IsDelivery(delivery'[s]) /\ s \notin slots
                  /\ delivery'[s].ph = delivery[s].ph /\ delivery'[s].at = delivery[s].at
                  /\ delivery'[s].no = delivery[s].no /\ delivery'[s].got = delivery[s].got
    <2>1. CASE s \in slots \/ delivery[s] = Free
      BY <1>2, <2>1
    <2>2. CASE ~(s \in slots \/ delivery[s] = Free)
      <3>1. IsDelivery(delivery[s])
        BY <1>3, <2>2
      <3>2. CASE delivery[s].to = "pull"
        BY <1>2, <2>2, <3>1, <3>2
      <3>3. CASE delivery[s].to # "pull"
        <4>1. delivery'[s] = [delivery[s] EXCEPT !.to = "nobody"]
          BY <1>2, <2>2, <3>3
        <4> QED
          BY <2>2, <3>1, <4>1 DEF IsDelivery
      <3> QED
        BY <3>2, <3>3
    <2> QED
      BY <2>1, <2>2
  <1>6. ASSUME NEW k \in Instances, NEW s \in 1..Slots, WaitsAt(s, k) PROVE s \in slots
    BY <1>0, <1>1, <1>6 DEF InOrder, WaitsAt, Waits, Free
  <1>7. ASSUME NEW k \in Instances, NEW s \in 1..Slots
        PROVE  /\ ~WaitsAt(s, k)'
               /\ BusyAt(s, k)' => /\ BusyAt(s, k) /\ delivery'[s].no = delivery[s].no
                                   /\ delivery'[s].ph = delivery[s].ph
    <2>1. CASE delivery'[s] = Free
      BY <2>1 DEF WaitsAt, BusyAt, Waits, Busy, Free
    <2>2. CASE delivery'[s] # Free
      <3>1. /\ s \notin slots
            /\ delivery'[s].ph = delivery[s].ph /\ delivery'[s].at = delivery[s].at
            /\ delivery'[s].no = delivery[s].no
        BY <1>5, <2>2
      <3> QED
        BY <1>6, <3>1 DEF WaitsAt, BusyAt, Waits, Busy
    <2> QED
      BY <2>1, <2>2
  <1>8. Shapes'
    <2>1. inbox' \in [Instances -> Seq(1..Slots)] /\ told' \in [Instances -> BOOLEAN]
          /\ delivery' = [s \in 1..Slots |-> delivery'[s]]
      BY <1>2
    <2> QED
      BY <1>2, <1>3, <1>4, <1>5, <2>1 DEF Shapes
  <1>9. Numbered' /\ Sized'
    BY <1>0, <1>2, <1>7 DEF Numbered, Sized
  <1>10. InOrder'
    BY <1>2, <1>7 DEF InOrder
  <1>11. Ahead'
    BY <1>0, <1>2, <1>7 DEF Ahead
  <1>12. Latest'
    <2> SUFFICES ASSUME NEW k \in Instances, told'[k]
                 PROVE  \/ \E t \in 1..Slots : /\ BusyAt(t, k)' /\ delivery'[t].no = sent[k]
                                               /\ delivery'[t].got = Resolved(k)
                        \/ game[k].no = sent[k] /\ game[k].got = Resolved(k)
      <3>1. \A k \in Instances : told'[k] => Resolved(k)' = Resolved(k)
        BY <1>2 DEF Resolved, Of
      <3> QED
        BY <1>2, <3>1 DEF Latest
    <2>1. told[k] /\ \A s \in slots : delivery[s].at # k
      BY <1>2
    <2>2. CASE \E t \in 1..Slots : BusyAt(t, k) /\ delivery[t].no = sent[k]
                                   /\ delivery[t].got = Resolved(k)
      <3>1. PICK t \in 1..Slots : BusyAt(t, k) /\ delivery[t].no = sent[k]
                                  /\ delivery[t].got = Resolved(k)
        BY <2>2
      <3>2. t \notin slots /\ delivery[t] # Free
        BY <2>1, <3>1 DEF BusyAt, Busy, Free
      <3>3. delivery'[t] # Free
        <4>1. IsDelivery(delivery[t])
          BY <1>3, <3>2
        <4>2. delivery'[t].ph = delivery[t].ph /\ delivery[t].ph # "free"
          BY <1>2, <3>2, <4>1 DEF IsDelivery
        <4> QED
          BY <4>2 DEF Free
      <3>4. BusyAt(t, k)' /\ delivery'[t].no = sent[k] /\ delivery'[t].got = Resolved(k)
        BY <1>5, <3>1, <3>3 DEF BusyAt, Busy
      <3> QED
        BY <3>4
    <2>3. CASE game[k].no = sent[k] /\ game[k].got = Resolved(k)
      BY <2>3
    <2> QED
      BY <1>0, <2>1, <2>2, <2>3 DEF Latest
  <1> QED
    BY <1>8, <1>9, <1>10, <1>11, <1>12 DEF DeliveryInv

\* A request changes the links of its own instance, and of no other.
LEMMA ProposedElsewhere ==
  ASSUME NEW c, NEW i, NEW k, k # i
  PROVE  Of(Proposed(c, i), k) = Of(links, k)
  <1>1. \A g : <<k, g>> \notin Submitted(c, i)
    BY DEF Submitted
  <1>2. \A l \in Proposed(c, i) : l[1][1] = k => l \in links
    BY DEF Proposed, Submitted
  <1>3. \A l \in links : l[1][1] = k => l \in Proposed(c, i)
    BY DEF Proposed, Submitted
  <1> QED
    BY <1>2, <1>3 DEF Of

LEMMA HandleSetStep ==
  ASSUME DeliveryInv, NEW c, HandleSet(c)
  PROVE  DeliveryInv' /\ UNCHANGED game
  <1> USE DEF net
  <1>1. PICK i : \/ UNCHANGED <<links, told>>
                 \/ links' = Proposed(c, i) /\ told' = [told EXCEPT ![i] = FALSE]
    BY DEF HandleSet, server
  <1>2. UNCHANGED <<delivery, inbox, staging, game, sent, status, mode>>
    BY DEF HandleSet
  <1>3. status \in [Instances -> Statuses] /\ told \in [Instances -> BOOLEAN]
    BY DEF DeliveryInv, Shapes
  <1>4. CASE UNCHANGED <<links, told>>
    <2>1. \A k \in Instances : told'[k] => told[k] /\ Resolved(k)' = Resolved(k)
      BY <1>2, <1>4 DEF Resolved, Of
    <2> QED
      BY <1>2, <1>3, <1>4, <2>1, NothingMoves
  <1>5. CASE links' = Proposed(c, i) /\ told' = [told EXCEPT ![i] = FALSE]
    <2>1. told' \in [Instances -> BOOLEAN] /\ \A k \in Instances : told'[k] => told[k] /\ k # i
      BY <1>3, <1>5
    <2>2. ASSUME NEW k \in Instances, k # i PROVE Resolved(k)' = Resolved(k)
      <3>1. PICK L : L = Proposed(c, i)
        OBVIOUS
      <3>2. links' = L /\ Of(L, k) = Of(links, k)
        BY <1>5, <2>2, <3>1, ProposedElsewhere
      <3> QED
        BY <1>2, <3>2 DEF Resolved, Of
    <2> QED
      BY <1>2, <1>3, <2>1, <2>2, NothingMoves
  <1> QED
    BY <1>1, <1>2, <1>4, <1>5

LEMMA PullStep ==
  ASSUME DeliveryInv, NEW i, Pull(i)
  PROVE  DeliveryInv' /\ UNCHANGED game
  <1>1. Dispatch(i, "pull") /\ UNCHANGED <<links, mode>>
    BY DEF Pull, server
  <1>2. status \in [Instances -> Statuses]
    BY DEF DeliveryInv, Shapes
  <1>3. PICK p \in Pulls : status' = [status EXCEPT ![i].pull = p]
    BY DEF Pull, Pulls
  <1>4. status' \in [Instances -> Statuses]
    BY <1>2, <1>3 DEF Statuses
  <1>5. DeliveryInv'
    BY <1>1, <1>4, DispatchStep
  <1> QED
    BY <1>1, <1>5 DEF Dispatch

LEMMA PushStep ==
  ASSUME DeliveryInv, NEW c, Push(c)
  PROVE  DeliveryInv' /\ UNCHANGED game
  <1> USE DEF server, net
  <1> DEFINE i == canvas[c].save.at
  <1>1. UNCHANGED <<status, links, mode>>
    BY DEF Push
  <1>2. status \in [Instances -> Statuses] /\ told \in [Instances -> BOOLEAN]
    BY DEF DeliveryInv, Shapes
  <1>3. CASE IsOnline(i)
    <2>1. Dispatch(i, c)
      BY <1>3 DEF Push
    <2>2. DeliveryInv'
      BY <1>1, <1>2, <2>1, DispatchStep
    <2> QED
      BY <2>1, <2>2 DEF Dispatch
  <1>4. CASE ~IsOnline(i)
    <2>1. UNCHANGED <<delivery, inbox, staging, game, sent, told>>
      BY <1>4 DEF Push
    <2>2. \A k \in Instances : told'[k] => told[k] /\ Resolved(k)' = Resolved(k)
      BY <1>1, <2>1 DEF Resolved, Of
    <2> QED
      BY <1>1, <1>2, <2>1, <2>2, NothingMoves
  <1> QED
    BY <1>3, <1>4

\* A step that leaves the links, the mode and all deliveries alone.
LEMMA StatusStep ==
  ASSUME DeliveryInv, UNCHANGED <<delivery, inbox, staging, game, sent, told, links, mode>>,
         status' = status \/ \E i : \E v \in BOOLEAN :
           \/ status' = [status EXCEPT ![i].running = v]
           \/ status' = [status EXCEPT ![i].heard = v]
  PROVE  DeliveryInv'
  <1>1. status \in [Instances -> Statuses] /\ told \in [Instances -> BOOLEAN]
    BY DEF DeliveryInv, Shapes
  <1>2. status' \in [Instances -> Statuses]
    BY <1>1 DEF Statuses
  <1>3. \A k \in Instances : told'[k] => told[k] /\ Resolved(k)' = Resolved(k)
    BY DEF Resolved, Of
  <1> QED
    BY <1>1, <1>2, <1>3, NothingMoves

LEMMA SwitchModeStep ==
  ASSUME DeliveryInv, SwitchMode
  PROVE  DeliveryInv' /\ UNCHANGED game
  <1> USE DEF net
  <1>1. UNCHANGED <<delivery, inbox, staging, game, sent, status>>
    BY DEF SwitchMode
  <1>2. status \in [Instances -> Statuses]
    BY DEF DeliveryInv, Shapes
  <1>3. told' \in [Instances -> BOOLEAN] /\ \A k \in Instances : ~told'[k]
    BY DEF SwitchMode
  <1> QED
    BY <1>1, <1>2, <1>3, NothingMoves

\* Of the steps, only the start of a game takes it back.
LEMMA DeliveryNext ==
  ASSUME DeliveryInv, OneSize, [Next]_vars
  PROVE  /\ DeliveryInv'
         /\ \A i \in Instances :
              game'[i].no < game[i].no => ~status'[i].running /\ status'[i].pull = "ask"
  <1> USE DEF vars, server, net, env
  <1>1. \A i \in Instances : game[i].no \in Nat
    BY DEF DeliveryInv, Numbered
  <1>2. NoneRegresses \/ UNCHANGED game => \A i \in Instances : ~(game'[i].no < game[i].no)
    <2>1. CASE NoneRegresses
      BY <2>1 DEF NoneRegresses
    <2>2. CASE UNCHANGED game
      BY <1>1, <2>2
    <2> QED
      BY <2>1, <2>2
  <1>3. CASE \E c \in Canvases : \/ Load(c) \/ BulkLink(c) \/ Connect(c) \/ EdgeClick(c)
                                 \/ Revert(c) \/ BeginSave(c) \/ EndSave(c)
    <2>1. UNCHANGED <<delivery, inbox, staging, game, sent, told, links, mode, status>>
      BY <1>3 DEF Load, BulkLink, Connect, EdgeClick, Click, Revert, BeginSave, EndSave
    <2> QED
      BY <1>2, <2>1, StatusStep
  <1>4. CASE \E c \in Canvases : HandleSet(c)
    BY <1>2, <1>4, HandleSetStep
  <1>5. CASE \E c \in Canvases : Push(c)
    BY <1>2, <1>5, PushStep
  <1>6. CASE Write \/ WriteFails
    <2>1. UNCHANGED <<delivery, inbox, staging, game, sent, told, links, mode, status>>
      BY <1>6 DEF Write, WriteFails
    <2> QED
      BY <1>2, <2>1, StatusStep
  <1>7. CASE \E i \in Instances : Pull(i)
    BY <1>2, <1>7, PullStep
  <1>8. CASE \E i \in Instances : Running(i) \/ LinkDown(i) \/ LinkUp(i)
    <2>1. UNCHANGED <<delivery, inbox, staging, game, sent, told, links, mode>>
      BY <1>8 DEF Running, LinkDown, LinkUp
    <2>2. \E i : \E v \in BOOLEAN :
            \/ status' = [status EXCEPT ![i].running = v]
            \/ status' = [status EXCEPT ![i].heard = v]
      BY <1>8 DEF Running, LinkDown, LinkUp
    <2> QED
      BY <1>2, <2>1, <2>2, StatusStep
  <1>9. CASE \E i \in Instances : Prune(i)
    <2>1. UNCHANGED game
      BY <1>9 DEF Prune
    <2> QED
      BY <1>2, <1>9, <2>1, PruneStep
  <1>10. CASE \E i \in Instances : GameRestart(i)
    <2>1. PICK i \in Instances : GameRestart(i)
      BY <1>10
    <2>2. /\ DeliveryInv' /\ ~status'[i].running /\ status'[i].pull = "ask"
          /\ \A k \in Instances : k # i => game'[k] = game[k]
      BY <2>1, GameRestartStep
    <2> QED
      BY <1>1, <2>2
  <1>11. CASE \E s \in 1..Slots : Run(s) \/ LoseCommand(s) \/ LoseReply(s)
    BY <1>2, <1>11, RunStep
  <1>12. CASE ControllerRestart
    <2>1. UNCHANGED game
      BY <1>12 DEF ControllerRestart
    <2> QED
      BY <1>2, <1>12, <2>1, ServerRestartStep
  <1>13. CASE SwitchMode
    BY <1>2, <1>13, SwitchModeStep
  <1>14. CASE UNCHANGED vars
    BY <1>2, <1>14, StatusStep
  <1> QED
    BY <1>3, <1>4, <1>5, <1>6, <1>7, <1>8, <1>9, <1>10, <1>11, <1>12, <1>13, <1>14 DEF Next

-----------------------------------------------------------------------------
\* The newest configuration wins: once nothing is on its way to an instance, its game has
\* what the controller would send it now, if that was sent since it last changed and was
\* not answered with a failure.  It takes that the configuration of an instance is always
\* sent in the same way.
THEOREM NewestWinsAlways ==
  ASSUME OneSize
  PROVE  Spec => []NewestWins
  <1>1. Init => DeliveryInv
    BY DeliveryInit
  <1>2. DeliveryInv /\ [Next]_vars => DeliveryInv'
    BY DeliveryNext
  <1>3. DeliveryInv => NewestWins
    <2> SUFFICES ASSUME DeliveryInv, NEW i \in Instances, told[i],
                        \A s \in 1..Slots : delivery[s] = Free \/ delivery[s].at # i
                 PROVE  game[i].got = Resolved(i)
      BY DEF NewestWins
    <2>1. \A s \in 1..Slots : ~BusyAt(s, i)
      BY DEF BusyAt, Busy, Free
    <2> QED
      BY <2>1 DEF DeliveryInv, Latest
  <1> QED
    BY <1>1, <1>2, <1>3, PTL DEF Spec

\* A game goes back to an older configuration only when it starts, under the same premise.
THEOREM NeverRegresses ==
  ASSUME OneSize
  PROVE  Spec => ConfigNeverRegresses
  <1>1. Init => DeliveryInv
    BY DeliveryInit
  <1>2. DeliveryInv /\ [Next]_vars => DeliveryInv'
    BY DeliveryNext
  <1>3. DeliveryInv /\ [Next]_vars =>
          [\A i \in Instances :
             game'[i].no < game[i].no => ~status'[i].running /\ status'[i].pull = "ask"]_vars
    BY DeliveryNext
  <1> QED
    BY <1>1, <1>2, <1>3, PTL DEF Spec, ConfigNeverRegresses

-----------------------------------------------------------------------------
(* What the two loops of planBulkLink do to the edits. *)

LEMMA FirstCounterexample ==
  ASSUME NEW S \in SUBSET Nat, S # {}
  PROVE  \E x \in S : \A y \in S : x <= y
  <1>1. PICK x \in S : \A y \in S : ~ (<<y, x>> \in OpToRel(<, Nat))
    BY WFMin, NatLessThanWellFounded
  <1>2. \A y \in S : ~(y < x)
    BY <1>1 DEF OpToRel
  <1> QED
    BY <1>2

\* One round of the two loops.
Round(e, k, ids, gateway, m, connect) ==
  LET size == Len(ids)
      a == 1 + ((k - 1) \div size)
      b == 1 + ((k - 1) % size)
  IN  IF a < b THEN BulkStep(e, ids[a], ids[b], gateway, m, connect) ELSE e

Rounds(f, L, edits, ids, gateway, m, connect) ==
  f = [k \in 0..L |-> IF k = 0 THEN edits ELSE Round(f[k - 1], k, ids, gateway, m, connect)]

LEMMA RoundsExist ==
  ASSUME NEW L \in Nat, NEW edits, NEW ids, NEW gateway, NEW m, NEW connect
  PROVE  \E f : Rounds(f, L, edits, ids, gateway, m, connect)
  <1> DEFINE T == {n \in Nat : ~\E f : Rounds(f, n, edits, ids, gateway, m, connect)}
  <1> SUFFICES ASSUME T # {} PROVE FALSE
    OBVIOUS
  <1>1. PICK n \in T : \A x \in T : n <= x
    BY FirstCounterexample
  <1>2. CASE n = 0
    <2>1. Rounds([k \in 0..0 |-> edits], 0, edits, ids, gateway, m, connect)
      BY DEF Rounds
    <2> QED
      BY <1>1, <1>2, <2>1
  <1>3. CASE n # 0
    <2>1. n - 1 \in Nat /\ n - 1 \notin T
      BY <1>1, <1>3
    <2>2. PICK f : Rounds(f, n - 1, edits, ids, gateway, m, connect)
      BY <2>1
    <2> DEFINE g == [k \in 0..n |-> IF k = n THEN Round(f[n - 1], n, ids, gateway, m, connect)
                                    ELSE f[k]]
    <2>3. \A k \in 0..n : g[k] = IF k = 0 THEN edits
                                 ELSE Round(g[k - 1], k, ids, gateway, m, connect)
      BY <1>3, <2>1, <2>2 DEF Rounds
    <2>4. g = [k \in 0..n |-> g[k]]
      OBVIOUS
    <2> HIDE DEF g
    <2>5. Rounds(g, n, edits, ids, gateway, m, connect)
      BY <2>3, <2>4 DEF Rounds
    <2> QED
      BY <1>1, <2>5
  <1> QED
    BY <1>2, <1>3

LEMMA RoundKeeps ==
  ASSUME NEW S, NEW e \in S, NEW ids \in Seq(Instances), NEW gateway, NEW m, NEW connect,
         NEW k \in 1..Len(ids) * Len(ids),
         \A x \in S : \A i, j \in Instances :
           /\ ApplyConnect(x, <<i, gateway>>, <<j, gateway>>) \in S
           /\ ApplyDisconnect(x, <<i, gateway>>, <<j, gateway>>) \in S
  PROVE  Round(e, k, ids, gateway, m, connect) \in S
  <1>1. PICK size \in Nat : size = Len(ids) /\ \A n \in 1..size : ids[n] \in Instances
    OBVIOUS
  <1>2. size # 0 /\ k - 1 \in Nat
    BY <1>1
  <1>3. PICK a : a = 1 + ((k - 1) \div size)
    OBVIOUS
  <1>4. PICK b : b = 1 + ((k - 1) % size)
    OBVIOUS
  <1>5. b \in 1..size
    BY <1>1, <1>2, <1>4
  <1>6. a \in Nat /\ a >= 1
    BY <1>1, <1>2, <1>3
  <1>7. CASE a < b
    <2>1. ids[a] \in Instances /\ ids[b] \in Instances
      BY <1>1, <1>5, <1>6, <1>7
    <2>2. PICK i \in Instances, j \in Instances : i = ids[a] /\ j = ids[b]
      BY <2>1
    <2>3. BulkStep(e, i, j, gateway, m, connect) \in S
      BY DEF BulkStep
    <2>4. Round(e, k, ids, gateway, m, connect) = BulkStep(e, i, j, gateway, m, connect)
      BY <1>1, <1>3, <1>4, <1>7, <2>2 DEF Round
    <2> QED
      BY <2>3, <2>4
  <1>8. CASE ~(a < b)
    BY <1>1, <1>3, <1>4, <1>8 DEF Round
  <1> QED
    BY <1>7, <1>8

\* A set of edits that no edge leads out of.
LEMMA BulkKeeps ==
  ASSUME NEW S, NEW edits \in S, NEW ids \in Seq(Instances), NEW gateway, NEW m, NEW connect,
         \A x \in S : \A i, j \in Instances :
           /\ ApplyConnect(x, <<i, gateway>>, <<j, gateway>>) \in S
           /\ ApplyDisconnect(x, <<i, gateway>>, <<j, gateway>>) \in S
  PROVE  PlanBulkLink(edits, ids, gateway, m, connect) \in S
  <1>1. PICK L \in Nat : L = Len(ids) * Len(ids)
    OBVIOUS
  <1> DEFINE f == CHOOSE g : Rounds(g, L, edits, ids, gateway, m, connect)
  <1>2. Rounds(f, L, edits, ids, gateway, m, connect)
    BY RoundsExist
  <1>3. PlanBulkLink(edits, ids, gateway, m, connect) = f[L]
    BY <1>1 DEF PlanBulkLink, Rounds, Round
  <1> HIDE DEF f
  <1> DEFINE T == {n \in Nat : n <= L /\ f[n] \notin S}
  <1>4. ASSUME T # {} PROVE FALSE
    <2>1. PICK n \in T : \A x \in T : n <= x
      BY <1>4, FirstCounterexample
    <2>2. n # 0
      BY <1>2, <2>1 DEF Rounds
    <2>3. n - 1 \in Nat /\ n - 1 <= L /\ n - 1 \notin T /\ n \in 1..L /\ n \in 0..L
      BY <2>1, <2>2
    <2>4. PICK e \in S : e = f[n - 1]
      BY <2>3
    <2>5. f[n] = Round(e, n, ids, gateway, m, connect)
      BY <1>2, <2>2, <2>3, <2>4 DEF Rounds
    <2>6. Round(e, n, ids, gateway, m, connect) \in S
      BY <1>1, <2>3, RoundKeeps
    <2> QED
      BY <2>1, <2>5, <2>6
  <1> QED
    BY <1>3, <1>4

-----------------------------------------------------------------------------
(* Types.  An answer reaches a canvas only while it waits for it: a snapshot     *)
(* that waits for the file and a delivery each belong to one canvas, whose save *)
(* is at that point.  A slot of an inbox is a delivery that has not begun.      *)

CanvasType == [mode : Modes, edits : Edits, baseline : Edits, save : SaveType]
WriteType  == [links : Edits, by : Canvases \cup {"load"}]
FileType   == [links : Edits, legacy : SUBSET (Gateways \X Keys)]

Typed ==
  /\ mode \in Modes /\ canvas \in [Canvases -> CanvasType]
  /\ links \in Edits /\ disk \in FileType /\ writes \in Seq(WriteType)

Writing(c) == canvas[c].save.ph = "writing" /\ canvas[c].save.at \in Instances

OnDisk ==
  /\ \A n \in DOMAIN writes : writes[n].by \in Canvases => Writing(writes[n].by)
  /\ \A m, n \in DOMAIN writes : writes[m].by = writes[n].by => m = n

Served ==
  /\ \A c \in Canvases : canvas[c].save.ph = "pushing" => canvas[c].save.at \in Instances
  /\ \A s \in 1..Slots : \A c \in Canvases :
       Busy(s) /\ delivery[s].to = c => canvas[c].save.ph = "waiting"
  /\ \A s, t \in 1..Slots : \A c \in Canvases :
       Busy(s) /\ Busy(t) /\ delivery[s].to = c /\ delivery[t].to = c => s = t

GameType  == [no : Nat, got : Configs]
StageType == [token : Nat, got : 0..Chunks]

NetTyped ==
  /\ delivery = [s \in 1..Slots |-> delivery[s]]
  /\ \A s \in 1..Slots : delivery[s] = Free \/ delivery[s] \in DeliveryType
  /\ inbox \in [Instances -> Seq(1..Slots)]
  /\ staging \in [Instances -> StageType] /\ game \in [Instances -> GameType]
  /\ sent \in [Instances -> Nat]

Queued ==
  \A i \in Instances :
    /\ \A n \in DOMAIN inbox[i] : WaitsAt(inbox[i][n], i)
    /\ \A m, n \in DOMAIN inbox[i] : inbox[i][m] = inbox[i][n] => m = n

\* What a game has staged is of the chunks before the next one.
Staged ==
  \A i \in Instances :
    /\ staging[i].token <= sent[i]
    /\ \A s \in 1..Slots : BusyAt(s, i) =>
         /\ delivery[s].no \in 1..sent[i]
         /\ delivery[s].ph = "begin" => delivery[s].next = 1
         /\ delivery[s].ph = "chunk" =>
              /\ delivery[s].next <= Chunks
              /\ delivery[s].no = staging[i].token => staging[i].got < delivery[s].next
    /\ \A s, t \in 1..Slots :
         BusyAt(s, i) /\ BusyAt(t, i) /\ delivery[s].no = delivery[t].no => s = t

TypeInv == Typed /\ OnDisk /\ Served /\ NetTyped /\ Queued /\ Staged

-----------------------------------------------------------------------------
(* What edits the canvases, and what the controller holds. *)

LEMMA CanvasAt ==
  ASSUME Typed, NEW c \in Canvases
  PROVE  /\ canvas[c] \in CanvasType /\ canvas[c].save \in SaveType
         /\ canvas[c].edits \in Edits /\ canvas[c].baseline \in Edits
         /\ canvas[c].save.snap \in Edits /\ canvas[c].save.todo \subseteq Instances
         /\ canvas[c].mode \in Modes /\ canvas[c].save.failed \in BOOLEAN
  <1>1. canvas[c] \in CanvasType
    BY DEF Typed
  <1>2. canvas[c].save \in SaveType
    BY <1>1 DEF CanvasType
  <1> QED
    BY <1>1, <1>2 DEF CanvasType, SaveType

LEMMA AnsweredType ==
  ASSUME NEW save \in SaveType, NEW ok \in BOOLEAN
  PROVE  Answered(save, ok) \in SaveType
  BY DEF Answered, SaveType

LEMMA SaveOfCanvas ==
  ASSUME NEW v \in CanvasType, NEW save \in SaveType
  PROVE  [v EXCEPT !.save = save] \in CanvasType
  BY DEF CanvasType

\* A step that changes no more than one canvas.
LEMMA OneCanvasTyped ==
  ASSUME Typed, NEW c \in Canvases, NEW v \in CanvasType,
         canvas' = [canvas EXCEPT ![c] = v], UNCHANGED <<mode, links, disk, writes>>
  PROVE  Typed'
  <1>1. canvas' \in [Canvases -> CanvasType]
    BY DEF Typed
  <1> QED
    BY <1>1 DEF Typed

\* A step that answers some of them.
LEMMA AnsweredTyped ==
  ASSUME Typed, NEW D, NEW ok \in BOOLEAN,
         canvas' = [c \in Canvases |->
           IF c \in D THEN [canvas[c] EXCEPT !.save = Answered(@, ok)] ELSE canvas[c]]
  PROVE  canvas' \in [Canvases -> CanvasType]
  <1>1. ASSUME NEW c \in Canvases
        PROVE  [canvas[c] EXCEPT !.save = Answered(@, ok)] \in CanvasType
    <2>1. PICK v \in CanvasType : v = canvas[c]
      BY CanvasAt
    <2>2. PICK save \in SaveType : save = Answered(v.save, ok)
      BY <2>1, CanvasAt, AnsweredType
    <2>3. [v EXCEPT !.save = save] \in CanvasType
      BY SaveOfCanvas
    <2> QED
      BY <2>1, <2>2, <2>3
  <1>2. \A c \in Canvases : canvas[c] \in CanvasType
    BY CanvasAt
  <1> QED
    BY <1>1, <1>2

LEMMA NameOfMode ==
  ASSUME NEW m, NEW g \in NamesFor(m)
  PROVE  g \in Gateways
  BY DEF NamesFor, Gateways

LEMMA ConnectType ==
  ASSUME NEW e \in Edits, NEW a \in Keys, NEW b \in Keys
  PROVE  ApplyConnect(e, a, b) \in Edits /\ ApplyDisconnect(e, a, b) \in Edits
  BY DEF ApplyConnect, ApplyDisconnect, BothWays, Edits

\* What a user does to a canvas between two saves.
LEMMA ClickTyped ==
  ASSUME Typed, NEW c \in Canvases, NEW e \in Edits, Click(c, e)
  PROVE  Typed'
  <1>1. PICK v \in CanvasType : v = canvas[c]
    BY CanvasAt
  <1>2. [v EXCEPT !.edits = e] \in CanvasType
    BY DEF CanvasType
  <1>3. canvas' = [canvas EXCEPT ![c] = [v EXCEPT !.edits = e]]
    BY <1>1 DEF Click
  <1>4. UNCHANGED <<mode, links, disk, writes>>
    BY DEF Click, server
  <1> QED
    BY <1>2, <1>3, <1>4, OneCanvasTyped

LEMMA EditTyped ==
  ASSUME Typed, NEW c \in Canvases, Connect(c) \/ EdgeClick(c) \/ BulkLink(c)
  PROVE  Typed'
  <1>0. canvas[c].edits \in Edits
    BY CanvasAt
  <1>1. CASE Connect(c)
    <2>1. PICK a, b \in Instances \X NamesFor(canvas[c].mode) :
            Click(c, ApplyConnect(canvas[c].edits, a, b))
      BY <1>1 DEF Connect
    <2>2. a \in Keys /\ b \in Keys
      BY NameOfMode DEF Keys
    <2>3. ApplyConnect(canvas[c].edits, a, b) \in Edits
      BY <1>0, <2>2, ConnectType
    <2> QED
      BY <2>1, <2>3, ClickTyped
  <1>2. CASE EdgeClick(c)
    <2>1. PICK a \in Keys, b \in Keys : Click(c, ApplyDisconnect(canvas[c].edits, a, b))
      BY <1>2 DEF EdgeClick
    <2>2. ApplyDisconnect(canvas[c].edits, a, b) \in Edits
      BY <1>0, ConnectType
    <2> QED
      BY <2>1, <2>2, ClickTyped
  <1>3. CASE BulkLink(c)
    <2>1. PICK ids \in Selections, g \in NamesFor(canvas[c].mode), connect \in BOOLEAN :
            Click(c, PlanBulkLink(canvas[c].edits, ids, g, canvas[c].mode, connect))
      BY <1>3 DEF BulkLink
    <2>2. PICK m : m = canvas[c].mode
      OBVIOUS
    <2>3. ids \in Seq(Instances) /\ g \in Gateways
      BY NameOfMode, GatewayConfigAssumption
    <2>4. \A x \in Edits : \A i, j \in Instances :
            /\ ApplyConnect(x, <<i, g>>, <<j, g>>) \in Edits
            /\ ApplyDisconnect(x, <<i, g>>, <<j, g>>) \in Edits
      BY <2>3, ConnectType DEF Keys
    <2>5. PICK e \in Edits : e = PlanBulkLink(canvas[c].edits, ids, g, m, connect)
      <3>1. PICK S : S = Edits
        OBVIOUS
      <3>2. PlanBulkLink(canvas[c].edits, ids, g, m, connect) \in S
        BY <1>0, <2>3, <2>4, <3>1, BulkKeeps
      <3> QED
        BY <3>1, <3>2
    <2>6. Click(c, e)
      BY <2>1, <2>2, <2>5
    <2> QED
      BY <2>6, ClickTyped
  <1> QED
    BY <1>1, <1>2, <1>3

LEMMA LinksShown ==
  ASSUME NEW L \in Edits, NEW names
  PROVE  EditsFromLinks(L, names) \in Edits
  BY DEF EditsFromLinks, Edits

LEMMA IdleType == Idle \in SaveType
  BY DEF Idle, SaveType, Edits

LEMMA CanvasTyped ==
  ASSUME Typed, NEW c \in Canvases, Load(c) \/ Revert(c) \/ BeginSave(c) \/ EndSave(c)
  PROVE  Typed'
  <1>0. PICK v \in CanvasType : /\ v = canvas[c] /\ v.save \in SaveType /\ v.edits \in Edits
                                /\ v.baseline \in Edits /\ v.save.snap \in Edits
    BY CanvasAt
  <1>1. CASE Load(c)
    <2>1. PICK loaded \in Edits : loaded = EditsFromLinks(links, NamesFor(mode))
      BY LinksShown DEF Typed
    <2>2. [mode |-> mode, edits |-> loaded, baseline |-> loaded, save |-> Idle] \in CanvasType
      BY IdleType DEF CanvasType, Typed
    <2>3. /\ canvas' = [canvas EXCEPT ![c] =
               [mode |-> mode, edits |-> loaded, baseline |-> loaded, save |-> Idle]]
          /\ UNCHANGED <<mode, links, disk, writes>>
      BY <1>1, <2>1 DEF Load, server
    <2> QED
      BY <2>2, <2>3, OneCanvasTyped
  <1>2. CASE Revert(c)
    <2>1. [v EXCEPT !.edits = v.baseline] \in CanvasType
      BY <1>0 DEF CanvasType
    <2>2. /\ canvas' = [canvas EXCEPT ![c] = [v EXCEPT !.edits = v.baseline]]
          /\ UNCHANGED <<mode, links, disk, writes>>
      BY <1>0, <1>2 DEF Revert, server
    <2> QED
      BY <2>1, <2>2, OneCanvasTyped
  <1>3. CASE BeginSave(c)
    <2>1. PICK todo : todo = {k[1] : k \in DirtyKeys(v.edits, v.baseline)}
      OBVIOUS
    <2>2. todo \in SUBSET Instances
      BY <1>0, <2>1 DEF DirtyKeys, Edits, Keys
    <2>3. PICK save \in SaveType :
            save = [Idle EXCEPT !.ph = "saving", !.todo = todo, !.snap = v.edits]
      BY <1>0, <2>2, IdleType DEF SaveType
    <2>4. /\ canvas' = [canvas EXCEPT ![c] = [v EXCEPT !.save = save]]
          /\ UNCHANGED <<mode, links, disk, writes>>
      BY <1>0, <1>3, <2>1, <2>3 DEF BeginSave, server
    <2>5. [v EXCEPT !.save = save] \in CanvasType
      BY SaveOfCanvas
    <2> QED
      BY <2>4, <2>5, OneCanvasTyped
  <1>4. CASE EndSave(c)
    <2>1. PICK base \in Edits : base = IF v.save.failed THEN v.baseline ELSE v.save.snap
      BY <1>0
    <2>2. /\ canvas' = [canvas EXCEPT ![c] = [v EXCEPT !.save = Idle, !.baseline = base]]
          /\ UNCHANGED <<mode, links, disk, writes>>
      BY <1>0, <1>4, <2>1 DEF EndSave, server, Typed
    <2>3. [v EXCEPT !.save = Idle, !.baseline = base] \in CanvasType
      BY IdleType DEF CanvasType
    <2> QED
      BY <2>2, <2>3, OneCanvasTyped
  <1> QED
    BY <1>1, <1>2, <1>3, <1>4

LEMMA SetTyped ==
  ASSUME Typed, NEW c \in Canvases, HandleSet(c)
  PROVE  Typed'
  <1>0. PICK v \in CanvasType : /\ v = canvas[c] /\ v.save \in SaveType
                                /\ v.save.todo \subseteq Instances
    BY CanvasAt
  <1>1. PICK i \in v.save.todo :
          \/ /\ canvas' = [canvas EXCEPT ![c] =
                  [v EXCEPT !.save = [v.save EXCEPT !.todo = @ \ {i}, !.failed = TRUE]]]
             /\ UNCHANGED server
          \/ /\ links' = Proposed(c, i)
             /\ writes' = Append(writes, [links |-> links', by |-> c])
             /\ canvas' = [canvas EXCEPT ![c] =
                  [v EXCEPT !.save = [v.save EXCEPT !.ph = "writing", !.todo = @ \ {i}, !.at = i]]]
             /\ UNCHANGED disk
    <2>1. PICK i \in canvas[c].save.todo :
            IF Refused(c, i)
            THEN /\ canvas' = [canvas EXCEPT ![c].save.todo = @ \ {i}, ![c].save.failed = TRUE]
                 /\ UNCHANGED <<server, told>>
            ELSE /\ links' = Proposed(c, i)
                 /\ writes' = Append(writes, [links |-> links', by |-> c])
                 /\ canvas' = [canvas EXCEPT ![c].save.ph = "writing",
                                             ![c].save.todo = @ \ {i}, ![c].save.at = i]
                 /\ told' = [told EXCEPT ![i] = FALSE]
                 /\ UNCHANGED disk
      BY DEF HandleSet
    <2>2. canvas = [d \in Canvases |-> canvas[d]]
      BY DEF Typed
    <2>3. CASE Refused(c, i)
      <3>1. canvas' = [canvas EXCEPT ![c].save.todo = @ \ {i}, ![c].save.failed = TRUE]
        BY <2>1, <2>3
      <3>2. canvas' = [canvas EXCEPT ![c] =
              [v EXCEPT !.save = [v.save EXCEPT !.todo = @ \ {i}, !.failed = TRUE]]]
        BY <1>0, <2>2, <3>1 DEF CanvasType, SaveType
      <3> QED
        BY <1>0, <2>1, <2>3, <3>2
    <2>4. CASE ~Refused(c, i)
      <3>1. canvas' = [canvas EXCEPT ![c].save.ph = "writing",
                                     ![c].save.todo = @ \ {i}, ![c].save.at = i]
        BY <2>1, <2>4
      <3>2. canvas' = [canvas EXCEPT ![c] =
              [v EXCEPT !.save = [v.save EXCEPT !.ph = "writing", !.todo = @ \ {i}, !.at = i]]]
        BY <1>0, <2>2, <3>1 DEF CanvasType, SaveType
      <3> QED
        BY <1>0, <2>1, <2>4, <3>2
    <2> QED
      BY <2>3, <2>4
  <1>2. UNCHANGED mode
    BY DEF HandleSet
  <1>3. CASE /\ canvas' = [canvas EXCEPT ![c] =
                  [v EXCEPT !.save = [v.save EXCEPT !.todo = @ \ {i}, !.failed = TRUE]]]
             /\ UNCHANGED server
    <2>1. [v.save EXCEPT !.todo = @ \ {i}, !.failed = TRUE] \in SaveType
      BY <1>0 DEF SaveType
    <2>2. [v EXCEPT !.save = [v.save EXCEPT !.todo = @ \ {i}, !.failed = TRUE]] \in CanvasType
      BY <2>1, SaveOfCanvas
    <2> QED
      BY <1>2, <1>3, <2>2, OneCanvasTyped DEF server
  <1>4. CASE /\ links' = Proposed(c, i)
             /\ writes' = Append(writes, [links |-> links', by |-> c])
             /\ canvas' = [canvas EXCEPT ![c] =
                  [v EXCEPT !.save = [v.save EXCEPT !.ph = "writing", !.todo = @ \ {i}, !.at = i]]]
             /\ UNCHANGED disk
    <2>1. [v.save EXCEPT !.ph = "writing", !.todo = @ \ {i}, !.at = i] \in SaveType
      BY <1>0 DEF SaveType
    <2>2. [v EXCEPT !.save = [v.save EXCEPT !.ph = "writing", !.todo = @ \ {i}, !.at = i]]
            \in CanvasType
      BY <2>1, SaveOfCanvas
    <2>3. canvas' \in [Canvases -> CanvasType]
      BY <1>4, <2>2 DEF Typed
    <2>4. links' \in Edits
      BY <1>4, ProposedType DEF Typed
    <2>5. [links |-> links', by |-> c] \in WriteType
      BY <2>4 DEF WriteType
    <2>6. writes' \in Seq(WriteType)
      BY <1>4, <2>5 DEF Typed
    <2> QED
      BY <1>2, <1>4, <2>3, <2>4, <2>6 DEF Typed
  <1> QED
    BY <1>1, <1>3, <1>4

LEMMA WriteTyped ==
  ASSUME Typed, Write \/ WriteFails
  PROVE  Typed'
  <1>1. writes # <<>> /\ writes \in Seq(WriteType) /\ writes' = Tail(writes)
    BY DEF Write, WriteFails, Typed
  <1>2. writes' \in Seq(WriteType) /\ Head(writes) \in WriteType
    BY <1>1
  <1>3. UNCHANGED <<mode, links>>
    BY DEF Write, WriteFails
  <1>4. PICK D : D = {c \in Canvases : Head(writes).by = c}
    OBVIOUS
  <1>5. CASE Write
    <2>1. disk' \in FileType
      BY <1>2, <1>5 DEF Write, File, FileType, WriteType
    <2>2. canvas' = [c \in Canvases |->
            IF c \in D THEN [canvas[c] EXCEPT !.save = [canvas[c].save EXCEPT !.ph = "pushing"]]
            ELSE canvas[c]]
      BY <1>4, <1>5 DEF Write
    <2>3. ASSUME NEW c \in Canvases
          PROVE  [canvas[c] EXCEPT !.save = [canvas[c].save EXCEPT !.ph = "pushing"]] \in CanvasType
      <3>1. PICK v \in CanvasType : v = canvas[c] /\ v.save \in SaveType
        BY CanvasAt
      <3>2. [v.save EXCEPT !.ph = "pushing"] \in SaveType
        BY <3>1 DEF SaveType
      <3> QED
        BY <3>1, <3>2, SaveOfCanvas
    <2>4. canvas' \in [Canvases -> CanvasType]
      BY <2>2, <2>3, CanvasAt
    <2> QED
      BY <1>2, <1>3, <2>1, <2>4 DEF Typed
  <1>6. CASE WriteFails
    <2>1. canvas' = [c \in Canvases |->
            IF c \in D THEN [canvas[c] EXCEPT !.save = Answered(@, FALSE)] ELSE canvas[c]]
      BY <1>4, <1>6 DEF WriteFails
    <2>2. canvas' \in [Canvases -> CanvasType]
      BY <2>1, AnsweredTyped
    <2> QED
      BY <1>2, <1>3, <1>6, <2>2 DEF Typed, WriteFails
  <1> QED
    BY <1>5, <1>6

LEMMA RestartTyped ==
  ASSUME Typed, ControllerRestart
  PROVE  Typed'
  <1>1. /\ links' = Loaded(disk) /\ writes' = Migration(disk) /\ UNCHANGED <<mode, disk>>
        /\ canvas' = [c \in Canvases |->
             IF canvas[c].save.ph \in {"writing", "pushing", "waiting"}
             THEN [canvas[c] EXCEPT !.save = Answered(@, FALSE)] ELSE canvas[c]]
    BY DEF ControllerRestart
  <1>2. links' \in Edits
    BY <1>1, LoadedType DEF Typed, FileType
  <1>3. [links |-> Loaded(disk), by |-> "load"] \in WriteType
    BY <1>1, <1>2 DEF WriteType
  <1>4. writes' \in Seq(WriteType)
    BY <1>1, <1>3 DEF Migration
  <1>5. PICK D : D = {c \in Canvases : canvas[c].save.ph \in {"writing", "pushing", "waiting"}}
    OBVIOUS
  <1>6. canvas' = [c \in Canvases |->
          IF c \in D THEN [canvas[c] EXCEPT !.save = Answered(@, FALSE)] ELSE canvas[c]]
    BY <1>1, <1>5
  <1>7. canvas' \in [Canvases -> CanvasType]
    BY <1>6, AnsweredTyped
  <1> QED
    BY <1>1, <1>2, <1>4, <1>7 DEF Typed

LEMMA PushTyped ==
  ASSUME Typed, NEW c \in Canvases, Push(c)
  PROVE  Typed'
  <1>0. PICK v \in CanvasType : v = canvas[c] /\ v.save \in SaveType
    BY CanvasAt
  <1>1. UNCHANGED <<mode, links, disk, writes>>
    BY DEF Push, server
  <1>2. PICK save \in SaveType : canvas' = [canvas EXCEPT ![c] = [v EXCEPT !.save = save]]
    <2>1. CASE IsOnline(v.save.at)
      <3>1. [v.save EXCEPT !.ph = "waiting"] \in SaveType
        BY <1>0 DEF SaveType
      <3>2. canvas' = [canvas EXCEPT ![c] = [v EXCEPT !.save = [v.save EXCEPT !.ph = "waiting"]]]
        BY <1>0, <2>1 DEF Push, Typed, CanvasType
      <3> QED
        BY <3>1, <3>2
    <2>2. CASE ~IsOnline(v.save.at)
      <3>1. Answered(v.save, TRUE) \in SaveType
        BY <1>0, AnsweredType
      <3>2. canvas' = [canvas EXCEPT ![c] = [v EXCEPT !.save = Answered(v.save, TRUE)]]
        BY <1>0, <2>2 DEF Push, Typed, CanvasType
      <3> QED
        BY <3>1, <3>2
    <2> QED
      BY <2>1, <2>2
  <1> QED
    BY <1>1, <1>2, SaveOfCanvas, OneCanvasTyped

\* The end of a delivery, and a restart of the game, answer those who wait.
LEMMA EndTyped ==
  ASSUME Typed, NEW s, NEW ok, End(s, ok), UNCHANGED <<mode, links, disk, writes>>
  PROVE  Typed'
  <1>1. PICK D : D = {c \in Canvases : delivery[s].to = c}
    OBVIOUS
  <1>2. canvas' = [c \in Canvases |->
          IF c \in D THEN [canvas[c] EXCEPT !.save = Answered(@, TRUE)] ELSE canvas[c]]
    BY <1>1 DEF End
  <1>3. canvas' \in [Canvases -> CanvasType]
    BY <1>2, AnsweredTyped
  <1> QED
    BY <1>3 DEF Typed

LEMMA GameTyped ==
  ASSUME Typed, NEW i, GameRestart(i)
  PROVE  Typed'
  <1>1. PICK slots : slots = {s \in 1..Slots : delivery[s] # Free /\ delivery[s].at = i}
    OBVIOUS
  <1>2. PICK D : D = {c \in Canvases : \E s \in slots : delivery[s].to = c}
    OBVIOUS
  <1>3. canvas' = [c \in Canvases |->
          IF c \in D THEN [canvas[c] EXCEPT !.save = Answered(@, TRUE)] ELSE canvas[c]]
    BY <1>1, <1>2 DEF GameRestart
  <1>4. canvas' \in [Canvases -> CanvasType]
    BY <1>3, AnsweredTyped
  <1>5. UNCHANGED <<mode, links, disk, writes>>
    BY DEF GameRestart, server
  <1> QED
    BY <1>4, <1>5 DEF Typed

LEMMA TypedNext ==
  ASSUME Typed, Next
  PROVE  Typed'
  <1>1. ASSUME NEW c \in Canvases,
               \/ Load(c) \/ BulkLink(c) \/ Connect(c) \/ EdgeClick(c) \/ Revert(c)
               \/ BeginSave(c) \/ HandleSet(c) \/ Push(c) \/ EndSave(c)
        PROVE  Typed'
    BY <1>1, EditTyped, CanvasTyped, SetTyped, PushTyped
  <1>2. ASSUME UNCHANGED <<mode, canvas, links, disk, writes>> PROVE Typed'
    BY <1>2 DEF Typed
  <1>3. ASSUME NEW i \in Instances, \/ Pull(i) \/ Running(i) \/ Prune(i)
                                     \/ LinkDown(i) \/ LinkUp(i)
        PROVE  Typed'
    BY <1>2, <1>3 DEF Pull, Running, Prune, LinkDown, LinkUp, server
  <1>4. ASSUME NEW i \in Instances, GameRestart(i) PROVE Typed'
    BY <1>4, GameTyped
  <1>5. ASSUME NEW s \in 1..Slots, Run(s) \/ LoseCommand(s) \/ LoseReply(s) PROVE Typed'
    <2>1. UNCHANGED <<mode, links, disk, writes>>
      BY <1>5 DEF Run, LoseCommand, LoseReply, server
    <2>2. Advance(s) \/ \E ok : End(s, ok)
      BY <1>5 DEF Run, LoseCommand, LoseReply
    <2>3. CASE Advance(s)
      BY <1>2, <2>1, <2>3 DEF Advance
    <2> QED
      BY <2>1, <2>2, <2>3, EndTyped
  <1>6. ASSUME SwitchMode PROVE Typed'
    <2>1. mode' \in Modes /\ UNCHANGED <<canvas, links, disk, writes>>
      BY <1>6 DEF SwitchMode, server
    <2> QED
      BY <2>1 DEF Typed
  <1> QED
    BY <1>1, <1>3, <1>4, <1>5, <1>6, WriteTyped, RestartTyped DEF Next

LEMMA TypedInit == Init => Typed
  <1> SUFFICES ASSUME Init PROVE Typed
    OBVIOUS
  <1>1. /\ mode \in Modes /\ disk = [links |-> {}, legacy |-> Found]
        /\ links = Loaded(disk) /\ writes = Migration(disk)
        /\ canvas = [c \in Canvases |->
             [mode |-> mode, edits |-> {}, baseline |-> {}, save |-> Idle]]
    BY DEF Init
  <1>2. disk \in FileType
    BY <1>1, GatewayConfigAssumption DEF FileType, Edits
  <1>3. links \in Edits
    BY <1>1, <1>2, LoadedType DEF FileType
  <1>4. writes \in Seq(WriteType)
    <2>1. [links |-> Loaded(disk), by |-> "load"] \in WriteType
      BY <1>1, <1>3 DEF WriteType
    <2> QED
      BY <1>1, <2>1 DEF Migration
  <1>5. canvas \in [Canvases -> CanvasType]
    BY <1>1, IdleType DEF CanvasType, Edits
  <1> QED
    BY <1>1, <1>2, <1>3, <1>4, <1>5 DEF Typed

-----------------------------------------------------------------------------
(* How far each save is. *)

SameStage(c) ==
  canvas'[c].save.ph = canvas[c].save.ph /\ canvas'[c].save.at = canvas[c].save.at
AtRest(ph) == ph \in {"idle", "saving"}

LEMMA OnDiskKept ==
  ASSUME OnDisk, UNCHANGED writes, \A c \in Canvases : Writing(c) => Writing(c)'
  PROVE  OnDisk'
  BY DEF OnDisk

LEMMA ServedKept ==
  ASSUME Served,
         \A c \in Canvases : canvas'[c].save.ph = "pushing" => canvas'[c].save.at \in Instances,
         \A s \in 1..Slots : Busy(s)' =>
           Busy(s) /\ (delivery'[s].to = delivery[s].to \/ delivery'[s].to \notin Canvases),
         \A s \in 1..Slots : \A c \in Canvases :
           Busy(s)' /\ delivery'[s].to = c => canvas'[c].save.ph = "waiting"
  PROVE  Served'
  <1>1. \A s, t \in 1..Slots : \A c \in Canvases :
          Busy(s)' /\ Busy(t)' /\ delivery'[s].to = c /\ delivery'[t].to = c => s = t
    BY DEF Served
  <1> QED
    BY <1>1 DEF Served

LEMMA QuietSaves ==
  ASSUME OnDisk, Served, UNCHANGED <<writes, delivery>>,
         \A c \in Canvases :
           SameStage(c) \/ (AtRest(canvas[c].save.ph) /\ AtRest(canvas'[c].save.ph))
  PROVE  OnDisk' /\ Served'
  <1>1. \A c \in Canvases : Writing(c) => Writing(c)'
    BY DEF Writing, SameStage, AtRest
  <1>2. \A s : Busy(s)' = Busy(s)
    BY DEF Busy
  <1>3. \A c \in Canvases : canvas'[c].save.ph = "pushing" => canvas'[c].save.at \in Instances
    BY DEF Served, SameStage, AtRest
  <1>4. \A s \in 1..Slots : \A c \in Canvases :
          Busy(s)' /\ delivery'[s].to = c => canvas'[c].save.ph = "waiting"
    BY <1>2 DEF Served, SameStage, AtRest
  <1> QED
    BY <1>1, <1>2, <1>3, <1>4, OnDiskKept, ServedKept

LEMMA OneQuietCanvas ==
  ASSUME OnDisk, Served, UNCHANGED <<writes, delivery>>, Typed, NEW c \in Canvases, NEW v,
         canvas' = [canvas EXCEPT ![c] = v],
         \/ v.save.ph = canvas[c].save.ph /\ v.save.at = canvas[c].save.at
         \/ AtRest(canvas[c].save.ph) /\ AtRest(v.save.ph)
  PROVE  OnDisk' /\ Served'
  <1>1. canvas'[c] = v /\ \A d \in Canvases : d # c => canvas'[d] = canvas[d]
    BY DEF Typed
  <1>2. \A d \in Canvases :
          SameStage(d) \/ (AtRest(canvas[d].save.ph) /\ AtRest(canvas'[d].save.ph))
    BY <1>1 DEF SameStage
  <1> QED
    BY <1>2, QuietSaves

LEMMA ClickSaves ==
  ASSUME OnDisk, Served, Typed, NEW c \in Canvases,
         \/ Load(c) \/ BulkLink(c) \/ Connect(c) \/ EdgeClick(c) \/ Revert(c)
         \/ BeginSave(c) \/ EndSave(c)
  PROVE  OnDisk' /\ Served'
  <1>0. PICK v \in CanvasType : v = canvas[c] /\ v.save \in SaveType
    BY CanvasAt
  <1>1. UNCHANGED <<writes, delivery>>
    BY DEF Load, BulkLink, Connect, EdgeClick, Revert, Click, BeginSave, EndSave, server, net
  <1>2. ASSUME NEW e, Click(c, e) \/ (Revert(c) /\ e = canvas[c].baseline)
        PROVE  OnDisk' /\ Served'
    <2>1. canvas' = [canvas EXCEPT ![c] = [v EXCEPT !.edits = e]]
      BY <1>0, <1>2 DEF Click, Revert
    <2>2. [v EXCEPT !.edits = e].save = canvas[c].save
      BY <1>0 DEF CanvasType
    <2> QED
      BY <1>1, <2>1, <2>2, OneQuietCanvas
  <1>3. CASE Load(c)
    <2>1. PICK loaded : loaded = EditsFromLinks(links, NamesFor(mode))
      OBVIOUS
    <2> DEFINE w == [mode |-> mode, edits |-> loaded, baseline |-> loaded, save |-> Idle]
    <2>3. w.save = Idle
      OBVIOUS
    <2>4. canvas' = [canvas EXCEPT ![c] = w]
      BY <1>3, <2>1 DEF Load
    <2> HIDE DEF w
    <2>2. AtRest(canvas[c].save.ph) /\ AtRest(w.save.ph)
      BY <1>3, <2>3 DEF Load, AtRest, Idle
    <2> QED
      BY <1>1, <2>2, <2>4, OneQuietCanvas
  <1>4. CASE BeginSave(c)
    <2>1. PICK todo : todo = {k[1] : k \in DirtyKeys(canvas[c].edits, canvas[c].baseline)}
      OBVIOUS
    <2>2. PICK save : save = [Idle EXCEPT !.ph = "saving", !.todo = todo, !.snap = canvas[c].edits]
      OBVIOUS
    <2>3. canvas' = [canvas EXCEPT ![c] = [v EXCEPT !.save = save]]
      BY <1>0, <1>4, <2>1, <2>2 DEF BeginSave
    <2>4. AtRest(canvas[c].save.ph) /\ AtRest([v EXCEPT !.save = save].save.ph)
      BY <1>0, <1>4, <2>2 DEF BeginSave, Saving, AtRest, Idle, CanvasType
    <2> QED
      BY <1>1, <2>3, <2>4, OneQuietCanvas
  <1>5. CASE EndSave(c)
    <2>1. PICK base : base = IF v.save.failed THEN v.baseline ELSE v.save.snap
      OBVIOUS
    <2>2. canvas' = [canvas EXCEPT ![c] = [v EXCEPT !.save = Idle, !.baseline = base]]
      BY <1>0, <1>5, <2>1 DEF EndSave, Typed
    <2>3. AtRest(canvas[c].save.ph) /\ AtRest([v EXCEPT !.save = Idle, !.baseline = base].save.ph)
      BY <1>0, <1>5 DEF EndSave, AtRest, Idle, CanvasType
    <2> QED
      BY <1>1, <2>2, <2>3, OneQuietCanvas
  <1> QED
    BY <1>2, <1>3, <1>4, <1>5 DEF BulkLink, Connect, EdgeClick

\* What a request leaves in the queue of the file.
LEMMA SetSaves ==
  ASSUME OnDisk, Served, Typed, NEW c \in Canvases, HandleSet(c)
  PROVE  OnDisk' /\ Served'
  <1>0. PICK v \in CanvasType : /\ v = canvas[c] /\ v.save \in SaveType
                                /\ v.save.todo \subseteq Instances
    BY CanvasAt
  <1>1. PICK i \in v.save.todo :
          IF Refused(c, i)
          THEN /\ canvas' = [canvas EXCEPT ![c].save.todo = @ \ {i}, ![c].save.failed = TRUE]
               /\ UNCHANGED <<server, told>>
          ELSE /\ links' = Proposed(c, i)
               /\ writes' = Append(writes, [links |-> links', by |-> c])
               /\ canvas' = [canvas EXCEPT ![c].save.ph = "writing",
                                           ![c].save.todo = @ \ {i}, ![c].save.at = i]
               /\ told' = [told EXCEPT ![i] = FALSE]
               /\ UNCHANGED disk
    BY <1>0 DEF HandleSet
  <1>2. canvas[c].save.ph = "saving" /\ UNCHANGED delivery
    BY DEF HandleSet, net
  <1>3. canvas = [d \in Canvases |-> canvas[d]]
    BY DEF Typed
  <1>4. CASE Refused(c, i)
    <2>1. canvas' = [canvas EXCEPT ![c].save.todo = @ \ {i}, ![c].save.failed = TRUE]
          /\ UNCHANGED writes
      BY <1>1, <1>4 DEF server
    <2>2. canvas' = [canvas EXCEPT ![c] =
            [v EXCEPT !.save = [v.save EXCEPT !.todo = @ \ {i}, !.failed = TRUE]]]
      BY <1>0, <1>3, <2>1 DEF CanvasType, SaveType
    <2>3. /\ [v EXCEPT !.save = [v.save EXCEPT !.todo = @ \ {i}, !.failed = TRUE]].save.ph
               = canvas[c].save.ph
          /\ [v EXCEPT !.save = [v.save EXCEPT !.todo = @ \ {i}, !.failed = TRUE]].save.at
               = canvas[c].save.at
      BY <1>0 DEF CanvasType, SaveType
    <2> QED
      BY <1>2, <2>1, <2>2, <2>3, OneQuietCanvas
  <1>5. CASE ~Refused(c, i)
    <2>1. /\ canvas' = [canvas EXCEPT ![c].save.ph = "writing",
                                      ![c].save.todo = @ \ {i}, ![c].save.at = i]
          /\ writes' = Append(writes, [links |-> links', by |-> c])
      BY <1>1, <1>5
    <2>2. /\ canvas'[c].save.ph = "writing" /\ canvas'[c].save.at = i
          /\ \A d \in Canvases : d # c => canvas'[d] = canvas[d]
      BY <1>0, <1>3, <2>1 DEF CanvasType, SaveType
    <2>0. PICK q \in Seq(WriteType) : q = writes
      BY DEF Typed
    <2>3. PICK e, r : e = [links |-> links', by |-> c] /\ r = writes' /\ r = Append(q, e)
      BY <2>1, <2>0
    <2>4. e.by = c
      BY <2>3
    <2>5. /\ Len(q) \in Nat /\ DOMAIN r = 1..(Len(q) + 1) /\ DOMAIN q = 1..Len(q)
          /\ r[Len(q) + 1] = e /\ \A n \in DOMAIN q : r[n] = q[n]
      BY <2>3
    <2>6. /\ \A n \in DOMAIN q : q[n].by \in Canvases => Writing(q[n].by)
          /\ \A m, n \in DOMAIN q : q[m].by = q[n].by => m = n
      BY <2>0 DEF OnDisk
    <2>7. ~Writing(c) /\ Writing(c)' /\ \A d \in Canvases : d # c => (Writing(d)' <=> Writing(d))
      BY <1>0, <1>2, <2>2 DEF Writing
    <2>8. \A n \in DOMAIN q : q[n].by # c
      BY <2>6, <2>7
    <2>9. \A n \in DOMAIN r : r[n].by \in Canvases => Writing(r[n].by)'
      BY <2>4, <2>5, <2>6, <2>7
    <2>10. \A m, n \in DOMAIN r : r[m].by = r[n].by => m = n
      BY <2>4, <2>5, <2>6, <2>8
    <2>11. OnDisk'
      BY <2>3, <2>9, <2>10 DEF OnDisk
    <2>12. \A s : Busy(s)' = Busy(s)
      BY <1>2 DEF Busy
    <2>13. Served'
      BY <1>2, <2>2, <2>12 DEF Served
    <2> QED
      BY <2>11, <2>13
  <1> QED
    BY <1>4, <1>5

LEMMA Rest ==
  ASSUME NEW S, NEW q \in Seq(S), NEW r, q # <<>>, r = Tail(q),
         \A m, n \in DOMAIN q : q[m].by = q[n].by => m = n
  PROVE  /\ \A n \in DOMAIN r : \E m \in DOMAIN q : r[n] = q[m] /\ q[m].by # Head(q).by
         /\ \A m, n \in DOMAIN r : r[m].by = r[n].by => m = n
  <1>1. /\ Len(q) \in Nat /\ Len(q) >= 1 /\ 1 \in DOMAIN q /\ Head(q) = q[1]
        /\ DOMAIN r = 1..(Len(q) - 1) /\ DOMAIN q = 1..Len(q)
        /\ \A n \in DOMAIN r : r[n] = q[n + 1]
    BY TailFrom
  <1>2. ASSUME NEW n \in DOMAIN r PROVE r[n] = q[n + 1] /\ n + 1 \in DOMAIN q /\ n + 1 # 1 /\ n \in Nat
    BY <1>1
  <1>3. \A n \in DOMAIN r : \E m \in DOMAIN q : r[n] = q[m] /\ q[m].by # Head(q).by
    BY <1>1, <1>2
  <1>4. ASSUME NEW m \in DOMAIN r, NEW n \in DOMAIN r, r[m].by = r[n].by PROVE m = n
    <2>1. m + 1 = n + 1
      BY <1>2, <1>4
    <2> QED
      BY <1>2, <2>1
  <1> QED
    BY <1>3, <1>4

LEMMA AnsweredCanvas ==
  ASSUME Typed, NEW D, NEW ok \in BOOLEAN,
         canvas' = [c \in Canvases |->
           IF c \in D THEN [canvas[c] EXCEPT !.save = Answered(@, ok)] ELSE canvas[c]]
  PROVE  \A c \in Canvases :
           IF c \in D THEN canvas'[c].save.ph = "saving" /\ canvas'[c].save.at = "none"
           ELSE canvas'[c] = canvas[c]
  <1> SUFFICES ASSUME NEW c \in Canvases
               PROVE  IF c \in D THEN canvas'[c].save.ph = "saving" /\ canvas'[c].save.at = "none"
                      ELSE canvas'[c] = canvas[c]
    OBVIOUS
  <1>1. PICK v \in CanvasType : v = canvas[c] /\ v.save \in SaveType
    BY CanvasAt
  <1>2. CASE c \in D
    <2>1. canvas'[c] = [v EXCEPT !.save = Answered(v.save, ok)]
      BY <1>1, <1>2
    <2> QED
      BY <1>1, <1>2, <2>1 DEF CanvasType, SaveType, Answered
  <1> QED
    BY <1>2

LEMMA WriteSaves ==
  ASSUME OnDisk, Served, Typed, Write \/ WriteFails
  PROVE  OnDisk' /\ Served'
  <1>1. /\ writes # <<>> /\ writes \in Seq(WriteType) /\ writes' = Tail(writes)
        /\ UNCHANGED delivery
    BY DEF Write, WriteFails, Typed, net
  <1>2. PICK q \in Seq(WriteType) : q = writes
    BY <1>1
  <1>3. PICK r : r = writes' /\ r = Tail(q) /\ q # <<>>
    BY <1>1, <1>2
  <1>4. PICK h : h = Head(q).by
    OBVIOUS
  <1>5. /\ \A n \in DOMAIN q : q[n].by \in Canvases => Writing(q[n].by)
        /\ \A m, n \in DOMAIN q : q[m].by = q[n].by => m = n
    BY <1>2 DEF OnDisk
  <1>6. /\ \A n \in DOMAIN r : \E m \in DOMAIN q : r[n] = q[m] /\ q[m].by # h
        /\ \A m, n \in DOMAIN r : r[m].by = r[n].by => m = n
    <2>1. PICK S : S = WriteType
      OBVIOUS
    <2>2. q \in Seq(S)
      BY <2>1
    <2> QED
      BY <1>3, <1>4, <1>5, <2>2, Rest
  <1>7. h \in Canvases => Writing(h)
    BY <1>2, <1>3, <1>4, <1>5
  <1>8. ASSUME NEW c \in Canvases
        PROVE  IF c = h THEN canvas'[c].save.ph \in {"pushing", "saving"}
                             /\ canvas'[c].save.at \in Instances \cup {"none"}
                             /\ (canvas'[c].save.ph = "pushing" => canvas'[c].save.at \in Instances)
               ELSE canvas'[c] = canvas[c]
    <2>0. PICK v \in CanvasType : v = canvas[c] /\ v.save \in SaveType
      BY CanvasAt
    <2>1. CASE c # h
      BY <1>2, <1>4, <2>1 DEF Write, WriteFails
    <2>2. CASE c = h /\ Write
      <3>1. canvas'[c] = [v EXCEPT !.save.ph = "pushing"]
        BY <1>2, <1>4, <2>0, <2>2 DEF Write
      <3>2. canvas'[c].save.ph = "pushing" /\ canvas'[c].save.at = canvas[c].save.at
        BY <2>0, <3>1 DEF CanvasType, SaveType
      <3> QED
        BY <1>7, <2>2, <3>2 DEF Writing
    <2>3. CASE c = h /\ WriteFails
      <3>1. PICK D : D = {h}
        OBVIOUS
      <3>2. canvas' = [d \in Canvases |->
              IF d \in D THEN [canvas[d] EXCEPT !.save = Answered(@, FALSE)] ELSE canvas[d]]
        BY <1>2, <1>4, <2>3, <3>1 DEF WriteFails
      <3>3. canvas'[c].save.ph = "saving" /\ canvas'[c].save.at = "none"
        BY <2>3, <3>1, <3>2, AnsweredCanvas
      <3> QED
        BY <2>3, <3>3
    <2> QED
      BY <2>1, <2>2, <2>3
  <1>9. \A c \in Canvases : Writing(c) /\ c # h => Writing(c)'
    BY <1>8 DEF Writing
  <1>10. OnDisk'
    BY <1>3, <1>5, <1>6, <1>9 DEF OnDisk
  <1>11. \A s : Busy(s)' = Busy(s)
    BY <1>1 DEF Busy
  <1>12. \A c \in Canvases : canvas'[c].save.ph = "pushing" => canvas'[c].save.at \in Instances
    BY <1>8 DEF Served
  <1>13. \A s \in 1..Slots : \A c \in Canvases :
           Busy(s)' /\ delivery'[s].to = c => canvas'[c].save.ph = "waiting"
    <2> SUFFICES ASSUME NEW s \in 1..Slots, NEW c \in Canvases, Busy(s), delivery[s].to = c
                 PROVE  canvas'[c].save.ph = "waiting"
      BY <1>1, <1>11
    <2>1. canvas[c].save.ph = "waiting"
      BY DEF Served
    <2>2. c # h
      BY <1>7, <2>1 DEF Writing
    <2> QED
      BY <1>8, <2>1, <2>2
  <1> QED
    BY <1>1, <1>10, <1>11, <1>12, <1>13, ServedKept

\* Whoever waits for a delivery that ends is answered.
LEMMA AnsweredSaves ==
  ASSUME OnDisk, Served, Typed, NEW D, NEW ok \in BOOLEAN, UNCHANGED writes,
         canvas' = [c \in Canvases |->
           IF c \in D THEN [canvas[c] EXCEPT !.save = Answered(@, ok)] ELSE canvas[c]],
         \A c \in Canvases : c \in D => canvas[c].save.ph # "writing",
         \A s \in 1..Slots : Busy(s)' =>
           Busy(s) /\ (delivery'[s].to = delivery[s].to \/ delivery'[s].to \notin Canvases),
         \A s \in 1..Slots : Busy(s)' => delivery'[s].to \notin D
  PROVE  OnDisk' /\ Served'
  <1>1. \A c \in Canvases :
          IF c \in D THEN canvas'[c].save.ph = "saving" ELSE canvas'[c] = canvas[c]
    BY AnsweredCanvas
  <1>2. \A c \in Canvases : Writing(c) => Writing(c)'
    BY <1>1 DEF Writing
  <1>3. \A c \in Canvases : canvas'[c].save.ph = "pushing" => canvas'[c].save.at \in Instances
    BY <1>1 DEF Served
  <1>4. \A s \in 1..Slots : \A c \in Canvases :
          Busy(s)' /\ delivery'[s].to = c => canvas'[c].save.ph = "waiting"
    BY <1>1 DEF Served
  <1> QED
    BY <1>2, <1>3, <1>4, OnDiskKept, ServedKept

LEMMA EndSaves ==
  ASSUME OnDisk, Served, Typed, NEW s \in 1..Slots, Busy(s), NEW ok, End(s, ok), UNCHANGED writes,
         delivery = [t \in 1..Slots |-> delivery[t]]
  PROVE  OnDisk' /\ Served'
  <1>1. PICK D : D = {c \in Canvases : delivery[s].to = c}
    OBVIOUS
  <1>2. canvas' = [c \in Canvases |->
          IF c \in D THEN [canvas[c] EXCEPT !.save = Answered(@, TRUE)] ELSE canvas[c]]
    BY <1>1 DEF End
  <1>3. delivery'[s] = Free /\ \A t \in 1..Slots : t # s => delivery'[t] = delivery[t]
    BY DEF End
  <1>4. ~Busy(s)' /\ \A t \in 1..Slots : t # s => Busy(t)' = Busy(t)
    BY <1>3 DEF Busy, Free
  <1>5. \A c \in Canvases : c \in D => canvas[c].save.ph # "writing"
    BY <1>1 DEF Served
  <1>6. \A t \in 1..Slots : Busy(t)' => delivery'[t].to \notin D
    BY <1>1, <1>3, <1>4 DEF Served
  <1> QED
    BY <1>2, <1>3, <1>4, <1>5, <1>6, AnsweredSaves

LEMMA BusyIsDelivery ==
  ASSUME NetTyped, NEW s \in 1..Slots
  PROVE  /\ Busy(s) <=> delivery[s] # Free
         /\ Busy(s) => delivery[s] \in DeliveryType
         /\ ~Busy(s) => delivery[s] = Free
  BY DEF NetTyped, DeliveryType, Busy, Free

LEMMA GameSaves ==
  ASSUME OnDisk, Served, Typed, NetTyped, NEW i, GameRestart(i)
  PROVE  OnDisk' /\ Served'
  <1>1. PICK slots : slots = {s \in 1..Slots : delivery[s] # Free /\ delivery[s].at = i}
    OBVIOUS
  <1>2. PICK D : D = {c \in Canvases : \E s \in slots : delivery[s].to = c}
    OBVIOUS
  <1>3. canvas' = [c \in Canvases |->
          IF c \in D THEN [canvas[c] EXCEPT !.save = Answered(@, TRUE)] ELSE canvas[c]]
    BY <1>1, <1>2 DEF GameRestart
  <1>4. /\ UNCHANGED writes
        /\ delivery' = [s \in 1..Slots |-> IF s \in slots THEN Free ELSE delivery[s]]
    BY <1>1 DEF GameRestart, Lost, server
  <1>5. \A s \in 1..Slots :
          Busy(s)' => s \notin slots /\ Busy(s) /\ delivery'[s] = delivery[s]
    BY <1>4 DEF Busy, Free
  <1>6. \A c \in D : \E s \in 1..Slots : s \in slots /\ Busy(s) /\ delivery[s].to = c
    BY <1>1, <1>2, BusyIsDelivery
  <1>7. \A c \in Canvases : c \in D => canvas[c].save.ph # "writing"
    BY <1>6 DEF Served
  <1>8. \A s \in 1..Slots : Busy(s)' => delivery'[s].to \notin D
    BY <1>2, <1>5, <1>6 DEF Served
  <1> QED
    BY <1>3, <1>4, <1>5, <1>7, <1>8, AnsweredSaves

\* A restart of the controller answers every request, and leaves nothing in the queue but
\* what loading the file puts there.
LEMMA RestartSaves ==
  ASSUME OnDisk, Served, Typed, NetTyped, ControllerRestart
  PROVE  OnDisk' /\ Served'
  <1>1. PICK D : D = {c \in Canvases : canvas[c].save.ph \in {"writing", "pushing", "waiting"}}
    OBVIOUS
  <1>2. PICK slots : slots = {s \in 1..Slots : delivery[s] # Free /\
                        \E n \in DOMAIN inbox[delivery[s].at] : inbox[delivery[s].at][n] = s}
    OBVIOUS
  <1>3. /\ writes' = Migration(disk)
        /\ canvas' = [c \in Canvases |->
             IF c \in D THEN [canvas[c] EXCEPT !.save = Answered(@, FALSE)] ELSE canvas[c]]
        /\ delivery' = [s \in 1..Slots |->
             IF s \in slots \/ delivery[s] = Free THEN Free
             ELSE IF delivery[s].to = "pull" THEN delivery[s]
             ELSE [delivery[s] EXCEPT !.to = "nobody"]]
    BY <1>1, <1>2 DEF ControllerRestart
  <1>4. ASSUME NEW c \in Canvases PROVE AtRest(canvas'[c].save.ph)
    <2>1. IF c \in D THEN canvas'[c].save.ph = "saving" ELSE canvas'[c] = canvas[c]
      BY <1>3, AnsweredCanvas
    <2>2. canvas[c].save \in SaveType
      BY CanvasAt
    <2> QED
      BY <1>1, <2>1, <2>2 DEF SaveType, AtRest
  <1>5. ASSUME NEW s \in 1..Slots, Busy(s)'
        PROVE  delivery'[s].to \notin Canvases
    <2>1. delivery[s] # Free /\ s \notin slots /\ delivery[s] \in DeliveryType
      BY <1>3, <1>5, BusyIsDelivery DEF Busy, Free
    <2>2. CASE delivery[s].to = "pull"
      BY <1>3, <2>1, <2>2, GatewayConfigAssumption
    <2>3. CASE delivery[s].to # "pull"
      <3>1. delivery'[s] = [delivery[s] EXCEPT !.to = "nobody"]
        BY <1>3, <2>1, <2>3
      <3> QED
        BY <2>1, <3>1, GatewayConfigAssumption DEF DeliveryType
    <2> QED
      BY <2>2, <2>3
  <1>6. Served'
    BY <1>4, <1>5 DEF Served, AtRest
  <1>7. /\ \A n \in DOMAIN writes' : writes'[n].by \notin Canvases
        /\ \A m, n \in DOMAIN writes' : m = n
    <2>1. CASE disk.legacy = {}
      BY <1>3, <2>1 DEF Migration
    <2>2. CASE disk.legacy # {}
      <3>1. PICK e : e = [links |-> Loaded(disk), by |-> "load"]
        OBVIOUS
      <3>2. e.by = "load"
        BY <3>1
      <3>3. writes' = <<e>>
        BY <1>3, <2>2, <3>1 DEF Migration
      <3>4. "load" \notin Canvases
        BY GatewayConfigAssumption
      <3> QED
        BY <3>2, <3>3, <3>4
    <2> QED
      BY <2>1, <2>2
  <1>8. OnDisk'
    BY <1>7 DEF OnDisk
  <1> QED
    BY <1>6, <1>8

LEMMA DispatchSaves ==
  ASSUME OnDisk, Served, NetTyped, NEW i, NEW to, Dispatch(i, to), UNCHANGED writes,
         \/ UNCHANGED canvas /\ to = "pull"
         \/ /\ to \in Canvases /\ canvas[to].save.ph = "pushing"
            /\ canvas'[to].save.ph = "waiting"
            /\ \A c \in Canvases : c # to => canvas'[c] = canvas[c]
  PROVE  OnDisk' /\ Served'
  <1>0. PICK s \in 1..Slots, size \in Sizes[i] :
          delivery' = [delivery EXCEPT ![s] =
            [ph |-> IF size = "single" THEN "single" ELSE "begin",
             at |-> i, to |-> to, no |-> sent[i] + 1, got |-> Resolved(i), next |-> 1]]
    BY DEF Dispatch
  <1>1. PICK d : d = [ph |-> IF size = "single" THEN "single" ELSE "begin",
                      at |-> i, to |-> to, no |-> sent[i] + 1, got |-> Resolved(i), next |-> 1]
    OBVIOUS
  <1>2. d.to = to
    BY <1>1
  <1>3. delivery' = [delivery EXCEPT ![s] = d]
    BY <1>0, <1>1
  <1>4. /\ delivery'[s].to = to
        /\ \A t \in 1..Slots : t # s => delivery'[t] = delivery[t] /\ Busy(t)' = Busy(t)
    BY <1>3, <1>2 DEF NetTyped, Busy
  <1>5. \A c \in Canvases : c # to \/ UNCHANGED canvas => canvas'[c] = canvas[c]
    OBVIOUS
  <1>6. \A c \in Canvases : Writing(c) => Writing(c)'
    BY DEF Writing
  <1>7. OnDisk'
    BY <1>6, OnDiskKept
  <1>8. \A c \in Canvases : canvas'[c].save.ph = "pushing" => canvas'[c].save.at \in Instances
    BY DEF Served
  <1>9. ASSUME NEW t \in 1..Slots, NEW c \in Canvases, Busy(t)', delivery'[t].to = c
        PROVE  /\ canvas'[c].save.ph = "waiting"
               /\ t # s => Busy(t) /\ delivery[t].to = c /\ c # to
               /\ t = s => c = to
    <2>1. "pull" \notin Canvases
      BY GatewayConfigAssumption
    <2>2. CASE t = s
      BY <1>4, <1>9, <2>1, <2>2
    <2>3. CASE t # s
      <3>1. Busy(t) /\ delivery[t].to = c
        BY <1>4, <1>9, <2>3
      <3>2. canvas[c].save.ph = "waiting"
        BY <3>1 DEF Served
      <3> QED
        BY <2>1, <2>3, <3>1, <3>2
    <2> QED
      BY <2>2, <2>3
  <1>10. ASSUME NEW t \in 1..Slots, NEW u \in 1..Slots, NEW c \in Canvases,
               Busy(t)', Busy(u)', delivery'[t].to = c, delivery'[u].to = c
        PROVE  t = u
    BY <1>9, <1>10 DEF Served
  <1> QED
    BY <1>7, <1>8, <1>9, <1>10 DEF Served

LEMMA PushSaves ==
  ASSUME OnDisk, Served, Typed, NetTyped, NEW c \in Canvases, Push(c)
  PROVE  OnDisk' /\ Served'
  <1>0. PICK v \in CanvasType : v = canvas[c] /\ v.save \in SaveType
    BY CanvasAt
  <1>1. UNCHANGED writes /\ canvas[c].save.ph = "pushing"
    BY DEF Push, server
  <1>2. canvas = [d \in Canvases |-> canvas[d]]
    BY DEF Typed
  <1>3. CASE IsOnline(canvas[c].save.at)
    <2>1. Dispatch(canvas[c].save.at, c) /\ canvas' = [canvas EXCEPT ![c].save.ph = "waiting"]
      BY <1>3 DEF Push
    <2>2. canvas'[c].save.ph = "waiting" /\ \A d \in Canvases : d # c => canvas'[d] = canvas[d]
      BY <1>0, <1>2, <2>1 DEF CanvasType, SaveType
    <2> QED
      BY <1>1, <2>1, <2>2, DispatchSaves
  <1>4. CASE ~IsOnline(canvas[c].save.at)
    <2>1. PICK D : D = {c}
      OBVIOUS
    <2>2. UNCHANGED delivery /\ canvas' = [canvas EXCEPT ![c].save = Answered(@, TRUE)]
      BY <1>4 DEF Push, net
    <2>3. canvas' = [d \in Canvases |->
            IF d \in D THEN [canvas[d] EXCEPT !.save = Answered(@, TRUE)] ELSE canvas[d]]
      BY <1>2, <2>1, <2>2
    <2>4. \A s : Busy(s)' = Busy(s)
      BY <2>2 DEF Busy
    <2>5. \A s \in 1..Slots : Busy(s)' => delivery'[s].to \notin D
      BY <1>1, <2>1, <2>2, <2>4 DEF Served
    <2> QED
      BY <1>1, <2>1, <2>2, <2>3, <2>4, <2>5, AnsweredSaves
  <1> QED
    BY <1>3, <1>4

-----------------------------------------------------------------------------
(* The deliveries. *)

NetInv == NetTyped /\ Queued /\ Staged

LEMMA NetAt ==
  ASSUME NetInv, NEW i \in Instances
  PROVE  /\ inbox[i] \in Seq(1..Slots) /\ staging[i] \in StageType /\ game[i] \in GameType
         /\ sent[i] \in Nat /\ staging[i].token <= sent[i]
         /\ \A n \in DOMAIN (inbox[i]) : inbox[i][n] \in 1..Slots /\ WaitsAt(inbox[i][n], i)
         /\ \A m, n \in DOMAIN (inbox[i]) : inbox[i][m] = inbox[i][n] => m = n
  <1>1. /\ inbox[i] \in Seq(1..Slots) /\ staging[i] \in StageType /\ game[i] \in GameType
        /\ sent[i] \in Nat
    BY DEF NetInv, NetTyped
  <1>2. \A n \in DOMAIN (inbox[i]) : inbox[i][n] \in 1..Slots
    <2>1. PICK S : S = 1..Slots
      OBVIOUS
    <2>2. PICK q \in Seq(S) : q = inbox[i]
      BY <1>1, <2>1
    <2>3. \A n \in DOMAIN q : q[n] \in S
      BY Elements
    <2> QED
      BY <2>1, <2>2, <2>3
  <1>3. /\ \A n \in DOMAIN (inbox[i]) : WaitsAt(inbox[i][n], i)
        /\ \A m, n \in DOMAIN (inbox[i]) : inbox[i][m] = inbox[i][n] => m = n
    BY DEF NetInv, Queued
  <1>4. staging[i].token <= sent[i]
    BY DEF NetInv, Staged
  <1> QED
    BY <1>1, <1>2, <1>3, <1>4

LEMMA ResolvedType ==
  ASSUME Typed, NEW i
  PROVE  Resolved(i) \in Configs
  BY DEF Typed, Resolved, Of, Configs, Edits

\* Which slots stay as they are.
LEMMA SlotStays ==
  ASSUME NEW t, delivery'[t] = delivery[t]
  PROVE  \A k : BusyAt(t, k)' = BusyAt(t, k) /\ WaitsAt(t, k)' = WaitsAt(t, k)
  BY DEF BusyAt, WaitsAt, Busy, Waits

LEMMA DispatchNet ==
  ASSUME NetInv, Typed, NEW i \in Instances, NEW to \in Canvases \cup {"pull", "nobody"},
         Dispatch(i, to)
  PROVE  NetInv'
  <1>1. PICK s \in 1..Slots, size \in Sizes[i] :
          /\ delivery[s] = Free
          /\ delivery' = [delivery EXCEPT ![s] =
               [ph |-> IF size = "single" THEN "single" ELSE "begin",
                at |-> i, to |-> to, no |-> sent[i] + 1, got |-> Resolved(i), next |-> 1]]
          /\ inbox' = [inbox EXCEPT ![i] = Append(@, s)]
          /\ sent' = [sent EXCEPT ![i] = @ + 1]
          /\ UNCHANGED <<staging, game>>
    BY DEF Dispatch
  <1>2. PICK got \in Configs : got = Resolved(i)
    BY ResolvedType
  <1>3. sent[i] \in Nat
    BY NetAt
  <1>4. PICK d : d = [ph |-> IF size = "single" THEN "single" ELSE "begin",
                      at |-> i, to |-> to, no |-> sent[i] + 1, got |-> got, next |-> 1]
    OBVIOUS
  <1>5. /\ d \in DeliveryType /\ d.at = i /\ d.no = sent[i] + 1 /\ d.next = 1
        /\ d.ph \in {"single", "begin"}
    BY <1>3, <1>4 DEF DeliveryType
  <1>6. /\ delivery'[s] = d /\ delivery' = [t \in 1..Slots |-> delivery'[t]]
        /\ \A t \in 1..Slots : t # s => delivery'[t] = delivery[t]
    BY <1>1, <1>2, <1>4 DEF NetInv, NetTyped
  <1>7. /\ \A t \in 1..Slots : t # s =>
             \A k : BusyAt(t, k)' = BusyAt(t, k) /\ WaitsAt(t, k)' = WaitsAt(t, k)
        /\ \A k : (BusyAt(s, k)' <=> k = i) /\ (WaitsAt(s, k)' <=> k = i)
        /\ \A k : ~BusyAt(s, k) /\ ~WaitsAt(s, k)
    <2>1. \A t \in 1..Slots : t # s =>
             \A k : BusyAt(t, k)' = BusyAt(t, k) /\ WaitsAt(t, k)' = WaitsAt(t, k)
      BY <1>6, SlotStays
    <2>2. \A k : (BusyAt(s, k)' <=> k = i) /\ (WaitsAt(s, k)' <=> k = i)
      BY <1>5, <1>6 DEF BusyAt, WaitsAt, Busy, Waits
    <2>3. \A k : ~BusyAt(s, k) /\ ~WaitsAt(s, k)
      BY <1>1 DEF BusyAt, WaitsAt, Busy, Waits, Free
    <2> QED
      BY <2>1, <2>2, <2>3
  <1>8. /\ sent' \in [Instances -> Nat] /\ sent'[i] = sent[i] + 1
        /\ \A k \in Instances : k # i => sent'[k] = sent[k] /\ inbox'[k] = inbox[k]
        /\ inbox'[i] = Append(inbox[i], s) /\ inbox' = [k \in Instances |-> inbox'[k]]
    <2>1. sent \in [Instances -> Nat] /\ inbox \in [Instances -> Seq(1..Slots)]
      BY DEF NetInv, NetTyped
    <2>2. /\ sent' \in [Instances -> Nat] /\ sent'[i] = sent[i] + 1
          /\ \A k \in Instances : k # i => sent'[k] = sent[k]
      BY <1>1, <2>1
    <2>3. /\ \A k \in Instances : k # i => inbox'[k] = inbox[k]
          /\ inbox'[i] = Append(inbox[i], s) /\ inbox' = [k \in Instances |-> inbox'[k]]
      BY <1>1, <2>1
    <2> QED
      BY <2>2, <2>3
  <1>9. /\ inbox'[i] \in Seq(1..Slots) /\ Len(inbox[i]) \in Nat
        /\ DOMAIN (inbox'[i]) = 1..(Len(inbox[i]) + 1)
        /\ DOMAIN (inbox[i]) = 1..Len(inbox[i])
        /\ inbox'[i][Len(inbox[i]) + 1] = s
        /\ \A n \in DOMAIN (inbox[i]) : inbox'[i][n] = inbox[i][n]
    <2>1. PICK q \in Seq(1..Slots) : q = inbox[i]
      BY NetAt
    <2>2. PICK r : r = inbox'[i]
      OBVIOUS
    <2>3. r = Append(q, s)
      BY <1>8, <2>1, <2>2
    <2> QED
      BY <2>1, <2>2, <2>3, AppendTo
  <1>10. NetTyped'
    <2>1. \A t \in 1..Slots : delivery'[t] = Free \/ delivery'[t] \in DeliveryType
      BY <1>5, <1>6 DEF NetInv, NetTyped
    <2>2. inbox' \in [Instances -> Seq(1..Slots)]
      <3>1. \A k \in Instances : inbox'[k] \in Seq(1..Slots)
        BY <1>8, <1>9, NetAt
      <3> QED
        BY <1>8, <3>1
    <2> QED
      BY <1>1, <1>6, <1>8, <2>1, <2>2 DEF NetInv, NetTyped
  <1>11. Queued'
    <2> SUFFICES ASSUME NEW k \in Instances
                 PROVE  /\ \A n \in DOMAIN (inbox'[k]) : \E t \in 1..Slots :
                             inbox'[k][n] = t /\ WaitsAt(t, k)'
                        /\ \A m, n \in DOMAIN (inbox'[k]) : inbox'[k][m] = inbox'[k][n] => m = n
      BY DEF Queued, WaitsAt, Waits
    <2>1. /\ \A n \in DOMAIN (inbox[k]) : inbox[k][n] \in 1..Slots /\ WaitsAt(inbox[k][n], k)
          /\ \A m, n \in DOMAIN (inbox[k]) : inbox[k][m] = inbox[k][n] => m = n
      BY NetAt
    <2>2. \A n \in DOMAIN (inbox[k]) : \E t \in 1..Slots :
            inbox[k][n] = t /\ t # s /\ WaitsAt(t, k)'
      BY <1>7, <2>1
    <2>3. CASE k # i
      <3>1. inbox'[k] = inbox[k]
        BY <1>8, <2>3
      <3> QED
        BY <2>1, <2>2, <3>1
    <2>4. CASE k = i
      <3>1. \A n \in DOMAIN (inbox'[k]) :
              \/ n \in DOMAIN (inbox[k]) /\ inbox'[k][n] = inbox[k][n]
              \/ n = Len(inbox[k]) + 1 /\ inbox'[k][n] = s
        BY <1>9, <2>4
      <3>2. WaitsAt(s, k)'
        BY <1>7, <2>4
      <3>3. \A n \in DOMAIN (inbox'[k]) : \E t \in 1..Slots : inbox'[k][n] = t /\ WaitsAt(t, k)'
        BY <2>2, <3>1, <3>2
      <3>4. \A m, n \in DOMAIN (inbox'[k]) : inbox'[k][m] = inbox'[k][n] => m = n
        BY <2>1, <2>2, <3>1
      <3> QED
        BY <3>3, <3>4
    <2> QED
      BY <2>3, <2>4
  <1>12. Staged'
    <2> SUFFICES ASSUME NEW k \in Instances
                 PROVE  /\ staging[k].token <= sent'[k]
                        /\ \A t \in 1..Slots : BusyAt(t, k)' =>
                             /\ delivery'[t].no \in 1..sent'[k]
                             /\ delivery'[t].ph = "begin" => delivery'[t].next = 1
                             /\ delivery'[t].ph = "chunk" =>
                                  /\ delivery'[t].next <= Chunks
                                  /\ delivery'[t].no = staging[k].token =>
                                       staging[k].got < delivery'[t].next
                        /\ \A t, u \in 1..Slots :
                             BusyAt(t, k)' /\ BusyAt(u, k)' /\ delivery'[t].no = delivery'[u].no => t = u
      BY <1>1 DEF Staged
    <2>1. /\ staging[k].token <= sent[k] /\ sent[k] \in Nat /\ staging[k].token \in Nat
          /\ \A t \in 1..Slots : BusyAt(t, k) =>
               /\ delivery[t].no \in 1..sent[k]
               /\ delivery[t].ph = "begin" => delivery[t].next = 1
               /\ delivery[t].ph = "chunk" =>
                    /\ delivery[t].next <= Chunks
                    /\ delivery[t].no = staging[k].token => staging[k].got < delivery[t].next
          /\ \A t, u \in 1..Slots :
               BusyAt(t, k) /\ BusyAt(u, k) /\ delivery[t].no = delivery[u].no => t = u
      BY NetAt DEF NetInv, Staged, StageType
    <2>2. sent'[k] \in Nat /\ sent'[k] >= sent[k]
      <3>1. sent'[k] = sent[k] \/ sent'[k] = sent[k] + 1
        BY <1>8
      <3> QED
        BY <2>1, <3>1
    <2>3. CASE k # i
      <3>1. \A t \in 1..Slots : BusyAt(t, k)' => BusyAt(t, k) /\ delivery'[t] = delivery[t]
        BY <1>6, <1>7, <2>3
      <3>2. sent'[k] = sent[k]
        BY <1>8, <2>3
      <3> QED
        BY <2>1, <3>1, <3>2
    <2>4. CASE k = i
      <3>1. sent'[k] = sent[k] + 1 /\ d.no = sent'[k]
        BY <1>5, <1>8, <2>4
      <3>2. \A t \in 1..Slots : BusyAt(t, k)' =>
              \/ t = s /\ delivery'[t] = d
              \/ t # s /\ BusyAt(t, k) /\ delivery'[t] = delivery[t] /\ delivery[t].no # d.no
        BY <1>6, <1>7, <2>1, <3>1
      <3> QED
        BY <1>5, <2>1, <2>2, <3>1, <3>2
    <2> QED
      BY <2>3, <2>4
  <1> QED
    BY <1>10, <1>11, <1>12 DEF NetInv

\* A command of a delivery, or the end of it.
SlotMoves(s, e) ==
  LET d == delivery[s]
      i == d.at
  IN  /\ MayRun(s) /\ delivery' = [delivery EXCEPT ![s] = e] /\ inbox' = Taken(s)
      /\ UNCHANGED sent
      /\ \/ e = Free
         \/ /\ e \in DeliveryType /\ e.at = i /\ e.no = d.no /\ e.ph \in {"chunk", "commit"}
            /\ e.ph = "chunk" =>
                 /\ e.next <= Chunks
                 /\ e.no = staging'[i].token => staging'[i].got < e.next
      /\ staging' \in [Instances -> StageType] /\ game' \in [Instances -> GameType]
      /\ \A k \in Instances : k # i => staging'[k] = staging[k]
      /\ staging'[i] = staging[i] \/ staging'[i].token \in {0, d.no}

LEMMA SlotNet ==
  ASSUME NetInv, NEW s \in 1..Slots, NEW e, SlotMoves(s, e)
  PROVE  NetInv'
  <1> PICK d, i : d = delivery[s] /\ i = d.at
    OBVIOUS
  <1>1. /\ MayRun(s) /\ delivery' = [delivery EXCEPT ![s] = e] /\ inbox' = Taken(s)
        /\ UNCHANGED sent
        /\ \/ e = Free
           \/ /\ e \in DeliveryType /\ e.at = i /\ e.no = d.no /\ e.ph \in {"chunk", "commit"}
              /\ e.ph = "chunk" =>
                   /\ e.next <= Chunks
                   /\ e.no = staging'[i].token => staging'[i].got < e.next
        /\ staging' \in [Instances -> StageType] /\ game' \in [Instances -> GameType]
        /\ \A k \in Instances : k # i => staging'[k] = staging[k]
        /\ staging'[i] = staging[i] \/ staging'[i].token \in {0, d.no}
    BY DEF SlotMoves
  <1>2. /\ d \in DeliveryType /\ i \in Instances /\ d.no \in Nat /\ d.ph # "free"
        /\ d.ph \in {"single", "begin", "chunk", "commit"}
    BY <1>1 DEF NetInv, NetTyped, MayRun, DeliveryType
  <1>3. /\ delivery'[s] = e /\ delivery' = [t \in 1..Slots |-> delivery'[t]]
        /\ \A t \in 1..Slots : t # s => delivery'[t] = delivery[t]
    BY <1>1 DEF NetInv, NetTyped
  <1>4. /\ \A t \in 1..Slots : t # s =>
             \A k : BusyAt(t, k)' = BusyAt(t, k) /\ WaitsAt(t, k)' = WaitsAt(t, k)
        /\ BusyAt(s, i) /\ \A k : BusyAt(s, k) => k = i
        /\ \A k : BusyAt(s, k)' => k = i /\ e # Free
        /\ \A k : WaitsAt(s, k) => k = i /\ d.ph \in {"single", "begin"}
    <2>1. \A t \in 1..Slots : t # s =>
             \A k : BusyAt(t, k)' = BusyAt(t, k) /\ WaitsAt(t, k)' = WaitsAt(t, k)
      BY <1>3, SlotStays
    <2>2. BusyAt(s, i) /\ \A k : BusyAt(s, k) => k = i
      BY <1>2 DEF BusyAt, Busy
    <2>3. \A k : BusyAt(s, k)' => k = i /\ e # Free
      BY <1>1, <1>3 DEF BusyAt, Busy, Free
    <2>4. \A k : WaitsAt(s, k) => k = i /\ d.ph \in {"single", "begin"}
      BY DEF WaitsAt, Waits
    <2> QED
      BY <2>1, <2>2, <2>3, <2>4
  <1>5. /\ inbox' = [k \in Instances |-> inbox'[k]]
        /\ \A k \in Instances : k # i \/ d.ph \notin {"single", "begin"} => inbox'[k] = inbox[k]
        /\ d.ph \in {"single", "begin"} =>
             inbox[i] # <<>> /\ Head(inbox[i]) = s /\ inbox'[i] = Tail(inbox[i])
    <2>1. inbox' = IF d.ph \in {"single", "begin"} THEN [inbox EXCEPT ![i] = Tail(@)] ELSE inbox
      BY <1>1 DEF Taken
    <2>2. d.ph \in {"single", "begin"} => inbox[i] # <<>> /\ Head(inbox[i]) = s
      BY <1>1 DEF MayRun
    <2>3. inbox \in [Instances -> Seq(1..Slots)]
      BY DEF NetInv, NetTyped
    <2>4. CASE d.ph \in {"single", "begin"}
      BY <1>2, <2>1, <2>2, <2>3, <2>4
    <2>5. CASE d.ph \notin {"single", "begin"}
      BY <2>1, <2>3, <2>5
    <2> QED
      BY <2>4, <2>5
  <1>6. ASSUME d.ph \in {"single", "begin"}
        PROVE  /\ inbox'[i] \in Seq(1..Slots) /\ inbox[i][1] = s /\ 1 \in DOMAIN (inbox[i])
               /\ \A n \in DOMAIN (inbox'[i]) :
                    /\ inbox'[i][n] = inbox[i][n + 1] /\ n + 1 \in DOMAIN (inbox[i])
                    /\ n \in Nat /\ n # 0
    <2>1. PICK S : S = 1..Slots
      OBVIOUS
    <2>2. PICK q \in Seq(S) : q = inbox[i]
      BY <1>2, <2>1, NetAt
    <2>3. PICK r : r = inbox'[i]
      OBVIOUS
    <2>4. q # <<>> /\ Head(q) = s /\ r = Tail(q)
      BY <1>5, <1>6, <2>2, <2>3
    <2>5. /\ r \in Seq(S) /\ Len(q) \in Nat /\ Len(q) >= 1 /\ 1 \in DOMAIN q
          /\ Head(q) = q[1] /\ DOMAIN r = 1..(Len(q) - 1) /\ DOMAIN q = 1..Len(q)
          /\ \A n \in DOMAIN r : r[n] = q[n + 1]
      BY <2>4, TailFrom
    <2>6. \A n \in DOMAIN r : n + 1 \in DOMAIN q /\ n \in Nat /\ n # 0
      BY <2>5
    <2> QED
      BY <2>1, <2>2, <2>3, <2>4, <2>5, <2>6
  <1>7. NetTyped'
    <2>1. \A k \in Instances : inbox'[k] \in Seq(1..Slots)
      <3> SUFFICES ASSUME NEW k \in Instances PROVE inbox'[k] \in Seq(1..Slots)
        OBVIOUS
      <3>1. inbox[k] \in Seq(1..Slots)
        BY NetAt
      <3>2. CASE k # i \/ d.ph \notin {"single", "begin"}
        <4>1. inbox'[k] = inbox[k]
          BY <1>5, <3>2
        <4> QED
          BY <3>1, <4>1
      <3>3. CASE k = i /\ d.ph \in {"single", "begin"}
        BY <1>6, <3>3
      <3> QED
        BY <3>2, <3>3
    <2>2. inbox' \in [Instances -> Seq(1..Slots)]
      BY <1>5, <2>1
    <2>3. \A t \in 1..Slots : delivery'[t] = Free \/ delivery'[t] \in DeliveryType
      BY <1>1, <1>3 DEF NetInv, NetTyped
    <2> QED
      BY <1>1, <1>3, <2>2, <2>3 DEF NetInv, NetTyped
  <1>8. Queued'
    <2> SUFFICES ASSUME NEW k \in Instances
                 PROVE  /\ \A n \in DOMAIN (inbox'[k]) : \E t \in 1..Slots :
                             inbox'[k][n] = t /\ WaitsAt(t, k)'
                        /\ \A m, n \in DOMAIN (inbox'[k]) : inbox'[k][m] = inbox'[k][n] => m = n
      BY DEF Queued, WaitsAt, Waits
    <2>1. /\ \A n \in DOMAIN (inbox[k]) : inbox[k][n] \in 1..Slots /\ WaitsAt(inbox[k][n], k)
          /\ \A m, n \in DOMAIN (inbox[k]) : inbox[k][m] = inbox[k][n] => m = n
      BY NetAt
    <2>2. \A t \in 1..Slots : WaitsAt(t, k) /\ t # s => WaitsAt(t, k)'
      BY <1>4
    <2>3. CASE k # i \/ d.ph \notin {"single", "begin"}
      <3>1. inbox'[k] = inbox[k]
        BY <1>5, <2>3
      <3>2. \A n \in DOMAIN (inbox[k]) : inbox[k][n] # s
        BY <1>4, <2>1, <2>3
      <3>3. \A n \in DOMAIN (inbox[k]) : \E t \in 1..Slots : inbox[k][n] = t /\ WaitsAt(t, k)'
        BY <2>1, <2>2, <3>2
      <3> QED
        BY <2>1, <3>1, <3>3
    <2>4. CASE k = i /\ d.ph \in {"single", "begin"}
      <3>1. /\ inbox[k][1] = s /\ 1 \in DOMAIN (inbox[k])
            /\ \A n \in DOMAIN (inbox'[k]) :
                 /\ inbox'[k][n] = inbox[k][n + 1] /\ n + 1 \in DOMAIN (inbox[k])
                 /\ n \in Nat /\ n # 0
        BY <1>6, <2>4
      <3>2. ASSUME NEW n \in DOMAIN (inbox'[k])
            PROVE  \E t \in 1..Slots : inbox'[k][n] = t /\ WaitsAt(t, k)'
        <4>1. PICK m : m = n + 1
          OBVIOUS
        <4>2. m \in DOMAIN (inbox[k]) /\ m # 1 /\ inbox'[k][n] = inbox[k][m]
          BY <3>1, <3>2, <4>1
        <4>3. inbox[k][m] # s
          BY <2>1, <3>1, <4>2
        <4> QED
          BY <2>1, <2>2, <4>2, <4>3
      <3>3. ASSUME NEW m \in DOMAIN (inbox'[k]), NEW n \in DOMAIN (inbox'[k]),
                   inbox'[k][m] = inbox'[k][n]
            PROVE  m = n
        <4>1. m + 1 = n + 1 /\ m \in Nat /\ n \in Nat
          BY <2>1, <3>1, <3>3
        <4> QED
          BY <4>1
      <3> QED
        BY <3>2, <3>3
    <2> QED
      BY <2>3, <2>4
  <1>9. Staged'
    <2> SUFFICES ASSUME NEW k \in Instances
                 PROVE  /\ staging'[k].token <= sent[k]
                        /\ \A t \in 1..Slots : BusyAt(t, k)' =>
                             /\ delivery'[t].no \in 1..sent[k]
                             /\ delivery'[t].ph = "begin" => delivery'[t].next = 1
                             /\ delivery'[t].ph = "chunk" =>
                                  /\ delivery'[t].next <= Chunks
                                  /\ delivery'[t].no = staging'[k].token =>
                                       staging'[k].got < delivery'[t].next
                        /\ \A t, u \in 1..Slots :
                             BusyAt(t, k)' /\ BusyAt(u, k)' /\ delivery'[t].no = delivery'[u].no => t = u
      BY <1>1 DEF Staged
    <2>1. /\ staging[k].token <= sent[k] /\ sent[k] \in Nat /\ staging[k].token \in Nat
          /\ \A t \in 1..Slots : BusyAt(t, k) =>
               /\ delivery[t].no \in 1..sent[k]
               /\ delivery[t].ph = "begin" => delivery[t].next = 1
               /\ delivery[t].ph = "chunk" =>
                    /\ delivery[t].next <= Chunks
                    /\ delivery[t].no = staging[k].token => staging[k].got < delivery[t].next
          /\ \A t, u \in 1..Slots :
               BusyAt(t, k) /\ BusyAt(u, k) /\ delivery[t].no = delivery[u].no => t = u
      BY NetAt DEF NetInv, Staged, StageType
    <2>2. CASE k # i
      <3>1. \A t \in 1..Slots : BusyAt(t, k)' => BusyAt(t, k) /\ delivery'[t] = delivery[t]
        BY <1>3, <1>4, <2>2
      <3>2. staging'[k] = staging[k]
        BY <1>1, <2>2
      <3> QED
        BY <2>1, <3>1, <3>2
    <2>3. CASE k = i
      <3>0. BusyAt(s, k) /\ d.no \in 1..sent[k]
        BY <1>4, <2>1, <2>3
      <3>1. \A t \in 1..Slots : BusyAt(t, k)' =>
              \/ t = s /\ delivery'[t] = e /\ e # Free
              \/ t # s /\ BusyAt(t, k) /\ delivery'[t] = delivery[t] /\ delivery[t].no # d.no
        BY <1>3, <1>4, <2>1, <3>0
      <3>2. e # Free => /\ e.no = d.no /\ e.ph \in {"chunk", "commit"}
                        /\ e.ph = "chunk" =>
                             /\ e.next <= Chunks
                             /\ e.no = staging'[k].token => staging'[k].got < e.next
        BY <1>1, <2>3
      <3>3. staging'[k] = staging[k] \/ staging'[k].token \in {0, d.no}
        BY <1>1, <2>3
      <3>4. staging'[k].token <= sent[k]
        BY <2>1, <3>0, <3>3
      <3>5. ASSUME NEW t \in 1..Slots, BusyAt(t, k)'
            PROVE  /\ delivery'[t].no \in 1..sent[k]
                   /\ delivery'[t].ph = "begin" => delivery'[t].next = 1
                   /\ delivery'[t].ph = "chunk" =>
                        /\ delivery'[t].next <= Chunks
                        /\ delivery'[t].no = staging'[k].token => staging'[k].got < delivery'[t].next
        <4>1. CASE t = s /\ delivery'[t] = e /\ e # Free
          BY <3>0, <3>2, <4>1
        <4>2. CASE t # s /\ BusyAt(t, k) /\ delivery'[t] = delivery[t] /\ delivery[t].no # d.no
          BY <2>1, <3>3, <4>2
        <4> QED
          BY <3>1, <3>5, <4>1, <4>2
      <3>6. ASSUME NEW t \in 1..Slots, NEW u \in 1..Slots, BusyAt(t, k)', BusyAt(u, k)',
                   delivery'[t].no = delivery'[u].no
            PROVE  t = u
        BY <2>1, <3>1, <3>2, <3>6
      <3> QED
        BY <3>4, <3>5, <3>6
    <2> QED
      BY <2>2, <2>3
  <1> QED
    BY <1>7, <1>8, <1>9 DEF NetInv

\* What each command leaves staged.
LEMMA CommandNet ==
  ASSUME NetInv, NEW s \in 1..Slots, MayRun(s), NEW d, d = delivery[s], NEW i, i = d.at,
         NEW effect, effect = Command(d), Apply(d, effect)
  PROVE  /\ d \in DeliveryType /\ i \in Instances /\ BusyAt(s, i)
         /\ staging' \in [Instances -> StageType] /\ game' \in [Instances -> GameType]
         /\ \A k \in Instances : k # i => staging'[k] = staging[k]
         /\ staging'[i] = staging[i] \/ staging'[i].token \in {0, d.no}
         /\ d.ph = "begin" => staging'[i].got = 0
         /\ effect.ok /\ d.ph = "chunk" => staging'[i].got <= d.next
  <1>1. /\ d \in DeliveryType /\ i \in Instances /\ d.no \in Nat /\ d.got \in Configs
        /\ d.ph \in {"single", "begin", "chunk", "commit"} /\ d.next \in Nat
    BY DEF NetInv, NetTyped, MayRun, DeliveryType
  <1>2. BusyAt(s, i)
    BY <1>1 DEF BusyAt, Busy
  <1>3. /\ staging \in [Instances -> StageType] /\ game \in [Instances -> GameType]
        /\ staging[i] \in StageType /\ game[i] \in GameType
    BY <1>1 DEF NetInv, NetTyped
  <1>4. PICK stage, g : /\ stage = effect.staging /\ g = effect.game
                        /\ staging' = [staging EXCEPT ![i] = stage]
                        /\ game' = [game EXCEPT ![i] = g]
    BY DEF Apply
  <1>5. PICK new \in GameType : new = [no |-> d.no, got |-> d.got]
    BY <1>1 DEF GameType
  <1>6. PICK here \in StageType : here = staging[i]
    BY <1>3
  <1>7. Chunks \in Nat /\ Chunks # 0
    BY GatewayConfigAssumption
  <1>8. /\ stage \in StageType /\ g \in GameType
        /\ stage = here \/ stage.token \in {0, d.no}
        /\ d.ph = "begin" => stage.got = 0
        /\ effect.ok /\ d.ph = "chunk" => stage.got <= d.next
    <2>1. CASE d.ph = "single"
      <3>1. stage = here /\ g = new
        BY <1>4, <1>5, <1>6, <2>1 DEF Command
      <3> QED
        BY <2>1, <3>1
    <2>2. CASE d.ph = "begin"
      <3>1. stage = [token |-> d.no, got |-> 0] /\ g = game[i]
        BY <1>4, <2>2 DEF Command
      <3> QED
        BY <1>1, <1>3, <1>7, <2>2, <3>1 DEF StageType
    <2>3. CASE d.ph = "chunk"
      <3>1. /\ stage = IF here.token = d.no THEN [here EXCEPT !.got = @ + 1] ELSE here
            /\ g = game[i] /\ effect.ok = (here.token = d.no)
        BY <1>4, <1>6, <2>3 DEF Command
      <3>2. here.token = d.no => here.got < d.next /\ d.next <= Chunks
        BY <1>1, <1>2, <1>6, <2>3 DEF NetInv, Staged
      <3>3. here.got \in Nat
        BY <1>7 DEF StageType
      <3>4. CASE here.token = d.no
        <4>1. stage \in StageType /\ stage.token = d.no /\ stage.got = here.got + 1
          BY <1>1, <1>7, <3>1, <3>2, <3>3, <3>4 DEF StageType
        <4> QED
          BY <1>1, <1>3, <2>3, <3>1, <3>2, <3>3, <3>4, <4>1
      <3>5. CASE here.token # d.no
        BY <1>3, <2>3, <3>1, <3>5
      <3> QED
        BY <3>4, <3>5
    <2>4. CASE d.ph = "commit"
      <3>1. /\ stage = NoStaging \/ stage = here
            /\ g = new \/ g = game[i]
        BY <1>4, <1>5, <1>6, <2>4 DEF Command
      <3>2. NoStaging \in StageType /\ NoStaging.token = 0
        BY <1>7 DEF NoStaging, StageType
      <3> QED
        BY <1>3, <2>4, <3>1, <3>2
    <2> QED
      BY <1>1, <2>1, <2>2, <2>3, <2>4
  <1>9. /\ staging'[i] = stage /\ staging' \in [Instances -> StageType]
        /\ \A k \in Instances : k # i => staging'[k] = staging[k]
    BY <1>1, <1>3, <1>4, <1>8
  <1>10. game' \in [Instances -> GameType]
    BY <1>1, <1>3, <1>4, <1>8
  <1> QED
    BY <1>1, <1>2, <1>6, <1>8, <1>9, <1>10

LEMMA RunNet ==
  ASSUME NetInv, NEW s \in 1..Slots, Run(s) \/ LoseCommand(s) \/ LoseReply(s)
  PROVE  NetInv'
  <1>1. PICK d, i : d = delivery[s] /\ i = d.at
    OBVIOUS
  <1>2. MayRun(s) /\ inbox' = Taken(s) /\ UNCHANGED sent
    BY DEF Run, LoseCommand, LoseReply
  <1>3. CASE LoseCommand(s)
    <2>1. /\ delivery' = [delivery EXCEPT ![s] = Free] /\ UNCHANGED <<staging, game>>
      BY <1>3 DEF LoseCommand, End
    <2>2. staging \in [Instances -> StageType] /\ game \in [Instances -> GameType]
      BY DEF NetInv, NetTyped
    <2>3. SlotMoves(s, Free)
      BY <1>2, <2>1, <2>2 DEF SlotMoves
    <2> QED
      BY <2>3, SlotNet
  <1>4. ASSUME NEW effect, effect = Command(d), Apply(d, effect),
               delivery' = [delivery EXCEPT ![s] = Free]
        PROVE  NetInv'
    <2>1. /\ staging' \in [Instances -> StageType] /\ game' \in [Instances -> GameType]
          /\ \A k \in Instances : k # i => staging'[k] = staging[k]
          /\ staging'[i] = staging[i] \/ staging'[i].token \in {0, d.no}
      BY <1>1, <1>2, <1>4, CommandNet
    <2>2. SlotMoves(s, Free)
      BY <1>1, <1>2, <1>4, <2>1 DEF SlotMoves
    <2> QED
      BY <2>2, SlotNet
  <1>5. CASE LoseReply(s)
    <2>1. PICK effect : effect = Command(d) /\ Apply(d, effect)
      BY <1>1, <1>5 DEF LoseReply
    <2>2. delivery' = [delivery EXCEPT ![s] = Free]
      BY <1>5 DEF LoseReply, End
    <2> QED
      BY <1>4, <2>1, <2>2
  <1>6. CASE Run(s)
    <2>1. PICK effect : /\ effect = Command(d) /\ Apply(d, effect)
                        /\ IF effect.ok /\ d.ph \in {"begin", "chunk"} THEN Advance(s)
                           ELSE End(s, effect.ok)
      BY <1>1, <1>6 DEF Run
    <2>2. CASE ~(effect.ok /\ d.ph \in {"begin", "chunk"})
      <3>1. delivery' = [delivery EXCEPT ![s] = Free]
        BY <2>1, <2>2 DEF End
      <3> QED
        BY <1>4, <2>1, <3>1
    <2>3. CASE effect.ok /\ d.ph \in {"begin", "chunk"}
      <3>1. /\ d \in DeliveryType /\ i \in Instances /\ BusyAt(s, i)
            /\ staging' \in [Instances -> StageType] /\ game' \in [Instances -> GameType]
            /\ \A k \in Instances : k # i => staging'[k] = staging[k]
            /\ staging'[i] = staging[i] \/ staging'[i].token \in {0, d.no}
            /\ d.ph = "begin" => staging'[i].got = 0
            /\ effect.ok /\ d.ph = "chunk" => staging'[i].got <= d.next
        BY <1>1, <1>2, <2>1, CommandNet
      <3>2. PICK e : /\ e = IF d.ph = "chunk" /\ d.next < Chunks THEN [d EXCEPT !.next = @ + 1]
                            ELSE [d EXCEPT !.ph = IF d.ph = "begin" THEN "chunk" ELSE "commit"]
                     /\ delivery' = [delivery EXCEPT ![s] = e]
        BY <1>1, <2>1, <2>3 DEF Advance
      <3>3. /\ d.ph = "begin" => d.next = 1
            /\ d.next \in Nat /\ Chunks \in Nat /\ Chunks # 0
        BY <1>1, <3>1, GatewayConfigAssumption DEF NetInv, Staged, DeliveryType
      <3>4. staging'[i].got \in Nat
        <4>1. staging'[i] \in StageType
          BY <3>1
        <4> QED
          BY <3>3, <4>1 DEF StageType
      <3>5. CASE d.ph = "chunk" /\ d.next < Chunks
        <4>1. e = [d EXCEPT !.next = d.next + 1]
          BY <3>2, <3>5
        <4>2. /\ e \in DeliveryType /\ e.at = i /\ e.no = d.no /\ e.ph = "chunk"
              /\ e.next = d.next + 1
          BY <1>1, <3>1, <3>3, <3>5, <4>1 DEF DeliveryType
        <4>3. e.next <= Chunks /\ staging'[i].got < e.next
          BY <2>3, <3>1, <3>3, <3>4, <3>5, <4>2
        <4>4. SlotMoves(s, e)
          BY <1>1, <1>2, <3>1, <3>2, <4>2, <4>3 DEF SlotMoves
        <4> QED
          BY <4>4, SlotNet
      <3>6. CASE d.ph = "begin"
        <4>1. e = [d EXCEPT !.ph = "chunk"]
          BY <3>2, <3>6
        <4>2. /\ e \in DeliveryType /\ e.at = i /\ e.no = d.no /\ e.ph = "chunk"
              /\ e.next = 1
          BY <1>1, <3>1, <3>3, <3>6, <4>1 DEF DeliveryType
        <4>3. e.next <= Chunks /\ staging'[i].got < e.next
          BY <3>1, <3>3, <3>6, <4>2
        <4>4. SlotMoves(s, e)
          BY <1>1, <1>2, <3>1, <3>2, <4>2, <4>3 DEF SlotMoves
        <4> QED
          BY <4>4, SlotNet
      <3>7. CASE d.ph = "chunk" /\ ~(d.next < Chunks)
        <4>1. e = [d EXCEPT !.ph = "commit"]
          BY <3>2, <3>7
        <4>2. e \in DeliveryType /\ e.at = i /\ e.no = d.no /\ e.ph = "commit"
          BY <1>1, <3>1, <4>1 DEF DeliveryType
        <4>4. SlotMoves(s, e)
          BY <1>1, <1>2, <3>1, <3>2, <4>2 DEF SlotMoves
        <4> QED
          BY <4>4, SlotNet
      <3> QED
        BY <2>3, <3>5, <3>6, <3>7
    <2> QED
      BY <2>2, <2>3
  <1> QED
    BY <1>3, <1>5, <1>6

\* What is lost, dropped or starts over at one instance.
LEMMA DroppedNet ==
  ASSUME NetInv, NEW i \in Instances, UNCHANGED sent,
         staging' = [staging EXCEPT ![i] = NoStaging],
         game' \in [Instances -> GameType],
         \/ UNCHANGED <<delivery, inbox>>
         \/ /\ delivery' = [s \in 1..Slots |->
                 IF delivery[s] # Free /\ delivery[s].at = i THEN Free ELSE delivery[s]]
            /\ inbox' = [inbox EXCEPT ![i] = <<>>]
  PROVE  NetInv'
  <1>0. NoStaging \in StageType /\ NoStaging.token = 0
    BY GatewayConfigAssumption DEF NoStaging, StageType
  <1>1. /\ staging' \in [Instances -> StageType] /\ staging'[i].token = 0
        /\ \A k \in Instances : k # i => staging'[k] = staging[k]
    BY <1>0 DEF NetInv, NetTyped
  <1>2. /\ delivery' = [s \in 1..Slots |-> delivery'[s]]
        /\ \A s \in 1..Slots : delivery'[s] = delivery[s]
                               \/ (delivery'[s] = Free /\ delivery[s].at = i)
    BY DEF NetInv, NetTyped
  <1>3. \A s \in 1..Slots : \A k :
          /\ BusyAt(s, k)' => BusyAt(s, k) /\ delivery'[s] = delivery[s]
          /\ WaitsAt(s, k) /\ k # i => WaitsAt(s, k)'
    BY <1>2 DEF BusyAt, WaitsAt, Busy, Waits, Free
  <1>4. /\ inbox' \in [Instances -> Seq(1..Slots)]
        /\ \A k \in Instances : \/ inbox'[k] = inbox[k] /\ (k # i \/ UNCHANGED delivery)
                                \/ inbox'[k] = <<>>
    <2>1. inbox \in [Instances -> Seq(1..Slots)]
      BY DEF NetInv, NetTyped
    <2>2. CASE UNCHANGED <<delivery, inbox>>
      BY <2>1, <2>2
    <2>3. CASE inbox' = [inbox EXCEPT ![i] = <<>>]
      BY <2>1, <2>3
    <2> QED
      BY <2>2, <2>3
  <1>5. NetTyped'
    <2>1. \A s \in 1..Slots : delivery'[s] = Free \/ delivery'[s] \in DeliveryType
      BY <1>2 DEF NetInv, NetTyped
    <2> QED
      BY <1>1, <1>2, <1>4, <2>1 DEF NetInv, NetTyped
  <1>6. Queued'
    <2> SUFFICES ASSUME NEW k \in Instances
                 PROVE  /\ \A n \in DOMAIN (inbox'[k]) : \E t \in 1..Slots :
                             inbox'[k][n] = t /\ WaitsAt(t, k)'
                        /\ \A m, n \in DOMAIN (inbox'[k]) : inbox'[k][m] = inbox'[k][n] => m = n
      BY DEF Queued, WaitsAt, Waits
    <2>1. /\ \A n \in DOMAIN (inbox[k]) : inbox[k][n] \in 1..Slots /\ WaitsAt(inbox[k][n], k)
          /\ \A m, n \in DOMAIN (inbox[k]) : inbox[k][m] = inbox[k][n] => m = n
      BY NetAt
    <2>2. CASE inbox'[k] = <<>>
      BY <2>2
    <2>3. CASE inbox'[k] = inbox[k] /\ (k # i \/ UNCHANGED delivery)
      <3>1. \A t \in 1..Slots : WaitsAt(t, k) => WaitsAt(t, k)'
        BY <1>3, <2>3 DEF WaitsAt, Waits
      <3> QED
        BY <2>1, <2>3, <3>1
    <2> QED
      BY <1>4, <2>2, <2>3
  <1>7. Staged'
    <2> SUFFICES ASSUME NEW k \in Instances
                 PROVE  /\ staging'[k].token <= sent[k]
                        /\ \A t \in 1..Slots : BusyAt(t, k)' =>
                             /\ delivery'[t].no \in 1..sent[k]
                             /\ delivery'[t].ph = "begin" => delivery'[t].next = 1
                             /\ delivery'[t].ph = "chunk" =>
                                  /\ delivery'[t].next <= Chunks
                                  /\ delivery'[t].no = staging'[k].token =>
                                       staging'[k].got < delivery'[t].next
                        /\ \A t, u \in 1..Slots :
                             BusyAt(t, k)' /\ BusyAt(u, k)' /\ delivery'[t].no = delivery'[u].no => t = u
      BY DEF Staged
    <2>1. /\ staging[k].token <= sent[k] /\ sent[k] \in Nat /\ staging[k].token \in Nat
          /\ \A t \in 1..Slots : BusyAt(t, k) =>
               /\ delivery[t].no \in 1..sent[k]
               /\ delivery[t].ph = "begin" => delivery[t].next = 1
               /\ delivery[t].ph = "chunk" =>
                    /\ delivery[t].next <= Chunks
                    /\ delivery[t].no = staging[k].token => staging[k].got < delivery[t].next
          /\ \A t, u \in 1..Slots :
               BusyAt(t, k) /\ BusyAt(u, k) /\ delivery[t].no = delivery[u].no => t = u
      BY NetAt DEF NetInv, Staged, StageType
    <2>2. staging'[k] = staging[k] \/ staging'[k].token = 0
      BY <1>1
    <2> QED
      BY <1>3, <2>1, <2>2
  <1> QED
    BY <1>5, <1>6, <1>7 DEF NetInv

LEMMA GameNet ==
  ASSUME NetInv, Typed, NEW i \in Instances, GameRestart(i) \/ Prune(i)
  PROVE  NetInv'
  <1>0. game \in [Instances -> GameType] /\ delivery = [s \in 1..Slots |-> delivery[s]]
    BY DEF NetInv, NetTyped
  <1>1. CASE Prune(i)
    BY <1>0, <1>1, DroppedNet DEF Prune
  <1>2. CASE GameRestart(i)
    <2>1. PICK older \in BOOLEAN : game' = [game EXCEPT ![i] =
            IF older THEN [no |-> 0, got |-> [links |-> {}, mode |-> mode]] ELSE @]
      BY <1>2 DEF GameRestart
    <2>2. [no |-> 0, got |-> [links |-> {}, mode |-> mode]] \in GameType
      BY DEF Typed, GameType, Configs, Edits
    <2>3. game' \in [Instances -> GameType]
      BY <1>0, <2>1, <2>2
    <2>4. PICK slots : slots = {s \in 1..Slots : delivery[s] # Free /\ delivery[s].at = i}
      OBVIOUS
    <2>5. /\ delivery' = [s \in 1..Slots |-> IF s \in slots THEN Free ELSE delivery[s]]
          /\ inbox' = [inbox EXCEPT ![i] = <<>>] /\ UNCHANGED sent
          /\ staging' = [staging EXCEPT ![i] = NoStaging]
      BY <1>2, <2>4 DEF GameRestart, Lost
    <2>6. delivery' = [s \in 1..Slots |->
                 IF delivery[s] # Free /\ delivery[s].at = i THEN Free ELSE delivery[s]]
      BY <2>4, <2>5
    <2> QED
      BY <2>3, <2>5, <2>6, DroppedNet
  <1> QED
    BY <1>1, <1>2

LEMMA ControllerNet ==
  ASSUME NetInv, ControllerRestart
  PROVE  NetInv'
  <1>1. PICK slots : slots = {s \in 1..Slots : delivery[s] # Free /\
                        \E n \in DOMAIN inbox[delivery[s].at] : inbox[delivery[s].at][n] = s}
    OBVIOUS
  <1>2. /\ UNCHANGED <<sent, staging, game>> /\ inbox' = [i \in Instances |-> <<>>]
        /\ delivery' = [s \in 1..Slots |->
             IF s \in slots \/ delivery[s] = Free THEN Free
             ELSE IF delivery[s].to = "pull" THEN delivery[s]
             ELSE [delivery[s] EXCEPT !.to = "nobody"]]
    BY <1>1 DEF ControllerRestart
  <1>3. ASSUME NEW s \in 1..Slots
        PROVE  \/ delivery'[s] = Free
               \/ /\ delivery'[s] \in DeliveryType /\ Busy(s)
                  /\ delivery'[s].ph = delivery[s].ph /\ delivery'[s].at = delivery[s].at
                  /\ delivery'[s].no = delivery[s].no /\ delivery'[s].next = delivery[s].next
    <2>1. CASE s \in slots \/ delivery[s] = Free
      BY <1>2, <2>1
    <2>2. CASE ~(s \in slots \/ delivery[s] = Free)
      <3>1. delivery[s] \in DeliveryType /\ Busy(s)
        BY <2>2, BusyIsDelivery DEF NetInv
      <3>2. CASE delivery[s].to = "pull"
        BY <1>2, <2>2, <3>1, <3>2
      <3>3. CASE delivery[s].to # "pull"
        <4>1. delivery'[s] = [delivery[s] EXCEPT !.to = "nobody"]
          BY <1>2, <2>2, <3>3
        <4> QED
          BY <3>1, <4>1 DEF DeliveryType
      <3> QED
        BY <3>2, <3>3
    <2> QED
      BY <2>1, <2>2
  <1>4. \A s \in 1..Slots : \A k :
          BusyAt(s, k)' => /\ BusyAt(s, k) /\ delivery'[s].ph = delivery[s].ph
                           /\ delivery'[s].no = delivery[s].no /\ delivery'[s].next = delivery[s].next
    BY <1>3 DEF BusyAt, Busy, Free
  <1>5. NetTyped'
    <2>1. delivery' = [s \in 1..Slots |-> delivery'[s]] /\ inbox' \in [Instances -> Seq(1..Slots)]
      BY <1>2
    <2>2. \A s \in 1..Slots : delivery'[s] = Free \/ delivery'[s] \in DeliveryType
      BY <1>3
    <2> QED
      BY <1>2, <2>1, <2>2 DEF NetInv, NetTyped
  <1>6. Queued'
    BY <1>2 DEF Queued
  <1>7. Staged'
    BY <1>2, <1>4 DEF NetInv, Staged
  <1> QED
    BY <1>5, <1>6, <1>7 DEF NetInv

LEMMA StillNet ==
  ASSUME NetInv, UNCHANGED <<delivery, inbox, staging, game, sent>>
  PROVE  NetInv'
  <1>1. \A s : Busy(s)' = Busy(s) /\ Waits(s)' = Waits(s)
    BY DEF Busy, Waits
  <1>2. NetTyped'
    BY DEF NetInv, NetTyped
  <1>3. Queued'
    BY <1>1 DEF NetInv, Queued, WaitsAt, Waits
  <1>4. Staged'
    BY <1>1 DEF NetInv, Staged, BusyAt, Busy
  <1> QED
    BY <1>2, <1>3, <1>4 DEF NetInv

\* An edit, a request and a step of the file leave the deliveries alone.
LEMMA NetNext ==
  ASSUME NetInv, Typed, Served, Next
  PROVE  NetInv'
  <1> USE DEF net
  <1>1. ASSUME NEW c \in Canvases,
               \/ Load(c) \/ BulkLink(c) \/ Connect(c) \/ EdgeClick(c) \/ Revert(c)
               \/ BeginSave(c) \/ HandleSet(c) \/ EndSave(c)
        PROVE  NetInv'
    <2>1. UNCHANGED <<delivery, inbox, staging, game, sent>>
      BY <1>1 DEF Load, BulkLink, Connect, EdgeClick, Click, Revert, BeginSave, HandleSet, EndSave
    <2> QED
      BY <2>1, StillNet
  <1>2. ASSUME NEW c \in Canvases, Push(c) PROVE NetInv'
    <2>1. canvas[c].save.at \in Instances
      BY <1>2 DEF Push, Served
    <2>2. PICK i \in Instances : i = canvas[c].save.at
      BY <2>1
    <2>3. Dispatch(i, c) \/ UNCHANGED <<delivery, inbox, staging, game, sent>>
      BY <1>2, <2>2 DEF Push
    <2> QED
      BY <2>3, DispatchNet, StillNet
  <1>3. ASSUME Write \/ WriteFails \/ SwitchMode PROVE NetInv'
    <2>1. UNCHANGED <<delivery, inbox, staging, game, sent>>
      BY <1>3 DEF Write, WriteFails, SwitchMode
    <2> QED
      BY <2>1, StillNet
  <1>4. ASSUME NEW i \in Instances, Pull(i) PROVE NetInv'
    <2>1. Dispatch(i, "pull")
      BY <1>4 DEF Pull
    <2> QED
      BY <2>1, DispatchNet
  <1>5. ASSUME NEW i \in Instances, Running(i) \/ LinkDown(i) \/ LinkUp(i) PROVE NetInv'
    <2>1. UNCHANGED <<delivery, inbox, staging, game, sent>>
      BY <1>5 DEF Running, LinkDown, LinkUp
    <2> QED
      BY <2>1, StillNet
  <1> QED
    BY <1>1, <1>2, <1>3, <1>4, <1>5, GameNet, RunNet, ControllerNet DEF Next

LEMMA SavesNext ==
  ASSUME OnDisk, Served, Typed, NetInv, Next
  PROVE  OnDisk' /\ Served'
  <1>1. ASSUME NEW c \in Canvases,
               \/ Load(c) \/ BulkLink(c) \/ Connect(c) \/ EdgeClick(c) \/ Revert(c)
               \/ BeginSave(c) \/ HandleSet(c) \/ Push(c) \/ EndSave(c)
        PROVE  OnDisk' /\ Served'
    BY <1>1, ClickSaves, SetSaves, PushSaves DEF NetInv
  <1>2. ASSUME UNCHANGED <<canvas, writes, delivery>> PROVE OnDisk' /\ Served'
    BY <1>2, QuietSaves DEF SameStage
  <1>3. ASSUME NEW i \in Instances, Pull(i) PROVE OnDisk' /\ Served'
    BY <1>3, DispatchSaves DEF Pull, NetInv, server
  <1>4. ASSUME NEW i \in Instances, Running(i) \/ Prune(i) \/ LinkDown(i) \/ LinkUp(i)
        PROVE  OnDisk' /\ Served'
    BY <1>2, <1>4 DEF Running, Prune, LinkDown, LinkUp, server, net
  <1>5. ASSUME NEW i \in Instances, GameRestart(i) PROVE OnDisk' /\ Served'
    BY <1>5, GameSaves DEF NetInv
  <1>6. ASSUME NEW s \in 1..Slots, Run(s) \/ LoseCommand(s) \/ LoseReply(s)
        PROVE  OnDisk' /\ Served'
    <2>1. MayRun(s) /\ UNCHANGED writes
      BY <1>6 DEF Run, LoseCommand, LoseReply, server
    <2>2. Busy(s)
      BY <2>1, BusyIsDelivery DEF MayRun, NetInv
    <2>3. delivery = [t \in 1..Slots |-> delivery[t]]
      BY DEF NetInv, NetTyped
    <2>4. Advance(s) \/ \E ok : End(s, ok)
      BY <1>6 DEF Run, LoseCommand, LoseReply
    <2>5. CASE Advance(s)
      <3>1. PICK e : /\ e = IF delivery[s].ph = "chunk" /\ delivery[s].next < Chunks
                            THEN [delivery[s] EXCEPT !.next = @ + 1]
                            ELSE [delivery[s] EXCEPT !.ph =
                                    IF delivery[s].ph = "begin" THEN "chunk" ELSE "commit"]
                     /\ delivery' = [delivery EXCEPT ![s] = e] /\ UNCHANGED canvas
        BY <2>5 DEF Advance
      <3>2. delivery[s] \in DeliveryType
        BY <2>2, BusyIsDelivery DEF NetInv
      <3>3. e.to = delivery[s].to
        BY <3>1, <3>2 DEF DeliveryType
      <3>4. /\ delivery'[s] = e /\ \A t \in 1..Slots : t # s => delivery'[t] = delivery[t]
        BY <2>3, <3>1
      <3>5. \A t \in 1..Slots : delivery'[t].to = delivery[t].to /\ (Busy(t)' => Busy(t))
        BY <2>2, <3>3, <3>4 DEF Busy
      <3>6. \A c \in Canvases : Writing(c) => Writing(c)'
        BY <3>1 DEF Writing
      <3>7. \A t \in 1..Slots : \A c \in Canvases :
              Busy(t)' /\ delivery'[t].to = c => canvas'[c].save.ph = "waiting"
        BY <3>1, <3>5 DEF Served
      <3>8. \A c \in Canvases : canvas'[c].save.ph = "pushing" => canvas'[c].save.at \in Instances
        BY <3>1 DEF Served
      <3> QED
        BY <2>1, <3>5, <3>6, <3>7, <3>8, OnDiskKept, ServedKept
    <2> QED
      BY <2>1, <2>2, <2>3, <2>4, <2>5, EndSaves
  <1>7. ASSUME SwitchMode PROVE OnDisk' /\ Served'
    BY <1>2, <1>7 DEF SwitchMode, server, net
  <1> QED
    BY <1>1, <1>3, <1>4, <1>5, <1>6, <1>7, WriteSaves, RestartSaves DEF Next, NetInv

LEMMA TypeInit == Init => TypeInv
  <1> SUFFICES ASSUME Init PROVE TypeInv
    OBVIOUS
  <1>1. Typed
    BY TypedInit
  <1>2. /\ writes = Migration(disk)
        /\ canvas = [c \in Canvases |->
             [mode |-> mode, edits |-> {}, baseline |-> {}, save |-> Idle]]
        /\ delivery = [s \in 1..Slots |-> Free] /\ inbox = [i \in Instances |-> <<>>]
        /\ staging = [i \in Instances |-> NoStaging]
        /\ game = [i \in Instances |-> [no |-> 0, got |-> Resolved(i)]]
        /\ sent = [i \in Instances |-> 0]
    BY DEF Init
  <1>3. \A s \in 1..Slots : delivery[s] = Free /\ ~Busy(s)
    BY <1>2 DEF Busy, Free
  <1>4. OnDisk
    <2>1. CASE disk.legacy = {}
      BY <1>2, <2>1 DEF OnDisk, Migration
    <2>2. CASE disk.legacy # {}
      <3>1. PICK e : e = [links |-> Loaded(disk), by |-> "load"]
        OBVIOUS
      <3>2. e.by = "load"
        BY <3>1
      <3>3. writes = <<e>>
        BY <1>2, <2>2, <3>1 DEF Migration
      <3>4. "load" \notin Canvases
        BY GatewayConfigAssumption
      <3> QED
        BY <3>2, <3>3, <3>4 DEF OnDisk
    <2> QED
      BY <2>1, <2>2
  <1>5. Served
    <2>1. \A c \in Canvases : canvas[c].save.ph = "idle"
      BY <1>2 DEF Idle
    <2> QED
      BY <1>3, <2>1 DEF Served
  <1>6. NetTyped
    <2>1. NoStaging \in StageType
      BY GatewayConfigAssumption DEF NoStaging, StageType
    <2>2. \A i \in Instances : [no |-> 0, got |-> Resolved(i)] \in GameType
      BY <1>1, ResolvedType DEF GameType
    <2> QED
      BY <1>2, <1>3, <2>1, <2>2 DEF NetTyped
  <1>7. Queued
    <2>1. \A i \in Instances : DOMAIN (inbox[i]) = {}
      <3> SUFFICES ASSUME NEW i \in Instances PROVE DOMAIN (inbox[i]) = {}
        OBVIOUS
      <3>1. DOMAIN << >> = {}
        OBVIOUS
      <3>2. inbox[i] = << >>
        BY <1>2
      <3> QED
        BY <3>1, <3>2
    <2> QED
      BY <2>1 DEF Queued
  <1>8. Staged
    <2>1. \A i \in Instances : staging[i].token = 0 /\ sent[i] = 0
      BY <1>2 DEF NoStaging
    <2>2. \A s \in 1..Slots : \A i : ~BusyAt(s, i)
      BY <1>3 DEF BusyAt
    <2>3. \A i \in Instances : staging[i].token <= sent[i]
      <3>1. 0 <= 0
        OBVIOUS
      <3> QED
        BY <2>1, <3>1
    <2> QED
      BY <2>2, <2>3 DEF Staged
  <1> QED
    BY <1>1, <1>4, <1>5, <1>6, <1>7, <1>8 DEF TypeInv

LEMMA TypeNext ==
  ASSUME TypeInv, [Next]_vars
  PROVE  TypeInv'
  <1>0. Typed /\ OnDisk /\ Served /\ NetInv
    BY DEF TypeInv, NetInv
  <1>1. CASE Next
    <2>1. Typed' /\ OnDisk' /\ Served' /\ NetInv'
      BY <1>0, <1>1, TypedNext, SavesNext, NetNext
    <2> QED
      BY <2>1 DEF TypeInv, NetInv
  <1>2. CASE UNCHANGED vars
    <2>1. UNCHANGED <<mode, canvas, links, disk, writes, delivery, inbox, staging, game, sent>>
      BY <1>2 DEF vars, server, net
    <2>2. Typed'
      BY <1>0, <2>1 DEF Typed
    <2>3. OnDisk' /\ Served'
      BY <1>0, <2>1, QuietSaves DEF SameStage
    <2>4. NetInv'
      BY <1>0, <2>1, StillNet
    <2> QED
      BY <2>2, <2>3, <2>4 DEF TypeInv, NetInv
  <1> QED
    BY <1>1, <1>2

LEMMA TypeImplied == TypeInv => TypeOK
  <1> SUFFICES ASSUME TypeInv PROVE TypeOK
    OBVIOUS
  <1>0. Typed /\ NetInv
    BY DEF TypeInv, NetInv
  <1>1. \A c \in Canvases : /\ canvas[c].mode \in Modes /\ canvas[c].save \in SaveType
                            /\ canvas[c].edits \in Edits /\ canvas[c].baseline \in Edits
    BY <1>0, CanvasAt
  <1>2. \A n \in DOMAIN writes : writes[n].links \in Edits /\ writes[n].by \in Canvases \cup {"load"}
    <2>1. \A n \in DOMAIN writes : writes[n] \in WriteType
      BY <1>0 DEF Typed
    <2> QED
      BY <2>1 DEF WriteType
  <1>3. \A i \in Instances : \A n \in DOMAIN inbox[i] :
          delivery[inbox[i][n]] # Free /\ delivery[inbox[i][n]].at = i
    <2> SUFFICES ASSUME NEW i \in Instances, NEW n \in DOMAIN (inbox[i])
                 PROVE  delivery[inbox[i][n]] # Free /\ delivery[inbox[i][n]].at = i
      OBVIOUS
    <2>1. WaitsAt(inbox[i][n], i)
      BY <1>0, NetAt
    <2> QED
      BY <2>1 DEF WaitsAt, Waits, Free
  <1>4. \A i \in Instances : staging[i].got \in 0..Chunks /\ game[i].got \in Configs
    BY <1>0, NetAt DEF StageType, GameType
  <1> QED
    BY <1>0, <1>1, <1>2, <1>3, <1>4 DEF TypeOK, Typed, FileType, NetInv, NetTyped

\* Every variable has its type, and a slot of the inbox is a delivery to that instance,
\* whatever is lost on the way and whatever starts over.
THEOREM TypesAlways == Spec => []TypeOK
  BY TypeInit, TypeNext, TypeImplied, PTL DEF Spec

-----------------------------------------------------------------------------
(* Both ends of an edge.  Every link joins two instances and two names of one  *)
(* kind, so that what a canvas shows is whole.  As long as nothing went wrong, *)
(* one save at a time is under way, and the map is what it was, with the       *)
(* gateways that were submitted as they are in the canvas.                     *)

Paired(L) ==
  \A l \in L : l[1][1] # l[2][1] /\ (l[1][2] \in MultiNames <=> l[2][2] \in MultiNames)
Shown(L, names) ==
  \A l \in L : l[1][1] # l[2][1] /\ l[1][2] \in names /\ l[2][2] \in names

Kept ==
  /\ Paired(links) /\ Paired(Loaded(disk))
  /\ \A n \in DOMAIN writes : Paired(writes[n].links)

\* Of a canvas: an edit keeps both ends of an edge, or neither.
Drawn(v) ==
  /\ Shown(v.edits, NamesFor(v.mode)) /\ Shown(v.baseline, NamesFor(v.mode))
  /\ TwoWay(v.baseline) => TwoWay(v.edits)
  /\ v.save.ph # "idle" =>
       /\ Shown(v.save.snap, NamesFor(v.mode))
       /\ TwoWay(v.save.snap) => TwoWay(v.edits)
       /\ TwoWay(v.baseline) => TwoWay(v.save.snap)

Failing(c) == Saving(c) /\ canvas[c].save.failed

\* Of the map, while a canvas saves.
Partly(L, v) ==
  /\ TwoWay(v.save.snap)
  /\ \A l \in L : l[1][2] \notin NamesFor(v.mode) => <<l[2], l[1]>> \in L
  /\ \A k \in Keys : k[2] \in NamesFor(v.mode) =>
       Targets(L, k) = Targets(IF k[1] \in v.save.todo THEN v.baseline ELSE v.save.snap, k)

\* The file will have the map in the end.
Stored(loaded, L, queue) ==
  /\ queue = <<>> => loaded = L
  /\ queue # <<>> => queue[Len(queue)].links = L
  /\ \A n \in DOMAIN queue : queue[n].by = "load" => n = 1 /\ queue[n].links = loaded

Whole ==
  ~torn =>
    /\ \A c, d \in Canvases : Saving(c) /\ Saving(d) => c = d
    /\ (\A c \in Canvases : ~Saving(c)) => TwoWay(links)
    /\ \A c \in Canvases : Saving(c) /\ ~Failing(c) => Partly(links, canvas[c])
    /\ (\A c \in Canvases : ~Failing(c)) => Stored(Loaded(disk), links, writes)

LinkInv == Kept /\ (\A c \in Canvases : Drawn(canvas[c])) /\ Whole

-----------------------------------------------------------------------------
(* Sets of links that are two-way. *)

LEMMA LinkParts ==
  ASSUME NEW L \in Edits, NEW l \in L
  PROVE  /\ l = <<l[1], l[2]>> /\ l[1] \in Keys /\ l[2] \in Keys
         /\ l[1][1] \in Instances /\ l[1][2] \in Gateways
         /\ l[2][1] \in Instances /\ l[2][2] \in Gateways
  BY DEF Edits, Keys

\* The gateways that an edge of a mode joins are of that mode.
LEMMA PairedNames ==
  ASSUME NEW L \in Edits, Paired(L), NEW m \in Modes, NEW l \in L
  PROVE  l[1][2] \in NamesFor(m) <=> l[2][2] \in NamesFor(m)
  <1>1. l[1][2] \in Gateways /\ l[2][2] \in Gateways
    BY LinkParts
  <1> QED
    BY <1>1, GatewayGraphAssumption DEF Paired, NamesFor, Gateways

LEMMA ShownPaired ==
  ASSUME NEW L, NEW m \in Modes, Shown(L, NamesFor(m))
  PROVE  Paired(L)
  BY GatewayGraphAssumption DEF Shown, Paired, NamesFor, Modes

LEMMA TurnedLink ==
  ASSUME NEW l, l = <<l[1], l[2]>>
  PROVE  <<l[2], l[1]>>[1] = l[2] /\ <<l[2], l[1]>>[2] = l[1]
  OBVIOUS

\* What a canvas loads.
LEMMA LoadedShown ==
  ASSUME NEW L \in Edits, Paired(L), NEW m \in Modes, NEW E, E = EditsFromLinks(L, NamesFor(m))
  PROVE  /\ Shown(E, NamesFor(m))
         /\ TwoWay(L) => TwoWay(E)
  <1>1. Shown(E, NamesFor(m))
    BY PairedNames DEF EditsFromLinks, Shown, Paired
  <1>2. ASSUME TwoWay(L), NEW l \in E PROVE <<l[2], l[1]>> \in E
    <2>1. l \in L /\ l[1][2] \in NamesFor(m)
      BY DEF EditsFromLinks
    <2>2. <<l[2], l[1]>> \in L
      BY <1>2, <2>1 DEF TwoWay
    <2>3. <<l[2], l[1]>>[1][2] \in NamesFor(m)
      BY <2>1, PairedNames
    <2> QED
      BY <2>2, <2>3 DEF EditsFromLinks
  <1> QED
    BY <1>1, <1>2 DEF TwoWay

\* An edge that is drawn or taken away has both its ends.
LEMMA ConnectShown ==
  ASSUME NEW E, NEW names, Shown(E, names), NEW a, NEW b, a[2] \in names, b[2] \in names
  PROVE  /\ Shown(ApplyConnect(E, a, b), names)
         /\ TwoWay(E) => TwoWay(ApplyConnect(E, a, b))
  <1> DEFINE F == ApplyConnect(E, a, b)
  <1>1. \A l \in F : l \in E \/ (a[1] # b[1] /\ (l = <<a, b>> \/ l = <<b, a>>))
    BY DEF ApplyConnect, BothWays
  <1>2. \A l \in E : l \in F
    BY DEF ApplyConnect
  <1>3. a[1] # b[1] => <<a, b>> \in F /\ <<b, a>> \in F
    BY DEF ApplyConnect, BothWays
  <1> HIDE DEF F
  <1>4. Shown(F, names)
    BY <1>1 DEF Shown
  <1>5. ASSUME TwoWay(E), NEW l \in F PROVE <<l[2], l[1]>> \in F
    <2>1. CASE l \in E
      BY <1>2, <1>5, <2>1 DEF TwoWay
    <2>2. CASE a[1] # b[1] /\ l = <<a, b>>
      <3>1. l[1] = a /\ l[2] = b
        BY <2>2
      <3> QED
        BY <1>3, <2>2, <3>1
    <2>3. CASE a[1] # b[1] /\ l = <<b, a>>
      <3>1. l[1] = b /\ l[2] = a
        BY <2>3
      <3> QED
        BY <1>3, <2>3, <3>1
    <2> QED
      BY <1>1, <1>5, <2>1, <2>2, <2>3
  <1> QED
    BY <1>4, <1>5 DEF F, TwoWay

LEMMA DisconnectShown ==
  ASSUME NEW E \in Edits, NEW names, Shown(E, names), NEW a, NEW b
  PROVE  /\ Shown(ApplyDisconnect(E, a, b), names)
         /\ TwoWay(E) => TwoWay(ApplyDisconnect(E, a, b))
  <1> DEFINE F == ApplyDisconnect(E, a, b)
  <1>1. \A l : l \in F <=> (l \in E /\ l # <<a, b>> /\ l # <<b, a>>)
    BY DEF ApplyDisconnect, BothWays
  <1> HIDE DEF F
  <1>2. Shown(F, names)
    BY <1>1 DEF Shown
  <1>3. ASSUME TwoWay(E), NEW l \in F PROVE <<l[2], l[1]>> \in F
    <2>1. l \in E /\ l # <<a, b>> /\ l # <<b, a>> /\ l = <<l[1], l[2]>>
      BY <1>1, LinkParts
    <2>2. <<l[2], l[1]>> \in E /\ <<l[2], l[1]>> # <<a, b>> /\ <<l[2], l[1]>> # <<b, a>>
      BY <1>3, <2>1 DEF TwoWay
    <2> QED
      BY <1>1, <2>2
  <1> QED
    BY <1>2, <1>3 DEF F, TwoWay

\* The edits that stay two-way if others were.
Ways(names, if) == {x \in Edits : Shown(x, names) /\ (if => TwoWay(x))}

LEMMA BulkShown ==
  ASSUME NEW m \in Modes, NEW if \in BOOLEAN, NEW E \in Ways(NamesFor(m), if),
         NEW ids \in Selections, NEW g \in NamesFor(m), NEW connect
  PROVE  PlanBulkLink(E, ids, g, m, connect) \in Ways(NamesFor(m), if)
  <1>1. PICK S : S = Ways(NamesFor(m), if)
    OBVIOUS
  <1>2. ids \in Seq(Instances) /\ g \in Gateways
    BY NameOfMode, GatewayConfigAssumption
  <1>3. ASSUME NEW x \in Ways(NamesFor(m), if), NEW a \in Keys, NEW b \in Keys,
               a[2] = g, b[2] = g
        PROVE  /\ ApplyConnect(x, a, b) \in Ways(NamesFor(m), if)
               /\ ApplyDisconnect(x, a, b) \in Ways(NamesFor(m), if)
    <2>1. PICK y, z : y = ApplyConnect(x, a, b) /\ z = ApplyDisconnect(x, a, b)
      OBVIOUS
    <2>2. x \in Edits /\ Shown(x, NamesFor(m)) /\ (if => TwoWay(x))
      BY DEF Ways
    <2>3. y \in Edits /\ z \in Edits
      BY <2>1, <2>2, ConnectType
    <2>4. Shown(y, NamesFor(m)) /\ (TwoWay(x) => TwoWay(y))
      BY <1>3, <2>1, <2>2, ConnectShown
    <2>5. Shown(z, NamesFor(m)) /\ (TwoWay(x) => TwoWay(z))
      BY <2>1, <2>2, DisconnectShown
    <2> QED
      BY <2>1, <2>2, <2>3, <2>4, <2>5 DEF Ways
  <1>4. \A x \in S : \A i, j \in Instances :
          /\ ApplyConnect(x, <<i, g>>, <<j, g>>) \in S
          /\ ApplyDisconnect(x, <<i, g>>, <<j, g>>) \in S
    BY <1>1, <1>2, <1>3 DEF Keys
  <1>5. PlanBulkLink(E, ids, g, m, connect) \in S
    BY <1>1, <1>2, <1>4, BulkKeeps
  <1> QED
    BY <1>1, <1>5

-----------------------------------------------------------------------------
(* Steps that leave the map alone. *)

\* A save that goes on, or fails.
SameSave(v, w) ==
  /\ w.mode = v.mode /\ w.edits = v.edits /\ w.baseline = v.baseline
  /\ w.save.snap = v.save.snap
  /\ w.save.ph # "idle" <=> v.save.ph # "idle"
  /\ v.save.failed => w.save.failed
  /\ w.save.failed \/ w.save.todo = v.save.todo

LEMMA SameDrawn ==
  ASSUME NEW v, NEW w, SameSave(v, w), Drawn(v)
  PROVE  Drawn(w)
  BY DEF SameSave, Drawn

LEMMA SamePartly ==
  ASSUME NEW v, NEW w, SameSave(v, w), NEW L, Partly(L, v), ~w.save.failed
  PROVE  Partly(L, w)
  BY DEF SameSave, Partly

LEMMA SavesGoOn ==
  ASSUME LinkInv, \A c \in Canvases : SameSave(canvas[c], canvas'[c]),
         UNCHANGED links, torn => torn', Kept',
         ~torn' /\ (\A c \in Canvases : ~Failing(c)') =>
           Stored(Loaded(disk), links, writes)'
  PROVE  LinkInv'
  <1>1. \A c \in Canvases : (Saving(c)' <=> Saving(c)) /\ (Failing(c) => Failing(c)')
    BY DEF SameSave, Saving, Failing
  <1>2. \A c \in Canvases : Drawn(canvas'[c])
    BY SameDrawn DEF LinkInv
  <1>3. ASSUME NEW c \in Canvases, ~torn', Saving(c)', ~Failing(c)'
        PROVE  Partly(links', canvas'[c])
    <2>1. Saving(c) /\ ~Failing(c) /\ ~canvas'[c].save.failed /\ ~torn
      BY <1>1, <1>3 DEF Failing
    <2>2. Partly(links, canvas[c])
      BY <2>1 DEF LinkInv, Whole
    <2> QED
      BY <2>1, <2>2, SamePartly
  <1>4. ASSUME ~torn'
        PROVE  /\ \A c, d \in Canvases : Saving(c)' /\ Saving(d)' => c = d
               /\ (\A c \in Canvases : ~Saving(c)') => TwoWay(links')
    BY <1>1, <1>4 DEF LinkInv, Whole
  <1>5. Whole'
    BY <1>3, <1>4 DEF Whole
  <1> QED
    BY <1>2, <1>5 DEF LinkInv

\* The same, when the file and its queue stay too.
LEMMA ServerGoesOn ==
  ASSUME LinkInv, \A c \in Canvases : SameSave(canvas[c], canvas'[c]),
         UNCHANGED <<links, disk, writes>>, torn => torn'
  PROVE  LinkInv'
  <1>1. Loaded(disk)' = Loaded(disk)
    BY DEF Loaded, Migrated
  <1>2. Kept'
    BY <1>1 DEF LinkInv, Kept
  <1>3. \A c \in Canvases : Failing(c) => Failing(c)'
    BY DEF SameSave, Saving, Failing
  <1>4. ~torn' /\ (\A c \in Canvases : ~Failing(c)') => Stored(Loaded(disk), links, writes)
    BY <1>3 DEF LinkInv, Whole
  <1>5. ~torn' /\ (\A c \in Canvases : ~Failing(c)') => Stored(Loaded(disk), links, writes)'
    BY <1>1, <1>4
  <1> QED
    BY <1>2, <1>5, SavesGoOn

LEMMA AnsweredSame ==
  ASSUME Typed, NEW D, NEW ok \in BOOLEAN,
         canvas' = [c \in Canvases |->
           IF c \in D THEN [canvas[c] EXCEPT !.save = Answered(@, ok)] ELSE canvas[c]],
         \A c \in Canvases : c \in D => canvas[c].save.ph # "idle"
  PROVE  \A c \in Canvases : SameSave(canvas[c], canvas'[c])
  <1> SUFFICES ASSUME NEW c \in Canvases PROVE SameSave(canvas[c], canvas'[c])
    OBVIOUS
  <1>1. PICK v \in CanvasType : v = canvas[c] /\ v.save \in SaveType
    BY CanvasAt
  <1>2. CASE c \in D
    <2>1. PICK save : save = Answered(v.save, ok)
      OBVIOUS
    <2>2. canvas'[c] = [v EXCEPT !.save = save]
      BY <1>1, <1>2, <2>1
    <2>3. /\ save.ph = "saving" /\ save.snap = v.save.snap /\ save.todo = v.save.todo
          /\ v.save.failed => save.failed
      BY <1>1, <2>1 DEF Answered, SaveType
    <2>4. v.save.ph # "idle"
      BY <1>1, <1>2
    <2> QED
      BY <1>1, <2>2, <2>3, <2>4 DEF SameSave, CanvasType
  <1>3. CASE c \notin D
    BY <1>1, <1>3 DEF SameSave
  <1> QED
    BY <1>2, <1>3

LEMMA EndLinks ==
  ASSUME LinkInv, Typed, Served, NEW s \in 1..Slots, Busy(s), NEW ok, End(s, ok),
         UNCHANGED <<links, disk, writes, torn>>
  PROVE  LinkInv'
  <1>1. PICK D : D = {c \in Canvases : delivery[s].to = c}
    OBVIOUS
  <1>2. canvas' = [c \in Canvases |->
          IF c \in D THEN [canvas[c] EXCEPT !.save = Answered(@, TRUE)] ELSE canvas[c]]
    BY <1>1 DEF End
  <1>3. \A c \in Canvases : c \in D => canvas[c].save.ph # "idle"
    BY <1>1 DEF Served
  <1>4. \A c \in Canvases : SameSave(canvas[c], canvas'[c])
    BY <1>2, <1>3, AnsweredSame
  <1> QED
    BY <1>4, ServerGoesOn

LEMMA GameLinks ==
  ASSUME LinkInv, Typed, Served, NetTyped, NEW i, GameRestart(i)
  PROVE  LinkInv'
  <1>1. PICK slots : slots = {s \in 1..Slots : delivery[s] # Free /\ delivery[s].at = i}
    OBVIOUS
  <1>2. PICK D : D = {c \in Canvases : \E s \in slots : delivery[s].to = c}
    OBVIOUS
  <1>3. canvas' = [c \in Canvases |->
          IF c \in D THEN [canvas[c] EXCEPT !.save = Answered(@, TRUE)] ELSE canvas[c]]
    BY <1>1, <1>2 DEF GameRestart
  <1>4. \A c \in D : \E s \in 1..Slots : Busy(s) /\ delivery[s].to = c
    BY <1>1, <1>2, BusyIsDelivery
  <1>5. \A c \in Canvases : c \in D => canvas[c].save.ph # "idle"
    BY <1>4 DEF Served
  <1>6. \A c \in Canvases : SameSave(canvas[c], canvas'[c])
    BY <1>3, <1>5, AnsweredSame
  <1>7. UNCHANGED <<links, disk, writes, torn>>
    BY DEF GameRestart, server
  <1> QED
    BY <1>6, <1>7, ServerGoesOn

LEMMA PushLinks ==
  ASSUME LinkInv, Typed, NEW c \in Canvases, Push(c)
  PROVE  LinkInv'
  <1>0. PICK v \in CanvasType : v = canvas[c] /\ v.save \in SaveType
    BY CanvasAt
  <1>1. UNCHANGED <<links, disk, writes, torn>> /\ canvas[c].save.ph = "pushing"
    BY DEF Push, server
  <1>2. canvas = [d \in Canvases |-> canvas[d]]
    BY DEF Typed
  <1>3. \A d : SameSave(canvas[d], canvas[d])
    BY DEF SameSave
  <1>4. CASE IsOnline(canvas[c].save.at)
    <2>1. canvas' = [canvas EXCEPT ![c].save.ph = "waiting"]
      BY <1>4 DEF Push
    <2>2. canvas' = [canvas EXCEPT ![c] = [v EXCEPT !.save = [v.save EXCEPT !.ph = "waiting"]]]
      BY <1>0, <1>2, <2>1 DEF CanvasType, SaveType
    <2>3. SameSave(v, [v EXCEPT !.save = [v.save EXCEPT !.ph = "waiting"]])
      BY <1>0, <1>1 DEF SameSave, CanvasType, SaveType
    <2>4. \A d \in Canvases : SameSave(canvas[d], canvas'[d])
      BY <1>0, <1>2, <1>3, <2>2, <2>3
    <2> QED
      BY <1>1, <2>4, ServerGoesOn
  <1>5. CASE ~IsOnline(canvas[c].save.at)
    <2>1. PICK D : D = {c}
      OBVIOUS
    <2>2. canvas' = [canvas EXCEPT ![c].save = Answered(@, TRUE)]
      BY <1>5 DEF Push
    <2>3. canvas' = [d \in Canvases |->
            IF d \in D THEN [canvas[d] EXCEPT !.save = Answered(@, TRUE)] ELSE canvas[d]]
      BY <1>2, <2>1, <2>2
    <2>4. \A d \in Canvases : SameSave(canvas[d], canvas'[d])
      BY <1>1, <2>1, <2>3, AnsweredSame
    <2> QED
      BY <1>1, <2>4, ServerGoesOn
  <1> QED
    BY <1>4, <1>5

-----------------------------------------------------------------------------
(* Steps of the file and of the map. *)

\* The queue is written from its front.
LEMMA StoredTail ==
  ASSUME NEW S, NEW q \in Seq(S), q # <<>>, NEW loaded, NEW L, Stored(loaded, L, q),
         NEW r, r = Tail(q), NEW now,
         \/ now = q[1].links
         \/ now = loaded /\ (Len(q) = 1 => now = L)
  PROVE  Stored(now, L, r)
  <1>1. /\ Len(q) \in Nat /\ Len(q) >= 1 /\ 1 \in DOMAIN q
        /\ DOMAIN r = 1..(Len(q) - 1) /\ DOMAIN q = 1..Len(q)
        /\ \A n \in DOMAIN r : r[n] = q[n + 1]
        /\ r \in Seq(S)
    BY TailFrom
  <1>2. /\ q[Len(q)].links = L
        /\ \A n \in DOMAIN q : q[n].by = "load" => n = 1
    BY DEF Stored
  <1>3. \A n \in DOMAIN r : r[n].by # "load"
    <2> SUFFICES ASSUME NEW n \in DOMAIN r PROVE r[n].by # "load"
      OBVIOUS
    <2>1. n + 1 \in DOMAIN q /\ n + 1 # 1 /\ r[n] = q[n + 1]
      BY <1>1
    <2> QED
      BY <1>2, <2>1
  <1>4. CASE Len(q) = 1
    <2>1. now = L
      BY <1>2, <1>4
    <2>2. r = <<>>
      BY <1>1, <1>4
    <2> QED
      BY <1>3, <2>1, <2>2 DEF Stored
  <1>5. CASE Len(q) # 1
    <2>1. Len(r) = Len(q) - 1 /\ Len(r) \in DOMAIN r
      BY <1>1, <1>5
    <2>2. r[Len(r)] = q[Len(q)]
      <3>1. PICK k : k = Len(r)
        OBVIOUS
      <3>2. r[k] = q[k + 1] /\ k + 1 = Len(q)
        BY <1>1, <2>1, <3>1
      <3> QED
        BY <3>1, <3>2
    <2>3. r # <<>>
      <3>1. DOMAIN <<>> = {}
        OBVIOUS
      <3> QED
        BY <2>1, <3>1
    <2> QED
      BY <1>2, <1>3, <2>2, <2>3 DEF Stored
  <1> QED
    BY <1>4, <1>5

LEMMA WriteLinks ==
  ASSUME LinkInv, Typed, OnDisk, Write \/ WriteFails
  PROVE  LinkInv'
  <1>1. writes # <<>> /\ writes' = Tail(writes) /\ UNCHANGED <<links, torn>>
    BY DEF Write, WriteFails
  <1>2. PICK q \in Seq(WriteType) : q = writes
    BY DEF Typed
  <1>3. PICK r : r = writes' /\ r = Tail(q) /\ q # <<>>
    BY <1>1, <1>2
  <1>4. PICK h : h = q[1] /\ h = Head(writes) /\ h \in WriteType
    <2>1. Head(q) = q[1] /\ 1 \in DOMAIN q
      BY <1>2, <1>3, TailFrom
    <2>2. q[1] \in WriteType
      BY <2>1, Elements
    <2> QED
      BY <1>2, <2>1, <2>2
  <1>5. 1 \in DOMAIN q /\ \A n \in DOMAIN r : n + 1 \in DOMAIN q /\ r[n] = q[n + 1]
    <2>1. PICK S : S = WriteType
      OBVIOUS
    <2>2. /\ Len(q) \in Nat /\ Len(q) >= 1 /\ 1 \in DOMAIN q
          /\ DOMAIN r = 1..(Len(q) - 1) /\ DOMAIN q = 1..Len(q)
          /\ \A n \in DOMAIN r : r[n] = q[n + 1]
      BY <1>3, <2>1, TailFrom
    <2> QED
      BY <2>2
  <1>6. h.by \in Canvases => Writing(h.by)
    BY <1>2, <1>4, <1>5 DEF OnDisk
  <1>7. Paired(h.links)
    BY <1>2, <1>4, <1>5 DEF LinkInv, Kept
  <1>8. Loaded(disk') = h.links \/ (WriteFails /\ Loaded(disk') = Loaded(disk))
    <2>1. CASE Write
      <3>1. disk' = File(h.links) /\ h.links \in Edits
        BY <1>4, <2>1 DEF Write, WriteType
      <3> QED
        BY <3>1, LoadedFile
    <2>2. CASE WriteFails
      BY <2>2 DEF WriteFails, Loaded, Migrated
    <2> QED
      BY <2>1, <2>2
  <1>9. Kept'
    BY <1>1, <1>2, <1>3, <1>5, <1>7, <1>8 DEF LinkInv, Kept
  <1>10. ASSUME NEW c \in Canvases
         PROVE  /\ SameSave(canvas[c], canvas'[c])
                /\ c = h.by /\ WriteFails => Failing(c)'
    <2>1. PICK v \in CanvasType : v = canvas[c] /\ v.save \in SaveType
      BY CanvasAt
    <2>2. CASE c # h.by
      <3>1. canvas'[c] = canvas[c]
        BY <1>4, <2>2 DEF Write, WriteFails
      <3> QED
        BY <2>2, <3>1 DEF SameSave
    <2>3. CASE c = h.by /\ Write
      <3>1. canvas'[c] = [v EXCEPT !.save.ph = "pushing"]
        BY <1>4, <2>1, <2>3 DEF Write
      <3>2. v.save.ph = "writing"
        BY <1>6, <2>1, <2>3 DEF Writing
      <3>3. ~WriteFails
        <4>1. ASSUME WriteFails PROVE FALSE
          <5>1. PICK D : D = {h.by}
            OBVIOUS
          <5>2. canvas' = [d \in Canvases |->
                  IF d \in D THEN [canvas[d] EXCEPT !.save = Answered(@, FALSE)] ELSE canvas[d]]
            BY <1>4, <4>1, <5>1 DEF WriteFails
          <5>3. c \in D
            BY <2>3, <5>1
          <5>4. canvas'[c].save.ph = "saving"
            BY <5>2, <5>3, AnsweredCanvas
          <5> QED
            BY <2>1, <3>1, <5>4 DEF CanvasType, SaveType
        <4> QED
          BY <4>1
      <3> QED
        BY <2>1, <3>1, <3>2, <3>3 DEF SameSave, CanvasType, SaveType
    <2>4. CASE c = h.by /\ WriteFails
      <3>1. PICK D : D = {h.by}
        OBVIOUS
      <3>2. canvas' = [d \in Canvases |->
              IF d \in D THEN [canvas[d] EXCEPT !.save = Answered(@, FALSE)] ELSE canvas[d]]
        BY <1>4, <2>4, <3>1 DEF WriteFails
      <3>3. \A d \in Canvases : d \in D => canvas[d].save.ph # "idle"
        BY <1>6, <3>1 DEF Writing
      <3>4. SameSave(canvas[c], canvas'[c])
        BY <3>2, <3>3, AnsweredSame
      <3>5. canvas'[c].save.ph = "saving" /\ canvas'[c].save.failed
        <4>1. PICK save : save = Answered(v.save, FALSE)
          OBVIOUS
        <4>2. canvas'[c] = [canvas[c] EXCEPT !.save = Answered(@, FALSE)]
          BY <2>4, <3>1, <3>2
        <4>3. canvas'[c] = [v EXCEPT !.save = save]
          BY <2>1, <4>1, <4>2
        <4>4. save.ph = "saving" /\ save.failed
          BY <2>1, <4>1 DEF Answered, SaveType
        <4> QED
          BY <2>1, <4>3, <4>4 DEF CanvasType
      <3> QED
        BY <3>4, <3>5 DEF Failing, Saving
    <2> QED
      BY <2>2, <2>3, <2>4
  <1>11. ASSUME ~torn', \A c \in Canvases : ~Failing(c)'
         PROVE  Stored(Loaded(disk'), links', writes')
    <2>1. \A c \in Canvases : ~Failing(c)
      BY <1>10, <1>11 DEF SameSave, Failing, Saving
    <2>2. Stored(Loaded(disk), links, q)
      BY <1>1, <1>2, <1>11, <2>1 DEF LinkInv, Whole
    <2>3. Loaded(disk') = q[1].links \/ (Loaded(disk') = Loaded(disk) /\ q[1].links = Loaded(disk))
      <3>1. CASE Loaded(disk') = h.links
        BY <1>4, <3>1
      <3>2. CASE WriteFails /\ Loaded(disk') = Loaded(disk)
        <4>1. h.by \notin Canvases
          BY <1>10, <1>11, <3>2
        <4>2. h.by = "load"
          BY <1>4, <4>1 DEF WriteType
        <4>3. q[1].links = Loaded(disk)
          BY <1>4, <1>5, <2>2, <4>2 DEF Stored
        <4> QED
          BY <3>2, <4>3
      <3> QED
        BY <1>8, <3>1, <3>2
    <2>4. PICK now : now = Loaded(disk') /\ now = q[1].links
      BY <2>3
    <2>5. PICK S, loaded : S = WriteType /\ loaded = Loaded(disk)
      OBVIOUS
    <2>6. Stored(now, links, r)
      BY <1>2, <1>3, <2>2, <2>4, <2>5, StoredTail
    <2> QED
      BY <1>1, <1>3, <2>4, <2>6
  <1> QED
    BY <1>1, <1>9, <1>10, <1>11, SavesGoOn

\* What a restart puts in the file and in the map is the same.
LEMMA StoredMigration ==
  ASSUME NEW file, NEW L, L = Loaded(file), Paired(L)
  PROVE  /\ Stored(L, L, Migration(file))
         /\ \A n \in DOMAIN Migration(file) : Paired(Migration(file)[n].links)
  <1>1. CASE file.legacy = {}
    <2>1. Migration(file) = <<>>
      BY <1>1 DEF Migration
    <2>2. DOMAIN <<>> = {}
      OBVIOUS
    <2> QED
      BY <2>1, <2>2 DEF Stored
  <1>2. CASE file.legacy # {}
    <2>1. PICK e : e = [links |-> Loaded(file), by |-> "load"]
      OBVIOUS
    <2>2. e.links = L
      BY <2>1
    <2>3. PICK q : q = Migration(file) /\ q = <<e>>
      BY <1>2, <2>1 DEF Migration
    <2>4. q # <<>> /\ Len(q) = 1 /\ q[1] = e /\ \A n \in DOMAIN q : n = 1
      BY <2>3
    <2>5. Stored(L, L, q)
      BY <2>2, <2>4 DEF Stored
    <2> QED
      BY <2>2, <2>3, <2>4, <2>5
  <1> QED
    BY <1>1, <1>2

LEMMA RestartLinks ==
  ASSUME LinkInv, Typed, OnDisk, ControllerRestart
  PROVE  LinkInv'
  <1>1. /\ links' = Loaded(disk) /\ writes' = Migration(disk) /\ UNCHANGED disk
        /\ torn' = (torn \/ \E c \in Canvases : Saving(c))
        /\ canvas' = [c \in Canvases |->
             IF canvas[c].save.ph \in {"writing", "pushing", "waiting"}
             THEN [canvas[c] EXCEPT !.save = Answered(@, FALSE)] ELSE canvas[c]]
    BY DEF ControllerRestart
  <1>2. PICK D : D = {c \in Canvases : canvas[c].save.ph \in {"writing", "pushing", "waiting"}}
    OBVIOUS
  <1>3. canvas' = [c \in Canvases |->
          IF c \in D THEN [canvas[c] EXCEPT !.save = Answered(@, FALSE)] ELSE canvas[c]]
    BY <1>1, <1>2
  <1>4. \A c \in Canvases : c \in D => canvas[c].save.ph # "idle"
    BY <1>2
  <1>5. \A c \in Canvases : SameSave(canvas[c], canvas'[c])
    BY <1>3, <1>4, AnsweredSame
  <1>6. Loaded(disk)' = Loaded(disk) /\ Paired(Loaded(disk))
    BY <1>1 DEF LinkInv, Kept, Loaded, Migrated
  <1>7. PICK L : L = Loaded(disk)
    OBVIOUS
  <1>8. /\ Stored(L, L, Migration(disk))
        /\ \A n \in DOMAIN Migration(disk) : Paired(Migration(disk)[n].links)
    BY <1>6, <1>7, StoredMigration
  <1>9. Kept'
    BY <1>1, <1>6, <1>8 DEF Kept
  <1>10. CASE torn'
    <2>1. \A c \in Canvases : Drawn(canvas'[c])
      BY <1>5, SameDrawn DEF LinkInv
    <2> QED
      BY <1>9, <1>10, <2>1 DEF LinkInv, Whole
  <1>11. CASE ~torn'
    <2>1. ~torn /\ \A c \in Canvases : ~Saving(c) /\ ~Failing(c)
      BY <1>1, <1>11 DEF Failing
    <2>2. PICK q \in Seq(WriteType) : q = writes
      BY DEF Typed
    <2>3. Stored(L, links, q)
      BY <1>7, <2>1, <2>2 DEF LinkInv, Whole
    <2>4. \A n \in DOMAIN q : q[n].by = "load"
      <3> SUFFICES ASSUME NEW n \in DOMAIN q PROVE q[n].by = "load"
        OBVIOUS
      <3>1. q[n] \in WriteType
        BY Elements
      <3>2. q[n].by \notin Canvases
        BY <2>1, <2>2 DEF OnDisk, Writing, Saving
      <3> QED
        BY <3>1, <3>2 DEF WriteType
    <2>5. links = L
      <3>1. CASE q = <<>>
        BY <2>3, <3>1 DEF Stored
      <3>2. CASE q # <<>>
        <4>1. Len(q) \in DOMAIN q
          BY <2>2, <3>2, TailFrom
        <4>2. q[Len(q)].links = L /\ q[Len(q)].links = links
          BY <2>3, <2>4, <3>2, <4>1 DEF Stored
        <4> QED
          BY <4>2
      <3> QED
        BY <3>1, <3>2
    <2>6. UNCHANGED links /\ Stored(Loaded(disk), links, writes)'
      BY <1>1, <1>6, <1>7, <1>8, <2>5
    <2> QED
      BY <1>1, <1>5, <1>9, <2>6, SavesGoOn
  <1> QED
    BY <1>10, <1>11

-----------------------------------------------------------------------------
(* Steps of a canvas. *)

\* The links of a gateway that did not change.
LEMMA SameTargets ==
  ASSUME NEW E, NEW B, NEW k, k \notin DirtyKeys(E, B)
  PROVE  Targets(E, k) = Targets(B, k)
  <1>1. ASSUME NEW b, <<k, b>> \in E \/ <<k, b>> \in B PROVE <<k, b>> \in E /\ <<k, b>> \in B
    <2>1. PICK l : l = <<k, b>>
      OBVIOUS
    <2>2. l[1] = k
      BY <2>1
    <2>3. l \notin (E \ B) \cup (B \ E)
      BY <2>2 DEF DirtyKeys
    <2> QED
      BY <1>1, <2>1, <2>3
  <1> QED
    BY <1>1 DEF Targets

LEMMA DirtyShown ==
  ASSUME NEW E, NEW B, NEW names, Shown(E, names), Shown(B, names), NEW k \in DirtyKeys(E, B)
  PROVE  k[2] \in names
  BY DEF DirtyKeys, Shown

\* A step that edits a canvas, or loads it while it does not save.
LEMMA EditLinks ==
  ASSUME LinkInv, Typed, NEW c \in Canvases, NEW w, canvas' = [canvas EXCEPT ![c] = w],
         UNCHANGED <<links, disk, writes, torn>>, Drawn(w),
         \/ w.save.ph = "idle" /\ canvas[c].save.ph = "idle"
         \/ /\ w.save = canvas[c].save /\ w.mode = canvas[c].mode
            /\ w.baseline = canvas[c].baseline
  PROVE  LinkInv'
  <1>1. canvas'[c] = w /\ \A d \in Canvases : d # c => canvas'[d] = canvas[d]
    BY DEF Typed
  <1>2. Loaded(disk)' = Loaded(disk)
    BY DEF Loaded, Migrated
  <1>3. Kept'
    BY <1>2 DEF LinkInv, Kept
  <1>4. \A d \in Canvases : Drawn(canvas'[d])
    BY <1>1 DEF LinkInv
  <1>5. \A d \in Canvases : (Saving(d)' <=> Saving(d)) /\ (Failing(d)' <=> Failing(d))
    BY <1>1 DEF Saving, Failing
  <1>6. ASSUME NEW d \in Canvases, Saving(d)', ~Failing(d)', ~torn'
        PROVE  Partly(links', canvas'[d])
    <2>1. Partly(links, canvas[d])
      BY <1>5, <1>6 DEF LinkInv, Whole
    <2> QED
      BY <1>1, <1>6, <2>1 DEF Partly, Saving
  <1>7. Whole'
    BY <1>2, <1>5, <1>6 DEF LinkInv, Whole
  <1> QED
    BY <1>3, <1>4, <1>7 DEF LinkInv

LEMMA ClickLinks ==
  ASSUME LinkInv, Typed, NEW c \in Canvases, NEW e, Click(c, e),
         Shown(e, NamesFor(canvas[c].mode)), TwoWay(canvas[c].edits) => TwoWay(e)
  PROVE  LinkInv'
  <1>1. PICK v \in CanvasType : v = canvas[c]
    BY CanvasAt
  <1>2. PICK w : w = [v EXCEPT !.edits = e]
    OBVIOUS
  <1>3. canvas' = [canvas EXCEPT ![c] = w] /\ UNCHANGED <<links, disk, writes, torn>>
    BY <1>1, <1>2 DEF Click, server
  <1>4. w.save = v.save /\ w.mode = v.mode /\ w.baseline = v.baseline /\ w.edits = e
    BY <1>2 DEF CanvasType
  <1>5. Drawn(w)
    BY <1>1, <1>4 DEF LinkInv, Drawn
  <1> QED
    BY <1>1, <1>3, <1>4, <1>5, EditLinks

LEMMA EdgesLinks ==
  ASSUME LinkInv, Typed, NEW c \in Canvases, Connect(c) \/ EdgeClick(c) \/ BulkLink(c)
  PROVE  LinkInv'
  <1>1. PICK E \in Edits, m \in Modes : E = canvas[c].edits /\ m = canvas[c].mode
    BY CanvasAt
  <1>2. Shown(E, NamesFor(m))
    BY <1>1 DEF LinkInv, Drawn
  <1>3. CASE Connect(c)
    <2>1. PICK a, b \in Instances \X NamesFor(m) : Click(c, ApplyConnect(E, a, b))
      BY <1>1, <1>3 DEF Connect
    <2>2. PICK e : e = ApplyConnect(E, a, b)
      OBVIOUS
    <2>3. Shown(e, NamesFor(m)) /\ (TwoWay(E) => TwoWay(e))
      BY <1>2, <2>2, ConnectShown
    <2> QED
      BY <1>1, <2>1, <2>2, <2>3, ClickLinks
  <1>4. CASE EdgeClick(c)
    <2>1. PICK a \in Keys, b \in Keys : Click(c, ApplyDisconnect(E, a, b))
      BY <1>1, <1>4 DEF EdgeClick
    <2>2. PICK e : e = ApplyDisconnect(E, a, b)
      OBVIOUS
    <2>3. Shown(e, NamesFor(m)) /\ (TwoWay(E) => TwoWay(e))
      BY <1>2, <2>2, DisconnectShown
    <2> QED
      BY <1>1, <2>1, <2>2, <2>3, ClickLinks
  <1>5. CASE BulkLink(c)
    <2>1. PICK ids \in Selections, g \in NamesFor(m), connect \in BOOLEAN :
            Click(c, PlanBulkLink(E, ids, g, m, connect))
      BY <1>1, <1>5 DEF BulkLink
    <2>2. PICK if \in BOOLEAN : if <=> TwoWay(E)
      <3>1. CASE TwoWay(E)
        BY <3>1
      <3>2. CASE ~TwoWay(E)
        BY <3>2
      <3> QED
        BY <3>1, <3>2
    <2>3. E \in Ways(NamesFor(m), if)
      BY <1>2, <2>2 DEF Ways
    <2>4. PICK e : e = PlanBulkLink(E, ids, g, m, connect)
      OBVIOUS
    <2>5. e \in Ways(NamesFor(m), if)
      BY <2>3, <2>4, BulkShown
    <2>6. Shown(e, NamesFor(m)) /\ (TwoWay(E) => TwoWay(e))
      BY <2>2, <2>5 DEF Ways
    <2> QED
      BY <1>1, <2>1, <2>4, <2>6, ClickLinks
  <1> QED
    BY <1>3, <1>4, <1>5

LEMMA LoadLinks ==
  ASSUME LinkInv, Typed, NEW c \in Canvases, Load(c) \/ Revert(c)
  PROVE  LinkInv'
  <1>1. PICK v \in CanvasType : v = canvas[c]
    BY CanvasAt
  <1>2. UNCHANGED <<links, disk, writes, torn>> /\ v.save.ph = "idle"
    BY <1>1 DEF Load, Revert, server
  <1>3. CASE Load(c)
    <2>1. PICK loaded : loaded = EditsFromLinks(links, NamesFor(mode))
      OBVIOUS
    <2>2. PICK w : w = [mode |-> mode, edits |-> loaded, baseline |-> loaded, save |-> Idle]
      OBVIOUS
    <2>3. canvas' = [canvas EXCEPT ![c] = w]
      BY <1>3, <2>1, <2>2 DEF Load
    <2>4. Shown(loaded, NamesFor(mode))
      BY <2>1, LoadedShown DEF LinkInv, Kept, Typed
    <2>5. w.mode = mode /\ w.edits = loaded /\ w.baseline = loaded /\ w.save.ph = "idle"
      BY <2>2 DEF Idle
    <2>6. Drawn(w)
      BY <2>4, <2>5 DEF Drawn
    <2> QED
      BY <1>1, <1>2, <2>3, <2>5, <2>6, EditLinks
  <1>4. CASE Revert(c)
    <2>1. PICK w : w = [v EXCEPT !.edits = v.baseline]
      OBVIOUS
    <2>2. canvas' = [canvas EXCEPT ![c] = w]
      BY <1>1, <1>4, <2>1 DEF Revert
    <2>3. w.mode = v.mode /\ w.edits = v.baseline /\ w.baseline = v.baseline /\ w.save = v.save
      BY <2>1 DEF CanvasType
    <2>4. Drawn(w)
      BY <1>1, <1>2, <2>3 DEF LinkInv, Drawn
    <2> QED
      BY <1>1, <1>2, <2>2, <2>3, <2>4, EditLinks
  <1> QED
    BY <1>3, <1>4

\* A save that begins from the map as it is has all of it to submit.
LEMMA AllToSubmit ==
  ASSUME NEW L \in Edits, Paired(L), TwoWay(L), NEW v \in CanvasType, Drawn(v),
         v.baseline = EditsFromLinks(L, NamesFor(v.mode)),
         v.save.ph # "idle", v.save.snap = v.edits,
         \A k \in DirtyKeys(v.edits, v.baseline) : k[1] \in v.save.todo
  PROVE  Partly(L, v)
  <1>1. PICK m, E, B : m = v.mode /\ E = v.edits /\ B = v.baseline /\ m \in Modes
    BY DEF CanvasType
  <1>2. B = EditsFromLinks(L, NamesFor(m)) /\ TwoWay(B)
    BY <1>1, LoadedShown
  <1>3. TwoWay(E)
    BY <1>1, <1>2 DEF Drawn
  <1>4. ASSUME NEW k \in Keys, k[2] \in NamesFor(m)
        PROVE  Targets(L, k) = Targets(IF k[1] \in v.save.todo THEN B ELSE E, k)
    <2>1. Targets(L, k) = Targets(B, k)
      BY <1>2, <1>4 DEF Targets, EditsFromLinks
    <2>2. k[1] \notin v.save.todo => Targets(E, k) = Targets(B, k)
      BY <1>1, SameTargets
    <2> QED
      BY <2>1, <2>2
  <1>5. \A l \in L : <<l[2], l[1]>> \in L
    BY DEF TwoWay
  <1> QED
    BY <1>1, <1>3, <1>4, <1>5 DEF Partly

LEMMA BeginLinks ==
  ASSUME LinkInv, Typed, NEW c \in Canvases, BeginSave(c)
  PROVE  LinkInv'
  <1>1. PICK v \in CanvasType : v = canvas[c]
    BY CanvasAt
  <1>2. PICK todo, keys : /\ todo = {k[1] : k \in DirtyKeys(v.edits, v.baseline)}
                          /\ keys = NamesFor(v.mode)
    OBVIOUS
  <1>3. PICK save : save = [Idle EXCEPT !.ph = "saving", !.todo = todo, !.snap = v.edits]
    OBVIOUS
  <1>4. PICK w : w = [v EXCEPT !.save = save]
    OBVIOUS
  <1>5. /\ UNCHANGED <<links, disk, writes>> /\ ~Saving(c)
        /\ canvas' = [canvas EXCEPT ![c] = w]
        /\ torn' = (torn \/ v.baseline # EditsFromLinks(links, keys)
                         \/ \E d \in Canvases : Saving(d))
    BY <1>1, <1>2, <1>3, <1>4 DEF BeginSave, server
  <1>6. save.ph = "saving" /\ save.todo = todo /\ save.snap = v.edits /\ save.failed = FALSE
    BY <1>3 DEF Idle
  <1>7. w.mode = v.mode /\ w.edits = v.edits /\ w.baseline = v.baseline /\ w.save = save
    BY <1>4 DEF CanvasType
  <1>8. canvas'[c] = w /\ \A d \in Canvases : d # c => canvas'[d] = canvas[d]
    BY <1>5 DEF Typed
  <1>9. Drawn(v)
    BY <1>1 DEF LinkInv
  <1>10. Drawn(w)
    BY <1>6, <1>7, <1>9 DEF Drawn
  <1>11. \A d \in Canvases : Drawn(canvas'[d])
    BY <1>8, <1>10 DEF LinkInv
  <1>12. Loaded(disk)' = Loaded(disk) /\ Kept'
    BY <1>5 DEF LinkInv, Kept, Loaded, Migrated
  <1>13. ASSUME ~torn' PROVE Whole'
    <2>1. ~torn /\ v.baseline = EditsFromLinks(links, keys) /\ \A d \in Canvases : ~Saving(d)
      BY <1>5, <1>13
    <2>2. /\ Saving(c)' /\ ~Failing(c)'
          /\ \A d \in Canvases : d # c => ~Saving(d)' /\ ~Failing(d)' /\ ~Failing(d)
      BY <1>6, <1>7, <1>8, <2>1 DEF Saving, Failing
    <2>3. TwoWay(links) /\ ~Failing(c) /\ Stored(Loaded(disk), links, writes)
      BY <2>1, <2>2 DEF LinkInv, Whole, Failing
    <2>4. w \in CanvasType
      <3>1. todo \in SUBSET Instances
        BY <1>1, <1>2 DEF DirtyKeys, CanvasType, Edits, Keys
      <3>2. save \in SaveType
        BY <1>3, <3>1, IdleType DEF SaveType, CanvasType
      <3> QED
        BY <1>4, <3>2, SaveOfCanvas
    <2>5. \A k \in DirtyKeys(w.edits, w.baseline) : k[1] \in w.save.todo
      BY <1>2, <1>6, <1>7
    <2>6. Partly(links, w)
      BY <1>2, <1>6, <1>7, <1>10, <2>1, <2>3, <2>4, <2>5, AllToSubmit DEF LinkInv, Kept, Typed
    <2> QED
      BY <1>5, <1>8, <1>12, <2>2, <2>3, <2>6 DEF Whole
  <1>14. Whole'
    BY <1>13 DEF Whole
  <1> QED
    BY <1>11, <1>12, <1>14 DEF LinkInv

\* A save that submitted all it had leaves a map that has both ends of every edge.
LEMMA AllSubmitted ==
  ASSUME NEW L \in Edits, Paired(L), NEW v \in CanvasType, Shown(v.save.snap, NamesFor(v.mode)),
         Partly(L, v), v.save.todo = {}
  PROVE  TwoWay(L)
  <1> SUFFICES ASSUME NEW l \in L PROVE <<l[2], l[1]>> \in L
    BY DEF TwoWay
  <1>1. PICK m, S : m = v.mode /\ S = v.save.snap /\ m \in Modes
    BY DEF CanvasType
  <1>2. l = <<l[1], l[2]>> /\ l[1] \in Keys /\ l[2] \in Keys
    BY LinkParts
  <1>3. l[1][2] \in NamesFor(m) <=> l[2][2] \in NamesFor(m)
    BY <1>1, PairedNames
  <1>4. \A k \in Keys : k[2] \in NamesFor(m) => Targets(L, k) = Targets(S, k)
    BY <1>1 DEF Partly
  <1>5. CASE l[1][2] \in NamesFor(m)
    <2>1. l[2] \in Targets(L, l[1])
      BY <1>2 DEF Targets
    <2>2. <<l[1], l[2]>> \in S
      BY <1>2, <1>4, <1>5, <2>1 DEF Targets
    <2>3. <<l[2], l[1]>> \in S
      BY <1>1, <1>2, <2>2 DEF Partly, TwoWay
    <2>4. l[1] \in Targets(S, l[2])
      BY <1>2, <2>3 DEF Targets
    <2>5. l[1] \in Targets(L, l[2])
      BY <1>2, <1>3, <1>4, <1>5, <2>4
    <2> QED
      BY <2>5 DEF Targets
  <1>6. CASE l[1][2] \notin NamesFor(m)
    BY <1>1, <1>6 DEF Partly
  <1> QED
    BY <1>5, <1>6

LEMMA EndSaveLinks ==
  ASSUME LinkInv, Typed, NEW c \in Canvases, EndSave(c)
  PROVE  LinkInv'
  <1>1. PICK v \in CanvasType : v = canvas[c] /\ v.save \in SaveType
    BY CanvasAt
  <1>2. PICK base : base = IF v.save.failed THEN v.baseline ELSE v.save.snap
    OBVIOUS
  <1>3. PICK w : w = [v EXCEPT !.save = Idle, !.baseline = base]
    OBVIOUS
  <1>4. /\ UNCHANGED <<links, disk, writes>> /\ v.save.ph = "saving" /\ v.save.todo = {}
        /\ canvas' = [canvas EXCEPT ![c] = w] /\ torn' = (torn \/ v.save.failed)
    BY <1>1, <1>2, <1>3 DEF EndSave, server, Typed
  <1>5. w.mode = v.mode /\ w.edits = v.edits /\ w.baseline = base /\ w.save.ph = "idle"
    BY <1>3 DEF CanvasType, Idle
  <1>6. canvas'[c] = w /\ \A d \in Canvases : d # c => canvas'[d] = canvas[d]
    BY <1>4 DEF Typed
  <1>7. Drawn(v)
    BY <1>1 DEF LinkInv
  <1>8. Drawn(w)
    BY <1>2, <1>4, <1>5, <1>7 DEF Drawn
  <1>9. \A d \in Canvases : Drawn(canvas'[d])
    BY <1>6, <1>8 DEF LinkInv
  <1>10. Loaded(disk)' = Loaded(disk) /\ Kept'
    BY <1>4 DEF LinkInv, Kept, Loaded, Migrated
  <1>11. ASSUME ~torn' PROVE Whole'
    <2>1. ~torn /\ ~v.save.failed
      BY <1>4, <1>11
    <2>2. Saving(c) /\ ~Failing(c)
      BY <1>1, <1>4, <2>1 DEF Saving, Failing
    <2>3. \A d \in Canvases : d # c => ~Saving(d)
      BY <2>1, <2>2 DEF LinkInv, Whole
    <2>4. \A d \in Canvases : ~Failing(d) /\ ~Saving(d)' /\ ~Failing(d)'
      BY <1>5, <1>6, <2>2, <2>3 DEF Saving, Failing
    <2>5. Stored(Loaded(disk), links, writes) /\ Partly(links, v)
      BY <1>1, <2>1, <2>2, <2>4 DEF LinkInv, Whole
    <2>6. Shown(v.save.snap, NamesFor(v.mode))
      BY <1>4, <1>7 DEF Drawn
    <2>7. TwoWay(links)
      BY <1>4, <2>5, <2>6, AllSubmitted DEF LinkInv, Kept, Typed
    <2> QED
      BY <1>4, <1>10, <2>4, <2>5, <2>7 DEF Whole
  <1>12. Whole'
    BY <1>11 DEF Whole
  <1> QED
    BY <1>9, <1>10, <1>12 DEF LinkInv

-----------------------------------------------------------------------------
(* A request that is not refused. *)

LEMMA SubmittedOf ==
  ASSUME NEW c, NEW i, NEW v, v = canvas[c],
         Shown(v.save.snap, NamesFor(v.mode)), Shown(v.baseline, NamesFor(v.mode))
  PROVE  /\ \A k : k \in Submitted(c, i) <=> (k \in DirtyKeys(v.save.snap, v.baseline) /\ k[1] = i)
         /\ \A k \in Submitted(c, i) : k[1] = i /\ k[2] \in NamesFor(v.mode)
  <1>1. \A k : k \in Submitted(c, i) <=> (k \in DirtyKeys(v.save.snap, v.baseline) /\ k[1] = i)
    BY DEF Submitted
  <1> QED
    BY <1>1, DirtyShown

LEMMA ProposedPaired ==
  ASSUME NEW c, NEW i, NEW m \in Modes, Shown(canvas[c].save.snap, NamesFor(m)), Paired(links)
  PROVE  Paired(Proposed(c, i))
  <1>1. Paired(canvas[c].save.snap)
    BY ShownPaired
  <1> QED
    BY <1>1 DEF Proposed, Paired

\* It takes over what was submitted, and leaves the rest.
LEMMA ProposedPartly ==
  ASSUME NEW c, NEW i, NEW v, v = canvas[c], v.mode \in Modes,
         Shown(v.save.snap, NamesFor(v.mode)), Shown(v.baseline, NamesFor(v.mode)),
         links \in Edits, Paired(links), v.save.snap \in Edits, i \in v.save.todo,
         Partly(links, v), NEW w, w.mode = v.mode, w.baseline = v.baseline,
         w.save.snap = v.save.snap, w.save.todo = v.save.todo \ {i}
  PROVE  Partly(Proposed(c, i), w)
  <1>1. PICK m, S, B, P, sub :
          /\ m = v.mode /\ S = v.save.snap /\ B = v.baseline /\ P = Proposed(c, i)
          /\ sub = Submitted(c, i)
    OBVIOUS
  <1>2. \A l : l \in P <=>
          \/ l \in links /\ l[1] \notin sub
          \/ l \in Keys \X Keys /\ l \in S /\ l[1] \in sub /\ l[2][1] # i
    BY <1>1 DEF Proposed
  <1>3. /\ \A k : k \in sub <=> (k \in DirtyKeys(S, B) /\ k[1] = i)
        /\ \A k \in sub : k[1] = i /\ k[2] \in NamesFor(m)
    BY <1>1, SubmittedOf
  <1>4. TwoWay(S)
    BY <1>1 DEF Partly
  <1>5. ASSUME NEW l \in P, l[1][2] \notin NamesFor(m)
        PROVE  <<l[2], l[1]>> \in P
    <2>1. l \in links /\ l[1] \notin sub
      BY <1>2, <1>3, <1>5
    <2>2. <<l[2], l[1]>> \in links
      BY <1>1, <1>5, <2>1 DEF Partly
    <2>3. l[2][2] \notin NamesFor(m)
      BY <1>1, <1>5, <2>1, PairedNames
    <2>4. PICK t : t = <<l[2], l[1]>>
      OBVIOUS
    <2>5. t[1] = l[2]
      BY <2>4
    <2>6. t[1] \notin sub
      BY <1>3, <2>3, <2>5
    <2> QED
      BY <1>2, <2>2, <2>4, <2>6
  <1>6. ASSUME NEW k \in Keys, k[2] \in NamesFor(m)
        PROVE  Targets(P, k) = Targets(IF k[1] \in w.save.todo THEN B ELSE S, k)
    <2>1. Targets(links, k) = Targets(IF k[1] \in v.save.todo THEN B ELSE S, k)
      BY <1>1, <1>6 DEF Partly
    <2>2. \A b : <<k, b>>[1] = k /\ <<k, b>>[2] = b
      OBVIOUS
    <2>3. CASE k \in sub
      <3>1. k[1] = i /\ k[1] \notin w.save.todo
        BY <1>3, <2>3
      <3>2. ASSUME NEW b \in Keys PROVE <<k, b>> \in P <=> <<k, b>> \in S
        <4>1. PICK t : t = <<k, b>>
          OBVIOUS
        <4>2. t[1] = k /\ t[2] = b /\ t \in Keys \X Keys
          BY <4>1
        <4>3. t \in S => t[2][1] # i
          BY <1>1, <3>1, <4>2 DEF Shown
        <4> QED
          BY <1>2, <2>3, <4>1, <4>2, <4>3
      <3> QED
        BY <3>1, <3>2 DEF Targets
    <2>4. CASE k \notin sub
      <3>1. ASSUME NEW b \in Keys PROVE <<k, b>> \in P <=> <<k, b>> \in links
        <4>1. PICK t : t = <<k, b>>
          OBVIOUS
        <4>2. t[1] = k
          BY <4>1
        <4> QED
          BY <1>2, <2>4, <4>1, <4>2
      <3>2. Targets(P, k) = Targets(links, k)
        BY <3>1 DEF Targets
      <3>3. CASE k[1] = i
        <4>1. k \notin DirtyKeys(S, B)
          BY <1>3, <2>4, <3>3
        <4>2. Targets(S, k) = Targets(B, k)
          BY <4>1, SameTargets
        <4> QED
          BY <2>1, <3>2, <3>3, <4>2
      <3>4. CASE k[1] # i
        <4>1. k[1] \in w.save.todo <=> k[1] \in v.save.todo
          BY <3>4
        <4> QED
          BY <2>1, <3>2, <4>1
      <3> QED
        BY <3>3, <3>4
    <2> QED
      BY <2>3, <2>4
  <1>7. \A l \in P : l[1][2] \notin NamesFor(m) => <<l[2], l[1]>> \in P
    BY <1>5
  <1>8. \A k \in Keys : k[2] \in NamesFor(m) =>
          Targets(P, k) = Targets(IF k[1] \in w.save.todo THEN B ELSE S, k)
    BY <1>6
  <1> QED
    BY <1>1, <1>4, <1>7, <1>8 DEF Partly

\* Its snapshot is the last of the queue.
LEMMA QueueNext ==
  ASSUME NEW q \in Seq(WriteType), NEW M \in Edits, NEW c \in Canvases,
         NEW r, r = Append(q, [links |-> M, by |-> c])
  PROVE  /\ r # <<>> /\ r[Len(r)].links = M
         /\ \A n \in DOMAIN r :
              \/ r[n].links = M /\ r[n].by = c
              \/ n \in DOMAIN q /\ r[n] = q[n]
  <1>1. PICK e : e = [links |-> M, by |-> c]
    OBVIOUS
  <1>2. e.links = M /\ e.by = c
    BY <1>1
  <1>3. PICK S : S = WriteType
    OBVIOUS
  <1>4. e \in S
    BY <1>1, <1>3 DEF WriteType
  <1>5. PICK k : k = Len(q)
    OBVIOUS
  <1>6. /\ k \in Nat /\ DOMAIN r = 1..(k + 1) /\ DOMAIN q = 1..k /\ r[k + 1] = e
        /\ \A n \in DOMAIN q : r[n] = q[n]
    BY <1>1, <1>3, <1>4, <1>5, AppendTo
  <1>7. Len(r) = k + 1 /\ r # <<>>
    BY <1>1, <1>5, <1>3, <1>4
  <1>8. \A n \in DOMAIN r : n = k + 1 \/ n \in DOMAIN q
    BY <1>6
  <1> QED
    BY <1>2, <1>6, <1>7, <1>8

LEMMA StoredNext ==
  ASSUME NEW q \in Seq(WriteType), NEW loaded, NEW L, Stored(loaded, L, q), NEW M \in Edits,
         NEW c \in Canvases, NEW r, r = Append(q, [links |-> M, by |-> c])
  PROVE  Stored(loaded, M, r)
  <1>1. /\ r # <<>> /\ r[Len(r)].links = M /\ c # "load"
        /\ \A n \in DOMAIN r :
             \/ r[n].links = M /\ r[n].by = c
             \/ n \in DOMAIN q /\ r[n] = q[n]
    BY QueueNext, GatewayConfigAssumption
  <1>2. ASSUME NEW n \in DOMAIN r, r[n].by = "load" PROVE n = 1 /\ r[n].links = loaded
    <2>1. n \in DOMAIN q /\ r[n] = q[n]
      BY <1>1, <1>2
    <2> QED
      BY <1>2, <2>1 DEF Stored
  <1> QED
    BY <1>1, <1>2 DEF Stored

LEMMA SetLinks ==
  ASSUME LinkInv, Typed, NEW c \in Canvases, HandleSet(c)
  PROVE  LinkInv'
  <1>0. PICK v \in CanvasType : /\ v = canvas[c] /\ v.save \in SaveType /\ v.mode \in Modes
                                /\ v.save.snap \in Edits
    BY CanvasAt
  <1>1. PICK i \in canvas[c].save.todo :
          /\ canvas[c].save.ph = "saving"
          /\ IF Refused(c, i)
             THEN /\ canvas' = [canvas EXCEPT ![c].save.todo = @ \ {i}, ![c].save.failed = TRUE]
                  /\ UNCHANGED <<server, told>>
             ELSE /\ links' = Proposed(c, i)
                  /\ writes' = Append(writes, [links |-> links', by |-> c])
                  /\ canvas' = [canvas EXCEPT ![c].save.ph = "writing",
                                              ![c].save.todo = @ \ {i}, ![c].save.at = i]
                  /\ told' = [told EXCEPT ![i] = FALSE]
                  /\ UNCHANGED disk
          /\ UNCHANGED <<mode, status, net, env, sent, torn>>
    BY DEF HandleSet
  <1>2. canvas = [d \in Canvases |-> canvas[d]]
    BY DEF Typed
  <1>3. CASE Refused(c, i)
    <2>1. PICK w : w = [v EXCEPT !.save = [v.save EXCEPT !.todo = @ \ {i}, !.failed = TRUE]]
      OBVIOUS
    <2>2. canvas' = [canvas EXCEPT ![c].save.todo = @ \ {i}, ![c].save.failed = TRUE]
      BY <1>1, <1>3
    <2>3. canvas' = [canvas EXCEPT ![c] = w]
      BY <1>0, <1>2, <2>1, <2>2 DEF CanvasType, SaveType
    <2>4. SameSave(v, w)
      BY <1>0, <2>1 DEF SameSave, CanvasType, SaveType
    <2>5. \A d \in Canvases : canvas'[d] = IF d = c THEN w ELSE canvas[d]
      BY <1>2, <2>3
    <2>6. \A d : SameSave(canvas[d], canvas[d])
      BY DEF SameSave
    <2>7. \A d \in Canvases : SameSave(canvas[d], canvas'[d])
      BY <1>0, <2>4, <2>5, <2>6
    <2>8. UNCHANGED <<links, disk, writes, torn>>
      BY <1>1, <1>3 DEF server
    <2> QED
      BY <2>7, <2>8, ServerGoesOn
  <1>4. CASE ~Refused(c, i)
    <2>1. PICK save : save = [v.save EXCEPT !.ph = "writing", !.todo = @ \ {i}, !.at = i]
      OBVIOUS
    <2>2. PICK w : w = [v EXCEPT !.save = save]
      OBVIOUS
    <2>3. /\ links' = Proposed(c, i) /\ writes' = Append(writes, [links |-> links', by |-> c])
          /\ canvas' = [canvas EXCEPT ![c].save.ph = "writing",
                                      ![c].save.todo = @ \ {i}, ![c].save.at = i]
          /\ UNCHANGED <<disk, torn>>
      BY <1>1, <1>4
    <2>4. canvas' = [canvas EXCEPT ![c] = w]
      BY <1>0, <1>2, <2>1, <2>2, <2>3 DEF CanvasType, SaveType
    <2>5. \A d \in Canvases : canvas'[d] = IF d = c THEN w ELSE canvas[d]
      BY <1>2, <2>4
    <2>6. /\ save.ph = "writing" /\ save.todo = v.save.todo \ {i} /\ save.snap = v.save.snap
          /\ save.failed = v.save.failed
      BY <1>0, <2>1 DEF SaveType
    <2>7. w.mode = v.mode /\ w.edits = v.edits /\ w.baseline = v.baseline /\ w.save = save
      BY <2>2 DEF CanvasType
    <2>8. Drawn(v) /\ v.save.ph = "saving" /\ Saving(c)
      BY <1>0, <1>1 DEF LinkInv, Saving
    <2>9. Drawn(w)
      BY <2>6, <2>7, <2>8 DEF Drawn
    <2>10. \A d \in Canvases : Drawn(canvas'[d])
      BY <2>5, <2>9 DEF LinkInv
    <2>11. Loaded(disk)' = Loaded(disk)
      BY <2>3 DEF Loaded, Migrated
    <2>12. /\ links \in Edits /\ Paired(links)
           /\ Shown(v.save.snap, NamesFor(v.mode)) /\ Shown(v.baseline, NamesFor(v.mode))
      BY <2>8 DEF LinkInv, Kept, Typed, Drawn
    <2>13. PICK M \in Edits : M = links' /\ M = Proposed(c, i)
      BY <2>3, <2>12, ProposedType
    <2>14. Paired(M)
      BY <1>0, <2>12, <2>13, ProposedPaired
    <2>15. PICK q, r : /\ q = writes /\ r = writes' /\ q \in Seq(WriteType)
                       /\ r = Append(q, [links |-> M, by |-> c])
      BY <2>3, <2>13 DEF Typed
    <2>16. \A n \in DOMAIN r : r[n].links = M \/ (n \in DOMAIN q /\ r[n] = q[n])
      BY <2>15, QueueNext
    <2>17. Kept'
      BY <2>11, <2>13, <2>14, <2>15, <2>16 DEF LinkInv, Kept
    <2>18. /\ \A d \in Canvases : (Saving(d)' <=> Saving(d)) /\ (Failing(d)' <=> Failing(d))
           /\ Saving(c)'
      BY <1>0, <2>5, <2>6, <2>7, <2>8 DEF Saving, Failing
    <2>19. ASSUME ~torn' PROVE Whole'
      <3>1. ~torn /\ \A d \in Canvases : Saving(d) => d = c
        BY <2>3, <2>8, <2>19 DEF LinkInv, Whole
      <3>2. ASSUME ~Failing(c)' PROVE Partly(M, w) /\ Stored(Loaded(disk), M, r)
        <4>1. Partly(links, v)
          BY <1>0, <2>8, <2>18, <3>1, <3>2 DEF LinkInv, Whole
        <4>2. Partly(M, w)
          <5>1. /\ w.mode = v.mode /\ w.baseline = v.baseline
                /\ w.save.snap = v.save.snap /\ w.save.todo = v.save.todo \ {i}
            BY <2>6, <2>7
          <5>2. i \in v.save.todo
            BY <1>0, <1>1
          <5>3. Partly(Proposed(c, i), w)
            BY <1>0, <2>12, <4>1, <5>1, <5>2, ProposedPartly
          <5> QED
            BY <2>13, <5>3
        <4>3. \A d \in Canvases : ~Failing(d)
          BY <2>18, <3>1, <3>2 DEF Failing
        <4>4. Stored(Loaded(disk), links, q)
          BY <2>15, <3>1, <4>3 DEF LinkInv, Whole
        <4>5. PICK L, loaded : L = links /\ loaded = Loaded(disk)
          OBVIOUS
        <4>6. Stored(loaded, M, r)
          BY <2>15, <4>4, <4>5, StoredNext
        <4> QED
          BY <4>2, <4>5, <4>6
      <3>3. \A d, e \in Canvases : Saving(d)' /\ Saving(e)' => d = e
        BY <2>18, <3>1
      <3>4. \A d \in Canvases : Saving(d)' /\ ~Failing(d)' => Partly(links', canvas'[d])
        BY <2>5, <2>13, <2>18, <3>1, <3>2
      <3>5. (\A d \in Canvases : ~Failing(d)') => Stored(Loaded(disk)', links', writes')
        BY <2>11, <2>13, <2>15, <3>2
      <3> QED
        BY <2>18, <3>3, <3>4, <3>5 DEF Whole
    <2>20. Whole'
      BY <2>19 DEF Whole
    <2> QED
      BY <2>10, <2>17, <2>20 DEF LinkInv
  <1> QED
    BY <1>3, <1>4

-----------------------------------------------------------------------------
(* All steps. *)

LEMMA LinksInit ==
  ASSUME Init, Found \subseteq HubNames \X (Instances \X HubNames)
  PROVE  LinkInv
  <1>1. /\ links = Loaded(disk) /\ disk = [links |-> {}, legacy |-> Found]
        /\ writes = Migration(disk) /\ torn = ~TwoWay(links)
        /\ canvas = [c \in Canvases |->
             [mode |-> mode, edits |-> {}, baseline |-> {}, save |-> Idle]]
    BY DEF Init
  <1>2. Paired(Loaded(disk))
    <2>1. \A l \in Loaded(disk) : <<l[1][2], l[2]>> \in Found /\ l[1][1] # l[2][1]
      BY <1>1 DEF Loaded, Migrated
    <2>2. \A l \in Loaded(disk) : l[1][2] \in HubNames /\ l[2][2] \in HubNames
      BY <2>1
    <2> QED
      BY <2>1, <2>2, GatewayGraphAssumption DEF Paired
  <1>3. PICK L : L = Loaded(disk)
    OBVIOUS
  <1>4. /\ Stored(L, L, Migration(disk))
        /\ \A n \in DOMAIN Migration(disk) : Paired(Migration(disk)[n].links)
    BY <1>2, <1>3, StoredMigration
  <1>5. \A c \in Canvases : Drawn(canvas[c]) /\ ~Saving(c) /\ ~Failing(c)
    BY <1>1 DEF Drawn, Shown, Saving, Failing, Idle
  <1> QED
    BY <1>1, <1>2, <1>3, <1>4, <1>5 DEF LinkInv, Kept, Whole

LEMMA StillLinks ==
  ASSUME LinkInv, UNCHANGED <<canvas, links, disk, writes, torn>>
  PROVE  LinkInv'
  <1>1. \A c : SameSave(canvas[c], canvas'[c])
    BY DEF SameSave
  <1> QED
    BY <1>1, ServerGoesOn

LEMMA LinksNext ==
  ASSUME LinkInv, TypeInv, Next
  PROVE  LinkInv'
  <1> USE DEF TypeInv
  <1>1. ASSUME NEW c \in Canvases,
               \/ Load(c) \/ BulkLink(c) \/ Connect(c) \/ EdgeClick(c) \/ Revert(c)
               \/ BeginSave(c) \/ HandleSet(c) \/ Push(c) \/ EndSave(c)
        PROVE  LinkInv'
    BY <1>1, LoadLinks, EdgesLinks, BeginLinks, SetLinks, PushLinks, EndSaveLinks
  <1>2. ASSUME NEW i \in Instances,
               Pull(i) \/ Running(i) \/ Prune(i) \/ LinkDown(i) \/ LinkUp(i)
        PROVE  LinkInv'
    BY <1>2, StillLinks DEF Pull, Running, Prune, LinkDown, LinkUp, server
  <1>3. ASSUME NEW s \in 1..Slots, Run(s) \/ LoseCommand(s) \/ LoseReply(s)
        PROVE  LinkInv'
    <2>1. MayRun(s) /\ UNCHANGED <<links, disk, writes, torn>>
      BY <1>3 DEF Run, LoseCommand, LoseReply, server
    <2>2. Busy(s)
      BY <2>1, BusyIsDelivery DEF MayRun
    <2>3. Advance(s) \/ \E ok : End(s, ok)
      BY <1>3 DEF Run, LoseCommand, LoseReply
    <2>4. Advance(s) => UNCHANGED canvas
      BY DEF Advance
    <2> QED
      BY <2>1, <2>2, <2>3, <2>4, StillLinks, EndLinks
  <1>4. ASSUME SwitchMode PROVE LinkInv'
    BY <1>4, StillLinks DEF SwitchMode, server
  <1> QED
    BY <1>1, <1>2, <1>3, <1>4, GameLinks, RestartLinks, WriteLinks DEF Next

\* LinksTwoWay.  A file of an older version has One Gate names only: both the gateways it
\* links and those they lead to.  What the controller holds has both ends of every edge while
\* no canvas saves, as long as no save failed, was cut short, overlapped another or began from
\* a stale copy: whatever was edited, in whichever mode, and whatever the file missed.
THEOREM BothEndsAlways ==
  ASSUME Found \subseteq HubNames \X (Instances \X HubNames)
  PROVE  Spec => []LinksTwoWay
  <1>1. Init => TypeInv /\ LinkInv
    BY TypeInit, LinksInit
  <1>2. TypeInv /\ LinkInv /\ [Next]_vars => (TypeInv /\ LinkInv)'
    <2>1. ASSUME TypeInv, LinkInv, UNCHANGED vars PROVE LinkInv'
      BY <2>1, StillLinks DEF vars, server
    <2> QED
      BY <2>1, TypeNext, LinksNext
  <1>3. TypeInv /\ LinkInv => LinksTwoWay
    BY DEF LinkInv, Whole, LinksTwoWay
  <1> QED
    BY <1>1, <1>2, <1>3, PTL DEF Spec
=============================================================================

---------------------------- MODULE SurfaceLock ----------------------------
(***************************************************************************)
(* The registries of one Factorio instance that take a platform out of     *)
(* play: storage.locked_platforms (utils/surface-lock.lua), the committed  *)
(* tombstones, and storage.destination_holds (core/destination-hold.lua).  *)
(*                                                                         *)
(* Every operation is one Lua call, so one step.  The registries outlive   *)
(* the platforms they speak of: a player may remove a platform, and its    *)
(* index may be used again by another one with another surface.            *)
(*                                                                         *)
(* Time advances by expiry scans.  Ages and remaining times stand for      *)
(* ticks: what matters is only which deadline has passed.                  *)
(***************************************************************************)
EXTENDS Naturals, FiniteSets

CONSTANTS
  Indices,        \* indices of platforms in the force
  Names,          \* names of platforms
  Jobs,           \* ids of transfer exports
  HoldIds,        \* transfer ids of destination holds
  MaxSurface,     \* bound on the surfaces ever created
  TTL,            \* DEFAULT_TRANSFER_LOCK_TTL_TICKS, in scans
  Retention,      \* COMMITTED_SOURCE_TOMBSTONE_RETENTION_TICKS, in scans
  Interference,   \* what else may happen (Interferences)
  None

\* "jobless": lock_platform_for_transfer is called, which knows no job;
\* "resume": a player resumes a platform by command;
\* "stuck": the game refuses to delete a platform.
Interferences == {"jobless", "resume", "stuck"}

ASSUME SurfaceLockAssumption ==
  /\ MaxSurface \in Nat \ {0} /\ TTL \in Nat \ {0}
  /\ Retention \in Nat /\ Retention > TTL
  /\ Interference \subseteq Interferences
  /\ None \notin Jobs

VARIABLES
  platform,       \* the platform at each index, or None
  lock,           \* locked_platforms: the entry of each index, or None
  hold,           \* destination_holds: the hold of each id, or None
  tombstone,      \* committed_source_transfer_tombstones, by job
  surfaces,       \* surface indices used so far; none is used twice
  exact           \* (history) at each index, the exports of the platform as it is

vars == <<platform, lock, hold, tombstone, surfaces, exact>>

Kinds     == {"manual", "export", "transfer"}
Expirable == {"export", "transfer"}

Platforms  == [surface : 1..MaxSurface, name : Names, hidden : BOOLEAN,
               paused : BOOLEAN, running : BOOLEAN]
\* hidden and running are the captured original_hidden and frozen_states; left is
\* expires_tick; committed is the phase with its transfer id.
Locks      == [surface : 1..MaxSurface, name : Names, hidden : BOOLEAN,
               running : BOOLEAN, kind : Kinds, job : Jobs \cup {None},
               left : 0..TTL, committed : Jobs \cup {None}]
Holds      == [index : Indices, surface : 1..MaxSurface, hidden : BOOLEAN,
               paused : BOOLEAN, running : BOOLEAN]
Tombstones == [age : 0..Retention, deleted : BOOLEAN]

\* The absence of an entry is not an entry.
ASSUME NoneAssumption == None \notin Platforms \cup Locks \cup Holds \cup Tombstones

TypeOK ==
  /\ platform \in [Indices -> Platforms \cup {None}]
  /\ lock \in [Indices -> Locks \cup {None}]
  /\ hold \in [HoldIds -> Holds \cup {None}]
  /\ tombstone \in [Jobs -> Tombstones \cup {None}]
  /\ surfaces \in 0..MaxSurface
  /\ exact \in [Indices -> SUBSET Jobs]

Init ==
  /\ platform = [i \in Indices |-> None]
  /\ lock = [i \in Indices |-> None]
  /\ hold = [h \in HoldIds |-> None]
  /\ tombstone = [j \in Jobs |-> None]
  /\ surfaces = 0
  /\ exact = [i \in Indices |-> {}]

-----------------------------------------------------------------------------
(* The game: platforms come, are renamed and go. *)

Create(i, name) ==
  /\ platform[i] = None /\ surfaces < MaxSurface
  /\ surfaces' = surfaces + 1
  /\ platform' = [platform EXCEPT ![i] =
       [surface |-> surfaces + 1, name |-> name, hidden |-> FALSE,
        paused |-> FALSE, running |-> TRUE]]
  /\ exact' = [exact EXCEPT ![i] = {}]
  /\ UNCHANGED <<lock, hold, tombstone>>

Rename(i, name) ==
  /\ platform[i] # None
  /\ platform' = [platform EXCEPT ![i].name = name]
  /\ UNCHANGED <<lock, hold, tombstone, surfaces, exact>>

RemoveByPlayer(i) ==
  /\ platform[i] # None
  /\ platform' = [platform EXCEPT ![i] = None]
  /\ exact' = [exact EXCEPT ![i] = {}]
  /\ UNCHANGED <<lock, hold, tombstone, surfaces>>

-----------------------------------------------------------------------------
(* Who owns a platform, and the command that does not ask all of them *)

\* source_lock_is_committed
Committed(i) == lock[i] # None /\ lock[i].committed # None

\* The entry at i speaks of the platform that is there now.
SameSurface(i) == lock[i] # None /\ platform[i] # None /\ lock[i].surface = platform[i].surface

\* destination_hold_owns_surface
Held(i) == \E h \in HoldIds : /\ hold[h] # None /\ platform[i] # None
                              /\ hold[h].index = i
                              /\ hold[h].surface = platform[i].surface

\* /resume-platform refuses a held platform and one with a committed lock, but
\* activates one with any other lock.
Resume(i) ==
  /\ "resume" \in Interference
  /\ platform[i] # None /\ ~Committed(i) /\ ~Held(i)
  /\ platform' = [platform EXCEPT ![i].paused = FALSE, ![i].running = TRUE]
  /\ exact' = [exact EXCEPT ![i] = {}]
  /\ UNCHANGED <<lock, hold, tombstone, surfaces>>

-----------------------------------------------------------------------------
(* lock_platform *)

\* Mutant: the platform is hidden but not frozen.
LockFreeHides(i, kind, job) ==
  /\ platform[i] # None /\ lock[i] = None
  /\ lock' = [lock EXCEPT ![i] =
       [surface |-> platform[i].surface, name |-> platform[i].name,
        hidden |-> platform[i].hidden, running |-> platform[i].running,
        kind |-> kind, job |-> job, left |-> TTL, committed |-> None]]
  /\ platform' = [platform EXCEPT ![i].hidden = TRUE]
  /\ exact' = [exact EXCEPT ![i] = IF kind = "transfer" THEN {job} \ {None} ELSE {}]
  /\ UNCHANGED <<hold, tombstone, surfaces>>

\* A first lock hides the platform and freezes its entities.
LockFree(i, kind, job) ==
  /\ platform[i] # None /\ lock[i] = None
  /\ lock' = [lock EXCEPT ![i] =
       [surface |-> platform[i].surface, name |-> platform[i].name,
        hidden |-> platform[i].hidden, running |-> platform[i].running,
        kind |-> kind, job |-> job, left |-> TTL, committed |-> None]]
  /\ platform' = [platform EXCEPT ![i].hidden = TRUE, ![i].running = FALSE]
  /\ exact' = [exact EXCEPT ![i] = IF kind = "transfer" THEN {job} \ {None} ELSE {}]
  /\ UNCHANGED <<hold, tombstone, surfaces>>

\* is_same_transfer_upgrade: only the owner may lock again, or anyone if the lock
\* has no owner yet.
MayUpgrade(i, job) == lock[i].job = None \/ lock[i].job = job

\* Mutant: a renewal adds to the time left.
UpgradeAddsTTL(i, job) ==
  /\ SameSurface(i) /\ lock[i].kind = "transfer" /\ MayUpgrade(i, job)
  /\ lock' = [lock EXCEPT ![i].job = IF job = None THEN @ ELSE job, ![i].left = @ + TTL]
  /\ exact' = [exact EXCEPT ![i] = @ \cup ({job} \ {None})]
  /\ UNCHANGED <<platform, hold, tombstone, surfaces>>

\* A transfer lock over a transfer lock of the same platform is renewed.
Upgrade(i, job) ==
  /\ SameSurface(i) /\ lock[i].kind = "transfer" /\ MayUpgrade(i, job)
  /\ lock' = [lock EXCEPT ![i].job = IF job = None THEN @ ELSE job, ![i].left = TTL]
  /\ exact' = [exact EXCEPT ![i] = @ \cup ({job} \ {None})]
  /\ UNCHANGED <<platform, hold, tombstone, surfaces>>

Lock(i) ==
  \/ LockFree(i, "manual", None) \/ LockFree(i, "export", None)
  \/ \E job \in Jobs \cup (IF "jobless" \in Interference THEN {None} ELSE {}) :
       LockFree(i, "transfer", job) \/ Upgrade(i, job)

-----------------------------------------------------------------------------
(* unlock_platform *)

\* Mutant: the hold is not asked.
RestoredOverHold(i) ==
  IF SameSurface(i)
    THEN [platform[i] EXCEPT !.hidden = lock[i].hidden, !.running = lock[i].running]
    ELSE platform[i]

\* Mutant: the entities stay frozen.
RestoredVisible(i) ==
  IF SameSurface(i) /\ ~Held(i)
    THEN [platform[i] EXCEPT !.hidden = lock[i].hidden]
    ELSE platform[i]

\* What unlock_platform makes of the platform at i: only the locked platform is
\* restored, and not while a hold owns it.
Restored(i) ==
  IF SameSurface(i) /\ ~Held(i)
    THEN [platform[i] EXCEPT !.hidden = lock[i].hidden,
                             !.running = lock[i].running]
    ELSE platform[i]

\* Releases the locks of the indices in S, as one call of unlock_platform each.
Release(S) ==
  /\ lock' = [i \in Indices |-> IF i \in S THEN None ELSE lock[i]]
  /\ platform' = [i \in Indices |-> IF i \in S THEN Restored(i) ELSE platform[i]]
  /\ exact' = [i \in Indices |-> IF i \in S /\ SameSurface(i) THEN {} ELSE exact[i]]

\* Mutant: a committed lock is unlocked like any other.
UnlockCommitted(i, expected) ==
  /\ lock[i] # None
  /\ expected \in {None, lock[i].name}
  /\ Release({i})
  /\ UNCHANGED <<hold, tombstone, surfaces>>

\* expected is the name the caller believes it unlocks, None if it does not say.
\* A committed lock is refused.
Unlock(i, expected) ==
  /\ lock[i] # None
  /\ expected \in {None, lock[i].name}
  /\ ~Committed(i)
  /\ Release({i})
  /\ UNCHANGED <<hold, tombstone, surfaces>>

-----------------------------------------------------------------------------
(* Commit, delete and tombstones *)

\* A tombstone is kept for Retention scans after the commit.
Pruned(tombs) ==
  [j \in Jobs |-> IF tombs[j] # None /\ tombs[j].age >= Retention THEN None ELSE tombs[j]]

Commit(i, id) ==
  /\ lock[i] # None /\ lock[i].kind = "transfer"
  /\ lock[i].job \in {None, id}
  /\ lock' = [lock EXCEPT ![i].committed = id]
  /\ tombstone' = Pruned([tombstone EXCEPT ![id] =
       IF @ = None THEN [age |-> 0, deleted |-> FALSE] ELSE @])
  /\ UNCHANGED <<platform, hold, surfaces, exact>>

\* Mutant: the surface is not compared.
DeleteIdentityByIndex(i, id) ==
  /\ lock[i] # None /\ platform[i] # None /\ lock[i].kind = "transfer"
  /\ lock[i].job \in {None, id}

\* transfer_delete_identity_ok: a transfer lock of this job, or of none, on the
\* platform that is there.
DeleteIdentityOk(i, id) ==
  /\ SameSurface(i) /\ lock[i].kind = "transfer"
  /\ lock[i].job \in {None, id}

\* clear_committed_source_lock_after_delete needs the tombstone of the commit.
MayClear(i, id) == lock[i].committed = id /\ tombstone[id] # None

\* delete_platform_for_transfer releases the lock before it deletes: a committed
\* lock by marking its tombstone, another by unlocking.
DeleteForTransfer(i, id) ==
  /\ DeleteIdentityOk(i, id)
  /\ Committed(i) => MayClear(i, id)
  /\ lock' = [lock EXCEPT ![i] = None]
  /\ tombstone' = IF Committed(i) THEN [tombstone EXCEPT ![id].deleted = TRUE] ELSE tombstone
  /\ \/ platform' = [platform EXCEPT ![i] = None] /\ UNCHANGED exact
     \/ /\ "stuck" \in Interference
        /\ platform' = [platform EXCEPT ![i] = IF Committed(i) THEN @ ELSE Restored(i)]
        /\ exact' = [exact EXCEPT ![i] = {}]
  /\ UNCHANGED <<hold, surfaces>>

-----------------------------------------------------------------------------
(* Destination holds *)

\* stage hides, pauses and deactivates a platform no other hold owns.
Stage(h, i) ==
  /\ platform[i] # None /\ hold[h] = None /\ ~Held(i)
  /\ hold' = [hold EXCEPT ![h] =
       [index |-> i, surface |-> platform[i].surface, hidden |-> platform[i].hidden,
        paused |-> platform[i].paused, running |-> platform[i].running]]
  /\ platform' = [platform EXCEPT ![i].hidden = TRUE, ![i].paused = TRUE,
                                  ![i].running = FALSE]
  /\ UNCHANGED <<lock, tombstone, surfaces, exact>>

\* resolve_hold: the held platform is still there.
Resolves(h) ==
  /\ hold[h] # None /\ platform[hold[h].index] # None
  /\ platform[hold[h].index].surface = hold[h].surface

\* go_live restores what stage captured.
GoLive(h) ==
  /\ Resolves(h)
  /\ platform' = [platform EXCEPT ![hold[h].index] =
       [@ EXCEPT !.hidden = hold[h].hidden, !.paused = hold[h].paused,
                 !.running = hold[h].running]]
  /\ exact' = [exact EXCEPT ![hold[h].index] = IF hold[h].running THEN {} ELSE @]
  /\ hold' = [hold EXCEPT ![h] = None]
  /\ UNCHANGED <<lock, tombstone, surfaces>>

\* discard deletes the held platform, and forgets the hold even if that fails or
\* the platform is no longer there.
Discard(h) ==
  /\ hold[h] # None
  /\ hold' = [hold EXCEPT ![h] = None]
  /\ \/ /\ Resolves(h)
        /\ platform' = [platform EXCEPT ![hold[h].index] = None]
        /\ exact' = [exact EXCEPT ![hold[h].index] = {}]
     \/ /\ ~Resolves(h) \/ "stuck" \in Interference
        /\ UNCHANGED <<platform, exact>>
  /\ UNCHANGED <<lock, tombstone, surfaces>>

-----------------------------------------------------------------------------
(* Time and scan_transfer_expiries *)

Expired(i) == /\ lock[i] # None /\ lock[i].kind \in Expirable
              /\ ~Committed(i) /\ lock[i].left = 0

Aged(tombs) ==
  [j \in Jobs |-> IF tombs[j] # None /\ tombs[j].age < Retention
                    THEN [tombs[j] EXCEPT !.age = @ + 1] ELSE tombs[j]]

\* Ticks pass; no scan is due while a lock is past its time.
Elapse ==
  /\ \A i \in Indices : ~Expired(i)
  /\ lock' = [i \in Indices |-> IF lock[i] # None /\ lock[i].left > 0
                                  THEN [lock[i] EXCEPT !.left = @ - 1] ELSE lock[i]]
  /\ tombstone' = Aged(tombstone)
  /\ UNCHANGED <<platform, hold, surfaces, exact>>

\* The scan unlocks every expired lock and prunes the tombstones.
Scan ==
  /\ Release({i \in Indices : Expired(i)})
  /\ tombstone' = Pruned(tombstone)
  /\ UNCHANGED <<hold, surfaces>>

-----------------------------------------------------------------------------
Next ==
  \/ \E i \in Indices :
       \/ \E name \in Names : Create(i, name) \/ Rename(i, name)
       \/ RemoveByPlayer(i) \/ Resume(i) \/ Lock(i)
       \/ \E expected \in Names \cup {None} : Unlock(i, expected)
       \/ \E id \in Jobs : Commit(i, id) \/ DeleteForTransfer(i, id)
       \/ \E h \in HoldIds : Stage(h, i)
  \/ \E h \in HoldIds : GoLive(h) \/ Discard(h)
  \/ Elapse \/ Scan

Spec == Init /\ [][Next]_vars

-----------------------------------------------------------------------------
(* Properties *)

\* D1: whatever is locked, unlocked, expired or deleted meanwhile, a platform that
\* a destination hold owns stays hidden, paused and inactive.
HoldKeepsNotLive ==
  \A i \in Indices : Held(i) =>
    platform[i].hidden /\ platform[i].paused /\ ~platform[i].running

\* The platform deleted for a transfer is the one its export was taken of, frozen
\* ever since.
DeletedWasExact ==
  [][\A i \in Indices : \A id \in Jobs :
       DeleteForTransfer(i, id) /\ platform'[i] = None => id \in exact[i]]_vars

\* COMMIT is irreversible: whoever unlocks, resumes or scans, a committed lock stays on
\* its surface until a delete for the very job of the commit, which leaves the
\* tombstone marked and no platform behind.
CommittedIsIrreversible ==
  [][\A i \in Indices : Committed(i) =>
       \/ Committed(i)' /\ lock'[i].surface = lock[i].surface
       \/ LET id == lock[i].committed
          IN  /\ DeleteIdentityOk(i, id) /\ lock'[i] = None /\ platform'[i] = None
              /\ tombstone'[id] # None /\ tombstone'[id].deleted]_vars

\* The platform of a committed lock is not live.
CommittedNotLive ==
  \A i \in Indices : Committed(i) /\ SameSurface(i) =>
    platform[i].hidden /\ ~platform[i].running

\* A platform is out of play only while a lock or a hold owns it.
NotLiveIsOwned ==
  \A i \in Indices : platform[i] # None =>
    \/ ~platform[i].hidden /\ ~platform[i].paused /\ platform[i].running
    \/ SameSurface(i) \/ Held(i)
=============================================================================

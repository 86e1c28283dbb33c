-------------------------- MODULE SurfaceLockProofs --------------------------
(* Theorems of SurfaceLock. *)
EXTENDS SurfaceLock, TLAPS

-----------------------------------------------------------------------------
(* Type correctness *)

LEMMA TypeInit == Init => TypeOK
  BY SurfaceLockAssumption DEF Init, TypeOK

LEMMA RestoredType ==
  ASSUME TypeOK, NEW i \in Indices
  PROVE  Restored(i) \in Platforms \cup {None}
  BY DEF TypeOK, Restored, SameSurface, Platforms, Locks

LEMMA ReleaseType ==
  ASSUME TypeOK, NEW S, Release(S)
  PROVE  /\ lock' \in [Indices -> Locks \cup {None}]
         /\ platform' \in [Indices -> Platforms \cup {None}]
         /\ exact' \in [Indices -> SUBSET Jobs]
  <1>1. lock' \in [Indices -> Locks \cup {None}]
    BY DEF Release, TypeOK
  <1>2. platform' \in [Indices -> Platforms \cup {None}]
    BY RestoredType DEF Release, TypeOK
  <1>3. exact' \in [Indices -> SUBSET Jobs]
    BY DEF Release, TypeOK
  <1> QED
    BY <1>1, <1>2, <1>3

LEMMA PrunedType ==
  ASSUME NEW f \in [Jobs -> Tombstones \cup {None}]
  PROVE  Pruned(f) \in [Jobs -> Tombstones \cup {None}]
  BY DEF Pruned

LEMMA TypeGameStep ==
  ASSUME TypeOK, NEW i \in Indices,
         \/ \E name \in Names : Create(i, name) \/ Rename(i, name)
         \/ RemoveByPlayer(i) \/ Resume(i)
  PROVE  TypeOK'
  <1> USE DEF TypeOK
  <1>1. ASSUME NEW name \in Names, Create(i, name) PROVE TypeOK'
    <2>1. surfaces + 1 \in 1..MaxSurface
      BY <1>1, SurfaceLockAssumption DEF Create
    <2>2. [surface |-> surfaces + 1, name |-> name, hidden |-> FALSE,
           paused |-> FALSE, running |-> TRUE] \in Platforms
      BY <2>1 DEF Platforms
    <2> QED
      BY <1>1, <2>1, <2>2 DEF Create
  <1>2. ASSUME NEW name \in Names, Rename(i, name) PROVE TypeOK'
    <2>1. [platform[i] EXCEPT !.name = name] \in Platforms
      BY <1>2 DEF Rename, Platforms
    <2> QED
      BY <1>2, <2>1 DEF Rename
  <1>3. CASE RemoveByPlayer(i)
    BY <1>3 DEF RemoveByPlayer
  <1>4. CASE Resume(i)
    <2>1. [platform[i] EXCEPT !.paused = FALSE, !.running = TRUE] \in Platforms
      BY <1>4 DEF Resume, Platforms
    <2>2. platform' = [platform EXCEPT ![i] = [platform[i] EXCEPT !.paused = FALSE, !.running = TRUE]]
      BY <1>4 DEF Resume
    <2> QED
      BY <1>4, <2>1, <2>2 DEF Resume
  <1> QED
    BY <1>1, <1>2, <1>3, <1>4

LEMMA TypeLockStep ==
  ASSUME TypeOK, NEW i \in Indices,
         Lock(i) \/ (\E expected \in Names \cup {None} : Unlock(i, expected))
  PROVE  TypeOK'
  <1> USE DEF TypeOK
  <1>1. ASSUME NEW kind \in Kinds, NEW job \in Jobs \cup {None}, LockFree(i, kind, job)
        PROVE  TypeOK'
    <2> DEFINE entry == [surface |-> platform[i].surface, name |-> platform[i].name,
                         hidden |-> platform[i].hidden, running |-> platform[i].running,
                         kind |-> kind, job |-> job, left |-> TTL, committed |-> None]
    <2>1. platform[i] \in Platforms
      BY <1>1 DEF LockFree
    <2>2. entry \in Locks
      BY <2>1, SurfaceLockAssumption DEF Platforms, Locks
    <2>3. [platform[i] EXCEPT !.hidden = TRUE, !.running = FALSE] \in Platforms
      BY <2>1 DEF Platforms
    <2>4. lock' = [lock EXCEPT ![i] = entry]
      BY <1>1 DEF LockFree
    <2>5. platform' = [platform EXCEPT ![i] = [platform[i] EXCEPT !.hidden = TRUE, !.running = FALSE]]
      BY <1>1 DEF LockFree
    <2>6. exact' \in [Indices -> SUBSET Jobs]
      BY <1>1 DEF LockFree
    <2> HIDE DEF entry
    <2> QED
      BY <1>1, <2>2, <2>3, <2>4, <2>5, <2>6 DEF LockFree
  <1>2. ASSUME NEW job \in Jobs \cup {None}, Upgrade(i, job) PROVE TypeOK'
    <2> DEFINE owner == IF job = None THEN lock[i].job ELSE job
    <2>1. lock[i] \in Locks
      BY <1>2 DEF Upgrade, SameSurface
    <2>2. owner \in Jobs \cup {None}
      BY <2>1 DEF Locks
    <2>4. lock' = [lock EXCEPT ![i] = [lock[i] EXCEPT !.job = owner, !.left = TTL]]
      BY <1>2 DEF Upgrade
    <2>5. exact' \in [Indices -> SUBSET Jobs]
      BY <1>2 DEF Upgrade
    <2>6. UNCHANGED <<platform, hold, tombstone, surfaces>>
      BY <1>2 DEF Upgrade
    <2> HIDE DEF owner
    <2>3. [lock[i] EXCEPT !.job = owner, !.left = TTL] \in Locks
      <3>1. TTL \in 0..TTL
        BY SurfaceLockAssumption
      <3> QED
        BY <2>1, <2>2, <3>1 DEF Locks
    <2> QED
      BY <2>3, <2>4, <2>5, <2>6
  <1>3. ASSUME NEW expected \in Names \cup {None}, Unlock(i, expected) PROVE TypeOK'
    BY <1>3, ReleaseType DEF Unlock
  <1>4. CASE Lock(i)
    BY <1>1, <1>2, <1>4 DEF Lock, Kinds
  <1> QED
    BY <1>3, <1>4

LEMMA TypeCommitStep ==
  ASSUME TypeOK, NEW i \in Indices, NEW id \in Jobs, Commit(i, id) \/ DeleteForTransfer(i, id)
  PROVE  TypeOK'
  <1> USE DEF TypeOK
  <1>1. CASE Commit(i, id)
    <2> DEFINE tombs == [tombstone EXCEPT ![id] =
                           IF @ = None THEN [age |-> 0, deleted |-> FALSE] ELSE @]
    <2>1. [lock[i] EXCEPT !.committed = id] \in Locks
      BY <1>1 DEF Commit, Locks
    <2>2. lock' \in [Indices -> Locks \cup {None}]
      BY <1>1, <2>1 DEF Commit
    <2>3. [age |-> 0, deleted |-> FALSE] \in Tombstones
      BY SurfaceLockAssumption DEF Tombstones
    <2>4. tombs \in [Jobs -> Tombstones \cup {None}]
      BY <2>3
    <2>5. tombstone' = Pruned(tombs)
      BY <1>1 DEF Commit
    <2>6. tombstone' \in [Jobs -> Tombstones \cup {None}]
      BY <2>4, <2>5, PrunedType
    <2> QED
      BY <1>1, <2>2, <2>6 DEF Commit
  <1>2. CASE DeleteForTransfer(i, id)
    <2>1. lock' \in [Indices -> Locks \cup {None}]
      BY <1>2 DEF DeleteForTransfer
    <2>2. tombstone' \in [Jobs -> Tombstones \cup {None}]
      <3>1. CASE Committed(i)
        <4>1. tombstone[id] \in Tombstones
          BY <1>2, <3>1 DEF DeleteForTransfer, MayClear
        <4>2. [tombstone[id] EXCEPT !.deleted = TRUE] \in Tombstones
          BY <4>1 DEF Tombstones
        <4> QED
          BY <1>2, <3>1, <4>2 DEF DeleteForTransfer
      <3>2. CASE ~Committed(i)
        BY <1>2, <3>2 DEF DeleteForTransfer
      <3> QED
        BY <3>1, <3>2
    <2>3. platform' \in [Indices -> Platforms \cup {None}] /\ exact' \in [Indices -> SUBSET Jobs]
      BY <1>2, RestoredType DEF DeleteForTransfer
    <2> QED
      BY <1>2, <2>1, <2>2, <2>3 DEF DeleteForTransfer
  <1> QED
    BY <1>1, <1>2

LEMMA TypeHoldStep ==
  ASSUME TypeOK, NEW h \in HoldIds,
         (\E i \in Indices : Stage(h, i)) \/ GoLive(h) \/ Discard(h)
  PROVE  TypeOK'
  <1> USE DEF TypeOK
  <1>1. ASSUME NEW i \in Indices, Stage(h, i) PROVE TypeOK'
    <2>1. platform[i] \in Platforms
      BY <1>1 DEF Stage
    <2>2. [index |-> i, surface |-> platform[i].surface, hidden |-> platform[i].hidden,
           paused |-> platform[i].paused, running |-> platform[i].running] \in Holds
      BY <2>1 DEF Platforms, Holds
    <2>3. [platform[i] EXCEPT !.hidden = TRUE, !.paused = TRUE, !.running = FALSE] \in Platforms
      BY <2>1 DEF Platforms
    <2>4. platform' = [platform EXCEPT ![i] =
            [platform[i] EXCEPT !.hidden = TRUE, !.paused = TRUE, !.running = FALSE]]
      BY <1>1 DEF Stage
    <2>5. platform' \in [Indices -> Platforms \cup {None}]
      BY <2>3, <2>4
    <2>6. hold' \in [HoldIds -> Holds \cup {None}]
      <3>1. PICK x \in Holds : hold' = [hold EXCEPT ![h] = x]
        BY <1>1, <2>2 DEF Stage
      <3> QED
        BY <3>1
    <2>7. UNCHANGED <<lock, tombstone, surfaces, exact>>
      BY <1>1 DEF Stage
    <2> QED
      BY <2>5, <2>6, <2>7
  <1>2. CASE GoLive(h)
    <2> DEFINE i == hold[h].index
               live == [platform[i] EXCEPT !.hidden = hold[h].hidden, !.paused = hold[h].paused,
                                           !.running = hold[h].running]
    <2>1. hold[h] \in Holds /\ i \in Indices /\ platform[i] \in Platforms
      BY <1>2 DEF GoLive, Resolves, Holds
    <2>2. live \in Platforms
      BY <2>1 DEF Platforms, Holds
    <2>3. platform' = [platform EXCEPT ![i] = live]
      BY <1>2 DEF GoLive
    <2>4. exact' \in [Indices -> SUBSET Jobs] /\ hold' \in [HoldIds -> Holds \cup {None}]
      BY <1>2 DEF GoLive
    <2> HIDE DEF live, i
    <2> QED
      BY <1>2, <2>2, <2>3, <2>4 DEF GoLive
  <1>3. CASE Discard(h)
    BY <1>3 DEF Discard
  <1> QED
    BY <1>1, <1>2, <1>3

LEMMA TypeTimeStep ==
  ASSUME TypeOK, Elapse \/ Scan
  PROVE  TypeOK'
  <1> USE DEF TypeOK
  <1>1. CASE Elapse
    <2>1. ASSUME NEW l \in Locks, l.left > 0 PROVE [l EXCEPT !.left = @ - 1] \in Locks
      BY <2>1, SurfaceLockAssumption DEF Locks
    <2>2. lock' \in [Indices -> Locks \cup {None}]
      BY <1>1, <2>1 DEF Elapse
    <2>3. ASSUME NEW b \in Tombstones, b.age < Retention PROVE [b EXCEPT !.age = @ + 1] \in Tombstones
      BY <2>3, SurfaceLockAssumption DEF Tombstones
    <2>4. tombstone' \in [Jobs -> Tombstones \cup {None}]
      BY <1>1, <2>3 DEF Elapse, Aged
    <2> QED
      BY <1>1, <2>2, <2>4 DEF Elapse
  <1>2. CASE Scan
    BY <1>2, ReleaseType, PrunedType DEF Scan
  <1> QED
    BY <1>1, <1>2

LEMMA TypeStep == TypeOK /\ [Next]_vars => TypeOK'
  <1> SUFFICES ASSUME TypeOK, [Next]_vars
               PROVE  TypeOK'
    OBVIOUS
  <1>1. CASE Next
    BY <1>1, TypeGameStep, TypeLockStep, TypeCommitStep, TypeHoldStep, TypeTimeStep DEF Next
  <1>2. CASE UNCHANGED vars
    BY <1>2 DEF TypeOK, vars
  <1> QED
    BY <1>1, <1>2

\* The platforms and the three registries keep their form.
THEOREM TypeCorrect == Spec => []TypeOK
  BY TypeInit, TypeStep, PTL DEF Spec

-----------------------------------------------------------------------------
(* Holds.  Surfaces are never used twice, so a hold speaks of one platform     *)
(* only; and two holds never speak of the same one, so that letting one go     *)
(* live does not wake what the other still owns.                               *)

SurfacesUsed ==
  /\ \A i \in Indices : platform[i] # None => platform[i].surface <= surfaces
  /\ \A h \in HoldIds : hold[h] # None => hold[h].surface <= surfaces

HoldsDistinct ==
  \A g, h \in HoldIds :
    hold[g] # None /\ hold[h] # None /\ g # h =>
      hold[g].index # hold[h].index \/ hold[g].surface # hold[h].surface

HoldInv == TypeOK /\ SurfacesUsed /\ HoldsDistinct /\ HoldKeepsNotLive

NotLive(p) == p.hidden /\ p.paused /\ ~p.running

LEMMA HoldInvInit == Init => HoldInv
  BY TypeInit DEF Init, HoldInv, SurfacesUsed, HoldsDistinct, HoldKeepsNotLive, Held

\* A step that adds no hold and no surface, and changes no held platform but to
\* remove it, keeps the invariant.
LEMMA HoldKept ==
  ASSUME HoldInv, TypeOK', UNCHANGED <<hold, surfaces>>,
         \A i \in Indices : platform'[i] # None =>
           /\ platform[i] # None /\ platform'[i].surface = platform[i].surface
           /\ Held(i) /\ NotLive(platform[i]) => NotLive(platform'[i])
  PROVE  HoldInv'
  <1>1. SurfacesUsed' /\ HoldsDistinct'
    BY DEF HoldInv, SurfacesUsed, HoldsDistinct
  <1>2. ASSUME NEW i \in Indices, Held(i)' PROVE NotLive(platform'[i])
    <2>1. platform'[i] # None /\ Held(i)
      BY <1>2 DEF Held
    <2>2. NotLive(platform[i])
      BY <2>1 DEF HoldInv, HoldKeepsNotLive, NotLive
    <2> QED
      BY <2>1, <2>2
  <1>3. HoldKeepsNotLive'
    BY <1>2 DEF HoldKeepsNotLive, NotLive
  <1> QED
    BY <1>1, <1>3 DEF HoldInv

LEMMA RestoredKeepsHeld ==
  ASSUME TypeOK, NEW i \in Indices, platform[i] # None
  PROVE  /\ Restored(i) # None /\ Restored(i).surface = platform[i].surface
         /\ Held(i) => Restored(i) = platform[i]
  <1>1. platform[i] \in Platforms
    BY DEF TypeOK
  <1>2. ASSUME NEW p \in Platforms, NEW b, NEW c
        PROVE  [p EXCEPT !.hidden = b, !.running = c].surface = p.surface
    BY DEF Platforms
  <1>3. Restored(i) # None
    <2>1. Restored(i) = platform[i] \/ Restored(i) \in Platforms
      BY <1>1, RestoredType DEF Restored, TypeOK, SameSurface, Platforms, Locks
    <2> QED
      BY <2>1, NoneAssumption
  <1> QED
    BY <1>1, <1>2, <1>3 DEF Restored

LEMMA HoldInvStep == HoldInv /\ [Next]_vars => HoldInv'
  <1> SUFFICES ASSUME HoldInv, [Next]_vars
               PROVE  HoldInv'
    OBVIOUS
  <1>0. TypeOK /\ TypeOK'
    BY TypeStep DEF HoldInv
  <1>1. ASSUME NEW S, Release(S), UNCHANGED <<hold, surfaces>> PROVE HoldInv'
    <2>1. \A i \in Indices : platform'[i] = Restored(i) \/ platform'[i] = platform[i]
      BY <1>1 DEF Release
    <2>2. \A i \in Indices : platform[i] = None => Restored(i) = None
      BY DEF Restored, SameSurface
    <2> QED
      BY <1>0, <1>1, <2>1, <2>2, RestoredKeepsHeld, HoldKept
  <1>2. ASSUME NEW i \in Indices, NEW p \in Platforms, UNCHANGED <<hold, surfaces>>,
               platform[i] # None, platform' = [platform EXCEPT ![i] = p],
               p.surface = platform[i].surface, Held(i) /\ NotLive(platform[i]) => NotLive(p)
        PROVE  HoldInv'
    <2>1. \A u \in Indices : platform'[u] = IF u = i THEN p ELSE platform[u]
      BY <1>0, <1>2 DEF TypeOK
    <2> QED
      BY <1>0, <1>2, <2>1, HoldKept
  <1>3. ASSUME NEW i \in Indices, UNCHANGED <<hold, surfaces>>,
               platform' = [platform EXCEPT ![i] = None]
        PROVE  HoldInv'
    <2>1. \A u \in Indices : platform'[u] = IF u = i THEN None ELSE platform[u]
      BY <1>0, <1>3 DEF TypeOK
    <2> QED
      BY <1>0, <1>3, <2>1, HoldKept
  <1>4. ASSUME UNCHANGED <<platform, hold, surfaces>> PROVE HoldInv'
    BY <1>0, <1>4, HoldKept
  <1>5. ASSUME NEW i \in Indices, platform[i] # None PROVE platform[i] \in Platforms
    BY <1>0, <1>5 DEF TypeOK
  <1>6. CASE Next
    <2>1. ASSUME NEW i \in Indices, NEW name \in Names, Create(i, name) PROVE HoldInv'
      <3> DEFINE p == [surface |-> surfaces + 1, name |-> name, hidden |-> FALSE,
                       paused |-> FALSE, running |-> TRUE]
      <3>1. /\ \A u \in Indices : platform'[u] = IF u = i THEN p ELSE platform[u]
            /\ UNCHANGED hold /\ surfaces' = surfaces + 1 /\ surfaces \in Nat
        BY <1>0, <2>1 DEF Create, TypeOK
      <3>2. p.surface = surfaces + 1
        OBVIOUS
      <3>3. /\ \A u \in Indices : platform[u] # None => platform[u].surface \in Nat
            /\ \A h \in HoldIds : hold[h] # None => hold[h].surface \in Nat
        BY <1>0, SurfaceLockAssumption DEF TypeOK, Platforms, Holds
      <3> HIDE DEF p
      <3>4. SurfacesUsed'
        BY <3>1, <3>2, <3>3 DEF HoldInv, SurfacesUsed
      <3>5. HoldsDistinct'
        BY <3>1 DEF HoldInv, HoldsDistinct
      <3>6. ~Held(i)'
        BY <3>1, <3>2, <3>3 DEF HoldInv, SurfacesUsed, Held
      <3>7. \A u \in Indices : Held(u)' => u # i /\ Held(u) /\ platform'[u] = platform[u]
        BY <3>1, <3>6 DEF Held
      <3>8. HoldKeepsNotLive'
        BY <3>7 DEF HoldInv, HoldKeepsNotLive
      <3> QED
        BY <1>0, <3>4, <3>5, <3>8 DEF HoldInv
    <2>2. ASSUME NEW i \in Indices, NEW name \in Names, Rename(i, name) PROVE HoldInv'
      <3> DEFINE p == [platform[i] EXCEPT !.name = name]
      <3>1. p \in Platforms /\ p.surface = platform[i].surface
            /\ (NotLive(platform[i]) => NotLive(p))
        BY <1>5, <2>2 DEF Rename, Platforms, NotLive
      <3>2. platform' = [platform EXCEPT ![i] = p]
        BY <2>2 DEF Rename
      <3> HIDE DEF p
      <3> QED
        BY <1>2, <2>2, <3>1, <3>2 DEF Rename
    <2>3. ASSUME NEW i \in Indices, RemoveByPlayer(i) PROVE HoldInv'
      BY <1>3, <2>3 DEF RemoveByPlayer
    <2>4. ASSUME NEW i \in Indices, Resume(i) PROVE HoldInv'
      <3> DEFINE p == [platform[i] EXCEPT !.paused = FALSE, !.running = TRUE]
      <3>1. p \in Platforms /\ p.surface = platform[i].surface
        BY <1>5, <2>4 DEF Resume, Platforms
      <3>2. platform' = [platform EXCEPT ![i] = p]
        BY <2>4 DEF Resume
      <3> HIDE DEF p
      <3> QED
        BY <1>2, <2>4, <3>1, <3>2 DEF Resume
    <2>5. ASSUME NEW i \in Indices, NEW kind, NEW job, LockFree(i, kind, job) PROVE HoldInv'
      <3> DEFINE p == [platform[i] EXCEPT !.hidden = TRUE, !.running = FALSE]
      <3>1. p \in Platforms /\ p.surface = platform[i].surface
            /\ (NotLive(platform[i]) => NotLive(p))
        BY <1>5, <2>5 DEF LockFree, Platforms, NotLive
      <3>2. platform' = [platform EXCEPT ![i] = p]
        BY <2>5 DEF LockFree
      <3> HIDE DEF p
      <3> QED
        BY <1>2, <2>5, <3>1, <3>2 DEF LockFree
    <2>6. ASSUME NEW i \in Indices, NEW job, Upgrade(i, job) PROVE HoldInv'
      BY <1>4, <2>6 DEF Upgrade
    <2>7. ASSUME NEW i \in Indices, NEW expected, Unlock(i, expected) PROVE HoldInv'
      BY <1>1, <2>7 DEF Unlock
    <2>8. ASSUME NEW i \in Indices, NEW id, Commit(i, id) PROVE HoldInv'
      BY <1>4, <2>8 DEF Commit
    <2>9. ASSUME NEW i \in Indices, NEW id, DeleteForTransfer(i, id) PROVE HoldInv'
      <3>1. platform[i] # None /\ UNCHANGED <<hold, surfaces>>
        BY <2>9 DEF DeleteForTransfer, DeleteIdentityOk, SameSurface
      <3>2. \/ platform' = [platform EXCEPT ![i] = None]
            \/ platform' = [platform EXCEPT ![i] = platform[i]]
            \/ platform' = [platform EXCEPT ![i] = Restored(i)]
        BY <2>9 DEF DeleteForTransfer
      <3>3. Restored(i) \in Platforms
        BY <1>0, <3>1, RestoredType, RestoredKeepsHeld
      <3> QED
        BY <1>0, <1>2, <1>3, <1>5, <3>1, <3>2, <3>3, RestoredKeepsHeld
    <2>10. ASSUME NEW h \in HoldIds, NEW i \in Indices, Stage(h, i) PROVE HoldInv'
      <3> DEFINE p == [platform[i] EXCEPT !.hidden = TRUE, !.paused = TRUE, !.running = FALSE]
                 new == [index |-> i, surface |-> platform[i].surface,
                         hidden |-> platform[i].hidden, paused |-> platform[i].paused,
                         running |-> platform[i].running]
      <3>1. p.surface = platform[i].surface /\ NotLive(p)
        BY <1>5, <2>10 DEF Stage, Platforms, NotLive
      <3>2. new.index = i /\ new.surface = platform[i].surface
        OBVIOUS
      <3>3. /\ \A u \in Indices : platform'[u] = IF u = i THEN p ELSE platform[u]
            /\ \A g \in HoldIds : hold'[g] = IF g = h THEN new ELSE hold[g]
            /\ surfaces' = surfaces /\ platform[i] # None /\ hold[h] = None /\ ~Held(i)
        BY <1>0, <2>10 DEF Stage, TypeOK
      <3> HIDE DEF p, new
      <3>4. SurfacesUsed'
        BY <3>1, <3>2, <3>3 DEF HoldInv, SurfacesUsed
      <3>5. HoldsDistinct'
        BY <3>2, <3>3 DEF HoldInv, HoldsDistinct, Held
      <3>6. \A u \in Indices : Held(u)' => u = i \/ (Held(u) /\ platform'[u] = platform[u])
        BY <3>2, <3>3 DEF Held
      <3>7. HoldKeepsNotLive'
        BY <3>1, <3>3, <3>6 DEF HoldInv, HoldKeepsNotLive, NotLive
      <3> QED
        BY <1>0, <3>4, <3>5, <3>7 DEF HoldInv
    <2>11. ASSUME NEW h \in HoldIds, GoLive(h) PROVE HoldInv'
      <3>1. PICK i \in Indices :
              /\ i = hold[h].index /\ hold[h] # None
              /\ platform[i] # None /\ platform[i].surface = hold[h].surface
        BY <1>0, <2>11 DEF GoLive, Resolves, TypeOK, Holds
      <3> DEFINE p == [platform[i] EXCEPT !.hidden = hold[h].hidden, !.paused = hold[h].paused,
                                          !.running = hold[h].running]
      <3>2. p.surface = platform[i].surface
        BY <1>5, <3>1 DEF Platforms
      <3>3. /\ \A u \in Indices : platform'[u] = IF u = i THEN p ELSE platform[u]
            /\ \A g \in HoldIds : hold'[g] = IF g = h THEN None ELSE hold[g]
            /\ surfaces' = surfaces
        BY <1>0, <2>11, <3>1 DEF GoLive, TypeOK
      <3> HIDE DEF p
      <3>4. SurfacesUsed'
        BY <3>1, <3>2, <3>3 DEF HoldInv, SurfacesUsed
      <3>5. HoldsDistinct'
        BY <3>3 DEF HoldInv, HoldsDistinct
      <3>6. ~Held(i)'
        BY <3>1, <3>2, <3>3 DEF HoldInv, HoldsDistinct, Held
      <3>7. \A u \in Indices : Held(u)' => u # i /\ Held(u) /\ platform'[u] = platform[u]
        BY <3>3, <3>6 DEF Held
      <3>8. HoldKeepsNotLive'
        BY <3>7 DEF HoldInv, HoldKeepsNotLive
      <3> QED
        BY <1>0, <3>4, <3>5, <3>8 DEF HoldInv
    <2>12. ASSUME NEW h \in HoldIds, Discard(h) PROVE HoldInv'
      <3>1. /\ \A u \in Indices : platform'[u] # None => platform'[u] = platform[u]
            /\ \A g \in HoldIds : hold'[g] # None => hold'[g] = hold[g]
            /\ surfaces' = surfaces
        BY <1>0, <2>12 DEF Discard, TypeOK
      <3>2. SurfacesUsed' /\ HoldsDistinct'
        BY <3>1 DEF HoldInv, SurfacesUsed, HoldsDistinct
      <3>3. \A u \in Indices : Held(u)' => Held(u) /\ platform'[u] = platform[u]
        BY <3>1 DEF Held
      <3>4. HoldKeepsNotLive'
        BY <3>3 DEF HoldInv, HoldKeepsNotLive
      <3> QED
        BY <1>0, <3>2, <3>4 DEF HoldInv
    <2>13. CASE Elapse
      BY <1>4, <2>13 DEF Elapse
    <2>14. CASE Scan
      BY <1>1, <2>14 DEF Scan
    <2> QED
      BY <1>6, <2>1, <2>2, <2>3, <2>4, <2>5, <2>6, <2>7, <2>8, <2>9, <2>10, <2>11, <2>12,
         <2>13, <2>14 DEF Next, Lock
  <1>7. CASE UNCHANGED vars
    BY <1>4, <1>7 DEF vars
  <1> QED
    BY <1>6, <1>7

\* D1 for any number of platforms, holds and locks: no lock, unlock, expiry or
\* delete, and no other hold, wakes a platform that a hold owns.
THEOREM HoldOwnsNotLive == Spec => []HoldKeepsNotLive
  <1>1. HoldInv => HoldKeepsNotLive
    BY DEF HoldInv
  <1> QED
    BY <1>1, HoldInvInit, HoldInvStep, PTL DEF Spec

-----------------------------------------------------------------------------
(* Committed locks *)

Irreversible(i) ==
  Committed(i) =>
    \/ Committed(i)' /\ lock'[i].surface = lock[i].surface
    \/ LET id == lock[i].committed
       IN  /\ DeleteIdentityOk(i, id) /\ lock'[i] = None /\ platform'[i] = None
           /\ tombstone'[id] # None /\ tombstone'[id].deleted

LEMMA CommittedStep ==
  ASSUME "stuck" \notin Interference, TypeOK, [Next]_vars, NEW i \in Indices
  PROVE  Irreversible(i)
  <1>1. ASSUME lock'[i] = lock[i] PROVE Irreversible(i)
    BY <1>1 DEF Irreversible, Committed
  <1>2. ASSUME NEW S, Release(S), i \in S => ~Committed(i) PROVE Irreversible(i)
    BY <1>1, <1>2 DEF Release, Irreversible
  \* The entry at i is replaced by one like it that is committed too.
  <1>3. ASSUME NEW l \in Locks, lock'[i] = l, Committed(i) => l.committed # None,
               l.surface = lock[i].surface
        PROVE  Irreversible(i)
    BY <1>3, NoneAssumption DEF Irreversible, Committed
  <1>4. CASE Next
    <2>1. ASSUME NEW u \in Indices,
                 \/ \E name \in Names : Create(u, name) \/ Rename(u, name)
                 \/ RemoveByPlayer(u) \/ Resume(u) \/ (\E h \in HoldIds : Stage(h, u))
          PROVE  Irreversible(i)
      BY <1>1, <2>1 DEF Create, Rename, RemoveByPlayer, Resume, Stage
    <2>2. ASSUME NEW u \in Indices, NEW kind, NEW job, LockFree(u, kind, job)
          PROVE  Irreversible(i)
      <3>1. i # u => lock'[i] = lock[i]
        BY <2>2 DEF LockFree, TypeOK
      <3>2. i = u => ~Committed(i)
        BY <2>2 DEF LockFree, Committed
      <3> QED
        BY <1>1, <3>1, <3>2 DEF Irreversible
    <2>3. ASSUME NEW u \in Indices, NEW job \in Jobs \cup {None}, Upgrade(u, job)
          PROVE  Irreversible(i)
      <3> DEFINE owner == IF job = None THEN lock[u].job ELSE job
                 l == [lock[u] EXCEPT !.job = owner, !.left = TTL]
      <3>1. lock[u] \in Locks
        BY <2>3 DEF Upgrade, SameSurface, TypeOK
      <3>2. lock' = [lock EXCEPT ![u] = l]
        BY <2>3 DEF Upgrade
      <3>3. owner \in Jobs \cup {None} /\ TTL \in 0..TTL
        BY <3>1, SurfaceLockAssumption DEF Locks
      <3> HIDE DEF owner
      <3>4. l \in Locks /\ l.committed = lock[u].committed /\ l.surface = lock[u].surface
        BY <3>1, <3>3 DEF Locks
      <3>5. lock'[i] = IF i = u THEN l ELSE lock[i]
        BY <3>2 DEF TypeOK
      <3> HIDE DEF l
      <3> QED
        BY <1>1, <1>3, <3>4, <3>5 DEF Committed
    <2>4. ASSUME NEW u \in Indices, NEW expected, Unlock(u, expected)
          PROVE  Irreversible(i)
      BY <1>2, <2>4 DEF Unlock
    <2>5. ASSUME NEW u \in Indices, NEW id \in Jobs, Commit(u, id)
          PROVE  Irreversible(i)
      <3> DEFINE l == [lock[u] EXCEPT !.committed = id]
      <3>1. lock[u] \in Locks /\ lock'[i] = IF i = u THEN l ELSE lock[i]
        BY <2>5 DEF Commit, TypeOK
      <3>2. l \in Locks /\ l.committed = id /\ l.surface = lock[u].surface
        BY <3>1 DEF Locks
      <3>3. id # None
        BY SurfaceLockAssumption
      <3> HIDE DEF l
      <3> QED
        BY <1>1, <1>3, <3>1, <3>2, <3>3
    <2>6. ASSUME NEW u \in Indices, NEW id \in Jobs, DeleteForTransfer(u, id)
          PROVE  Irreversible(i)
      <3>1. lock'[i] = IF i = u THEN None ELSE lock[i]
        BY <2>6 DEF DeleteForTransfer, TypeOK
      <3>2. ASSUME i = u, Committed(i) PROVE Irreversible(i)
        <4>1. lock[i].committed = id /\ tombstone[id] \in Tombstones
          BY <2>6, <3>2 DEF DeleteForTransfer, MayClear, TypeOK
        <4>2. tombstone'[id] = [tombstone[id] EXCEPT !.deleted = TRUE]
          BY <2>6, <3>2 DEF DeleteForTransfer, TypeOK
        <4>3. tombstone'[id] \in Tombstones /\ tombstone'[id].deleted
          BY <4>1, <4>2 DEF Tombstones
        <4>4. DeleteIdentityOk(i, id) /\ platform'[i] = None
          BY <2>6, <3>2 DEF DeleteForTransfer, TypeOK
        <4> QED
          BY <3>1, <3>2, <4>1, <4>3, <4>4, NoneAssumption DEF Irreversible
      <3> QED
        BY <1>1, <3>1, <3>2 DEF Irreversible
    <2>7. ASSUME NEW h \in HoldIds, GoLive(h) \/ Discard(h) PROVE Irreversible(i)
      BY <1>1, <2>7 DEF GoLive, Discard
    <2>8. CASE Elapse
      <3>1. CASE lock[i] # None /\ lock[i].left > 0
        <4> DEFINE l == [lock[i] EXCEPT !.left = lock[i].left - 1]
        <4>1. lock[i] \in Locks /\ lock'[i] = l
          BY <2>8, <3>1 DEF Elapse, TypeOK
        <4>2. l \in Locks /\ l.committed = lock[i].committed /\ l.surface = lock[i].surface
          BY <3>1, <4>1, SurfaceLockAssumption DEF Locks
        <4> HIDE DEF l
        <4> QED
          BY <1>3, <4>1, <4>2 DEF Committed
      <3>2. CASE ~(lock[i] # None /\ lock[i].left > 0)
        BY <1>1, <2>8, <3>2 DEF Elapse
      <3> QED
        BY <3>1, <3>2
    <2>9. CASE Scan
      BY <1>2, <2>9 DEF Scan, Expired
    <2> QED
      BY <1>4, <2>1, <2>2, <2>3, <2>4, <2>5, <2>6, <2>7, <2>8, <2>9 DEF Next, Lock
  <1>5. CASE UNCHANGED vars
    BY <1>1, <1>5 DEF vars
  <1> QED
    BY <1>4, <1>5

\* COMMIT cannot be taken back: unless the game refuses to delete a platform, a
\* committed lock ends only by the delete for its own job, and with the platform.
THEOREM CommitIsFinal ==
  ASSUME "stuck" \notin Interference
  PROVE  Spec => CommittedIsIrreversible
  <1>1. TypeOK /\ [Next]_vars => [\A i \in Indices : Irreversible(i)]_vars
    BY CommittedStep
  <1> QED
    BY <1>1, TypeCorrect, PTL DEF Spec, CommittedIsIrreversible, Irreversible

-----------------------------------------------------------------------------
(* The lock registry of an instance on which no platform is held, resumed by   *)
(* command or kept by the game when it is deleted: then a lock, and nothing    *)
(* else, takes a platform out of play.                                         *)

\* What holds of the platform p, the lock l and the exports x of one index when s
\* surfaces were used: a lock on the platform that is there was taken of a live one,
\* keeps it hidden and frozen, and its job is one of the exports; a lock on an
\* earlier platform has an earlier surface, and leaves the one that is there alone.
Good(p, l, x, s) ==
  /\ p # None => p.surface <= s
  /\ l # None => l.surface <= s /\ (l.kind = "transfer" => l.job # None)
  /\ p # None /\ l # None /\ l.surface = p.surface =>
       /\ p.hidden /\ ~p.paused /\ ~p.running
       /\ ~l.hidden /\ l.running
       /\ l.kind = "transfer" => l.job \in x
  /\ p # None /\ ~(l # None /\ l.surface = p.surface) =>
       ~p.hidden /\ ~p.paused /\ p.running

GoodAt(i) == Good(platform[i], lock[i], exact[i], surfaces)

AloneInv == TypeOK /\ \A i \in Indices : GoodAt(i)

LEMMA AloneInit == Init => AloneInv
  BY TypeInit DEF Init, AloneInv, GoodAt, Good

\* What is released is as it was before it was locked.
LEMMA RestoredGood ==
  ASSUME AloneInv, HoldIds = {}, NEW i \in Indices, NEW x
  PROVE  Good(Restored(i), None, x, surfaces)
  <1>1. CASE SameSurface(i)
    <2>1. platform[i] \in Platforms /\ lock[i] \in Locks
      BY <1>1 DEF AloneInv, TypeOK, SameSurface
    <2>2. ~Held(i)
      BY DEF Held
    <2> DEFINE p == [platform[i] EXCEPT !.hidden = lock[i].hidden, !.running = lock[i].running]
    <2>3. /\ p.surface = platform[i].surface /\ p.paused = platform[i].paused
          /\ p.hidden = lock[i].hidden /\ p.running = lock[i].running
      BY <2>1 DEF Platforms
    <2>4. Restored(i) = p
      BY <1>1, <2>2 DEF Restored
    <2>5. /\ platform[i].surface <= surfaces /\ ~platform[i].paused
          /\ ~lock[i].hidden /\ lock[i].running
      BY <1>1 DEF AloneInv, GoodAt, Good, SameSurface
    <2> HIDE DEF p
    <2> QED
      BY <2>3, <2>4, <2>5 DEF Good
  <1>2. CASE ~SameSurface(i)
    BY <1>2 DEF AloneInv, GoodAt, Good, SameSurface, Restored
  <1> QED
    BY <1>1, <1>2

LEMMA ReleaseGood ==
  ASSUME AloneInv, HoldIds = {}, NEW S, Release(S), surfaces' = surfaces, NEW u \in Indices
  PROVE  GoodAt(u)'
  <1>1. CASE u \in S
    <2>1. lock'[u] = None /\ platform'[u] = Restored(u)
      BY <1>1 DEF Release
    <2> QED
      BY <2>1, RestoredGood DEF GoodAt
  <1>2. CASE u \notin S
    <2>1. lock'[u] = lock[u] /\ platform'[u] = platform[u] /\ exact'[u] = exact[u]
      BY <1>2 DEF Release
    <2> QED
      BY <2>1 DEF AloneInv, GoodAt
  <1> QED
    BY <1>1, <1>2

LEMMA AloneStep ==
  ASSUME AloneInv, [Next]_vars, HoldIds = {}, Interference = {}
  PROVE  AloneInv'
  <1>0. TypeOK /\ TypeOK'
    BY TypeStep DEF AloneInv
  <1> SUFFICES ASSUME NEW u \in Indices
               PROVE  GoodAt(u)'
    BY <1>0 DEF AloneInv
  <1>1. GoodAt(u) /\ surfaces \in Nat
    BY <1>0, SurfaceLockAssumption DEF AloneInv, TypeOK
  <1>2. ASSUME platform'[u] = platform[u], lock'[u] = lock[u], exact'[u] = exact[u],
               surfaces' = surfaces
        PROVE  GoodAt(u)'
    BY <1>1, <1>2 DEF GoodAt
  <1>3. /\ platform[u] # None => platform[u] \in Platforms /\ platform[u].surface \in Nat
        /\ lock[u] # None => lock[u] \in Locks /\ lock[u].surface \in Nat
    BY <1>0, SurfaceLockAssumption DEF TypeOK, Platforms, Locks
  <1>4. CASE Next
    <2>1. ASSUME NEW i \in Indices, NEW name \in Names, Create(i, name) PROVE GoodAt(u)'
      <3> DEFINE p == [surface |-> surfaces + 1, name |-> name, hidden |-> FALSE,
                       paused |-> FALSE, running |-> TRUE]
      <3>1. /\ platform'[u] = IF u = i THEN p ELSE platform[u]
            /\ exact'[u] = IF u = i THEN {} ELSE exact[u]
            /\ lock' = lock /\ surfaces' = surfaces + 1
        BY <1>0, <2>1 DEF Create, TypeOK
      <3>2. p.surface = surfaces + 1 /\ ~p.hidden /\ ~p.paused /\ p.running
        OBVIOUS
      <3> HIDE DEF p
      <3>3. CASE u = i
        BY <1>1, <1>3, <3>1, <3>2, <3>3 DEF GoodAt, Good
      <3>4. CASE u # i
        BY <1>1, <1>3, <3>1, <3>4 DEF GoodAt, Good
      <3> QED
        BY <3>3, <3>4
    <2>2. ASSUME NEW i \in Indices, NEW name \in Names, Rename(i, name) PROVE GoodAt(u)'
      <3>1. CASE u = i
        <4> DEFINE p == [platform[u] EXCEPT !.name = name]
        <4>1. platform'[u] = p /\ platform[u] # None /\ UNCHANGED <<lock, exact, surfaces>>
          BY <1>0, <2>2, <3>1 DEF Rename, TypeOK
        <4>2. /\ p.surface = platform[u].surface /\ p.hidden = platform[u].hidden
              /\ p.paused = platform[u].paused /\ p.running = platform[u].running
          BY <1>3, <4>1 DEF Platforms
        <4> HIDE DEF p
        <4> QED
          BY <1>1, <4>1, <4>2 DEF GoodAt, Good
      <3>2. CASE u # i
        BY <1>0, <1>2, <2>2, <3>2 DEF Rename, TypeOK
      <3> QED
        BY <3>1, <3>2
    <2>3. ASSUME NEW i \in Indices, RemoveByPlayer(i) PROVE GoodAt(u)'
      <3>1. CASE u = i
        BY <1>0, <1>1, <2>3, <3>1 DEF RemoveByPlayer, GoodAt, Good, TypeOK
      <3>2. CASE u # i
        BY <1>0, <1>2, <2>3, <3>2 DEF RemoveByPlayer, TypeOK
      <3> QED
        BY <3>1, <3>2
    <2>4. ASSUME NEW i \in Indices, Resume(i) PROVE GoodAt(u)'
      BY <2>4 DEF Resume
    <2>5. ASSUME NEW i \in Indices, NEW kind \in Kinds, NEW job \in Jobs \cup {None},
                 LockFree(i, kind, job), kind = "transfer" => job # None
          PROVE  GoodAt(u)'
      <3>1. CASE u = i
        <4> DEFINE p == [platform[u] EXCEPT !.hidden = TRUE, !.running = FALSE]
                   l == [surface |-> platform[u].surface, name |-> platform[u].name,
                         hidden |-> platform[u].hidden, running |-> platform[u].running,
                         kind |-> kind, job |-> job, left |-> TTL, committed |-> None]
        <4>1. /\ platform'[u] = p /\ lock'[u] = l /\ platform[u] # None /\ lock[u] = None
              /\ exact'[u] = IF kind = "transfer" THEN {job} \ {None} ELSE {}
              /\ surfaces' = surfaces
          BY <1>0, <2>5, <3>1 DEF LockFree, TypeOK
        <4>2. /\ p.surface = platform[u].surface /\ p.hidden = TRUE
              /\ p.paused = platform[u].paused /\ p.running = FALSE
          BY <1>3, <4>1 DEF Platforms
        <4>3. /\ l.surface = platform[u].surface /\ l.hidden = platform[u].hidden
              /\ l.running = platform[u].running /\ l.kind = kind /\ l.job = job
          OBVIOUS
        <4>6. l # None
          <5>1. l \in Locks
            BY <1>3, <4>1, SurfaceLockAssumption DEF Locks, Platforms
          <5> QED
            BY <5>1, NoneAssumption
        <4> HIDE DEF p, l
        <4>4. /\ platform[u].surface <= surfaces /\ ~platform[u].hidden
              /\ ~platform[u].paused /\ platform[u].running
          BY <1>1, <4>1 DEF GoodAt, Good
        <4>5. kind = "transfer" => job \in exact'[u]
          BY <2>5, <4>1
        <4> QED
          BY <2>5, <4>1, <4>2, <4>3, <4>4, <4>5, <4>6 DEF GoodAt, Good
      <3>2. CASE u # i
        BY <1>0, <1>2, <2>5, <3>2 DEF LockFree, TypeOK
      <3> QED
        BY <3>1, <3>2
    <2>6. ASSUME NEW i \in Indices, NEW job \in Jobs, Upgrade(i, job) PROVE GoodAt(u)'
      <3>1. CASE u = i
        <4> DEFINE l == [lock[u] EXCEPT !.job = job, !.left = TTL]
        <4>0. job # None
          BY SurfaceLockAssumption
        <4>1. /\ platform' = platform /\ lock'[u] = l /\ lock[u] # None
              /\ exact'[u] = exact[u] \cup {job} /\ surfaces' = surfaces
          BY <1>0, <2>6, <3>1, <4>0 DEF Upgrade, SameSurface, TypeOK
        <4>2. /\ l.surface = lock[u].surface /\ l.hidden = lock[u].hidden
              /\ l.running = lock[u].running /\ l.kind = lock[u].kind /\ l.job = job
          BY <1>3, <4>1 DEF Locks
        <4>3. job \in exact'[u] /\ l # None
          <5>1. TTL \in 0..TTL
            BY SurfaceLockAssumption
          <5>2. l \in Locks
            BY <1>3, <4>1, <5>1 DEF Locks
          <5> QED
            BY <4>1, <5>2, NoneAssumption
        <4> HIDE DEF l
        <4> QED
          BY <1>1, <4>0, <4>1, <4>2, <4>3 DEF GoodAt, Good
      <3>2. CASE u # i
        BY <1>0, <1>2, <2>6, <3>2 DEF Upgrade, TypeOK
      <3> QED
        BY <3>1, <3>2
    <2>7. ASSUME NEW i \in Indices, NEW expected, Unlock(i, expected) PROVE GoodAt(u)'
      BY <2>7, ReleaseGood DEF Unlock
    <2>8. ASSUME NEW i \in Indices, NEW id \in Jobs, Commit(i, id) PROVE GoodAt(u)'
      <3>1. CASE u = i
        <4> DEFINE l == [lock[u] EXCEPT !.committed = id]
        <4>1. lock'[u] = l /\ lock[u] # None /\ UNCHANGED <<platform, exact, surfaces>>
          BY <1>0, <2>8, <3>1 DEF Commit, TypeOK
        <4>2. /\ l.surface = lock[u].surface /\ l.hidden = lock[u].hidden
              /\ l.running = lock[u].running /\ l.kind = lock[u].kind /\ l.job = lock[u].job
          BY <1>3, <4>1 DEF Locks
        <4>3. l # None
          <5>1. l \in Locks
            BY <1>3, <4>1 DEF Locks
          <5> QED
            BY <5>1, NoneAssumption
        <4> HIDE DEF l
        <4> QED
          BY <1>1, <4>1, <4>2, <4>3 DEF GoodAt, Good
      <3>2. CASE u # i
        BY <1>0, <1>2, <2>8, <3>2 DEF Commit, TypeOK
      <3> QED
        BY <3>1, <3>2
    <2>9. ASSUME NEW i \in Indices, NEW id \in Jobs, DeleteForTransfer(i, id) PROVE GoodAt(u)'
      <3>1. platform' = [platform EXCEPT ![i] = None] /\ UNCHANGED <<exact, surfaces>>
        BY <2>9 DEF DeleteForTransfer
      <3>2. lock' = [lock EXCEPT ![i] = None]
        BY <2>9 DEF DeleteForTransfer
      <3>3. CASE u = i
        BY <1>0, <3>1, <3>2, <3>3 DEF GoodAt, Good, TypeOK
      <3>4. CASE u # i
        BY <1>0, <1>2, <3>1, <3>2, <3>4 DEF TypeOK
      <3> QED
        BY <3>3, <3>4
    <2>10. CASE Elapse
      <3>1. CASE lock[u] # None /\ lock[u].left > 0
        <4> DEFINE l == [lock[u] EXCEPT !.left = lock[u].left - 1]
        <4>1. lock'[u] = l /\ UNCHANGED <<platform, exact, surfaces>>
          BY <2>10, <3>1 DEF Elapse
        <4>2. /\ l # None /\ l.surface = lock[u].surface /\ l.hidden = lock[u].hidden
              /\ l.running = lock[u].running /\ l.kind = lock[u].kind /\ l.job = lock[u].job
          <5>1. l \in Locks
            BY <1>3, <3>1, SurfaceLockAssumption DEF Locks
          <5> QED
            BY <1>3, <3>1, <5>1, NoneAssumption DEF Locks
        <4> HIDE DEF l
        <4> QED
          BY <1>1, <3>1, <4>1, <4>2 DEF GoodAt, Good
      <3>2. CASE ~(lock[u] # None /\ lock[u].left > 0)
        BY <1>2, <2>10, <3>2 DEF Elapse
      <3> QED
        BY <3>1, <3>2
    <2>11. CASE Scan
      BY <2>11, ReleaseGood DEF Scan
    <2>12. ASSUME NEW i \in Indices, Lock(i) PROVE GoodAt(u)'
      <3>1. \A job \in Jobs : job # None
        BY SurfaceLockAssumption
      <3> QED
        BY <2>5, <2>6, <2>12, <3>1 DEF Lock, Kinds
    <2> QED
      BY <1>4, <2>1, <2>2, <2>3, <2>4, <2>7, <2>8, <2>9, <2>10, <2>11, <2>12 DEF Next
  <1>5. CASE UNCHANGED vars
    BY <1>2, <1>5 DEF vars
  <1> QED
    BY <1>4, <1>5

\* However locks are taken, renewed, expired, committed and left behind by their
\* platforms, a platform that is not live has a lock of its own: none is stranded.
THEOREM NoneStranded ==
  ASSUME HoldIds = {}, Interference = {}
  PROVE  Spec => []NotLiveIsOwned
  <1>1. AloneInv => NotLiveIsOwned
    BY DEF AloneInv, GoodAt, Good, NotLiveIsOwned, SameSurface
  <1>2. AloneInv /\ [Next]_vars => AloneInv'
    BY AloneStep
  <1> QED
    BY <1>1, <1>2, AloneInit, PTL DEF Spec

\* A source that was committed does not run again while its lock is there.
THEOREM CommittedStaysDown ==
  ASSUME HoldIds = {}, Interference = {}
  PROVE  Spec => []CommittedNotLive
  <1>1. AloneInv => CommittedNotLive
    BY DEF AloneInv, GoodAt, Good, CommittedNotLive, SameSurface
  <1>2. AloneInv /\ [Next]_vars => AloneInv'
    BY AloneStep
  <1> QED
    BY <1>1, <1>2, AloneInit, PTL DEF Spec

\* The delete of a transfer takes the very platform that was exported for it, and
\* as it was exported.
THEOREM DeletesWhatWasExported ==
  ASSUME HoldIds = {}, Interference = {}
  PROVE  Spec => DeletedWasExact
  <1>1. AloneInv => [\A i \in Indices : \A id \in Jobs :
                       DeleteForTransfer(i, id) /\ platform'[i] = None => id \in exact[i]]_vars
    BY DEF AloneInv, GoodAt, Good, DeleteForTransfer, DeleteIdentityOk, SameSurface
  <1>2. AloneInv /\ [Next]_vars => AloneInv'
    BY AloneStep
  <1> QED
    BY <1>1, <1>2, AloneInit, PTL DEF Spec, DeletedWasExact
=============================================================================

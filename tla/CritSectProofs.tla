--------------------------- MODULE CritSectProofs ---------------------------
(***************************************************************************)
(* Proofs about CritSect, for every set of threads, every set of           *)
(* structures and every nesting depth: the invariant IInv is inductive,    *)
(* and mutual exclusion, the count and the absence of a stuck state follow *)
(* from it for as long as no unsynchronised access has gone wrong.         *)
(***************************************************************************)
EXTENDS CritSect, TLAPS

USE ThreadAssumption, DepthAssumption

\* Every initial state satisfies the inductive invariant.
LEMMA InitInv == Init => IInv
<1> SUFFICES ASSUME Init PROVE IInv
  OBVIOUS
<1> USE DEF Init
<1>a. ptr \in Obj \cup {None} /\ live \subseteq Obj
  <2>1. CASE ptr \in Obj /\ live = {ptr}
    BY <2>1
  <2>2. CASE ptr = None /\ live = {}
    BY <2>2
  <2> QED
    BY <2>1, <2>2
<1>b. /\ pc \in [Thread -> PCs] /\ depth \in [Thread -> Nat] /\ tmp \in [Thread -> Int]
      /\ pend \in [Thread -> SUBSET {"locked", "id"}] /\ locked \in [Obj -> Int]
      /\ mutex \in [Obj -> Thread \cup {None}] /\ cs \in [Thread -> Obj \cup {None}]
      /\ id \in [Obj -> Thread \cup {None}]
  BY DEF PCs
<1>c. \A t \in Thread : pc[t] = "idle" /\ depth[t] = 0
  OBVIOUS
<1>e. raced \in BOOLEAN
  OBVIOUS
<1>1. TypeOK
  <2> HIDE DEF Init
  <2> QED BY <1>a, <1>b, <1>c, <1>e DEF TypeOK
<1>d. ptr # None => ptr \in live
  BY Zenon
<1>2. CallsUsePtr
  BY <1>c, <1>d DEF CallsUsePtr
<1>3. \A t \in Thread : ~Owner(t)
  <2> SUFFICES ASSUME NEW t \in Thread PROVE ~(depth[t] > 0) /\ pc[t] \notin OwnerPCs
    BY DEF Owner
  <2>1. ~(depth[t] > 0)
    BY <1>c
  <2>2. pc[t] \notin OwnerPCs
    BY <1>c DEF OwnerPCs
  <2> QED
    BY <2>1, <2>2
<1>4. MutexIsOwner
  BY <1>1, <1>3 DEF MutexIsOwner, TypeOK
<1>5. CountIsDepth
  BY <1>1, <1>3 DEF CountIsDepth, TypeOK
<1>6. IdIsOwner
  BY <1>3 DEF IdIsOwner
<1>7. StaleIdWindow
  BY <1>c DEF StaleIdWindow
<1> QED
  BY <1>1, <1>2, <1>4, <1>5, <1>6, <1>7 DEF IInv, Sound

\* The types are preserved by every memory access of every thread.
LEMMA TypeStep == TypeOK /\ [Next]_vars => TypeOK'
<1> SUFFICES ASSUME TypeOK, [Next]_vars PROVE TypeOK'
  OBVIOUS
<1> USE DEF TypeOK, PCs, Goto, Branch, fields, threadVars
<1>1. ASSUME NEW t \in Thread, Enter(t) PROVE TypeOK'
  BY <1>1 DEF Enter
<1>2. ASSUME NEW t \in Thread, AllocCritSect(t) PROVE TypeOK'
  BY <1>2 DEF AllocCritSect
<1>3. ASSUME NEW t \in Thread, PublishCritSect(t) PROVE TypeOK'
  BY <1>3 DEF PublishCritSect
<1>4. ASSUME NEW t \in Thread, TestLocked(t) PROVE TypeOK'
  BY <1>4 DEF TestLocked
<1>5. ASSUME NEW t \in Thread, TestId(t) PROVE TypeOK'
  BY <1>5 DEF TestId
<1>6. ASSUME NEW t \in Thread, IncLoad(t) PROVE TypeOK'
  BY <1>6 DEF IncLoad
<1>7. ASSUME NEW t \in Thread, IncStore(t) PROVE TypeOK'
  BY <1>7 DEF IncStore
<1>8. ASSUME NEW t \in Thread, LockMutex(t) PROVE TypeOK'
  BY <1>8 DEF LockMutex
<1>9. ASSUME NEW t \in Thread, StoreField(t) PROVE TypeOK'
  BY <1>9 DEF StoreField
<1>10. ASSUME NEW t \in Thread, Leave(t) PROVE TypeOK'
  BY <1>10 DEF Leave
<1>11. ASSUME NEW t \in Thread, LeaveTest(t) PROVE TypeOK'
  BY <1>11 DEF LeaveTest
<1>12. ASSUME NEW t \in Thread, DecLoad(t) PROVE TypeOK'
  BY <1>12 DEF DecLoad
<1>13. ASSUME NEW t \in Thread, DecStore(t) PROVE TypeOK'
  BY <1>13 DEF DecStore
<1>14. ASSUME NEW t \in Thread, LeaveLast(t) PROVE TypeOK'
  BY <1>14 DEF LeaveLast
<1>15. ASSUME NEW t \in Thread, UnlockMutex(t) PROVE TypeOK'
  BY <1>15 DEF UnlockMutex
<1>16. CASE DeleteAndReinit
  BY <1>16 DEF DeleteAndReinit
<1>17. CASE UNCHANGED vars
  BY <1>17 DEF vars
<1> QED
  BY <1>1, <1>2, <1>3, <1>4, <1>5, <1>6, <1>7, <1>8, <1>9, <1>10, <1>11, <1>12, <1>13, <1>14, <1>15, <1>16, <1>17 DEF Next, EnterStep, LeaveStep

\* A race is never forgotten.
LEMMA RacedStays == TypeOK /\ [Next]_vars /\ raced => raced'
  BY DEF TypeOK, Next, EnterStep, LeaveStep, vars, fields, threadVars, Enter, AllocCritSect, PublishCritSect, TestLocked, TestId, IncLoad, IncStore, LockMutex, StoreField, Leave, LeaveTest, DecLoad, DecStore, LeaveLast, UnlockMutex, DeleteAndReinit

\* Each access of a run without races keeps the mutex, the count and the id in
\* step with the calls the threads made.
LEMMA SoundStep ==
  TypeOK /\ TypeOK' /\ Sound /\ ~raced /\ ~raced' /\ [Next]_vars => Sound'
<1> SUFFICES ASSUME TypeOK, TypeOK', Sound, ~raced, ~raced', [Next]_vars PROVE Sound'
  OBVIOUS
<1> USE DEF Sound, TypeOK, Goto, Branch, fields, threadVars, Owner, OwnerPCs
<1>1. ASSUME NEW t \in Thread, Enter(t) PROVE Sound'
  <2>1. CallsUsePtr'
    BY <1>1 DEF Enter, CallsUsePtr, MutexIsOwner, CountIsDepth, IdIsOwner
  <2>2. MutexIsOwner'
    BY <1>1 DEF Enter, CallsUsePtr, MutexIsOwner, CountIsDepth, IdIsOwner
  <2>3. CountIsDepth'
    BY <1>1 DEF Enter, CallsUsePtr, MutexIsOwner, CountIsDepth, IdIsOwner
  <2>4. IdIsOwner'
    BY <1>1 DEF Enter, CallsUsePtr, MutexIsOwner, CountIsDepth, IdIsOwner
  <2>5. StaleIdWindow'
    BY <1>1 DEF Enter, CallsUsePtr, MutexIsOwner, CountIsDepth, IdIsOwner, StaleIdWindow
  <2> QED
    BY <2>1, <2>2, <2>3, <2>4, <2>5
<1>2. ASSUME NEW t \in Thread, AllocCritSect(t) PROVE Sound'
  <2>1. CallsUsePtr'
    BY <1>2 DEF AllocCritSect, CallsUsePtr, MutexIsOwner, CountIsDepth, IdIsOwner
  <2>2. MutexIsOwner'
    BY <1>2 DEF AllocCritSect, CallsUsePtr, MutexIsOwner, CountIsDepth, IdIsOwner
  <2>3. CountIsDepth'
    BY <1>2 DEF AllocCritSect, CallsUsePtr, MutexIsOwner, CountIsDepth, IdIsOwner
  <2>4. IdIsOwner'
    BY <1>2 DEF AllocCritSect, CallsUsePtr, MutexIsOwner, CountIsDepth, IdIsOwner
  <2>5. StaleIdWindow'
    BY <1>2 DEF AllocCritSect, CallsUsePtr, MutexIsOwner, CountIsDepth, IdIsOwner, StaleIdWindow
  <2> QED
    BY <2>1, <2>2, <2>3, <2>4, <2>5
<1>3. ASSUME NEW t \in Thread, PublishCritSect(t) PROVE Sound'
  <2>1. CallsUsePtr'
    BY <1>3 DEF PublishCritSect, CallsUsePtr, MutexIsOwner, CountIsDepth, IdIsOwner
  <2>2. MutexIsOwner'
    BY <1>3 DEF PublishCritSect, CallsUsePtr, MutexIsOwner, CountIsDepth, IdIsOwner
  <2>3. CountIsDepth'
    BY <1>3 DEF PublishCritSect, CallsUsePtr, MutexIsOwner, CountIsDepth, IdIsOwner
  <2>4. IdIsOwner'
    BY <1>3 DEF PublishCritSect, CallsUsePtr, MutexIsOwner, CountIsDepth, IdIsOwner
  <2>5. StaleIdWindow'
    BY <1>3 DEF PublishCritSect, CallsUsePtr, MutexIsOwner, CountIsDepth, IdIsOwner, StaleIdWindow
  <2> QED
    BY <2>1, <2>2, <2>3, <2>4, <2>5
<1>4. ASSUME NEW t \in Thread, TestLocked(t) PROVE Sound'
  <2>1. CallsUsePtr'
    BY <1>4 DEF TestLocked, CallsUsePtr, MutexIsOwner, CountIsDepth, IdIsOwner
  <2>2. MutexIsOwner'
    BY <1>4 DEF TestLocked, CallsUsePtr, MutexIsOwner, CountIsDepth, IdIsOwner
  <2>3. CountIsDepth'
    BY <1>4 DEF TestLocked, CallsUsePtr, MutexIsOwner, CountIsDepth, IdIsOwner
  <2>4. IdIsOwner'
    BY <1>4 DEF TestLocked, CallsUsePtr, MutexIsOwner, CountIsDepth, IdIsOwner
  <2>5. StaleIdWindow'
    <3> SUFFICES ASSUME NEW v \in Thread, pc'[v] = "id?", id'[ptr'] = v, depth'[v] = 0
                 PROVE \E u \in Thread \ {v} : pc'[u] = "store" /\ pend'[u] = {"id"}
      BY DEF StaleIdWindow
    <3>a. /\ pc[t] = "locked?" /\ UNCHANGED <<ptr, mutex, locked, id, pend, depth>>
          /\ pc' = [pc EXCEPT ![t] = IF locked[cs[t]] # 0 THEN "id?" ELSE "lock"]
      BY <1>4 DEF TestLocked
    <3>1. CASE v # t
      <4>1. PICK u \in Thread \ {v} : pc[u] = "store" /\ pend[u] = {"id"}
        BY <3>1, <3>a DEF StaleIdWindow
      <4> QED
        BY <4>1, <3>a
    <3>2. CASE v = t
      <4>1. ptr # None /\ cs[t] = ptr /\ locked[ptr] # 0 /\ id[ptr] = t /\ depth[t] = 0
        BY <3>2, <3>a DEF CallsUsePtr
      <4>2. PICK u \in Thread : mutex[ptr] = u
        BY <4>1 DEF CountIsDepth
      <4>3. Owner(u) /\ u # t
        BY <4>1, <4>2, <3>a DEF MutexIsOwner
      <4>4. pc[u] = "store" /\ "id" \in pend[u]
        BY <4>1, <4>3 DEF IdIsOwner, CountIsDepth
      <4>5. pend[u] = {"id"}
        BY <4>1, <4>4 DEF CountIsDepth
      <4> QED
        BY <3>2, <3>a, <4>3, <4>4, <4>5
    <3> QED
      BY <3>1, <3>2
  <2> QED
    BY <2>1, <2>2, <2>3, <2>4, <2>5
<1>5. ASSUME NEW t \in Thread, TestId(t) PROVE Sound'
  <2>a. id[cs[t]] = t => mutex[cs[t]] = t
    BY <1>5, Zenon DEF TestId
  <2>b. /\ pc[t] = "id?"
        /\ pc' = [pc EXCEPT ![t] = IF id[cs[t]] = t THEN "inc" ELSE "lock"]
        /\ UNCHANGED <<ptr, live, mutex, locked, id, cs, tmp, pend, depth>>
    BY <1>5 DEF TestId
  <2>c. ptr # None /\ cs[t] = ptr /\ (id[ptr] = t <=> depth[t] > 0)
    BY <2>a, <2>b DEF CallsUsePtr, MutexIsOwner, IdIsOwner, CountIsDepth
  <2>d. \A u \in Thread : Owner(u)' <=> Owner(u)
    BY <2>b, <2>c
  <2>1. CallsUsePtr'
    BY <2>b, <2>c DEF CallsUsePtr
  <2>2. MutexIsOwner'
    BY <2>b, <2>d DEF MutexIsOwner
  <2>3. CountIsDepth'
    BY <2>b, <2>c, <2>d DEF CountIsDepth
  <2>4. IdIsOwner'
    BY <2>b, <2>d DEF IdIsOwner
  <2>5. StaleIdWindow'
    BY <2>b DEF StaleIdWindow
  <2> QED
    BY <2>1, <2>2, <2>3, <2>4, <2>5
<1>6. ASSUME NEW t \in Thread, IncLoad(t) PROVE Sound'
  <2>1. CallsUsePtr'
    BY <1>6 DEF IncLoad, CallsUsePtr, MutexIsOwner, CountIsDepth, IdIsOwner
  <2>2. MutexIsOwner'
    BY <1>6 DEF IncLoad, CallsUsePtr, MutexIsOwner, CountIsDepth, IdIsOwner
  <2>3. CountIsDepth'
    BY <1>6 DEF IncLoad, CallsUsePtr, MutexIsOwner, CountIsDepth, IdIsOwner
  <2>4. IdIsOwner'
    BY <1>6 DEF IncLoad, CallsUsePtr, MutexIsOwner, CountIsDepth, IdIsOwner
  <2>5. StaleIdWindow'
    BY <1>6 DEF IncLoad, CallsUsePtr, MutexIsOwner, CountIsDepth, IdIsOwner, StaleIdWindow
  <2> QED
    BY <2>1, <2>2, <2>3, <2>4, <2>5
<1>7. ASSUME NEW t \in Thread, IncStore(t) PROVE Sound'
  <2>1. CallsUsePtr'
    BY <1>7 DEF IncStore, CallsUsePtr, MutexIsOwner, CountIsDepth, IdIsOwner
  <2>2. MutexIsOwner'
    BY <1>7 DEF IncStore, CallsUsePtr, MutexIsOwner, CountIsDepth, IdIsOwner
  <2>3. CountIsDepth'
    BY <1>7 DEF IncStore, CallsUsePtr, MutexIsOwner, CountIsDepth, IdIsOwner
  <2>4. IdIsOwner'
    BY <1>7 DEF IncStore, CallsUsePtr, MutexIsOwner, CountIsDepth, IdIsOwner
  <2>5. StaleIdWindow'
    BY <1>7 DEF IncStore, CallsUsePtr, MutexIsOwner, CountIsDepth, IdIsOwner, StaleIdWindow
  <2> QED
    BY <2>1, <2>2, <2>3, <2>4, <2>5
<1>8. ASSUME NEW t \in Thread, LockMutex(t) PROVE Sound'
  <2>1. CallsUsePtr'
    BY <1>8 DEF LockMutex, CallsUsePtr, MutexIsOwner, CountIsDepth, IdIsOwner
  <2>2. MutexIsOwner'
    BY <1>8 DEF LockMutex, CallsUsePtr, MutexIsOwner, CountIsDepth, IdIsOwner
  <2>3. CountIsDepth'
    BY <1>8 DEF LockMutex, CallsUsePtr, MutexIsOwner, CountIsDepth, IdIsOwner
  <2>4. IdIsOwner'
    BY <1>8 DEF LockMutex, CallsUsePtr, MutexIsOwner, CountIsDepth, IdIsOwner
  <2>5. StaleIdWindow'
    BY <1>8 DEF LockMutex, CallsUsePtr, MutexIsOwner, CountIsDepth, IdIsOwner, StaleIdWindow
  <2> QED
    BY <2>1, <2>2, <2>3, <2>4, <2>5
<1>9. ASSUME NEW t \in Thread, StoreField(t) PROVE Sound'
  <2>1. CallsUsePtr'
    BY <1>9 DEF StoreField, CallsUsePtr, MutexIsOwner, CountIsDepth, IdIsOwner
  <2>2. MutexIsOwner'
    BY <1>9 DEF StoreField, CallsUsePtr, MutexIsOwner, CountIsDepth, IdIsOwner
  <2>3. CountIsDepth'
    BY <1>9 DEF StoreField, CallsUsePtr, MutexIsOwner, CountIsDepth, IdIsOwner
  <2>4. IdIsOwner'
    BY <1>9 DEF StoreField, CallsUsePtr, MutexIsOwner, CountIsDepth, IdIsOwner
  <2>5. StaleIdWindow'
    BY <1>9 DEF StoreField, CallsUsePtr, MutexIsOwner, CountIsDepth, IdIsOwner, StaleIdWindow
  <2> QED
    BY <2>1, <2>2, <2>3, <2>4, <2>5
<1>10. ASSUME NEW t \in Thread, Leave(t) PROVE Sound'
  <2>1. CallsUsePtr'
    BY <1>10 DEF Leave, CallsUsePtr, MutexIsOwner, CountIsDepth, IdIsOwner
  <2>2. MutexIsOwner'
    BY <1>10 DEF Leave, CallsUsePtr, MutexIsOwner, CountIsDepth, IdIsOwner
  <2>3. CountIsDepth'
    BY <1>10 DEF Leave, CallsUsePtr, MutexIsOwner, CountIsDepth, IdIsOwner
  <2>4. IdIsOwner'
    BY <1>10 DEF Leave, CallsUsePtr, MutexIsOwner, CountIsDepth, IdIsOwner
  <2>5. StaleIdWindow'
    BY <1>10 DEF Leave, CallsUsePtr, MutexIsOwner, CountIsDepth, IdIsOwner, StaleIdWindow
  <2> QED
    BY <2>1, <2>2, <2>3, <2>4, <2>5
<1>11. ASSUME NEW t \in Thread, LeaveTest(t) PROVE Sound'
  <2>1. CallsUsePtr'
    BY <1>11 DEF LeaveTest, CallsUsePtr, MutexIsOwner, CountIsDepth, IdIsOwner
  <2>2. MutexIsOwner'
    BY <1>11 DEF LeaveTest, CallsUsePtr, MutexIsOwner, CountIsDepth, IdIsOwner
  <2>3. CountIsDepth'
    BY <1>11 DEF LeaveTest, CallsUsePtr, MutexIsOwner, CountIsDepth, IdIsOwner
  <2>4. IdIsOwner'
    BY <1>11 DEF LeaveTest, CallsUsePtr, MutexIsOwner, CountIsDepth, IdIsOwner
  <2>5. StaleIdWindow'
    BY <1>11 DEF LeaveTest, CallsUsePtr, MutexIsOwner, CountIsDepth, IdIsOwner, StaleIdWindow
  <2> QED
    BY <2>1, <2>2, <2>3, <2>4, <2>5
<1>12. ASSUME NEW t \in Thread, DecLoad(t) PROVE Sound'
  <2>1. CallsUsePtr'
    BY <1>12 DEF DecLoad, CallsUsePtr, MutexIsOwner, CountIsDepth, IdIsOwner
  <2>2. MutexIsOwner'
    BY <1>12 DEF DecLoad, CallsUsePtr, MutexIsOwner, CountIsDepth, IdIsOwner
  <2>3. CountIsDepth'
    BY <1>12 DEF DecLoad, CallsUsePtr, MutexIsOwner, CountIsDepth, IdIsOwner
  <2>4. IdIsOwner'
    BY <1>12 DEF DecLoad, CallsUsePtr, MutexIsOwner, CountIsDepth, IdIsOwner
  <2>5. StaleIdWindow'
    BY <1>12 DEF DecLoad, CallsUsePtr, MutexIsOwner, CountIsDepth, IdIsOwner, StaleIdWindow
  <2> QED
    BY <2>1, <2>2, <2>3, <2>4, <2>5
<1>13. ASSUME NEW t \in Thread, DecStore(t) PROVE Sound'
  <2>1. CallsUsePtr'
    BY <1>13 DEF DecStore, CallsUsePtr, MutexIsOwner, CountIsDepth, IdIsOwner
  <2>2. MutexIsOwner'
    BY <1>13 DEF DecStore, CallsUsePtr, MutexIsOwner, CountIsDepth, IdIsOwner
  <2>3. CountIsDepth'
    BY <1>13 DEF DecStore, CallsUsePtr, MutexIsOwner, CountIsDepth, IdIsOwner
  <2>4. IdIsOwner'
    BY <1>13 DEF DecStore, CallsUsePtr, MutexIsOwner, CountIsDepth, IdIsOwner
  <2>5. StaleIdWindow'
    BY <1>13 DEF DecStore, CallsUsePtr, MutexIsOwner, CountIsDepth, IdIsOwner, StaleIdWindow
  <2> QED
    BY <2>1, <2>2, <2>3, <2>4, <2>5
<1>14. ASSUME NEW t \in Thread, LeaveLast(t) PROVE Sound'
  <2>1. CallsUsePtr'
    BY <1>14 DEF LeaveLast, CallsUsePtr, MutexIsOwner, CountIsDepth, IdIsOwner
  <2>2. MutexIsOwner'
    BY <1>14 DEF LeaveLast, CallsUsePtr, MutexIsOwner, CountIsDepth, IdIsOwner
  <2>3. CountIsDepth'
    BY <1>14 DEF LeaveLast, CallsUsePtr, MutexIsOwner, CountIsDepth, IdIsOwner
  <2>4. IdIsOwner'
    BY <1>14 DEF LeaveLast, CallsUsePtr, MutexIsOwner, CountIsDepth, IdIsOwner
  <2>5. StaleIdWindow'
    BY <1>14 DEF LeaveLast, CallsUsePtr, MutexIsOwner, CountIsDepth, IdIsOwner, StaleIdWindow
  <2> QED
    BY <2>1, <2>2, <2>3, <2>4, <2>5
<1>15. ASSUME NEW t \in Thread, UnlockMutex(t) PROVE Sound'
  <2>1. CallsUsePtr'
    BY <1>15 DEF UnlockMutex, CallsUsePtr, MutexIsOwner, CountIsDepth, IdIsOwner
  <2>2. MutexIsOwner'
    BY <1>15 DEF UnlockMutex, CallsUsePtr, MutexIsOwner, CountIsDepth, IdIsOwner
  <2>3. CountIsDepth'
    BY <1>15 DEF UnlockMutex, CallsUsePtr, MutexIsOwner, CountIsDepth, IdIsOwner
  <2>4. IdIsOwner'
    BY <1>15 DEF UnlockMutex, CallsUsePtr, MutexIsOwner, CountIsDepth, IdIsOwner
  <2>5. StaleIdWindow'
    BY <1>15 DEF UnlockMutex, CallsUsePtr, MutexIsOwner, CountIsDepth, IdIsOwner, StaleIdWindow
  <2> QED
    BY <2>1, <2>2, <2>3, <2>4, <2>5
<1>16. CASE DeleteAndReinit
  <2>1. CallsUsePtr'
    BY <1>16 DEF DeleteAndReinit, CallsUsePtr, Unused
  <2>2. MutexIsOwner'
    BY <1>16 DEF DeleteAndReinit, MutexIsOwner, Unused
  <2>3. CountIsDepth'
    BY <1>16 DEF DeleteAndReinit, CountIsDepth, Unused
  <2>4. IdIsOwner'
    BY <1>16 DEF DeleteAndReinit, IdIsOwner, Unused
  <2>5. StaleIdWindow'
    BY <1>16 DEF DeleteAndReinit, StaleIdWindow, Unused
  <2> QED
    BY <2>1, <2>2, <2>3, <2>4, <2>5
<1>17. CASE UNCHANGED vars
  BY <1>17 DEF vars, CallsUsePtr, MutexIsOwner, CountIsDepth, IdIsOwner, StaleIdWindow
<1> QED
  BY <1>1, <1>2, <1>3, <1>4, <1>5, <1>6, <1>7, <1>8, <1>9, <1>10, <1>11, <1>12, <1>13, <1>14, <1>15, <1>16, <1>17 DEF Next, EnterStep, LeaveStep

\* IInv is an invariant of the specification.
THEOREM Inductive == Spec => []IInv
<1>1. IInv /\ [Next]_vars => IInv'
  <2> SUFFICES ASSUME IInv, [Next]_vars PROVE IInv'
    OBVIOUS
  <2>1. TypeOK /\ TypeOK'
    BY TypeStep DEF IInv
  <2>2. CASE raced'
    BY <2>1, <2>2 DEF IInv
  <2>3. CASE ~raced'
    <3>1. ~raced
      BY <2>1, <2>3, RacedStays
    <3>2. Sound
      BY <3>1 DEF IInv, Sound
    <3> QED
      BY <2>1, <2>3, <3>1, <3>2, SoundStep DEF IInv, Sound
  <2> QED
    BY <2>2, <2>3
<1> QED
  BY <1>1, InitInv, PTL DEF Spec

\* Every state has its type, and a call past the null test works on a structure.
THEOREM TypeCorrect == Spec => []TypeOK
<1>1. IInv => TypeOK
  BY DEF IInv
<1> QED
  BY <1>1, Inductive, PTL

\* Without a race no two threads are inside the section.
THEOREM Exclusion == Spec => []ExclusionUnlessRaced
<1>1. IInv => ExclusionUnlessRaced
  <2> SUFFICES ASSUME IInv, ~raced, NEW t \in Thread, NEW u \in Thread,
                      Inside(t), Inside(u)
               PROVE t = u
    BY DEF ExclusionUnlessRaced, MutualExclusion
  <2>1. ptr # None /\ Owner(t) /\ Owner(u)
    BY DEF IInv, Sound, CallsUsePtr, Inside, Owner
  <2> QED
    BY <2>1 DEF IInv, Sound, MutexIsOwner
<1> QED
  BY <1>1, Inductive, PTL

\* Without a race the mutex and the count agree with the calls made.
THEOREM CountCorrect == Spec => []CountMatchesCalls
<1>1. IInv => CountMatchesCalls
  <2> SUFFICES ASSUME IInv, ~raced PROVE
        /\ \A t \in Thread : pc[t] = "idle" /\ depth[t] > 0 =>
             ptr # None /\ mutex[ptr] = t /\ locked[ptr] = depth[t]
        /\ (Unused /\ ptr # None => mutex[ptr] = None /\ locked[ptr] = 0)
    BY DEF CountMatchesCalls
  <2>1. ASSUME NEW t \in Thread, pc[t] = "idle", depth[t] > 0
        PROVE ptr # None /\ mutex[ptr] = t /\ locked[ptr] = depth[t]
    BY <2>1 DEF IInv, Sound, CallsUsePtr, MutexIsOwner, CountIsDepth, Owner
  <2>2. ASSUME Unused, ptr # None
        PROVE mutex[ptr] = None /\ locked[ptr] = 0
    <3>1. \A t \in Thread : ~Owner(t)
      <4> SUFFICES ASSUME NEW t \in Thread PROVE ~(depth[t] > 0) /\ pc[t] \notin OwnerPCs
        BY DEF Owner
      <4>1. ~(depth[t] > 0)
        BY <2>2 DEF Unused
      <4>2. pc[t] \notin OwnerPCs
        BY <2>2 DEF Unused, OwnerPCs
      <4> QED
        BY <4>1, <4>2
    <3> QED
      BY <2>2, <3>1 DEF IInv, Sound, TypeOK, MutexIsOwner, CountIsDepth
  <2> QED
    BY <2>1, <2>2
<1> QED
  BY <1>1, Inductive, PTL

\* Without a race the threads are never all stuck on a mutex that is taken.
THEOREM NeverAllStuck == Spec => []NotAllStuck
<1>1. IInv => NotAllStuck
  <2> SUFFICES ASSUME IInv, ~raced
               PROVE \E t \in Thread : pc[t] # "lock" \/ mutex[cs[t]] = None
    BY DEF NotAllStuck
  <2>1. PICK t \in Thread : TRUE
    OBVIOUS
  <2>2. CASE pc[t] = "lock" /\ mutex[cs[t]] # None
    <3>1. PICK u \in Thread : mutex[cs[t]] = u
      BY <2>2 DEF IInv, TypeOK
    <3>2. cs[t] = ptr /\ ptr # None
      BY <2>2 DEF IInv, Sound, CallsUsePtr
    <3>3. Owner(u)
      BY <3>1, <3>2 DEF IInv, Sound, MutexIsOwner
    <3>4. pc[u] # "lock"
      BY <3>3 DEF IInv, Sound, CallsUsePtr, Owner, OwnerPCs, TypeOK
    <3> QED
      BY <3>4
  <2>3. CASE ~(pc[t] = "lock" /\ mutex[cs[t]] # None)
    BY <2>3
  <2> QED
    BY <2>2, <2>3
<1> QED
  BY <1>1, Inductive, PTL

\* Without a race no thread blocks on its own mutex: the test of the id sends every
\* nested call the recursive way.
THEOREM OwnerNeverBlocks == Spec => []NotOnOwnMutex
<1>1. IInv => NotOnOwnMutex
  <2> SUFFICES ASSUME IInv, ~raced, NEW t \in Thread, pc[t] = "lock"
               PROVE mutex[cs[t]] # t
    BY DEF NotOnOwnMutex
  <2>1. cs[t] = ptr /\ ptr # None /\ depth[t] = 0
    BY DEF IInv, Sound, CallsUsePtr
  <2>2. ~Owner(t)
    BY <2>1 DEF IInv, TypeOK, Owner, OwnerPCs
  <2> QED
    BY <2>1, <2>2 DEF IInv, Sound, MutexIsOwner
<1> QED
  BY <1>1, Inductive, PTL

\* A race that starts at the id test starts in the one window: another thread
\* has taken the mutex and has stored "locked" but not yet its id.
THEOREM RaceWindow == Spec => RaceOnlyInWindow
<1>1. IInv /\ [Next]_vars =>
        [\A t \in Thread : TestId(t) /\ ~raced /\ raced' =>
           \E u \in Thread \ {t} : pc[u] = "store" /\ cs[u] = cs[t] /\ pend[u] = {"id"}]_vars
  <2> SUFFICES ASSUME IInv, NEW t \in Thread, TestId(t), ~raced, raced'
               PROVE \E u \in Thread \ {t} :
                       pc[u] = "store" /\ cs[u] = cs[t] /\ pend[u] = {"id"}
    OBVIOUS
  <2>1. pc[t] = "id?" /\ id[cs[t]] = t /\ mutex[cs[t]] # t
    BY Zenon DEF TestId, Branch, Goto
  <2>2. Sound
    BY DEF IInv
  <2>3. ptr # None /\ cs[t] = ptr /\ ~Owner(t)
    BY <2>1, <2>2 DEF Sound, CallsUsePtr, MutexIsOwner
  <2>4. depth[t] = 0
    BY <2>3 DEF Owner, IInv, TypeOK
  <2>5. PICK u \in Thread \ {t} : pc[u] = "store" /\ pend[u] = {"id"}
    BY <2>1, <2>2, <2>3, <2>4 DEF Sound, StaleIdWindow
  <2>6. cs[u] = ptr
    BY <2>2, <2>5 DEF Sound, CallsUsePtr
  <2> QED
    BY <2>3, <2>5, <2>6
<1> QED
  BY <1>1, Inductive, PTL DEF Spec, RaceOnlyInWindow
=============================================================================

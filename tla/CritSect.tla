------------------------------ MODULE CritSect ------------------------------
(***************************************************************************)
(* Win32 critical sections as wine/win32.c emulates them for the codec     *)
(* DLLs (expInitializeCriticalSection .. expDeleteCriticalSection, with    *)
(* GARBAGE defined and CRITSECS_NEWTYPE undefined).                        *)
(*                                                                         *)
(* A CRITICAL_SECTION of the DLL holds a pointer to a CRITSECT structure:  *)
(* a pthread mutex, a recursion count "locked" and the id of the last      *)
(* thread that took the mutex.  The mutex is the only synchronised access; *)
(* "locked" and "id" are plain fields, read and written outside it.  Each  *)
(* action below is one memory access of one thread.                        *)
(***************************************************************************)
EXTENDS Integers

CONSTANTS Thread,     \* the threads of the process that use the section
          Obj,        \* CRITSECT structures the allocator can return
          None,       \* the null pointer, and "no thread"
          MaxDepth,   \* bound: nesting depth of one thread's Enter calls
          MaxCount    \* bound: after a race, when the count can drift without
                      \* limit, no Enter begins while |locked| exceeds it

ASSUME ThreadAssumption == Thread # {} /\ None \notin Thread /\ None \notin Obj
ASSUME DepthAssumption == MaxDepth \in Nat \ {0} /\ MaxCount \in Nat

VARIABLES
  ptr,      \* *(void** )c: the CRITSECT the DLL's section points to
  live,     \* the CRITSECT structures that are allocated
  mutex,    \* holder of each structure's pthread mutex
  locked,   \* field "locked"
  id,       \* field "id"
  pc,       \* where each thread is inside a call, "idle" between calls
  cs,       \* local variable "cs" of each thread's call
  tmp,      \* register of the read-modify-write of "locked"
  pend,     \* fields still to be stored after the mutex was taken
  depth,    \* history: Enter calls of a thread it has not yet left
  raced     \* history: an unsynchronised access went wrong (see RaceWindow)

vars == <<ptr, live, mutex, locked, id, pc, cs, tmp, pend, depth, raced>>
threadVars == <<cs, tmp, pend, depth>>
fields == <<locked, id>>

PCs == {"idle", "alloc", "publish", "locked?", "id?", "inc", "incw",
        "lock", "store", "leave", "dec", "decw", "zero?", "unlock"}

\* Program locations of a thread that is inside EnterCriticalSection.
Entering == {"alloc", "publish", "locked?", "id?", "inc", "incw",
             "lock", "store"}
\* A thread executes code the section protects: it entered and is not leaving.
Inside(t) == depth[t] > 0 /\ (pc[t] = "idle" \/ pc[t] \in Entering)

\* Thread t goes from one location to another.
Goto(t, from, to) == pc[t] = from /\ pc' = [pc EXCEPT ![t] = to]
\* A conditional jump.
Branch(t, from, cond, yes, no) == Goto(t, from, IF cond THEN yes ELSE no)

\* The DLL initialised the section before its threads ran, or leaves that to
\* the first Enter.
Init ==
  /\ (ptr \in Obj /\ live = {ptr}) \/ (ptr = None /\ live = {})
  /\ mutex = [o \in Obj |-> None]
  /\ locked = [o \in Obj |-> 0]
  /\ id \in [Obj -> Thread \cup {None}]
  /\ pc = [t \in Thread |-> "idle"]
  /\ cs = [t \in Thread |-> None]
  /\ tmp = [t \in Thread |-> 0]
  /\ pend = [t \in Thread |-> {}]
  /\ depth = [t \in Thread |-> 0]
  /\ raced = FALSE

-----------------------------------------------------------------------------
(* EnterCriticalSection *)

\* cs = *(struct CRITSECT** )c, and the test for an uninitialised section.
Enter(t) ==
  /\ depth[t] < MaxDepth
  /\ raced => \A o \in Obj : locked[o] \in -MaxCount..MaxCount
  /\ Branch(t, "idle", ptr = None, "alloc", "locked?")
  /\ cs' = [cs EXCEPT ![t] = ptr]
  /\ UNCHANGED <<ptr, live, mutex, fields, tmp, pend, depth, raced>>

\* mreq_private + pthread_mutex_init + locked = 0; "id" is whatever the
\* memory held: the structure comes from malloc and is not cleared.
AllocCritSect(t) ==
  /\ Goto(t, "alloc", "publish")
  /\ \E o \in Obj \ live, garbage \in Thread \cup {None} :
       /\ live' = live \cup {o}
       /\ mutex' = [mutex EXCEPT ![o] = None]
       /\ locked' = [locked EXCEPT ![o] = 0]
       /\ id' = [id EXCEPT ![o] = garbage]
       /\ cs' = [cs EXCEPT ![t] = o]
  /\ UNCHANGED <<ptr, tmp, pend, depth, raced>>

\* *(void** )c = cs.  Publishing over a section another thread published.
PublishCritSect(t) ==
  /\ Goto(t, "publish", "locked?")
  /\ ptr' = cs[t]
  /\ raced' = (raced \/ ptr # None)
  /\ UNCHANGED <<live, mutex, fields, threadVars>>

\* if (cs->locked) ...
TestLocked(t) ==
  /\ Branch(t, "locked?", locked[cs[t]] # 0, "id?", "lock")
  /\ UNCHANGED <<ptr, live, mutex, fields, threadVars, raced>>

\* if (cs->id == pthread_self()): the recursive path, taken without a lock.
TestId(t) ==
  /\ Branch(t, "id?", id[cs[t]] = t, "inc", "lock")
  /\ raced' = (raced \/ (id[cs[t]] = t /\ mutex[cs[t]] # t))
  /\ UNCHANGED <<ptr, live, mutex, fields, threadVars>>

\* cs->locked++ is a load and a store.
IncLoad(t) ==
  /\ Goto(t, "inc", "incw")
  /\ tmp' = [tmp EXCEPT ![t] = locked[cs[t]]]
  /\ UNCHANGED <<ptr, live, mutex, fields, cs, pend, depth, raced>>

\* Mutant: the nested Enter is not counted.
IncStoreLost(t) ==
  /\ Goto(t, "incw", "idle")
  /\ locked' = [locked EXCEPT ![cs[t]] = tmp[t]]
  /\ depth' = [depth EXCEPT ![t] = @ + 1]
  /\ UNCHANGED <<ptr, live, mutex, id, cs, tmp, pend, raced>>

IncStore(t) ==
  /\ Goto(t, "incw", "idle")
  /\ locked' = [locked EXCEPT ![cs[t]] = tmp[t] + 1]
  /\ depth' = [depth EXCEPT ![t] = @ + 1]
  /\ UNCHANGED <<ptr, live, mutex, id, cs, tmp, pend, raced>>

\* Mutant: the owner's id is never stored.
LockMutexNoId(t) ==
  /\ Goto(t, "lock", "store")
  /\ mutex[cs[t]] = None
  /\ mutex' = [mutex EXCEPT ![cs[t]] = t]
  /\ pend' = [pend EXCEPT ![t] = {"locked"}]
  /\ UNCHANGED <<ptr, live, fields, cs, tmp, depth, raced>>

\* pthread_mutex_lock blocks while another thread, or t itself, holds it.
LockMutex(t) ==
  /\ Goto(t, "lock", "store")
  /\ mutex[cs[t]] = None
  /\ mutex' = [mutex EXCEPT ![cs[t]] = t]
  /\ pend' = [pend EXCEPT ![t] = {"locked", "id"}]
  /\ UNCHANGED <<ptr, live, fields, cs, tmp, depth, raced>>

\* cs->locked = 1; cs->id = pthread_self(): two plain stores, which the
\* compiler may emit in either order.
StoreField(t) ==
  /\ pc[t] = "store"
  /\ \E f \in pend[t] :
       /\ pend' = [pend EXCEPT ![t] = @ \ {f}]
       /\ IF f = "locked"
          THEN locked' = [locked EXCEPT ![cs[t]] = 1] /\ UNCHANGED id
          ELSE id' = [id EXCEPT ![cs[t]] = t] /\ UNCHANGED locked
  /\ IF pend'[t] = {}
     THEN /\ pc' = [pc EXCEPT ![t] = "idle"]
          /\ depth' = [depth EXCEPT ![t] = @ + 1]
     ELSE UNCHANGED <<pc, depth>>
  /\ UNCHANGED <<ptr, live, mutex, cs, tmp, raced>>

-----------------------------------------------------------------------------
(* LeaveCriticalSection, called by a thread that is inside. *)

Leave(t) ==
  /\ depth[t] > 0
  /\ Goto(t, "idle", "leave")
  /\ cs' = [cs EXCEPT ![t] = ptr]
  /\ depth' = [depth EXCEPT ![t] = @ - 1]
  /\ UNCHANGED <<ptr, live, mutex, fields, tmp, pend, raced>>

\* if (cs->locked) ...: no test of who the owner is.
LeaveTest(t) ==
  /\ Branch(t, "leave", locked[cs[t]] # 0, "dec", "idle")
  /\ UNCHANGED <<ptr, live, mutex, fields, threadVars, raced>>

DecLoad(t) ==
  /\ Goto(t, "dec", "decw")
  /\ tmp' = [tmp EXCEPT ![t] = locked[cs[t]]]
  /\ UNCHANGED <<ptr, live, mutex, fields, cs, pend, depth, raced>>

DecStore(t) ==
  /\ Goto(t, "decw", "zero?")
  /\ locked' = [locked EXCEPT ![cs[t]] = tmp[t] - 1]
  /\ UNCHANGED <<ptr, live, mutex, id, threadVars, raced>>

\* Mutant: every Leave unlocks, also the one of a nested Enter.
LeaveLastAlways(t) ==
  /\ Goto(t, "zero?", "unlock")
  /\ UNCHANGED <<ptr, live, mutex, fields, threadVars, raced>>

LeaveLast(t) ==
  /\ Branch(t, "zero?", locked[cs[t]] = 0, "unlock", "idle")
  /\ UNCHANGED <<ptr, live, mutex, fields, threadVars, raced>>

UnlockMutex(t) ==
  /\ Goto(t, "unlock", "idle")
  /\ mutex' = [mutex EXCEPT ![cs[t]] = None]
  /\ UNCHANGED <<ptr, live, fields, threadVars, raced>>

-----------------------------------------------------------------------------
\* The callers' protocol: a section is deleted when no thread is in it.
Unused == \A t \in Thread : pc[t] = "idle" /\ depth[t] = 0

\* DeleteCriticalSection releases the structure; "*(void** )c" keeps pointing
\* to it, so a protocol-abiding DLL initialises the section again at once.
DeleteAndReinit ==
  /\ ptr # None /\ Unused
  /\ \E o \in Obj \ (live \ {ptr}), garbage \in Thread \cup {None} :
       /\ live' = (live \ {ptr}) \cup {o}
       /\ ptr' = o
       /\ mutex' = [mutex EXCEPT ![o] = None]
       /\ locked' = [locked EXCEPT ![o] = 0]
       /\ id' = [id EXCEPT ![o] = garbage]
  /\ UNCHANGED <<pc, threadVars, raced>>

EnterStep(t) ==
  \/ AllocCritSect(t) \/ PublishCritSect(t) \/ TestLocked(t) \/ TestId(t)
  \/ IncLoad(t) \/ IncStore(t) \/ LockMutex(t) \/ StoreField(t)

LeaveStep(t) ==
  LeaveTest(t) \/ DecLoad(t) \/ DecStore(t) \/ LeaveLast(t) \/ UnlockMutex(t)

Next ==
  \/ \E t \in Thread : Enter(t) \/ EnterStep(t) \/ Leave(t) \/ LeaveStep(t)
  \/ DeleteAndReinit

Spec == Init /\ [][Next]_vars

\* Threads are scheduled and a DLL leaves the sections it entered; nothing
\* makes a thread enter, and glibc's mutex promises no order among waiters.
Fairness ==
  \A t \in Thread : WF_vars(EnterStep(t)) /\ WF_vars(Leave(t)) /\ WF_vars(LeaveStep(t))

FairSpec == Spec /\ Fairness

-----------------------------------------------------------------------------
(* Properties *)

\* The fields have their types, and a thread that is past the null test of its
\* call works on an allocated structure.
TypeOK ==
  /\ ptr \in Obj \cup {None}
  /\ live \subseteq Obj
  /\ mutex \in [Obj -> Thread \cup {None}]
  /\ locked \in [Obj -> Int]
  /\ id \in [Obj -> Thread \cup {None}]
  /\ pc \in [Thread -> PCs]
  /\ cs \in [Thread -> Obj \cup {None}]
  /\ tmp \in [Thread -> Int]
  /\ pend \in [Thread -> SUBSET {"locked", "id"}]
  /\ depth \in [Thread -> Nat]
  /\ raced \in BOOLEAN
  /\ \A t \in Thread : pc[t] \notin {"idle", "alloc"} => cs[t] \in Obj
  /\ ptr = None => \A t \in Thread : depth[t] = 0 /\ pc[t] \in {"idle", "alloc", "publish"}

\* Two threads are never both inside the section (what the DLLs call it for).
MutualExclusion ==
  \A t, u \in Thread : Inside(t) /\ Inside(u) => t = u

\* Mutual exclusion holds for as long as none of the two unsynchronised
\* accesses (the id test, the publication of a lazily created section) went
\* wrong: every loss of exclusion goes through one of them.
ExclusionUnlessRaced == ~raced => MutualExclusion

\* As long as no race happened, the count and the mutex agree with the calls
\* the threads made: a thread between calls that entered d times finds the
\* mutex its own and locked = d, and when no one is in, the mutex is free.
CountMatchesCalls ==
  ~raced =>
    /\ \A t \in Thread : pc[t] = "idle" /\ depth[t] > 0 =>
         ptr # None /\ mutex[ptr] = t /\ locked[ptr] = depth[t]
    /\ (Unused /\ ptr # None => mutex[ptr] = None /\ locked[ptr] = 0)

\* The one window in which the id test lets a stranger in: the mutex was taken
\* by another thread that stored locked but has not yet stored its id.
RaceOnlyInWindow ==
  [][\A t \in Thread :
       TestId(t) /\ ~raced /\ raced' =>
         \E u \in Thread \ {t} : pc[u] = "store" /\ cs[u] = cs[t] /\ pend[u] = {"id"}]_vars

\* The threads never all wait for a mutex that is taken, unless a race happened.
NotAllStuck ==
  ~raced => \E t \in Thread : pc[t] # "lock" \/ mutex[cs[t]] = None

\* Unless a race happened, a nested Enter is recognised as one: no thread waits for
\* the mutex that it holds itself.
NotOnOwnMutex ==
  ~raced => \A t \in Thread : pc[t] = "lock" => mutex[cs[t]] # t

\* Unless a race happened, no Enter call waits for ever, but for one that other
\* threads' Enter calls overtake again and again: the owner's nested call always
\* returns (a thread that blocks on its own mutex lets no one in), and of the
\* threads that wait, one gets in.
EnterReturns ==
  ([]~raced) => \A t \in Thread :
    <>[](pc[t] \in Entering) =>
      []<><<\E u \in Thread : pc[u] \in Entering /\ pc'[u] = "idle">>_vars

-----------------------------------------------------------------------------
(* The inductive invariant behind the safety properties. *)

\* Locations at which a thread owns the mutex of its structure.
OwnerPCs == {"inc", "incw", "store", "leave", "dec", "decw", "zero?", "unlock"}
Owner(t) == depth[t] > 0 \/ pc[t] \in OwnerPCs

\* The structure a running call works on, and what is allocated.
CallsUsePtr ==
  /\ ptr # None => ptr \in live
  /\ \A t \in Thread :
       /\ pc[t] \notin {"idle", "alloc", "publish"} => ptr # None /\ cs[t] = ptr
       /\ pc[t] = "publish" => cs[t] \in live
       /\ pc[t] = "publish" /\ ptr = None => mutex[cs[t]] = None /\ locked[cs[t]] = 0
       /\ pc[t] \in {"alloc", "publish", "lock", "store", "unlock"} => depth[t] = 0
       /\ pc[t] \in {"inc", "incw"} => depth[t] > 0
       /\ depth[t] > 0 => ptr # None

\* Mutex and ownership coincide.
MutexIsOwner ==
  ptr # None => \A t \in Thread : mutex[ptr] = t <=> Owner(t)

\* The count: what the owner entered, plus the level it is just leaving.
CountIsDepth ==
  /\ ptr # None /\ mutex[ptr] = None => locked[ptr] = 0
  /\ \A t \in Thread :
       /\ Owner(t) /\ pc[t] # "store" =>
            locked[ptr] = IF pc[t] \in {"leave", "dec", "decw"} THEN depth[t] + 1 ELSE depth[t]
       /\ pc[t] = "store" => locked[ptr] = IF "locked" \in pend[t] THEN 0 ELSE 1
       /\ pc[t] = "store" <=> pend[t] # {}
       /\ pc[t] \in {"incw", "decw"} => tmp[t] = locked[ptr]

\* The owner's id is stored.
IdIsOwner ==
  \A t \in Thread :
    Owner(t) /\ "id" \notin pend[t] => id[ptr] = t

\* A thread that saw "locked" set and is about to find its own stale id there
\* is looking at a structure whose new owner has not stored its id yet.
StaleIdWindow ==
  \A t \in Thread :
    pc[t] = "id?" /\ id[ptr] = t /\ depth[t] = 0 =>
      \E u \in Thread \ {t} : pc[u] = "store" /\ pend[u] = {"id"}

\* What holds while no unsynchronised access has gone wrong.
Sound == CallsUsePtr /\ MutexIsOwner /\ CountIsDepth /\ IdIsOwner /\ StaleIdWindow

IInv == TypeOK /\ (~raced => Sound)
=============================================================================

--------------------------- MODULE Win32Semaphore ---------------------------
(***************************************************************************)
(* A Win32 semaphore as wine/win32.c emulates it: expCreateSemaphoreA, the *)
(* semaphore branches of expWaitForSingleObject, and expReleaseSemaphore.  *)
(*                                                                         *)
(* The count is guarded by a pthread mutex, and a wait on a count of zero  *)
(* sleeps on a condition variable, once: there is no loop around the       *)
(* pthread_cond_wait.  A call with a timeout above zero changes nothing    *)
(* (that case is missing) and is left out.                                 *)
(***************************************************************************)
EXTENDS Integers, FiniteSets

CONSTANTS Waiter,     \* threads that call WaitForSingleObject
          Releaser,   \* threads that call ReleaseSemaphore
          None,       \* "no thread"
          InitCount,  \* init_count of CreateSemaphore
          MaxInc,     \* bound: the largest increment a DLL passes
          MaxCount,   \* bound: no call begins that could take the count beyond
                      \* it, or when the count is below its negative
          Polls,      \* waits with duration 0 are made, too
          SpuriousWakeups  \* pthread_cond_wait may return without a signal

Thread == Waiter \cup Releaser

ASSUME ThreadAssumption == Waiter \cap Releaser = {} /\ None \notin Thread
ASSUME CountAssumption == InitCount \in Nat /\ MaxInc \in Nat \ {0} /\ MaxCount \in Nat
ASSUME FlagAssumption == Polls \in BOOLEAN /\ SpuriousWakeups \in BOOLEAN

VARIABLES
  semaphore,  \* ml->semaphore
  mutex,      \* holder of ml->pm
  pc,         \* where each thread is
  inc         \* "increment" of a releaser's call

vars == <<semaphore, mutex, pc, inc>>

Init ==
  /\ semaphore = InitCount
  /\ mutex = None
  /\ pc = [t \in Thread |-> "idle"]
  /\ inc = [t \in Releaser |-> 0]

Goto(t, from, to) == pc[t] = from /\ pc' = [pc EXCEPT ![t] = to]

\* pthread_mutex_lock, on the way to a location.
Lock(t, from, to) ==
  /\ mutex = None
  /\ mutex' = t
  /\ Goto(t, from, to)
  /\ UNCHANGED <<semaphore, inc>>

-----------------------------------------------------------------------------
(* WaitForSingleObject(object, INFINITE) *)

WaitCall(t) ==
  /\ Goto(t, "idle", "wlock")
  /\ semaphore >= -MaxCount
  /\ UNCHANGED <<semaphore, mutex, inc>>

WaitLock(t) == Lock(t, "wlock", "test")

\* Mutant: the mutex is freed between the test and the decrement.
WaitTestUnlocks(t) ==
  /\ pc[t] = "test"
  /\ pc' = [pc EXCEPT ![t] = IF semaphore = 0 THEN "asleep" ELSE "take"]
  /\ mutex' = None
  /\ UNCHANGED <<semaphore, inc>>

\* if (ml->semaphore==0) pthread_cond_wait: the mutex is free while it sleeps.
WaitTest(t) ==
  /\ pc[t] = "test"
  /\ IF semaphore = 0
     THEN pc' = [pc EXCEPT ![t] = "asleep"] /\ mutex' = None
     ELSE pc' = [pc EXCEPT ![t] = "take"] /\ UNCHANGED mutex
  /\ UNCHANGED <<semaphore, inc>>

\* The sleeper was signalled and gets its mutex back.
Relock(t) == Lock(t, "woken", "retake")

SpuriousWake(t) ==
  /\ SpuriousWakeups
  /\ Goto(t, "asleep", "woken")
  /\ UNCHANGED <<semaphore, mutex, inc>>

\* Mutant: the wait leaves the count alone.
TakeNothing(t) ==
  /\ Goto(t, "take", "idle") \/ Goto(t, "retake", "idle")
  /\ mutex' = None
  /\ UNCHANGED <<semaphore, inc>>

\* ml->semaphore--, without another look at it, and the unlock.
Take(t) ==
  /\ Goto(t, "take", "idle") \/ Goto(t, "retake", "idle")
  /\ semaphore' = semaphore - 1
  /\ mutex' = None
  /\ UNCHANGED inc

-----------------------------------------------------------------------------
(* WaitForSingleObject(object, 0) *)

PollCall(t) ==
  /\ Polls /\ semaphore < MaxCount
  /\ Goto(t, "idle", "plock")
  /\ UNCHANGED <<semaphore, mutex, inc>>

PollLock(t) == Lock(t, "plock", "poll")

\* A success of the poll increments the count.
Poll(t) ==
  /\ Goto(t, "poll", "idle")
  /\ semaphore' = IF semaphore = 0 THEN semaphore ELSE semaphore + 1
  /\ mutex' = None
  /\ UNCHANGED inc

-----------------------------------------------------------------------------
(* ReleaseSemaphore(hsem, increment, prev_count) *)

ReleaseCall(t) ==
  /\ Goto(t, "idle", "rlock")
  /\ semaphore + MaxInc * Cardinality(Releaser) <= MaxCount
  /\ \E n \in 1..MaxInc : inc' = [inc EXCEPT ![t] = n]
  /\ UNCHANGED <<semaphore, mutex>>

ReleaseLock(t) == Lock(t, "rlock", "signal")

\* if (ml->semaphore == 0) pthread_cond_signal: one sleeper, whatever the
\* increment.
Signal(t) ==
  /\ pc[t] = "signal"
  /\ LET Asleep == {u \in Waiter : pc[u] = "asleep"} IN
       IF semaphore = 0 /\ Asleep # {}
       THEN \E u \in Asleep : pc' = [pc EXCEPT ![t] = "add", ![u] = "woken"]
       ELSE pc' = [pc EXCEPT ![t] = "add"]
  /\ UNCHANGED <<semaphore, mutex, inc>>

\* ml->semaphore += increment, and the unlock.
Add(t) ==
  /\ Goto(t, "add", "idle")
  /\ semaphore' = semaphore + inc[t]
  /\ inc' = [inc EXCEPT ![t] = 0]
  /\ mutex' = None

-----------------------------------------------------------------------------
WaitStep(t) == WaitLock(t) \/ WaitTest(t) \/ Relock(t) \/ Take(t)
PollStep(t) == PollLock(t) \/ Poll(t)
ReleaseStep(t) == ReleaseLock(t) \/ Signal(t) \/ Add(t)

Next ==
  \/ \E t \in Waiter : WaitCall(t) \/ WaitStep(t) \/ SpuriousWake(t) \/ PollCall(t) \/ PollStep(t)
  \/ \E t \in Releaser : ReleaseCall(t) \/ ReleaseStep(t)

Spec == Init /\ [][Next]_vars

\* Threads inside a call are scheduled, and a thread that waits for the mutex
\* while others take and free it is not passed over for ever.
Fairness ==
  /\ \A t \in Waiter : WF_vars(WaitStep(t)) /\ SF_vars(WaitLock(t)) /\ SF_vars(Relock(t))
  /\ \A t \in Releaser : WF_vars(ReleaseStep(t))

FairSpec == Spec /\ Fairness

-----------------------------------------------------------------------------
(* Properties *)

PCs == {"idle", "wlock", "test", "asleep", "woken", "take", "retake", "plock", "poll",
        "rlock", "signal", "add"}

\* Locations at which a thread holds the mutex.
Locked == {"test", "take", "retake", "poll", "signal", "add"}

\* The variables have their types, and the mutex has at most one holder.
TypeOK ==
  /\ semaphore \in Int
  /\ mutex \in Thread \cup {None}
  /\ pc \in [Thread -> PCs]
  /\ inc \in [Releaser -> 0..MaxInc]
  /\ \A t \in Thread : pc[t] \in Locked <=> mutex = t

\* "nonsignaled when its count is equal to zero": the count never goes below
\* zero, where it would let every later wait through.
NeverNegative == semaphore >= 0

\* A wait that did not sleep takes the unit its test saw: only a thread that
\* comes back from the condition variable can find the count at zero, however
\* many threads wait, poll and release.
TakesWhatItTested == \A t \in Waiter : pc[t] = "take" => semaphore # 0

\* The semaphore is a counting semaphore: a wait is one from its call until it
\* takes its unit.
Counting == INSTANCE CountingSemaphore WITH
  count <- semaphore,
  waiting <- {t \in Waiter : pc[t] \in {"wlock", "test", "asleep", "woken", "take", "retake"}}

\* Every behaviour is one of the counting semaphore the comment in
\* expReleaseSemaphore describes, and no wait starves while the count is positive.
IsCountingSemaphore == Counting!FairSpec

-----------------------------------------------------------------------------
(* The inductive invariant behind the refinement, for one waiting thread. *)

\* With one waiter a signal is never stolen: a thread that was woken finds the
\* unit that is being, or was, added for it, and it sleeps only at zero.
OneWaiterInv ==
  /\ semaphore \in Nat
  /\ \A t \in Waiter :
       /\ pc[t] = "woken" => semaphore > 0 \/ \E r \in Releaser : pc[r] = "add"
       /\ pc[t] \in {"take", "retake"} => semaphore > 0
       /\ pc[t] = "asleep" => semaphore = 0 /\ \A r \in Releaser : pc[r] # "add"
       /\ pc[t] \notin {"plock", "poll"}
  /\ \A r \in Releaser : pc[r] \in {"rlock", "signal", "add"} => inc[r] > 0
=============================================================================

------------------------- MODULE CountingSemaphore -------------------------
(***************************************************************************)
(* What a semaphore promises, in the words of the comment in               *)
(* expReleaseSemaphore (wine/win32.c): "The state of a semaphore object is *)
(* signaled when its count is greater than zero and nonsignaled when its   *)
(* count is equal to zero.  Each time a waiting thread is released because *)
(* of the semaphore's signaled state, the count of the semaphore is        *)
(* decreased by one."                                                      *)
(***************************************************************************)
EXTENDS Integers

CONSTANTS Waiter, InitCount, MaxInc

VARIABLES count, waiting

Init == count = InitCount /\ waiting = {}

Wait(t) == t \notin waiting /\ waiting' = waiting \cup {t} /\ UNCHANGED count

\* A waiting thread is released, and takes one.
Acquire(t) ==
  /\ t \in waiting /\ count > 0
  /\ count' = count - 1
  /\ waiting' = waiting \ {t}

Release(n) == count' = count + n /\ UNCHANGED waiting

Next ==
  \/ \E t \in Waiter : Wait(t) \/ Acquire(t)
  \/ \E n \in 1..MaxInc : Release(n)

Spec == Init /\ [][Next]_<<count, waiting>>
FairSpec == Spec /\ \A t \in Waiter : WF_<<count, waiting>>(Acquire(t))
=============================================================================

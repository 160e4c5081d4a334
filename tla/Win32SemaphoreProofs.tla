------------------------ MODULE Win32SemaphoreProofs ------------------------
(***************************************************************************)
(* What Win32Semaphore guarantees for any number of threads, and that with *)
(* one waiting thread it implements CountingSemaphore.                     *)
(***************************************************************************)
EXTENDS Win32Semaphore, TLAPS

\* Type correctness and the test a wait relies on, for any threads: the mutex
\* discipline makes them inductive together.
IInv == TypeOK /\ TakesWhatItTested

USE ThreadAssumption, CountAssumption, FlagAssumption DEF Thread

LEMMA InitIInv == Init => IInv
  BY DEF Init, IInv, TypeOK, TakesWhatItTested, PCs, Locked

LEMMA StepIInv == IInv /\ [Next]_vars => IInv'
<1> SUFFICES ASSUME IInv, [Next]_vars PROVE IInv'
  OBVIOUS
<1> USE DEF IInv, TypeOK, TakesWhatItTested, PCs, Locked, Goto, Lock
<1>1. ASSUME NEW t \in Waiter, WaitCall(t) PROVE IInv'
  BY <1>1 DEF WaitCall
<1>2. ASSUME NEW t \in Waiter, WaitLock(t) PROVE IInv'
  BY <1>2 DEF WaitLock
<1>3. ASSUME NEW t \in Waiter, WaitTest(t) PROVE IInv'
  BY <1>3 DEF WaitTest
<1>4. ASSUME NEW t \in Waiter, Relock(t) PROVE IInv'
  BY <1>4 DEF Relock
<1>5. ASSUME NEW t \in Waiter, Take(t) PROVE IInv'
  BY <1>5 DEF Take
<1>6. ASSUME NEW t \in Waiter, SpuriousWake(t) PROVE IInv'
  BY <1>6 DEF SpuriousWake
<1>7. ASSUME NEW t \in Waiter, PollCall(t) PROVE IInv'
  BY <1>7 DEF PollCall
<1>8. ASSUME NEW t \in Waiter, PollLock(t) PROVE IInv'
  BY <1>8 DEF PollLock
<1>9. ASSUME NEW t \in Waiter, Poll(t) PROVE IInv'
  BY <1>9 DEF Poll
<1>10. ASSUME NEW t \in Releaser, ReleaseCall(t) PROVE IInv'
  BY <1>10 DEF ReleaseCall
<1>11. ASSUME NEW t \in Releaser, ReleaseLock(t) PROVE IInv'
  BY <1>11 DEF ReleaseLock
<1>12. ASSUME NEW t \in Releaser, Signal(t) PROVE IInv'
  BY <1>12 DEF Signal
<1>13. ASSUME NEW t \in Releaser, Add(t) PROVE IInv'
  BY <1>13 DEF Add
<1>14. CASE UNCHANGED vars
  BY <1>14 DEF vars
<1> QED
  BY <1>1, <1>2, <1>3, <1>4, <1>5, <1>6, <1>7, <1>8, <1>9, <1>10, <1>11,
     <1>12, <1>13, <1>14 DEF Next, WaitStep, PollStep, ReleaseStep

LEMMA Inductive == Spec => []IInv
  BY InitIInv, StepIInv, PTL DEF Spec

\* The mutex has one holder at a time and the variables keep their types, for
\* any number of waiters and releasers.
THEOREM TypeCorrect == Spec => []TypeOK
  BY Inductive, PTL DEF IInv

\* A wait that did not sleep takes the unit it tested for, for any number of
\* threads, with polls and spurious wakeups.
THEOREM TakesTested == Spec => []TakesWhatItTested
  BY Inductive, PTL DEF IInv

-----------------------------------------------------------------------------
(* One waiting thread: the refinement *)

\* One thread waits, never with a timeout of zero, and the condition variable
\* wakes no one without a signal.
OneWaiter == (\A t, u \in Waiter : t = u) /\ ~Polls /\ ~SpuriousWakeups

LEMMA InitOneWaiter == Init => OneWaiterInv
  BY DEF Init, OneWaiterInv

LEMMA StepOneWaiter ==
  ASSUME OneWaiter, IInv, OneWaiterInv, [Next]_vars
  PROVE  OneWaiterInv'
<1> USE DEF OneWaiter, OneWaiterInv, IInv, TypeOK, Locked, Goto, Lock
<1>1. ASSUME NEW t \in Waiter, WaitCall(t) PROVE OneWaiterInv'
  BY <1>1 DEF WaitCall
<1>2. ASSUME NEW t \in Waiter, WaitLock(t) PROVE OneWaiterInv'
  BY <1>2 DEF WaitLock
<1>3. ASSUME NEW t \in Waiter, WaitTest(t) PROVE OneWaiterInv'
  BY <1>3 DEF WaitTest
<1>4. ASSUME NEW t \in Waiter, Relock(t) PROVE OneWaiterInv'
  BY <1>4 DEF Relock
<1>5. ASSUME NEW t \in Waiter, Take(t) PROVE OneWaiterInv'
  BY <1>5 DEF Take
<1>6. ASSUME NEW t \in Waiter, SpuriousWake(t) \/ PollCall(t) PROVE OneWaiterInv'
  BY <1>6 DEF SpuriousWake, PollCall
<1>7. ASSUME NEW t \in Waiter, PollLock(t) PROVE OneWaiterInv'
  BY <1>7 DEF PollLock
<1>8. ASSUME NEW t \in Waiter, Poll(t) PROVE OneWaiterInv'
  BY <1>8 DEF Poll
<1>9. ASSUME NEW t \in Releaser, ReleaseCall(t) PROVE OneWaiterInv'
  BY <1>9 DEF ReleaseCall
<1>10. ASSUME NEW t \in Releaser, ReleaseLock(t) PROVE OneWaiterInv'
  BY <1>10 DEF ReleaseLock
<1>11. ASSUME NEW t \in Releaser, Signal(t) PROVE OneWaiterInv'
  BY <1>11 DEF Signal
<1>12. ASSUME NEW t \in Releaser, Add(t) PROVE OneWaiterInv'
  BY <1>12 DEF Add
<1>13. CASE UNCHANGED vars
  BY <1>13 DEF vars
<1> QED
  BY <1>1, <1>2, <1>3, <1>4, <1>5, <1>6, <1>7, <1>8, <1>9, <1>10, <1>11,
     <1>12, <1>13 DEF Next, WaitStep, PollStep, ReleaseStep

\* The locations at which a wait is under way, and the set the refinement maps
\* to the abstract "waiting".
Waiting == {t \in Waiter : pc[t] \in {"wlock", "test", "asleep", "woken", "take", "retake"}}

\* Every step of the code is a step of the counting semaphore or a stutter.
LEMMA StepRefines ==
  ASSUME OneWaiter, IInv, OneWaiterInv, [Next]_vars
  PROVE  [Counting!Next]_<<semaphore, Waiting>>
<1> USE DEF IInv, TypeOK, Waiting, Goto, Lock
<1>1. ASSUME NEW t \in Waiter, WaitCall(t) PROVE Counting!Wait(t)
  BY <1>1 DEF WaitCall, Counting!Wait
<1>2. ASSUME NEW t \in Waiter, Take(t) PROVE Counting!Acquire(t)
  BY <1>2 DEF Take, Counting!Acquire, OneWaiterInv
<1>3. ASSUME NEW t \in Releaser, Add(t) PROVE Counting!Release(inc[t]) /\ inc[t] \in 1..MaxInc
  BY <1>3 DEF Add, Counting!Release, OneWaiterInv
<1>4. ASSUME NEW t \in Waiter, WaitLock(t) \/ WaitTest(t) \/ Relock(t)
      PROVE  UNCHANGED <<semaphore, Waiting>>
  BY <1>4 DEF WaitLock, WaitTest, Relock
<1>5. ASSUME NEW t \in Releaser, ReleaseCall(t) \/ ReleaseLock(t)
      PROVE  UNCHANGED <<semaphore, Waiting>>
  BY <1>5 DEF ReleaseCall, ReleaseLock
<1>6. ASSUME NEW t \in Releaser, Signal(t) PROVE UNCHANGED <<semaphore, Waiting>>
  BY <1>6 DEF Signal
<1>7. ASSUME NEW t \in Waiter, SpuriousWake(t) \/ PollCall(t) PROVE FALSE
  BY <1>7 DEF SpuriousWake, PollCall, OneWaiter
<1>8. ASSUME NEW t \in Waiter, PollStep(t) PROVE FALSE
  BY <1>8 DEF PollStep, PollLock, Poll, OneWaiterInv
<1>9. CASE UNCHANGED vars
  BY <1>9 DEF vars
<1> QED
  BY <1>1, <1>2, <1>3, <1>4, <1>5, <1>6, <1>7, <1>8, <1>9
  DEF Next, WaitStep, ReleaseStep, Counting!Next

\* With one waiting thread the emulated semaphore is the counting semaphore of
\* the comment in expReleaseSemaphore, for any number of releasing threads.
THEOREM ImplementsCountingSemaphore == OneWaiter => (Spec => Counting!Spec)
<1> SUFFICES ASSUME OneWaiter PROVE Spec => Counting!Spec
  OBVIOUS
<1>1. Init => OneWaiterInv /\ Counting!Init
  BY InitOneWaiter DEF Init, Counting!Init, OneWaiterInv
<1>2. IInv /\ OneWaiterInv /\ [Next]_vars => OneWaiterInv' /\ [Counting!Next]_<<semaphore, Waiting>>
  BY StepOneWaiter, StepRefines
<1> QED
  BY <1>1, <1>2, Inductive, PTL DEF Spec, Counting!Spec, Waiting

\* With one waiting thread the count never goes below zero.
THEOREM CountStaysNatural == OneWaiter => (Spec => []NeverNegative)
<1> SUFFICES ASSUME OneWaiter PROVE Spec => []NeverNegative
  OBVIOUS
<1>1. OneWaiterInv => NeverNegative
  BY DEF OneWaiterInv, NeverNegative
<1>2. IInv /\ OneWaiterInv /\ [Next]_vars => OneWaiterInv'
  BY StepOneWaiter
<1> QED
  BY InitOneWaiter, <1>1, <1>2, Inductive, PTL DEF Spec
=============================================================================

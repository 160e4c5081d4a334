------------------------------ MODULE Win32Threads ------------------------------
(***************************************************************************)
(* Threads, thread-local storage and the interlocked operations of         *)
(* wine/win32.c.  The map of the TLS indices is not locked, and the values *)
(* are at 0x88 of the one page that fs leads every thread to.  Increment   *)
(* and decrement are one locked instruction; exchange and compare-exchange *)
(* are a load and a store.                                                 *)
(***************************************************************************)
EXTENDS Integers, FiniteSets

CONSTANTS Thread,
          First,      \* the thread that is there from the start
          Slots,      \* entries of tls_use_map
          TlsValue,   \* what the DLLs store
          MaxRefs     \* bound: references counted with InterlockedIncrement

Index == 0..Slots - 1
Null == 0

VARIABLES
  thread,         \* what each thread is doing; "none" before CreateThread
  tls_use_map,
  tls_minus_one,
  page,           \* the values at fs:0x88
  refs,           \* a count kept with InterlockedIncrement and InterlockedDecrement
  lock,           \* a word taken with InterlockedCompareExchange, given back with InterlockedExchange
  owned,          \* the indices that were returned to each thread and not freed since
  counted,        \* the references each thread holds
  inside,         \* the threads that took the lock
  torn            \* a call came between the load and the store of another

tvars == <<thread, tls_use_map, tls_minus_one, page, refs, lock, owned, counted, inside, torn>>

Run == [step |-> "run"]
Init ==
  /\ thread = [t \in Thread |-> IF t = First THEN Run ELSE [step |-> "none"]]
  /\ tls_use_map = [i \in Index |-> 0] /\ tls_minus_one = Null /\ page = [i \in Index |-> Null]
  /\ refs = 0 /\ lock = 0
  /\ owned = [t \in Thread |-> {}] /\ counted = [t \in Thread |-> 0]
  /\ inside = {} /\ torn = FALSE

Runs(t) == thread[t] = Run
Between(step) == {t \in Thread : thread[t].step = step}

CreateThread(t, u) ==
  /\ Runs(t) /\ thread[u].step = "none"
  /\ thread' = [thread EXCEPT ![u] = Run]
  /\ UNCHANGED <<tls_use_map, tls_minus_one, page, refs, lock, owned, counted, inside, torn>>

\* The thread ends; what it stored and took stays.
ExitThread(t) ==
  /\ Runs(t) /\ t # First /\ t \notin inside
  /\ thread' = [thread EXCEPT ![t].step = "gone"]
  /\ UNCHANGED <<tls_use_map, tls_minus_one, page, refs, lock, owned, counted, inside, torn>>

-----------------------------------------------------------------------------
(* Thread-local storage *)

\* The first entry that is 0; -1 if there is none.
TlsScan(t) ==
  /\ Runs(t)
  /\ \E i \in Index :
       /\ tls_use_map[i] = 0 /\ \A j \in 0..i - 1 : tls_use_map[j] # 0
       /\ thread' = [thread EXCEPT ![t] = [step |-> "mark", index |-> i]]
  /\ torn' = (torn \/ Between("mark") # {})
  /\ UNCHANGED <<tls_use_map, tls_minus_one, page, refs, lock, owned, counted, inside>>

\* It is marked and returned.
TlsMark(t) ==
  /\ thread[t].step = "mark"
  /\ tls_use_map' = [tls_use_map EXCEPT ![thread[t].index] = 1]
  /\ owned' = [owned EXCEPT ![t] = @ \cup {thread[t].index}]
  /\ thread' = [thread EXCEPT ![t] = Run]
  /\ UNCHANGED <<tls_minus_one, page, refs, lock, counted, inside, torn>>

\* A negative index is the slot for what Qt passes.
TlsSetValue(t, i, v) ==
  /\ Runs(t)
  /\ IF i < 0 THEN tls_minus_one' = v /\ UNCHANGED page
     ELSE page' = [page EXCEPT ![i] = v] /\ UNCHANGED tls_minus_one
  /\ UNCHANGED <<thread, tls_use_map, refs, lock, owned, counted, inside, torn>>

\* The index is a DWORD here: -1 is not below 64.
TlsGetValue(i) == IF i \in Index THEN page[i] ELSE Null

\* The value stays on the page.
TlsFree(t, i) ==
  /\ Runs(t) /\ i \in owned[t]
  /\ tls_use_map' = [tls_use_map EXCEPT ![i] = 0]
  /\ owned' = [owned EXCEPT ![t] = @ \ {i}]
  /\ UNCHANGED <<thread, tls_minus_one, page, refs, lock, counted, inside, torn>>

-----------------------------------------------------------------------------
(* Interlocked operations *)

InterlockedExchangeAdd(incr) == refs' = refs + incr

InterlockedIncrement(t) ==
  /\ Runs(t) /\ refs < MaxRefs
  /\ InterlockedExchangeAdd(1)
  /\ counted' = [counted EXCEPT ![t] = @ + 1]
  /\ UNCHANGED <<thread, tls_use_map, tls_minus_one, page, lock, owned, inside, torn>>

InterlockedDecrement(t) ==
  /\ Runs(t) /\ counted[t] > 0
  /\ InterlockedExchangeAdd(-1)
  /\ counted' = [counted EXCEPT ![t] = @ - 1]
  /\ UNCHANGED <<thread, tls_use_map, tls_minus_one, page, lock, owned, inside, torn>>

\* retval is loaded.
CompareLoad(t) ==
  /\ Runs(t) /\ t \notin inside
  /\ thread' = [thread EXCEPT ![t] = [step |-> "compare", retval |-> lock]]
  /\ UNCHANGED <<tls_use_map, tls_minus_one, page, refs, lock, owned, counted, inside, torn>>

\* The word is loaded again for the test, and a match leads to the store.
CompareTest(t) ==
  /\ thread[t].step = "compare"
  /\ thread' = [thread EXCEPT ![t] = IF lock = 0 THEN [thread[t] EXCEPT !.step = "store"] ELSE Run]
  /\ torn' = (torn \/ thread[t].retval # lock \/ (lock = 0 /\ Between("store") # {}))
  /\ UNCHANGED <<tls_use_map, tls_minus_one, page, refs, lock, owned, counted, inside>>

\* retval of 0 tells the caller that it has the lock.
CompareStore(t) ==
  /\ thread[t].step = "store"
  /\ lock' = 1
  /\ inside' = IF thread[t].retval = 0 THEN inside \cup {t} ELSE inside
  /\ thread' = [thread EXCEPT ![t] = Run]
  /\ UNCHANGED <<tls_use_map, tls_minus_one, page, refs, owned, counted, torn>>

\* The lock is given back: what it was is loaded and returned, and 0 stored.
InterlockedExchange(t) ==
  /\ Runs(t) /\ t \in inside
  /\ lock' = 0 /\ inside' = inside \ {t}
  /\ UNCHANGED <<thread, tls_use_map, tls_minus_one, page, refs, owned, counted, torn>>

ThreadNext == \E t \in Thread : ExitThread(t) \/ \E u \in Thread : CreateThread(t, u)

TlsNext ==
  \E t \in Thread :
    \/ TlsScan(t) \/ TlsMark(t)
    \/ \E i \in owned[t] \cup {-1}, v \in TlsValue : TlsSetValue(t, i, v)
    \/ \E i \in Index : TlsFree(t, i)

WordNext ==
  \E t \in Thread :
    \/ InterlockedIncrement(t) \/ InterlockedDecrement(t)
    \/ CompareLoad(t) \/ CompareTest(t) \/ CompareStore(t) \/ InterlockedExchange(t)

Next == ThreadNext \/ TlsNext \/ WordNext
Spec == Init /\ [][Next]_tvars
-----------------------------------------------------------------------------

\* The references that are held, one by one.
References == UNION {{t} \X (1..counted[t]) : t \in Thread}

\* Unless two calls overlap, an index is returned to one caller until it is freed, and
\* a lock taken with a compare-exchange has one holder and is never lost; counts hold
\* in any case, and what a caller stored for a negative index is never read back.
SlotsOwned ==
  /\ refs = Cardinality(References)
  /\ TlsGetValue(-1) = Null
  /\ ~torn =>
       /\ \A i \in Index : tls_use_map[i] = Cardinality({t \in Thread : i \in owned[t]})
       /\ lock = Cardinality(inside)
=============================================================================

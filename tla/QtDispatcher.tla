----------------------------- MODULE QtDispatcher -----------------------------
(***************************************************************************)
(* QuickTime's dispatcher (wine/module.c, wrapper.S).  GetProcAddress      *)
(* gives a wrapper of ours for theQuickTimeDispatcher: a few calls are     *)
(* emulated; for any other the return address is stored in an array that   *)
(* all threads share, and on the way back it is taken from there.  Nothing *)
(* is locked.                                                              *)
(*                                                                         *)
(* Two threads are here when two elements convert sound at the same time.  *)
(* The global caller_return is left out: what is pushed from it is         *)
(* overwritten from the array.  The emulated mutexes have no state: to     *)
(* grab one always succeeds.                                               *)
(***************************************************************************)
EXTENDS Integers, Sequences, SequencesExt

CONSTANTS Thread,
          Site,         \* addresses the dispatcher is called from
          Length,       \* entries of ret_array: 4096
          Low, High,    \* blocks of malloc below and above the address 0x60000000
          None

VARIABLES
  caught,       \* wrapper_target is set
  ret_array, ret_i,
  pc,           \* of each thread: "run", "stored" (the address, not yet counted), "taken"
                \* (counted, the address not yet read) or "astray"
  frames,       \* the addresses that each thread's stack should return to
  order,        \* history: the threads whose calls are open, in the order of the calls
  crossed,      \* history: a call returned before a later one of another thread, or two
                \* threads were in the wrapper at once
  pointers,     \* blocks that the DLL has of NewPtr
  allocated     \* those that malloc sees as in use

qtdVars == <<caught, ret_array, ret_i, pc, frames, order, crossed, pointers, allocated>>
heap == <<pointers, allocated>>

Init ==
  /\ caught = FALSE
  /\ ret_array = [i \in 0..Length - 1 |-> None] /\ ret_i = 0
  /\ pc = [t \in Thread |-> "run"] /\ frames = [t \in Thread |-> <<>>]
  /\ order = <<>> /\ crossed = FALSE
  /\ pointers = {} /\ allocated = {}

\* The first call of GetProcAddress that asks for the dispatcher.
Catch ==
  /\ ~caught /\ caught' = TRUE
  /\ UNCHANGED <<ret_array, ret_i, pc, frames, order, crossed, heap>>

Inside(t) == \E u \in Thread \ {t} : pc[u] \in {"stored", "taken"}
\* Outside the array, nothing is sure for any thread.
Outside == pc' = [u \in Thread |-> "astray"] /\ UNCHANGED <<ret_array, ret_i, frames, order, crossed>>

\* A call deeper than the array writes over what follows it.
StoreReturn(t, s) ==
  /\ caught /\ pc[t] = "run"
  /\ IF ret_i \notin DOMAIN ret_array THEN Outside
     ELSE /\ ret_array' = [ret_array EXCEPT ![ret_i] = s]
          /\ pc' = [pc EXCEPT ![t] = "stored"]
          /\ frames' = [frames EXCEPT ![t] = Append(@, s)]
          /\ order' = Append(order, t)
          /\ crossed' = (crossed \/ Inside(t))
          /\ UNCHANGED ret_i
  /\ UNCHANGED <<caught, heap>>

CountCall(t) ==
  /\ pc[t] = "stored"
  /\ ret_i' = ret_i + 1
  /\ pc' = [pc EXCEPT ![t] = "run"]
  /\ crossed' = (crossed \/ Inside(t))
  /\ UNCHANGED <<caught, ret_array, frames, order, heap>>

\* report_func_ret: the index first; after crossed calls it may lead out of
\* the array.
TakeReturn(t) ==
  /\ pc[t] = "run" /\ frames[t] # <<>>
  /\ IF ret_i - 1 \notin DOMAIN ret_array THEN Outside
     ELSE /\ ret_i' = ret_i - 1
          /\ pc' = [pc EXCEPT ![t] = "taken"]
          /\ crossed' = (crossed \/ Inside(t) \/ Last(order) # t)
          /\ UNCHANGED <<ret_array, frames, order>>
  /\ UNCHANGED <<caught, heap>>

\* Then the address there, which the thread goes to.
Return(t) ==
  /\ pc[t] = "taken"
  /\ IF ret_i \notin DOMAIN ret_array THEN Outside
     ELSE /\ order' = RemoveAt(order, SelectLastInSeq(order, LAMBDA u : u = t))
          /\ frames' = [frames EXCEPT ![t] = Front(@)]
          /\ pc' = [pc EXCEPT ![t] = IF ret_array[ret_i] = Last(frames[t]) THEN "run" ELSE "astray"]
          /\ crossed' = (crossed \/ Inside(t))
          /\ UNCHANGED <<ret_array, ret_i>>
  /\ UNCHANGED <<caught, heap>>

\* The emulated calls.  A block of malloc may be anywhere; one above 0x60000000 is
\* taken for none of ours, and stays.
NewPtr(t, p) ==
  /\ caught /\ pc[t] = "run" /\ p \notin allocated
  /\ pointers' = pointers \cup {p} /\ allocated' = allocated \cup {p}
  /\ UNCHANGED <<caught, ret_array, ret_i, pc, frames, order, crossed>>

DisposePtr(t, p) ==
  /\ pc[t] = "run" /\ p \in pointers
  /\ pointers' = pointers \ {p}
  /\ allocated' = allocated \ ({p} \cap Low)
  /\ UNCHANGED <<caught, ret_array, ret_i, pc, frames, order, crossed>>

DispatchNext ==
  \/ Catch
  \/ \E t \in Thread :
       \/ \E s \in Site : StoreReturn(t, s)
       \/ CountCall(t) \/ TakeReturn(t) \/ Return(t)
       \/ \E p \in Low \cup High : NewPtr(t, p) \/ DisposePtr(t, p)

-----------------------------------------------------------------------------
(* Properties *)

\* As long as the calls of all threads are nested in each other, every call returns to
\* where it came from, however deep, unless it is deeper than the array; and nothing is
\* freed that is in use, nor kept but blocks above 0x60000000.
ReturnsToCaller ==
  /\ ~crossed =>
       /\ \A t \in Thread : pc[t] = "astray" => Len(order) = Length
       /\ ret_i = Len(order) - (IF \E t \in Thread : pc[t] \in {"stored", "taken"} THEN 1 ELSE 0)
  /\ pointers \subseteq allocated /\ allocated \ pointers \subseteq High
=============================================================================

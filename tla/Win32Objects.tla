---------------------------- MODULE Win32Objects ----------------------------
(***************************************************************************)
(* The list of events and semaphores of wine/win32.c, mlist, and the calls *)
(* that create, set, reset and await events.  What a wait does with a      *)
(* semaphore is in Win32Semaphore.                                         *)
(*                                                                         *)
(* The list is linked from the newest node back through "prev"; nothing    *)
(* locks it.  A handle is [node, of]: the node as an "event" or            *)
(* "semaphore", the "newest" node, which CreateSemaphore returns for a     *)
(* name that is taken, or the pthread "mutex" of the node, which           *)
(* CreateEvent does.                                                       *)
(***************************************************************************)
EXTENDS Naturals, Sequences, FiniteSets

CONSTANTS Thread,
          Sleeper,      \* bound: the threads that wait
          ObjectName,   \* the names callers use; None is the null pointer
          None,
          MaxNodes      \* bound: nodes made before the memory of the DLLs is collected

VARIABLES
  mlist,     \* the newest node, or None
  nodes,     \* the nodes made: [type, name, state, reset, prev, next], their type None until filled in
  at,        \* what each thread is doing
  handles,   \* the handles that were returned
  raced,     \* two creations overlapped
  stranded,  \* sleepers that a set did not wake, at an event that is never reset
  down       \* the process ended on a null pointer

vars == <<mlist, nodes, at, handles, raced, stranded, down>>

Idle == [step |-> "idle"]
Init ==
  /\ mlist = None /\ nodes = <<>>
  /\ at = [t \in Thread |-> Idle]
  /\ handles = {} /\ raced = FALSE /\ stranded = {} /\ down = FALSE

Ready(t) == at[t] = Idle /\ ~down

\* The nodes from the newest back.
Reachable ==
  LET back[k \in 0..Len(nodes)] ==
        IF k = 0 THEN {mlist} \ {None}
        ELSE back[k - 1] \cup ({nodes[n].prev : n \in back[k - 1]} \ {None}) IN
  back[Len(nodes)]

-----------------------------------------------------------------------------
(* Creation *)

Named(type, name) == {n \in Reachable : nodes[n].type = type /\ nodes[n].name = name}
Newest(S) == CHOOSE n \in S : \A m \in S : n >= m
Creating == {t \in Thread : at[t].step \in {"link", "advance", "fill"}}
Blank == [type |-> None, name |-> None, state |-> 0, reset |-> FALSE, prev |-> None, next |-> None]

\* A node for what the caller wants; the new handle goes to the caller unless it
\* is not kept.
NewNode(t, want) ==
  /\ Len(nodes) < MaxNodes
  /\ nodes' = Append(nodes, Blank)
  /\ at' = [at EXCEPT ![t] = [step |-> "link", node |-> Len(nodes) + 1, want |-> want]]
  /\ raced' = (raced \/ Creating # {})
  /\ UNCHANGED <<mlist, handles, stranded, down>>

\* A name that an event has gives the mutex of that event.
CreateEventA(t, reset, state, name, kept) ==
  /\ Ready(t)
  /\ LET same == IF name = None THEN {} ELSE Named(0, name) IN
     IF same # {}
     THEN /\ handles' = IF kept THEN handles \cup {[node |-> Newest(same), of |-> "mutex"]} ELSE handles
          /\ UNCHANGED <<mlist, nodes, at, raced, stranded, down>>
     ELSE NewNode(t, [type |-> 0, name |-> name, state |-> state, reset |-> reset, kept |-> kept])

\* An event whose handle is not given to anyone.
CreateMutexA(t, name) == CreateEventA(t, FALSE, 0, name, FALSE)

\* A name that a semaphore has gives the newest node of the list.
CreateSemaphoreA(t, name) ==
  /\ Ready(t)
  /\ IF name # None /\ Named(1, name) # {}
     THEN handles' = handles \cup {[node |-> mlist, of |-> "newest"]} /\ UNCHANGED <<mlist, nodes, at, raced, stranded, down>>
     ELSE NewNode(t, [type |-> 1, name |-> name, state |-> 0, reset |-> FALSE, kept |-> TRUE])

\* Mutant: the node before is not linked back to.
LinkForwardOnly(t) ==
  /\ at[t].step = "link" /\ ~down
  /\ IF mlist = None
     THEN mlist' = at[t].node /\ at' = [at EXCEPT ![t].step = "fill"] /\ UNCHANGED nodes
     ELSE /\ nodes' = [nodes EXCEPT ![mlist].next = at[t].node]
          /\ at' = [at EXCEPT ![t].step = "advance"]
          /\ UNCHANGED mlist
  /\ UNCHANGED <<handles, raced, stranded, down>>

\* The first node of the list, or one after the newest.
Link(t) ==
  /\ at[t].step = "link" /\ ~down
  /\ IF mlist = None
     THEN mlist' = at[t].node /\ at' = [at EXCEPT ![t].step = "fill"] /\ UNCHANGED nodes
     ELSE /\ nodes' = [nodes EXCEPT ![mlist].next = at[t].node, ![at[t].node].prev = mlist]
          /\ at' = [at EXCEPT ![t].step = "advance"]
          /\ UNCHANGED mlist
  /\ UNCHANGED <<handles, raced, stranded, down>>

\* mlist=mlist->next, which another thread may have moved to the end.
Advance(t) ==
  /\ at[t].step = "advance" /\ ~down
  /\ IF mlist = None THEN down' = TRUE /\ UNCHANGED <<mlist, at>>
     ELSE mlist' = nodes[mlist].next /\ at' = [at EXCEPT ![t].step = "fill"] /\ UNCHANGED down
  /\ UNCHANGED <<nodes, handles, raced, stranded>>

\* Whatever node is the newest then is filled in and returned.
Fill(t) ==
  /\ at[t].step = "fill" /\ ~down
  /\ IF mlist = None THEN down' = TRUE /\ UNCHANGED <<nodes, at, handles>>
     ELSE LET w == at[t].want IN
          /\ nodes' = [nodes EXCEPT ![mlist] = [type |-> w.type, name |-> w.name, state |-> w.state, reset |-> w.reset,
                                                prev |-> nodes[mlist].prev, next |-> nodes[mlist].next]]
          /\ handles' = IF w.kept THEN handles \cup {[node |-> mlist, of |-> IF w.type = 0 THEN "event" ELSE "semaphore"]}
                        ELSE handles
          /\ at' = [at EXCEPT ![t] = Idle]
          /\ UNCHANGED down
  /\ UNCHANGED <<mlist, raced, stranded>>

-----------------------------------------------------------------------------
(* Events *)

Events == {h.node : h \in {g \in handles : g.of = "event"}}
Mutexes == {h \in handles : h.of = "mutex"}

AsleepAt(h) == {t \in Thread : at[t].step = "asleep" /\ at[t].node = h}
Returning(h) == {t \in Thread : at[t].step \in {"woken", "late"} /\ at[t].node = h}

\* A set of an event that is not set wakes one sleeper.
SetEvent(t, h) ==
  /\ Ready(t) /\ h \in Events
  /\ IF nodes[h].state = 1 THEN UNCHANGED <<nodes, at, stranded>>
     ELSE /\ nodes' = [nodes EXCEPT ![h].state = 1]
          /\ IF AsleepAt(h) = {} THEN UNCHANGED <<at, stranded>>
             ELSE \E u \in AsleepAt(h) :
                    /\ at' = [at EXCEPT ![u].step = "woken"]
                    /\ stranded' = IF nodes[h].reset THEN stranded ELSE stranded \cup (AsleepAt(h) \ {u})
  /\ UNCHANGED <<mlist, handles, raced, down>>

\* The handle of a mutex leads to a null pointer in it.
SetEventOfMutex(t) ==
  /\ Ready(t) /\ Mutexes # {}
  /\ down' = TRUE
  /\ UNCHANGED <<mlist, nodes, at, handles, raced, stranded>>

ResetEvent(t, h) ==
  /\ Ready(t) /\ h \in Events
  /\ nodes' = [nodes EXCEPT ![h].state = 0]
  /\ UNCHANGED <<mlist, at, handles, raced, stranded, down>>

\* Mutant: the state is not looked at before the thread sleeps.
AwaitAsleep(t, h, timed, rest) ==
  at' = [at EXCEPT ![t] = [step |-> "asleep", node |-> h, timed |-> timed, rest |-> rest]] /\ UNCHANGED nodes

\* An event that is set is not slept at, and reset if it is one of those.
Await(t, h, timed, rest) ==
  IF nodes[h].state = 0
  THEN at' = [at EXCEPT ![t] = [step |-> "asleep", node |-> h, timed |-> timed, rest |-> rest]] /\ UNCHANGED nodes
  ELSE /\ nodes' = IF nodes[h].reset THEN [nodes EXCEPT ![h].state = 0] ELSE nodes
       /\ at' = [at EXCEPT ![t] = IF rest = <<>> THEN Idle
                                  ELSE [step |-> "next", timed |-> timed, rest |-> rest]]

\* A node that cannot be reached is not found.  A duration of 0 changes nothing.
WaitForSingleObject(t, h, timed) ==
  /\ Ready(t) /\ h \in Events
  /\ IF h \in Reachable THEN Await(t, h, timed, <<>>) ELSE UNCHANGED <<at, nodes>>
  /\ UNCHANGED <<mlist, handles, raced, stranded, down>>

\* One after the other if it is to be all, else the first.
WaitForMultipleObjects(t, hs, all, timed) ==
  /\ Ready(t) /\ {hs[i] : i \in 1..Len(hs)} \subseteq Events \cap Reachable
  /\ Await(t, hs[1], timed, IF all THEN Tail(hs) ELSE <<>>)
  /\ UNCHANGED <<mlist, handles, raced, stranded, down>>

NextOfAll(t) ==
  /\ at[t].step = "next" /\ ~down
  /\ Await(t, Head(at[t].rest), at[t].timed, Tail(at[t].rest))
  /\ UNCHANGED <<mlist, handles, raced, stranded, down>>

\* pthread_cond_timedwait gives up.
TimesOut(t) ==
  /\ at[t].step = "asleep" /\ at[t].timed /\ ~down
  /\ at' = [at EXCEPT ![t].step = "late"]
  /\ stranded' = stranded \ {t}
  /\ UNCHANGED <<mlist, nodes, handles, raced, down>>

\* Back with the mutex: the state is not looked at again, and cleared also after
\* a timeout.
WaitReturns(t) ==
  /\ at[t].step \in {"woken", "late"} /\ ~down
  /\ nodes' = IF nodes[at[t].node].reset THEN [nodes EXCEPT ![at[t].node].state = 0] ELSE nodes
  /\ at' = [at EXCEPT ![t] = IF at[t].rest = <<>> THEN Idle
                             ELSE [step |-> "next", timed |-> at[t].timed, rest |-> at[t].rest]]
  /\ stranded' = stranded \ {t}
  /\ UNCHANGED <<mlist, handles, raced, down>>

-----------------------------------------------------------------------------

\* The newest node is released first, which makes the one before it the newest.
destroy_event(n) ==
  [list |-> IF mlist = n THEN nodes[n].prev ELSE mlist,
   rest |-> [m \in 1..Len(nodes) |->
               IF nodes[n].next = m THEN [nodes[m] EXCEPT !.prev = nodes[n].prev]
               ELSE IF nodes[n].prev = m THEN [nodes[m] EXCEPT !.next = nodes[n].next] ELSE nodes[m]]]

\* When the last codec goes, and its threads have, the blocks of the list go.
my_garbagecollection ==
  /\ ~down /\ nodes # <<>> /\ \A t \in Thread : at[t] = Idle
  /\ LET n == Len(nodes) IN
     /\ mlist' = destroy_event(n).list
     /\ nodes' = SubSeq(destroy_event(n).rest, 1, n - 1)
     /\ handles' = {}
  /\ UNCHANGED <<at, raced, stranded, down>>

Next ==
  \/ my_garbagecollection
  \/ \E t \in Thread :
       \/ \E name \in ObjectName \cup {None} :
            \/ \E reset \in BOOLEAN, state \in 0..1 : (name = None \/ state = 0) /\ CreateEventA(t, reset, state, name, TRUE)
            \/ CreateMutexA(t, name) \/ CreateSemaphoreA(t, name)
       \/ Link(t) \/ Advance(t) \/ Fill(t)
       \/ \E h \in Events : SetEvent(t, h) \/ ResetEvent(t, h)
       \/ SetEventOfMutex(t)
  \/ \E t \in Sleeper :
       \/ \E h \in Events, timed \in BOOLEAN : WaitForSingleObject(t, h, timed)
       \/ \E g, h \in Events, all \in BOOLEAN : g # h /\ WaitForMultipleObjects(t, <<g, h>>, all, FALSE)
       \/ NextOfAll(t) \/ TimesOut(t) \/ WaitReturns(t)

Spec == Init /\ [][Next]_vars
-----------------------------------------------------------------------------

\* A thread sleeps at an event that is set only while another that the set woke is
\* on its way, which will clear it; an event that is never reset may strand those
\* that slept beside the one it woke.
EventsWake ==
  ~raced => \A h \in Events :
    nodes[h].state = 1 =>
      \/ AsleepAt(h) \subseteq stranded
      \/ nodes[h].reset /\ Returning(h) # {}

\* Unless creations overlap, every node is found in the list, a name is that of one
\* event and one semaphore, and a handle leads to what was created, but for those
\* that were asked for by a name that is taken.
ObjectsListed ==
  ~raced /\ Creating = {} =>
    /\ Reachable = 1..Len(nodes)
    /\ \A m, n \in 1..Len(nodes) :
         nodes[m].type = nodes[n].type /\ nodes[m].name = nodes[n].name => m = n \/ nodes[m].name = None
    /\ \A h \in handles : h.of \in {"event", "semaphore"} => nodes[h.node].type = IF h.of = "event" THEN 0 ELSE 1
=============================================================================

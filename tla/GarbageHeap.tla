---------------------------- MODULE GarbageHeap ----------------------------
(***************************************************************************)
(* The heap every Win32 allocation of the DLLs comes from (wine/win32.c:   *)
(* mreq_private, my_release, my_realloc, GlobalSize, the HeapXxx calls and *)
(* my_garbagecollection).                                                  *)
(*                                                                         *)
(* Blocks are malloc'ed headers on a doubly linked list behind last_alloc, *)
(* so that what the DLLs leak can be collected when the last module is     *)
(* unloaded.  The list has a mutex, memmut, which is itself initialised    *)
(* when a block is put on an empty list and destroyed when the list gets   *)
(* empty; both tests read last_alloc without it.  The code is sound only   *)
(* because the first DLL's entry point allocates a block, the heap of its  *)
(* C runtime, before other threads run DLL code, and keeps it (Anchored).  *)
(***************************************************************************)
EXTENDS Naturals, FiniteSets

CONSTANTS Thread,   \* threads that run DLL code
          Obj,      \* addresses malloc can return
          None,     \* the null pointer
          Anchored  \* the entry point of the first DLL allocates a block and keeps it

ASSUME ObjAssumption == IsFiniteSet(Obj) /\ None \notin Obj
ASSUME AnchoredAssumption == Anchored \in BOOLEAN
ASSUME ThreadAssumption == None \notin Thread /\ {"free", "gone"} \cap Thread = {}

VARIABLES
  last_alloc, alccnt,
  prev, next,       \* header->prev, header->next
  beef,             \* blocks whose header->deadbeef is 0xdeadbeef
  owned,            \* blocks malloc returned and free has not taken back
  memmut,           \* "free", "gone" (destroyed), or the thread that holds it
  hack,             \* heapfreehack
  loaded,           \* "none", "loading", "running", "collecting"
  anchor,           \* the block the first DLL keeps
  given,            \* blocks in the hands of DLL code
  twice,            \* block whose HeapFree was the last heap call
  pc, op,           \* where each thread is, in which call
  blk, old          \* the call's block; the block HeapReAlloc replaces

list == <<last_alloc, alccnt, prev, next>>
dll == <<loaded, anchor, given>>
call == <<op, blk, old>>
vars == <<list, beef, owned, memmut, hack, dll, twice, pc, call>>

Init ==
  /\ last_alloc = None /\ alccnt = 0
  /\ prev = [b \in Obj |-> None] /\ next = [b \in Obj |-> None]
  /\ beef = {} /\ owned = {}
  /\ memmut = "free"                  \* a static mutex is valid
  /\ hack = None /\ loaded = "none" /\ anchor = None /\ given = {} /\ twice = None
  /\ pc = [t \in Thread |-> "idle"] /\ op = [t \in Thread |-> "none"]
  /\ blk = [t \in Thread |-> None] /\ old = [t \in Thread |-> None]

AllIdle == \A t \in Thread : pc[t] = "idle"
\* DLL code runs in a thread: a module is loaded and nothing is collected.
Runs(t) == loaded = "running" /\ pc[t] = "idle"

Goto(t, from, to) == pc[t] = from /\ pc' = [pc EXCEPT ![t] = to]
Begin(t, o, b, to) ==
  /\ Goto(t, "idle", to)
  /\ op' = [op EXCEPT ![t] = o]
  /\ blk' = [blk EXCEPT ![t] = b]

\* The call is over, and its local variables are gone.
Return(t, from) ==
  /\ Goto(t, from, "idle")
  /\ op' = [op EXCEPT ![t] = "none"]
  /\ blk' = [blk EXCEPT ![t] = None]
  /\ old' = [old EXCEPT ![t] = None]
Stay(t, from, to) == Goto(t, from, to) /\ UNCHANGED call

\* pthread_mutex_lock blocks on a held mutex; on a destroyed one it returns
\* EINVAL, and nobody looks at the result.
Lock(t, from, to) ==
  /\ Goto(t, from, to)
  /\ memmut \in {"free", "gone"}
  /\ memmut' = IF memmut = "free" THEN t ELSE memmut
Unlock(t) == memmut' = IF memmut = t THEN "free" ELSE memmut

-----------------------------------------------------------------------------
(* The calls *)

\* The entry point of the first DLL calls HeapCreate; loads are serialised.
LoadModule(t) ==
  /\ loaded = "none" /\ AllIdle
  /\ IF Anchored
     THEN loaded' = "loading" /\ Begin(t, "load", None, "malloc")
     ELSE loaded' = "running" /\ UNCHANGED <<pc, op, blk>>
  /\ UNCHANGED <<list, beef, owned, memmut, hack, anchor, given, twice, old>>

\* HeapAlloc, or one of the calls that do not touch heapfreehack (GlobalAlloc,
\* LocalAlloc, CreateEvent, ...).
Alloc(t) ==
  /\ Runs(t)
  /\ \E o \in {"HeapAlloc", "GlobalAlloc"} : Begin(t, o, None, "malloc")
  /\ twice' = None
  /\ UNCHANGED <<list, beef, owned, memmut, hack, dll, old>>

\* A block no thread is asking the size of.
Free2Go(b) == b \in given \ {anchor} /\ \A t \in Thread : pc[t] # "idle" => old[t] # b

\* HeapFree ignores the block heapfreehack names.
HeapFree(t) ==
  /\ Runs(t)
  /\ \E b \in Obj :
       /\ Free2Go(b)
       /\ given' = given \ {b}
       /\ IF hack = b
          THEN twice' = b /\ UNCHANGED <<pc, op, blk>>
          ELSE twice' = None /\ Begin(t, "HeapFree", b, "check")
  /\ UNCHANGED <<list, beef, owned, memmut, hack, loaded, anchor, old>>

\* VP31 releases a chunk twice, with no other heap call in between.
SecondHeapFree(t) ==
  /\ Runs(t) /\ AllIdle /\ twice # None
  /\ IF hack = twice
     THEN UNCHANGED <<pc, op, blk, twice>>
     ELSE Begin(t, "HeapFree", twice, "check") /\ twice' = None
  /\ UNCHANGED <<list, beef, owned, memmut, hack, dll, old>>

GlobalFree(t) ==
  /\ Runs(t)
  /\ \E b \in Obj :
       Free2Go(b) /\ given' = given \ {b} /\ Begin(t, "GlobalFree", b, "check")
  /\ twice' = None
  /\ UNCHANGED <<list, beef, owned, memmut, hack, loaded, anchor, old>>

\* my_realloc of a block that must grow: a new one, then the release.
HeapReAlloc(t) ==
  /\ Runs(t)
  /\ \E b \in Obj :
       /\ Free2Go(b)
       /\ given' = given \ {b}
       /\ old' = [old EXCEPT ![t] = b]
       /\ Begin(t, "HeapReAlloc", None, "malloc")
  /\ twice' = None
  /\ UNCHANGED <<list, beef, owned, memmut, hack, loaded, anchor>>

\* header = last_alloc, before the mutex is taken.
GlobalSize(t) ==
  /\ Runs(t)
  /\ \E b \in given : old' = [old EXCEPT ![t] = b]
  /\ Begin(t, "GlobalSize", last_alloc, "lockWalk")
  /\ twice' = None
  /\ UNCHANGED <<list, beef, owned, memmut, hack, dll>>

\* The last module is gone, and with it all DLL code.
Collect(t) ==
  /\ loaded = "running" /\ AllIdle
  /\ loaded' = "collecting" /\ anchor' = None /\ given' = {} /\ twice' = None
  /\ Begin(t, "collect", None, "loop")
  /\ UNCHANGED <<list, beef, owned, memmut, hack, old>>

-----------------------------------------------------------------------------
(* mreq_private *)

Malloc(t) ==
  /\ Goto(t, "malloc", "empty?")
  /\ \E b \in Obj \ owned :
       /\ owned' = owned \cup {b}
       /\ blk' = [blk EXCEPT ![t] = b]
  /\ UNCHANGED <<list, beef, memmut, hack, dll, twice, op, old>>

\* The null pointer is handed on (HeapReAlloc would copy to it).
MallocFails(t) ==
  /\ Return(t, "malloc")
  /\ op[t] # "HeapReAlloc"
  /\ loaded' = IF op[t] = "load" THEN "none" ELSE loaded
  /\ hack' = IF op[t] = "HeapAlloc" THEN None ELSE hack
  /\ UNCHANGED <<list, beef, owned, memmut, anchor, given, twice>>

\* if (!last_alloc), without the mutex.
TestEmpty(t) ==
  /\ Goto(t, "empty?", IF last_alloc = None THEN "init" ELSE "lockLink")
  /\ UNCHANGED <<list, beef, owned, memmut, hack, dll, twice, call>>

InitMutex(t) ==
  /\ Goto(t, "init", "lockFirst")
  /\ memmut' = "free"
  /\ UNCHANGED <<list, beef, owned, hack, dll, twice, call>>

LockFirst(t) == Lock(t, "lockFirst", "first") /\ UNCHANGED <<list, beef, owned, hack, dll, twice, call>>
LockLink(t) == Lock(t, "lockLink", "link") /\ UNCHANGED <<list, beef, owned, hack, dll, twice, call>>

\* The header goes on the list; last_alloc->next of an empty list is a crash.
Link(t) ==
  /\ \/ Goto(t, "first", "stamp") /\ next' = [next EXCEPT ![blk[t]] = None]
     \/ /\ Goto(t, "link", "stamp") /\ last_alloc # None
        /\ next' = [next EXCEPT ![last_alloc] = blk[t], ![blk[t]] = None]
  /\ prev' = [prev EXCEPT ![blk[t]] = last_alloc]
  /\ last_alloc' = blk[t]
  /\ alccnt' = alccnt + 1
  /\ Unlock(t)
  /\ UNCHANGED <<beef, owned, hack, dll, twice, call>>

\* deadbeef, size and type are stored after the unlock, and the block is
\* returned.  HeapAlloc clears heapfreehack, HeapReAlloc releases the old block.
Stamp(t) ==
  /\ beef' = beef \cup {blk[t]}
  /\ given' = given \cup {blk[t]}
  /\ hack' = IF op[t] = "HeapAlloc" THEN None ELSE hack
  /\ IF op[t] = "load"
     THEN loaded' = "running" /\ anchor' = blk[t]
     ELSE UNCHANGED <<loaded, anchor>>
  /\ IF op[t] = "HeapReAlloc"
     THEN /\ Goto(t, "stamp", "check")
          /\ blk' = [blk EXCEPT ![t] = old[t]]
          /\ UNCHANGED <<op, old>>
     ELSE Return(t, "stamp")
  /\ UNCHANGED <<list, owned, memmut, twice>>

-----------------------------------------------------------------------------
(* my_release *)

\* my_release returns to its caller: HeapFree remembers the block, the garbage
\* collection goes on.
EndRelease(t, from) ==
  /\ hack' = IF op[t] = "HeapFree" THEN blk[t] ELSE hack
  /\ IF op[t] = "collect" THEN Stay(t, from, "loop") ELSE Return(t, from)

\* "FATAL releasing corrupted memory!": nothing is released.
Check(t) ==
  /\ IF blk[t] \in beef
     THEN Stay(t, "check", "lockUnlink") /\ UNCHANGED hack
     ELSE EndRelease(t, "check")
  /\ UNCHANGED <<list, beef, owned, memmut, dll, twice>>

LockUnlink(t) == Lock(t, "lockUnlink", "unlink") /\ UNCHANGED <<list, beef, owned, hack, dll, twice, call>>

\* Mutant: the newer neighbour keeps its prev.
UnlinkNoNext(t) ==
  /\ Goto(t, "unlink", "last?")
  /\ beef' = beef \ {blk[t]}
  /\ LET p == prev[blk[t]] n == next[blk[t]] IN
       /\ next' = IF p = None THEN next ELSE [next EXCEPT ![p] = n]
       /\ last_alloc' = IF last_alloc = blk[t] THEN p ELSE last_alloc
  /\ alccnt' = alccnt - 1
  /\ Unlock(t)
  /\ UNCHANGED <<prev, owned, hack, dll, twice, call>>

\* Mutant: last_alloc stays at the block.
UnlinkKeepsLast(t) ==
  /\ Goto(t, "unlink", "last?")
  /\ beef' = beef \ {blk[t]}
  /\ LET p == prev[blk[t]] n == next[blk[t]] IN
       /\ next' = IF p = None THEN next ELSE [next EXCEPT ![p] = n]
       /\ prev' = IF n = None THEN prev ELSE [prev EXCEPT ![n] = p]
  /\ alccnt' = alccnt - 1
  /\ Unlock(t)
  /\ UNCHANGED <<last_alloc, owned, hack, dll, twice, call>>

Unlink(t) ==
  /\ Goto(t, "unlink", "last?")
  /\ beef' = beef \ {blk[t]}
  /\ LET p == prev[blk[t]] n == next[blk[t]] IN
       /\ next' = IF p = None THEN next ELSE [next EXCEPT ![p] = n]
       /\ prev' = IF n = None THEN prev ELSE [prev EXCEPT ![n] = p]
       /\ last_alloc' = IF last_alloc = blk[t] THEN p ELSE last_alloc
  /\ alccnt' = alccnt - 1
  /\ Unlock(t)
  /\ UNCHANGED <<owned, hack, dll, twice, call>>

\* Mutant: the mutex is destroyed without a look at the list.
TestLastAlways(t) ==
  /\ Goto(t, "last?", "destroy")
  /\ UNCHANGED <<list, beef, owned, memmut, hack, dll, twice, call>>

\* if (!last_alloc) again, after the unlock.
TestLast(t) ==
  /\ Goto(t, "last?", IF last_alloc = None THEN "destroy" ELSE "free")
  /\ UNCHANGED <<list, beef, owned, memmut, hack, dll, twice, call>>

DestroyMutex(t) ==
  /\ Goto(t, "destroy", "free")
  /\ memmut' = "gone"
  /\ UNCHANGED <<list, beef, owned, hack, dll, twice, call>>

\* Nothing else was called since this thread's HeapFree began.
NextToLast(t) == IF op[t] = "HeapFree" /\ \A u \in Thread \ {t} : pc[u] = "idle"
                 THEN blk[t] ELSE None

\* Mutant: HeapFree does not remember the block.
FreeForgets(t) ==
  /\ pc[t] = "free"
  /\ owned' = owned \ {blk[t]}
  /\ prev' = [prev EXCEPT ![blk[t]] = None] /\ next' = [next EXCEPT ![blk[t]] = None]
  /\ twice' = NextToLast(t)
  /\ IF op[t] = "collect" THEN Stay(t, "free", "loop") ELSE Return(t, "free")
  /\ UNCHANGED <<last_alloc, alccnt, beef, memmut, hack, dll>>

Free(t) ==
  /\ pc[t] = "free"
  /\ owned' = owned \ {blk[t]}
  /\ prev' = [prev EXCEPT ![blk[t]] = None] /\ next' = [next EXCEPT ![blk[t]] = None]
  /\ twice' = NextToLast(t)
  /\ EndRelease(t, "free")
  /\ UNCHANGED <<last_alloc, alccnt, beef, memmut, dll>>

-----------------------------------------------------------------------------
(* GlobalSize, and my_garbagecollection *)

LockWalk(t) == Lock(t, "lockWalk", "walk") /\ UNCHANGED <<list, beef, owned, hack, dll, twice, call>>

\* Mutant: the list is followed towards the newer blocks.
WalkOnNext(t) ==
  /\ pc[t] = "walk" /\ blk[t] \in beef \ {old[t]}
  /\ blk' = [blk EXCEPT ![t] = next[blk[t]]]
  /\ UNCHANGED <<list, beef, owned, memmut, hack, dll, twice, pc, op, old>>

WalkOn(t) ==
  /\ pc[t] = "walk" /\ blk[t] \in beef \ {old[t]}
  /\ blk' = [blk EXCEPT ![t] = prev[blk[t]]]
  /\ UNCHANGED <<list, beef, owned, memmut, hack, dll, twice, pc, op, old>>

\* The block is found, ...
WalkFinds(t) ==
  /\ blk[t] = old[t] /\ blk[t] \in beef
  /\ Return(t, "walk")
  /\ Unlock(t)
  /\ UNCHANGED <<list, beef, owned, hack, dll, twice>>

\* ... or the list ends, or "FATAL found corrupted memory!" (a header of freed
\* memory has lost its mark, too).
WalkMisses(t) ==
  /\ blk[t] \notin beef
  /\ Return(t, "walk")
  /\ Unlock(t)
  /\ UNCHANGED <<list, beef, owned, hack, dll, twice>>

\* while (last_alloc) my_release(last_alloc + 1)
CollectLoop(t) ==
  /\ IF last_alloc = None
     THEN Return(t, "loop") /\ loaded' = "none"
     ELSE /\ Goto(t, "loop", "check")
          /\ blk' = [blk EXCEPT ![t] = last_alloc]
          /\ UNCHANGED <<loaded, op, old>>
  /\ UNCHANGED <<list, beef, owned, memmut, hack, anchor, given, twice>>

-----------------------------------------------------------------------------
Call(t) ==
  \/ LoadModule(t) \/ Alloc(t) \/ HeapFree(t) \/ SecondHeapFree(t) \/ GlobalFree(t)
  \/ HeapReAlloc(t) \/ GlobalSize(t) \/ Collect(t)
AllocStep(t) ==
  \/ Malloc(t) \/ MallocFails(t) \/ TestEmpty(t) \/ InitMutex(t) \/ LockFirst(t)
  \/ LockLink(t) \/ Link(t) \/ Stamp(t)
ReleaseStep(t) ==
  Check(t) \/ LockUnlink(t) \/ Unlink(t) \/ TestLast(t) \/ DestroyMutex(t) \/ Free(t)
WalkStep(t) == LockWalk(t) \/ WalkOn(t) \/ WalkFinds(t) \/ WalkMisses(t)

Step(t) == AllocStep(t) \/ ReleaseStep(t) \/ WalkStep(t) \/ CollectLoop(t)

Next == \E t \in Thread : Call(t) \/ Step(t)

Spec == Init /\ [][Next]_vars
\* A thread inside a call is scheduled.
FairSpec == Spec /\ \A t \in Thread : WF_vars(Step(t))

-----------------------------------------------------------------------------
(* Properties *)

PCs == {"idle", "malloc", "empty?", "init", "lockFirst", "first", "lockLink", "link", "stamp",
        "check", "lockUnlink", "unlink", "last?", "destroy", "free", "lockWalk", "walk", "loop"}
Ptr == Obj \cup {None}

\* Every variable has its type; the count of blocks is never negative.
TypeOK ==
  /\ last_alloc \in Ptr /\ alccnt \in Nat /\ prev \in [Obj -> Ptr] /\ next \in [Obj -> Ptr]
  /\ beef \subseteq Obj /\ owned \subseteq Obj /\ given \subseteq Obj
  /\ memmut \in Thread \cup {"free", "gone"}
  /\ hack \in Ptr /\ anchor \in Ptr /\ twice \in Ptr
  /\ loaded \in {"none", "loading", "running", "collecting"}
  /\ pc \in [Thread -> PCs] /\ blk \in [Thread -> Ptr] /\ old \in [Thread -> Ptr]

\* The blocks that are on the list: not those a call is still building or is
\* just giving back to malloc.
Linked ==
  owned \ {blk[t] : t \in {u \in Thread :
             pc[u] \in {"empty?", "init", "lockFirst", "first", "lockLink", "link",
                        "last?", "destroy", "free"}}}

\* The list is the doubly linked list of exactly these blocks, and alccnt is
\* their number, whatever the threads allocate, release and grow.
ListIntact ==
  LET Chain[n \in 0..Cardinality(Obj)] ==
        IF n = 0 THEN {last_alloc} \ {None}
        ELSE Chain[n - 1] \cup ({prev[b] : b \in Chain[n - 1]} \ {None})
  IN  /\ Chain[Cardinality(Obj)] = Linked
      /\ alccnt = Cardinality(Linked)
      /\ \A b \in Linked : /\ next[b] = None <=> b = last_alloc
                           /\ prev[b] # None => next[prev[b]] = b

\* The unlocked tests of last_alloc never go wrong: no thread locks, holds or
\* waits for memmut while it is destroyed or initialised by another one, and
\* none finds the list empty that it saw filled.
MutexSurvives ==
  \A t \in Thread :
    /\ pc[t] \in {"lockFirst", "lockLink", "lockUnlink", "lockWalk"} => memmut # "gone"
    /\ pc[t] \in {"first", "link", "unlink", "walk"} => memmut = t
    /\ pc[t] \in {"init", "destroy"} => \A u \in Thread \ {t} : pc[u] = "idle"
    /\ pc[t] = "link" => last_alloc # None

\* Only memory that malloc still knows is released, and no block twice, also
\* when VP31 releases a chunk a second time.
ReleasesOwned ==
  \A t, u \in Thread :
    /\ pc[t] \in {"check", "lockUnlink", "unlink", "last?", "destroy", "free"} => blk[t] \in owned
    /\ pc[t] \in {"lockUnlink", "unlink"} /\ pc[u] \in {"lockUnlink", "unlink"} =>
         blk[t] # blk[u] \/ t = u

\* GlobalSize finds every block a DLL holds, except when it meets a header that
\* is not filled in yet or started from a block that was released meanwhile.
SizeFound ==
  [][\A t \in Thread : WalkMisses(t) =>
       \/ blk[t] \in Obj \ Linked
       \/ \E u \in Thread : pc[u] = "stamp" /\ blk[u] = blk[t]]_vars

\* The garbage collection ends, with an empty heap.
CollectionEnds == loaded = "collecting" ~> loaded = "none" /\ owned = {}
=============================================================================

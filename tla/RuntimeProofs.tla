--------------------------- MODULE RuntimeProofs ---------------------------
(***************************************************************************)
(* Theorems about what wine/win32.c keeps for the DLLs (MCWin32Runtime),   *)
(* for any threads, addresses, sizes, files, classes, names and depth of   *)
(* QuickTime's stack.                                                      *)
(*                                                                         *)
(* The heap's hold when the first DLL keeps a block (Anchored): its list   *)
(* is doubly linked at every block and never becomes empty while DLL code  *)
(* runs, so memmut is never destroyed under a thread, what is released was *)
(* allocated and belongs to one call, and GlobalSize meets what it looks   *)
(* for.  Each of the other parts has an inductive invariant of its own,    *)
(* which says nothing once two calls have overlapped where nothing locks.  *)
(***************************************************************************)
EXTENDS MCWin32Runtime, FiniteSetTheorems, SequenceTheorems, WellFoundedInduction, NaturalsInduction, TLAPS

-----------------------------------------------------------------------------
(* Numbers and sequences *)

\* A set of numbers has a least one.
LEMMA LeastOf ==
  ASSUME NEW T \in SUBSET Nat, T # {}
  PROVE  \E m \in T : \A k \in T : m <= k
<1>1. IsWellFoundedOn(OpToRel(<, Nat), Nat)
  BY NatLessThanWellFounded
<1> DEFINE R == OpToRel(<, Nat)
<1>2. \A x, y \in Nat : <<x, y>> \in R <=> x < y
  BY DEF OpToRel
<1>3. PICK m \in T : \A y \in T : ~(<<y, m>> \in R)
  <2> HIDE DEF R
  <2>1. IsWellFoundedOn(R, Nat)
    BY <1>1 DEF R
  <2> QED
    BY <2>1, WFMin, Zenon
<1> HIDE DEF R
<1>4. ASSUME NEW k \in T PROVE m <= k
  <2>1. k \in Nat /\ m \in Nat /\ ~(<<k, m>> \in R)
    BY <1>3
  <2>2. ~(k < m)
    BY <2>1, <1>2
  <2> QED
    BY <2>1, <2>2
<1> QED
  BY <1>4

\* r is s without its entry k.
Without(r, s, k) == Len(r) = Len(s) - 1 /\ \A j \in 1..(Len(s) - 1) : r[j] = IF j < k THEN s[j] ELSE s[j + 1]

\* What is before an entry and what is after it.
LEMMA RemovedAt ==
  ASSUME NEW S, NEW s \in Seq(S), NEW k \in 1..Len(s), NEW r, r = SubSeq(s, 1, k - 1) \o SubSeq(s, k + 1, Len(s))
  PROVE  r \in Seq(S) /\ Without(r, s, k)
<1> DEFINE a == SubSeq(s, 1, k - 1)
           b == SubSeq(s, k + 1, Len(s))
<1>1. Len(s) \in Nat /\ k \in Nat /\ 1 <= k /\ k <= Len(s)
  OBVIOUS
<1>2. a \in Seq(S) /\ Len(a) = k - 1 /\ \A j \in 1..(k - 1) : a[j] = s[j]
  BY <1>1
<1>3. b \in Seq(S) /\ Len(b) = Len(s) - k /\ \A j \in 1..(Len(s) - k) : b[j] = s[k + j]
  BY <1>1
<1> HIDE DEF a, b
<1>4. a \o b \in Seq(S) /\ Len(a \o b) = Len(a) + Len(b)
      /\ \A j \in 1..Len(a) + Len(b) : (a \o b)[j] = IF j <= Len(a) THEN a[j] ELSE b[j - Len(a)]
  BY <1>2, <1>3, ConcatProperties
<1>5. ASSUME NEW j \in 1..(Len(s) - 1) PROVE (a \o b)[j] = IF j < k THEN s[j] ELSE s[j + 1]
  <2>1. j \in 1..Len(a) + Len(b)
    BY <1>1, <1>2, <1>3
  <2>2. CASE j < k
    BY <1>1, <1>2, <1>4, <2>1, <2>2
  <2>3. CASE ~(j < k)
    <3>1. j - Len(a) \in 1..(Len(s) - k) /\ ~(j <= Len(a)) /\ k + (j - Len(a)) = j + 1
      BY <1>1, <1>2, <2>3
    <3> QED
      BY <1>3, <1>4, <2>1, <2>3, <3>1
  <2> QED
    BY <2>2, <2>3
<1>6. Len(a \o b) = Len(s) - 1
  BY <1>1, <1>2, <1>3, <1>4
<1> QED
  BY <1>4, <1>5, <1>6 DEF a, b, Without

-----------------------------------------------------------------------------
(* The heap *)

NewPCs == {"empty?", "init", "lockFirst", "first", "lockLink", "link"}
DyingPCs == {"last?", "destroy", "free"}
ClaimPCs == {"check", "lockUnlink", "unlink"}
AllocPCs == NewPCs \cup {"malloc", "stamp"}

\* The blocks only the call of t may hand out or release: the one it builds or
\* releases, and the one HeapReAlloc will release.
Has(t, b) ==
  \/ pc[t] \in NewPCs \cup DyingPCs \cup ClaimPCs \cup {"stamp"} /\ b = blk[t]
  \/ pc[t] \in AllocPCs /\ op[t] = "HeapReAlloc" /\ b = old[t]

\* The block is on the list: no call is building it or giving it back.
OnList(b) ==
  b \in owned /\ \A t \in Thread : pc[t] \in NewPCs \cup DyingPCs => blk[t] # b

Ops == {"none", "load", "HeapAlloc", "GlobalAlloc", "HeapFree", "GlobalFree",
        "HeapReAlloc", "GlobalSize", "collect"}

\* The types, without the number of blocks.
Types ==
  /\ last_alloc \in Ptr /\ prev \in [Obj -> Ptr] /\ next \in [Obj -> Ptr]
  /\ beef \subseteq Obj /\ owned \subseteq Obj /\ given \subseteq Obj
  /\ memmut \in Thread \cup {"free", "gone"}
  /\ hack \in Ptr /\ anchor \in Ptr /\ twice \in Ptr
  /\ loaded \in {"none", "loading", "running", "collecting"}
  /\ pc \in [Thread -> PCs] /\ op \in [Thread -> Ops]
  /\ blk \in [Thread -> Ptr] /\ old \in [Thread -> Ptr]

\* A block is allocated, in one pair of hands: a DLL's or one call's.
Separate ==
  /\ given \subseteq owned
  /\ \A t \in Thread, b \in Ptr : Has(t, b) =>
       b \in owned /\ b \notin given /\ \A u \in Thread : Has(u, b) => u = t
  /\ \A t \in Thread :
       pc[t] \in NewPCs \cup {"stamp"} /\ op[t] = "HeapReAlloc" => blk[t] # old[t]

\* A block that may be released a second time either never was released, or
\* heapfreehack still names it.
TwiceKnown ==
  twice # None =>
    /\ loaded = "running"
    /\ \/ twice \in owned /\ twice \notin given /\ \A t \in Thread : ~Has(t, twice)
       \/ hack = twice /\ AllIdle

\* Neighbours name each other, last_alloc is the newest block, and at most one
\* block, the oldest, has no prev.
Doubly ==
  /\ last_alloc # None => OnList(last_alloc)
  /\ \A b \in Obj : OnList(b) =>
       /\ prev[b] # None => OnList(prev[b]) /\ next[prev[b]] = b
       /\ next[b] # None => OnList(next[b]) /\ prev[next[b]] = b
       /\ next[b] = None <=> b = last_alloc
       /\ prev[b] = None =>
            /\ last_alloc # None
            /\ \A c \in Obj : OnList(c) /\ prev[c] = None => c = b

\* What each phase of the heap's life knows; the anchor keeps the list filled.
Phases ==
  /\ loaded = "running" => anchor \in given /\ prev[anchor] = None /\ last_alloc # None
  /\ loaded # "running" =>
       given = {} /\ \A t, u \in Thread : pc[t] # "idle" /\ pc[u] # "idle" => t = u
  /\ loaded = "none" => AllIdle /\ last_alloc = None
  /\ \A t \in Thread : pc[t] # "idle" =>
       /\ op[t] = "load" <=> loaded = "loading"
       /\ op[t] = "collect" <=> loaded = "collecting"
       /\ loaded = "loading" =>
            /\ pc[t] \in {"malloc", "empty?", "init", "lockFirst", "first", "stamp"}
            /\ pc[t] # "stamp" => last_alloc = None
            /\ pc[t] = "stamp" => last_alloc = blk[t] /\ prev[blk[t]] = None
       /\ loaded = "running" => pc[t] \notin {"init", "lockFirst", "first", "destroy", "loop"}
       /\ loaded = "collecting" =>
            /\ pc[t] \in {"loop"} \cup ClaimPCs \cup DyingPCs
            /\ pc[t] \in ClaimPCs => last_alloc # None
            /\ pc[t] = "destroy" => last_alloc = None

\* Who is between lock and unlock holds memmut, which is valid while the list
\* is not empty.
MutexOK ==
  /\ \A t \in Thread : pc[t] \in {"first", "link", "unlink", "walk"} => memmut = t
  /\ \A t \in Thread : pc[t] \in {"lockFirst", "first"} => memmut # "gone"
  /\ last_alloc # None => memmut # "gone"

Counted == alccnt = Cardinality(Linked)

\* The blocks on the list, from the oldest.
ListedBy(s) ==
  /\ \A i \in 1..Len(s) : OnList(s[i]) /\ prev[s[i]] = IF i = 1 THEN None ELSE s[i - 1]
  /\ \A b \in Obj : OnList(b) => \E i \in 1..Len(s) : s[i] = b
  /\ \A i, j \in 1..Len(s) : s[i] = s[j] => i = j
  /\ last_alloc = IF Len(s) = 0 THEN None ELSE s[Len(s)]

\* A thread that looks for a block is not before it.
Walking(t) == pc[t] \in {"lockWalk", "walk"}
NotBefore(s, b, o) == \A i \in 1..Len(s) : s[i] = b => \E j \in 1..i : s[j] = o
Walked(s) == \A t \in Thread : Walking(t) => old[t] \in given /\ blk[t] \in Obj /\ NotBefore(s, blk[t], old[t])

Chained == \E s \in Seq(Obj) : ListedBy(s) /\ Walked(s)

\* What is on the list has its mark, or is about to get it; nothing else has.
Seen(b) == b \in beef \/ \E t \in Thread : pc[t] = "stamp" /\ blk[t] = b
Marked == \A b \in Obj : Seen(b) <=> OnList(b)

\* What a step does to the threads that look for a block.
WalkChange ==
  \A t \in Thread : Walking(t)' =>
    /\ old'[t] \in given'
    /\ \/ Walking(t) /\ old'[t] = old[t] /\ blk'[t] = blk[t]
       \/ last_alloc # None /\ blk'[t] = last_alloc /\ old'[t] \in given
       \/ Walking(t) /\ old'[t] = old[t] /\ blk[t] \in beef \ {old[t]} /\ blk'[t] = prev[blk[t]]

\* What a step does to the list and to its count.
Kept ==
  /\ alccnt' = alccnt /\ last_alloc' = last_alloc
  /\ \A b \in Obj : OnList(b)' <=> OnList(b)
  /\ \A b \in Obj : OnList(b) => prev'[b] = prev[b]
Added(c) ==
  /\ ~OnList(c) /\ alccnt' = alccnt + 1 /\ last_alloc' = c
  /\ \A b \in Obj : OnList(b)' <=> b = c \/ OnList(b)
  /\ \A b \in Obj : OnList(b) => prev'[b] = prev[b]
  /\ prev'[c] = last_alloc
Removed(c) ==
  /\ OnList(c) /\ alccnt' = alccnt - 1 /\ last_alloc' = IF last_alloc = c THEN prev[c] ELSE last_alloc
  /\ \A b \in Obj : OnList(b)' <=> b # c /\ OnList(b)
  /\ \A b \in Obj : OnList(b) => prev'[b] = IF b = next[c] THEN prev[c] ELSE prev[b]
ListChange == Kept \/ \E c \in Obj : Added(c) \/ Removed(c)

IInv == Types /\ Separate /\ TwiceKnown /\ Doubly /\ Phases /\ MutexOK

\* The types are preserved by every step of every thread.
LEMMA TypesStep == Types /\ Separate /\ [Next]_vars => Types'
<1> SUFFICES ASSUME Types, Separate, [Next]_vars PROVE Types'
  OBVIOUS
<1> USE ObjAssumption, ThreadAssumption DEF Types, Separate, Has, PCs, Ops, NewPCs, DyingPCs, ClaimPCs, AllocPCs, Goto, list, dll, call, Ptr
<1>1. ASSUME NEW t \in Thread, LoadModule(t) PROVE Types'
  BY <1>1 DEF LoadModule, AllIdle, Begin
<1>2. ASSUME NEW t \in Thread, Alloc(t) PROVE Types'
  BY <1>2 DEF Alloc, Runs, Begin
<1>3. ASSUME NEW t \in Thread, HeapFree(t) PROVE Types'
  BY <1>3 DEF HeapFree, Runs, Free2Go, Begin
<1>4. ASSUME NEW t \in Thread, SecondHeapFree(t) PROVE Types'
  BY <1>4 DEF SecondHeapFree, Runs, AllIdle, Begin
<1>5. ASSUME NEW t \in Thread, GlobalFree(t) PROVE Types'
  BY <1>5 DEF GlobalFree, Runs, Free2Go, Begin
<1>6. ASSUME NEW t \in Thread, HeapReAlloc(t) PROVE Types'
  BY <1>6 DEF HeapReAlloc, Runs, Free2Go, Begin
<1>7. ASSUME NEW t \in Thread, GlobalSize(t) PROVE Types'
  BY <1>7 DEF GlobalSize, Runs, Begin
<1>8. ASSUME NEW t \in Thread, Collect(t) PROVE Types'
  BY <1>8 DEF Collect, AllIdle, Begin
<1>9. ASSUME NEW t \in Thread, Malloc(t) PROVE Types'
  BY <1>9 DEF Malloc
<1>10. ASSUME NEW t \in Thread, MallocFails(t) PROVE Types'
  BY <1>10 DEF MallocFails, Return
<1>11. ASSUME NEW t \in Thread, TestEmpty(t) PROVE Types'
  BY <1>11 DEF TestEmpty
<1>12. ASSUME NEW t \in Thread, InitMutex(t) PROVE Types'
  BY <1>12 DEF InitMutex
<1>13. ASSUME NEW t \in Thread, LockFirst(t) PROVE Types'
  BY <1>13 DEF LockFirst, Lock
<1>14. ASSUME NEW t \in Thread, LockLink(t) PROVE Types'
  BY <1>14 DEF LockLink, Lock
<1>15. ASSUME NEW t \in Thread, Link(t) PROVE Types'
  BY <1>15 DEF Link, Unlock
<1>16. ASSUME NEW t \in Thread, Stamp(t) PROVE Types'
  <2>1. pc' \in [Thread -> PCs] /\ op' \in [Thread -> Ops]
    BY <1>16 DEF Stamp, Return
  <2>2. blk' \in [Thread -> Ptr] /\ old' \in [Thread -> Ptr]
    BY <1>16 DEF Stamp, Return
  <2>3. blk[t] \in Obj
    BY <1>16 DEF Stamp, Return
  <2>4. beef' \subseteq Obj /\ given' \subseteq Obj /\ hack' \in Ptr /\ anchor' \in Ptr
    BY <1>16, <2>3 DEF Stamp
  <2> QED
    BY <1>16, <2>1, <2>2, <2>4 DEF Stamp
<1>17. ASSUME NEW t \in Thread, Check(t) PROVE Types'
  <2>1. CASE blk[t] \in beef
    BY <1>17, <2>1 DEF Check, Stay
  <2>2. CASE blk[t] \notin beef /\ op[t] = "collect"
    BY <1>17, <2>2 DEF Check, EndRelease, Stay
  <2>3. CASE blk[t] \notin beef /\ op[t] # "collect"
    BY <1>17, <2>3 DEF Check, EndRelease, Return
  <2> QED
    BY <2>1, <2>2, <2>3
<1>18. ASSUME NEW t \in Thread, LockUnlink(t) PROVE Types'
  BY <1>18 DEF LockUnlink, Lock
<1>19. ASSUME NEW t \in Thread, Unlink(t) PROVE Types'
  BY <1>19 DEF Unlink, Unlock
<1>20. ASSUME NEW t \in Thread, TestLast(t) PROVE Types'
  BY <1>20 DEF TestLast
<1>21. ASSUME NEW t \in Thread, DestroyMutex(t) PROVE Types'
  BY <1>21 DEF DestroyMutex
<1>22. ASSUME NEW t \in Thread, Free(t) PROVE Types'
  <2>1. Has(t, blk[t]) /\ blk[t] \in Obj
    BY <1>22 DEF Free
  <2>2. CASE op[t] = "collect"
    BY <1>22, <2>1, <2>2 DEF Free, EndRelease, NextToLast, Stay
  <2>3. CASE op[t] # "collect"
    <3>1. pc' \in [Thread -> PCs] /\ op' \in [Thread -> Ops]
      BY <1>22, <2>3 DEF Free, EndRelease, Return
    <3>2. blk' \in [Thread -> Ptr] /\ old' \in [Thread -> Ptr]
      BY <1>22, <2>3 DEF Free, EndRelease, Return
    <3>3. prev' \in [Obj -> Ptr] /\ next' \in [Obj -> Ptr] /\ owned' \subseteq Obj
      BY <1>22, <2>1 DEF Free
    <3>4. hack' \in Ptr /\ twice' \in Ptr
      BY <1>22, <2>1, <2>3 DEF Free, EndRelease, NextToLast
    <3> QED
      BY <1>22, <3>1, <3>2, <3>3, <3>4 DEF Free
  <2> QED
    BY <2>2, <2>3
<1>23. ASSUME NEW t \in Thread, LockWalk(t) PROVE Types'
  BY <1>23 DEF LockWalk, Lock
<1>24. ASSUME NEW t \in Thread, WalkOn(t) PROVE Types'
  BY <1>24 DEF WalkOn
<1>25. ASSUME NEW t \in Thread, WalkFinds(t) PROVE Types'
  BY <1>25 DEF WalkFinds, Unlock, Return
<1>26. ASSUME NEW t \in Thread, WalkMisses(t) PROVE Types'
  BY <1>26 DEF WalkMisses, Unlock, Return
<1>27. ASSUME NEW t \in Thread, CollectLoop(t) PROVE Types'
  <2>1. CASE last_alloc = None
    BY <1>27, <2>1 DEF CollectLoop, Return
  <2>2. CASE last_alloc # None
    BY <1>27, <2>2 DEF CollectLoop
  <2> QED
    BY <2>1, <2>2
<1>28. CASE UNCHANGED vars
  BY <1>28 DEF vars
<1> QED
  BY <1>1, <1>2, <1>3, <1>4, <1>5, <1>6, <1>7, <1>8, <1>9, <1>10, <1>11, <1>12, <1>13, <1>14, <1>15, <1>16, <1>17, <1>18, <1>19, <1>20, <1>21, <1>22, <1>23, <1>24, <1>25, <1>26, <1>27, <1>28 DEF Next, Call, Step, AllocStep, ReleaseStep, WalkStep
\* A block stays in one pair of hands: only Malloc brings a new one, and a call
\* that begins to release takes it from DLL code or, the second time, from nobody.
LEMMA SeparateStep == Types /\ Types' /\ Separate /\ TwiceKnown /\ Doubly /\ Phases /\ [Next]_vars => Separate'
<1> SUFFICES ASSUME Types, Types', Separate, TwiceKnown, Doubly, Phases, [Next]_vars PROVE Separate'
  OBVIOUS
<1> USE ObjAssumption, ThreadAssumption DEF Types, Separate, Has, NewPCs, DyingPCs, ClaimPCs, AllocPCs, Goto, list, dll, call, Ptr
<1>1. ASSUME NEW t \in Thread, LoadModule(t) PROVE Separate'
  BY <1>1 DEF LoadModule, AllIdle, Begin
<1>2. ASSUME NEW t \in Thread, Alloc(t) PROVE Separate'
  BY <1>2 DEF Alloc, Runs, Begin
<1>3. ASSUME NEW t \in Thread, HeapFree(t) PROVE Separate'
  BY <1>3 DEF HeapFree, Runs, Free2Go, Begin
<1>4. ASSUME NEW t \in Thread, SecondHeapFree(t) PROVE Separate'
  BY <1>4 DEF SecondHeapFree, Runs, AllIdle, Begin, TwiceKnown
<1>5. ASSUME NEW t \in Thread, GlobalFree(t) PROVE Separate'
  BY <1>5 DEF GlobalFree, Runs, Free2Go, Begin
<1>6. ASSUME NEW t \in Thread, HeapReAlloc(t) PROVE Separate'
  BY <1>6 DEF HeapReAlloc, Runs, Free2Go, Begin
<1>7. ASSUME NEW t \in Thread, GlobalSize(t) PROVE Separate'
  BY <1>7 DEF GlobalSize, Runs, Begin
<1>8. ASSUME NEW t \in Thread, Collect(t) PROVE Separate'
  BY <1>8 DEF Collect, AllIdle, Begin
<1>9. ASSUME NEW t \in Thread, Malloc(t) PROVE Separate'
  BY <1>9 DEF Malloc
<1>10. ASSUME NEW t \in Thread, MallocFails(t) PROVE Separate'
  BY <1>10 DEF MallocFails, Return
<1>11. ASSUME NEW t \in Thread, TestEmpty(t) PROVE Separate'
  BY <1>11 DEF TestEmpty
<1>12. ASSUME NEW t \in Thread, InitMutex(t) PROVE Separate'
  BY <1>12 DEF InitMutex
<1>13. ASSUME NEW t \in Thread, LockFirst(t) PROVE Separate'
  BY <1>13 DEF LockFirst, Lock
<1>14. ASSUME NEW t \in Thread, LockLink(t) PROVE Separate'
  BY <1>14 DEF LockLink, Lock
<1>15. ASSUME NEW t \in Thread, Link(t) PROVE Separate'
  BY <1>15 DEF Link, Unlock
<1>16. ASSUME NEW t \in Thread, Stamp(t) PROVE Separate'
  <2>1. \A u \in Thread \ {t} : pc'[u] = pc[u] /\ op'[u] = op[u] /\ blk'[u] = blk[u] /\ old'[u] = old[u]
    BY <1>16 DEF Stamp, Return
  <2>2. pc[t] = "stamp" /\ owned' = owned /\ given' = given \cup {blk[t]}
    BY <1>16 DEF Stamp, Return
  <2>3. IF op[t] = "HeapReAlloc" THEN pc'[t] = "check" /\ blk'[t] = old[t] ELSE pc'[t] = "idle"
    BY <1>16 DEF Stamp, Return
  <2>4. Has(t, blk[t]) /\ (op[t] = "HeapReAlloc" => Has(t, old[t]) /\ old[t] # blk[t])
    BY <2>2
  <2>5. \A u \in Thread, b \in Ptr : Has(u, b)' => Has(u, b) /\ b # blk[t]
    BY <2>1, <2>2, <2>3, <2>4
  <2>6. blk[t] \in owned /\ \A u \in Thread : pc'[u] \in NewPCs \cup {"stamp"} => u # t
    BY <2>2, <2>3, <2>4
  <2> QED
    BY <2>1, <2>2, <2>5, <2>6
<1>17. ASSUME NEW t \in Thread, Check(t) PROVE Separate'
  BY <1>17 DEF Check, EndRelease, Stay, Return
<1>18. ASSUME NEW t \in Thread, LockUnlink(t) PROVE Separate'
  BY <1>18 DEF LockUnlink, Lock
<1>19. ASSUME NEW t \in Thread, Unlink(t) PROVE Separate'
  BY <1>19 DEF Unlink, Unlock
<1>20. ASSUME NEW t \in Thread, TestLast(t) PROVE Separate'
  BY <1>20 DEF TestLast
<1>21. ASSUME NEW t \in Thread, DestroyMutex(t) PROVE Separate'
  BY <1>21 DEF DestroyMutex
<1>22. ASSUME NEW t \in Thread, Free(t) PROVE Separate'
  BY <1>22 DEF Free, EndRelease, NextToLast, Stay, Return
<1>23. ASSUME NEW t \in Thread, LockWalk(t) PROVE Separate'
  BY <1>23 DEF LockWalk, Lock
<1>24. ASSUME NEW t \in Thread, WalkOn(t) PROVE Separate'
  BY <1>24 DEF WalkOn
<1>25. ASSUME NEW t \in Thread, WalkFinds(t) PROVE Separate'
  BY <1>25 DEF WalkFinds, Unlock, Return
<1>26. ASSUME NEW t \in Thread, WalkMisses(t) PROVE Separate'
  BY <1>26 DEF WalkMisses, Unlock, Return
<1>27. ASSUME NEW t \in Thread, CollectLoop(t) PROVE Separate'
  BY <1>27 DEF CollectLoop, Return, Phases, Doubly, OnList
<1>28. CASE UNCHANGED vars
  BY <1>28 DEF vars
<1> QED
  BY <1>1, <1>2, <1>3, <1>4, <1>5, <1>6, <1>7, <1>8, <1>9, <1>10, <1>11, <1>12, <1>13, <1>14, <1>15, <1>16, <1>17, <1>18, <1>19, <1>20, <1>21, <1>22, <1>23, <1>24, <1>25, <1>26, <1>27, <1>28 DEF Next, Call, Step, AllocStep, ReleaseStep, WalkStep
\* A step leaves the block of a second HeapFree in nobody's hands, or remembered.
LEMMA TwiceStep == Types /\ Types' /\ Phases /\ Separate /\ TwiceKnown /\ [Next]_vars => TwiceKnown'
<1> SUFFICES ASSUME Types, Types', Phases, Separate, TwiceKnown, [Next]_vars PROVE TwiceKnown'
  OBVIOUS
<1> USE ObjAssumption, ThreadAssumption DEF Types, TwiceKnown, Phases, AllIdle, Separate, Has, NewPCs, DyingPCs, ClaimPCs, AllocPCs, Goto, list, dll, call, Ptr
<1>1. ASSUME NEW t \in Thread, LoadModule(t) PROVE TwiceKnown'
  BY <1>1 DEF LoadModule, AllIdle, Begin
<1>2. ASSUME NEW t \in Thread, Alloc(t) PROVE TwiceKnown'
  BY <1>2 DEF Alloc, Runs, Begin
<1>3. ASSUME NEW t \in Thread, HeapFree(t) PROVE TwiceKnown'
  BY <1>3 DEF HeapFree, Runs, Free2Go, Begin
<1>4. ASSUME NEW t \in Thread, SecondHeapFree(t) PROVE TwiceKnown'
  BY <1>4 DEF SecondHeapFree, Runs, AllIdle, Begin
<1>5. ASSUME NEW t \in Thread, GlobalFree(t) PROVE TwiceKnown'
  BY <1>5 DEF GlobalFree, Runs, Free2Go, Begin
<1>6. ASSUME NEW t \in Thread, HeapReAlloc(t) PROVE TwiceKnown'
  BY <1>6 DEF HeapReAlloc, Runs, Free2Go, Begin
<1>7. ASSUME NEW t \in Thread, GlobalSize(t) PROVE TwiceKnown'
  BY <1>7 DEF GlobalSize, Runs, Begin
<1>8. ASSUME NEW t \in Thread, Collect(t) PROVE TwiceKnown'
  BY <1>8 DEF Collect, AllIdle, Begin
<1>9. ASSUME NEW t \in Thread, Malloc(t) PROVE TwiceKnown'
  BY <1>9 DEF Malloc
<1>10. ASSUME NEW t \in Thread, MallocFails(t) PROVE TwiceKnown'
  BY <1>10 DEF MallocFails, Return
<1>11. ASSUME NEW t \in Thread, TestEmpty(t) PROVE TwiceKnown'
  BY <1>11 DEF TestEmpty
<1>12. ASSUME NEW t \in Thread, InitMutex(t) PROVE TwiceKnown'
  BY <1>12 DEF InitMutex
<1>13. ASSUME NEW t \in Thread, LockFirst(t) PROVE TwiceKnown'
  BY <1>13 DEF LockFirst, Lock
<1>14. ASSUME NEW t \in Thread, LockLink(t) PROVE TwiceKnown'
  BY <1>14 DEF LockLink, Lock
<1>15. ASSUME NEW t \in Thread, Link(t) PROVE TwiceKnown'
  BY <1>15 DEF Link, Unlock
<1>16. ASSUME NEW t \in Thread, Stamp(t) PROVE TwiceKnown'
  BY <1>16 DEF Stamp, Return
<1>17. ASSUME NEW t \in Thread, Check(t) PROVE TwiceKnown'
  BY <1>17 DEF Check, EndRelease, Stay, Return
<1>18. ASSUME NEW t \in Thread, LockUnlink(t) PROVE TwiceKnown'
  BY <1>18 DEF LockUnlink, Lock
<1>19. ASSUME NEW t \in Thread, Unlink(t) PROVE TwiceKnown'
  BY <1>19 DEF Unlink, Unlock
<1>20. ASSUME NEW t \in Thread, TestLast(t) PROVE TwiceKnown'
  BY <1>20 DEF TestLast
<1>21. ASSUME NEW t \in Thread, DestroyMutex(t) PROVE TwiceKnown'
  BY <1>21 DEF DestroyMutex
<1>22. ASSUME NEW t \in Thread, Free(t) PROVE TwiceKnown'
  BY <1>22 DEF Free, EndRelease, NextToLast, Stay, Return
<1>23. ASSUME NEW t \in Thread, LockWalk(t) PROVE TwiceKnown'
  BY <1>23 DEF LockWalk, Lock
<1>24. ASSUME NEW t \in Thread, WalkOn(t) PROVE TwiceKnown'
  BY <1>24 DEF WalkOn
<1>25. ASSUME NEW t \in Thread, WalkFinds(t) PROVE TwiceKnown'
  BY <1>25 DEF WalkFinds, Unlock, Return
<1>26. ASSUME NEW t \in Thread, WalkMisses(t) PROVE TwiceKnown'
  BY <1>26 DEF WalkMisses, Unlock, Return
<1>27. ASSUME NEW t \in Thread, CollectLoop(t) PROVE TwiceKnown'
  BY <1>27 DEF CollectLoop, Return
<1>28. CASE UNCHANGED vars
  BY <1>28 DEF vars
<1> QED
  BY <1>1, <1>2, <1>3, <1>4, <1>5, <1>6, <1>7, <1>8, <1>9, <1>10, <1>11, <1>12, <1>13, <1>14, <1>15, <1>16, <1>17, <1>18, <1>19, <1>20, <1>21, <1>22, <1>23, <1>24, <1>25, <1>26, <1>27, <1>28 DEF Next, Call, Step, AllocStep, ReleaseStep, WalkStep
\* Link and Unlink keep neighbours naming each other; nothing else touches the
\* pointers of a block that is on the list.
LEMMA DoublyStep == Types /\ Types' /\ Phases /\ Separate /\ Doubly /\ [Next]_vars => Doubly'
<1> SUFFICES ASSUME Types, Types', Phases, Separate, Doubly, [Next]_vars PROVE Doubly'
  OBVIOUS
<1> USE ObjAssumption, ThreadAssumption DEF Types, Doubly, OnList, NewPCs, DyingPCs, ClaimPCs, AllocPCs, Goto, list, dll, call, Ptr
<1>1. ASSUME NEW t \in Thread, LoadModule(t) PROVE Doubly'
  BY <1>1 DEF LoadModule, AllIdle, Begin
<1>2. ASSUME NEW t \in Thread, Alloc(t) PROVE Doubly'
  BY <1>2 DEF Alloc, Runs, Begin
<1>3. ASSUME NEW t \in Thread, HeapFree(t) PROVE Doubly'
  BY <1>3 DEF HeapFree, Runs, Free2Go, Begin
<1>4. ASSUME NEW t \in Thread, SecondHeapFree(t) PROVE Doubly'
  BY <1>4 DEF SecondHeapFree, Runs, AllIdle, Begin
<1>5. ASSUME NEW t \in Thread, GlobalFree(t) PROVE Doubly'
  BY <1>5 DEF GlobalFree, Runs, Free2Go, Begin
<1>6. ASSUME NEW t \in Thread, HeapReAlloc(t) PROVE Doubly'
  BY <1>6 DEF HeapReAlloc, Runs, Free2Go, Begin
<1>7. ASSUME NEW t \in Thread, GlobalSize(t) PROVE Doubly'
  BY <1>7 DEF GlobalSize, Runs, Begin
<1>8. ASSUME NEW t \in Thread, Collect(t) PROVE Doubly'
  BY <1>8 DEF Collect, AllIdle, Begin
<1>9. ASSUME NEW t \in Thread, Malloc(t) PROVE Doubly'
  BY <1>9 DEF Malloc
<1>10. ASSUME NEW t \in Thread, MallocFails(t) PROVE Doubly'
  BY <1>10 DEF MallocFails, Return
<1>11. ASSUME NEW t \in Thread, TestEmpty(t) PROVE Doubly'
  BY <1>11 DEF TestEmpty
<1>12. ASSUME NEW t \in Thread, InitMutex(t) PROVE Doubly'
  BY <1>12 DEF InitMutex
<1>13. ASSUME NEW t \in Thread, LockFirst(t) PROVE Doubly'
  BY <1>13 DEF LockFirst, Lock
<1>14. ASSUME NEW t \in Thread, LockLink(t) PROVE Doubly'
  BY <1>14 DEF LockLink, Lock
<1>15. ASSUME NEW t \in Thread, Link(t) PROVE Doubly'
  <2>1. blk[t] \in Obj /\ ~OnList(blk[t]) /\ Has(t, blk[t])
    BY <1>15 DEF Link, Separate, Has
  <2>2. \A b \in Obj : OnList(b)' <=> b = blk[t] \/ OnList(b)
    BY <1>15, <2>1 DEF Link, Separate, Has
  <2>3. pc[t] = "first" => last_alloc = None
    BY <1>15 DEF Link, Phases, AllIdle
  <2> HIDE DEF OnList
  <2>4. prev' = [prev EXCEPT ![blk[t]] = last_alloc] /\ last_alloc' = blk[t]
    BY <1>15 DEF Link
  <2>5. CASE last_alloc = None
    <3>1. next' = [next EXCEPT ![blk[t]] = None]
      BY <1>15, <2>5 DEF Link
    <3> QED
      BY <2>1, <2>2, <2>4, <2>5, <3>1
  <2>6. CASE last_alloc # None
    <3>1. next' = [next EXCEPT ![last_alloc] = blk[t], ![blk[t]] = None]
      BY <1>15, <2>3, <2>6 DEF Link
    <3> QED
      BY <2>1, <2>2, <2>4, <2>6, <3>1
  <2> QED
    BY <2>5, <2>6
<1>16. ASSUME NEW t \in Thread, Stamp(t) PROVE Doubly'
  BY <1>16 DEF Stamp, Return
<1>17. ASSUME NEW t \in Thread, Check(t) PROVE Doubly'
  BY <1>17 DEF Check, EndRelease, Stay, Return
<1>18. ASSUME NEW t \in Thread, LockUnlink(t) PROVE Doubly'
  BY <1>18 DEF LockUnlink, Lock
<1>19. ASSUME NEW t \in Thread, Unlink(t) PROVE Doubly'
  <2>1. blk[t] \in Obj /\ OnList(blk[t])
    BY <1>19 DEF Unlink, Separate, Has
  <2>2. \A b \in Obj : OnList(b)' <=> b # blk[t] /\ OnList(b)
    BY <1>19, <2>1 DEF Unlink, Separate, Has
  <2> HIDE DEF OnList
  <2>3. PICK b \in Obj, p \in Ptr, n \in Ptr :
          b = blk[t] /\ p = prev[b] /\ n = next[b]
    BY <2>1
  <2>4. /\ next' = IF p = None THEN next ELSE [next EXCEPT ![p] = n]
        /\ prev' = IF n = None THEN prev ELSE [prev EXCEPT ![n] = p]
        /\ last_alloc' = IF last_alloc = b THEN p ELSE last_alloc
    BY <1>19, <2>3 DEF Unlink
  <2> HIDE DEF Goto, list
  <2>5. \A c \in Obj : c # n => prev'[c] = prev[c]
    BY <2>4
  <2>6. \A c \in Obj : c # p => next'[c] = next[c]
    BY <2>4
  <2>7. n # None => prev'[n] = p /\ OnList(n) /\ prev[n] = b
    BY <2>1, <2>3, <2>4
  <2>8. p # None => next'[p] = n /\ OnList(p) /\ next[p] = b
    BY <2>1, <2>3, <2>4
  <2>9. last_alloc' # None => OnList(last_alloc)'
    BY <2>1, <2>2, <2>3, <2>4, <2>8
  <2>10. ASSUME NEW c \in Obj, OnList(c), c # b
         PROVE  /\ prev'[c] # None => OnList(prev'[c]) /\ prev'[c] # b /\ next'[prev'[c]] = c
                /\ next'[c] # None => OnList(next'[c]) /\ next'[c] # b /\ prev'[next'[c]] = c
                /\ next'[c] = None <=> c = last_alloc'
                /\ prev'[c] = None => last_alloc' # None
    BY <2>1, <2>3, <2>4, <2>5, <2>6, <2>7, <2>8, <2>10
  <2>11. ASSUME NEW c \in Obj, OnList(c), c # b, prev'[c] = None,
                NEW d \in Obj, OnList(d), d # b, prev'[d] = None
         PROVE  c = d
    BY <2>1, <2>3, <2>4, <2>5, <2>7, <2>11
  <2> QED
    BY <2>2, <2>3, <2>9, <2>10, <2>11
<1>20. ASSUME NEW t \in Thread, TestLast(t) PROVE Doubly'
  BY <1>20 DEF TestLast
<1>21. ASSUME NEW t \in Thread, DestroyMutex(t) PROVE Doubly'
  BY <1>21 DEF DestroyMutex
<1>22. ASSUME NEW t \in Thread, Free(t) PROVE Doubly'
  BY <1>22 DEF Free, EndRelease, NextToLast, Stay, Return
<1>23. ASSUME NEW t \in Thread, LockWalk(t) PROVE Doubly'
  BY <1>23 DEF LockWalk, Lock
<1>24. ASSUME NEW t \in Thread, WalkOn(t) PROVE Doubly'
  BY <1>24 DEF WalkOn
<1>25. ASSUME NEW t \in Thread, WalkFinds(t) PROVE Doubly'
  BY <1>25 DEF WalkFinds, Unlock, Return
<1>26. ASSUME NEW t \in Thread, WalkMisses(t) PROVE Doubly'
  BY <1>26 DEF WalkMisses, Unlock, Return
<1>27. ASSUME NEW t \in Thread, CollectLoop(t) PROVE Doubly'
  BY <1>27 DEF CollectLoop, Return
<1>28. CASE UNCHANGED vars
  BY <1>28 DEF vars
<1> QED
  BY <1>1, <1>2, <1>3, <1>4, <1>5, <1>6, <1>7, <1>8, <1>9, <1>10, <1>11, <1>12, <1>13, <1>14, <1>15, <1>16, <1>17, <1>18, <1>19, <1>20, <1>21, <1>22, <1>23, <1>24, <1>25, <1>26, <1>27, <1>28 DEF Next, Call, Step, AllocStep, ReleaseStep, WalkStep
\* While DLL code runs the anchor stays the oldest block: every other one has a
\* prev to hand last_alloc to, so that the list is never empty.
LEMMA PhasesStep == Anchored /\ Types /\ MutexOK /\ Phases /\ Doubly /\ Separate /\ TwiceKnown /\ [Next]_vars => Phases'
<1> SUFFICES ASSUME Anchored, Types, MutexOK, Phases, Doubly, Separate, TwiceKnown, [Next]_vars PROVE Phases'
  OBVIOUS
<1> USE ObjAssumption, ThreadAssumption DEF Types, Phases, AllIdle, NewPCs, DyingPCs, ClaimPCs, AllocPCs, Goto, list, dll, call, Ptr
<1>1. ASSUME NEW t \in Thread, LoadModule(t) PROVE Phases'
  BY <1>1 DEF LoadModule, AllIdle, Begin
<1>2. ASSUME NEW t \in Thread, Alloc(t) PROVE Phases'
  BY <1>2 DEF Alloc, Runs, Begin
<1>3. ASSUME NEW t \in Thread, HeapFree(t) PROVE Phases'
  BY <1>3 DEF HeapFree, Runs, Free2Go, Begin
<1>4. ASSUME NEW t \in Thread, SecondHeapFree(t) PROVE Phases'
  BY <1>4 DEF SecondHeapFree, Runs, AllIdle, Begin
<1>5. ASSUME NEW t \in Thread, GlobalFree(t) PROVE Phases'
  BY <1>5 DEF GlobalFree, Runs, Free2Go, Begin
<1>6. ASSUME NEW t \in Thread, HeapReAlloc(t) PROVE Phases'
  BY <1>6 DEF HeapReAlloc, Runs, Free2Go, Begin
<1>7. ASSUME NEW t \in Thread, GlobalSize(t) PROVE Phases'
  BY <1>7 DEF GlobalSize, Runs, Begin
<1>8. ASSUME NEW t \in Thread, Collect(t) PROVE Phases'
  BY <1>8 DEF Collect, AllIdle, Begin
<1>9. ASSUME NEW t \in Thread, Malloc(t) PROVE Phases'
  BY <1>9 DEF Malloc
<1>10. ASSUME NEW t \in Thread, MallocFails(t) PROVE Phases'
  BY <1>10 DEF MallocFails, Return
<1>11. ASSUME NEW t \in Thread, TestEmpty(t) PROVE Phases'
  BY <1>11 DEF TestEmpty
<1>12. ASSUME NEW t \in Thread, InitMutex(t) PROVE Phases'
  BY <1>12 DEF InitMutex
<1>13. ASSUME NEW t \in Thread, LockFirst(t) PROVE Phases'
  BY <1>13 DEF LockFirst, Lock
<1>14. ASSUME NEW t \in Thread, LockLink(t) PROVE Phases'
  BY <1>14 DEF LockLink, Lock
<1>15. ASSUME NEW t \in Thread, Link(t) PROVE Phases'
  BY <1>15 DEF Link, Unlock, Separate, Has
<1>16. ASSUME NEW t \in Thread, Stamp(t) PROVE Phases'
  <2>1. blk[t] \in Obj
    BY <1>16 DEF Stamp, Return, Separate, Has
  <2>2. CASE op[t] = "HeapReAlloc"
    BY <1>16, <2>1, <2>2 DEF Stamp
  <2>3. CASE op[t] = "load"
    BY <1>16, <2>1, <2>3 DEF Stamp, Return
  <2>4. CASE op[t] \notin {"HeapReAlloc", "load"}
    BY <1>16, <2>1, <2>4 DEF Stamp, Return
  <2> QED
    BY <2>2, <2>3, <2>4
<1>17. ASSUME NEW t \in Thread, Check(t) PROVE Phases'
  BY <1>17 DEF Check, EndRelease, Stay, Return
<1>18. ASSUME NEW t \in Thread, LockUnlink(t) PROVE Phases'
  BY <1>18 DEF LockUnlink, Lock
<1>19. ASSUME NEW t \in Thread, Unlink(t) PROVE Phases'
  <2>1. blk[t] \in Obj /\ OnList(blk[t]) /\ blk[t] \notin given
    BY <1>19 DEF Unlink, Separate, Has, OnList
  <2>2. CASE loaded = "running"
    BY <1>19, <2>1, <2>2 DEF Unlink, Unlock, Doubly, OnList, Separate, Has
  <2>3. CASE loaded # "running"
    BY <1>19, <2>1, <2>3 DEF Unlink, Unlock
  <2> QED
    BY <2>2, <2>3
<1>20. ASSUME NEW t \in Thread, TestLast(t) PROVE Phases'
  BY <1>20 DEF TestLast
<1>21. ASSUME NEW t \in Thread, DestroyMutex(t) PROVE Phases'
  BY <1>21 DEF DestroyMutex
<1>22. ASSUME NEW t \in Thread, Free(t) PROVE Phases'
  BY <1>22 DEF Free, EndRelease, NextToLast, Stay, Return
<1>23. ASSUME NEW t \in Thread, LockWalk(t) PROVE Phases'
  BY <1>23 DEF LockWalk, Lock
<1>24. ASSUME NEW t \in Thread, WalkOn(t) PROVE Phases'
  BY <1>24 DEF WalkOn
<1>25. ASSUME NEW t \in Thread, WalkFinds(t) PROVE Phases'
  BY <1>25 DEF WalkFinds, Unlock, Return
<1>26. ASSUME NEW t \in Thread, WalkMisses(t) PROVE Phases'
  BY <1>26 DEF WalkMisses, Unlock, Return
<1>27. ASSUME NEW t \in Thread, CollectLoop(t) PROVE Phases'
  BY <1>27 DEF CollectLoop, Return
<1>28. CASE UNCHANGED vars
  BY <1>28 DEF vars
<1> QED
  BY <1>1, <1>2, <1>3, <1>4, <1>5, <1>6, <1>7, <1>8, <1>9, <1>10, <1>11, <1>12, <1>13, <1>14, <1>15, <1>16, <1>17, <1>18, <1>19, <1>20, <1>21, <1>22, <1>23, <1>24, <1>25, <1>26, <1>27, <1>28 DEF Next, Call, Step, AllocStep, ReleaseStep, WalkStep
\* memmut belongs to the thread between lock and unlock, and is only destroyed
\* with the list empty.
LEMMA MutexStep == Types /\ MutexOK /\ Phases /\ Doubly /\ Separate /\ [Next]_vars => MutexOK'
<1> SUFFICES ASSUME Types, MutexOK, Phases, Doubly, Separate, [Next]_vars PROVE MutexOK'
  OBVIOUS
<1> USE ObjAssumption, ThreadAssumption DEF Types, MutexOK, Phases, AllIdle, NewPCs, DyingPCs, ClaimPCs, AllocPCs, Goto, list, dll, call, Ptr
<1>1. ASSUME NEW t \in Thread, LoadModule(t) PROVE MutexOK'
  BY <1>1 DEF LoadModule, AllIdle, Begin
<1>2. ASSUME NEW t \in Thread, Alloc(t) PROVE MutexOK'
  BY <1>2 DEF Alloc, Runs, Begin
<1>3. ASSUME NEW t \in Thread, HeapFree(t) PROVE MutexOK'
  BY <1>3 DEF HeapFree, Runs, Free2Go, Begin
<1>4. ASSUME NEW t \in Thread, SecondHeapFree(t) PROVE MutexOK'
  BY <1>4 DEF SecondHeapFree, Runs, AllIdle, Begin
<1>5. ASSUME NEW t \in Thread, GlobalFree(t) PROVE MutexOK'
  BY <1>5 DEF GlobalFree, Runs, Free2Go, Begin
<1>6. ASSUME NEW t \in Thread, HeapReAlloc(t) PROVE MutexOK'
  BY <1>6 DEF HeapReAlloc, Runs, Free2Go, Begin
<1>7. ASSUME NEW t \in Thread, GlobalSize(t) PROVE MutexOK'
  BY <1>7 DEF GlobalSize, Runs, Begin
<1>8. ASSUME NEW t \in Thread, Collect(t) PROVE MutexOK'
  BY <1>8 DEF Collect, AllIdle, Begin
<1>9. ASSUME NEW t \in Thread, Malloc(t) PROVE MutexOK'
  BY <1>9 DEF Malloc
<1>10. ASSUME NEW t \in Thread, MallocFails(t) PROVE MutexOK'
  BY <1>10 DEF MallocFails, Return
<1>11. ASSUME NEW t \in Thread, TestEmpty(t) PROVE MutexOK'
  BY <1>11 DEF TestEmpty
<1>12. ASSUME NEW t \in Thread, InitMutex(t) PROVE MutexOK'
  BY <1>12 DEF InitMutex
<1>13. ASSUME NEW t \in Thread, LockFirst(t) PROVE MutexOK'
  BY <1>13 DEF LockFirst, Lock
<1>14. ASSUME NEW t \in Thread, LockLink(t) PROVE MutexOK'
  BY <1>14 DEF LockLink, Lock
<1>15. ASSUME NEW t \in Thread, Link(t) PROVE MutexOK'
  BY <1>15 DEF Link, Unlock
<1>16. ASSUME NEW t \in Thread, Stamp(t) PROVE MutexOK'
  BY <1>16 DEF Stamp, Return
<1>17. ASSUME NEW t \in Thread, Check(t) PROVE MutexOK'
  BY <1>17 DEF Check, EndRelease, Stay, Return
<1>18. ASSUME NEW t \in Thread, LockUnlink(t) PROVE MutexOK'
  BY <1>18 DEF LockUnlink, Lock
<1>19. ASSUME NEW t \in Thread, Unlink(t) PROVE MutexOK'
  BY <1>19 DEF Unlink, Unlock
<1>20. ASSUME NEW t \in Thread, TestLast(t) PROVE MutexOK'
  BY <1>20 DEF TestLast
<1>21. ASSUME NEW t \in Thread, DestroyMutex(t) PROVE MutexOK'
  BY <1>21 DEF DestroyMutex
<1>22. ASSUME NEW t \in Thread, Free(t) PROVE MutexOK'
  BY <1>22 DEF Free, EndRelease, NextToLast, Stay, Return
<1>23. ASSUME NEW t \in Thread, LockWalk(t) PROVE MutexOK'
  BY <1>23 DEF LockWalk, Lock
<1>24. ASSUME NEW t \in Thread, WalkOn(t) PROVE MutexOK'
  BY <1>24 DEF WalkOn
<1>25. ASSUME NEW t \in Thread, WalkFinds(t) PROVE MutexOK'
  BY <1>25 DEF WalkFinds, Unlock, Return
<1>26. ASSUME NEW t \in Thread, WalkMisses(t) PROVE MutexOK'
  BY <1>26 DEF WalkMisses, Unlock, Return
<1>27. ASSUME NEW t \in Thread, CollectLoop(t) PROVE MutexOK'
  BY <1>27 DEF CollectLoop, Return
<1>28. CASE UNCHANGED vars
  BY <1>28 DEF vars
<1> QED
  BY <1>1, <1>2, <1>3, <1>4, <1>5, <1>6, <1>7, <1>8, <1>9, <1>10, <1>11, <1>12, <1>13, <1>14, <1>15, <1>16, <1>17, <1>18, <1>19, <1>20, <1>21, <1>22, <1>23, <1>24, <1>25, <1>26, <1>27, <1>28 DEF Next, Call, Step, AllocStep, ReleaseStep, WalkStep
\* Only Link puts a block on the list, only Unlink takes one off, and both count.
LEMMA ListStep == Types /\ Separate /\ Phases /\ [Next]_vars => ListChange
<1> SUFFICES ASSUME Types, Separate, Phases, [Next]_vars PROVE ListChange
  OBVIOUS
<1> USE ObjAssumption, ThreadAssumption DEF Types, OnList, ListChange, Kept, Added, Removed, Separate, Has, NewPCs, DyingPCs, ClaimPCs, AllocPCs, Goto, list, dll, call, Ptr
<1>1. ASSUME NEW t \in Thread, LoadModule(t) PROVE ListChange
  BY <1>1 DEF LoadModule, AllIdle, Begin, Phases, AllIdle
<1>2. ASSUME NEW t \in Thread, Alloc(t) PROVE ListChange
  BY <1>2 DEF Alloc, Runs, Begin
<1>3. ASSUME NEW t \in Thread, HeapFree(t) PROVE ListChange
  BY <1>3 DEF HeapFree, Runs, Free2Go, Begin
<1>4. ASSUME NEW t \in Thread, SecondHeapFree(t) PROVE ListChange
  BY <1>4 DEF SecondHeapFree, Runs, AllIdle, Begin
<1>5. ASSUME NEW t \in Thread, GlobalFree(t) PROVE ListChange
  BY <1>5 DEF GlobalFree, Runs, Free2Go, Begin
<1>6. ASSUME NEW t \in Thread, HeapReAlloc(t) PROVE ListChange
  BY <1>6 DEF HeapReAlloc, Runs, Free2Go, Begin
<1>7. ASSUME NEW t \in Thread, GlobalSize(t) PROVE ListChange
  BY <1>7 DEF GlobalSize, Runs, Begin
<1>8. ASSUME NEW t \in Thread, Collect(t) PROVE ListChange
  BY <1>8 DEF Collect, AllIdle, Begin, Phases, AllIdle
<1>9. ASSUME NEW t \in Thread, Malloc(t) PROVE ListChange
  BY <1>9 DEF Malloc
<1>10. ASSUME NEW t \in Thread, MallocFails(t) PROVE ListChange
  BY <1>10 DEF MallocFails, Return
<1>11. ASSUME NEW t \in Thread, TestEmpty(t) PROVE ListChange
  BY <1>11 DEF TestEmpty
<1>12. ASSUME NEW t \in Thread, InitMutex(t) PROVE ListChange
  BY <1>12 DEF InitMutex
<1>13. ASSUME NEW t \in Thread, LockFirst(t) PROVE ListChange
  BY <1>13 DEF LockFirst, Lock
<1>14. ASSUME NEW t \in Thread, LockLink(t) PROVE ListChange
  BY <1>14 DEF LockLink, Lock
<1>15. ASSUME NEW t \in Thread, Link(t) PROVE ListChange
  <2>1. blk[t] \in Obj /\ ~OnList(blk[t])
    BY <1>15 DEF Link
  <2>2. \A b \in Obj : OnList(b)' <=> b = blk[t] \/ OnList(b)
    BY <1>15, <2>1 DEF Link
  <2> HIDE DEF OnList
  <2>3. /\ alccnt' = alccnt + 1 /\ last_alloc' = blk[t]
        /\ prev' = [prev EXCEPT ![blk[t]] = last_alloc]
    BY <1>15 DEF Link
  <2> QED
    BY <2>1, <2>2, <2>3
<1>16. ASSUME NEW t \in Thread, Stamp(t) PROVE ListChange
  <2>1. \A u \in Thread \ {t} : pc'[u] = pc[u] /\ op'[u] = op[u] /\ blk'[u] = blk[u] /\ old'[u] = old[u]
    BY <1>16 DEF Stamp, Return
  <2>2. /\ pc[t] = "stamp" /\ pc'[t] \in {"idle", "check"} /\ owned' = owned
        /\ alccnt' = alccnt /\ last_alloc' = last_alloc /\ prev' = prev
    BY <1>16 DEF Stamp, Return
  <2> QED
    BY <2>1, <2>2
<1>17. ASSUME NEW t \in Thread, Check(t) PROVE ListChange
  BY <1>17 DEF Check, EndRelease, Stay, Return
<1>18. ASSUME NEW t \in Thread, LockUnlink(t) PROVE ListChange
  BY <1>18 DEF LockUnlink, Lock
<1>19. ASSUME NEW t \in Thread, Unlink(t) PROVE ListChange
  <2>1. blk[t] \in Obj /\ OnList(blk[t])
    BY <1>19 DEF Unlink
  <2>2. \A b \in Obj : OnList(b)' <=> b # blk[t] /\ OnList(b)
    BY <1>19, <2>1 DEF Unlink
  <2> HIDE DEF OnList
  <2>3. /\ alccnt' = alccnt - 1 /\ last_alloc' = IF last_alloc = blk[t] THEN prev[blk[t]] ELSE last_alloc
        /\ prev' = IF next[blk[t]] = None THEN prev ELSE [prev EXCEPT ![next[blk[t]]] = prev[blk[t]]]
    BY <1>19 DEF Unlink
  <2>4. \A b \in Obj : prev'[b] = IF b = next[blk[t]] THEN prev[blk[t]] ELSE prev[b]
    BY <2>1, <2>3
  <2> QED
    BY <2>1, <2>2, <2>3, <2>4
<1>20. ASSUME NEW t \in Thread, TestLast(t) PROVE ListChange
  BY <1>20 DEF TestLast
<1>21. ASSUME NEW t \in Thread, DestroyMutex(t) PROVE ListChange
  BY <1>21 DEF DestroyMutex
<1>22. ASSUME NEW t \in Thread, Free(t) PROVE ListChange
  <2>1. /\ alccnt' = alccnt /\ last_alloc' = last_alloc
        /\ \A b \in Obj : OnList(b) => prev'[b] = prev[b]
    BY <1>22 DEF Free
  <2>2. CASE op[t] = "collect"
    BY <1>22, <2>1, <2>2 DEF Free, EndRelease, Stay
  <2>3. CASE op[t] # "collect"
    BY <1>22, <2>1, <2>3 DEF Free, EndRelease, Return
  <2> QED
    BY <2>2, <2>3
<1>23. ASSUME NEW t \in Thread, LockWalk(t) PROVE ListChange
  BY <1>23 DEF LockWalk, Lock
<1>24. ASSUME NEW t \in Thread, WalkOn(t) PROVE ListChange
  BY <1>24 DEF WalkOn
<1>25. ASSUME NEW t \in Thread, WalkFinds(t) PROVE ListChange
  BY <1>25 DEF WalkFinds, Unlock, Return
<1>26. ASSUME NEW t \in Thread, WalkMisses(t) PROVE ListChange
  BY <1>26 DEF WalkMisses, Unlock, Return
<1>27. ASSUME NEW t \in Thread, CollectLoop(t) PROVE ListChange
  BY <1>27 DEF CollectLoop, Return, Phases, AllIdle
<1>28. CASE UNCHANGED vars
  BY <1>28 DEF vars
<1> QED
  BY <1>1, <1>2, <1>3, <1>4, <1>5, <1>6, <1>7, <1>8, <1>9, <1>10, <1>11, <1>12, <1>13, <1>14, <1>15, <1>16, <1>17, <1>18, <1>19, <1>20, <1>21, <1>22, <1>23, <1>24, <1>25, <1>26, <1>27, <1>28 DEF Next, Call, Step, AllocStep, ReleaseStep, WalkStep
\* The number of blocks on the list is finite, and changes by the block that
\* is linked or unlinked.
LEMMA CountStep ==
  Types /\ Types' /\ Counted /\ ListChange => Counted'
<1> SUFFICES ASSUME Types, Types', Counted, ListChange PROVE Counted'
  OBVIOUS
<1> USE ObjAssumption
<1>1. Linked = {b \in Obj : OnList(b)} /\ Linked' = {b \in Obj : OnList(b)'}
  BY DEF Types, Linked, OnList, NewPCs, DyingPCs
<1>2. IsFiniteSet(Linked)
  BY <1>1, FS_Subset
<1>3. Cardinality(Linked) \in Nat
  BY <1>2, FS_CardinalityType
<1>4. CASE Kept
  <2>1. Linked' = Linked
    BY <1>1, <1>4 DEF Kept
  <2> QED
    BY <1>4, <2>1 DEF Kept, Counted
<1>5. ASSUME NEW c \in Obj, Added(c) PROVE Counted'
  <2>1. c \notin Linked /\ Linked' = Linked \cup {c}
    BY <1>1, <1>5 DEF Added
  <2>2. Cardinality(Linked') = Cardinality(Linked) + 1
    BY <1>2, <2>1, FS_AddElement
  <2> QED
    BY <1>5, <2>2 DEF Added, Counted
<1>6. ASSUME NEW c \in Obj, Removed(c) PROVE Counted'
  <2>1. c \in Linked /\ Linked' = Linked \ {c}
    BY <1>1, <1>6 DEF Removed
  <2>2. Cardinality(Linked') = Cardinality(Linked) - 1
    BY <1>2, <2>1, FS_RemoveElement
  <2> QED
    BY <1>6, <2>2 DEF Removed, Counted
<1> QED
  BY <1>4, <1>5, <1>6 DEF ListChange

\* Link and Stamp, and Unlink, mark what is on the list.
LEMMA MarkStep == Types /\ Types' /\ Separate /\ Phases /\ Marked /\ [Next]_vars => Marked'
<1> SUFFICES ASSUME Types, Types', Separate, Phases, Marked, [Next]_vars PROVE Marked'
  OBVIOUS
<1> USE ObjAssumption, ThreadAssumption DEF Types, OnList, Seen, Marked, Separate, Has, NewPCs, DyingPCs, ClaimPCs, AllocPCs, Goto, list, dll, call, Ptr
<1>1. ASSUME NEW t \in Thread, LoadModule(t) PROVE Marked'
  BY <1>1 DEF LoadModule, AllIdle, Begin, Phases, AllIdle
<1>2. ASSUME NEW t \in Thread, Alloc(t) PROVE Marked'
  BY <1>2 DEF Alloc, Runs, Begin
<1>3. ASSUME NEW t \in Thread, HeapFree(t) PROVE Marked'
  BY <1>3 DEF HeapFree, Runs, Free2Go, Begin
<1>4. ASSUME NEW t \in Thread, SecondHeapFree(t) PROVE Marked'
  BY <1>4 DEF SecondHeapFree, Runs, AllIdle, Begin
<1>5. ASSUME NEW t \in Thread, GlobalFree(t) PROVE Marked'
  BY <1>5 DEF GlobalFree, Runs, Free2Go, Begin
<1>6. ASSUME NEW t \in Thread, HeapReAlloc(t) PROVE Marked'
  BY <1>6 DEF HeapReAlloc, Runs, Free2Go, Begin
<1>7. ASSUME NEW t \in Thread, GlobalSize(t) PROVE Marked'
  BY <1>7 DEF GlobalSize, Runs, Begin
<1>8. ASSUME NEW t \in Thread, Collect(t) PROVE Marked'
  BY <1>8 DEF Collect, AllIdle, Begin, Phases, AllIdle
<1>9. ASSUME NEW t \in Thread, Malloc(t) PROVE Marked'
  BY <1>9 DEF Malloc
<1>10. ASSUME NEW t \in Thread, MallocFails(t) PROVE Marked'
  BY <1>10 DEF MallocFails, Return
<1>11. ASSUME NEW t \in Thread, TestEmpty(t) PROVE Marked'
  BY <1>11 DEF TestEmpty
<1>12. ASSUME NEW t \in Thread, InitMutex(t) PROVE Marked'
  BY <1>12 DEF InitMutex
<1>13. ASSUME NEW t \in Thread, LockFirst(t) PROVE Marked'
  BY <1>13 DEF LockFirst, Lock
<1>14. ASSUME NEW t \in Thread, LockLink(t) PROVE Marked'
  BY <1>14 DEF LockLink, Lock
<1>15. ASSUME NEW t \in Thread, Link(t) PROVE Marked'
  BY <1>15 DEF Link
<1>16. ASSUME NEW t \in Thread, Stamp(t) PROVE Marked'
  <2>1. /\ pc[t] = "stamp" /\ pc'[t] \in {"idle", "check"} /\ blk[t] \in Obj
        /\ \A u \in Thread \ {t} : pc'[u] = pc[u] /\ blk'[u] = blk[u]
    BY <1>16 DEF Stamp, Return
  <2>2. beef' = beef \cup {blk[t]} /\ owned' = owned
    BY <1>16 DEF Stamp
  <2>3. ASSUME NEW b \in Obj PROVE Seen(b)' <=> Seen(b)
    BY <2>1, <2>2
  <2>4. ASSUME NEW b \in Obj PROVE OnList(b)' <=> OnList(b)
    BY <2>1, <2>2
  <2> HIDE DEF Seen, OnList
  <2> QED
    BY <2>3, <2>4
<1>17. ASSUME NEW t \in Thread, Check(t) PROVE Marked'
  BY <1>17 DEF Check, EndRelease, Stay, Return
<1>18. ASSUME NEW t \in Thread, LockUnlink(t) PROVE Marked'
  BY <1>18 DEF LockUnlink, Lock
<1>19. ASSUME NEW t \in Thread, Unlink(t) PROVE Marked'
  BY <1>19 DEF Unlink, Unlock
<1>20. ASSUME NEW t \in Thread, TestLast(t) PROVE Marked'
  BY <1>20 DEF TestLast
<1>21. ASSUME NEW t \in Thread, DestroyMutex(t) PROVE Marked'
  BY <1>21 DEF DestroyMutex
<1>22. ASSUME NEW t \in Thread, Free(t) PROVE Marked'
  BY <1>22 DEF Free, EndRelease, NextToLast, Stay, Return
<1>23. ASSUME NEW t \in Thread, LockWalk(t) PROVE Marked'
  <2>1. /\ beef' = beef /\ owned' = owned /\ blk' = blk
        /\ \A u \in Thread \ {t} : pc'[u] = pc[u]
        /\ pc[t] = "lockWalk" /\ pc'[t] = "walk"
    BY <1>23 DEF LockWalk, Lock
  <2> QED
    BY <2>1
<1>24. ASSUME NEW t \in Thread, WalkOn(t) PROVE Marked'
  BY <1>24 DEF WalkOn
<1>25. ASSUME NEW t \in Thread, WalkFinds(t) PROVE Marked'
  BY <1>25 DEF WalkFinds, Unlock, Return
<1>26. ASSUME NEW t \in Thread, WalkMisses(t) PROVE Marked'
  BY <1>26 DEF WalkMisses, Unlock, Return
<1>27. ASSUME NEW t \in Thread, CollectLoop(t) PROVE Marked'
  BY <1>27 DEF CollectLoop, Return, Phases, AllIdle
<1>28. CASE UNCHANGED vars
  BY <1>28 DEF vars
<1> QED
  BY <1>1, <1>2, <1>3, <1>4, <1>5, <1>6, <1>7, <1>8, <1>9, <1>10, <1>11, <1>12, <1>13, <1>14, <1>15, <1>16, <1>17, <1>18, <1>19, <1>20, <1>21, <1>22, <1>23, <1>24, <1>25, <1>26, <1>27, <1>28 DEF Next, Call, Step, AllocStep, ReleaseStep, WalkStep

\* What is looked for is not given back meanwhile.
LEMMA WalkersStep == Types /\ Types' /\ Separate /\ Phases /\ Chained /\ [Next]_vars => WalkChange
<1> SUFFICES ASSUME Types, Types', Phases, \A t \in Thread : Walking(t) => old[t] \in given, [Next]_vars PROVE WalkChange
  BY DEF Chained, Walked
<1> USE ObjAssumption, ThreadAssumption DEF Types, Walking, WalkChange, Goto, list, dll, call, Ptr
<1>1. ASSUME NEW t \in Thread, LoadModule(t) PROVE WalkChange
  BY <1>1 DEF LoadModule, AllIdle, Begin, Phases, AllIdle
<1>2. ASSUME NEW t \in Thread, Alloc(t) PROVE WalkChange
  BY <1>2 DEF Alloc, Runs, Begin
<1>3. ASSUME NEW t \in Thread, HeapFree(t) PROVE WalkChange
  BY <1>3 DEF HeapFree, Runs, Free2Go, Begin
<1>4. ASSUME NEW t \in Thread, SecondHeapFree(t) PROVE WalkChange
  BY <1>4 DEF SecondHeapFree, Runs, AllIdle, Begin
<1>5. ASSUME NEW t \in Thread, GlobalFree(t) PROVE WalkChange
  BY <1>5 DEF GlobalFree, Runs, Free2Go, Begin
<1>6. ASSUME NEW t \in Thread, HeapReAlloc(t) PROVE WalkChange
  BY <1>6 DEF HeapReAlloc, Runs, Free2Go, Begin
<1>7. ASSUME NEW t \in Thread, GlobalSize(t) PROVE WalkChange
  BY <1>7 DEF GlobalSize, Runs, Begin, Phases
<1>8. ASSUME NEW t \in Thread, Collect(t) PROVE WalkChange
  BY <1>8 DEF Collect, AllIdle, Begin, Phases, AllIdle
<1>9. ASSUME NEW t \in Thread, Malloc(t) PROVE WalkChange
  BY <1>9 DEF Malloc
<1>10. ASSUME NEW t \in Thread, MallocFails(t) PROVE WalkChange
  BY <1>10 DEF MallocFails, Return
<1>11. ASSUME NEW t \in Thread, TestEmpty(t) PROVE WalkChange
  BY <1>11 DEF TestEmpty
<1>12. ASSUME NEW t \in Thread, InitMutex(t) PROVE WalkChange
  BY <1>12 DEF InitMutex
<1>13. ASSUME NEW t \in Thread, LockFirst(t) PROVE WalkChange
  BY <1>13 DEF LockFirst, Lock
<1>14. ASSUME NEW t \in Thread, LockLink(t) PROVE WalkChange
  BY <1>14 DEF LockLink, Lock
<1>15. ASSUME NEW t \in Thread, Link(t) PROVE WalkChange
  BY <1>15 DEF Link
<1>16. ASSUME NEW t \in Thread, Stamp(t) PROVE WalkChange
  BY <1>16 DEF Stamp, Return
<1>17. ASSUME NEW t \in Thread, Check(t) PROVE WalkChange
  BY <1>17 DEF Check, EndRelease, Stay, Return
<1>18. ASSUME NEW t \in Thread, LockUnlink(t) PROVE WalkChange
  BY <1>18 DEF LockUnlink, Lock
<1>19. ASSUME NEW t \in Thread, Unlink(t) PROVE WalkChange
  BY <1>19 DEF Unlink, Unlock
<1>20. ASSUME NEW t \in Thread, TestLast(t) PROVE WalkChange
  BY <1>20 DEF TestLast
<1>21. ASSUME NEW t \in Thread, DestroyMutex(t) PROVE WalkChange
  BY <1>21 DEF DestroyMutex
<1>22. ASSUME NEW t \in Thread, Free(t) PROVE WalkChange
  BY <1>22 DEF Free, EndRelease, NextToLast, Stay, Return
<1>23. ASSUME NEW t \in Thread, LockWalk(t) PROVE WalkChange
  BY <1>23 DEF LockWalk, Lock
<1>24. ASSUME NEW t \in Thread, WalkOn(t) PROVE WalkChange
  BY <1>24 DEF WalkOn
<1>25. ASSUME NEW t \in Thread, WalkFinds(t) PROVE WalkChange
  BY <1>25 DEF WalkFinds, Unlock, Return
<1>26. ASSUME NEW t \in Thread, WalkMisses(t) PROVE WalkChange
  BY <1>26 DEF WalkMisses, Unlock, Return
<1>27. ASSUME NEW t \in Thread, CollectLoop(t) PROVE WalkChange
  BY <1>27 DEF CollectLoop, Return, Phases, AllIdle
<1>28. CASE UNCHANGED vars
  BY <1>28 DEF vars
<1> QED
  BY <1>1, <1>2, <1>3, <1>4, <1>5, <1>6, <1>7, <1>8, <1>9, <1>10, <1>11, <1>12, <1>13, <1>14, <1>15, <1>16, <1>17, <1>18, <1>19, <1>20, <1>21, <1>22, <1>23, <1>24, <1>25, <1>26, <1>27, <1>28 DEF Next, Call, Step, AllocStep, ReleaseStep, WalkStep

\* What is next to a block on the list.
LEMMA ChainNext ==
  ASSUME Types, Doubly, NEW s \in Seq(Obj), ListedBy(s), NEW k \in 1..Len(s)
  PROVE  next[s[k]] = IF k = Len(s) THEN None ELSE s[k + 1]
<1>1. Len(s) \in Nat /\ k \in Nat /\ s[k] \in Obj /\ OnList(s[k])
  BY DEF ListedBy
<1>2. CASE k = Len(s)
  <2>1. s[k] = last_alloc
    BY <1>1, <1>2 DEF ListedBy
  <2> QED
    BY <1>1, <1>2, <2>1 DEF Doubly
<1>3. CASE k # Len(s)
  <2>1. k + 1 \in 1..Len(s) /\ k + 1 # 1 /\ (k + 1) - 1 = k
    BY <1>1, <1>3
  <2>2. s[k + 1] \in Obj /\ OnList(s[k + 1]) /\ prev[s[k + 1]] = s[k]
    BY <2>1 DEF ListedBy
  <2>3. s[k] # None
    BY <1>1, ObjAssumption
  <2> QED
    BY <1>3, <2>2, <2>3 DEF Doubly
<1> QED
  BY <1>2, <1>3

\* The order of the blocks is kept by what a step does to the list.
LEMMA ChainStep ==
  ASSUME Types, Separate, Doubly, Marked, Chained, Types', Separate', ListChange, WalkChange
  PROVE  Chained'
<1>1. PICK s \in Seq(Obj) : ListedBy(s) /\ Walked(s)
  BY DEF Chained
<1> DEFINE n == Len(s)
<1>2. n \in Nat /\ \A i \in 1..n : s[i] \in Obj
  OBVIOUS
<1>3. /\ \A b \in given : b \in Obj /\ OnList(b)
      /\ \A b \in given' : b \in Obj /\ OnList(b)'
  <2>1. given \subseteq Obj /\ given' \subseteq Obj
    BY DEF Types
  <2>2. ASSUME NEW b \in given PROVE OnList(b)
    BY <2>1, <2>2 DEF Separate, Has, OnList, Ptr
  <2>3. ASSUME NEW b \in given' PROVE OnList(b)'
    BY <2>1, <2>3 DEF Separate, Has, OnList, Ptr
  <2> QED
    BY <2>1, <2>2, <2>3
\* Where each thread looks next, in the list as it was.
<1>4. ASSUME NEW t \in Thread, Walking(t)'
      PROVE  old'[t] \in given' /\ blk'[t] \in Obj /\ NotBefore(s, blk'[t], old'[t])
  <2>1. CASE Walking(t) /\ old'[t] = old[t] /\ blk'[t] = blk[t]
    BY <1>1, <1>4, <2>1 DEF Walked, WalkChange
  <2>2. CASE last_alloc # None /\ blk'[t] = last_alloc /\ old'[t] \in given
    <3>1. n # 0 /\ n \in 1..n /\ blk'[t] = s[n]
      BY <1>1, <1>2, <2>2 DEF ListedBy
    <3>2. PICK j \in 1..n : s[j] = old'[t]
      BY <1>1, <1>3, <2>2 DEF ListedBy
    <3>3. \A i \in 1..n : s[i] = s[n] => i = n
      BY <1>1, <3>1 DEF ListedBy
    <3>4. NotBefore(s, s[n], old'[t])
      BY <3>2, <3>3 DEF NotBefore
    <3> QED
      BY <1>2, <1>4, <3>1, <3>4 DEF WalkChange
  <2>3. CASE Walking(t) /\ old'[t] = old[t] /\ blk[t] \in beef \ {old[t]} /\ blk'[t] = prev[blk[t]]
    <3>1. blk[t] \in Obj /\ OnList(blk[t])
      BY <2>3 DEF Types, Marked, Seen
    <3>2. PICK i \in 1..n : s[i] = blk[t]
      BY <1>1, <3>1 DEF ListedBy
    <3>3. PICK j \in 1..i : s[j] = old[t]
      BY <1>1, <2>3, <3>2 DEF Walked, NotBefore
    <3>4. j # i
      BY <2>3, <3>2, <3>3
    <3>5. i # 1 /\ i - 1 \in 1..n /\ j \in 1..(i - 1)
      BY <1>2, <3>2, <3>3, <3>4
    <3>6. blk'[t] = s[i - 1]
      BY <1>1, <2>3, <3>2, <3>5 DEF ListedBy
    <3>7. \A m \in 1..n : s[m] = s[i - 1] => m = i - 1
      BY <1>1, <3>5 DEF ListedBy
    <3>8. NotBefore(s, s[i - 1], old[t])
      BY <3>3, <3>5, <3>7 DEF NotBefore
    <3> QED
      BY <1>2, <1>4, <2>3, <3>5, <3>6, <3>8 DEF WalkChange
  <2> QED
    BY <1>4, <2>1, <2>2, <2>3 DEF WalkChange
<1>5. CASE Kept
  <2>1. \A i \in 1..n : OnList(s[i])' /\ prev'[s[i]] = prev[s[i]]
    BY <1>1, <1>2, <1>5 DEF ListedBy, Kept
  <2>2. ListedBy(s)'
    BY <1>1, <1>5, <2>1 DEF ListedBy, Kept
  <2>3. Walked(s)'
    BY <1>4 DEF Walked
  <2> QED
    BY <2>2, <2>3 DEF Chained
<1>6. ASSUME NEW c \in Obj, Added(c) PROVE Chained'
  <2>1. PICK r : r = Append(s, c)
    OBVIOUS
  <2>2. r \in Seq(Obj) /\ Len(r) = n + 1 /\ r[n + 1] = c /\ \A i \in 1..n : r[i] = s[i]
    BY <2>1
  <2>3. \A i \in 1..(n + 1) : i \in 1..n \/ i = n + 1
    BY <1>2
  <2>4. \A i \in 1..n : s[i] # c
    BY <1>1, <1>6 DEF ListedBy, Added
  <2>5. \A i \in 1..(n + 1) : OnList(r[i])'
    BY <1>1, <1>2, <1>6, <2>2, <2>3 DEF ListedBy, Added
  <2>6. ASSUME NEW i \in 1..(n + 1) PROVE prev'[r[i]] = IF i = 1 THEN None ELSE r[i - 1]
    <3>1. CASE i \in 1..n
      <4>1. r[i] = s[i] /\ prev'[s[i]] = prev[s[i]] /\ prev[s[i]] = IF i = 1 THEN None ELSE s[i - 1]
        BY <1>1, <1>2, <1>6, <2>2, <3>1 DEF ListedBy, Added
      <4>2. i # 1 => r[i - 1] = s[i - 1]
        BY <1>2, <2>2, <3>1
      <4> QED
        BY <4>1, <4>2
    <3>2. CASE i = n + 1
      <4>1. r[i] = c /\ prev'[c] = IF n = 0 THEN None ELSE s[n]
        BY <1>1, <1>6, <2>2, <3>2 DEF ListedBy, Added
      <4>2. n # 0 => r[i - 1] = s[n]
        BY <1>2, <2>2, <3>2
      <4> QED
        BY <1>2, <3>2, <4>1, <4>2
    <3> QED
      BY <2>3, <3>1, <3>2
  <2>7. ASSUME NEW b \in Obj, OnList(b)' PROVE \E i \in 1..(n + 1) : r[i] = b
    <3>1. CASE b = c
      BY <1>2, <2>2, <3>1
    <3>2. CASE b # c
      <4>1. PICK i \in 1..n : s[i] = b
        BY <1>1, <1>6, <2>7, <3>2 DEF ListedBy, Added
      <4>2. i \in 1..(n + 1) /\ r[i] = b
        BY <1>2, <2>2, <4>1
      <4> QED
        BY <4>2
    <3> QED
      BY <3>1, <3>2
  <2>8. \A i, j \in 1..(n + 1) : r[i] = r[j] => i = j
    <3>1. \A i, j \in 1..n : s[i] = s[j] => i = j
      BY <1>1 DEF ListedBy
    <3> QED
      BY <2>2, <2>3, <2>4, <3>1
  <2>9. last_alloc' = IF Len(r) = 0 THEN None ELSE r[Len(r)]
    BY <1>2, <1>6, <2>2 DEF Added
  <2>10. ListedBy(r)'
    BY <2>2, <2>5, <2>6, <2>7, <2>8, <2>9 DEF ListedBy
  <2>11. ASSUME NEW b, NEW o \in Obj, OnList(o)', NotBefore(s, b, o) PROVE NotBefore(r, b, o)
    <3>1. ASSUME NEW i \in 1..(n + 1), r[i] = b PROVE \E j \in 1..i : r[j] = o
      <4>1. CASE i \in 1..n
        <5>1. PICK j \in 1..i : s[j] = o
          BY <2>2, <2>11, <3>1, <4>1 DEF NotBefore
        <5>2. j \in 1..n
          BY <1>2, <4>1, <5>1
        <5> QED
          BY <2>2, <5>1, <5>2
      <4>2. CASE i = n + 1
        BY <2>7, <2>11, <4>2
      <4> QED
        BY <2>3, <4>1, <4>2
    <3> QED
      BY <2>2, <3>1 DEF NotBefore
  <2>12. Walked(r)'
    BY <1>3, <1>4, <2>11 DEF Walked
  <2> QED
    BY <2>2, <2>10, <2>12 DEF Chained
<1>7. ASSUME NEW c \in Obj, Removed(c) PROVE Chained'
  <2>1. PICK k \in 1..n : s[k] = c
    BY <1>1, <1>7 DEF ListedBy, Removed
  <2>2. PICK r : r = SubSeq(s, 1, k - 1) \o SubSeq(s, k + 1, n)
    OBVIOUS
  <2>3. r \in Seq(Obj) /\ Without(r, s, k)
    BY <2>2, RemovedAt
  <2>4. k \in Nat /\ 1 <= k /\ k <= n /\ Len(r) = n - 1
    BY <1>2, <2>3 DEF Without
  <2>5. ASSUME NEW j \in 1..(n - 1)
        PROVE  /\ j < k => j \in 1..n /\ r[j] = s[j]
               /\ ~(j < k) => j + 1 \in 1..n /\ j + 1 # 1 /\ (j + 1) - 1 = j /\ r[j] = s[j + 1]
    BY <1>2, <2>3, <2>4 DEF Without
  <2>6. \A i, j \in 1..n : s[i] = s[j] => i = j
    BY <1>1 DEF ListedBy
  <2>7. next[c] = IF k = n THEN None ELSE s[k + 1]
    BY <1>1, <2>1, ChainNext
  <2>8. prev[c] = IF k = 1 THEN None ELSE s[k - 1]
    BY <1>1, <2>1 DEF ListedBy
  <2>9. \A i \in 1..n : OnList(s[i]) /\ prev[s[i]] = IF i = 1 THEN None ELSE s[i - 1]
    BY <1>1 DEF ListedBy
  <2>10. \A i \in 1..n : i # k => OnList(s[i])'
    BY <1>2, <1>7, <2>1, <2>6, <2>9 DEF Removed
  <2>11. \A i \in 1..n : prev'[s[i]] = IF s[i] = next[c] THEN prev[c] ELSE prev[s[i]]
    BY <1>2, <1>7, <2>9 DEF Removed
  <2>12. ASSUME NEW j \in 1..(n - 1)
         PROVE  OnList(r[j])' /\ prev'[r[j]] = IF j = 1 THEN None ELSE r[j - 1]
    <3>1. CASE j < k
      <4>1. j \in 1..n /\ j # k /\ r[j] = s[j] /\ j \in Nat
        BY <2>4, <2>5, <3>1
      <4>2. s[j] # next[c]
        <5>1. CASE k = n
          BY <1>2, <2>7, <4>1, <5>1, ObjAssumption
        <5>2. CASE k # n
          <6>1. k + 1 \in 1..n /\ k + 1 # j
            BY <1>2, <2>4, <3>1, <4>1, <5>2
          <6> QED
            BY <2>6, <2>7, <4>1, <5>2, <6>1
        <5> QED
          BY <5>1, <5>2
      <4>3. j # 1 => j - 1 \in 1..(n - 1) /\ j - 1 < k
        BY <2>4, <3>1, <4>1
      <4>4. j # 1 => r[j - 1] = s[j - 1]
        BY <2>5, <4>3
      <4> QED
        BY <2>9, <2>10, <2>11, <4>1, <4>2, <4>4
    <3>2. CASE j = k
      <4>1. ~(j < k) /\ j \in Nat
        BY <2>4, <3>2
      <4>2. j + 1 \in 1..n /\ r[j] = s[j + 1] /\ j + 1 # k /\ k # n
        BY <1>2, <2>4, <2>5, <3>2, <4>1
      <4>3. prev'[r[j]] = prev[c]
        BY <2>7, <2>11, <3>2, <4>2
      <4>4. j # 1 => j - 1 \in 1..(n - 1) /\ j - 1 < k
        BY <2>4, <3>2, <4>1
      <4>5. j # 1 => r[j - 1] = s[j - 1]
        BY <2>5, <4>4
      <4> QED
        BY <2>8, <2>10, <3>2, <4>2, <4>3, <4>5
    <3>3. CASE ~(j < k) /\ j # k
      <4>1. j + 1 \in 1..n /\ r[j] = s[j + 1] /\ j + 1 # k /\ j + 1 # 1 /\ (j + 1) - 1 = j
        BY <1>2, <2>4, <2>5, <3>3
      <4>2. s[j + 1] # next[c]
        <5>1. CASE k = n
          BY <1>2, <2>7, <4>1, <5>1, ObjAssumption
        <5>2. CASE k # n
          <6>1. k + 1 \in 1..n /\ k + 1 # j + 1
            BY <1>2, <2>4, <3>3, <5>2
          <6> QED
            BY <2>6, <2>7, <4>1, <5>2, <6>1
        <5> QED
          BY <5>1, <5>2
      <4>3. prev'[r[j]] = s[j]
        BY <2>9, <2>11, <4>1, <4>2
      <4>4. j - 1 \in 1..(n - 1) /\ ~(j - 1 < k) /\ (j - 1) + 1 = j /\ j # 1
        BY <2>4, <3>3
      <4>5. r[j - 1] = s[j]
        BY <2>5, <4>4
      <4> QED
        BY <2>10, <4>1, <4>3, <4>4, <4>5
    <3> QED
      BY <3>1, <3>2, <3>3
  <2>13. ASSUME NEW b \in Obj, OnList(b)' PROVE \E j \in 1..(n - 1) : r[j] = b
    <3>1. PICK i \in 1..n : s[i] = b
      BY <1>1, <1>7, <2>13 DEF ListedBy, Removed
    <3>2. i # k
      BY <1>7, <2>1, <2>13, <3>1 DEF Removed
    <3>3. CASE i < k
      <4>1. i \in 1..(n - 1)
        BY <1>2, <2>4, <3>3
      <4> QED
        BY <2>5, <3>1, <3>3, <4>1
    <3>4. CASE ~(i < k)
      <4>1. i - 1 \in 1..(n - 1) /\ ~(i - 1 < k) /\ (i - 1) + 1 = i
        BY <1>2, <2>4, <3>2, <3>4
      <4>2. r[i - 1] = s[i]
        BY <2>5, <4>1
      <4> QED
        BY <3>1, <4>1, <4>2
    <3> QED
      BY <3>3, <3>4
  <2>14. ASSUME NEW i \in 1..(n - 1), NEW j \in 1..(n - 1), r[i] = r[j] PROVE i = j
    <3>1. PICK a \in 1..n : r[i] = s[a] /\ a = IF i < k THEN i ELSE i + 1
      BY <2>5
    <3>2. PICK b \in 1..n : r[j] = s[b] /\ b = IF j < k THEN j ELSE j + 1
      BY <2>5
    <3>3. a = b
      BY <2>6, <2>14, <3>1, <3>2
    <3> QED
      BY <1>2, <2>4, <3>1, <3>2, <3>3
  <2>15. last_alloc' = IF Len(r) = 0 THEN None ELSE r[Len(r)]
    <3>1. n # 0 /\ last_alloc = s[n] /\ n \in 1..n
      BY <1>1, <1>2, <2>4 DEF ListedBy
    <3>2. CASE k = n
      <4>1. last_alloc' = prev[c]
        BY <1>7, <2>1, <3>1, <3>2 DEF Removed
      <4>2. n # 1 => n - 1 \in 1..(n - 1) /\ n - 1 < k
        BY <1>2, <3>1, <3>2
      <4>3. n # 1 => r[n - 1] = s[n - 1]
        BY <2>5, <4>2
      <4> QED
        BY <1>2, <2>4, <2>8, <3>2, <4>1, <4>3
    <3>3. CASE k # n
      <4>1. last_alloc' = s[n]
        BY <1>7, <2>1, <2>6, <3>1, <3>3 DEF Removed
      <4>2. n - 1 \in 1..(n - 1) /\ ~(n - 1 < k) /\ (n - 1) + 1 = n /\ n - 1 # 0
        BY <1>2, <2>4, <3>3
      <4>3. r[n - 1] = s[n]
        BY <2>5, <4>2
      <4> QED
        BY <2>4, <4>1, <4>2, <4>3
    <3> QED
      BY <3>2, <3>3
  <2>16. ListedBy(r)'
    BY <2>4, <2>12, <2>13, <2>14, <2>15 DEF ListedBy
  <2>17. ASSUME NEW b, NEW o \in Obj, OnList(o)', NotBefore(s, b, o) PROVE NotBefore(r, b, o)
    <3>1. ASSUME NEW j \in 1..(n - 1), r[j] = b PROVE \E l \in 1..j : r[l] = o
      <4>1. PICK a \in 1..n : r[j] = s[a] /\ a = IF j < k THEN j ELSE j + 1
        BY <2>5
      <4>2. PICK m \in 1..a : s[m] = o
        BY <2>17, <3>1, <4>1 DEF NotBefore
      <4>3. m # k
        BY <1>7, <2>1, <2>17, <4>2 DEF Removed
      <4>4. CASE m < k
        <5>1. m \in 1..j /\ m \in 1..(n - 1)
          BY <1>2, <2>4, <3>1, <4>1, <4>2, <4>4
        <5> QED
          BY <2>5, <4>2, <4>4, <5>1
      <4>5. CASE ~(m < k)
        <5>1. m - 1 \in 1..j /\ m - 1 \in 1..(n - 1) /\ ~(m - 1 < k) /\ (m - 1) + 1 = m
          BY <1>2, <2>4, <3>1, <4>1, <4>2, <4>3, <4>5
        <5>2. r[m - 1] = s[m]
          BY <2>5, <5>1
        <5> QED
          BY <4>2, <5>1, <5>2
      <4> QED
        BY <4>4, <4>5
    <3> QED
      BY <2>4, <3>1 DEF NotBefore
  <2>18. Walked(r)'
    BY <1>3, <1>4, <2>17 DEF Walked
  <2> QED
    BY <2>3, <2>16, <2>18 DEF Chained
<1> QED
  BY <1>5, <1>6, <1>7 DEF ListChange

\* From last_alloc all blocks are reached.
LEMMA ChainReaches ==
  ASSUME Types, Doubly, Chained, Counted
  PROVE  ListIntact
<1> DEFINE N == Cardinality(Obj)
           body(g) == [k \in 0..N |-> IF k = 0 THEN {last_alloc} \ {None}
                                      ELSE g[k - 1] \cup ({prev[b] : b \in g[k - 1]} \ {None})]
           Chain == CHOOSE g : g = body(g)
<1>1. PICK s \in Seq(Obj) : ListedBy(s)
  BY DEF Chained
<1> DEFINE n == Len(s)
           newest(k) == {i \in 1..n : i >= n - k}
           f == [k \in 0..N |-> {s[i] : i \in newest(k)}]
<1>2. N \in Nat /\ n \in Nat /\ \A i \in 1..n : s[i] \in Obj /\ s[i] # None
  BY ObjAssumption, FS_CardinalityType
<1>3. n <= N
  <2>1. PICK h : h = [i \in 1..n |-> s[i]]
    OBVIOUS
  <2>2. h \in Injection(1..n, Obj)
    BY <1>1, <1>2, <2>1 DEF ListedBy, Injection, IsInjective
  <2>3. Cardinality(1..n) <= Cardinality(Obj)
    BY <2>2, ObjAssumption, FS_Injection
  <2>4. Cardinality(1..n) = n
    <3>1. 1 \in Int /\ n \in Int
      BY <1>2
    <3>2. Cardinality(1..n) = IF 1 > n THEN 0 ELSE n - 1 + 1
      BY <3>1, FS_Interval
    <3> QED
      BY <1>2, <3>2
  <2> QED
    BY <2>3, <2>4
<1>4. {last_alloc} \ {None} = {s[i] : i \in newest(0)}
  <2>1. CASE n = 0
    <3>1. newest(0) = {} /\ last_alloc = None
      BY <1>1, <2>1 DEF ListedBy
    <3> QED
      BY <3>1
  <2>2. CASE n # 0
    <3>1. newest(0) = {n} /\ last_alloc = s[n] /\ n \in 1..n
      BY <1>1, <1>2, <2>2 DEF ListedBy
    <3> QED
      BY <1>2, <3>1
  <2> QED
    BY <2>1, <2>2
\* One step back.
<1>5. ASSUME NEW k \in 1..N
      PROVE  LET S == {s[i] : i \in newest(k - 1)} IN S \cup ({prev[b] : b \in S} \ {None}) = {s[i] : i \in newest(k)}
  <2> DEFINE S == {s[i] : i \in newest(k - 1)}
             P == {prev[b] : b \in S} \ {None}
             T == {s[i] : i \in newest(k)}
  <2>0. k \in Nat /\ k - 1 \in Nat
    BY <1>2
  <2>1. ASSUME NEW p \in P PROVE p \in T
    <3>1. PICK i \in newest(k - 1) : p = prev[s[i]] /\ p # None
      OBVIOUS
    <3>2. i \in 1..n /\ i >= n - (k - 1) /\ i # 1 /\ p = s[i - 1]
      BY <1>1, <3>1 DEF ListedBy
    <3>3. i - 1 \in newest(k)
      BY <1>2, <2>0, <3>2
    <3> QED
      BY <3>2, <3>3
  <2>2. ASSUME NEW i \in newest(k) PROVE s[i] \in S \cup P
    <3>1. CASE i >= n - (k - 1)
      BY <3>1
    <3>2. CASE ~(i >= n - (k - 1))
      <4>1. i + 1 \in newest(k - 1) /\ i + 1 \in 1..n /\ i + 1 # 1 /\ (i + 1) - 1 = i
        BY <1>2, <2>0, <3>2
      <4>2. prev[s[i + 1]] = s[i] /\ s[i] # None
        BY <1>1, <1>2, <4>1 DEF ListedBy
      <4> QED
        BY <4>1, <4>2
    <3> QED
      BY <3>1, <3>2
  <2>3. \A i \in newest(k - 1) : i \in newest(k)
    BY <1>2, <2>0
  <2>4. S \subseteq T
    BY <2>3
  <2> HIDE DEF P
  <2>5. S \cup P = T
    BY <2>1, <2>2, <2>4
  <2> QED
    BY <2>5 DEF P
<1> HIDE DEF newest
<1>6. f = body(f)
  <2>1. ASSUME NEW k \in 0..N
        PROVE  f[k] = IF k = 0 THEN {last_alloc} \ {None} ELSE f[k - 1] \cup ({prev[b] : b \in f[k - 1]} \ {None})
    <3>1. CASE k = 0
      BY <1>4, <3>1
    <3>2. CASE k # 0
      <4>1. k \in 1..N /\ k - 1 \in 0..N
        BY <1>2, <3>2
      <4>2. f[k - 1] = {s[i] : i \in newest(k - 1)} /\ f[k] = {s[i] : i \in newest(k)}
        BY <4>1
      <4> HIDE DEF f
      <4> QED
        BY <1>5, <3>2, <4>1, <4>2
    <3> QED
      BY <3>1, <3>2
  <2> QED
    BY <2>1
<1>7. Chain = body(Chain)
  BY <1>6
<1> HIDE DEF Chain
<1>8. \A k \in 0..N : Chain[k] = IF k = 0 THEN {last_alloc} \ {None}
                                 ELSE Chain[k - 1] \cup ({prev[b] : b \in Chain[k - 1]} \ {None})
  BY <1>7
<1>9. Chain[N] = f[N]
  <2> DEFINE T == {k \in 0..N : Chain[k] # f[k]}
  <2>1. N \in 0..N
    BY <1>2
  <2>2. SUFFICES ASSUME T # {} PROVE FALSE
    BY <2>1
  <2>3. PICK k \in T : \A j \in T : k <= j
    <3>1. T \in SUBSET Nat
      BY <1>2
    <3> HIDE DEF T
    <3> QED
      BY <2>2, <3>1, LeastOf
  <2>4. k \in 0..N /\ Chain[k] # f[k]
    OBVIOUS
  <2>5. \A j \in 0..N : f[j] = {s[i] : i \in newest(j)}
    OBVIOUS
  <2>6. CASE k = 0
    <3>1. 0 \in 0..N
      BY <1>2
    <3>2. f[0] = {s[i] : i \in newest(0)} /\ Chain[0] = {last_alloc} \ {None}
      BY <1>8, <2>5, <3>1
    <3> QED
      BY <1>4, <2>4, <2>6, <3>2
  <2>7. CASE k # 0
    <3>1. k - 1 \in 0..N /\ k \in 1..N /\ ~(k <= k - 1)
      BY <1>2, <2>4, <2>7
    <3>2. Chain[k - 1] = f[k - 1]
      BY <2>3, <3>1
    <3>3. f[k - 1] = {s[i] : i \in newest(k - 1)} /\ f[k] = {s[i] : i \in newest(k)}
      BY <2>4, <2>5, <3>1
    <3> HIDE DEF f
    <3> QED
      BY <1>5, <1>8, <2>4, <2>7, <3>1, <3>2, <3>3
  <2> QED
    BY <2>6, <2>7
<1>10. Linked = {b \in Obj : OnList(b)}
  BY DEF Types, Linked, OnList, NewPCs, DyingPCs
<1>11. Chain[N] = Linked
  <2>1. N \in 0..N /\ newest(N) = 1..n
    BY <1>2, <1>3 DEF newest
  <2>2. f[N] = {s[i] : i \in 1..n}
    BY <2>1
  <2>3. {s[i] : i \in 1..n} = {b \in Obj : OnList(b)}
    BY <1>1, <1>2 DEF ListedBy
  <2> QED
    BY <1>9, <1>10, <2>2, <2>3
<1>12. ASSUME NEW b \in Linked
       PROVE  /\ next[b] = None <=> b = last_alloc
              /\ prev[b] # None => next[prev[b]] = b
  BY <1>10 DEF Doubly
<1>13. alccnt = Cardinality(Linked)
  BY DEF Counted
<1> QED
  BY <1>11, <1>12, <1>13 DEF ListIntact, Chain

\* Every initial state satisfies the invariant: there is no block and no call.
LEMMA InitInv == Init => IInv /\ Counted /\ Marked /\ Chained
<1> SUFFICES ASSUME Init PROVE IInv /\ Counted /\ Marked /\ Chained
  OBVIOUS
<1> USE ObjAssumption, ThreadAssumption DEF Init, NewPCs, DyingPCs, ClaimPCs, AllocPCs, Ptr
<1>1. Types
  BY DEF Types, PCs, Ops
<1>2. Separate
  BY DEF Separate, Has
<1>3. TwiceKnown
  BY DEF TwiceKnown
<1>4. Doubly
  BY DEF Doubly, OnList
<1>5. Phases
  BY DEF Phases, AllIdle
<1>6. MutexOK
  BY DEF MutexOK
<1>7. Counted
  <2>1. Linked = {}
    BY DEF Linked
  <2> QED
    BY <2>1, FS_EmptySet DEF Counted
<1>8. Chained
  <2>1. <<>> \in Seq(Obj) /\ Len(<<>>) = 0
    OBVIOUS
  <2>2. ListedBy(<<>>)
    BY <2>1 DEF ListedBy, OnList
  <2>3. Walked(<<>>)
    BY DEF Walked, Walking
  <2> QED
    BY <2>1, <2>2, <2>3, Zenon DEF Chained
<1>9. Marked
  BY DEF Marked, Seen, OnList
<1> QED
  BY <1>1, <1>2, <1>3, <1>4, <1>5, <1>6, <1>7, <1>8, <1>9 DEF IInv

\* Every step preserves the invariant, when the first DLL keeps a block.
LEMMA InvStep == Anchored /\ IInv /\ Counted /\ Marked /\ Chained /\ [Next]_vars => (IInv /\ Counted /\ Marked /\ Chained)'
<1> SUFFICES ASSUME Anchored, IInv, Counted, Marked, Chained, [Next]_vars PROVE (IInv /\ Counted /\ Marked /\ Chained)'
  OBVIOUS
<1> USE DEF IInv
<1>1. Types'
  BY TypesStep
<1>2. Separate'
  BY <1>1, SeparateStep
<1>3. TwiceKnown'
  BY <1>1, TwiceStep
<1>4. Doubly'
  BY <1>1, DoublyStep
<1>5. Phases'
  BY PhasesStep
<1>6. MutexOK'
  BY MutexStep
<1>7. ListChange
  BY ListStep
<1>8. Counted'
  BY <1>1, <1>7, CountStep
<1>9. WalkChange
  BY <1>1, WalkersStep
<1>10. Marked'
  BY <1>1, MarkStep
<1>11. Chained'
  BY <1>1, <1>2, <1>7, <1>9, ChainStep
<1> QED
  BY <1>1, <1>2, <1>3, <1>4, <1>5, <1>6, <1>8, <1>10, <1>11

\* The invariant holds in every state of every behaviour.
LEMMA Invariant == ASSUME Anchored PROVE Spec => [](IInv /\ Counted /\ Marked /\ Chained)
<1>1. Anchored /\ IInv /\ Counted /\ Marked /\ Chained /\ [Next]_vars => (IInv /\ Counted /\ Marked /\ Chained)'
  BY InvStep
<1> QED
  BY <1>1, InitInv, PTL DEF Spec

\* Every variable has its type in every state (TypeOK): alccnt, too, which is
\* decremented without a test, because it is the number of blocks on the list.
THEOREM TypeCorrect == ASSUME Anchored PROVE Spec => []TypeOK
<1>1. IInv /\ Counted => TypeOK
  <2> SUFFICES ASSUME IInv, Counted PROVE TypeOK
    OBVIOUS
  <2>1. IsFiniteSet(Linked)
    BY ObjAssumption, FS_Subset DEF IInv, Types, Linked
  <2>2. alccnt \in Nat
    BY <2>1, FS_CardinalityType DEF Counted
  <2> QED
    BY <2>2 DEF IInv, Types, TypeOK
<1> QED
  BY <1>1, Invariant, PTL

\* No thread locks, holds or waits for memmut while it is destroyed or
\* initialised, and none finds the list empty that it saw filled
\* (MutexSurvives): the anchor keeps the list filled while DLL code runs.
THEOREM MutexNeverLost == ASSUME Anchored PROVE Spec => []MutexSurvives
<1>1. IInv /\ Counted => MutexSurvives
  BY ThreadAssumption DEF IInv, Types, Phases, AllIdle, MutexOK, MutexSurvives, ClaimPCs, DyingPCs
<1> QED
  BY <1>1, Invariant, PTL

\* What is released was allocated and is released by one call at a time
\* (ReleasesOwned), the second HeapFree of VP31 included.
THEOREM OwnedReleased == ASSUME Anchored PROVE Spec => []ReleasesOwned
<1>1. IInv /\ Counted => ReleasesOwned
  BY DEF IInv, Types, Separate, Has, ReleasesOwned, ClaimPCs, DyingPCs
<1> QED
  BY <1>1, Invariant, PTL

\* The list behind last_alloc is the doubly linked list of exactly the blocks that no
\* call is building or giving back, and alccnt is its length (ListIntact).
THEOREM ListLinked == ASSUME Anchored PROVE Spec => []ListIntact
<1>1. IInv /\ Counted /\ Chained => ListIntact
  BY ChainReaches DEF IInv
<1> QED
  BY <1>1, Invariant, PTL

\* GlobalSize finds every block a DLL holds, except when it meets a header that is
\* not filled in yet or started from a block that was released meanwhile (SizeFound).
THEOREM SizeIsFound == ASSUME Anchored PROVE Spec => SizeFound
<1> DEFINE Miss == \A t \in Thread : WalkMisses(t) =>
             \/ blk[t] \in Obj \ Linked
             \/ \E u \in Thread : pc[u] = "stamp" /\ blk[u] = blk[t]
<1>1. IInv /\ Marked /\ Chained => Miss
  <2> SUFFICES ASSUME IInv, Marked, Chained, NEW t \in Thread, WalkMisses(t)
               PROVE  \/ blk[t] \in Obj \ Linked
                      \/ \E u \in Thread : pc[u] = "stamp" /\ blk[u] = blk[t]
    OBVIOUS
  <2>1. Walking(t) /\ blk[t] \notin beef
    BY DEF WalkMisses, Return, Goto, Walking
  <2>2. blk[t] \in Obj
    BY <2>1 DEF Chained, Walked
  <2>3. Linked = {b \in Obj : OnList(b)}
    BY DEF IInv, Types, Linked, OnList, NewPCs, DyingPCs
  <2> QED
    BY <2>1, <2>2, <2>3 DEF Marked, Seen
<1>2. [](IInv /\ Counted /\ Marked /\ Chained) => [][Miss]_vars
  BY <1>1, PTL
<1> QED
  BY <1>2, Invariant, PTL DEF SizeFound

-----------------------------------------------------------------------------
(* Events and the list of objects *)

\* The list as it is linked when no creation is under way, up to node n.
EvNewest(n) == mlist = IF n = 0 THEN None ELSE n
EvPrevs(n) == \A i \in 1..n : nodes[i].prev = IF i = 1 THEN None ELSE i - 1

\* When no creation is under way, every node is reached from the last one.
LEMMA EvReached ==
  ASSUME Len(nodes) \in Nat, EvNewest(Len(nodes)), EvPrevs(Len(nodes))
  PROVE  Events!Reachable = 1..Len(nodes)
<1> DEFINE N == Len(nodes)
           body(g) == [k \in 0..N |-> IF k = 0 THEN {mlist} \ {None}
                                      ELSE g[k - 1] \cup ({nodes[n].prev : n \in g[k - 1]} \ {None})]
           back == CHOOSE g : g = body(g)
           f == [k \in 0..N |-> {i \in 1..N : i >= N - k}]
<1>1. Events!Reachable = back[N]
  BY DEF Events!Reachable
<1>2. N \in Nat /\ \A n \in 1..N : nodes[n].prev = IF n = 1 THEN None ELSE n - 1
  BY DEF EvPrevs
<1>3. {mlist} \ {None} = {i \in 1..N : i >= N}
  <2>1. CASE N = 0
    BY <2>1 DEF EvNewest
  <2>2. CASE N # 0
    BY <1>2, <2>2, NullAssumption DEF EvNewest
  <2> QED
    BY <2>1, <2>2
\* One step back.
<1>4. ASSUME NEW k \in 1..N
      PROVE  LET S == {i \in 1..N : i >= N - (k - 1)} IN
             S \cup ({nodes[n].prev : n \in S} \ {None}) = {i \in 1..N : i >= N - k}
  <2> DEFINE S == {i \in 1..N : i >= N - (k - 1)}
             P == {nodes[n].prev : n \in S} \ {None}
  <2>1. ASSUME NEW p \in P PROVE p \in 1..N /\ p >= N - k
    <3>1. PICK n \in S : p = nodes[n].prev /\ p # None
      OBVIOUS
    <3>2. n \in 1..N /\ n >= N - (k - 1) /\ n # 1 /\ p = n - 1
      BY <1>2, <3>1
    <3> QED
      BY <1>2, <3>2
  <2>2. ASSUME NEW i \in 1..N, i >= N - k PROVE i \in S \cup P
    <3>1. CASE i >= N - (k - 1)
      BY <3>1
    <3>2. CASE ~(i >= N - (k - 1))
      <4>1. i + 1 \in S /\ i + 1 # 1 /\ (i + 1) - 1 = i
        BY <1>2, <2>2, <3>2
      <4>2. nodes[i + 1].prev = i /\ i # None
        BY <1>2, <4>1, NullAssumption
      <4> QED
        BY <4>1, <4>2
    <3> QED
      BY <3>1, <3>2
  <2>3. \A i \in S : i \in 1..N /\ i >= N - k
    BY <1>2
  <2> HIDE DEF S, P
  <2>4. S \cup P = {i \in 1..N : i >= N - k}
    BY <2>1, <2>2, <2>3
  <2> QED
    BY <2>4 DEF S, P
<1>5. f = body(f)
  <2>1. ASSUME NEW k \in 0..N
        PROVE  f[k] = IF k = 0 THEN {mlist} \ {None} ELSE f[k - 1] \cup ({nodes[n].prev : n \in f[k - 1]} \ {None})
    <3>1. CASE k = 0
      BY <1>2, <1>3, <3>1
    <3>2. CASE k # 0
      <4>1. k \in 1..N /\ k - 1 \in 0..N
        BY <1>2, <3>2
      <4>2. f[k - 1] = {i \in 1..N : i >= N - (k - 1)} /\ f[k] = {i \in 1..N : i >= N - k}
        BY <4>1
      <4> HIDE DEF f
      <4> QED
        BY <1>4, <3>2, <4>1, <4>2
    <3> QED
      BY <3>1, <3>2
  <2> QED
    BY <2>1
<1>6. back = body(back)
  BY <1>5
<1> HIDE DEF back
<1>7. \A k \in 0..N : back[k] = IF k = 0 THEN {mlist} \ {None} ELSE back[k - 1] \cup ({nodes[n].prev : n \in back[k - 1]} \ {None})
  BY <1>6
<1>8. back[N] = f[N]
  <2> DEFINE T == {k \in 0..N : back[k] # f[k]}
  <2>1. N \in 0..N
    BY <1>2
  <2>2. SUFFICES ASSUME T # {} PROVE FALSE
    BY <2>1
  <2>3. PICK k \in T : \A j \in T : k <= j
    <3>1. T \in SUBSET Nat
      BY <1>2
    <3> HIDE DEF T
    <3> QED
      BY <2>2, <3>1, LeastOf
  <2>4. k \in 0..N /\ back[k] # f[k]
    OBVIOUS
  <2>5. CASE k = 0
    <3>2. 0 \in 0..N /\ N - 0 = N
      BY <1>2
    <3>3. f[0] = {i \in 1..N : i >= N}
      BY <3>2
    <3>1. f[0] = {i \in 1..N : i >= N} /\ back[0] = {mlist} \ {None}
      BY <1>7, <3>2, <3>3
    <3> QED
      BY <1>3, <2>4, <2>5, <3>1
  <2>6. CASE k # 0
    <3>1. k - 1 \in 0..N /\ k \in 1..N /\ ~(k <= k - 1)
      BY <1>2, <2>4, <2>6
    <3>2. back[k - 1] = f[k - 1]
      BY <2>3, <3>1
    <3>3. f[k - 1] = {i \in 1..N : i >= N - (k - 1)} /\ f[k] = {i \in 1..N : i >= N - k}
      BY <2>4, <3>1
    <3> HIDE DEF f
    <3> QED
      BY <1>4, <1>7, <2>4, <2>6, <3>1, <3>2, <3>3
  <2> QED
    BY <2>5, <2>6
<1>9. f[N] = 1..N
  BY <1>2
<1> QED
  BY <1>1, <1>8, <1>9

EvNode == [type : {None, 0, 1}, name : ObjectName \cup {None}, state : 0..1, reset : BOOLEAN,
           prev : Nat \cup {None}, next : Nat \cup {None}]
EvWant == [type : 0..1, name : ObjectName \cup {None}, state : 0..1, reset : BOOLEAN, kept : BOOLEAN]

\* What a thread can be doing.
EvAt ==
  {Events!Idle} \cup [step : {"link", "advance", "fill"}, node : Nat, want : EvWant]
  \cup [step : {"asleep", "woken", "late"}, node : Nat, timed : BOOLEAN, rest : Seq(Nat)]
  \cup [step : {"next"}, timed : BOOLEAN, rest : Seq(Nat)]

EvTypes == nodes \in Seq(EvNode) /\ at \in [EventThread -> EvAt] /\ raced \in BOOLEAN

\* The nodes that are on the list, and those that are filled in.
EvLinked == IF \E t \in EventThread : at[t].step = "link" THEN Len(nodes) - 1 ELSE Len(nodes)
EvFilled == IF Events!Creating = {} THEN Len(nodes) ELSE Len(nodes) - 1

EvSame(i, j) == nodes[i].type = nodes[j].type /\ nodes[i].name = nodes[j].name

EvList ==
  /\ \A i \in 1..EvLinked : /\ nodes[i].prev = IF i = 1 THEN None ELSE i - 1
                            /\ nodes[i].next = IF i = EvLinked THEN None ELSE i + 1
  /\ \A i \in 1..Len(nodes) : nodes[i].type # None <=> i <= EvFilled
  /\ \A i, j \in 1..EvFilled : EvSame(i, j) => i = j \/ nodes[i].name = None
  /\ mlist = IF \E t \in EventThread : at[t].step = "advance" THEN Len(nodes) - 1
             ELSE IF EvLinked = 0 THEN None ELSE EvLinked

\* There is one creation at a time, of the last node; its name was not taken.
EvCreator(t) ==
  /\ \A u \in Events!Creating : u = t
  /\ Len(nodes) > 0 /\ at[t].node = Len(nodes)
  /\ at[t].step = "link" => nodes[Len(nodes)].prev = None /\ nodes[Len(nodes)].next = None
  /\ at[t].step = "advance" => Len(nodes) > 1
  /\ \A i \in 1..(Len(nodes) - 1) :
       nodes[i].type = at[t].want.type /\ nodes[i].name = at[t].want.name => nodes[i].name = None

EvHandles ==
  \A h \in handles : h.of \in {"event", "semaphore"} =>
    h.node \in 1..Len(nodes) /\ nodes[h.node].type = IF h.of = "event" THEN 0 ELSE 1

\* Only events are slept at.
EvSleeps ==
  \A t \in EventThread :
    /\ at[t].step \in {"asleep", "woken", "late"} => at[t].node \in Events!Events
    /\ at[t].step \in {"asleep", "woken", "late", "next"} => \A i \in 1..Len(at[t].rest) : at[t].rest[i] \in Events!Events
    /\ at[t].step = "next" => at[t].rest # <<>>

EvWakes ==
  \A h \in Events!Events :
    nodes[h].state = 1 =>
      \/ Events!AsleepAt(h) \subseteq stranded
      \/ nodes[h].reset /\ Events!Returning(h) # {}

EvSound == EvTypes /\ EvList /\ (\A t \in Events!Creating : EvCreator(t)) /\ EvHandles /\ EvSleeps /\ EvWakes
EvIInv == raced \in BOOLEAN /\ (~raced => EvSound)

EvCreates == {"link", "advance", "fill"}
EvWaits == {"asleep", "woken", "late"}

\* What a thread that creates, or waits, knows.
LEMMA EvKinds ==
  ASSUME EvTypes, NEW t \in EventThread
  PROVE  /\ at[t].step \in EvCreates => at[t] \in [step : EvCreates, node : Nat, want : EvWant]
         /\ at[t].step \in EvWaits => at[t] \in [step : EvWaits, node : Nat, timed : BOOLEAN, rest : Seq(Nat)]
         /\ at[t].step = "next" => at[t] \in [step : {"next"}, timed : BOOLEAN, rest : Seq(Nat)]
         /\ at[t].step \in {"idle", "next"} \cup EvCreates \cup EvWaits
         /\ at[t].step = "idle" <=> at[t] = Events!Idle
<1>1. at[t] \in EvAt
  BY DEF EvTypes
<1> QED
  BY <1>1 DEF EvAt, EvCreates, EvWaits, Events!Idle

\* What a node is.
LEMMA EvNodes ==
  ASSUME EvTypes
  PROVE  /\ Len(nodes) \in Nat /\ DOMAIN nodes = 1..Len(nodes)
         /\ \A i \in 1..Len(nodes) : nodes[i] \in EvNode
BY DEF EvTypes

\* A step that changes neither the links, types and names of the list nor a creation.
LEMMA EvKeep ==
  ASSUME EvTypes, EvList, \A t \in Events!Creating : EvCreator(t), EvHandles, EvTypes',
         Len(nodes') = Len(nodes), mlist' = mlist,
         \A i \in 1..Len(nodes) :
           /\ nodes'[i].type = nodes[i].type /\ nodes'[i].name = nodes[i].name
           /\ nodes'[i].prev = nodes[i].prev /\ nodes'[i].next = nodes[i].next,
         \A t \in EventThread : at[t].step \in EvCreates \/ at'[t].step \in EvCreates => at'[t] = at[t],
         \A h \in handles' : h \in handles \/ h.of \in {"mutex", "newest"}
  PROVE  EvList' /\ (\A t \in Events!Creating : EvCreator(t))' /\ EvHandles'
<1>1. Events!Creating' = Events!Creating
  BY DEF Events!Creating, EvCreates
<1>2. \A t \in EventThread : /\ (at'[t].step = "link") <=> (at[t].step = "link")
                             /\ (at'[t].step = "advance") <=> (at[t].step = "advance")
  BY DEF EvCreates
<1>3. EvLinked' = EvLinked /\ EvFilled' = EvFilled
  BY <1>1, <1>2 DEF EvLinked, EvFilled
<1>4. Len(nodes) \in Nat
  BY EvNodes
<1>5. EvLinked \in 0..Len(nodes) \/ Len(nodes) = 0
  BY <1>4 DEF EvLinked
<1>6. EvFilled <= Len(nodes)
  BY <1>4 DEF EvFilled
<1>7. EvList'
  <2>1. \A i \in 1..EvLinked : i \in 1..Len(nodes)
    BY <1>4 DEF EvLinked
  <2>2. \A i \in 1..EvFilled : i \in 1..Len(nodes)
    BY <1>4 DEF EvFilled
  <2>3. \A i \in 1..EvLinked : /\ nodes'[i].prev = IF i = 1 THEN None ELSE i - 1
                               /\ nodes'[i].next = IF i = EvLinked THEN None ELSE i + 1
    BY <2>1 DEF EvList
  <2>4. \A i \in 1..Len(nodes) : nodes'[i].type # None <=> i <= EvFilled
    BY DEF EvList
  <2>5. \A i, j \in 1..EvFilled : EvSame(i, j)' => i = j \/ nodes'[i].name = None
    BY <2>2 DEF EvList, EvSame
  <2>6. mlist = IF \E t \in EventThread : at'[t].step = "advance" THEN Len(nodes) - 1
             ELSE IF EvLinked = 0 THEN None ELSE EvLinked
    BY <1>2 DEF EvList
  <2> HIDE DEF EvLinked, EvFilled
  <2> QED
    BY <1>3, <2>3, <2>4, <2>5, <2>6 DEF EvList
<1>8. ASSUME NEW t \in Events!Creating PROVE EvCreator(t)'
  <2>1. at'[t] = at[t] /\ EvCreator(t)
    BY DEF Events!Creating, EvCreates
  <2>2. Len(nodes) > 0 => Len(nodes) \in 1..Len(nodes) /\ \A i \in 1..(Len(nodes) - 1) : i \in 1..Len(nodes)
    BY <1>4
  <2>3. \A u \in Events!Creating' : u = t
    BY <1>1, <2>1 DEF EvCreator
  <2>4. Len(nodes') > 0 /\ at'[t].node = Len(nodes') /\ at'[t].want = at[t].want /\ (at'[t].step = "advance" => Len(nodes') > 1)
    BY <2>1 DEF EvCreator
  <2>5. at'[t].step = "link" => nodes'[Len(nodes')].prev = None /\ nodes'[Len(nodes')].next = None
    BY <2>1, <2>2 DEF EvCreator
  <2>6. \A i \in 1..(Len(nodes') - 1) :
          nodes'[i].type = at[t].want.type /\ nodes'[i].name = at[t].want.name => nodes'[i].name = None
    BY <2>1, <2>2 DEF EvCreator
  <2> QED
    BY <2>3, <2>4, <2>5, <2>6 DEF EvCreator
<1>9. EvHandles'
  BY DEF EvHandles
<1> QED
  BY <1>1, <1>7, <1>8, <1>9

\* A name that is taken.
LEMMA EvTaken ==
  ASSUME EvSound, UNCHANGED <<mlist, nodes, at, raced, stranded>>, NEW g, g.of \in {"mutex", "newest"},
         handles' \in {handles, handles \cup {g}}
  PROVE  EvSound'
<1>1. EvTypes'
  BY DEF EvSound, EvTypes
<1>2. Events!Events' = Events!Events
  BY DEF Events!Events
<1>3. EvSleeps' /\ EvWakes'
  BY <1>2 DEF EvSound, EvSleeps, EvWakes, Events!AsleepAt, Events!Returning
<1> QED
  BY <1>1, <1>3, EvKeep DEF EvSound

\* A node whose state changes.
LEMMA EvState ==
  ASSUME EvTypes, NEW h \in 1..Len(nodes), NEW v \in 0..1, nodes' = [nodes EXCEPT ![h].state = v]
  PROVE  /\ nodes' \in Seq(EvNode) /\ Len(nodes') = Len(nodes)
         /\ \A i \in 1..Len(nodes) :
              /\ nodes'[i].type = nodes[i].type /\ nodes'[i].name = nodes[i].name
              /\ nodes'[i].prev = nodes[i].prev /\ nodes'[i].next = nodes[i].next
              /\ nodes'[i].reset = nodes[i].reset
              /\ nodes'[i].state = IF i = h THEN v ELSE nodes[i].state
<1>1. Len(nodes) \in Nat /\ DOMAIN nodes = 1..Len(nodes) /\ \A i \in 1..Len(nodes) : nodes[i] \in EvNode
  BY EvNodes
<1>2. nodes \in Seq(EvNode)
  BY DEF EvTypes
<1>3. [nodes[h] EXCEPT !.state = v] \in EvNode
  BY <1>1 DEF EvNode
<1>4. nodes' = [nodes EXCEPT ![h] = [nodes[h] EXCEPT !.state = v]]
  OBVIOUS
<1>5. nodes' \in Seq(EvNode) /\ Len(nodes') = Len(nodes)
  BY <1>1, <1>2, <1>3, <1>4
<1>6. ASSUME NEW i \in 1..Len(nodes)
      PROVE  nodes'[i] = IF i = h THEN [nodes[h] EXCEPT !.state = v] ELSE nodes[i]
  BY <1>1, <1>4
<1> QED
  BY <1>1, <1>5, <1>6 DEF EvNode

\* An event is a node of the list that is filled in.
LEMMA EvEventIs ==
  ASSUME EvHandles, NEW h \in Events!Events
  PROVE  h \in 1..Len(nodes) /\ nodes[h].type = 0
BY DEF EvHandles, Events!Events

\* A step that leaves the list, the creations and the handles.
LEMMA EvQuiet ==
  ASSUME EvSound, EvTypes', UNCHANGED <<mlist, handles>>, Len(nodes') = Len(nodes),
         \A i \in 1..Len(nodes) :
           /\ nodes'[i].type = nodes[i].type /\ nodes'[i].name = nodes[i].name
           /\ nodes'[i].prev = nodes[i].prev /\ nodes'[i].next = nodes[i].next,
         \A t \in EventThread : at[t].step \in EvCreates \/ at'[t].step \in EvCreates => at'[t] = at[t],
         EvSleeps', EvWakes'
  PROVE  EvSound'
BY EvKeep DEF EvSound

\* SetEvent and PulseEvent keep the invariant ...
LEMMA EvSetEvent ==
  ASSUME EvSound, raced' = raced, NEW t \in EventThread, NEW h \in Events!Events,
         Events!SetEvent(t, h) \/ Events!ResetEvent(t, h) \/ Events!SetEventOfMutex(t)
  PROVE  EvSound'
<1>1. EvTypes /\ EvSleeps /\ EvWakes /\ EvHandles
  BY DEF EvSound
<1>2. h \in 1..Len(nodes) /\ UNCHANGED <<mlist, handles>>
  BY <1>1, EvEventIs DEF Events!SetEvent, Events!ResetEvent, Events!SetEventOfMutex
<1>3. Events!Events' = Events!Events
  BY <1>2 DEF Events!Events
<1>4. \A i \in Events!Events : i \in 1..Len(nodes)
  BY <1>1, EvEventIs
<1>5. CASE UNCHANGED <<nodes, at, stranded>>
  <2>1. EvTypes' /\ EvSleeps' /\ EvWakes'
    BY <1>1, <1>3, <1>5 DEF EvTypes, EvSleeps, EvWakes, Events!AsleepAt, Events!Returning
  <2> QED
    BY <1>2, <1>5, <2>1, EvQuiet
<1>6. CASE Events!ResetEvent(t, h)
  <2>1. nodes' = [nodes EXCEPT ![h].state = 0] /\ UNCHANGED <<at, stranded>>
    BY <1>6 DEF Events!ResetEvent
  <2>6. 0 \in 0..1
    OBVIOUS
  <2>7. nodes' \in Seq(EvNode)
    BY <1>1, <1>2, <2>1, <2>6, EvState, Zenon
  <2>2. EvTypes'
    BY <1>1, <2>1, <2>7 DEF EvTypes
  <2>3. EvSleeps'
    BY <1>1, <1>3, <2>1 DEF EvSleeps
  <2>4. \A i \in 1..Len(nodes) : nodes'[i].reset = nodes[i].reset /\ (nodes'[i].state = 1 => nodes[i].state = 1)
    BY <1>1, <1>2, <2>1, EvState
  <2>5. EvWakes'
    BY <1>1, <1>3, <1>4, <2>1, <2>4 DEF EvWakes, Events!AsleepAt, Events!Returning
  <2> QED
    BY <1>1, <1>2, <2>1, <2>2, <2>3, <2>5, EvState, EvQuiet
<1>7. CASE Events!SetEvent(t, h) /\ nodes[h].state # 1
  <2>1. nodes' = [nodes EXCEPT ![h].state = 1]
    BY <1>7 DEF Events!SetEvent
  <2>6. 1 \in 0..1
    OBVIOUS
  <2>2. nodes' \in Seq(EvNode) /\ Len(nodes') = Len(nodes)
    BY <1>1, <1>2, <2>1, <2>6, EvState, Zenon
  <2>3. \A i \in 1..Len(nodes) : /\ nodes'[i].reset = nodes[i].reset
                               /\ nodes'[i].state = IF i = h THEN 1 ELSE nodes[i].state
    BY <1>1, <1>2, <2>1, EvState
  <2>4. CASE Events!AsleepAt(h) = {}
    <3>1. UNCHANGED <<at, stranded>>
      BY <1>7, <2>4 DEF Events!SetEvent
    <3>2. EvTypes' /\ EvSleeps'
      BY <1>1, <1>3, <2>2, <3>1 DEF EvTypes, EvSleeps
    <3>3. EvWakes'
      BY <1>1, <1>3, <1>4, <2>3, <2>4, <3>1 DEF EvWakes, Events!AsleepAt, Events!Returning
    <3> QED
      BY <1>1, <1>2, <2>1, <3>1, <3>2, <3>3, EvState, EvQuiet
  <2>5. CASE Events!AsleepAt(h) # {}
    <3>1. PICK u \in Events!AsleepAt(h) :
            /\ at' = [at EXCEPT ![u].step = "woken"]
            /\ stranded' = IF nodes[h].reset THEN stranded ELSE stranded \cup (Events!AsleepAt(h) \ {u})
      BY <1>7, <2>5 DEF Events!SetEvent
    <3>2. /\ u \in EventThread /\ at[u].step = "asleep" /\ at[u].node = h
          /\ at[u] \in [step : EvWaits, node : Nat, timed : BOOLEAN, rest : Seq(Nat)]
      BY <1>1, EvKinds DEF Events!AsleepAt, EvWaits
    <3>3. /\ at'[u] \in [step : EvWaits, node : Nat, timed : BOOLEAN, rest : Seq(Nat)]
          /\ at'[u].step = "woken" /\ at'[u].node = at[u].node /\ at'[u].rest = at[u].rest
          /\ \A w \in EventThread : w # u => at'[w] = at[w]
          /\ DOMAIN at' = EventThread
      BY <1>1, <3>1, <3>2 DEF EvTypes, EvWaits
    <3>4. at' \in [EventThread -> EvAt]
      <4>1. at'[u] \in EvAt
        BY <3>3 DEF EvAt, EvWaits
      <4>2. \A w \in EventThread : at'[w] \in EvAt
        BY <1>1, <3>3, <4>1 DEF EvTypes
      <4> QED
        BY <1>1, <3>1, <4>2 DEF EvTypes
    <3>5. EvTypes'
      BY <1>1, <2>2, <3>4 DEF EvTypes
    <3>6. EvSleeps'
      BY <1>1, <1>3, <3>2, <3>3 DEF EvSleeps
    <3>7. EvWakes'
      <4>1. \A i : Events!AsleepAt(i)' \subseteq Events!AsleepAt(i) /\ Events!Returning(i) \subseteq Events!Returning(i)'
        BY <3>2, <3>3 DEF Events!AsleepAt, Events!Returning
      <4>2. u \notin Events!AsleepAt(h)' /\ u \in Events!Returning(h)'
        BY <3>2, <3>3 DEF Events!AsleepAt, Events!Returning
      <4>3. stranded \subseteq stranded' /\ (~nodes[h].reset => Events!AsleepAt(h)' \subseteq stranded')
        BY <3>1, <4>1, <4>2
      <4> QED
        BY <1>1, <1>2, <1>3, <1>4, <2>3, <4>1, <4>2, <4>3 DEF EvWakes
    <3> QED
      BY <1>1, <1>2, <2>1, <3>2, <3>3, <3>5, <3>6, <3>7, EvState, EvQuiet DEF EvCreates
  <2> QED
    BY <2>4, <2>5
<1> QED
  BY <1>5, <1>6, <1>7 DEF Events!SetEvent, Events!SetEventOfMutex

\* What a wait leads to for its thread.
EvWaiting(t, what) ==
  /\ at' = [at EXCEPT ![t] = what] /\ what \in EvAt /\ what.step \notin EvCreates
  /\ what.step \in EvWaits => what.node \in Events!Events
  /\ what.step \in EvWaits \cup {"next"} => \A i \in 1..Len(what.rest) : what.rest[i] \in Events!Events
  /\ what.step = "next" => what.rest # <<>>

\* ... and so does what a thread learns while it waits.
LEMMA EvWaitingKeeps ==
  ASSUME EvSound, NEW t \in EventThread, NEW what, EvWaiting(t, what), at[t].step \notin EvCreates,
         UNCHANGED <<mlist, handles, raced>>,
         \/ nodes' = nodes
         \/ \E h \in Events!Events : nodes' = [nodes EXCEPT ![h].state = 0],
         EvWakes'
  PROVE  EvSound'
<1>1. EvTypes /\ EvSleeps /\ EvHandles
  BY DEF EvSound
<1>2. Events!Events' = Events!Events /\ \A i \in Events!Events : i \in 1..Len(nodes)
  BY <1>1, EvEventIs DEF Events!Events
<1>3. /\ nodes' \in Seq(EvNode) /\ Len(nodes') = Len(nodes)
      /\ \A i \in 1..Len(nodes) :
           /\ nodes'[i].type = nodes[i].type /\ nodes'[i].name = nodes[i].name
           /\ nodes'[i].prev = nodes[i].prev /\ nodes'[i].next = nodes[i].next
  <2>1. CASE nodes' = nodes
    BY <1>1, <2>1 DEF EvTypes
  <2>2. ASSUME NEW h \in Events!Events, nodes' = [nodes EXCEPT ![h].state = 0]
        PROVE  <1>3
    <3>1. 0 \in 0..1 /\ h \in 1..Len(nodes)
      BY <1>2
    <3> QED
      BY <1>1, <2>2, <3>1, EvState, Zenon
  <2> QED
    BY <2>1, <2>2
<1>4. at'[t] = what /\ DOMAIN at' = EventThread /\ \A u \in EventThread : u # t => at'[u] = at[u]
  BY <1>1 DEF EvTypes, EvWaiting
<1>5. at' \in [EventThread -> EvAt]
  <2>1. \A u \in EventThread : at'[u] \in EvAt
    BY <1>1, <1>4 DEF EvTypes, EvWaiting
  <2> QED
    BY <1>1, <2>1 DEF EvTypes, EvWaiting
<1>6. EvTypes'
  BY <1>1, <1>3, <1>5 DEF EvTypes
<1>7. EvSleeps'
  BY <1>1, <1>2, <1>4 DEF EvSleeps, EvWaiting, EvWaits
<1>8. \A u \in EventThread : at[u].step \in EvCreates \/ at'[u].step \in EvCreates => at'[u] = at[u]
  BY <1>4 DEF EvWaiting
<1> QED
  BY <1>3, <1>6, <1>7, <1>8, EvQuiet

\* After a wait, the thread goes on with the rest of a WaitForMultipleObjects.
LEMMA EvOn ==
  ASSUME EvTypes, NEW t \in EventThread, NEW timed \in BOOLEAN, NEW rest \in Seq(Nat),
         \A i \in 1..Len(rest) : rest[i] \in Events!Events,
         NEW what, what = IF rest = <<>> THEN Events!Idle ELSE [step |-> "next", timed |-> timed, rest |-> rest],
         at' = [at EXCEPT ![t] = what]
  PROVE  /\ EvWaiting(t, what)
         /\ \A h : /\ Events!AsleepAt(h)' = Events!AsleepAt(h) \ {t}
                  /\ Events!Returning(h)' = Events!Returning(h) \ {t}
<1>1. CASE rest = <<>>
  <2>1. what = Events!Idle /\ what.step = "idle"
    BY <1>1 DEF Events!Idle
  <2>2. EvWaiting(t, what)
    BY <2>1 DEF EvWaiting, EvAt, EvCreates, EvWaits
  <2>3. at'[t].step = "idle" /\ \A u \in EventThread : u # t => at'[u] = at[u]
    BY <2>1 DEF EvTypes
  <2> QED
    BY <2>2, <2>3 DEF Events!AsleepAt, Events!Returning
<1>2. CASE rest # <<>>
  <2>1. what = [step |-> "next", timed |-> timed, rest |-> rest] /\ what.step = "next" /\ what.rest = rest
    BY <1>2
  <2>2. EvWaiting(t, what)
    BY <1>2, <2>1 DEF EvWaiting, EvAt, EvCreates, EvWaits
  <2>3. at'[t].step = "next" /\ \A u \in EventThread : u # t => at'[u] = at[u]
    BY <2>1 DEF EvTypes
  <2> QED
    BY <2>2, <2>3 DEF Events!AsleepAt, Events!Returning
<1> QED
  BY <1>1, <1>2

\* A wait that has to sleep ...
LEMMA EvAwait ==
  ASSUME EvSound, NEW t \in EventThread, at[t].step \in {"idle", "next"}, NEW h \in Events!Events,
         NEW timed \in BOOLEAN, NEW rest \in Seq(Nat), \A i \in 1..Len(rest) : rest[i] \in Events!Events,
         Events!Await(t, h, timed, rest), UNCHANGED <<mlist, handles, raced, stranded>>
  PROVE  EvSound'
<1>1. EvTypes /\ EvSleeps /\ EvHandles /\ EvWakes
  BY DEF EvSound
<1>2. Events!Events' = Events!Events /\ \A i \in Events!Events : i \in 1..Len(nodes) /\ i \in Nat
  BY <1>1, EvEventIs DEF Events!Events
<1>3. CASE nodes[h].state = 0
  <2> DEFINE what == [step |-> "asleep", node |-> h, timed |-> timed, rest |-> rest]
  <2>1. at' = [at EXCEPT ![t] = what] /\ nodes' = nodes
    BY <1>3 DEF Events!Await
  <2>2. EvWaiting(t, what)
    BY <1>2, <2>1 DEF EvWaiting, EvAt, EvCreates, EvWaits
  <2>3. at'[t] = what /\ \A u \in EventThread : u # t => at'[u] = at[u]
    BY <1>1, <2>1 DEF EvTypes
  <2>4. \A i : /\ i # h => Events!AsleepAt(i)' = Events!AsleepAt(i)
              /\ Events!Returning(i)' = Events!Returning(i)
    BY <2>3 DEF Events!AsleepAt, Events!Returning
  <2>5. EvWakes'
    BY <1>1, <1>2, <1>3, <2>1, <2>4 DEF EvWakes
  <2> QED
    BY <2>1, <2>2, <2>5, EvWaitingKeeps DEF EvCreates
<1>4. CASE nodes[h].state # 0
  <2> DEFINE what == IF rest = <<>> THEN Events!Idle ELSE [step |-> "next", timed |-> timed, rest |-> rest]
  <2>1. at' = [at EXCEPT ![t] = what] /\ nodes' = IF nodes[h].reset THEN [nodes EXCEPT ![h].state = 0] ELSE nodes
    BY <1>4 DEF Events!Await
  <2>2. /\ EvWaiting(t, what)
        /\ \A i : /\ Events!AsleepAt(i)' = Events!AsleepAt(i) \ {t}
                  /\ Events!Returning(i)' = Events!Returning(i) \ {t}
    BY <1>1, <2>1, EvOn
  <2>3. \A i : t \notin Events!AsleepAt(i) /\ t \notin Events!Returning(i)
    BY DEF Events!AsleepAt, Events!Returning
  <2>4. \A i \in 1..Len(nodes) : nodes'[i].reset = nodes[i].reset /\ (nodes'[i].state = 1 => nodes[i].state = 1)
    BY <1>1, <1>2, <2>1, EvState
  <2>5. EvWakes'
    BY <1>1, <1>2, <2>2, <2>3, <2>4 DEF EvWakes
  <2> QED
    BY <2>1, <2>2, <2>5, EvWaitingKeeps DEF EvCreates
<1> QED
  BY <1>3, <1>4

\* ... that has waited long enough ...
LEMMA EvTimesOut ==
  ASSUME EvSound, NEW t \in EventThread, Events!TimesOut(t)
  PROVE  EvSound'
<1>1. EvTypes /\ EvSleeps /\ EvHandles /\ EvWakes
  BY DEF EvSound
<1>2. at[t].step = "asleep" /\ at[t] \in [step : EvWaits, node : Nat, timed : BOOLEAN, rest : Seq(Nat)]
  BY <1>1, EvKinds DEF Events!TimesOut, EvWaits
<1> DEFINE what == [at[t] EXCEPT !.step = "late"]
<1>3. /\ at' = [at EXCEPT ![t] = what] /\ stranded' = stranded \ {t}
      /\ UNCHANGED <<mlist, nodes, handles, raced>>
  BY DEF Events!TimesOut
<1>4. what \in [step : EvWaits, node : Nat, timed : BOOLEAN, rest : Seq(Nat)] /\ what.step = "late"
      /\ what.node = at[t].node /\ what.rest = at[t].rest
  BY <1>2 DEF EvWaits
<1>5. EvWaiting(t, what)
  <2>1. what \in EvAt
    BY <1>4 DEF EvAt, EvWaits
  <2>2. at[t].node \in Events!Events /\ \A i \in 1..Len(at[t].rest) : at[t].rest[i] \in Events!Events
    BY <1>1, <1>2 DEF EvSleeps
  <2> HIDE DEF what
  <2> QED
    BY <1>3, <1>4, <2>1, <2>2 DEF EvWaiting, EvCreates
<1>6. at'[t] = what /\ \A u \in EventThread : u # t => at'[u] = at[u]
  BY <1>1, <1>3 DEF EvTypes
<1> HIDE DEF what
<1>7. \A i : Events!AsleepAt(i)' = Events!AsleepAt(i) \ {t} /\ Events!Returning(i) \subseteq Events!Returning(i)'
  BY <1>2, <1>4, <1>6 DEF Events!AsleepAt, Events!Returning
<1>8. Events!Events' = Events!Events
  BY <1>3 DEF Events!Events
<1>9. EvWakes'
  BY <1>1, <1>3, <1>7, <1>8 DEF EvWakes
<1> QED
  BY <1>2, <1>3, <1>5, <1>9, EvWaitingKeeps DEF EvCreates

\* ... and that comes back.
LEMMA EvWaitReturns ==
  ASSUME EvSound, NEW t \in EventThread, Events!WaitReturns(t)
  PROVE  EvSound'
<1>1. EvTypes /\ EvSleeps /\ EvHandles /\ EvWakes
  BY DEF EvSound
<1>2. at[t].step \in {"woken", "late"} /\ at[t] \in [step : EvWaits, node : Nat, timed : BOOLEAN, rest : Seq(Nat)]
  BY <1>1, EvKinds DEF Events!WaitReturns, EvWaits
<1> DEFINE h == at[t].node
           what == IF at[t].rest = <<>> THEN Events!Idle ELSE [step |-> "next", timed |-> at[t].timed, rest |-> at[t].rest]
<1>3. /\ at' = [at EXCEPT ![t] = what] /\ stranded' = stranded \ {t}
      /\ nodes' = IF nodes[h].reset THEN [nodes EXCEPT ![h].state = 0] ELSE nodes
      /\ UNCHANGED <<mlist, handles, raced>>
  BY DEF Events!WaitReturns
<1>4. h \in Events!Events /\ \A i \in 1..Len(at[t].rest) : at[t].rest[i] \in Events!Events
  BY <1>1, <1>2 DEF EvSleeps
<1>5. at[t].timed \in BOOLEAN /\ at[t].rest \in Seq(Nat)
  BY <1>2
<1>6. /\ EvWaiting(t, what)
      /\ \A i : /\ Events!AsleepAt(i)' = Events!AsleepAt(i) \ {t}
                /\ Events!Returning(i)' = Events!Returning(i) \ {t}
  BY <1>1, <1>3, <1>4, <1>5, EvOn
<1> HIDE DEF h, what
<1>7. Events!Events' = Events!Events /\ \A i \in Events!Events : i \in 1..Len(nodes)
  BY <1>1, <1>3, EvEventIs DEF Events!Events
<1>8. \A i \in 1..Len(nodes) : nodes'[i].reset = nodes[i].reset /\ (nodes'[i].state = 1 => nodes[i].state = 1)
  BY <1>1, <1>3, <1>4, <1>7, EvState
<1>9. nodes[h].reset => nodes'[h].state = 0
  BY <1>1, <1>3, <1>4, <1>7, EvState
<1>10. \A i : i # h => t \notin Events!Returning(i)
  BY DEF Events!Returning, h
<1>11. EvWakes'
  BY <1>1, <1>3, <1>6, <1>7, <1>8, <1>9, <1>10 DEF EvWakes
<1> QED
  BY <1>2, <1>3, <1>4, <1>6, <1>11, EvWaitingKeeps DEF EvCreates

\* What a call leaves when it changes nothing of this.
LEMMA EvStays ==
  ASSUME EvSound, UNCHANGED <<mlist, nodes, at, handles, raced, stranded>>
  PROVE  EvSound'
<1> DEFINE g == [node |-> 0, of |-> "mutex"]
<1>1. g.of \in {"mutex", "newest"} /\ handles' \in {handles, handles \cup {g}}
  OBVIOUS
<1> HIDE DEF g
<1> QED
  BY <1>1, EvTaken

\* What is left of a list after its first event.
LEMMA EvTail ==
  ASSUME NEW s \in Seq(Nat), s # <<>>, NEW E, \A i \in 1..Len(s) : s[i] \in E
  PROVE  Head(s) \in E /\ Tail(s) \in Seq(Nat) /\ \A i \in 1..Len(Tail(s)) : Tail(s)[i] \in E
<1>1. Len(s) \in Nat /\ Len(s) # 0
  BY EmptySeq
<1>2. Head(s) = s[1] /\ Tail(s) \in Seq(Nat) /\ Len(Tail(s)) = Len(s) - 1 /\ \A i \in 1..Len(Tail(s)) : Tail(s)[i] = s[i + 1]
  BY HeadTailProperties
<1> QED
  BY <1>1, <1>2

\* A wait, which may be over at once.
LEMMA EvWaitFor ==
  ASSUME EvSound, NEW t \in EventThread,
         \/ \E h \in Events!Events, timed \in BOOLEAN : Events!WaitForSingleObject(t, h, timed)
         \/ \E g, h \in Events!Events, all \in BOOLEAN : Events!WaitForMultipleObjects(t, <<g, h>>, all, FALSE)
         \/ Events!NextOfAll(t)
  PROVE  EvSound'
<1>1. EvTypes /\ EvSleeps /\ EvHandles
  BY DEF EvSound
<1>2. \A h \in Events!Events : h \in Nat
  <2>1. Len(nodes) \in Nat
    BY <1>1, EvNodes
  <2> QED
    BY <1>1, <2>1, EvEventIs
<1>3. ASSUME NEW h \in Events!Events, NEW timed \in BOOLEAN, Events!WaitForSingleObject(t, h, timed)
      PROVE  EvSound'
  <2>1. at[t].step = "idle" /\ UNCHANGED <<mlist, handles, raced, stranded>>
    BY <1>3 DEF Events!WaitForSingleObject, Events!Ready, Events!Idle
  <2>2. CASE UNCHANGED <<at, nodes>>
    BY <2>1, <2>2, EvStays
  <2>3. CASE Events!Await(t, h, timed, <<>>)
    <3>1. <<>> \in Seq(Nat) /\ \A i \in 1..Len(<<>>) : <<>>[i] \in Events!Events
      OBVIOUS
    <3> QED
      BY <2>1, <2>3, <3>1, EvAwait
  <2> QED
    BY <1>3, <2>2, <2>3 DEF Events!WaitForSingleObject
<1>4. ASSUME NEW g \in Events!Events, NEW h \in Events!Events, NEW all \in BOOLEAN,
             Events!WaitForMultipleObjects(t, <<g, h>>, all, FALSE)
      PROVE  EvSound'
  <2> DEFINE rest == IF all THEN Tail(<<g, h>>) ELSE <<>>
  <2>1. at[t].step = "idle" /\ UNCHANGED <<mlist, handles, raced, stranded>> /\ Events!Await(t, <<g, h>>[1], FALSE, rest)
    <3>1. at[t] = Events!Idle /\ UNCHANGED <<mlist, handles, raced, stranded>> /\ Events!Await(t, <<g, h>>[1], FALSE, rest)
      BY <1>4, Zenon DEF Events!WaitForMultipleObjects, Events!Ready
    <3>2. Events!Idle.step = "idle"
      BY DEF Events!Idle
    <3> QED
      BY <3>1, <3>2, Zenon
  <2>2. <<g, h>> \in Seq(Nat) /\ <<g, h>> # <<>> /\ <<g, h>>[1] = g /\ \A i \in 1..Len(<<g, h>>) : <<g, h>>[i] \in Events!Events
    BY <1>2
  <2>3. rest \in Seq(Nat) /\ \A i \in 1..Len(rest) : rest[i] \in Events!Events
    <3>1. CASE all
      <4>1. rest = Tail(<<g, h>>)
        BY <3>1
      <4> HIDE DEF rest
      <4> QED
        BY <2>2, <4>1, EvTail
    <3>2. CASE ~all
      BY <3>2
    <3> QED
      BY <3>1, <3>2
  <2> HIDE DEF rest
  <2>4. Events!Await(t, g, FALSE, rest)
    BY <2>1, <2>2
  <2> QED
    BY <2>1, <2>3, <2>4, EvAwait
<1>5. CASE Events!NextOfAll(t)
  <2> DEFINE s == at[t].rest
  <2>1. at[t].step = "next" /\ UNCHANGED <<mlist, handles, raced, stranded>> /\ Events!Await(t, Head(s), at[t].timed, Tail(s))
    BY <1>5 DEF Events!NextOfAll
  <2>2. at[t].timed \in BOOLEAN /\ s \in Seq(Nat)
    BY <1>1, <2>1, EvKinds
  <2>3. s # <<>> /\ \A i \in 1..Len(s) : s[i] \in Events!Events
    BY <1>1, <2>1 DEF EvSleeps
  <2> HIDE DEF s
  <2>4. Head(s) \in Events!Events /\ Tail(s) \in Seq(Nat) /\ \A i \in 1..Len(Tail(s)) : Tail(s)[i] \in Events!Events
    BY <2>2, <2>3, EvTail
  <2> QED
    BY <2>1, <2>2, <2>4, EvAwait
<1> QED
  BY <1>3, <1>4, <1>5

\* Between two creations, the list is linked from its last node back to its first.
LEMMA EvBetween ==
  ASSUME EvSound, Events!Creating = {}
  PROVE  EvLinked = Len(nodes) /\ EvFilled = Len(nodes) /\ Events!Reachable = 1..Len(nodes)
         /\ mlist = IF Len(nodes) = 0 THEN None ELSE Len(nodes)
<1>1. \A t \in EventThread : at[t].step \notin {"link", "advance"}
  BY DEF Events!Creating
<1>2. EvLinked = Len(nodes) /\ EvFilled = Len(nodes) /\ Len(nodes) \in Nat
  BY <1>1, EvNodes DEF EvLinked, EvFilled, EvSound
<1>3. EvNewest(Len(nodes)) /\ EvPrevs(Len(nodes))
  BY <1>1, <1>2 DEF EvSound, EvList, EvNewest, EvPrevs
<1> QED
  BY <1>2, <1>3, EvReached DEF EvNewest

\* A new node is the last one.
LEMMA EvNewNode ==
  ASSUME EvSound, NEW t \in EventThread, at[t] = Events!Idle, ~raced', NEW want \in EvWant,
         want.name # None => Events!Named(want.type, want.name) = {},
         Events!NewNode(t, want)
  PROVE  EvSound'
<1>1. EvTypes /\ EvList /\ EvHandles /\ EvSleeps /\ EvWakes
  BY DEF EvSound
<1>2. Events!Creating = {} /\ UNCHANGED <<mlist, handles, stranded>> /\ nodes' = Append(nodes, Events!Blank)
  BY DEF Events!NewNode
<1> DEFINE N == Len(nodes)
           what == [step |-> "link", node |-> N + 1, want |-> want]
<1>3. at' = [at EXCEPT ![t] = what]
  BY DEF Events!NewNode
<1>4. N \in Nat /\ EvLinked = N /\ EvFilled = N /\ Events!Reachable = 1..N /\ mlist = IF N = 0 THEN None ELSE N
  BY <1>1, <1>2, EvBetween, EvNodes
<1>5. Events!Blank \in EvNode
  BY DEF Events!Blank, EvNode
<1>6. /\ nodes' \in Seq(EvNode) /\ Len(nodes') = N + 1 /\ nodes'[N + 1] = Events!Blank
      /\ \A i \in 1..N : nodes'[i] = nodes[i]
  BY <1>1, <1>2, <1>5 DEF EvTypes
<1>7. what \in EvAt /\ what.step = "link" /\ what.node = N + 1 /\ what.want = want
  BY <1>4 DEF EvAt
<1> HIDE DEF what
<1>8. at'[t] = what /\ DOMAIN at' = EventThread /\ \A u \in EventThread : u # t => at'[u] = at[u]
  BY <1>1, <1>3 DEF EvTypes
<1>9. EvTypes'
  <2>1. at' \in [EventThread -> EvAt]
    <3>1. \A u \in EventThread : at'[u] \in EvAt
      BY <1>1, <1>7, <1>8 DEF EvTypes
    <3> QED
      BY <1>1, <1>3, <3>1 DEF EvTypes
  <2> QED
    BY <1>1, <1>6, <2>1 DEF EvTypes, Events!NewNode
<1>10. Events!Creating' = {t}
  BY <1>2, <1>7, <1>8 DEF Events!Creating
<1>11. EvLinked' = N /\ EvFilled' = N
  <2>1. \E u \in EventThread : at'[u].step = "link"
    BY <1>7, <1>8
  <2> QED
    BY <1>4, <1>6, <1>10, <2>1 DEF EvLinked, EvFilled
<1>12. EvList'
  <2>1. \A i \in 1..N : /\ nodes'[i].prev = IF i = 1 THEN None ELSE i - 1
                        /\ nodes'[i].next = IF i = N THEN None ELSE i + 1
    BY <1>1, <1>4, <1>6 DEF EvList
  <2>2. \A i \in 1..(N + 1) : nodes'[i].type # None <=> i <= N
    <3>1. \A i \in 1..N : nodes'[i].type # None
      BY <1>1, <1>4, <1>6 DEF EvList
    <3>2. nodes'[N + 1].type = None
      BY <1>6 DEF Events!Blank
    <3> QED
      BY <1>4, <3>1, <3>2
  <2>3. \A i, j \in 1..N : EvSame(i, j)' => i = j \/ nodes'[i].name = None
    BY <1>1, <1>4, <1>6 DEF EvList, EvSame
  <2>4. \A u \in EventThread : at'[u].step # "advance"
    BY <1>2, <1>7, <1>8 DEF Events!Creating
  <2> QED
    BY <1>2, <1>4, <1>6, <1>11, <2>1, <2>2, <2>3, <2>4 DEF EvList
<1>13. EvCreator(t)'
  <2>1. at'[t].step = "link" /\ at'[t].node = N + 1 /\ at'[t].want = want
    BY <1>7, <1>8
  <2>2. nodes'[N + 1].prev = None /\ nodes'[N + 1].next = None
    BY <1>6 DEF Events!Blank
  <2>3. \A i \in 1..N : nodes[i].type = want.type /\ nodes[i].name = want.name => nodes[i].name = None
    BY <1>4 DEF Events!Named
  <2>4. (N + 1) - 1 = N /\ N + 1 > 0
    BY <1>4
  <2> QED
    BY <1>6, <1>10, <2>1, <2>2, <2>3, <2>4 DEF EvCreator
<1>14. Events!Events' = Events!Events /\ \A i \in Events!Events : i \in 1..N
  BY <1>1, <1>2, EvEventIs DEF Events!Events
<1>15. EvHandles'
  BY <1>1, <1>2, <1>4, <1>6 DEF EvHandles
<1>16. EvSleeps'
  BY <1>1, <1>7, <1>8, <1>14 DEF EvSleeps
<1>17. \A h : Events!AsleepAt(h)' = Events!AsleepAt(h) /\ Events!Returning(h)' = Events!Returning(h)
  BY <1>7, <1>8 DEF Events!AsleepAt, Events!Returning, Events!Idle
<1>18. EvWakes'
  BY <1>1, <1>2, <1>6, <1>14, <1>17 DEF EvWakes
<1> QED
  BY <1>9, <1>10, <1>12, <1>13, <1>15, <1>16, <1>18 DEF EvSound

\* A creation finds a node of its name, or begins a new one ...
LEMMA EvCreate ==
  ASSUME EvSound, ~raced', NEW t \in EventThread, NEW name \in ObjectName \cup {None},
         \/ \E reset \in BOOLEAN, state \in 0..1, kept \in BOOLEAN : Events!CreateEventA(t, reset, state, name, kept)
         \/ Events!CreateSemaphoreA(t, name)
  PROVE  EvSound'
<1>1. ASSUME NEW reset \in BOOLEAN, NEW state \in 0..1, NEW kept \in BOOLEAN, Events!CreateEventA(t, reset, state, name, kept)
      PROVE  EvSound'
  <2> DEFINE same == IF name = None THEN {} ELSE Events!Named(0, name)
             g == [node |-> Events!Newest(same), of |-> "mutex"]
             want == [type |-> 0, name |-> name, state |-> state, reset |-> reset, kept |-> kept]
  <2>1. CASE same # {}
    <3>1. UNCHANGED <<mlist, nodes, at, raced, stranded>> /\ handles' \in {handles, handles \cup {g}} /\ g.of \in {"mutex", "newest"}
      BY <1>1, <2>1 DEF Events!CreateEventA
    <3> HIDE DEF g
    <3> QED
      BY <3>1, EvTaken
  <2>2. CASE same = {}
    <3>1. Events!NewNode(t, want) /\ at[t] = Events!Idle
      BY <1>1, <2>2 DEF Events!CreateEventA, Events!Ready
    <3>2. want \in EvWant /\ want.name = name /\ want.type = 0
      BY DEF EvWant
    <3>3. want.name # None => Events!Named(want.type, want.name) = {}
      BY <2>2, <3>2
    <3> HIDE DEF want
    <3> QED
      BY <3>1, <3>2, <3>3, EvNewNode
  <2> QED
    BY <2>1, <2>2
<1>2. CASE Events!CreateSemaphoreA(t, name)
  <2> DEFINE g == [node |-> mlist, of |-> "newest"]
             want == [type |-> 1, name |-> name, state |-> 0, reset |-> FALSE, kept |-> TRUE]
  <2>1. CASE name # None /\ Events!Named(1, name) # {}
    <3>1. UNCHANGED <<mlist, nodes, at, raced, stranded>> /\ handles' \in {handles, handles \cup {g}} /\ g.of \in {"mutex", "newest"}
      BY <1>2, <2>1 DEF Events!CreateSemaphoreA
    <3> HIDE DEF g
    <3> QED
      BY <3>1, EvTaken
  <2>2. CASE ~(name # None /\ Events!Named(1, name) # {})
    <3>1. Events!NewNode(t, want) /\ at[t] = Events!Idle
      BY <1>2, <2>2 DEF Events!CreateSemaphoreA, Events!Ready
    <3>2. want \in EvWant /\ want.name = name /\ want.type = 1
      BY DEF EvWant
    <3>3. want.name # None => Events!Named(want.type, want.name) = {}
      BY <2>2, <3>2
    <3> HIDE DEF want
    <3> QED
      BY <3>1, <3>2, <3>3, EvNewNode
  <2> QED
    BY <2>1, <2>2
<1> QED
  BY <1>1, <1>2

\* One entry of a sequence changes.
LEMMA SetInSeq ==
  ASSUME NEW S, NEW s \in Seq(S), NEW i \in 1..Len(s), NEW e \in S
  PROVE  /\ [s EXCEPT ![i] = e] \in Seq(S) /\ Len([s EXCEPT ![i] = e]) = Len(s)
         /\ \A j \in 1..Len(s) : [s EXCEPT ![i] = e][j] = IF j = i THEN e ELSE s[j]
OBVIOUS

\* A creation that is under way.
LEMMA EvCreating ==
  ASSUME EvSound, NEW t \in EventThread, at[t].step \in EvCreates
  PROVE  LET N == Len(nodes) IN
         /\ N \in Nat /\ N > 0 /\ at[t] \in [step : EvCreates, node : Nat, want : EvWant] /\ at[t].node = N
         /\ Events!Creating = {t} /\ \A u \in EventThread : u # t => at[u].step \notin EvCreates
         /\ EvFilled = N - 1 /\ EvLinked = IF at[t].step = "link" THEN N - 1 ELSE N
         /\ at[t].step = "link" => mlist = IF N = 1 THEN None ELSE N - 1
         /\ at[t].step = "advance" => mlist = N - 1 /\ N > 1
         /\ at[t].step = "fill" => mlist = N
<1>1. t \in Events!Creating /\ EvCreator(t) /\ EvTypes /\ EvList
  BY DEF EvSound, Events!Creating, EvCreates
<1>2. Events!Creating = {t} /\ \A u \in EventThread : u # t => at[u].step \notin EvCreates
  BY <1>1 DEF EvCreator, Events!Creating, EvCreates
<1>3. Len(nodes) \in Nat /\ Len(nodes) > 0 /\ at[t].node = Len(nodes) /\ at[t] \in [step : EvCreates, node : Nat, want : EvWant]
  BY <1>1, EvNodes, EvKinds DEF EvCreator
<1>4. EvFilled = Len(nodes) - 1
  BY <1>2 DEF EvFilled
<1>5. (\E u \in EventThread : at[u].step = "link") <=> at[t].step = "link"
  BY <1>2 DEF EvCreates
<1>6. (\E u \in EventThread : at[u].step = "advance") <=> at[t].step = "advance"
  BY <1>2 DEF EvCreates
<1>7. EvLinked = IF at[t].step = "link" THEN Len(nodes) - 1 ELSE Len(nodes)
  BY <1>5 DEF EvLinked
<1>8. mlist = IF at[t].step = "advance" THEN Len(nodes) - 1 ELSE IF EvLinked = 0 THEN None ELSE EvLinked
  BY <1>1, <1>6 DEF EvList
<1>9. at[t].step = "advance" => Len(nodes) > 1
  BY <1>1 DEF EvCreator
<1> HIDE DEF EvLinked, EvFilled
<1> QED
  BY <1>2, <1>3, <1>4, <1>7, <1>8, <1>9

\* It goes one step on.
LEMMA EvGoesOn ==
  ASSUME EvSound, NEW t \in EventThread, at[t].step \in EvCreates, NEW s \in {"advance", "fill"},
         at' = [at EXCEPT ![t].step = s], UNCHANGED <<handles, stranded, raced>>,
         nodes' \in Seq(EvNode), Len(nodes') = Len(nodes), s = "advance" => Len(nodes) > 1,
         \A i \in 1..Len(nodes) :
           /\ nodes'[i].type = nodes[i].type /\ nodes'[i].name = nodes[i].name
           /\ nodes'[i].state = nodes[i].state /\ nodes'[i].reset = nodes[i].reset,
         \A i \in 1..Len(nodes) : /\ nodes'[i].prev = IF i = 1 THEN None ELSE i - 1
                                  /\ nodes'[i].next = IF i = Len(nodes) THEN None ELSE i + 1,
         mlist' = IF s = "advance" THEN Len(nodes) - 1 ELSE Len(nodes)
  PROVE  EvSound'
<1> DEFINE N == Len(nodes)
<1>1. EvTypes /\ EvList /\ EvHandles /\ EvSleeps /\ EvWakes /\ EvCreator(t)
  BY DEF EvSound, Events!Creating, EvCreates
<1>2. N \in Nat /\ N > 0 /\ at[t] \in [step : EvCreates, node : Nat, want : EvWant] /\ at[t].node = N
      /\ Events!Creating = {t} /\ (\A u \in EventThread : u # t => at[u].step \notin EvCreates) /\ EvFilled = N - 1
  BY EvCreating
<1>3. /\ at'[t] \in [step : EvCreates, node : Nat, want : EvWant] /\ at'[t].step = s
      /\ at'[t].node = N /\ at'[t].want = at[t].want
      /\ DOMAIN at' = EventThread /\ \A u \in EventThread : u # t => at'[u] = at[u]
  BY <1>1, <1>2 DEF EvTypes, EvCreates
<1>4. EvTypes'
  <2>1. \A u \in EventThread : at'[u] \in EvAt
    BY <1>1, <1>3 DEF EvTypes, EvAt, EvCreates
  <2>2. at' \in [EventThread -> EvAt]
    BY <1>1, <2>1 DEF EvTypes
  <2> QED
    BY <1>1, <2>2 DEF EvTypes
<1>5. Events!Creating' = {t} /\ \A u \in EventThread : u # t => at'[u].step \notin EvCreates
  BY <1>2, <1>3 DEF Events!Creating, EvCreates
<1>6. EvFilled' = N - 1 /\ EvLinked' = N
  BY <1>3, <1>5 DEF EvFilled, EvLinked, EvCreates
<1>7. EvList'
  <2>1. \A i \in 1..N : nodes'[i].type # None <=> i <= N - 1
    BY <1>1, <1>2 DEF EvList
  <2>2. \A i, j \in 1..(N - 1) : EvSame(i, j)' => i = j \/ nodes'[i].name = None
    <3>1. \A i, j \in 1..(N - 1) : EvSame(i, j) => i = j \/ nodes[i].name = None
      BY <1>1, <1>2 DEF EvList
    <3> SUFFICES ASSUME NEW i \in 1..(N - 1), NEW j \in 1..(N - 1), EvSame(i, j)' PROVE i = j \/ nodes'[i].name = None
      OBVIOUS
    <3>2. i \in 1..N /\ j \in 1..N
      BY <1>2
    <3>3. EvSame(i, j) /\ nodes'[i].name = nodes[i].name
      BY <3>2 DEF EvSame
    <3> QED
      BY <3>1, <3>3
  <2>3. (\E u \in EventThread : at'[u].step = "advance") <=> s = "advance"
    BY <1>3, <1>5 DEF EvCreates
  <2> QED
    BY <1>2, <1>6, <2>1, <2>2, <2>3 DEF EvList
<1>8. EvCreator(t)'
  <2>1. \A i \in 1..(N - 1) : nodes'[i].type = at[t].want.type /\ nodes'[i].name = at[t].want.name => nodes'[i].name = None
    BY <1>1, <1>2 DEF EvCreator
  <2> QED
    BY <1>2, <1>3, <1>5, <2>1 DEF EvCreator
<1>9. Events!Events' = Events!Events /\ \A i \in Events!Events : i \in 1..N
  BY <1>1, EvEventIs DEF Events!Events
<1>10. EvHandles'
  BY <1>1, <1>2 DEF EvHandles
<1>11. EvSleeps'
  BY <1>1, <1>3, <1>9 DEF EvSleeps, EvCreates
<1>12. \A h : Events!AsleepAt(h)' = Events!AsleepAt(h) /\ Events!Returning(h)' = Events!Returning(h)
  BY <1>3 DEF Events!AsleepAt, Events!Returning, EvCreates
<1>13. EvWakes'
  BY <1>1, <1>9, <1>12 DEF EvWakes
<1> QED
  BY <1>4, <1>5, <1>7, <1>8, <1>10, <1>11, <1>13 DEF EvSound

\* ... which it links ...
LEMMA EvLink ==
  ASSUME EvSound, NEW t \in EventThread, Events!Link(t)
  PROVE  EvSound'
<1> DEFINE N == Len(nodes)
<1>1. at[t].step = "link" /\ UNCHANGED <<handles, raced, stranded>>
  BY DEF Events!Link
<1>2. N \in Nat /\ N > 0 /\ at[t].node = N /\ EvLinked = N - 1 /\ mlist = IF N = 1 THEN None ELSE N - 1
  BY <1>1, EvCreating DEF EvCreates
<1>3. EvTypes /\ EvList /\ EvCreator(t) /\ nodes \in Seq(EvNode)
  BY <1>1 DEF EvSound, Events!Creating, EvTypes
<1>4. nodes[N].prev = None /\ nodes[N].next = None
  BY <1>1, <1>3 DEF EvCreator
<1>5. DOMAIN nodes = 1..N /\ \A i \in 1..N : nodes[i] \in EvNode
  BY <1>3, EvNodes
<1>6. CASE N = 1
  <2>1. mlist' = 1 /\ nodes' = nodes /\ at' = [at EXCEPT ![t].step = "fill"]
    BY <1>2, <1>6 DEF Events!Link
  <2>2. \A i \in 1..N : /\ nodes[i].prev = IF i = 1 THEN None ELSE i - 1
                        /\ nodes[i].next = IF i = N THEN None ELSE i + 1
    BY <1>4, <1>6
  <2>3. "fill" \in {"advance", "fill"} /\ "fill" # "advance"
    OBVIOUS
  <2> QED
    BY <1>1, <1>3, <1>6, <2>1, <2>2, <2>3, EvGoesOn DEF EvCreates
<1>7. CASE N # 1
  <2> DEFINE M == N - 1
             before == [nodes[M] EXCEPT !.next = N]
             after == [nodes[N] EXCEPT !.prev = M]
  <2>0. M \in 1..N /\ M \in Nat /\ M # N /\ mlist = M /\ mlist # None /\ N \in 1..N /\ N \in Nat
    BY <1>2, <1>7, NullAssumption
  <2>1. mlist' = M /\ at' = [at EXCEPT ![t].step = "advance"] /\ nodes' = [nodes EXCEPT ![M].next = N, ![N].prev = M]
    BY <1>2, <2>0 DEF Events!Link
  <2>2. nodes' = [nodes EXCEPT ![M] = before, ![N] = after]
    BY <1>5, <2>0, <2>1
  <2>3. before \in EvNode /\ after \in EvNode
    BY <1>5, <2>0 DEF EvNode
  <2>4. /\ before.next = N /\ before.prev = nodes[M].prev /\ before.type = nodes[M].type /\ before.name = nodes[M].name
        /\ before.state = nodes[M].state /\ before.reset = nodes[M].reset
        /\ after.prev = M /\ after.next = nodes[N].next /\ after.type = nodes[N].type /\ after.name = nodes[N].name
        /\ after.state = nodes[N].state /\ after.reset = nodes[N].reset
    BY <1>5, <2>0 DEF EvNode
  <2> HIDE DEF before, after
  <2>5. nodes' \in Seq(EvNode) /\ Len(nodes') = N
    <3> DEFINE one == [nodes EXCEPT ![M] = before]
    <3>1. one \in Seq(EvNode) /\ Len(one) = N
      BY <1>3, <2>0, <2>3, SetInSeq
    <3>2. nodes' = [one EXCEPT ![N] = after]
      BY <2>2
    <3> HIDE DEF one
    <3> QED
      BY <2>0, <2>3, <3>1, <3>2, SetInSeq
  <2>6. nodes'[M] = before /\ nodes'[N] = after /\ \A i \in 1..N : i # M /\ i # N => nodes'[i] = nodes[i]
    BY <1>5, <2>0, <2>2
  <2>7. \A i \in 1..N : /\ nodes'[i].type = nodes[i].type /\ nodes'[i].name = nodes[i].name
                        /\ nodes'[i].state = nodes[i].state /\ nodes'[i].reset = nodes[i].reset
    BY <2>4, <2>6
  <2>8. \A i \in 1..M : /\ nodes[i].prev = IF i = 1 THEN None ELSE i - 1
                        /\ nodes[i].next = IF i = M THEN None ELSE i + 1
    BY <1>2, <1>3 DEF EvList
  <2>9. \A i \in 1..N : /\ nodes'[i].prev = IF i = 1 THEN None ELSE i - 1
                        /\ nodes'[i].next = IF i = N THEN None ELSE i + 1
    <3> TAKE i \in 1..N
    <3>1. CASE i = N
      BY <1>4, <1>7, <2>4, <2>6, <3>1
    <3>2. CASE i = M
      <4>1. nodes'[i] = before /\ M # N /\ M + 1 = N /\ M \in 1..M
        BY <1>2, <2>0, <2>6, <3>2
      <4> HIDE DEF M
      <4> QED
        BY <2>4, <2>8, <3>2, <4>1
    <3>3. CASE i # N /\ i # M
      <4>1. i \in 1..M /\ nodes'[i] = nodes[i]
        BY <1>2, <2>6, <3>3
      <4> HIDE DEF M
      <4> QED
        BY <2>8, <3>3, <4>1
    <3> QED
      BY <3>1, <3>2, <3>3
  <2>10. "advance" \in {"advance", "fill"} /\ N > 1
    BY <1>2, <1>7
  <2> HIDE DEF M
  <2>11. mlist' = N - 1
    BY <2>1 DEF M
  <2> QED
    BY <1>1, <1>3, <2>1, <2>5, <2>7, <2>9, <2>10, <2>11, EvGoesOn DEF EvCreates
<1> QED
  BY <1>6, <1>7

\* ... makes the last one ...
LEMMA EvAdvance ==
  ASSUME EvSound, NEW t \in EventThread, Events!Advance(t)
  PROVE  EvSound'
<1> DEFINE N == Len(nodes)
<1>1. at[t].step = "advance" /\ UNCHANGED <<nodes, handles, raced, stranded>>
  BY DEF Events!Advance
<1>2. N \in Nat /\ N > 1 /\ EvLinked = N /\ mlist = N - 1
  BY <1>1, EvCreating DEF EvCreates
<1>3. EvTypes /\ EvList
  BY DEF EvSound
<1>4. \A i \in 1..N : /\ nodes[i].prev = IF i = 1 THEN None ELSE i - 1
                      /\ nodes[i].next = IF i = N THEN None ELSE i + 1
  BY <1>2, <1>3 DEF EvList
<1>5. mlist # None /\ mlist \in 1..N /\ nodes[mlist].next = N
  BY <1>2, <1>4, NullAssumption
<1>6. mlist' = N /\ at' = [at EXCEPT ![t].step = "fill"]
  BY <1>5 DEF Events!Advance
<1>7. "fill" \in {"advance", "fill"} /\ "fill" # "advance"
  OBVIOUS
<1>8. nodes' \in Seq(EvNode)
  BY <1>1, <1>3 DEF EvTypes
<1> QED
  BY <1>1, <1>4, <1>6, <1>7, <1>8, EvGoesOn DEF EvCreates

\* ... and fills in.
LEMMA EvFill ==
  ASSUME EvSound, NEW t \in EventThread, Events!Fill(t)
  PROVE  EvSound'
<1> DEFINE N == Len(nodes)
           w == at[t].want
           full == [type |-> w.type, name |-> w.name, state |-> w.state, reset |-> w.reset,
                    prev |-> nodes[N].prev, next |-> nodes[N].next]
           g == [node |-> N, of |-> IF w.type = 0 THEN "event" ELSE "semaphore"]
<1>1. at[t].step = "fill" /\ UNCHANGED <<mlist, raced, stranded>>
  BY DEF Events!Fill
<1>2. N \in Nat /\ N > 0 /\ at[t] \in [step : EvCreates, node : Nat, want : EvWant]
      /\ (\A u \in EventThread : u # t => at[u].step \notin EvCreates) /\ EvFilled = N - 1 /\ EvLinked = N /\ mlist = N
  BY <1>1, EvCreating DEF EvCreates
<1>3. EvTypes /\ EvList /\ EvHandles /\ EvSleeps /\ EvWakes /\ EvCreator(t)
  BY <1>1 DEF EvSound, Events!Creating
<1>4. N \in 1..N /\ mlist # None /\ nodes[N] \in EvNode /\ w \in EvWant
  BY <1>2, <1>3, NullAssumption, EvNodes
<1>5. nodes' = [nodes EXCEPT ![N] = full] /\ at' = [at EXCEPT ![t] = Events!Idle]
  BY <1>2, <1>4 DEF Events!Fill
<1>6. handles' \in {handles, handles \cup {g}} /\ (w.kept <=> w.kept)
  BY <1>2, <1>4 DEF Events!Fill
<1>7. full \in EvNode /\ full.type = w.type /\ full.name = w.name /\ full.prev = nodes[N].prev /\ full.next = nodes[N].next
      /\ w.type \in {0, 1}
  BY <1>4 DEF EvNode, EvWant
<1>8. g.node = N /\ g.of = IF w.type = 0 THEN "event" ELSE "semaphore"
  OBVIOUS
<1> HIDE DEF full, g, w
<1>9. nodes' \in Seq(EvNode) /\ Len(nodes') = N /\ nodes'[N] = full /\ \A i \in 1..N : i # N => nodes'[i] = nodes[i]
  BY <1>2, <1>3, <1>4, <1>5, <1>7 DEF EvTypes
<1>10. at'[t] = Events!Idle /\ DOMAIN at' = EventThread /\ \A u \in EventThread : u # t => at'[u] = at[u]
  BY <1>3, <1>5 DEF EvTypes
<1>11. Events!Idle.step = "idle" /\ Events!Idle \in EvAt
  BY DEF Events!Idle, EvAt
<1>12. EvTypes'
  <2>1. \A u \in EventThread : at'[u] \in EvAt
    BY <1>3, <1>10, <1>11 DEF EvTypes
  <2>2. at' \in [EventThread -> EvAt]
    BY <1>3, <1>5, <2>1 DEF EvTypes
  <2> QED
    BY <1>1, <1>3, <1>9, <2>2 DEF EvTypes
<1>13. \A u \in EventThread : at'[u].step \notin EvCreates
  BY <1>2, <1>10, <1>11 DEF EvCreates
<1>14. Events!Creating' = {}
  BY <1>13 DEF Events!Creating, EvCreates
<1>15. EvFilled' = N /\ EvLinked' = N
  BY <1>9, <1>13, <1>14 DEF EvFilled, EvLinked, EvCreates
<1>16. EvList'
  <2>1. \A i \in 1..N : /\ nodes'[i].prev = IF i = 1 THEN None ELSE i - 1
                        /\ nodes'[i].next = IF i = N THEN None ELSE i + 1
    BY <1>2, <1>3, <1>7, <1>9 DEF EvList
  <2>2. \A i \in 1..N : nodes'[i].type # None <=> i <= N
    <3>1. full.type # None
      BY <1>7, NullAssumption
    <3>2. \A i \in 1..N : i # N => nodes[i].type # None
      BY <1>2, <1>3 DEF EvList
    <3> QED
      BY <1>2, <1>9, <3>1, <3>2
  <2>3. \A i, j \in 1..N : EvSame(i, j)' => i = j \/ nodes'[i].name = None
    <3>1. \A i, j \in 1..(N - 1) : EvSame(i, j) => i = j \/ nodes[i].name = None
      BY <1>2, <1>3 DEF EvList
    <3>2. \A i \in 1..(N - 1) : nodes[i].type = w.type /\ nodes[i].name = w.name => nodes[i].name = None
      BY <1>3 DEF EvCreator, w
    <3> SUFFICES ASSUME NEW i \in 1..N, NEW j \in 1..N, EvSame(i, j)', i # j PROVE nodes'[i].name = None
      OBVIOUS
    <3>3. CASE i # N /\ j # N
      <4>1. i \in 1..(N - 1) /\ j \in 1..(N - 1) /\ EvSame(i, j) /\ nodes'[i] = nodes[i]
        BY <1>2, <1>9, <3>3 DEF EvSame
      <4> QED
        BY <3>1, <4>1
    <3>4. CASE i = N
      <4>1. j \in 1..(N - 1) /\ nodes'[j] = nodes[j] /\ nodes[j].type = w.type /\ nodes[j].name = w.name /\ nodes'[i].name = w.name
        BY <1>2, <1>7, <1>9, <3>4 DEF EvSame
      <4> QED
        BY <3>2, <4>1
    <3>5. CASE j = N /\ i # N
      <4>1. i \in 1..(N - 1) /\ nodes'[i] = nodes[i] /\ nodes[i].type = w.type /\ nodes[i].name = w.name
        BY <1>2, <1>7, <1>9, <3>5 DEF EvSame
      <4> QED
        BY <3>2, <4>1
    <3> QED
      BY <3>3, <3>4, <3>5
  <2>4. ~\E u \in EventThread : at'[u].step = "advance"
    BY <1>13 DEF EvCreates
  <2> QED
    BY <1>1, <1>2, <1>9, <1>15, <2>1, <2>2, <2>3, <2>4 DEF EvList
<1>17. nodes[N].type = None
  BY <1>2, <1>3, <1>4 DEF EvList
<1>18. \A h \in Events!Events : h \in 1..N /\ h # N /\ nodes'[h] = nodes[h]
  BY <1>3, <1>9, <1>17, EvEventIs, NullAssumption
<1>19. Events!Events \subseteq Events!Events' /\ \A h \in Events!Events' : h \in Events!Events \/ h = N
  BY <1>6, <1>8 DEF Events!Events
<1>20. EvHandles'
  <2>1. \A h \in handles : h.of \in {"event", "semaphore"} => h.node \in 1..N /\ h.node # N /\ nodes'[h.node] = nodes[h.node]
    BY <1>3, <1>9, <1>17, NullAssumption DEF EvHandles
  <2>2. g.node \in 1..N /\ nodes'[g.node].type = IF g.of = "event" THEN 0 ELSE 1
    BY <1>4, <1>7, <1>8, <1>9
  <2> QED
    BY <1>3, <1>6, <1>9, <2>1, <2>2 DEF EvHandles
<1>21. EvSleeps'
  BY <1>3, <1>10, <1>11, <1>19 DEF EvSleeps
<1>22. \A h : Events!AsleepAt(h)' = Events!AsleepAt(h) /\ Events!Returning(h)' = Events!Returning(h)
  BY <1>1, <1>10, <1>11 DEF Events!AsleepAt, Events!Returning
<1>23. Events!AsleepAt(N) = {}
  BY <1>3, <1>18 DEF Events!AsleepAt, EvSleeps
<1>24. EvWakes'
  BY <1>1, <1>3, <1>18, <1>19, <1>22, <1>23 DEF EvWakes
<1> QED
  BY <1>12, <1>14, <1>16, <1>20, <1>21, <1>24 DEF EvSound

\* The newest node goes.
LEMMA EvCollect ==
  ASSUME EvSound, Events!my_garbagecollection
  PROVE  EvSound'
<1> DEFINE N == Len(nodes)
           M == N - 1
           rest == Events!destroy_event(N).rest
<1>1. EvTypes /\ EvList
  BY DEF EvSound
<1>2. /\ nodes # <<>> /\ \A t \in EventThread : at[t] = Events!Idle
      /\ mlist' = Events!destroy_event(N).list /\ nodes' = SubSeq(rest, 1, M) /\ handles' = {}
      /\ UNCHANGED <<at, raced, stranded>>
  BY DEF Events!my_garbagecollection
<1>3. Events!Idle.step = "idle"
  BY DEF Events!Idle
<1>4. Events!Creating = {} /\ Events!Creating' = {}
  BY <1>2, <1>3 DEF Events!Creating
<1>5. EvLinked = N /\ EvFilled = N /\ mlist = IF N = 0 THEN None ELSE N
  BY <1>4, EvBetween
<1>6. N \in Nat /\ N > 0 /\ M \in Nat /\ N \in 1..N /\ \A i \in 1..N : nodes[i] \in EvNode
  BY <1>1, <1>2, EvNodes, EmptySeq DEF EvTypes
<1>7. mlist = N /\ mlist' = nodes[N].prev /\ nodes[N].prev = IF N = 1 THEN None ELSE M
  BY <1>1, <1>2, <1>5, <1>6 DEF Events!destroy_event, EvList
<1>8. nodes[N].next = None /\ \A m \in 1..N : nodes[N].next # m
  BY <1>1, <1>5, <1>6, NullAssumption DEF EvList
<1>9. rest = [m \in 1..N |-> IF nodes[N].next = m THEN [nodes[m] EXCEPT !.prev = nodes[N].prev]
                             ELSE IF nodes[N].prev = m THEN [nodes[m] EXCEPT !.next = nodes[N].next] ELSE nodes[m]]
  BY DEF Events!destroy_event
<1> HIDE DEF rest
<1>10. \A m \in 1..N : rest[m] = IF nodes[N].prev = m THEN [nodes[m] EXCEPT !.next = None] ELSE nodes[m]
  BY <1>8, <1>9
<1>11. \A m \in 1..N : rest[m] \in EvNode
  <2> TAKE m \in 1..N
  <2>1. [nodes[m] EXCEPT !.next = None] \in EvNode
    BY <1>6 DEF EvNode
  <2> QED
    BY <1>6, <1>10, <2>1
<1>12. rest \in Seq(EvNode) /\ Len(rest) = N
  BY <1>6, <1>9, <1>11
<1>13. nodes' \in Seq(EvNode) /\ Len(nodes') = M /\ \A i \in 1..M : nodes'[i] = rest[i] /\ i \in 1..N
  <2>1. 1 \in 1..N + 1 /\ M \in 0..N
    BY <1>6
  <2>2. SubSeq(rest, 1, M) \in Seq(EvNode) /\ Len(SubSeq(rest, 1, M)) = M
    BY <1>6, <1>12, <2>1, SubSeqProperties
  <2>3. \A i \in 1..M : SubSeq(rest, 1, M)[i] = rest[i] /\ i \in 1..N
    BY <1>6, <1>12, <2>1
  <2> QED
    BY <1>2, <2>2, <2>3
<1>14. \A i \in 1..M : /\ nodes'[i].type = nodes[i].type /\ nodes'[i].name = nodes[i].name
                       /\ nodes'[i].prev = nodes[i].prev
                       /\ nodes'[i].next = IF nodes[N].prev = i THEN None ELSE nodes[i].next
  <2> TAKE i \in 1..M
  <2>1. nodes'[i] = (IF nodes[N].prev = i THEN [nodes[i] EXCEPT !.next = None] ELSE nodes[i]) /\ nodes[i] \in EvNode
    BY <1>6, <1>10, <1>13
  <2>2. CASE nodes[N].prev = i
    <3>1. nodes'[i] = [nodes[i] EXCEPT !.next = None]
      BY <2>1, <2>2
    <3> QED
      BY <2>1, <2>2, <3>1 DEF EvNode
  <2>3. CASE nodes[N].prev # i
    BY <2>1, <2>3
  <2> QED
    BY <2>2, <2>3
<1> HIDE DEF M
<1>15. M \in Nat /\ N = M + 1
  BY <1>6 DEF M
<1>16. EvTypes'
  BY <1>1, <1>2, <1>13 DEF EvTypes
<1>17. \A u \in EventThread : at'[u].step = "idle"
  BY <1>2, <1>3
<1>18. EvLinked' = M /\ EvFilled' = M
  BY <1>4, <1>13, <1>17 DEF EvLinked, EvFilled
<1>19. EvList'
  <2>1. \A i \in 1..M : /\ nodes'[i].prev = IF i = 1 THEN None ELSE i - 1
                        /\ nodes'[i].next = IF i = M THEN None ELSE i + 1
    <3>1. \A i \in 1..N : /\ nodes[i].prev = IF i = 1 THEN None ELSE i - 1
                          /\ nodes[i].next = IF i = N THEN None ELSE i + 1
      BY <1>1, <1>5 DEF EvList
    <3>2. \A i \in 1..M : nodes[N].prev = i <=> i = M
      BY <1>7, <1>15, NullAssumption
    <3> TAKE i \in 1..M
    <3>3. i \in 1..N /\ i # N /\ i \in Nat
      BY <1>15
    <3>4. nodes[i].prev = (IF i = 1 THEN None ELSE i - 1) /\ nodes[i].next = i + 1
      BY <3>1, <3>3
    <3> QED
      BY <1>14, <3>2, <3>4
  <2>2. \A i \in 1..M : nodes'[i].type # None <=> i <= M
    <3>1. \A i \in 1..N : nodes[i].type # None
      BY <1>1, <1>5 DEF EvList
    <3>2. \A i \in 1..M : i \in 1..N /\ i <= M
      BY <1>15
    <3> QED
      BY <1>14, <3>1, <3>2
  <2>3. \A i, j \in 1..M : EvSame(i, j)' => i = j \/ nodes'[i].name = None
    <3>1. \A i, j \in 1..N : EvSame(i, j) => i = j \/ nodes[i].name = None
      BY <1>1, <1>5 DEF EvList
    <3> SUFFICES ASSUME NEW i \in 1..M, NEW j \in 1..M, EvSame(i, j)' PROVE i = j \/ nodes'[i].name = None
      OBVIOUS
    <3>2. i \in 1..N /\ j \in 1..N
      BY <1>15
    <3>3. EvSame(i, j) /\ nodes'[i].name = nodes[i].name
      BY <1>14 DEF EvSame
    <3> QED
      BY <3>1, <3>2, <3>3
  <2>4. mlist' = IF M = 0 THEN None ELSE M
    BY <1>7, <1>15
  <2>5. ~\E u \in EventThread : at'[u].step = "advance"
    BY <1>17
  <2> QED
    BY <1>13, <1>18, <2>1, <2>2, <2>3, <2>4, <2>5 DEF EvList
<1>20. Events!Events' = {}
  BY <1>2 DEF Events!Events
<1>21. EvHandles' /\ EvWakes'
  BY <1>2, <1>20 DEF EvHandles, EvWakes
<1>22. EvSleeps'
  BY <1>17 DEF EvSleeps
<1> QED
  BY <1>4, <1>16, <1>19, <1>21, <1>22 DEF EvSound

\* The invariant holds at first ...
LEMMA EvInit == Events!Init => EvIInv
<1> SUFFICES ASSUME Events!Init PROVE EvSound
  BY DEF EvIInv, Events!Init
<1>1. nodes = <<>> /\ Len(nodes) = 0 /\ mlist = None /\ handles = {} /\ raced = FALSE
  BY DEF Events!Init
<1>2. \A t \in EventThread : at[t].step = "idle" /\ at[t] \in EvAt
  BY DEF Events!Init, Events!Idle, EvAt
<1>3. EvTypes
  <2>1. <<>> \in Seq(EvNode) /\ FALSE \in BOOLEAN
    OBVIOUS
  <2>2. at \in [EventThread -> EvAt]
    BY <1>2 DEF Events!Init
  <2> QED
    BY <1>1, <2>1, <2>2 DEF EvTypes
<1>4. Events!Creating = {} /\ Events!Events = {}
  BY <1>1, <1>2 DEF Events!Creating, Events!Events
<1>5. EvLinked = 0 /\ EvFilled = 0
  BY <1>1, <1>2, <1>4 DEF EvLinked, EvFilled
<1>6. EvList
  BY <1>1, <1>2, <1>5 DEF EvList
<1>7. EvHandles /\ EvSleeps /\ EvWakes
  BY <1>1, <1>2, <1>4 DEF EvHandles, EvSleeps, EvWakes
<1> QED
  BY <1>3, <1>4, <1>6, <1>7 DEF EvSound

\* ... and is kept by every step.
LEMMA EvStep == EvIInv /\ Events!Next => EvIInv'
<1> SUFFICES ASSUME EvIInv, Events!Next PROVE EvIInv'
  OBVIOUS
<1>1. ASSUME NEW t \in EventThread, NEW name \in ObjectName \cup {None},
             \/ \E reset \in BOOLEAN, state \in 0..1, kept \in BOOLEAN : Events!CreateEventA(t, reset, state, name, kept)
             \/ Events!CreateSemaphoreA(t, name)
      PROVE  EvIInv'
  <2>1. raced' \in BOOLEAN /\ (~raced' => ~raced)
    BY <1>1 DEF EvIInv, Events!CreateEventA, Events!CreateSemaphoreA, Events!NewNode
  <2> QED
    BY <1>1, <2>1, EvCreate DEF EvIInv
<1>2. ASSUME raced' = raced, EvSound => EvSound' PROVE EvIInv'
  BY <1>2 DEF EvIInv
<1>3. CASE Events!my_garbagecollection
  <2>1. raced' = raced
    BY <1>3 DEF Events!my_garbagecollection
  <2> QED
    BY <1>2, <1>3, <2>1, EvCollect
<1>4. ASSUME NEW t \in EventThread, Events!Link(t) \/ Events!Advance(t) \/ Events!Fill(t) PROVE EvIInv'
  <2>1. raced' = raced
    BY <1>4 DEF Events!Link, Events!Advance, Events!Fill
  <2> QED
    BY <1>2, <1>4, <2>1, EvLink, EvAdvance, EvFill
<1>5. ASSUME NEW t \in EventThread, NEW h \in Events!Events, Events!SetEvent(t, h) \/ Events!ResetEvent(t, h) PROVE EvIInv'
  <2>1. raced' = raced
    BY <1>5 DEF Events!SetEvent, Events!ResetEvent
  <2> QED
    BY <1>2, <1>5, <2>1, EvSetEvent
<1>6. ASSUME NEW t \in EventThread, Events!SetEventOfMutex(t) PROVE EvIInv'
  <2>1. UNCHANGED <<mlist, nodes, at, handles, raced, stranded>>
    BY <1>6 DEF Events!SetEventOfMutex
  <2> QED
    BY <1>2, <2>1, EvStays
<1>7. ASSUME NEW t \in EventThread,
             \/ \E h \in Events!Events, timed \in BOOLEAN : Events!WaitForSingleObject(t, h, timed)
             \/ \E g, h \in Events!Events, all \in BOOLEAN : Events!WaitForMultipleObjects(t, <<g, h>>, all, FALSE)
             \/ Events!NextOfAll(t)
      PROVE EvIInv'
  <2>1. raced' = raced
    BY <1>7 DEF Events!WaitForSingleObject, Events!WaitForMultipleObjects, Events!NextOfAll
  <2> QED
    BY <1>2, <1>7, <2>1, EvWaitFor
<1>8. ASSUME NEW t \in EventThread, Events!TimesOut(t) \/ Events!WaitReturns(t) PROVE EvIInv'
  <2>1. raced' = raced
    BY <1>8 DEF Events!TimesOut, Events!WaitReturns
  <2> QED
    BY <1>2, <1>8, <2>1, EvTimesOut, EvWaitReturns
<1>9. CASE \E t \in EventThread, name \in ObjectName \cup {None} :
             \/ \E reset \in BOOLEAN, state \in 0..1 : (name = None \/ state = 0) /\ Events!CreateEventA(t, reset, state, name, TRUE)
             \/ Events!CreateMutexA(t, name) \/ Events!CreateSemaphoreA(t, name)
  <2>1. PICK t \in EventThread, name \in ObjectName \cup {None} :
             \/ \E reset \in BOOLEAN, state \in 0..1 : (name = None \/ state = 0) /\ Events!CreateEventA(t, reset, state, name, TRUE)
             \/ Events!CreateMutexA(t, name) \/ Events!CreateSemaphoreA(t, name)
    BY <1>9
  <2>2. ASSUME NEW reset \in BOOLEAN, NEW state \in 0..1, Events!CreateEventA(t, reset, state, name, TRUE) PROVE EvIInv'
    <3>1. TRUE \in BOOLEAN
      OBVIOUS
    <3> QED
      BY <1>1, <2>2, <3>1
  <2>3. CASE Events!CreateMutexA(t, name)
    <3>1. Events!CreateEventA(t, FALSE, 0, name, FALSE)
      BY <2>3, Zenon DEF Events!CreateMutexA
    <3>2. FALSE \in BOOLEAN /\ 0 \in 0..1
      OBVIOUS
    <3>3. \E reset \in BOOLEAN, state \in 0..1, kept \in BOOLEAN : Events!CreateEventA(t, reset, state, name, kept)
      BY <3>1, <3>2, Zenon
    <3> QED
      BY <1>1, <3>3
  <2>4. CASE Events!CreateSemaphoreA(t, name)
    BY <1>1, <2>4
  <2> QED
    BY <2>1, <2>2, <2>3, <2>4
<1>10. CASE \E t \in Sleeper :
       \/ \E h \in Events!Events, timed \in BOOLEAN : Events!WaitForSingleObject(t, h, timed)
       \/ \E g, h \in Events!Events, all \in BOOLEAN : g # h /\ Events!WaitForMultipleObjects(t, <<g, h>>, all, FALSE)
       \/ Events!NextOfAll(t) \/ Events!TimesOut(t) \/ Events!WaitReturns(t)
  <2>1. PICK t \in Sleeper :
       \/ \E h \in Events!Events, timed \in BOOLEAN : Events!WaitForSingleObject(t, h, timed)
       \/ \E g, h \in Events!Events, all \in BOOLEAN : g # h /\ Events!WaitForMultipleObjects(t, <<g, h>>, all, FALSE)
       \/ Events!NextOfAll(t) \/ Events!TimesOut(t) \/ Events!WaitReturns(t)
    BY <1>10
  <2>2. t \in EventThread
    BY SleeperAssumption
  <2> QED
    BY <1>7, <1>8, <2>1, <2>2
<1> QED
  BY <1>3, <1>4, <1>5, <1>6, <1>9, <1>10 DEF Events!Next

\* What the invariant is for.
LEMMA EvGood == EvIInv => Events!EventsWake /\ Events!ObjectsListed
<1> SUFFICES ASSUME EvIInv, ~raced PROVE Events!EventsWake /\ Events!ObjectsListed
  BY DEF Events!EventsWake, Events!ObjectsListed
<1>1. EvSound
  BY DEF EvIInv
<1>2. Events!EventsWake
  BY <1>1 DEF EvSound, EvWakes, Events!EventsWake
<1>3. ASSUME Events!Creating = {}
      PROVE  /\ Events!Reachable = 1..Len(nodes)
             /\ \A m, n \in 1..Len(nodes) :
                  nodes[m].type = nodes[n].type /\ nodes[m].name = nodes[n].name => m = n \/ nodes[m].name = None
             /\ \A h \in handles : h.of \in {"event", "semaphore"} => nodes[h.node].type = IF h.of = "event" THEN 0 ELSE 1
  <2>1. EvFilled = Len(nodes) /\ Events!Reachable = 1..Len(nodes)
    BY <1>1, <1>3, EvBetween
  <2> QED
    BY <1>1, <2>1 DEF EvSound, EvList, EvHandles, EvSame
<1> QED
  BY <1>2, <1>3 DEF Events!ObjectsListed

-----------------------------------------------------------------------------
(* What belongs to threads *)

ThrStep == {Threads!Run} \cup [step : {"none", "gone"}]
           \cup [step : {"mark"}, index : Threads!Index] \cup [step : {"compare", "store"}, retval : 0..1]

ThrTypes ==
  /\ thread \in [Thread -> ThrStep] /\ tls_use_map \in [Threads!Index -> 0..1] /\ tls \in [Thread -> SUBSET Threads!Index]
  /\ lock \in 0..1 /\ inside \in SUBSET Thread /\ torn \in BOOLEAN /\ counted \in [Thread -> Nat]

ThrCounted == IsFiniteSet(Threads!References) /\ refs = Cardinality(Threads!References)

\* One thread at a time is about to mark an index, which nobody owns; the others
\* have one owner or none.
ThrSlots ==
  /\ \A t, u \in Thread : thread[t].step = "mark" /\ thread[u].step = "mark" => t = u
  /\ \A t \in Thread : thread[t].step = "mark" => tls_use_map[thread[t].index] = 0
  /\ \A t, u \in Thread, i \in Threads!Index : i \in tls[t] /\ i \in tls[u] => t = u
  /\ \A i \in Threads!Index : tls_use_map[i] = 1 <=> \E t \in Thread : i \in tls[t]

\* One thread at a time is about to take the lock, which nobody has.
ThrLock ==
  /\ \A t, u \in Thread : thread[t].step = "store" /\ thread[u].step = "store" => t = u
  /\ \A t \in Thread : thread[t].step = "store" => lock = 0 /\ thread[t].retval = 0
  /\ \A t, u \in inside : t = u
  /\ lock = 1 <=> inside # {}

ThrIInv == ThrTypes /\ ThrCounted /\ (~torn => ThrSlots /\ ThrLock)

\* What a thread that is inside a call knows.
LEMMA ThrKinds ==
  ASSUME ThrTypes, NEW t \in Thread
  PROVE  /\ thread[t].step = "mark" => thread[t] \in [step : {"mark"}, index : Threads!Index]
         /\ thread[t].step \in {"compare", "store"} => thread[t] \in [step : {"compare", "store"}, retval : 0..1]
         /\ thread[t].step \in {"run", "none", "gone", "mark", "compare", "store"}
         /\ Threads!Run.step = "run"
<1>1. thread[t] \in ThrStep
  BY DEF ThrTypes
<1> QED
  BY <1>1 DEF ThrStep, Threads!Run

\* What a thread does changes, to something of the same kind.
LEMMA ThrMoves ==
  ASSUME ThrTypes, NEW t \in Thread, NEW what \in ThrStep, thread' = [thread EXCEPT ![t] = what]
  PROVE  /\ thread' \in [Thread -> ThrStep] /\ thread'[t] = what
         /\ \A u \in Thread : u # t => thread'[u] = thread[u]
BY DEF ThrTypes

\* The invariant holds at first.
LEMMA ThrInit == Threads!Init => ThrIInv
<1> SUFFICES ASSUME Threads!Init PROVE ThrIInv
  OBVIOUS
<1>1. \A t \in Thread : thread[t] \in ThrStep /\ thread[t].step \in {"run", "none"}
  BY DEF Threads!Init, Threads!Run, ThrStep
<1>2. ThrTypes
  <2>1. thread \in [Thread -> ThrStep]
    BY <1>1 DEF Threads!Init
  <2>2. tls_use_map \in [Threads!Index -> 0..1] /\ tls \in [Thread -> SUBSET Threads!Index]
    BY DEF Threads!Init
  <2>3. lock = 0 /\ inside = {} /\ torn = FALSE
    BY DEF Threads!Init
  <2>4. counted \in [Thread -> Nat]
    BY DEF Threads!Init
  <2>5. 0 \in 0..1 /\ {} \in SUBSET Thread /\ FALSE \in BOOLEAN
    OBVIOUS
  <2> QED
    BY <2>1, <2>2, <2>3, <2>4, <2>5, Zenon DEF ThrTypes
<1>3. Threads!References = {}
  BY DEF Threads!Init, Threads!References
<1>4. ThrCounted
  BY <1>3, FS_EmptySet DEF ThrCounted, Threads!Init
<1>5. ThrSlots
  BY <1>1 DEF ThrSlots, Threads!Init
<1>6. ThrLock
  BY <1>1 DEF ThrLock, Threads!Init
<1> QED
  BY <1>2, <1>4, <1>5, <1>6 DEF ThrIInv

\* It is kept when a thread comes or goes ...
LEMMA ThrThread ==
  ASSUME ThrIInv, NEW t \in Thread, NEW u \in Thread, Threads!ExitThread(t) \/ Threads!CreateThread(t, u)
  PROVE  ThrIInv'
<1>1. ThrTypes /\ UNCHANGED <<tls_use_map, tls, counted, inside, torn, lock, refs>>
  BY DEF ThrIInv, Threads!ExitThread, Threads!CreateThread
<1>2. PICK w \in Thread, what \in ThrStep : thread' = [thread EXCEPT ![w] = what] /\ what.step \in {"run", "gone"}
  <2>1. CASE Threads!ExitThread(t)
    <3>1. [thread[t] EXCEPT !.step = "gone"] = [step |-> "gone"] /\ [step |-> "gone"] \in ThrStep
      BY <2>1 DEF Threads!ExitThread, Threads!Runs, Threads!Run, ThrStep
    <3>2. thread' = [thread EXCEPT ![t] = [step |-> "gone"]]
      BY <2>1, <3>1 DEF Threads!ExitThread
    <3> QED
      BY <3>1, <3>2
  <2>2. CASE Threads!CreateThread(t, u)
    <3>1. thread' = [thread EXCEPT ![u] = Threads!Run] /\ Threads!Run \in ThrStep /\ Threads!Run.step = "run"
      BY <2>2 DEF Threads!CreateThread, ThrStep, Threads!Run
    <3> QED
      BY <3>1
  <2> QED
    BY <2>1, <2>2
<1>3. /\ thread' \in [Thread -> ThrStep] /\ thread'[w] = what
      /\ \A v \in Thread : v # w => thread'[v] = thread[v]
  BY <1>1, <1>2, ThrMoves
<1>4. ThrTypes'
  BY <1>1, <1>3 DEF ThrTypes
<1>5. ThrCounted'
  BY <1>1 DEF ThrIInv, ThrCounted, Threads!References
<1>6. ~torn => ThrSlots' /\ ThrLock'
  BY <1>1, <1>2, <1>3 DEF ThrIInv, ThrSlots, ThrLock
<1> QED
  BY <1>1, <1>4, <1>5, <1>6 DEF ThrIInv

\* ... by the calls for TLS indices ...
LEMMA ThrTls ==
  ASSUME ThrIInv, Threads!TlsNext
  PROVE  ThrIInv'
<1>1. ThrTypes /\ ThrCounted /\ torn \in BOOLEAN
  BY DEF ThrIInv, ThrTypes
<1>2. \A i \in Threads!Index : i \in Int
  BY SlotsAssumption DEF Threads!Index
<1>3. ASSUME NEW t \in Thread, Threads!TlsScan(t) PROVE ThrIInv'
  <2>1. PICK i \in Threads!Index : tls_use_map[i] = 0 /\ thread' = [thread EXCEPT ![t] = [step |-> "mark", index |-> i]]
    BY <1>3 DEF Threads!TlsScan
  <2> DEFINE what == [step |-> "mark", index |-> i]
  <2>2. what \in ThrStep /\ what.step = "mark" /\ what.index = i
    BY DEF ThrStep
  <2>3. UNCHANGED <<tls_use_map, tls, counted, inside, lock, refs>> /\ torn' = (torn \/ Threads!Between("mark") # {})
    BY <1>3 DEF Threads!TlsScan
  <2> HIDE DEF what
  <2>4. /\ thread' \in [Thread -> ThrStep] /\ thread'[t] = what
        /\ \A v \in Thread : v # t => thread'[v] = thread[v]
    BY <1>1, <2>1, <2>2, ThrMoves DEF what
  <2>5. ThrTypes'
    BY <1>1, <2>3, <2>4 DEF ThrTypes
  <2>6. ThrCounted'
    BY <1>1, <2>3 DEF ThrCounted, Threads!References
  <2>7. ASSUME ~torn' PROVE ThrSlots' /\ ThrLock'
    <3>1. ~torn
      BY <2>3, <2>7, Zenon
    <3>2. Threads!Between("mark") = {}
      BY <2>3, <2>7, Zenon
    <3>3. \A v \in Thread : thread[v].step # "mark"
      BY <3>2 DEF Threads!Between
    <3>4. ThrSlots /\ ThrLock
      BY <3>1, Zenon DEF ThrIInv
    <3>5. ThrSlots'
      BY <2>1, <2>2, <2>3, <2>4, <3>3, <3>4 DEF ThrSlots
    <3>6. ThrLock'
      BY <2>2, <2>3, <2>4, <3>4 DEF ThrLock
    <3> QED
      BY <3>5, <3>6
  <2> QED
    BY <2>5, <2>6, <2>7 DEF ThrIInv
<1>4. ASSUME NEW t \in Thread, Threads!TlsMark(t) PROVE ThrIInv'
  <2> DEFINE i == thread[t].index
  <2>1. /\ tls_use_map' = [tls_use_map EXCEPT ![i] = 1] /\ tls' = [tls EXCEPT ![t] = tls[t] \cup {i}]
        /\ thread' = [thread EXCEPT ![t] = Threads!Run] /\ UNCHANGED <<counted, inside, lock, refs, torn>>
        /\ thread[t].step = "mark"
    BY <1>4 DEF Threads!TlsMark
  <2>2. i \in Threads!Index
    BY <1>1, <2>1, ThrKinds
  <2>3. Threads!Run \in ThrStep /\ Threads!Run.step = "run"
    BY DEF ThrStep, Threads!Run
  <2>4. /\ thread' \in [Thread -> ThrStep] /\ thread'[t] = Threads!Run
        /\ \A v \in Thread : v # t => thread'[v] = thread[v]
    BY <1>1, <2>1, <2>3, ThrMoves
  <2> HIDE DEF i
  <2>5. /\ tls_use_map'[i] = 1 /\ \A j \in Threads!Index : j # i => tls_use_map'[j] = tls_use_map[j]
        /\ tls'[t] = tls[t] \cup {i} /\ \A v \in Thread : v # t => tls'[v] = tls[v]
    BY <1>1, <2>1, <2>2 DEF ThrTypes
  <2>6. ThrTypes'
    <3>1. tls_use_map' \in [Threads!Index -> 0..1]
      <4>1. 0 \in 0..1 /\ 1 \in 0..1
        OBVIOUS
      <4> QED
        BY <1>1, <2>1, <4>1, Zenon DEF ThrTypes
    <3>2. tls' \in [Thread -> SUBSET Threads!Index]
      BY <1>1, <2>1, <2>2 DEF ThrTypes
    <3> QED
      BY <1>1, <2>1, <2>4, <3>1, <3>2 DEF ThrTypes
  <2>7. ThrCounted'
    BY <1>1, <2>1 DEF ThrCounted, Threads!References
  <2>8. ASSUME ~torn PROVE ThrSlots' /\ ThrLock'
    <3>1. ThrSlots /\ ThrLock /\ tls_use_map[i] = 0
      BY <2>1, <2>8 DEF ThrIInv, ThrSlots, i
    <3>2. \A v \in Thread : i \notin tls[v]
      BY <2>2, <3>1 DEF ThrSlots
    <3>3. ThrLock'
      BY <2>1, <2>3, <2>4, <3>1 DEF ThrLock
    <3>4. \A v \in Thread : thread'[v].step # "mark"
      BY <2>1, <2>3, <2>4, <3>1 DEF ThrSlots
    <3>5. \A v, u \in Thread, j \in Threads!Index : j \in tls'[v] /\ j \in tls'[u] => v = u
      BY <2>5, <3>1, <3>2 DEF ThrSlots
    <3>6. \A j \in Threads!Index : tls_use_map'[j] = 1 <=> \E v \in Thread : j \in tls'[v]
      BY <2>5, <3>1 DEF ThrSlots
    <3> QED
      BY <3>3, <3>4, <3>5, <3>6 DEF ThrSlots
  <2> QED
    BY <2>1, <2>6, <2>7, <2>8 DEF ThrIInv
<1>5. ASSUME NEW t \in Thread, NEW i, NEW v, Threads!TlsSetValue(t, i, v) PROVE ThrIInv'
  BY <1>5 DEF Threads!TlsSetValue, ThrIInv, ThrTypes, ThrCounted, Threads!References, ThrSlots, ThrLock
<1>6. ASSUME NEW t \in Thread, NEW i \in Threads!Index, Threads!TlsFree(t, i) PROVE ThrIInv'
  <2>1. /\ tls_use_map' = [tls_use_map EXCEPT ![i] = 0] /\ tls' = [tls EXCEPT ![t] = tls[t] \ {i}]
        /\ i \in tls[t] /\ UNCHANGED <<thread, counted, inside, lock, refs, torn>>
    BY <1>6 DEF Threads!TlsFree
  <2>2. /\ tls_use_map'[i] = 0 /\ \A j \in Threads!Index : j # i => tls_use_map'[j] = tls_use_map[j]
        /\ tls'[t] = tls[t] \ {i} /\ \A v \in Thread : v # t => tls'[v] = tls[v]
    BY <1>1, <2>1 DEF ThrTypes
  <2>3. ThrTypes'
    <3>1. tls_use_map' \in [Threads!Index -> 0..1]
      <4>1. 0 \in 0..1 /\ 1 \in 0..1
        OBVIOUS
      <4> QED
        BY <1>1, <2>1, <4>1, Zenon DEF ThrTypes
    <3>2. tls' \in [Thread -> SUBSET Threads!Index]
      BY <1>1, <2>1 DEF ThrTypes
    <3> QED
      BY <1>1, <2>1, <3>1, <3>2 DEF ThrTypes
  <2>4. ThrCounted'
    BY <1>1, <2>1 DEF ThrCounted, Threads!References
  <2>5. ASSUME ~torn PROVE ThrSlots' /\ ThrLock'
    <3>1. ThrSlots /\ ThrLock
      BY <2>5 DEF ThrIInv
    <3>2. ThrLock'
      BY <2>1, <3>1 DEF ThrLock
    <3>3. \A v, u \in Thread : thread[v].step = "mark" /\ thread[u].step = "mark" => v = u
      BY <3>1 DEF ThrSlots
    <3>4. \A v \in Thread : thread[v].step = "mark" => tls_use_map'[thread[v].index] = 0
      <4> TAKE v \in Thread
      <4> HAVE thread[v].step = "mark"
      <4>1. thread[v].index \in Threads!Index /\ tls_use_map[thread[v].index] = 0
        BY <1>1, <3>1, ThrKinds DEF ThrSlots
      <4> QED
        BY <2>2, <4>1
    <3>5. \A v, u \in Thread, j \in Threads!Index : j \in tls'[v] /\ j \in tls'[u] => v = u
      BY <2>2, <3>1 DEF ThrSlots
    <3>6. \A j \in Threads!Index : tls_use_map'[j] = 1 <=> \E v \in Thread : j \in tls'[v]
      <4>1. \A v \in Thread : i \notin tls'[v]
        BY <2>1, <2>2, <3>1 DEF ThrSlots
      <4>2. \A j \in Threads!Index, v \in Thread : j # i => (j \in tls'[v] <=> j \in tls[v])
        BY <2>2
      <4>3. \A j \in Threads!Index : tls_use_map[j] = 1 <=> \E v \in Thread : j \in tls[v]
        BY <3>1 DEF ThrSlots
      <4> QED
        BY <2>2, <4>1, <4>2, <4>3
    <3> QED
      BY <2>1, <3>2, <3>3, <3>4, <3>5, <3>6 DEF ThrSlots
  <2> QED
    BY <2>1, <2>3, <2>4, <2>5 DEF ThrIInv
<1> QED
  BY <1>3, <1>4, <1>5, <1>6 DEF Threads!TlsNext

\* ... by the interlocked counts ...
LEMMA ThrCounts ==
  ASSUME ThrIInv, NEW t \in Thread, Threads!InterlockedIncrement(t) \/ Threads!InterlockedDecrement(t)
  PROVE  ThrIInv'
<1>1. ThrTypes /\ ThrCounted /\ UNCHANGED <<thread, tls_use_map, lock, tls, inside, torn>>
  BY DEF ThrIInv, Threads!InterlockedIncrement, Threads!InterlockedDecrement
<1>2. ~torn => ThrSlots' /\ ThrLock'
  BY <1>1 DEF ThrIInv, ThrSlots, ThrLock
<1> DEFINE n == counted[t]
           R == Threads!References
<1>3. n \in Nat /\ \A u \in Thread : counted[u] \in Nat
  BY <1>1 DEF ThrTypes
<1>4. \A r : r \in R <=> \E u \in Thread : \E m \in 1..counted[u] : r = <<u, m>>
  BY DEF Threads!References
<1>5. \A r : r \in R' <=> \E u \in Thread : \E m \in 1..counted'[u] : r = <<u, m>>
  BY DEF Threads!References
<1> HIDE DEF R
<1>6. CASE Threads!InterlockedIncrement(t)
  <2>1. counted' = [counted EXCEPT ![t] = n + 1] /\ refs' = refs + 1
    BY <1>6 DEF Threads!InterlockedIncrement, Threads!InterlockedExchangeAdd
  <2>2. counted'[t] = n + 1 /\ (\A u \in Thread : u # t => counted'[u] = counted[u]) /\ counted' \in [Thread -> Nat]
    BY <1>1, <1>3, <2>1 DEF ThrTypes
  <2> DEFINE new == <<t, n + 1>>
  <2>3. R' = R \cup {new} /\ new \notin R
    <3>1. \A u \in Thread : \A m : m \in 1..counted'[u] <=> m \in 1..counted[u] \/ (u = t /\ m = n + 1)
      BY <1>3, <2>2
    <3>2. \A r : r \in R' <=> r \in R \/ r = new
      <4>1. ASSUME NEW r \in R' PROVE r \in R \/ r = new
        BY <1>4, <1>5, <3>1
      <4>2. ASSUME NEW r \in R PROVE r \in R'
        BY <1>4, <1>5, <3>1
      <4>3. new \in R'
        <5>1. n + 1 \in 1..counted'[t]
          BY <3>1
        <5> QED
          BY <1>5, <5>1
      <4> QED
        BY <4>1, <4>2, <4>3
    <3>3. new \notin R
      BY <1>3, <1>4
    <3> QED
      BY <3>2, <3>3
  <2> HIDE DEF new
  <2>4. IsFiniteSet(R') /\ Cardinality(R') = Cardinality(R) + 1
    BY <1>1, <2>3, FS_AddElement DEF ThrCounted, R
  <2>5. ThrTypes' /\ ThrCounted'
    BY <1>1, <2>1, <2>2, <2>4 DEF ThrTypes, ThrCounted, R
  <2> QED
    BY <1>1, <1>2, <2>5 DEF ThrIInv
<1>7. CASE Threads!InterlockedDecrement(t)
  <2>1. counted' = [counted EXCEPT ![t] = n - 1] /\ refs' = refs + (-1) /\ n > 0
    BY <1>7 DEF Threads!InterlockedDecrement, Threads!InterlockedExchangeAdd
  <2>2. counted'[t] = n - 1 /\ (\A u \in Thread : u # t => counted'[u] = counted[u]) /\ counted' \in [Thread -> Nat]
    BY <1>1, <1>3, <2>1 DEF ThrTypes
  <2> DEFINE gone == <<t, n>>
  <2>3. R' = R \ {gone} /\ gone \in R
    <3>1. \A u \in Thread : \A m : m \in 1..counted'[u] <=> m \in 1..counted[u] /\ ~(u = t /\ m = n)
      BY <1>3, <2>2
    <3>2. \A r : r \in R' <=> r \in R /\ r # gone
      <4>1. ASSUME NEW r \in R' PROVE r \in R /\ r # gone
        BY <1>4, <1>5, <3>1
      <4>2. ASSUME NEW r \in R, r # gone PROVE r \in R'
        BY <1>4, <1>5, <3>1, <4>2
      <4> QED
        BY <4>1, <4>2
    <3>3. gone \in R
      <4>1. n \in 1..counted[t]
        BY <1>3, <2>1
      <4> QED
        BY <1>4, <4>1
    <3> QED
      BY <3>2, <3>3
  <2> HIDE DEF gone
  <2>4. IsFiniteSet(R') /\ Cardinality(R') = Cardinality(R) - 1 /\ Cardinality(R) \in Nat
    BY <1>1, <2>3, FS_RemoveElement, FS_CardinalityType DEF ThrCounted, R
  <2>5. ThrTypes' /\ ThrCounted'
    BY <1>1, <2>1, <2>2, <2>4 DEF ThrTypes, ThrCounted, R
  <2> QED
    BY <1>1, <1>2, <2>5 DEF ThrIInv
<1> QED
  BY <1>6, <1>7

\* ... by the word that is taken as a lock ...
LEMMA ThrWord ==
  ASSUME ThrIInv, NEW t \in Thread,
         \/ Threads!CompareLoad(t) \/ Threads!CompareTest(t)
         \/ Threads!CompareStore(t) \/ Threads!InterlockedExchange(t)
  PROVE  ThrIInv'
<1>1. ThrTypes /\ ThrCounted /\ UNCHANGED <<tls_use_map, tls, counted, refs>>
  BY DEF ThrIInv, Threads!CompareLoad, Threads!CompareTest, Threads!CompareStore, Threads!InterlockedExchange
<1>2. ThrCounted'
  BY <1>1 DEF ThrCounted, Threads!References
<1>3. CASE Threads!CompareLoad(t)
  <2> DEFINE what == [step |-> "compare", retval |-> lock]
  <2>1. thread' = [thread EXCEPT ![t] = what] /\ UNCHANGED <<lock, inside, torn>>
    BY <1>3 DEF Threads!CompareLoad
  <2>2. what \in ThrStep /\ what.step = "compare"
    BY <1>1 DEF ThrTypes, ThrStep
  <2> HIDE DEF what
  <2>3. /\ thread' \in [Thread -> ThrStep] /\ thread'[t] = what
        /\ \A v \in Thread : v # t => thread'[v] = thread[v]
    BY <1>1, <2>1, <2>2, ThrMoves
  <2>4. ThrTypes'
    BY <1>1, <2>1, <2>3 DEF ThrTypes
  <2>5. ~torn => ThrSlots' /\ ThrLock'
    BY <1>1, <2>1, <2>2, <2>3 DEF ThrIInv, ThrSlots, ThrLock
  <2> QED
    BY <1>2, <2>1, <2>4, <2>5 DEF ThrIInv
<1>4. CASE Threads!CompareTest(t)
  <2> DEFINE what == IF lock = 0 THEN [thread[t] EXCEPT !.step = "store"] ELSE Threads!Run
  <2>1. /\ thread' = [thread EXCEPT ![t] = what] /\ UNCHANGED <<lock, inside>> /\ thread[t].step = "compare"
        /\ torn' = (torn \/ thread[t].retval # lock \/ (lock = 0 /\ Threads!Between("store") # {}))
    BY <1>4 DEF Threads!CompareTest
  <2>2. thread[t] \in [step : {"compare", "store"}, retval : 0..1]
    BY <1>1, <2>1, ThrKinds
  <2>3. /\ what \in ThrStep
        /\ what.step = IF lock = 0 THEN "store" ELSE "run"
        /\ lock = 0 => what.retval = thread[t].retval
    <3>1. CASE lock = 0
      BY <2>2, <3>1 DEF ThrStep
    <3>2. CASE lock # 0
      BY <3>2 DEF ThrStep, Threads!Run
    <3> QED
      BY <3>1, <3>2
  <2> HIDE DEF what
  <2>4. /\ thread' \in [Thread -> ThrStep] /\ thread'[t] = what
        /\ \A v \in Thread : v # t => thread'[v] = thread[v]
    BY <1>1, <2>1, <2>3, ThrMoves
  <2>5. torn' \in BOOLEAN /\ (~torn' => ~torn /\ thread[t].retval = lock /\ (lock = 0 => \A u \in Thread : thread[u].step # "store"))
    BY <1>1, <2>1 DEF ThrTypes, Threads!Between
  <2>6. ThrTypes'
    BY <1>1, <2>1, <2>4, <2>5 DEF ThrTypes
  <2>7. ASSUME ~torn' PROVE ThrSlots' /\ ThrLock'
    <3>1. ThrSlots /\ ThrLock
      BY <2>5, <2>7 DEF ThrIInv
    <3>2. what.step # "mark"
      BY <2>3
    <3>3. ThrSlots'
      BY <1>1, <2>4, <3>1, <3>2 DEF ThrSlots
    <3>4. ThrLock'
      BY <2>1, <2>3, <2>4, <2>5, <2>7, <3>1 DEF ThrLock
    <3> QED
      BY <3>3, <3>4
  <2> QED
    BY <1>2, <2>6, <2>7 DEF ThrIInv
<1>5. CASE Threads!CompareStore(t)
  <2>1. /\ thread' = [thread EXCEPT ![t] = Threads!Run] /\ lock' = 1 /\ UNCHANGED torn /\ thread[t].step = "store"
        /\ inside' = IF thread[t].retval = 0 THEN inside \cup {t} ELSE inside
    BY <1>5 DEF Threads!CompareStore
  <2>2. Threads!Run \in ThrStep /\ Threads!Run.step = "run"
    BY DEF ThrStep, Threads!Run
  <2>3. /\ thread' \in [Thread -> ThrStep] /\ thread'[t] = Threads!Run
        /\ \A v \in Thread : v # t => thread'[v] = thread[v]
    BY <1>1, <2>1, <2>2, ThrMoves
  <2>4. ThrTypes'
    BY <1>1, <2>1, <2>3 DEF ThrTypes
  <2>5. ASSUME ~torn PROVE ThrSlots' /\ ThrLock'
    <3>1. ThrSlots /\ ThrLock
      BY <2>5 DEF ThrIInv
    <3>2. ThrSlots'
      BY <1>1, <2>2, <2>3, <3>1 DEF ThrSlots
    <3>3. inside = {} /\ inside' = {t}
      BY <2>1, <3>1 DEF ThrLock
    <3>4. ThrLock'
      BY <2>1, <2>2, <2>3, <3>1, <3>3 DEF ThrLock
    <3> QED
      BY <3>2, <3>4
  <2> QED
    BY <1>2, <2>1, <2>4, <2>5 DEF ThrIInv
<1>6. CASE Threads!InterlockedExchange(t)
  <2>1. lock' = 0 /\ inside' = inside \ {t} /\ t \in inside /\ UNCHANGED <<thread, torn>>
    BY <1>6 DEF Threads!InterlockedExchange
  <2>2. ThrTypes'
    BY <1>1, <2>1 DEF ThrTypes
  <2>3. ASSUME ~torn PROVE ThrSlots' /\ ThrLock'
    <3>1. ThrSlots /\ ThrLock
      BY <2>3 DEF ThrIInv
    <3>2. ThrSlots'
      BY <1>1, <2>1, <3>1 DEF ThrSlots
    <3>3. inside' = {} /\ lock # 0
      BY <2>1, <3>1 DEF ThrLock
    <3>4. ThrLock'
      BY <2>1, <3>1, <3>3 DEF ThrLock
    <3> QED
      BY <3>2, <3>4
  <2> QED
    BY <1>2, <2>1, <2>2, <2>3 DEF ThrIInv
<1> QED
  BY <1>3, <1>4, <1>5, <1>6

\* ... and so by every step.
LEMMA ThrStepKeeps == ThrIInv /\ (Threads!ThreadNext \/ Threads!TlsNext \/ Threads!WordNext) => ThrIInv'
BY ThrThread, ThrTls, ThrCounts, ThrWord DEF Threads!ThreadNext, Threads!WordNext

\* A set has as many elements for the module of threads.
LEMMA ThrCardinality == ASSUME NEW S PROVE Threads!Cardinality(S) = Cardinality(S)
BY Zenon DEF Threads!Cardinality, Cardinality

\* What the invariant is for.
LEMMA ThrGood == ThrIInv => Threads!SlotsOwned
<1> SUFFICES ASSUME ThrIInv PROVE Threads!SlotsOwned
  OBVIOUS
<1>1. ThrTypes /\ refs = Cardinality(Threads!References)
  BY DEF ThrIInv, ThrCounted
<1>2. Threads!TlsGetValue(-1) = Threads!Null
  BY SlotsAssumption DEF Threads!TlsGetValue, Threads!Index
<1>3. ASSUME ~torn, NEW i \in Threads!Index
      PROVE  tls_use_map[i] = Cardinality({t \in Thread : i \in tls[t]})
  <2> DEFINE O == {t \in Thread : i \in tls[t]}
  <2>1. tls_use_map[i] \in 0..1 /\ (tls_use_map[i] = 1 <=> O # {}) /\ \A t, u \in O : t = u
    BY <1>1, <1>3 DEF ThrIInv, ThrSlots, ThrTypes
  <2> HIDE DEF O
  <2>2. CASE O = {}
    BY <2>1, <2>2, FS_EmptySet DEF O
  <2>3. CASE O # {}
    <3>1. PICK t : O = {t}
      BY <2>1, <2>3
    <3> QED
      BY <2>1, <3>1, FS_Singleton DEF O
  <2> QED
    BY <2>2, <2>3
<1>4. ASSUME ~torn PROVE lock = Cardinality(inside)
  <2>1. lock \in 0..1 /\ (lock = 1 <=> inside # {}) /\ \A t, u \in inside : t = u
    BY <1>1, <1>4 DEF ThrIInv, ThrLock, ThrTypes
  <2>2. CASE inside = {}
    BY <2>1, <2>2, FS_EmptySet
  <2>3. CASE inside # {}
    <3>1. PICK t : inside = {t}
      BY <2>1, <2>3
    <3> QED
      BY <2>1, <3>1, FS_Singleton
  <2> QED
    BY <2>2, <2>3
<1> QED
  BY <1>1, <1>2, <1>3, <1>4, ThrCardinality DEF Threads!SlotsOwned

-----------------------------------------------------------------------------
(* The class of allocators *)

ClsEntry == Foreign \cup {Classes!Ours}

ClsTypes == com_object_table \in Seq(ClsEntry) /\ refcount \in [Allocator -> Nat] /\ AllocatorKeeper \in Nat
ClsKept == IsFiniteSet(Classes!Alive) /\ AllocatorKeeper = Cardinality(Classes!Alive)

\* The class of allocators is at p, or not there.
ClsAt(table, p) == \A i \in 1..Len(table) : table[i] = Classes!Ours <=> i = p
ClsOffered(table, n) == IF n = 0 THEN ClsAt(table, 0) ELSE \E p \in 1..Len(table) : ClsAt(table, p)

ClsIInv == ClsTypes /\ ClsKept /\ ClsOffered(com_object_table, AllocatorKeeper)

\* Nobody else registers the class of allocators.
LEMMA ClsNames == \A e \in ClsEntry : e[1] = "MemoryAllocator" <=> e = Classes!Ours
BY ForeignAssumption DEF ClsEntry, Classes!Ours

\* What a table is without an entry.
LEMMA ClsRemoves ==
  ASSUME NEW S, NEW s \in Seq(S), NEW e, NEW r, r = Classes!Unregistered(e, s)
  PROVE  \/ r = s /\ \A i \in 1..Len(s) : s[i] # e
         \/ \E k \in 1..Len(s) :
              s[k] = e /\ r \in Seq(S) /\ Without(r, s, k)
<1> DEFINE T == {i \in 1..Len(s) : s[i] = e}
<1>1. CASE T = {}
  BY <1>1 DEF Classes!Unregistered, Classes!Contains
<1>2. CASE T # {}
  <2> DEFINE k == Classes!SelectInSeq(s, LAMBDA x : x = e)
  <2>1. PICK m \in T : \A i \in T : m <= i
    <3>1. T \in SUBSET Nat
      OBVIOUS
    <3> HIDE DEF T
    <3> QED
      BY <1>2, <3>1, LeastOf
  <2>2. k = CHOOSE x \in T : \A y \in T : x <= y
    BY <1>2 DEF Classes!SelectInSeq, Classes!Min
  <2>3. k \in T
    <3> HIDE DEF T, k
    <3> QED
      BY <2>1, <2>2
  <2>4. r = Classes!RemoveAt(s, k)
    BY <1>2 DEF Classes!Unregistered, Classes!Contains
  <2> HIDE DEF k
  <2>5. k \in 1..Len(s) /\ s[k] = e
    BY <2>3
  <2>6. r = SubSeq(s, 1, k - 1) \o SubSeq(s, k + 1, Len(s))
    BY <2>4 DEF Classes!RemoveAt
  <2>7. r \in Seq(S) /\ Without(r, s, k)
    BY <2>5, <2>6, RemovedAt, Zenon
  <2> QED
    BY <2>5, <2>7
<1> QED
  BY <1>1, <1>2

\* Another entry that goes leaves the class where it is, or moves it up.
LEMMA ClsOthersGo ==
  ASSUME NEW s \in Seq(ClsEntry), NEW e \in Foreign, NEW n \in Nat, ClsOffered(s, n),
         NEW r, r = Classes!Unregistered(e, s)
  PROVE  r \in Seq(ClsEntry) /\ ClsOffered(r, n)
<1>1. e # Classes!Ours
  BY ForeignAssumption DEF Classes!Ours
<1>2. CASE r = s
  BY <1>2
<1>3. CASE r # s
  <2>1. PICK k \in 1..Len(s) :
              s[k] = e /\ r \in Seq(ClsEntry) /\ Without(r, s, k)
    BY <1>3, ClsRemoves, Zenon
  <2>0. Len(r) = Len(s) - 1 /\ \A j \in 1..(Len(s) - 1) : r[j] = IF j < k THEN s[j] ELSE s[j + 1]
    BY <2>1 DEF Without
  <2>2. PICK p \in 0..Len(s) : ClsAt(s, p) /\ (n = 0 <=> p = 0)
    BY DEF ClsOffered
  <2> DEFINE q == IF p < k THEN p ELSE p - 1
  <2>3. p # k /\ Len(s) \in Nat /\ p \in Nat /\ k \in Nat
    BY <1>1, <2>1, <2>2 DEF ClsAt
  <2>4. q \in 0..Len(r) /\ (q = 0 <=> p = 0)
    BY <2>0, <2>1, <2>2, <2>3
  <2>5. ClsAt(r, q)
    <3> SUFFICES ASSUME NEW j \in 1..Len(r) PROVE r[j] = Classes!Ours <=> j = q
      BY DEF ClsAt
    <3>1. CASE j < k
      <4>1. r[j] = s[j] /\ j \in 1..Len(s)
        BY <2>0, <2>1, <2>3, <3>1
      <4> QED
        BY <2>2, <2>3, <3>1, <4>1 DEF ClsAt
    <3>2. CASE ~(j < k)
      <4>1. r[j] = s[j + 1] /\ j + 1 \in 1..Len(s)
        BY <2>0, <2>1, <2>3, <3>2
      <4>2. s[j + 1] = Classes!Ours <=> j + 1 = p
        BY <2>2, <4>1 DEF ClsAt
      <4>3. j + 1 = p <=> j = q
        BY <2>3, <3>2
      <4> QED
        BY <4>1, <4>2, <4>3
    <3> QED
      BY <3>1, <3>2
  <2> HIDE DEF q
  <2> QED
    BY <2>1, <2>2, <2>4, <2>5 DEF ClsOffered
<1> QED
  BY <1>2, <1>3

\* The class itself goes.
LEMMA ClsGoes ==
  ASSUME NEW s \in Seq(ClsEntry), ClsOffered(s, 1), NEW r, r = Classes!Unregistered(Classes!Ours, s)
  PROVE  r \in Seq(ClsEntry) /\ ClsOffered(r, 0)
<1>1. PICK p \in 1..Len(s) : ClsAt(s, p)
  BY DEF ClsOffered
<1>2. ~\A i \in 1..Len(s) : s[i] # Classes!Ours
  BY <1>1 DEF ClsAt
<1>3. PICK k \in 1..Len(s) :
              s[k] = Classes!Ours /\ r \in Seq(ClsEntry) /\ Without(r, s, k)
  BY <1>2, ClsRemoves, Zenon
<1>0. Len(r) = Len(s) - 1 /\ \A j \in 1..(Len(s) - 1) : r[j] = IF j < k THEN s[j] ELSE s[j + 1]
  BY <1>3 DEF Without
<1>4. \A i \in 1..Len(s) : s[i] = Classes!Ours <=> i = k
  BY <1>1, <1>3 DEF ClsAt
<1>5. ASSUME NEW j \in 1..Len(r) PROVE r[j] # Classes!Ours /\ j # 0
  <2>1. CASE j < k
    <3>1. r[j] = s[j] /\ j \in 1..Len(s) /\ j # k
      BY <1>0, <1>3, <2>1
    <3> QED
      BY <1>4, <3>1
  <2>2. CASE ~(j < k)
    <3>1. r[j] = s[j + 1] /\ j + 1 \in 1..Len(s) /\ j + 1 # k
      BY <1>0, <1>3, <2>2
    <3> QED
      BY <1>4, <3>1
  <2> QED
    BY <2>1, <2>2
<1> QED
  BY <1>0, <1>3, <1>5 DEF ClsOffered, ClsAt

\* An entry more, behind the others.
LEMMA ClsComes ==
  ASSUME NEW s \in Seq(ClsEntry), NEW e \in ClsEntry, NEW n \in Nat, ClsOffered(s, n), NEW r, r = Append(s, e)
  PROVE  /\ r \in Seq(ClsEntry)
         /\ e \in Foreign => ClsOffered(r, n)
         /\ e = Classes!Ours /\ n = 0 => ClsOffered(r, 1)
<1>1. r \in Seq(ClsEntry) /\ Len(r) = Len(s) + 1 /\ Len(s) \in Nat /\ r[Len(r)] = e /\ \A i \in 1..Len(s) : r[i] = s[i]
  OBVIOUS
<1>2. PICK p \in 0..Len(s) : ClsAt(s, p) /\ (n = 0 <=> p = 0)
  BY DEF ClsOffered
<1>3. ASSUME e \in Foreign PROVE ClsOffered(r, n)
  <2>1. e # Classes!Ours
    BY <1>3, ForeignAssumption DEF Classes!Ours
  <2>2. p \in 0..Len(r) /\ p # Len(r)
    BY <1>1
  <2>3. ClsAt(r, p)
    BY <1>1, <1>2, <2>1, <2>2 DEF ClsAt
  <2> QED
    BY <1>1, <1>2, <2>2, <2>3 DEF ClsOffered
<1>4. ASSUME e = Classes!Ours, n = 0 PROVE ClsOffered(r, 1)
  <2>1. ClsAt(r, Len(r)) /\ Len(r) \in 1..Len(r)
    BY <1>1, <1>2, <1>4 DEF ClsAt
  <2> QED
    BY <2>1 DEF ClsOffered
<1> QED
  BY <1>1, <1>3, <1>4

\* The counts of one allocator change.
LEMMA ClsCounts ==
  ASSUME ClsTypes, ClsKept, NEW o \in Allocator, NEW n \in Nat, NEW f, f = [refcount EXCEPT ![o] = n], refcount' = f
  PROVE  /\ refcount' \in [Allocator -> Nat]
         /\ Classes!Alive' = IF n = 0 THEN Classes!Alive \ {o} ELSE Classes!Alive \cup {o}
         /\ IsFiniteSet(Classes!Alive')
         /\ Cardinality(Classes!Alive') =
              IF n = 0 THEN IF o \in Classes!Alive THEN AllocatorKeeper - 1 ELSE AllocatorKeeper
              ELSE IF o \in Classes!Alive THEN AllocatorKeeper ELSE AllocatorKeeper + 1
<1>1. refcount' \in [Allocator -> Nat] /\ refcount'[o] = n /\ \A u \in Allocator : u # o => refcount'[u] = refcount[u]
  BY DEF ClsTypes
<1>2. Classes!Alive' = IF n = 0 THEN Classes!Alive \ {o} ELSE Classes!Alive \cup {o}
  BY <1>1 DEF Classes!Alive
<1> DEFINE A == Classes!Alive
<1>3. IsFiniteSet(A) /\ AllocatorKeeper = Cardinality(A) /\ Cardinality(A) \in Nat
  BY FS_CardinalityType DEF ClsKept
<1> HIDE DEF A
<1>4. IsFiniteSet(A \ {o}) /\ Cardinality(A \ {o}) = IF o \in A THEN Cardinality(A) - 1 ELSE Cardinality(A)
  BY <1>3, FS_RemoveElement
<1>5. IsFiniteSet(A \cup {o}) /\ Cardinality(A \cup {o}) = IF o \in A THEN Cardinality(A) ELSE Cardinality(A) + 1
  BY <1>3, FS_AddElement
<1> QED
  BY <1>1, <1>2, <1>3, <1>4, <1>5 DEF A

\* The invariant holds at first ...
LEMMA ClsInit == Classes!Init => ClsIInv
<1> SUFFICES ASSUME Classes!Init PROVE ClsIInv
  OBVIOUS
<1>1. com_object_table = <<>> /\ AllocatorKeeper = 0 /\ Classes!Alive = {} /\ refcount \in [Allocator -> Nat]
  BY DEF Classes!Init, Classes!Alive
<1>2. Cardinality({}) = 0 /\ IsFiniteSet({})
  BY FS_EmptySet
<1> QED
  BY <1>1, <1>2 DEF ClsIInv, ClsTypes, ClsKept, ClsOffered, ClsAt

\* ... and is kept by every step.
LEMMA ClsStep == ClsIInv /\ Classes!Next => ClsIInv'
<1> SUFFICES ASSUME ClsIInv, Classes!Next PROVE ClsIInv'
  OBVIOUS
<1> DEFINE table == com_object_table
           n == AllocatorKeeper
<1>1. ClsTypes /\ ClsKept /\ ClsOffered(table, n) /\ table \in Seq(ClsEntry) /\ n \in Nat
  BY DEF ClsIInv, ClsTypes
<1>2. ASSUME NEW e \in Foreign, Classes!RegisterComClass(e) \/ Classes!UnregisterComClass(e) PROVE ClsIInv'
  <2>1. UNCHANGED <<AllocatorKeeper, refcount>>
    BY <1>2 DEF Classes!RegisterComClass, Classes!UnregisterComClass
  <2>2. e \in ClsEntry
    BY DEF ClsEntry
  <2>3. table' \in Seq(ClsEntry) /\ ClsOffered(table', n)
    <3>1. CASE table' = Append(table, e)
      BY <1>1, <2>2, <3>1, ClsComes
    <3>2. CASE table' = Classes!Unregistered(e, table)
      BY <1>1, <3>2, ClsOthersGo
    <3> QED
      BY <1>2, <3>1, <3>2 DEF Classes!RegisterComClass, Classes!UnregisterComClass, Classes!Registered
  <2> QED
    BY <1>1, <2>1, <2>3 DEF ClsIInv, ClsTypes, ClsKept, Classes!Alive
<1>3. ASSUME NEW o \in Allocator, NEW m \in Nat, refcount' = [refcount EXCEPT ![o] = m],
             n' = Cardinality(Classes!Alive'), table' \in Seq(ClsEntry), ClsOffered(table', n')
      PROVE  ClsIInv'
  <2>1. refcount' \in [Allocator -> Nat] /\ IsFiniteSet(Classes!Alive')
    BY <1>1, <1>3, ClsCounts
  <2>2. n' \in Nat
    BY <1>3, <2>1, FS_CardinalityType
  <2> QED
    BY <1>3, <2>1, <2>2 DEF ClsIInv, ClsTypes, ClsKept
<1>4. ASSUME NEW o \in Allocator, Classes!MemAllocatorCreate(o) PROVE ClsIInv'
  <2>1. /\ o \notin Classes!Alive /\ refcount' = [refcount EXCEPT ![o] = 1] /\ n' = n + 1
        /\ table' = IF n = 0 THEN Append(table, Classes!Ours) ELSE table
    BY <1>4 DEF Classes!MemAllocatorCreate, Classes!Registered
  <2>2. n' = Cardinality(Classes!Alive')
    BY <1>1, <2>1, ClsCounts
  <2>3. table' \in Seq(ClsEntry) /\ ClsOffered(table', n')
    <3>1. CASE n = 0
      <4>1. Classes!Ours \in ClsEntry
        BY DEF ClsEntry
      <4>2. table' = Append(table, Classes!Ours) /\ n' = 1
        BY <2>1, <3>1
      <4> QED
        BY <1>1, <3>1, <4>1, <4>2, ClsComes
    <3>2. CASE n # 0
      BY <1>1, <2>1, <3>2 DEF ClsOffered
    <3> QED
      BY <3>1, <3>2
  <2> QED
    BY <1>3, <2>1, <2>2, <2>3
<1>5. ASSUME NEW o \in Allocator, Classes!Release(o) PROVE ClsIInv'
  <2>1. o \in Classes!Alive /\ refcount' = [refcount EXCEPT ![o] = refcount[o] - 1] /\ refcount[o] \in Nat /\ refcount[o] > 0
    BY <1>1, <1>5 DEF Classes!Release, Classes!Alive, ClsTypes
  <2>2. refcount[o] - 1 \in Nat
    BY <2>1
  <2>3. Cardinality(Classes!Alive') = (IF refcount[o] - 1 = 0 THEN n - 1 ELSE n) /\ n > 0
    <3>1. Cardinality(Classes!Alive') = IF refcount[o] - 1 = 0 THEN n - 1 ELSE n
      BY <1>1, <2>1, <2>2, ClsCounts
    <3>2. n # 0
      BY <1>1, <2>1, FS_EmptySet DEF ClsKept
    <3> QED
      BY <1>1, <3>1, <3>2
  <2>4. n' = Cardinality(Classes!Alive') /\ table' \in Seq(ClsEntry) /\ ClsOffered(table', n')
    <3>1. CASE refcount[o] > 1
      BY <1>1, <1>5, <2>1, <2>3, <3>1 DEF Classes!Release
    <3>2. CASE ~(refcount[o] > 1)
      <4>1. refcount[o] - 1 = 0
        BY <2>1, <3>2
      <4>2. n' = n - 1 /\ table' = IF n = 1 THEN Classes!Unregistered(Classes!Ours, table) ELSE table
        BY <1>5, <3>2 DEF Classes!Release
      <4>3. CASE n = 1
        <5>1. n' = 0 /\ ClsOffered(table, 1)
          BY <1>1, <4>2, <4>3
        <5>2. table' = Classes!Unregistered(Classes!Ours, table)
          BY <4>2, <4>3
        <5> QED
          BY <1>1, <2>3, <4>1, <4>2, <5>1, <5>2, ClsGoes
      <4>4. CASE n # 1
        BY <1>1, <2>3, <4>1, <4>2, <4>4 DEF ClsOffered
      <4> QED
        BY <4>3, <4>4
    <3> QED
      BY <3>1, <3>2
  <2> QED
    BY <1>3, <2>1, <2>2, <2>4
<1>6. ASSUME NEW o \in Allocator, Classes!AddRef(o) PROVE ClsIInv'
  <2>1. /\ o \in Classes!Alive /\ refcount' = [refcount EXCEPT ![o] = refcount[o] + 1] /\ refcount[o] \in Nat
        /\ UNCHANGED <<AllocatorKeeper, com_object_table>>
    BY <1>1, <1>6 DEF Classes!AddRef, Classes!Alive, ClsTypes
  <2>2. refcount[o] + 1 \in Nat /\ refcount[o] + 1 # 0
    BY <2>1
  <2>3. n' = Cardinality(Classes!Alive')
    BY <1>1, <2>1, <2>2, ClsCounts
  <2> QED
    BY <1>1, <1>3, <2>1, <2>2, <2>3
<1>7. ASSUME NEW o \in Allocator, Classes!CoCreateInstance(o) PROVE ClsIInv'
  <2>1. /\ o \notin Classes!Alive /\ UNCHANGED com_object_table /\ Classes!Found("MemoryAllocator") # 0
        /\ refcount' \in {refcount, [refcount EXCEPT ![o] = 1]}
        /\ n' = n + (IF refcount' = refcount THEN 0 ELSE 1)
    BY <1>7 DEF Classes!CoCreateInstance
  <2>2. CASE refcount' = refcount
    BY <1>1, <2>1, <2>2 DEF ClsIInv, ClsTypes, ClsKept, Classes!Alive
  <2>3. CASE refcount' # refcount
    <3>1. refcount' = [refcount EXCEPT ![o] = 1] /\ n' = n + 1
      BY <1>1, <2>1, <2>3
    <3>2. n' = Cardinality(Classes!Alive')
      BY <1>1, <2>1, <3>1, ClsCounts
    <3>3. {i \in 1..Len(table) : table[i][1] = "MemoryAllocator"} # {}
      BY <2>1 DEF Classes!Found, Classes!SelectLastInSeq
    <3>4. PICK i \in 1..Len(table) : table[i] = Classes!Ours
      BY <1>1, <3>3, ClsNames
    <3>5. n # 0
      BY <1>1, <3>4 DEF ClsOffered, ClsAt
    <3>6. ClsOffered(table', n')
      BY <1>1, <2>1, <3>1, <3>5 DEF ClsOffered
    <3> QED
      BY <1>1, <1>3, <2>1, <3>1, <3>2, <3>6
  <2> QED
    BY <2>2, <2>3
<1> QED
  BY <1>2, <1>4, <1>5, <1>6, <1>7 DEF Classes!Next

\* A set has as many elements for the module of classes.
LEMMA ClsCardinality == ASSUME NEW S PROVE Classes!Cardinality(S) = Cardinality(S)
BY Zenon DEF Classes!Cardinality, Cardinality

\* What the invariant is for.
LEMMA ClsGood == ClsIInv => Classes!OfferedWhileAlive
<1> SUFFICES ASSUME ClsIInv PROVE Classes!OfferedWhileAlive
  OBVIOUS
<1> DEFINE table == com_object_table
           T == {i \in 1..Len(table) : table[i] = Classes!Ours}
<1>1. ClsTypes /\ ClsKept /\ ClsOffered(table, AllocatorKeeper) /\ Len(table) \in Nat /\ DOMAIN table = 1..Len(table)
      /\ \A i \in 1..Len(table) : table[i] \in ClsEntry
  BY DEF ClsIInv, ClsTypes
<1>2. AllocatorKeeper # 0 <=> Classes!Alive # {}
  BY <1>1, FS_EmptySet DEF ClsKept
<1>3. AllocatorKeeper # 0 <=> T # {}
  BY <1>1 DEF ClsOffered, ClsAt
<1>4. Cardinality(T) <= 1
  <2>1. CASE T = {}
    BY <2>1, FS_EmptySet
  <2>2. CASE T # {}
    <3>1. PICK p \in 1..Len(table) : T = {p}
      BY <1>1, <1>3, <2>2 DEF ClsOffered, ClsAt
    <3>2. Cardinality({p}) = 1
      BY FS_Singleton
    <3> HIDE DEF T
    <3> QED
      BY <3>1, <3>2
  <2> QED
    BY <2>1, <2>2
<1>5. Classes!Found("MemoryAllocator") # 0 <=> T # {}
  <2> DEFINE I == {i \in 1..Len(table) : table[i][1] = "MemoryAllocator"}
  <2>1. I = T
    BY <1>1, ClsNames
  <2>2. Classes!Found("MemoryAllocator") = IF I # {} THEN CHOOSE x \in I : \A y \in I : x >= y ELSE 0
    BY DEF Classes!Found, Classes!SelectLastInSeq, Classes!Max
  <2>3. \A x \in T : x # 0
    OBVIOUS
  <2>4. T # {} => \E x \in T : \A y \in T : x >= y
    BY <1>1, <1>3 DEF ClsOffered, ClsAt
  <2> HIDE DEF I, T
  <2> QED
    BY <2>1, <2>2, <2>3, <2>4
<1> QED
  BY <1>1, <1>2, <1>3, <1>4, <1>5, ClsCardinality DEF Classes!OfferedWhileAlive

-----------------------------------------------------------------------------
(* Files *)

FilHandle == [h : Files!Fds \cup {0}, file : {"qts", "apl", "vp3", "stdin"} \cup Plugins, at : 0..FileLength]

\* A handle that was not duplicated has a descriptor of its own, and moves it.
FilOwn(x) == x.h # 0 => open[x.h] # None /\ open[x.h].file = x.file /\ open[x.h].at = x.at
FilHandles ==
  /\ open \in [Files!Fds -> FilSlot \cup {None}] /\ held \subseteq FilHandle /\ shared \in BOOLEAN
  /\ ~shared => \A x \in held : FilOwn(x) /\ \A y \in held : x.h = y.h /\ x.h # 0 => x = y

\* What readdir has still to return.
FilRest == IF qtx_dir = None THEN <<>> ELSE qtx_dir
FilPlugins(rest) == {rest[i] : i \in 1..Len(rest)} \cap Plugins
FilSearches ==
  /\ FilRest \in Seq(FilNames) /\ searching \subseteq Search /\ DOMAIN wanted = Search
  /\ ~overlapped => /\ \A s, u \in searching : s = u
                    /\ \A s \in Search : wanted[s] \subseteq IF s \in searching THEN FilPlugins(FilRest) ELSE {}

FilIInv == FilHandles /\ FilSearches

\* The invariant holds at first.
LEMMA FilInit == Files!Init => FilIInv
<1> SUFFICES ASSUME Files!Init PROVE FilIInv
  OBVIOUS
<1>1. held = {} /\ shared = FALSE /\ open \in [Files!Fds -> FilSlot \cup {None}]
  BY DEF Files!Init
<1>2. FilHandles
  BY <1>1 DEF FilHandles
<1>3. FilRest = <<>> /\ searching = {} /\ DOMAIN wanted = Search /\ \A s \in Search : wanted[s] = {}
  BY DEF Files!Init, FilRest
<1>4. FilSearches
  BY <1>3 DEF FilSearches
<1> QED
  BY <1>2, <1>4 DEF FilIInv

\* The lowest free descriptor.
LEMMA FilLowest ==
  ASSUME ~Files!Full
  PROVE  Files!Lowest \in Files!Fds /\ open[Files!Lowest] = None
<1> DEFINE T == {d \in Files!Fds : open[d] = None}
<1>1. T # {} /\ T \in SUBSET Nat
  BY FilesAssumption DEF Files!Full, Files!Fds
<1>2. PICK m \in T : \A k \in T : m <= k
  <2> HIDE DEF T
  <2> QED
    BY <1>1, LeastOf
<1>3. m \in Files!Fds /\ open[m] = None /\ \A e \in Files!Fds : open[e] = None => m <= e
  BY <1>2
<1> HIDE DEF T
<1> QED
  BY <1>3 DEF Files!Lowest

\* A file is opened.
LEMMA FilOpens ==
  ASSUME FilHandles, ~Files!Full, NEW f, f \in {"qts", "apl", "vp3", "temp"} \cup Plugins, NEW how \in {"r", "w"},
         Files!Opened(f, how)
  PROVE  /\ open' \in [Files!Fds -> FilSlot \cup {None}] /\ Files!Lowest \in Files!Fds /\ open[Files!Lowest] = None
         /\ open'[Files!Lowest].file = f /\ open'[Files!Lowest].at = 0 /\ open'[Files!Lowest] # None
         /\ \A d \in Files!Fds : d # Files!Lowest => open'[d] = open[d]
<1> DEFINE new == [file |-> f, at |-> 0, mode |-> how]
<1>1. Files!Lowest \in Files!Fds /\ open[Files!Lowest] = None
  BY FilLowest
<1>2. new \in FilSlot
  BY FilesAssumption DEF FilSlot
<1>3. new # None /\ new.file = f /\ new.at = 0
  BY <1>2, FilesAssumption
<1>4. open' = [open EXCEPT ![Files!Lowest] = new]
  BY DEF Files!Opened
<1> HIDE DEF new
<1> QED
  BY <1>1, <1>2, <1>3, <1>4 DEF FilHandles

\* What stays of the handles that have a descriptor of their own.
LEMMA FilOthers ==
  ASSUME NEW x, FilOwn(x), NEW d, x.h # d \/ x.h = 0, x.h \in Files!Fds \cup {0},
         \A e \in Files!Fds : e # d => open'[e] = open[e]
  PROVE  FilOwn(x)'
BY DEF FilOwn

\* It is kept by CreateFileA of a name the loader knows ...
LEMMA FilCreate ==
  ASSUME FilHandles, NEW f \in Files!Contents, NEW how \in {"r", "w"}, Files!CreateFileA(f, how)
  PROVE  FilHandles'
<1>1. CASE UNCHANGED <<open, held>>
  BY <1>1 DEF FilHandles, FilOwn, Files!CreateFileA
<1>2. CASE Files!Exists(f) /\ ~Files!Full
  <2>0. PICK d : d = Files!Lowest
    OBVIOUS
  <2> DEFINE new == [h |-> d, file |-> f, at |-> 0]
  <2>1. Files!Opened(f, how) /\ held' = held \cup {new} /\ shared' = shared
    BY <1>2, <2>0 DEF Files!CreateFileA
  <2>2. f \in {"qts", "apl", "vp3"} \cup Plugins
    BY DEF Files!Contents
  <2>3. /\ open' \in [Files!Fds -> FilSlot \cup {None}] /\ d \in Files!Fds /\ open[d] = None
        /\ open'[d].file = f /\ open'[d].at = 0 /\ open'[d] # None
        /\ \A e \in Files!Fds : e # d => open'[e] = open[e]
    BY <1>2, <2>0, <2>1, <2>2, FilOpens
  <2>4. new \in FilHandle /\ new.h = d /\ new.file = f /\ new.at = 0
    BY <2>2, <2>3, FilesAssumption DEF FilHandle
  <2> HIDE DEF new
  <2>5. held' \subseteq FilHandle
    BY <2>1, <2>4 DEF FilHandles
  <2>6. ASSUME ~shared, NEW x \in held PROVE FilOwn(x)' /\ (x.h = d => x.h = 0) /\ x.h \in Files!Fds \cup {0}
    <3>1. FilOwn(x) /\ x \in FilHandle
      BY <2>6 DEF FilHandles
    <3>2. x.h \in Files!Fds \cup {0} /\ (x.h = d => x.h = 0)
      BY <2>3, <3>1 DEF FilOwn, FilHandle
    <3> QED
      BY <2>3, <3>1, <3>2, FilOthers
  <2>7. FilOwn(new)'
    BY <2>3, <2>4 DEF FilOwn
  <2>8. 0 \notin Files!Fds
    BY DEF Files!Fds
  <2>9. ~shared => \A x \in held' : FilOwn(x)' /\ \A y \in held' : x.h = y.h /\ x.h # 0 => x = y
    BY <2>1, <2>3, <2>4, <2>6, <2>7, <2>8 DEF FilHandles
  <2> QED
    BY <2>1, <2>3, <2>5, <2>9 DEF FilHandles
<1> QED
  BY <1>1, <1>2 DEF Files!CreateFileA

\* ... by CreateFileA of others ...
LEMMA FilOther ==
  ASSUME FilHandles, Files!CreateOther \/ Files!GetTempFileNameA \/ \E x \in held : Files!DuplicateHandle(x)
  PROVE  FilHandles'
<1>1. CASE Files!CreateOther
  <2> DEFINE new == [h |-> 0, file |-> "stdin", at |-> 0]
  <2>1. held' = held \cup {new} /\ UNCHANGED <<open, shared>>
    BY <1>1 DEF Files!CreateOther
  <2>2. new \in FilHandle /\ new.h = 0
    BY FilesAssumption DEF FilHandle
  <2> HIDE DEF new
  <2> QED
    BY <2>1, <2>2 DEF FilHandles, FilOwn
<1>2. CASE Files!GetTempFileNameA
  <2>1. ~Files!Full /\ Files!Opened("temp", "w") /\ UNCHANGED <<held, shared>>
    BY <1>2 DEF Files!GetTempFileNameA
  <2>2. /\ open' \in [Files!Fds -> FilSlot \cup {None}] /\ open[Files!Lowest] = None
        /\ \A e \in Files!Fds : e # Files!Lowest => open'[e] = open[e]
    BY <2>1, FilOpens
  <2>3. ASSUME ~shared, NEW x \in held PROVE FilOwn(x)'
    <3>1. FilOwn(x) /\ x.h \in Files!Fds \cup {0}
      BY <2>3 DEF FilHandles, FilHandle
    <3>2. x.h = Files!Lowest => x.h = 0
      BY <2>2, <3>1 DEF FilOwn
    <3> QED
      BY <2>2, <3>1, <3>2, FilOthers
  <2> QED
    BY <2>1, <2>2, <2>3 DEF FilHandles
<1>3. ASSUME NEW x \in held, Files!DuplicateHandle(x) PROVE FilHandles'
  BY <1>3 DEF FilHandles, Files!DuplicateHandle
<1> QED
  BY <1>1, <1>2, <1>3

\* ... by CloseHandle ...
LEMMA FilClose ==
  ASSUME FilHandles, NEW x \in held, Files!CloseHandle(x)
  PROVE  FilHandles'
<1>1. /\ open' = IF x.h > 2 THEN [open EXCEPT ![x.h] = None] ELSE open
      /\ held' \subseteq held /\ (~shared => held' = held \ {x}) /\ shared' = shared
  BY DEF Files!CloseHandle
<1>2. \A y \in held : y.h \in Files!Fds \cup {0}
  BY DEF FilHandles, FilHandle
<1>3. open' \in [Files!Fds -> FilSlot \cup {None}] /\ \A e \in Files!Fds : e # x.h => open'[e] = open[e]
  BY <1>1 DEF FilHandles
<1>4. ASSUME ~shared, NEW y \in held' PROVE FilOwn(y)' /\ y \in held
  <2>1. y \in held /\ y # x /\ FilOwn(y)
    BY <1>1, <1>4 DEF FilHandles
  <2>2. y.h # x.h \/ y.h = 0
    BY <1>4, <2>1 DEF FilHandles
  <2> QED
    BY <1>2, <1>3, <2>1, <2>2, FilOthers
<1> QED
  BY <1>1, <1>3, <1>4 DEF FilHandles

\* A file that is open moves, and with it the handle.
LEMMA FilMoves ==
  ASSUME FilHandles, NEW x \in held, Files!IsOpen(x), NEW n \in 0..FileLength, NEW m \in 0..FileLength,
         ~shared => m = n,
         open' = [open EXCEPT ![x.h].at = n], held' = (held \ {x}) \cup {[x EXCEPT !.at = m]}, shared' = shared
  PROVE  FilHandles'
<1> DEFINE slot == [open[x.h] EXCEPT !.at = n]
           new == [x EXCEPT !.at = m]
<1>1. x.h \in Files!Fds /\ open[x.h] # None /\ open[x.h] \in FilSlot /\ x \in FilHandle
  BY DEF FilHandles, Files!IsOpen
<1>2. slot \in FilSlot /\ slot.at = n /\ slot.file = open[x.h].file
  BY <1>1 DEF FilSlot
<1>3. new \in FilHandle /\ new.h = x.h /\ new.at = m /\ new.file = x.file
  BY <1>1 DEF FilHandle
<1>4. slot # None
  BY <1>2, FilesAssumption
<1>5. open' = [open EXCEPT ![x.h] = slot] /\ held' = (held \ {x}) \cup {new}
  OBVIOUS
<1> HIDE DEF slot, new
<1>6. open' \in [Files!Fds -> FilSlot \cup {None}] /\ open'[x.h] = slot /\ \A e \in Files!Fds : e # x.h => open'[e] = open[e]
  BY <1>1, <1>2, <1>5 DEF FilHandles
<1>7. held' \subseteq FilHandle
  BY <1>3, <1>5 DEF FilHandles
<1>8. 0 \notin Files!Fds
  BY DEF Files!Fds
<1>9. ASSUME ~shared, NEW y \in held, y # x PROVE FilOwn(y)' /\ (y.h = x.h => FALSE)
  <2>1. FilOwn(y) /\ y.h \in Files!Fds \cup {0} /\ y.h # x.h
    BY <1>1, <1>8, <1>9 DEF FilHandles, FilHandle
  <2> QED
    BY <1>6, <2>1, FilOthers
<1>10. ~shared => FilOwn(new)'
  <2>1. ~shared => FilOwn(x)
    BY DEF FilHandles
  <2> QED
    BY <1>1, <1>2, <1>3, <1>4, <1>6, <1>8, <2>1 DEF FilOwn
<1>11. ~shared => \A y \in held' : FilOwn(y)' /\ \A z \in held' : y.h = z.h /\ y.h # 0 => y = z
  BY <1>3, <1>5, <1>9, <1>10 DEF FilHandles
<1> QED
  BY <1>6, <1>7, <1>11 DEF FilHandles

\* ... by what reads, writes and seeks ...
LEMMA FilUses ==
  ASSUME FilHandles, NEW x \in held,
         \/ Files!ReadFile(x) \/ Files!WriteFile(x)
         \/ \E whence \in {"begin", "end", "current"} : Files!SetFilePointer(x, whence)
  PROVE  FilHandles'
<1>1. x.at \in 0..FileLength /\ (Files!IsOpen(x) => x.h \in Files!Fds /\ open[x.h].at \in 0..FileLength)
  BY DEF FilHandles, FilHandle, FilSlot, Files!IsOpen
<1>2. ~shared /\ Files!IsOpen(x) => open[x.h].at = x.at
  <2>1. ~shared => FilOwn(x)
    BY DEF FilHandles
  <2>2. 0 \notin Files!Fds
    BY DEF Files!Fds
  <2> QED
    BY <1>1, <2>1, <2>2 DEF FilOwn
<1>3. ASSUME NEW how, Files!Transfer(x, how) PROVE FilHandles'
  <2>1. CASE UNCHANGED <<open, held>>
    BY <1>3, <2>1 DEF Files!Transfer, FilHandles, FilOwn
  <2>2. CASE Files!IsOpen(x) /\ open[x.h].mode = how
    <3> DEFINE n == Files!Advanced(open[x.h].at)
               m == Files!Advanced(x.at)
    <3>1. n \in 0..FileLength /\ m \in 0..FileLength /\ (~shared => m = n)
      BY <1>1, <1>2, <2>2, FilesAssumption DEF Files!Advanced
    <3>2. /\ open' = [open EXCEPT ![x.h].at = n] /\ held' = (held \ {x}) \cup {[x EXCEPT !.at = m]}
          /\ shared' = shared
      BY <1>3, <2>2 DEF Files!Transfer
    <3> HIDE DEF n, m
    <3> QED
      BY <2>2, <3>1, <3>2, FilMoves
  <2> QED
    BY <1>3, <2>1, <2>2 DEF Files!Transfer
<1>4. ASSUME NEW whence \in {"begin", "end", "current"}, Files!SetFilePointer(x, whence) PROVE FilHandles'
  <2> DEFINE n == IF whence = "begin" THEN 0 ELSE IF whence = "end" THEN FileLength ELSE open[x.h].at
             m == IF whence = "current" THEN x.at ELSE n
  <2>1. /\ Files!IsOpen(x) /\ shared' = shared
        /\ open' = [open EXCEPT ![x.h].at = n] /\ held' = (held \ {x}) \cup {[x EXCEPT !.at = m]}
    BY <1>4 DEF Files!SetFilePointer
  <2>2. n \in 0..FileLength
    BY <1>1, <2>1, FilesAssumption
  <2>3. m \in 0..FileLength /\ (~shared => m = n)
    <3>1. CASE whence = "current"
      BY <1>1, <1>2, <2>1, <3>1
    <3>2. CASE whence # "current"
      BY <2>2, <3>2
    <3> QED
      BY <3>1, <3>2
  <2> HIDE DEF n, m
  <2> QED
    BY <2>1, <2>2, <2>3, FilMoves
<1> QED
  BY <1>3, <1>4 DEF Files!ReadFile, Files!WriteFile

\* ... and so by every call for a handle.
LEMMA FilHandleStep ==
  ASSUME FilIInv, Files!HandleNext
  PROVE  FilIInv'
<1>1. UNCHANGED <<qtx_dir, searching, wanted, overlapped>>
  BY DEF Files!HandleNext, Files!searchVars, Files!CreateFileA, Files!CreateOther, Files!GetTempFileNameA, Files!CloseHandle,
         Files!DuplicateHandle, Files!ReadFile, Files!WriteFile, Files!Transfer, Files!SetFilePointer
<1>2. FilSearches'
  BY <1>1 DEF FilIInv, FilSearches, FilRest
<1>3. FilHandles'
  BY FilCreate, FilOther, FilClose, FilUses DEF FilIInv, Files!HandleNext
<1> QED
  BY <1>2, <1>3 DEF FilIInv

\* The next plugin of a directory, and what is behind it.
LEMMA FilNext ==
  ASSUME NEW rest \in Seq(FilNames), NEW k, k = Files!NextPlugin(rest)
  PROVE  \/ k = 0 /\ FilPlugins(rest) = {}
         \/ /\ k \in 1..Len(rest) /\ k # 0 /\ SubSeq(rest, k + 1, Len(rest)) \in Seq(FilNames)
            /\ FilPlugins(rest) \subseteq {rest[k]} \cup FilPlugins(SubSeq(rest, k + 1, Len(rest)))
<1> DEFINE T == {i \in 1..Len(rest) : rest[i] \in Plugins}
<1>1. CASE T = {}
  BY <1>1 DEF Files!NextPlugin, Files!SelectInSeq, FilPlugins
<1>2. CASE T # {}
  <2>1. PICK m \in T : \A i \in T : m <= i
    <3>1. T \in SUBSET Nat
      OBVIOUS
    <3> HIDE DEF T
    <3> QED
      BY <1>2, <3>1, LeastOf
  <2>2. k = CHOOSE x \in T : \A y \in T : x <= y
    BY <1>2 DEF Files!NextPlugin, Files!SelectInSeq, Files!Min
  <2>3. k \in T /\ \A i \in T : k <= i
    <3> HIDE DEF T
    <3> QED
      BY <2>1, <2>2
  <2> DEFINE left == SubSeq(rest, k + 1, Len(rest))
  <2>4. k \in 1..Len(rest) /\ Len(rest) \in Nat
    BY <2>3
  <2>5. left \in Seq(FilNames) /\ Len(left) = Len(rest) - k /\ \A j \in 1..(Len(rest) - k) : left[j] = rest[k + j]
    BY <2>4
  <2> HIDE DEF left
  <2>6. ASSUME NEW i \in 1..Len(rest), rest[i] \in Plugins, i # k PROVE \E j \in 1..Len(left) : rest[i] = left[j]
    <3>1. i \in T
      BY <2>6
    <3>2. i - k \in 1..(Len(rest) - k) /\ k + (i - k) = i
      BY <2>3, <2>4, <2>6, <3>1
    <3> QED
      BY <2>5, <3>2
  <2>7. FilPlugins(rest) \subseteq {rest[k]} \cup FilPlugins(left)
    BY <2>6 DEF FilPlugins
  <2> QED
    BY <2>4, <2>5, <2>7 DEF left
<1> QED
  BY <1>1, <1>2

\* A search goes on to the next plugin, or ends.
LEMMA FilReads ==
  ASSUME NEW s \in Search, NEW rest \in Seq(FilNames), NEW missing, Files!ReadNext(s, rest, missing),
         searching \subseteq Search, DOMAIN wanted = Search
  PROVE  /\ FilRest' \in Seq(FilNames) /\ searching' \subseteq searching \cup {s} /\ searching' \subseteq Search
         /\ DOMAIN wanted' = Search /\ searching \subseteq searching' \cup {s}
         /\ \A u \in Search : u # s => wanted'[u] = wanted[u]
         /\ missing \subseteq FilPlugins(rest) => wanted'[s] \subseteq IF s \in searching' THEN FilPlugins(FilRest') ELSE {}
<1> DEFINE k == Files!NextPlugin(rest)
           left == SubSeq(rest, k + 1, Len(rest))
<1>1. CASE k = 0
  <2>1. qtx_dir' = None /\ searching' = searching \ {s} /\ wanted' = [wanted EXCEPT ![s] = missing]
    BY <1>1 DEF Files!ReadNext
  <2>2. FilRest' = <<>> /\ FilPlugins(rest) = {}
    BY <1>1, <2>1, FilNext DEF FilRest
  <2> HIDE DEF k, left
  <2> QED
    BY <2>1, <2>2
<1>2. CASE k # 0
  <2>1. qtx_dir' = left /\ searching' = searching \cup {s} /\ wanted' = [wanted EXCEPT ![s] = missing \ {rest[k]}]
    BY <1>2 DEF Files!ReadNext
  <2>2. left \in Seq(FilNames) /\ FilPlugins(rest) \subseteq {rest[k]} \cup FilPlugins(left)
    BY <1>2, FilNext
  <2> HIDE DEF k, left
  <2>3. FilRest' = left
    BY <2>1, <2>2, FilesAssumption DEF FilRest
  <2>4. /\ DOMAIN wanted' = Search /\ wanted'[s] = missing \ {rest[k]}
        /\ \A u \in Search : u # s => wanted'[u] = wanted[u]
    BY <2>1
  <2> QED
    BY <2>1, <2>2, <2>3, <2>4
<1> QED
  BY <1>1, <1>2

\* The calls for a search keep the invariant.
LEMMA FilSearchStep ==
  ASSUME FilIInv, Files!SearchNext
  PROVE  FilIInv'
<1>1. FilSearches /\ UNCHANGED <<open, held, shared>>
  BY DEF FilIInv, Files!SearchNext, Files!FindFirstFileA, Files!FindNextFileA, Files!FindClose, Files!FilesSame
<1>2. FilHandles'
  BY <1>1 DEF FilIInv, FilHandles, FilOwn
<1>3. FilRest \in Seq(FilNames) /\ searching \subseteq Search /\ DOMAIN wanted = Search
  BY <1>1 DEF FilSearches
<1>4. ASSUME NEW s \in Search, Files!FindFirstFileA(s) PROVE FilSearches'
  <2> DEFINE missing == Plugins \cap Files!Range(Directory)
  <2>1. Files!ReadNext(s, Directory, missing) /\ overlapped' = (overlapped \/ searching # {})
    BY <1>4 DEF Files!FindFirstFileA
  <2>2. missing \subseteq FilPlugins(Directory)
    BY FilesAssumption DEF Files!Range, FilPlugins
  <2> HIDE DEF missing
  <2>3. Directory \in Seq(FilNames)
    BY FilesAssumption
  <2>4. /\ FilRest' \in Seq(FilNames) /\ searching' \subseteq searching \cup {s} /\ searching' \subseteq Search
        /\ DOMAIN wanted' = Search /\ searching \subseteq searching' \cup {s}
        /\ \A u \in Search : u # s => wanted'[u] = wanted[u]
        /\ wanted'[s] \subseteq IF s \in searching' THEN FilPlugins(FilRest') ELSE {}
    BY <1>3, <2>1, <2>2, <2>3, FilReads
  <2>5. ~overlapped' => ~overlapped /\ searching = {}
    BY <2>1
  <2>6. ~overlapped' => \A u \in Search : wanted'[u] \subseteq IF u \in searching' THEN FilPlugins(FilRest') ELSE {}
    <3> SUFFICES ASSUME ~overlapped', NEW u \in Search
                 PROVE  wanted'[u] \subseteq IF u \in searching' THEN FilPlugins(FilRest') ELSE {}
      OBVIOUS
    <3>1. CASE u = s
      BY <2>4, <3>1
    <3>2. CASE u # s
      <4>1. wanted[u] = {} /\ wanted'[u] = wanted[u]
        BY <1>1, <2>4, <2>5, <3>2 DEF FilSearches
      <4> QED
        BY <4>1
    <3> QED
      BY <3>1, <3>2
  <2> QED
    BY <2>4, <2>5, <2>6 DEF FilSearches
<1>5. ASSUME NEW s \in Search, Files!FindNextFileA(s) PROVE FilSearches'
  <2>1. s \in searching /\ Files!ReadNext(s, FilRest, wanted[s]) /\ overlapped' = overlapped
    BY <1>5 DEF Files!FindNextFileA, FilRest
  <2>2. /\ FilRest' \in Seq(FilNames) /\ searching' \subseteq searching \cup {s} /\ searching' \subseteq Search
        /\ DOMAIN wanted' = Search /\ searching \subseteq searching' \cup {s}
        /\ \A u \in Search : u # s => wanted'[u] = wanted[u]
        /\ wanted[s] \subseteq FilPlugins(FilRest) => wanted'[s] \subseteq IF s \in searching' THEN FilPlugins(FilRest') ELSE {}
    BY <1>3, <2>1, FilReads
  <2>3. ~overlapped => wanted[s] \subseteq FilPlugins(FilRest) /\ searching = {s}
    BY <1>1, <2>1 DEF FilSearches
  <2>4. ~overlapped => \A u \in Search : u # s => wanted[u] = {}
    BY <1>1, <2>1 DEF FilSearches
  <2>5. ~overlapped => \A u \in Search : wanted'[u] \subseteq IF u \in searching' THEN FilPlugins(FilRest') ELSE {}
    <3> SUFFICES ASSUME ~overlapped, NEW u \in Search
                 PROVE  wanted'[u] \subseteq IF u \in searching' THEN FilPlugins(FilRest') ELSE {}
      OBVIOUS
    <3>1. CASE u = s
      BY <2>2, <2>3, <3>1
    <3>2. CASE u # s
      <4>1. wanted[u] = {} /\ wanted'[u] = wanted[u]
        BY <2>2, <2>4, <3>2
      <4> QED
        BY <4>1
    <3> QED
      BY <3>1, <3>2
  <2> QED
    BY <2>1, <2>2, <2>3, <2>5 DEF FilSearches
<1>6. ASSUME NEW s \in Search, Files!FindClose(s) PROVE FilSearches'
  <2>1. searching' = searching \ {s} /\ wanted' = [wanted EXCEPT ![s] = {}] /\ UNCHANGED <<qtx_dir, overlapped>>
    BY <1>6 DEF Files!FindClose
  <2>2. FilRest' = FilRest /\ DOMAIN wanted' = Search /\ wanted'[s] = {} /\ \A u \in Search : u # s => wanted'[u] = wanted[u]
    BY <1>3, <2>1 DEF FilRest
  <2> QED
    BY <1>1, <2>1, <2>2 DEF FilSearches
<1> QED
  BY <1>2, <1>4, <1>5, <1>6 DEF FilIInv, Files!SearchNext

\* What the invariant is for.
LEMMA FilGood == FilIInv => Files!HandlesKeepFile
<1> SUFFICES ASSUME FilIInv PROVE Files!HandlesKeepFile
  OBVIOUS
<1>1. \A x \in held : shared \/ x.h = 0 \/ (Files!IsOpen(x) /\ open[x.h].file = x.file /\ open[x.h].at = x.at)
  BY DEF FilIInv, FilHandles, FilHandle, FilOwn, Files!IsOpen
<1>2. overlapped \/ \A s \in Search \ searching : wanted[s] = {}
  BY DEF FilIInv, FilSearches
<1> QED
  BY <1>1, <1>2 DEF Files!HandlesKeepFile

-----------------------------------------------------------------------------
(* QuickTime's dispatcher *)

QtdInside(t) == step[t] \in {"stored", "taken"}

\* The calls of t that are open are at the places f of the array.
QtdPlaced(t, f) ==
  /\ \A j \in 1..Len(frames[t]) : /\ f[j] \in 1..Len(order) /\ order[f[j]] = t
                                  /\ frames[t][j] = ret_array[f[j] - 1]
  /\ \A i, j \in 1..Len(frames[t]) : i < j => f[i] < f[j]
  /\ \A i \in 1..Len(order) : order[i] = t => \E j \in 1..Len(frames[t]) : f[j] = i

QtdTypes ==
  /\ DOMAIN ret_array = 0..Length - 1 /\ order \in Seq(Thread) /\ Len(order) <= Length
  /\ step \in [Thread -> {"run", "stored", "taken", "astray"}] /\ frames \in [Thread -> Seq(Site)]

\* One thread at a time is in the wrapper, with the last call that is open.
QtdNested ==
  /\ \A t, u \in Thread : QtdInside(t) /\ QtdInside(u) => t = u
  /\ \A t \in Thread : QtdInside(t) => Len(order) > 0 /\ order[Len(order)] = t
  /\ ret_i = Len(order) - (IF \E t \in Thread : QtdInside(t) THEN 1 ELSE 0)
  /\ \A t \in Thread : step[t] = "astray" => Len(order) = Length /\ \A u \in Thread : step[u] = "astray"
  /\ \A t \in Thread : \E f \in [1..Len(frames[t]) -> 1..Len(order)] : QtdPlaced(t, f)

QtdHeap == pointers \subseteq allocated /\ allocated \ pointers \subseteq High /\ pointers \subseteq Low \cup High
QtdIInv == crossed \in BOOLEAN /\ (~crossed => QtdTypes /\ QtdNested) /\ QtdHeap

\* The invariant holds at first.
LEMMA QtdInit == Dispatcher!Init => QtdIInv
<1> SUFFICES ASSUME Dispatcher!Init PROVE QtdIInv
  OBVIOUS
<1>1. order = <<>> /\ Len(order) = 0 /\ ret_i = 0 /\ crossed = FALSE /\ pointers = {} /\ allocated = {}
  BY DEF Dispatcher!Init
<1>2. DOMAIN ret_array = 0..Length - 1
  BY DEF Dispatcher!Init
<1>3. \A t \in Thread : step[t] = "run" /\ frames[t] = <<>> /\ Len(frames[t]) = 0
  BY DEF Dispatcher!Init
<1>4. step \in [Thread -> {"run", "stored", "taken", "astray"}] /\ frames \in [Thread -> Seq(Site)]
  BY DEF Dispatcher!Init
<1>5. QtdTypes
  BY <1>1, <1>2, <1>4, LengthAssumption DEF QtdTypes
<1>6. ASSUME NEW t \in Thread PROVE \E f \in [1..Len(frames[t]) -> 1..Len(order)] : QtdPlaced(t, f)
  <2> DEFINE f == [j \in 1..0 |-> 1]
  <2>1. f \in [1..0 -> 1..0]
    OBVIOUS
  <2>2. QtdPlaced(t, f)
    BY <1>1, <1>3 DEF QtdPlaced
  <2> HIDE DEF f
  <2> QED
    BY <1>1, <1>3, <2>1, <2>2
<1>7. QtdNested
  BY <1>1, <1>3, <1>6 DEF QtdNested, QtdInside
<1>8. QtdHeap
  BY <1>1 DEF QtdHeap
<1>9. crossed \in BOOLEAN
  BY <1>1
<1> QED
  BY <1>5, <1>7, <1>8, <1>9 DEF QtdIInv

\* The last call of a thread in the wrapper is its last frame.
LEMMA QtdLast ==
  ASSUME QtdTypes, NEW t \in Thread, Len(order) > 0, order[Len(order)] = t, NEW f, QtdPlaced(t, f)
  PROVE  /\ Len(frames[t]) \in Nat /\ Len(frames[t]) > 0 /\ f[Len(frames[t])] = Len(order)
         /\ frames[t][Len(frames[t])] = ret_array[Len(order) - 1]
<1>1. Len(order) \in Nat /\ Len(order) \in 1..Len(order) /\ Len(frames[t]) \in Nat
  BY DEF QtdTypes
<1>2. PICK j \in 1..Len(frames[t]) : f[j] = Len(order)
  BY <1>1 DEF QtdPlaced
<1>3. Len(frames[t]) \in 1..Len(frames[t]) /\ f[Len(frames[t])] \in 1..Len(order)
  BY <1>1, <1>2 DEF QtdPlaced
<1>4. j = Len(frames[t])
  <2> SUFFICES ASSUME j # Len(frames[t]) PROVE FALSE
    OBVIOUS
  <2>1. j < Len(frames[t])
    BY <1>1
  <2>2. f[j] < f[Len(frames[t])]
    BY <1>3, <2>1 DEF QtdPlaced
  <2> QED
    BY <1>1, <1>2, <1>3, <2>2
<1> QED
  BY <1>1, <1>2, <1>3, <1>4 DEF QtdPlaced

\* A thread with a frame has an open call.
LEMMA QtdFramed ==
  ASSUME QtdTypes, QtdNested, NEW t \in Thread, frames[t] # <<>>
  PROVE  \E i \in 1..Len(order) : order[i] = t
<1>1. PICK f : QtdPlaced(t, f)
  BY DEF QtdNested
<1>2. Len(frames[t]) \in Nat /\ Len(frames[t]) # 0
  BY EmptySeq DEF QtdTypes
<1>3. 1 \in 1..Len(frames[t])
  BY <1>2
<1> QED
  BY <1>1, <1>3 DEF QtdPlaced

\* The place below one of the array.
LEMMA QtdBelow ==
  ASSUME NEW k \in 0..Length - 1, NEW i \in 1..k
  PROVE  i - 1 \in 0..Length - 1 /\ i - 1 # k
BY LengthAssumption

\* Where the threads are, and what is not in the wrapper, is enough for the places.
LEMMA QtdSame ==
  ASSUME QtdTypes, QtdNested, UNCHANGED <<ret_array, frames, order>>,
         step' \in [Thread -> {"run", "stored", "taken", "astray"}]
  PROVE  QtdTypes' /\ \A t \in Thread : \E f \in [1..Len(frames'[t]) -> 1..Len(order')] : QtdPlaced(t, f)'
<1>1. QtdTypes'
  BY DEF QtdTypes
<1>2. ASSUME NEW t \in Thread PROVE \E f \in [1..Len(frames'[t]) -> 1..Len(order')] : QtdPlaced(t, f)'
  <2>1. PICK f \in [1..Len(frames[t]) -> 1..Len(order)] : QtdPlaced(t, f)
    BY DEF QtdNested
  <2>2. QtdPlaced(t, f)'
    BY <2>1 DEF QtdPlaced
  <2> QED
    BY <2>1, <2>2
<1> QED
  BY <1>1, <1>2

\* The step of one thread.
LEMMA QtdMoves ==
  ASSUME QtdTypes, NEW t \in Thread, NEW what \in {"run", "stored", "taken", "astray"}, step' = [step EXCEPT ![t] = what]
  PROVE  /\ step' \in [Thread -> {"run", "stored", "taken", "astray"}] /\ step'[t] = what
         /\ \A u \in Thread : u # t => step'[u] = step[u]
BY DEF QtdTypes

\* A call stores its return address ...
LEMMA QtdStore ==
  ASSUME QtdTypes, QtdNested, NEW t \in Thread, NEW s \in Site, Dispatcher!StoreReturn(t, s), ~crossed'
  PROVE  QtdTypes' /\ QtdNested'
<1> DEFINE k == Len(order)
           m == Len(frames[t])
<1>1. step[t] = "run" /\ k \in Nat /\ m \in Nat /\ k <= Length /\ DOMAIN ret_array = 0..Length - 1
  BY DEF Dispatcher!StoreReturn, QtdTypes
<1>2. CASE ret_i \notin DOMAIN ret_array
  <2>1. step' = [u \in Thread |-> "astray"] /\ UNCHANGED <<ret_array, ret_i, frames, order>>
    BY <1>2 DEF Dispatcher!StoreReturn, Dispatcher!Outside
  <2>2. step' \in [Thread -> {"run", "stored", "taken", "astray"}] /\ \A u \in Thread : step'[u] = "astray"
    BY <2>1
  <2>3. ~(\E u \in Thread : QtdInside(u)) /\ ret_i = k /\ k = Length
    <3>1. (\E u \in Thread : QtdInside(u)) => k > 0 /\ ret_i = k - 1
      BY DEF QtdNested
    <3>2. ~(\E u \in Thread : QtdInside(u)) => ret_i = k
      BY <1>1 DEF QtdNested
    <3> QED
      BY <1>1, <1>2, <3>1, <3>2, LengthAssumption
  <2>4. \A u \in Thread : ~QtdInside(u)'
    BY <2>2 DEF QtdInside
  <2>5. QtdTypes' /\ \A u \in Thread : \E f \in [1..Len(frames'[u]) -> 1..Len(order')] : QtdPlaced(u, f)'
    BY <2>1, <2>2, QtdSame
  <2> HIDE DEF k, m
  <2>6. k = Len(order') /\ ret_i' = k /\ k \in Nat
    BY <1>1, <2>1, <2>3 DEF k
  <2> QED
    BY <2>2, <2>3, <2>4, <2>5, <2>6 DEF QtdNested
<1>3. CASE ret_i \in DOMAIN ret_array
  <2>1. /\ ret_array' = [ret_array EXCEPT ![ret_i] = s] /\ step' = [step EXCEPT ![t] = "stored"]
        /\ frames' = [frames EXCEPT ![t] = Append(frames[t], s)] /\ order' = Append(order, t)
        /\ crossed' = (crossed \/ Dispatcher!Inside(t)) /\ ret_i' = ret_i
    BY <1>3 DEF Dispatcher!StoreReturn
  <2>2. \A u \in Thread : ~QtdInside(u)
    BY <1>1, <2>1 DEF Dispatcher!Inside, QtdInside
  <2>3. ret_i = k /\ k \in 0..Length - 1
    BY <1>1, <1>3, <2>2 DEF QtdNested
  <2>4. /\ step' \in [Thread -> {"run", "stored", "taken", "astray"}] /\ step'[t] = "stored"
        /\ \A u \in Thread : u # t => step'[u] = step[u]
    BY <2>1, QtdMoves
  <2>5. order' \in Seq(Thread) /\ Len(order') = k + 1 /\ order'[k + 1] = t /\ \A i \in 1..k : order'[i] = order[i]
    BY <2>1 DEF QtdTypes
  <2>6. /\ frames' \in [Thread -> Seq(Site)] /\ \A u \in Thread : u # t => frames'[u] = frames[u]
        /\ Len(frames'[t]) = m + 1 /\ frames'[t][m + 1] = s /\ \A j \in 1..m : frames'[t][j] = frames[t][j]
    <3>1. Append(frames[t], s) \in Seq(Site) /\ Len(Append(frames[t], s)) = m + 1 /\ Append(frames[t], s)[m + 1] = s
          /\ \A j \in 1..m : Append(frames[t], s)[j] = frames[t][j]
      BY DEF QtdTypes
    <3>2. frames'[t] = Append(frames[t], s)
      BY <2>1 DEF QtdTypes
    <3> QED
      BY <2>1, <3>1, <3>2 DEF QtdTypes
  <2>7. DOMAIN ret_array' = 0..Length - 1 /\ ret_array'[k] = s /\ \A i \in 0..Length - 1 : i # k => ret_array'[i] = ret_array[i]
    BY <1>1, <2>1, <2>3
  <2>8. QtdTypes'
    <3>1. Len(order') <= Length
      BY <2>3, <2>5, LengthAssumption
    <3>2. order' \in Seq(Thread)
      BY <2>5
    <3>3. step' \in [Thread -> {"run", "stored", "taken", "astray"}]
      BY <2>4
    <3>4. frames' \in [Thread -> Seq(Site)]
      BY <2>6
    <3>5. DOMAIN ret_array' = 0..Length - 1
      BY <2>7
    <3> QED
      BY <3>1, <3>2, <3>3, <3>4, <3>5, Zenon DEF QtdTypes
  <2>9. \A u \in Thread : QtdInside(u)' <=> u = t
    BY <2>2, <2>4 DEF QtdInside
  <2>10. ASSUME NEW u \in Thread, u # t
         PROVE  \E f \in [1..Len(frames'[u]) -> 1..Len(order')] : QtdPlaced(u, f)'
    <3>1. PICK f \in [1..Len(frames[u]) -> 1..k] : QtdPlaced(u, f)
      BY DEF QtdNested
    <3>2. frames'[u] = frames[u]
      BY <2>6, <2>10
    <3>3. f \in [1..Len(frames'[u]) -> 1..Len(order')]
      BY <1>1, <2>5, <3>1, <3>2
    <3> DEFINE n == Len(frames[u])
    <3>4. \A j \in 1..n : /\ f[j] \in 1..k /\ order[f[j]] = u
                          /\ frames[u][j] = ret_array[f[j] - 1]
      BY <3>1 DEF QtdPlaced
    <3>5. \A j \in 1..n : f[j] - 1 \in 0..Length - 1 /\ f[j] - 1 # k
      BY <2>3, <3>4, QtdBelow, Zenon
    <3>6. \A j \in 1..n : f[j] \in 1..k + 1 /\ order'[f[j]] = u /\ frames'[u][j] = ret_array'[f[j] - 1]
      <4> TAKE j \in 1..n
      <4>1. f[j] \in 1..(k + 1) /\ order'[f[j]] = order[f[j]]
        BY <1>1, <2>5, <3>4
      <4>2. ret_array'[f[j] - 1] = ret_array[f[j] - 1]
        BY <2>7, <3>5
      <4> QED
        BY <3>2, <3>4, <4>1, <4>2
    <3>7. \A i \in 1..(k + 1) : order'[i] = u => \E j \in 1..n : f[j] = i
      <4>1. \A i \in 1..k : order[i] = u => \E j \in 1..n : f[j] = i
        BY <3>1 DEF QtdPlaced
      <4>2. \A i \in 1..(k + 1) : i \in 1..k \/ i = k + 1
        BY <1>1
      <4> QED
        BY <2>5, <2>10, <4>1, <4>2
    <3>8. \A i, j \in 1..n : i < j => f[i] < f[j]
      BY <3>1 DEF QtdPlaced
    <3> HIDE DEF k, n
    <3>9. QtdPlaced(u, f)'
      BY <2>5, <3>2, <3>6, <3>7, <3>8 DEF QtdPlaced, n
    <3> QED
      BY <3>3, <3>9
  <2>11. \E f \in [1..Len(frames'[t]) -> 1..Len(order')] : QtdPlaced(t, f)'
    <3>1. PICK g \in [1..m -> 1..k] : QtdPlaced(t, g)
      BY DEF QtdNested
    <3>0. PICK f : f = [j \in 1..(m + 1) |-> IF j <= m THEN g[j] ELSE k + 1]
      OBVIOUS
    <3>2. f[m + 1] = k + 1 /\ \A j \in 1..m : f[j] = g[j] /\ g[j] \in 1..k
      <4>1. m + 1 \in 1..(m + 1) /\ ~(m + 1 <= m) /\ \A j \in 1..m : j \in 1..(m + 1) /\ j <= m
        BY <1>1
      <4> QED
        BY <3>0, <3>1, <4>1
    <3>3. f \in [1..Len(frames'[t]) -> 1..Len(order')]
      BY <1>1, <2>5, <2>6, <3>0, <3>1
    <3>4. \A j \in 1..(m + 1) : j \in 1..m \/ j = m + 1
      BY <1>1
    <3>5. \A j \in 1..m : order[g[j]] = t /\ frames[t][j] = ret_array[g[j] - 1]
      BY <3>1 DEF QtdPlaced
    <3>6. \A j \in 1..m : g[j] - 1 \in 0..Length - 1 /\ g[j] - 1 # k
      BY <2>3, <3>2, QtdBelow, Zenon
    <3>7. \A j \in 1..(m + 1) : f[j] \in 1..(k + 1) /\ order'[f[j]] = t /\ frames'[t][j] = ret_array'[f[j] - 1]
      <4> TAKE j \in 1..(m + 1)
      <4>1. CASE j \in 1..m
        <5>1. f[j] = g[j] /\ g[j] \in 1..k
          BY <3>2, <4>1
        <5>2. g[j] \in 1..(k + 1) /\ order'[g[j]] = order[g[j]]
          BY <1>1, <2>5, <5>1
        <5>3. frames'[t][j] = frames[t][j] /\ ret_array'[g[j] - 1] = ret_array[g[j] - 1]
          BY <2>6, <2>7, <3>6, <4>1
        <5> QED
          BY <3>5, <4>1, <5>1, <5>2, <5>3
      <4>2. CASE j = m + 1
        <5>1. f[j] = k + 1 /\ f[j] - 1 = k /\ k + 1 \in 1..(k + 1)
          BY <1>1, <3>2, <4>2
        <5> QED
          BY <2>5, <2>6, <2>7, <4>2, <5>1
      <4> QED
        BY <3>4, <4>1, <4>2
    <3>8. \A i \in 1..(k + 1) : order'[i] = t => \E j \in 1..(m + 1) : f[j] = i
      <4>1. \A i \in 1..k : order[i] = t => \E j \in 1..m : g[j] = i
        BY <3>1 DEF QtdPlaced
      <4>2. \A i \in 1..(k + 1) : i \in 1..k \/ i = k + 1
        BY <1>1
      <4>3. m + 1 \in 1..(m + 1) /\ \A j \in 1..m : j \in 1..(m + 1)
        BY <1>1
      <4> QED
        BY <2>5, <3>2, <4>1, <4>2, <4>3
    <3>9. \A i, j \in 1..(m + 1) : i < j => f[i] < f[j]
      <4> SUFFICES ASSUME NEW i \in 1..(m + 1), NEW j \in 1..(m + 1), i < j PROVE f[i] < f[j]
        OBVIOUS
      <4>1. i \in 1..m
        BY <1>1
      <4>2. CASE j \in 1..m
        BY <3>1, <3>2, <4>1, <4>2 DEF QtdPlaced
      <4>3. CASE j = m + 1
        BY <1>1, <3>2, <4>1, <4>3
      <4> QED
        BY <3>4, <4>2, <4>3
    <3> HIDE DEF k, m
    <3>10. QtdPlaced(t, f)'
      BY <2>5, <2>6, <3>7, <3>8, <3>9 DEF QtdPlaced
    <3> QED
      BY <3>3, <3>10
  <2>12. \A u \in Thread : step'[u] # "astray"
    <3>1. \A u \in Thread : step[u] = "astray" => k = Length
      BY DEF QtdNested
    <3> QED
      BY <2>3, <2>4, <3>1, LengthAssumption
  <2> HIDE DEF k, m
  <2>13. Len(order') > 0 /\ order'[Len(order')] = t /\ ret_i' = Len(order') - 1
    BY <1>1, <2>1, <2>3, <2>5
  <2> QED
    BY <2>8, <2>9, <2>10, <2>11, <2>12, <2>13 DEF QtdNested
<1> QED
  BY <1>2, <1>3

\* Who is in the wrapper, and how much is counted.
LEMMA QtdWho ==
  ASSUME QtdTypes, QtdNested
  PROVE  /\ Len(order) \in Nat
         /\ \A t \in Thread : QtdInside(t) => Len(order) > 0 /\ order[Len(order)] = t /\ ret_i = Len(order) - 1
         /\ (\A t \in Thread : ~QtdInside(t)) => ret_i = Len(order)
<1>1. Len(order) \in Nat
  BY DEF QtdTypes
<1>2. ASSUME NEW t \in Thread, QtdInside(t)
      PROVE  Len(order) > 0 /\ order[Len(order)] = t /\ ret_i = Len(order) - 1
  BY <1>2 DEF QtdNested
<1>3. ASSUME \A t \in Thread : ~QtdInside(t) PROVE ret_i = Len(order)
  BY <1>1, <1>3 DEF QtdNested
<1> QED
  BY <1>1, <1>2, <1>3

\* ... and counts it.
LEMMA QtdCount ==
  ASSUME QtdTypes, QtdNested, NEW t \in Thread, Dispatcher!CountCall(t)
  PROVE  QtdTypes' /\ QtdNested'
<1>1. /\ step[t] = "stored" /\ step' = [step EXCEPT ![t] = "run"] /\ ret_i' = ret_i + 1
      /\ UNCHANGED <<ret_array, frames, order>>
  BY DEF Dispatcher!CountCall
<1>2. "run" \in {"run", "stored", "taken", "astray"}
  OBVIOUS
<1>3. /\ step' \in [Thread -> {"run", "stored", "taken", "astray"}] /\ step'[t] = "run"
      /\ \A u \in Thread : u # t => step'[u] = step[u]
  BY <1>1, <1>2, QtdMoves
<1>4. QtdTypes' /\ \A u \in Thread : \E f \in [1..Len(frames'[u]) -> 1..Len(order')] : QtdPlaced(u, f)'
  BY <1>1, <1>3, QtdSame
<1>5. QtdInside(t)
  BY <1>1 DEF QtdInside
<1>6. \A u \in Thread : ~QtdInside(u)'
  <2>1. \A u \in Thread : QtdInside(u) => u = t
    BY <1>5 DEF QtdNested
  <2> QED
    BY <1>3, <2>1 DEF QtdInside
<1>7. ret_i' = Len(order') /\ Len(order') \in Nat
  BY <1>1, <1>5, QtdWho
<1>8. \A u \in Thread : step'[u] # "astray"
  <2>1. \A u \in Thread : step[u] # "astray"
    BY <1>1 DEF QtdNested
  <2> QED
    BY <1>3, <2>1
<1> QED
  BY <1>4, <1>6, <1>7, <1>8 DEF QtdNested

\* A return takes the address back, and goes there.
LEMMA QtdTake ==
  ASSUME QtdTypes, QtdNested, NEW t \in Thread, Dispatcher!TakeReturn(t), ~crossed'
  PROVE  QtdTypes' /\ QtdNested'
<1> DEFINE k == Len(order)
<1>1. step[t] = "run" /\ frames[t] # <<>> /\ k \in Nat /\ k <= Length
  BY DEF Dispatcher!TakeReturn, QtdTypes
<1>2. PICK i \in 1..k : order[i] = t
  BY <1>1, QtdFramed
<1>3. ret_i - 1 \in DOMAIN ret_array
  <2>1. CASE \E u \in Thread : QtdInside(u)
    <3>1. PICK u \in Thread : QtdInside(u)
      BY <2>1
    <3>2. ret_i = k - 1 /\ order[k] = u /\ u # t
      BY <1>1, <3>1, QtdWho DEF QtdInside
    <3>3. i # k
      BY <1>2, <3>2
    <3>4. k - 2 \in 0..Length - 1
      BY <1>1, <1>2, <3>3, LengthAssumption
    <3> QED
      BY <1>1, <3>2, <3>4 DEF QtdTypes
  <2>2. CASE \A u \in Thread : ~QtdInside(u)
    <3>1. ret_i = k
      BY <2>2, QtdWho
    <3>2. k - 1 \in 0..Length - 1
      BY <1>1, <1>2, LengthAssumption
    <3> QED
      BY <3>1, <3>2 DEF QtdTypes
  <2> QED
    BY <2>1, <2>2
<1>4. /\ ret_i' = ret_i - 1 /\ step' = [step EXCEPT ![t] = "taken"] /\ UNCHANGED <<ret_array, frames, order>>
      /\ crossed' = (crossed \/ Dispatcher!Inside(t) \/ Dispatcher!Last(order) # t)
  BY <1>3 DEF Dispatcher!TakeReturn
<1>5. "taken" \in {"run", "stored", "taken", "astray"}
  OBVIOUS
<1>6. /\ step' \in [Thread -> {"run", "stored", "taken", "astray"}] /\ step'[t] = "taken"
      /\ \A u \in Thread : u # t => step'[u] = step[u]
  BY <1>4, <1>5, QtdMoves
<1>7. QtdTypes' /\ \A u \in Thread : \E f \in [1..Len(frames'[u]) -> 1..Len(order')] : QtdPlaced(u, f)'
  BY <1>4, <1>6, QtdSame
<1>8. \A u \in Thread : ~QtdInside(u)
  BY <1>1, <1>4 DEF Dispatcher!Inside, QtdInside
<1>9. \A u \in Thread : QtdInside(u)' <=> u = t
  BY <1>6, <1>8 DEF QtdInside
<1>10. order[k] = t
  BY <1>4 DEF Dispatcher!Last
<1>11. ret_i = k
  BY <1>8, QtdWho
<1>12. \A u \in Thread : step'[u] # "astray"
  <2>1. \A u \in Thread : step[u] # "astray"
    BY <1>1 DEF QtdNested
  <2> QED
    BY <1>6, <2>1
<1> HIDE DEF k
<1>13. k > 0
  BY <1>1, <1>2
<1>14. Len(order') = k /\ order'[k] = t /\ ret_i' = k - 1
  BY <1>4, <1>10, <1>11 DEF k
<1> QED
  BY <1>7, <1>9, <1>12, <1>13, <1>14 DEF QtdNested

\* What SelectLastInSeq looks for, when it is at the end.
LEMMA QtdFinds ==
  ASSUME NEW s \in Seq(Thread), Len(s) > 0, NEW t, s[Len(s)] = t
  PROVE  {i \in 1..Len(s) : s[i] = t} # {} /\ Dispatcher!Max({i \in 1..Len(s) : s[i] = t}) = Len(s)
<1> DEFINE I == {i \in 1..Len(s) : s[i] = t}
<1>1. Len(s) \in I /\ \A y \in I : y \in Nat /\ y <= Len(s)
  OBVIOUS
<1>2. Len(s) \in Nat
  OBVIOUS
<1> HIDE DEF I
<1>3. Dispatcher!Max(I) = Len(s)
  BY <1>1, <1>2 DEF Dispatcher!Max
<1>4. I # {}
  BY <1>1
<1> QED
  BY <1>3, <1>4 DEF I

LEMMA QtdReturn ==
  ASSUME QtdTypes, QtdNested, NEW t \in Thread, Dispatcher!Return(t)
  PROVE  QtdTypes' /\ QtdNested'
<1> DEFINE k == Len(order)
           m == Len(frames[t])
<1>1. step[t] = "taken" /\ QtdInside(t) /\ k \in Nat /\ k <= Length /\ m \in Nat
  BY DEF Dispatcher!Return, QtdTypes, QtdInside
<1>2. k > 0 /\ order[k] = t /\ ret_i = k - 1
  BY <1>1, QtdWho
<1>3. ret_i \in DOMAIN ret_array
  <2>1. k - 1 \in 0..Length - 1
    BY <1>1, <1>2, LengthAssumption
  <2> QED
    BY <1>2, <2>1 DEF QtdTypes
<1>4. PICK g \in [1..m -> 1..k] : QtdPlaced(t, g)
  BY DEF QtdNested
<1>5. m > 0 /\ g[m] = k /\ frames[t][m] = ret_array[k - 1]
  BY <1>2, <1>4, QtdLast
<1>6. /\ order' = Dispatcher!RemoveAt(order, Dispatcher!SelectLastInSeq(order, LAMBDA u : u = t))
      /\ frames' = [frames EXCEPT ![t] = Dispatcher!Front(frames[t])]
      /\ step' = [step EXCEPT ![t] = IF ret_array[ret_i] = Dispatcher!Last(frames[t]) THEN "run" ELSE "astray"]
      /\ UNCHANGED <<ret_array, ret_i>>
  BY <1>3 DEF Dispatcher!Return
<1>7. /\ step' \in [Thread -> {"run", "stored", "taken", "astray"}] /\ step'[t] = "run"
      /\ \A u \in Thread : u # t => step'[u] = step[u]
  <2>1. ret_array[ret_i] = Dispatcher!Last(frames[t])
    BY <1>2, <1>5 DEF Dispatcher!Last
  <2>2. step' = [step EXCEPT ![t] = "run"]
    BY <1>6, <2>1
  <2>3. "run" \in {"run", "stored", "taken", "astray"}
    OBVIOUS
  <2> QED
    BY <2>2, <2>3, QtdMoves
<1>8. order' \in Seq(Thread) /\ Len(order') = k - 1 /\ \A i \in 1..(k - 1) : order'[i] = order[i]
  <2>1. order \in Seq(Thread)
    BY DEF QtdTypes
  <2>2. order' = Dispatcher!RemoveAt(order, k)
    <3>1. Len(order) > 0 /\ order[Len(order)] = t
      BY <1>2
    <3>2. Dispatcher!SelectLastInSeq(order, LAMBDA u : u = t) = Len(order)
      BY <2>1, <3>1, QtdFinds DEF Dispatcher!SelectLastInSeq
    <3> QED
      BY <1>6, <3>2
  <2>3. k \in 1..Len(order)
    BY <1>1, <1>2
  <2>4. order' \in Seq(Thread) /\ Without(order', order, k)
    BY <2>1, <2>2, <2>3, RemovedAt DEF Dispatcher!RemoveAt
  <2> QED
    BY <1>1, <2>4 DEF Without
<1>9. /\ frames' \in [Thread -> Seq(Site)] /\ \A u \in Thread : u # t => frames'[u] = frames[u]
      /\ Len(frames'[t]) = m - 1 /\ \A j \in 1..(m - 1) : frames'[t][j] = frames[t][j]
  <2>1. frames[t] \in Seq(Site)
    BY DEF QtdTypes
  <2>2. PICK fr : fr = SubSeq(frames[t], 1, m - 1)
    OBVIOUS
  <2>3. fr \in Seq(Site) /\ Len(fr) = m - 1 /\ \A j \in 1..(m - 1) : fr[j] = frames[t][j]
    BY <1>1, <1>5, <2>1, <2>2
  <2>4. frames' = [frames EXCEPT ![t] = fr]
    BY <1>6, <2>2 DEF Dispatcher!Front
  <2>5. frames'[t] = fr
    BY <2>4 DEF QtdTypes
  <2>6. frames' \in [Thread -> Seq(Site)] /\ \A u \in Thread : u # t => frames'[u] = frames[u]
    BY <2>3, <2>4 DEF QtdTypes
  <2> QED
    BY <2>3, <2>5, <2>6
<1>10. QtdTypes'
  <2>1. Len(order') <= Length
    BY <1>1, <1>8, LengthAssumption
  <2>2. DOMAIN ret_array' = 0..Length - 1
    BY <1>6 DEF QtdTypes
  <2>3. order' \in Seq(Thread)
    BY <1>8
  <2>4. step' \in [Thread -> {"run", "stored", "taken", "astray"}]
    BY <1>7
  <2>5. frames' \in [Thread -> Seq(Site)]
    BY <1>9
  <2> QED
    BY <2>1, <2>2, <2>3, <2>4, <2>5, Zenon DEF QtdTypes
<1>11. \A u \in Thread : ~QtdInside(u)'
  <2>1. \A u \in Thread : QtdInside(u) => u = t
    BY <1>1 DEF QtdNested
  <2> QED
    BY <1>7, <2>1 DEF QtdInside
<1>12. ASSUME NEW u \in Thread, u # t
       PROVE  \E f \in [1..Len(frames'[u]) -> 1..Len(order')] : QtdPlaced(u, f)'
  <2>1. PICK f \in [1..Len(frames[u]) -> 1..k] : QtdPlaced(u, f)
    BY DEF QtdNested
  <2>2. PICK n : n = Len(frames[u])
    OBVIOUS
  <2>3. frames'[u] = frames[u]
    BY <1>9, <1>12
  <2>4. \A j \in 1..n : f[j] \in 1..k /\ order[f[j]] = u /\ frames[u][j] = ret_array[f[j] - 1]
    BY <2>1, <2>2 DEF QtdPlaced
  <2>5. \A j \in 1..n : f[j] \in 1..(k - 1)
    BY <1>1, <1>2, <1>12, <2>4
  <2>6. f \in [1..n -> 1..(k - 1)]
    BY <2>1, <2>2, <2>5
  <2>7. \A j \in 1..n : f[j] \in 1..(k - 1) /\ order'[f[j]] = u /\ frames'[u][j] = ret_array'[f[j] - 1]
    BY <1>6, <1>8, <2>3, <2>4, <2>5
  <2>8. \A i \in 1..(k - 1) : order'[i] = u => \E j \in 1..n : f[j] = i
    <3>1. \A i \in 1..k : order[i] = u => \E j \in 1..n : f[j] = i
      BY <2>1, <2>2 DEF QtdPlaced
    <3>2. \A i \in 1..(k - 1) : i \in 1..k
      BY <1>1
    <3> QED
      BY <1>8, <3>1, <3>2
  <2>9. \A i, j \in 1..n : i < j => f[i] < f[j]
    BY <2>1, <2>2 DEF QtdPlaced
  <2> HIDE DEF k
  <2>10. Len(order') = k - 1 /\ Len(frames'[u]) = n
    BY <1>8, <2>2, <2>3
  <2>11. QtdPlaced(u, f)'
    BY <2>7, <2>8, <2>9, <2>10 DEF QtdPlaced
  <2> QED
    BY <2>6, <2>10, <2>11
<1>13. \E f \in [1..Len(frames'[t]) -> 1..Len(order')] : QtdPlaced(t, f)'
  <2>1. PICK f : f = [j \in 1..(m - 1) |-> g[j]]
    OBVIOUS
  <2>2. \A j \in 1..(m - 1) : j \in 1..m /\ j < m /\ f[j] = g[j]
    BY <1>1, <2>1
  <2>3. m \in 1..m
    BY <1>1, <1>5
  <2>4. \A j \in 1..m : /\ g[j] \in 1..k /\ order[g[j]] = t
                       /\ frames[t][j] = ret_array[g[j] - 1]
    BY <1>4 DEF QtdPlaced
  <2>5. \A j \in 1..m : j < m => g[j] < g[m]
    BY <1>4, <2>3 DEF QtdPlaced
  <2>6. \A j \in 1..(m - 1) : f[j] \in 1..(k - 1)
    BY <1>1, <1>5, <2>2, <2>4, <2>5
  <2>7. f \in [1..(m - 1) -> 1..(k - 1)]
    BY <2>1, <2>6
  <2>8. \A j \in 1..(m - 1) : f[j] \in 1..(k - 1) /\ order'[f[j]] = t /\ frames'[t][j] = ret_array'[f[j] - 1]
    <3> TAKE j \in 1..(m - 1)
    <3>1. f[j] = g[j] /\ f[j] \in 1..(k - 1) /\ order'[f[j]] = order[f[j]]
      BY <1>8, <2>2, <2>6
    <3>2. order[f[j]] = t /\ frames[t][j] = ret_array[f[j] - 1]
      BY <2>2, <2>4, <3>1
    <3>3. frames'[t][j] = frames[t][j] /\ ret_array' = ret_array
      BY <1>6, <1>9
    <3> QED
      BY <3>1, <3>2, <3>3
  <2>9. \A i \in 1..(k - 1) : order'[i] = t => \E j \in 1..(m - 1) : f[j] = i
    <3>1. \A i \in 1..k : order[i] = t => \E j \in 1..m : g[j] = i
      BY <1>4 DEF QtdPlaced
    <3> SUFFICES ASSUME NEW i \in 1..(k - 1), order'[i] = t PROVE \E j \in 1..(m - 1) : f[j] = i
      OBVIOUS
    <3>2. i \in 1..k /\ i # k /\ order[i] = t
      BY <1>1, <1>8
    <3>3. PICK j \in 1..m : g[j] = i
      BY <3>1, <3>2
    <3>4. j # m
      BY <1>5, <3>2, <3>3
    <3>5. j \in 1..(m - 1)
      BY <1>1, <3>4
    <3> QED
      BY <2>2, <3>3, <3>5
  <2>10. \A i, j \in 1..(m - 1) : i < j => f[i] < f[j]
    <3>1. \A i, j \in 1..m : i < j => g[i] < g[j]
      BY <1>4 DEF QtdPlaced
    <3> QED
      BY <2>2, <3>1
  <2> HIDE DEF k, m
  <2>11. QtdPlaced(t, f)'
    BY <1>8, <1>9, <2>8, <2>9, <2>10 DEF QtdPlaced
  <2> QED
    BY <1>8, <1>9, <2>7, <2>11
<1>14. \A u \in Thread : step'[u] # "astray"
  <2>1. \A u \in Thread : step[u] # "astray"
    BY <1>1 DEF QtdNested
  <2> QED
    BY <1>7, <2>1
<1> HIDE DEF k, m
<1>15. ret_i' = Len(order') /\ Len(order') \in Nat
  BY <1>1, <1>2, <1>6, <1>8
<1> QED
  BY <1>10, <1>11, <1>12, <1>13, <1>14, <1>15 DEF QtdNested

\* What is not about the calls leaves them.
LEMMA QtdLeft ==
  ASSUME QtdTypes, QtdNested, UNCHANGED <<ret_array, ret_i, step, frames, order>>
  PROVE  QtdTypes' /\ QtdNested'
<1>1. QtdTypes'
  BY DEF QtdTypes
<1>2. QtdNested'
  BY DEF QtdNested, QtdInside, QtdPlaced
<1> QED
  BY <1>1, <1>2

\* Every step keeps the invariant.
LEMMA QtdStep == QtdIInv /\ Dispatcher!DispatchNext => QtdIInv'
<1> SUFFICES ASSUME QtdIInv, Dispatcher!DispatchNext PROVE QtdIInv'
  OBVIOUS
<1>1. CASE Dispatcher!Catch
  <2>1. UNCHANGED <<ret_array, ret_i, step, frames, order, crossed, pointers, allocated>>
    BY <1>1 DEF Dispatcher!Catch, Dispatcher!heap
  <2> QED
    BY <2>1, QtdLeft DEF QtdIInv, QtdHeap
<1>2. ASSUME NEW t \in Thread,
             (\E s \in Site : Dispatcher!StoreReturn(t, s)) \/ Dispatcher!CountCall(t)
               \/ Dispatcher!TakeReturn(t) \/ Dispatcher!Return(t)
      PROVE  QtdIInv'
  <2>1. UNCHANGED <<pointers, allocated>>
    BY <1>2 DEF Dispatcher!StoreReturn, Dispatcher!CountCall, Dispatcher!TakeReturn, Dispatcher!Return, Dispatcher!heap
  <2>2. crossed' \in BOOLEAN /\ (crossed => crossed')
    <3>1. \E c \in BOOLEAN : crossed' = (crossed \/ c)
      <4>1. CASE \E s \in Site : Dispatcher!StoreReturn(t, s)
        BY <4>1 DEF QtdIInv, Dispatcher!StoreReturn, Dispatcher!Outside, Dispatcher!Inside
      <4>2. CASE Dispatcher!CountCall(t)
        BY <4>2 DEF QtdIInv, Dispatcher!CountCall, Dispatcher!Inside
      <4>3. CASE Dispatcher!TakeReturn(t)
        BY <4>3 DEF QtdIInv, Dispatcher!TakeReturn, Dispatcher!Outside, Dispatcher!Inside
      <4>4. CASE Dispatcher!Return(t)
        BY <4>4 DEF QtdIInv, Dispatcher!Return, Dispatcher!Outside, Dispatcher!Inside
      <4> QED
        BY <1>2, <4>1, <4>2, <4>3, <4>4
    <3> QED
      BY <3>1 DEF QtdIInv
  <2>3. ASSUME ~crossed' PROVE QtdTypes' /\ QtdNested'
    <3>1. QtdTypes /\ QtdNested
      BY <2>2, <2>3 DEF QtdIInv
    <3> QED
      BY <1>2, <2>3, <3>1, QtdStore, QtdCount, QtdTake, QtdReturn
  <2> QED
    BY <2>1, <2>2, <2>3 DEF QtdIInv, QtdHeap
<1>3. ASSUME NEW t \in Thread, NEW p \in Low \cup High, Dispatcher!NewPtr(t, p) \/ Dispatcher!DisposePtr(t, p)
      PROVE  QtdIInv'
  <2>1. UNCHANGED <<ret_array, ret_i, step, frames, order, crossed>>
    BY <1>3 DEF Dispatcher!NewPtr, Dispatcher!DisposePtr
  <2>2. QtdHeap'
    BY <1>3 DEF Dispatcher!NewPtr, Dispatcher!DisposePtr, QtdIInv, QtdHeap
  <2>3. crossed' \in BOOLEAN /\ (~crossed' => QtdTypes' /\ QtdNested')
    BY <2>1, QtdLeft DEF QtdIInv
  <2> QED
    BY <2>2, <2>3 DEF QtdIInv
<1> QED
  BY <1>1, <1>2, <1>3 DEF Dispatcher!DispatchNext

\* What the invariant is for.
LEMMA QtdGood == QtdIInv => Dispatcher!ReturnsToCaller
<1> SUFFICES ASSUME QtdIInv PROVE Dispatcher!ReturnsToCaller
  OBVIOUS
<1>1. pointers \subseteq allocated /\ allocated \ pointers \subseteq High
  BY DEF QtdIInv, QtdHeap
<1>2. ASSUME ~crossed
      PROVE  /\ \A t \in Thread : step[t] = "astray" => Len(order) = Length
             /\ ret_i = Len(order) - (IF \E t \in Thread : step[t] \in {"stored", "taken"} THEN 1 ELSE 0)
  BY <1>2 DEF QtdIInv, QtdNested, QtdInside
<1> QED
  BY <1>1, <1>2 DEF Dispatcher!ReturnsToCaller

-----------------------------------------------------------------------------
(* Buffers and media types *)

MemBuffer == [block : BlockOfDll, want : Nat]
MemType == [at : BlockOfDll, holds : [cbFormat : Nat \cup {Any}, pbFormat : BlockOfDll \cup {None, Any}]]

MemTypes == room \in [BlockOfDll -> Nat \cup {None}] /\ buffers \subseteq MemBuffer /\ types \subseteq MemType

\* What belongs to something is in use, and the other way round ...
MemUsed ==
  /\ \A u \in buffers : room[u.block] # None
  /\ \A t \in types : room[t.at] # None
  /\ \A b \in BlockOfDll : room[b] # None => \/ \E u \in buffers : u.block = b
                                             \/ \E t \in types : t.at = b \/ t.holds.pbFormat = b

\* ... no two have a block in common ...
MemApart ==
  /\ \A u, v \in buffers : u.block = v.block => u = v
  /\ \A t, r \in types : t.at = r.at => t = r
  /\ \A t, r \in types : t.holds.pbFormat = r.holds.pbFormat /\ t.holds.pbFormat \in BlockOfDll => t = r
  /\ \A u \in buffers, t \in types : u.block # t.at /\ u.block # t.holds.pbFormat
  /\ \A t, r \in types : t.at # r.holds.pbFormat

\* ... a format has its size, and only a type that was made without one tells none ...
MemFormats ==
  /\ \A t \in types : t.holds.pbFormat \in BlockOfDll => room[t.holds.pbFormat] = t.holds.cbFormat /\ t.holds.cbFormat \in Nat
  /\ \A t \in types : t.holds.cbFormat = 0 => t.holds.pbFormat = None
  /\ \A t \in types : t.holds.pbFormat = Any => blank

\* ... and a buffer is as large as was asked for.
MemRoom == \A u \in buffers : short \/ room[u.block] >= u.want

MemFlags == short \in BOOLEAN /\ blank \in BOOLEAN /\ crashed \in BOOLEAN
MemIInv == MemTypes /\ MemUsed /\ MemApart /\ MemFormats /\ MemRoom /\ MemFlags

\* Nothing is none of the addresses, nor a size.
LEMMA MemNames ==
  /\ None \notin BlockOfDll /\ Any \notin BlockOfDll /\ None \notin Nat /\ Any \notin Nat /\ None # Any
  /\ \A n \in Nat : n # None /\ n # Any
BY MemoryAssumption

\* What a type or a buffer is made of.
LEMMA MemParts ==
  ASSUME MemIInv
  PROVE  /\ \A u \in buffers : u.block \in BlockOfDll /\ u.want \in Nat /\ room[u.block] \in Nat
         /\ \A t \in types : /\ t.at \in BlockOfDll /\ t.holds.cbFormat \in Nat \cup {Any}
                            /\ t.holds.pbFormat \in BlockOfDll \cup {None, Any}
<1>1. \A u \in buffers : u \in MemBuffer
  BY DEF MemIInv, MemTypes
<1>2. \A t \in types : t \in MemType
  BY DEF MemIInv, MemTypes
<1>3. \A u \in buffers : u.block \in BlockOfDll /\ u.want \in Nat
  BY <1>1 DEF MemBuffer
<1>4. \A t \in types : /\ t.at \in BlockOfDll /\ t.holds.cbFormat \in Nat \cup {Any}
                     /\ t.holds.pbFormat \in BlockOfDll \cup {None, Any}
  BY <1>2 DEF MemType
<1>5. \A u \in buffers : room[u.block] \in Nat
  BY <1>3 DEF MemIInv, MemTypes, MemUsed
<1> QED
  BY <1>3, <1>4, <1>5

\* A free block belongs to nothing.
LEMMA MemFresh ==
  ASSUME MemIInv, NEW b \in BlockOfDll, room[b] = None
  PROVE  (\A u \in buffers : u.block # b) /\ \A t \in types : t.at # b /\ t.holds.pbFormat # b
BY MemNames DEF MemIInv, MemUsed, MemFormats

\* How a block is taken and released.
LEMMA MemSet ==
  ASSUME MemIInv, NEW b \in BlockOfDll, NEW n \in Nat \cup {None}, room' = [room EXCEPT ![b] = n]
  PROVE  room' \in [BlockOfDll -> Nat \cup {None}] /\ room'[b] = n /\ \A c \in BlockOfDll : c # b => room'[c] = room[c]
BY DEF MemIInv, MemTypes

\* Nothing changes.
LEMMA MemSame == MemIInv /\ UNCHANGED <<room, buffers, types, short, blank, crashed>> => MemIInv'
BY DEF MemIInv, MemTypes, MemUsed, MemApart, MemFormats, MemRoom, MemFlags

\* A buffer in a block that was free, or none.
LEMMA MemRequest ==
  ASSUME MemIInv, NEW want \in Nat, NEW n \in Nat, Memory!Request(want, n)
  PROVE  MemIInv'
<1>1. PICK b \in Memory!Taken :
        /\ room' = Memory!With(b, n)
        /\ buffers' = IF b = None THEN buffers ELSE buffers \cup {[block |-> b, want |-> want]}
        /\ short' = (short \/ (b # None /\ n < want))
        /\ UNCHANGED <<types, blank, crashed>>
  BY DEF Memory!Request
<1>2. CASE b = None
  <2>1. UNCHANGED <<room, buffers, types, blank, crashed>>
    BY <1>1, <1>2 DEF Memory!With
  <2>2. short' = short
    BY <1>1, <1>2 DEF MemIInv, MemFlags
  <2> QED
    BY <2>1, <2>2, MemSame
<1>3. CASE b # None
  <2>1. b \in BlockOfDll /\ room[b] = None
    BY <1>3 DEF Memory!Taken, Memory!Used
  <2>2. room' = [room EXCEPT ![b] = n]
    BY <1>1, <1>3 DEF Memory!With
  <2>3. room' \in [BlockOfDll -> Nat \cup {None}] /\ room'[b] = n /\ \A c \in BlockOfDll : c # b => room'[c] = room[c]
    BY <2>1, <2>2, MemSet
  <2>4. (\A u \in buffers : u.block # b) /\ \A t \in types : t.at # b /\ t.holds.pbFormat # b
    BY <2>1, MemFresh
  <2>5. PICK v : v = [block |-> b, want |-> want]
    OBVIOUS
  <2>6. v.block = b /\ v.want = want /\ v \in MemBuffer
    BY <2>1, <2>5 DEF MemBuffer
  <2>7. buffers' = buffers \cup {v}
    BY <1>1, <1>3, <2>5
  <2>8. MemTypes'
    BY <1>1, <2>3, <2>6, <2>7 DEF MemIInv, MemTypes
  <2>9. MemUsed'
    BY <1>1, <2>3, <2>4, <2>6, <2>7, MemNames, MemParts DEF MemIInv, MemUsed
  <2>10. MemApart'
    BY <1>1, <2>4, <2>6, <2>7 DEF MemIInv, MemApart
  <2>11. MemFormats'
    BY <1>1, <2>3, <2>4, <2>6, <2>7 DEF MemIInv, MemFormats
  <2>12. MemRoom'
    <3> SUFFICES ASSUME NEW u \in buffers', ~short' PROVE room'[u.block] >= u.want
      BY DEF MemRoom
    <3>1. CASE u = v
      <4>1. ~(n < want)
        BY <1>1, <1>3
      <4> QED
        BY <2>3, <2>6, <3>1, <4>1
    <3>2. CASE u \in buffers
      <4>1. u.block \in BlockOfDll /\ u.block # b /\ ~short
        BY <1>1, <2>4, <3>2, MemParts
      <4>2. room'[u.block] = room[u.block] /\ room[u.block] >= u.want
        BY <2>3, <3>2, <4>1 DEF MemIInv, MemRoom
      <4> QED
        BY <4>2
    <3> QED
      BY <2>7, <3>1, <3>2
  <2>13. MemFlags'
    BY <1>1 DEF MemIInv, MemFlags
  <2> QED
    BY <2>8, <2>9, <2>10, <2>11, <2>12, <2>13 DEF MemIInv
<1> QED
  BY <1>2, <1>3

\* A buffer goes, and its block with it.
LEMMA MemDrop ==
  ASSUME MemIInv, NEW u \in buffers, room' = [room EXCEPT ![u.block] = None], buffers' = buffers \ {u},
         UNCHANGED <<types, short, blank>>, crashed' \in BOOLEAN
  PROVE  MemIInv'
<1>1. u.block \in BlockOfDll
  BY MemParts
<1>2. /\ room' \in [BlockOfDll -> Nat \cup {None}] /\ room'[u.block] = None
      /\ \A c \in BlockOfDll : c # u.block => room'[c] = room[c]
  BY <1>1, MemSet
<1>3. \A v \in buffers' : v \in buffers /\ v # u /\ v.block \in BlockOfDll /\ v.block # u.block
  BY MemParts DEF MemIInv, MemApart
<1>4. \A t \in types : t.at \in BlockOfDll /\ t.at # u.block /\ t.holds.pbFormat # u.block
  BY MemParts DEF MemIInv, MemApart
<1>5. MemTypes'
  BY <1>2 DEF MemIInv, MemTypes
<1>6. MemUsed'
  BY <1>2, <1>3, <1>4 DEF MemIInv, MemUsed
<1>7. MemApart'
  BY <1>3 DEF MemIInv, MemApart
<1>8. MemFormats'
  BY <1>2, <1>4 DEF MemIInv, MemFormats
<1>9. MemRoom'
  BY <1>2, <1>3 DEF MemIInv, MemRoom
<1>10. MemFlags'
  BY DEF MemIInv, MemFlags
<1> QED
  BY <1>5, <1>6, <1>7, <1>8, <1>9, <1>10 DEF MemIInv

\* Its size changes where it is.
LEMMA MemResize ==
  ASSUME MemIInv, NEW u \in buffers, NEW want \in Nat, room' = room,
         buffers' = (buffers \ {u}) \cup {[u EXCEPT !.want = want]},
         UNCHANGED <<types, blank, crashed>>, short' = (short \/ room[u.block] < want)
  PROVE  MemIInv'
<1>1. u \in MemBuffer /\ u.block \in BlockOfDll /\ room[u.block] \in Nat
  BY MemParts DEF MemIInv, MemTypes
<1>2. PICK v : v = [u EXCEPT !.want = want]
  OBVIOUS
<1>3. v \in MemBuffer /\ v.block = u.block /\ v.want = want
  BY <1>1, <1>2 DEF MemBuffer
<1>4. buffers' = (buffers \ {u}) \cup {v}
  BY <1>2
<1>5. MemTypes'
  BY <1>3, <1>4 DEF MemIInv, MemTypes
<1>6. MemUsed'
  BY <1>3, <1>4 DEF MemIInv, MemUsed
<1>7. MemApart'
  BY <1>3, <1>4 DEF MemIInv, MemApart
<1>8. MemFormats'
  BY DEF MemIInv, MemFormats
<1>9. MemRoom'
  <2> SUFFICES ASSUME NEW w \in buffers', ~short' PROVE room[w.block] >= w.want
    BY DEF MemRoom
  <2>1. CASE w = v
    <3>1. ~(room[u.block] < want)
      BY Zenon
    <3> QED
      BY <1>1, <1>3, <2>1, <3>1
  <2>2. CASE w \in buffers
    BY <2>2 DEF MemIInv, MemRoom
  <2> QED
    BY <1>4, <2>1, <2>2
<1>10. MemFlags'
  BY DEF MemIInv, MemFlags
<1> QED
  BY <1>5, <1>6, <1>7, <1>8, <1>9, <1>10 DEF MemIInv

\* It moves to a block that was free.
LEMMA MemMove ==
  ASSUME MemIInv, NEW u \in buffers, NEW want \in Nat, NEW b \in BlockOfDll, room[b] = None,
         room' = [[room EXCEPT ![b] = want] EXCEPT ![u.block] = None],
         buffers' = (buffers \ {u}) \cup {[block |-> b, want |-> want]},
         UNCHANGED <<types, short, blank>>, crashed' \in BOOLEAN
  PROVE  MemIInv'
<1>1. u.block \in BlockOfDll /\ u.block # b
  BY MemParts, MemFresh
<1>2. /\ room' \in [BlockOfDll -> Nat \cup {None}] /\ room'[u.block] = None /\ room'[b] = want
      /\ \A c \in BlockOfDll : c # u.block /\ c # b => room'[c] = room[c]
  <2>1. PICK some : some = [room EXCEPT ![b] = want]
    OBVIOUS
  <2>2. some \in [BlockOfDll -> Nat \cup {None}] /\ some[b] = want /\ \A c \in BlockOfDll : c # b => some[c] = room[c]
    BY <2>1 DEF MemIInv, MemTypes
  <2>3. room' = [some EXCEPT ![u.block] = None]
    BY <2>1
  <2> QED
    BY <1>1, <2>2, <2>3
<1>3. PICK v : v = [block |-> b, want |-> want]
  OBVIOUS
<1>4. v.block = b /\ v.want = want /\ v \in MemBuffer
  BY <1>3 DEF MemBuffer
<1>5. \A w \in buffers' : w # v =>
        w \in buffers /\ w # u /\ w.block \in BlockOfDll /\ w.block # u.block /\ w.block # b
  <2> SUFFICES ASSUME NEW w \in buffers', w # v
               PROVE  w \in buffers /\ w # u /\ w.block \in BlockOfDll /\ w.block # u.block /\ w.block # b
    OBVIOUS
  <2>1. w \in buffers /\ w # u
    BY <1>3
  <2>2. w.block \in BlockOfDll /\ w.block # b
    BY <2>1, MemParts, MemFresh
  <2>3. w.block # u.block
    BY <2>1 DEF MemIInv, MemApart
  <2> QED
    BY <2>1, <2>2, <2>3
<1>6. \A t \in types : t.at \in BlockOfDll /\ t.at # u.block /\ t.at # b /\ t.holds.pbFormat # u.block /\ t.holds.pbFormat # b
  BY MemParts, MemFresh DEF MemIInv, MemApart
<1>7. v \in buffers' /\ \A w \in buffers : w # u => w \in buffers'
  BY <1>3
<1>8. MemTypes'
  BY <1>2, <1>4, <1>5 DEF MemIInv, MemTypes
<1>9. MemUsed'
  <2>1. \A w \in buffers' : room'[w.block] # None
    BY <1>2, <1>4, <1>5, MemNames DEF MemIInv, MemUsed
  <2>2. \A t \in types' : room'[t.at] # None
    BY <1>2, <1>6 DEF MemIInv, MemUsed
  <2>3. ASSUME NEW c \in BlockOfDll, room'[c] # None
        PROVE  \/ \E w \in buffers' : w.block = c
               \/ \E t \in types' : t.at = c \/ t.holds.pbFormat = c
    <3>1. CASE c = b
      BY <1>4, <1>7, <3>1
    <3>2. CASE c # b
      <4>1. c # u.block /\ room[c] # None
        BY <1>2, <2>3, <3>2
      <4> QED
        BY <1>7, <4>1 DEF MemIInv, MemUsed
    <3> QED
      BY <3>1, <3>2
  <2> QED
    BY <2>1, <2>2, <2>3 DEF MemUsed
<1>10. MemApart'
  BY <1>4, <1>5, <1>6 DEF MemIInv, MemApart
<1>11. MemFormats'
  BY <1>2, <1>6 DEF MemIInv, MemFormats
<1>12. MemRoom'
  <2> SUFFICES ASSUME NEW w \in buffers', ~short' PROVE room'[w.block] >= w.want
    BY DEF MemRoom
  <2>1. CASE w = v
    BY <1>2, <1>4, <2>1
  <2>2. CASE w # v
    <3>1. w \in buffers /\ room'[w.block] = room[w.block]
      BY <1>2, <1>5, <2>2
    <3> QED
      BY <3>1 DEF MemIInv, MemRoom
  <2> QED
    BY <2>1, <2>2
<1>13. MemFlags'
  BY DEF MemIInv, MemFlags
<1> QED
  BY <1>8, <1>9, <1>10, <1>11, <1>12, <1>13 DEF MemIInv

\* Sizes are numbers.
LEMMA MemSizes ==
  ASSUME NEW n \in Nat, NEW num \in Nat
  PROVE  Memory!Rounded(n) \in Nat /\ num * n \in Nat /\ (num * n) % Word \in Nat
<1>1. PICK k : k = (n + HeapPage - 1) \div HeapPage
  OBVIOUS
<1>2. k \in Nat
  BY <1>1, MemoryAssumption
<1>3. k * HeapPage \in Nat /\ num * n \in Nat
  BY <1>2, MemoryAssumption
<1>4. PICK p : p = num * n
  OBVIOUS
<1>5. p \in Nat /\ p % Word \in Nat
  BY <1>3, <1>4, MemoryAssumption
<1> QED
  BY <1>1, <1>3, <1>4, <1>5 DEF Memory!Rounded

LEMMA MemRealloc ==
  ASSUME MemIInv, NEW u \in buffers, NEW want \in Nat, Memory!my_realloc(u, want)
  PROVE  MemIInv'
<1>1. room[u.block] \in Nat /\ u.block \in BlockOfDll /\ ~crashed /\ UNCHANGED <<types, short, blank>>
  BY MemParts DEF Memory!my_realloc
<1>2. CASE room[u.block] >= want
  <2>1. ~(room[u.block] < want)
    BY <1>1, <1>2
  <2>2. short' = (short \/ room[u.block] < want)
    BY <1>1, <2>1 DEF MemIInv, MemFlags
  <2>3. buffers' = (buffers \ {u}) \cup {[u EXCEPT !.want = want]} /\ UNCHANGED <<room, crashed>>
    BY <1>2 DEF Memory!my_realloc
  <2> QED
    BY <1>1, <2>2, <2>3, MemResize
<1>3. CASE ~(room[u.block] >= want)
  <2>1. PICK b \in Memory!Taken :
          /\ crashed' = (b = None /\ room[u.block] > 0)
          /\ room' = Memory!Release(u.block, Memory!With(b, want))
          /\ buffers' = (buffers \ {u}) \cup (IF b = None THEN {} ELSE {[block |-> b, want |-> want]})
    BY <1>3 DEF Memory!my_realloc
  <2>2. crashed' \in BOOLEAN
    BY <2>1
  <2>3. CASE b = None
    <3>1. room' = [room EXCEPT ![u.block] = None] /\ buffers' = buffers \ {u}
      BY <2>1, <2>3 DEF Memory!Release, Memory!With
    <3> QED
      BY <1>1, <2>2, <3>1, MemDrop
  <2>4. CASE b # None
    <3>1. b \in BlockOfDll /\ room[b] = None
      BY <2>4 DEF Memory!Taken, Memory!Used
    <3>2. /\ room' = [[room EXCEPT ![b] = want] EXCEPT ![u.block] = None]
          /\ buffers' = (buffers \ {u}) \cup {[block |-> b, want |-> want]}
      BY <2>1, <2>4 DEF Memory!Release, Memory!With
    <3> QED
      BY <1>1, <2>2, <3>1, <3>2, MemMove
  <2> QED
    BY <2>3, <2>4
<1> QED
  BY <1>2, <1>3

\* The invariant is kept by the calls about buffers ...
LEMMA MemBufferStep == MemIInv /\ Memory!BufferNext => MemIInv'
<1> SUFFICES ASSUME MemIInv, Memory!BufferNext PROVE MemIInv'
  OBVIOUS
<1>1. ASSUME NEW n \in Ask,
             Memory!HeapAlloc(n) \/ Memory!GlobalAlloc(n) \/ Memory!LocalAlloc(n)
               \/ Memory!CoTaskMemAlloc(n) \/ Memory!malloc(n) \/ Memory!new(n)
      PROVE  MemIInv'
  <2>1. n \in Nat /\ Memory!Rounded(n) \in Nat
    BY MemSizes, MemoryAssumption
  <2>2. Memory!Request(n, n) \/ Memory!Request(n, Memory!Rounded(n))
    BY <1>1 DEF Memory!HeapAlloc, Memory!GlobalAlloc, Memory!LocalAlloc, Memory!CoTaskMemAlloc, Memory!malloc, Memory!new
  <2> QED
    BY <2>1, <2>2, MemRequest
<1>2. ASSUME NEW num \in Ask, NEW n \in Ask, Memory!calloc(num, n) PROVE MemIInv'
  <2>1. num * n \in Nat /\ (num * n) % Word \in Nat
    BY MemSizes, MemoryAssumption
  <2>2. Memory!Request(num * n, (num * n) % Word)
    BY <1>2 DEF Memory!calloc
  <2> QED
    BY <2>1, <2>2, MemRequest
<1>3. ASSUME NEW u \in buffers, Memory!GlobalFree(u) PROVE MemIInv'
  <2>1. room' = [room EXCEPT ![u.block] = None] /\ buffers' = buffers \ {u} /\ UNCHANGED <<types, short, blank, crashed>>
    BY <1>3 DEF Memory!GlobalFree, Memory!Release
  <2>2. crashed' \in BOOLEAN
    BY <2>1 DEF MemIInv, MemFlags
  <2> QED
    BY <2>1, <2>2, MemDrop
<1>4. ASSUME NEW u \in buffers, NEW n \in Ask, Memory!my_realloc(u, n) PROVE MemIInv'
  BY <1>4, MemRealloc, MemoryAssumption
<1>5. ASSUME NEW u \in buffers, NEW n \in Ask, Memory!LocalReAllocModify(u, n) PROVE MemIInv'
  <2>1. n \in Nat /\ room' = room /\ UNCHANGED <<types, blank, crashed>> /\ short' = (short \/ room[u.block] < n)
        /\ buffers' = (buffers \ {u}) \cup {[u EXCEPT !.want = n]}
    BY <1>5, MemoryAssumption DEF Memory!LocalReAllocModify
  <2> QED
    BY <2>1, MemResize
<1> QED
  BY <1>1, <1>2, <1>3, <1>4, <1>5 DEF Memory!BufferNext, Memory!LocalReAlloc

\* The invariant holds at first.
LEMMA MemInit == Memory!Init => MemIInv
<1> SUFFICES ASSUME Memory!Init PROVE MemIInv
  OBVIOUS
<1>1. /\ room \in [BlockOfDll -> {None}] /\ buffers = {} /\ types = {}
      /\ short = FALSE /\ blank = FALSE /\ crashed = FALSE
  BY DEF Memory!Init
<1>2. MemTypes
  BY <1>1 DEF MemTypes
<1>3. MemUsed /\ MemApart /\ MemFormats /\ MemRoom
  BY <1>1 DEF MemUsed, MemApart, MemFormats, MemRoom
<1>4. MemFlags
  BY <1>1 DEF MemFlags
<1> QED
  BY <1>2, <1>3, <1>4 DEF MemIInv

\* What a type may hold after a step, with its format in a block that was free.
MemHolds(cb, pb) ==
  /\ cb \in Nat \cup {Any} /\ pb \in BlockOfDll \cup {None, Any}
  /\ pb \in BlockOfDll => room[pb] = None /\ room'[pb] = cb /\ cb \in Nat
  /\ cb = 0 => pb = None
  /\ pb = Any => blank'

MemElse == UNCHANGED <<buffers, short>> /\ blank' \in BOOLEAN /\ crashed' \in BOOLEAN /\ (blank => blank')

\* A type in a block that was free.
LEMMA MemAddType ==
  ASSUME MemIInv, NEW a \in BlockOfDll, room[a] = None, NEW cb, NEW pb, MemHolds(cb, pb), pb # a, MemElse,
         room' \in [BlockOfDll -> Nat \cup {None}], room'[a] = 1,
         \A c \in BlockOfDll : c # a /\ c # pb => room'[c] = room[c],
         types' = types \cup {[at |-> a, holds |-> [cbFormat |-> cb, pbFormat |-> pb]]}
  PROVE  MemIInv'
<1>1. PICK r : r = [at |-> a, holds |-> [cbFormat |-> cb, pbFormat |-> pb]]
  OBVIOUS
<1>2. r.at = a /\ r.holds.cbFormat = cb /\ r.holds.pbFormat = pb /\ r \in MemType
  BY <1>1 DEF MemHolds, MemType
<1>3. types' = types \cup {r}
  BY <1>1
<1>4. /\ \A u \in buffers : u.block \in BlockOfDll /\ u.block # a /\ u.block # pb
      /\ \A t \in types : t.at \in BlockOfDll /\ t.at # a /\ t.at # pb /\ t.holds.pbFormat # a
  BY MemParts, MemFresh, MemNames DEF MemHolds
<1>5. ASSUME NEW t \in types, t.holds.pbFormat \in BlockOfDll
      PROVE  t.holds.pbFormat # pb /\ room'[t.holds.pbFormat] = room[t.holds.pbFormat]
  <2>1. t.holds.pbFormat # pb
    BY <1>5, MemFresh DEF MemHolds
  <2> QED
    BY <1>4, <1>5, <2>1
<1>6. (\A u \in buffers : room'[u.block] = room[u.block]) /\ \A t \in types : room'[t.at] = room[t.at]
  BY <1>4
<1>7. MemTypes'
  BY <1>2, <1>3 DEF MemIInv, MemTypes, MemElse
<1>8. MemUsed'
  <2>1. \A u \in buffers' : room'[u.block] # None
    BY <1>6 DEF MemIInv, MemUsed, MemElse
  <2>2. \A t \in types' : room'[t.at] # None
    <3>1. 1 # None
      BY MemNames
    <3> QED
      BY <1>2, <1>3, <1>6, <3>1 DEF MemIInv, MemUsed
  <2>3. ASSUME NEW c \in BlockOfDll, room'[c] # None
        PROVE  \/ \E u \in buffers' : u.block = c
               \/ \E t \in types' : t.at = c \/ t.holds.pbFormat = c
    <3>1. CASE c = a \/ c = pb
      BY <1>2, <1>3, <3>1
    <3>2. CASE c # a /\ c # pb
      <4>1. room[c] # None
        BY <2>3, <3>2
      <4> QED
        BY <1>3, <4>1 DEF MemIInv, MemUsed, MemElse
    <3> QED
      BY <3>1, <3>2
  <2> QED
    BY <2>1, <2>2, <2>3 DEF MemUsed
<1>9. MemApart'
  <2>1. \A u, v \in buffers' : u.block = v.block => u = v
    BY DEF MemIInv, MemApart, MemElse
  <2>2. \A t, q \in types' : t.at = q.at => t = q
    BY <1>2, <1>3, <1>4 DEF MemIInv, MemApart
  <2>3. \A t, q \in types' : t.holds.pbFormat = q.holds.pbFormat /\ t.holds.pbFormat \in BlockOfDll => t = q
    BY <1>2, <1>3, <1>5 DEF MemIInv, MemApart
  <2>4. \A u \in buffers', t \in types' : u.block # t.at /\ u.block # t.holds.pbFormat
    BY <1>2, <1>3, <1>4 DEF MemIInv, MemApart, MemElse
  <2>5. \A t, q \in types' : t.at # q.holds.pbFormat
    BY <1>2, <1>3, <1>4 DEF MemIInv, MemApart
  <2> QED
    BY <2>1, <2>2, <2>3, <2>4, <2>5, Zenon DEF MemApart
<1>10. MemFormats'
  BY <1>2, <1>3, <1>5 DEF MemIInv, MemFormats, MemHolds, MemElse
<1>11. MemRoom'
  BY <1>6 DEF MemIInv, MemRoom, MemElse
<1>12. MemFlags'
  BY DEF MemIInv, MemFlags, MemElse
<1> QED
  BY <1>7, <1>8, <1>9, <1>10, <1>11, <1>12 DEF MemIInv

\* A type that has no format gets one, in a block that was free, or a size only.
LEMMA MemSetType ==
  ASSUME MemIInv, NEW d \in types, d.holds.pbFormat \notin BlockOfDll, NEW cb, NEW pb, MemHolds(cb, pb), MemElse,
         room' \in [BlockOfDll -> Nat \cup {None}],
         \A c \in BlockOfDll : c # pb => room'[c] = room[c],
         types' = (types \ {d}) \cup {[at |-> d.at, holds |-> [cbFormat |-> cb, pbFormat |-> pb]]}
  PROVE  MemIInv'
<1>1. PICK r : r = [at |-> d.at, holds |-> [cbFormat |-> cb, pbFormat |-> pb]]
  OBVIOUS
<1>0. d.at \in BlockOfDll
  BY MemParts
<1>2. r.at = d.at /\ r.holds.cbFormat = cb /\ r.holds.pbFormat = pb /\ r \in MemType
  BY <1>0, <1>1 DEF MemHolds, MemType
<1>3. types' = (types \ {d}) \cup {r}
  BY <1>1
<1>4. /\ \A u \in buffers : u.block \in BlockOfDll /\ u.block # pb
      /\ \A t \in types : t.at \in BlockOfDll /\ t.at # pb
  BY MemParts, MemFresh, MemNames DEF MemHolds
<1>5. ASSUME NEW t \in types, t.holds.pbFormat \in BlockOfDll
      PROVE  t.holds.pbFormat # pb /\ room'[t.holds.pbFormat] = room[t.holds.pbFormat]
  <2>1. t.holds.pbFormat # pb
    BY <1>5, MemFresh DEF MemHolds
  <2> QED
    BY <1>4, <1>5, <2>1
<1>6. (\A u \in buffers : room'[u.block] = room[u.block]) /\ \A t \in types : room'[t.at] = room[t.at]
  BY <1>4
<1>7. MemTypes'
  BY <1>2, <1>3 DEF MemIInv, MemTypes, MemElse
<1>8. MemUsed'
  <2>1. \A u \in buffers' : room'[u.block] # None
    BY <1>6 DEF MemIInv, MemUsed, MemElse
  <2>2. \A t \in types' : room'[t.at] # None
    BY <1>2, <1>3, <1>6 DEF MemIInv, MemUsed
  <2>3. ASSUME NEW c \in BlockOfDll, room'[c] # None
        PROVE  \/ \E u \in buffers' : u.block = c
               \/ \E t \in types' : t.at = c \/ t.holds.pbFormat = c
    <3>1. CASE c = d.at \/ c = pb
      BY <1>2, <1>3, <3>1
    <3>2. CASE c # d.at /\ c # pb
      <4>1. room[c] # None /\ d.holds.pbFormat # c
        BY <2>3, <3>2
      <4> QED
        BY <1>3, <3>2, <4>1 DEF MemIInv, MemUsed, MemElse
    <3> QED
      BY <3>1, <3>2
  <2> QED
    BY <2>1, <2>2, <2>3 DEF MemUsed
<1>9. MemApart'
  <2>1. \A u, v \in buffers' : u.block = v.block => u = v
    BY DEF MemIInv, MemApart, MemElse
  <2>2. \A t, q \in types' : t.at = q.at => t = q
    BY <1>2, <1>3 DEF MemIInv, MemApart
  <2>3. \A t, q \in types' : t.holds.pbFormat = q.holds.pbFormat /\ t.holds.pbFormat \in BlockOfDll => t = q
    BY <1>2, <1>3, <1>5 DEF MemIInv, MemApart
  <2>4. \A u \in buffers', t \in types' : u.block # t.at /\ u.block # t.holds.pbFormat
    BY <1>2, <1>3, <1>4 DEF MemIInv, MemApart, MemElse
  <2>5. \A t, q \in types' : t.at # q.holds.pbFormat
    BY <1>2, <1>3, <1>4 DEF MemIInv, MemApart
  <2> QED
    BY <2>1, <2>2, <2>3, <2>4, <2>5, Zenon DEF MemApart
<1>10. MemFormats'
  BY <1>2, <1>3, <1>5 DEF MemIInv, MemFormats, MemHolds, MemElse
<1>11. MemRoom'
  BY <1>6 DEF MemIInv, MemRoom, MemElse
<1>12. MemFlags'
  BY DEF MemIInv, MemFlags, MemElse
<1> QED
  BY <1>7, <1>8, <1>9, <1>10, <1>11, <1>12 DEF MemIInv

\* A type loses its format, if it has one, and is then "rest" or, without, gone.
LEMMA MemLose ==
  ASSUME MemIInv, NEW d \in types, NEW rest, MemElse,
         rest = {[at |-> d.at, holds |-> [cbFormat |-> 0, pbFormat |-> None]]} \/ rest = {},
         room' \in [BlockOfDll -> Nat \cup {None}],
         d.holds.pbFormat \in BlockOfDll => room'[d.holds.pbFormat] = None,
         IF rest = {} THEN room'[d.at] = None ELSE room'[d.at] = room[d.at],
         \A c \in BlockOfDll : c # d.at /\ c # d.holds.pbFormat => room'[c] = room[c],
         types' = (types \ {d}) \cup rest
  PROVE  MemIInv'
<1>1. d.at \in BlockOfDll
  BY MemParts
<1>2. rest \subseteq MemType /\ \A r \in rest : r.at = d.at /\ r.holds.cbFormat = 0 /\ r.holds.pbFormat = None
  BY <1>1 DEF MemType
<1>3. \A t \in types' : t \in rest \/ (t \in types /\ t # d)
  OBVIOUS
<1>4. \A u \in buffers : u.block \in BlockOfDll /\ u.block # d.at /\ u.block # d.holds.pbFormat
  BY MemParts DEF MemIInv, MemApart
<1>5. \A t \in types : t.at \in BlockOfDll /\ t.at # d.holds.pbFormat /\ (t # d => t.at # d.at)
  BY MemParts DEF MemIInv, MemApart
<1>6. \A t \in types : t.holds.pbFormat \in BlockOfDll /\ t # d => t.holds.pbFormat # d.at /\ t.holds.pbFormat # d.holds.pbFormat
  BY DEF MemIInv, MemApart
<1>7. \A r \in rest : room'[r.at] = room[d.at]
  BY <1>2
<1>8. MemTypes'
  BY <1>2, <1>3 DEF MemIInv, MemTypes, MemElse
<1>9. MemUsed'
  <2>1. \A u \in buffers' : room'[u.block] # None
    BY <1>4 DEF MemIInv, MemUsed, MemElse
  <2>2. \A t \in types' : room'[t.at] # None
    BY <1>3, <1>5, <1>7 DEF MemIInv, MemUsed
  <2>3. ASSUME NEW c \in BlockOfDll, room'[c] # None
        PROVE  \/ \E u \in buffers' : u.block = c
               \/ \E t \in types' : t.at = c \/ t.holds.pbFormat = c
    <3>1. c # d.holds.pbFormat
      BY <2>3
    <3>2. CASE c = d.at
      <4>1. rest # {}
        BY <2>3, <3>2
      <4>2. PICK r \in rest : TRUE
        BY <4>1
      <4> QED
        BY <1>2, <3>2, <4>2
    <3>3. CASE c # d.at
      <4>1. room[c] # None
        BY <2>3, <3>1, <3>3
      <4> QED
        BY <3>1, <3>3, <4>1 DEF MemIInv, MemUsed, MemElse
    <3> QED
      BY <3>2, <3>3
  <2> QED
    BY <2>1, <2>2, <2>3 DEF MemUsed
<1>10. MemApart'
  <2>1. \A u, v \in buffers' : u.block = v.block => u = v
    BY DEF MemIInv, MemApart, MemElse
  <2>2. \A t, q \in types' : t.at = q.at => t = q
    <3>1. \A t, q \in rest : t = q
      OBVIOUS
    <3> QED
      BY <1>2, <1>3, <1>5, <3>1 DEF MemIInv, MemApart
  <2>3. \A t, q \in types' : t.holds.pbFormat = q.holds.pbFormat /\ t.holds.pbFormat \in BlockOfDll => t = q
    BY <1>2, <1>3, MemNames DEF MemIInv, MemApart
  <2>4. \A u \in buffers', t \in types' : u.block # t.at /\ u.block # t.holds.pbFormat
    BY <1>2, <1>3, <1>4, MemNames DEF MemIInv, MemApart, MemElse
  <2>5. \A t, q \in types' : t.at # q.holds.pbFormat
    BY <1>1, <1>2, <1>3, <1>5, MemNames DEF MemIInv, MemApart
  <2> QED
    BY <2>1, <2>2, <2>3, <2>4, <2>5, Zenon DEF MemApart
<1>11. MemFormats'
  <2>1. \A t \in types' : t.holds.pbFormat \in BlockOfDll => room'[t.holds.pbFormat] = t.holds.cbFormat /\ t.holds.cbFormat \in Nat
    <3> SUFFICES ASSUME NEW t \in types', t.holds.pbFormat \in BlockOfDll
                 PROVE  room'[t.holds.pbFormat] = t.holds.cbFormat /\ t.holds.cbFormat \in Nat
      OBVIOUS
    <3>1. t \in types /\ t # d
      BY <1>2, <1>3, MemNames
    <3>2. room'[t.holds.pbFormat] = room[t.holds.pbFormat]
      BY <1>6, <3>1
    <3> QED
      BY <3>1, <3>2 DEF MemIInv, MemFormats
  <2>2. \A t \in types' : t.holds.cbFormat = 0 => t.holds.pbFormat = None
    BY <1>2, <1>3 DEF MemIInv, MemFormats
  <2>3. \A t \in types' : t.holds.pbFormat = Any => blank'
    BY <1>2, <1>3, MemNames DEF MemIInv, MemFormats, MemElse
  <2> QED
    BY <2>1, <2>2, <2>3 DEF MemFormats
<1>12. MemRoom'
  BY <1>4 DEF MemIInv, MemRoom, MemElse
<1>13. MemFlags'
  BY DEF MemIInv, MemFlags, MemElse
<1> QED
  BY <1>8, <1>9, <1>10, <1>11, <1>12, <1>13 DEF MemIInv

\* A new type.
LEMMA MemCreate ==
  ASSUME MemIInv, NEW cb \in Nat, Memory!MoCreateMediaType(cb)
  PROVE  MemIInv'
<1>1. PICK t \in Memory!Taken :
        IF t = None THEN UNCHANGED <<room, types, blank>>
        ELSE \E b \in IF cb = 0 THEN {None} ELSE Memory!Taken \ {t} :
               /\ room' = [Memory!With(b, cb) EXCEPT ![t] = 1]
               /\ types' = types \cup {[at |-> t, holds |-> Memory!Initialised(cb, b)]}
               /\ blank' = (blank \/ cb = 0)
  BY DEF Memory!MoCreateMediaType
<1>2. UNCHANGED <<buffers, short, crashed>>
  BY DEF Memory!MoCreateMediaType
<1>3. CASE t = None
  <2>1. UNCHANGED <<room, buffers, types, short, blank, crashed>>
    BY <1>1, <1>2, <1>3
  <2> QED
    BY <2>1, MemSame
<1>4. CASE t # None
  <2>1. t \in BlockOfDll /\ room[t] = None
    BY <1>4 DEF Memory!Taken, Memory!Used
  <2>2. PICK b \in IF cb = 0 THEN {None} ELSE Memory!Taken \ {t} :
          /\ room' = [Memory!With(b, cb) EXCEPT ![t] = 1]
          /\ types' = types \cup {[at |-> t, holds |-> Memory!Initialised(cb, b)]}
          /\ blank' = (blank \/ cb = 0)
    BY <1>1, <1>4
  <2>3. b = None \/ (b \in BlockOfDll /\ room[b] = None /\ b # t /\ cb # 0)
    BY <2>2 DEF Memory!Taken, Memory!Used
  <2>4. PICK with : with = Memory!With(b, cb)
    OBVIOUS
  <2>5. /\ with \in [BlockOfDll -> Nat \cup {None}] /\ \A c \in BlockOfDll : c # b => with[c] = room[c]
        /\ b # None => with[b] = cb
    <3>1. CASE b = None
      BY <2>4, <3>1 DEF Memory!With, MemIInv, MemTypes
    <3>2. CASE b # None
      BY <2>3, <2>4, <3>2 DEF Memory!With, MemIInv, MemTypes
    <3> QED
      BY <3>1, <3>2
  <2>6. room' = [with EXCEPT ![t] = 1]
    BY <2>2, <2>4
  <2>7. /\ room' \in [BlockOfDll -> Nat \cup {None}] /\ room'[t] = 1
        /\ \A c \in BlockOfDll : c # t => room'[c] = with[c]
    BY <2>1, <2>5, <2>6
  <2>8. PICK n, pb : n = (IF cb = 0 \/ b = None THEN Any ELSE cb) /\ pb = IF cb = 0 THEN Any ELSE b
    OBVIOUS
  <2>9. types' = types \cup {[at |-> t, holds |-> [cbFormat |-> n, pbFormat |-> pb]]}
    BY <2>2, <2>8 DEF Memory!Initialised
  <2>10. MemElse
    BY <1>2, <2>2 DEF MemElse, MemIInv, MemFlags
  <2>11. MemHolds(n, pb)
    <3>1. CASE cb = 0
      BY <2>2, <2>8, <3>1, MemNames DEF MemHolds
    <3>2. CASE cb # 0 /\ b = None
      BY <2>8, <3>2, MemNames DEF MemHolds
    <3>3. CASE cb # 0 /\ b # None
      <4>1. n = cb /\ pb = b /\ b \in BlockOfDll /\ room[b] = None /\ room'[b] = cb
        BY <2>3, <2>5, <2>7, <2>8, <3>3
      <4> QED
        BY <3>3, <4>1, MemNames DEF MemHolds
    <3> QED
      BY <3>1, <3>2, <3>3
  <2>12. pb # t /\ \A c \in BlockOfDll : c # t /\ c # pb => room'[c] = room[c]
    BY <2>1, <2>3, <2>5, <2>7, <2>8, MemNames
  <2> QED
    BY <2>1, <2>7, <2>9, <2>10, <2>11, <2>12, MemAddType
<1> QED
  BY <1>3, <1>4

\* What CopyTo does, when "rooms" differ from those of now only at the block t.
LEMMA MemCopy ==
  ASSUME MemIInv, NEW t \in BlockOfDll, NEW src \in types, src.holds.cbFormat # Any, NEW rooms, NEW free, NEW kept,
         Memory!CopyTo(t, src, rooms, free, kept), UNCHANGED <<buffers, short, blank>>,
         free \subseteq Memory!Taken, t \notin free,
         rooms \in [BlockOfDll -> Nat \cup {None}], \A c \in BlockOfDll : c # t => rooms[c] = room[c]
  PROVE  /\ MemElse /\ room' \in [BlockOfDll -> Nat \cup {None}] /\ room'[t] = rooms[t]
         /\ \E cb, pb : /\ MemHolds(cb, pb) /\ pb # t
                        /\ \A c \in BlockOfDll : c # t /\ c # pb => room'[c] = room[c]
                        /\ types' = kept \cup {[at |-> t, holds |-> [cbFormat |-> cb, pbFormat |-> pb]]}
<1>1. PICK b \in IF src.holds.cbFormat = 0 THEN {src.holds.pbFormat} ELSE free :
        /\ room' = IF src.holds.cbFormat = 0 \/ b = None THEN rooms ELSE [rooms EXCEPT ![b] = src.holds.cbFormat]
        /\ types' = kept \cup {[at |-> t, holds |-> [src.holds EXCEPT !.pbFormat = b]]}
        /\ crashed' = (b # None /\ src.holds.pbFormat = None)
  BY DEF Memory!CopyTo
<1>2. PICK cb : cb = src.holds.cbFormat
  OBVIOUS
<1>3. cb \in Nat
  BY <1>2, MemParts
<1>4. [src.holds EXCEPT !.pbFormat = b] = [cbFormat |-> cb, pbFormat |-> b]
  <2>1. src \in MemType
    BY DEF MemIInv, MemTypes
  <2>2. src.holds \in [cbFormat : Nat \cup {Any}, pbFormat : BlockOfDll \cup {None, Any}]
    BY <2>1 DEF MemType
  <2> QED
    BY <1>2, <2>2
<1>5. MemElse
  BY <1>1 DEF MemElse, MemIInv, MemFlags
<1>6. CASE b = None
  <2>1. room' = rooms
    BY <1>1, <1>6
  <2>2. MemHolds(cb, b) /\ b # t
    BY <1>3, <1>6, MemNames DEF MemHolds
  <2> QED
    BY <1>1, <1>4, <1>5, <2>1, <2>2
<1>7. CASE b # None
  <2>1. cb # 0
    BY <1>1, <1>2, <1>7 DEF MemIInv, MemFormats
  <2>2. b \in free /\ b \in BlockOfDll /\ room[b] = None /\ b # t
    BY <1>1, <1>2, <1>7, <2>1 DEF Memory!Taken, Memory!Used
  <2>3. room' = [rooms EXCEPT ![b] = cb]
    BY <1>1, <1>2, <1>7, <2>1
  <2>4. /\ room' \in [BlockOfDll -> Nat \cup {None}] /\ room'[b] = cb /\ room'[t] = rooms[t]
        /\ \A c \in BlockOfDll : c # t /\ c # b => room'[c] = room[c]
    BY <1>3, <2>2, <2>3
  <2>5. MemHolds(cb, b)
    BY <1>3, <2>1, <2>2, <2>4, MemNames DEF MemHolds
  <2> QED
    BY <1>1, <1>4, <1>5, <2>2, <2>4, <2>5
<1> QED
  BY <1>6, <1>7

LEMMA MemDuplicate ==
  ASSUME MemIInv, NEW src \in types, Memory!MoDuplicateMediaType(src)
  PROVE  MemIInv'
<1>1. PICK t \in Memory!Taken :
        IF t = None THEN UNCHANGED <<room, types, crashed>>
        ELSE Memory!CopyTo(t, src, [room EXCEPT ![t] = 1], Memory!Taken \ {t}, types)
  BY DEF Memory!MoDuplicateMediaType
<1>2. UNCHANGED <<buffers, short, blank>> /\ src.holds.cbFormat # Any
  BY DEF Memory!MoDuplicateMediaType
<1>3. CASE t = None
  <2>1. UNCHANGED <<room, buffers, types, short, blank, crashed>>
    BY <1>1, <1>2, <1>3
  <2> QED
    BY <2>1, MemSame
<1>4. CASE t # None
  <2>1. t \in BlockOfDll /\ room[t] = None
    BY <1>4 DEF Memory!Taken, Memory!Used
  <2>2. PICK rooms : rooms = [room EXCEPT ![t] = 1]
    OBVIOUS
  <2>3. /\ rooms \in [BlockOfDll -> Nat \cup {None}] /\ rooms[t] = 1
        /\ \A c \in BlockOfDll : c # t => rooms[c] = room[c]
    BY <2>1, <2>2 DEF MemIInv, MemTypes
  <2>4. PICK free : free = Memory!Taken \ {t}
    OBVIOUS
  <2>5. Memory!CopyTo(t, src, rooms, free, types)
    BY <1>1, <1>4, <2>2, <2>4
  <2>6. free \subseteq Memory!Taken /\ t \notin free
    BY <2>4
  <2>7. /\ MemElse /\ room' \in [BlockOfDll -> Nat \cup {None}] /\ room'[t] = rooms[t]
        /\ \E cb, pb : /\ MemHolds(cb, pb) /\ pb # t
                       /\ \A c \in BlockOfDll : c # t /\ c # pb => room'[c] = room[c]
                       /\ types' = types \cup {[at |-> t, holds |-> [cbFormat |-> cb, pbFormat |-> pb]]}
    BY <1>2, <2>1, <2>3, <2>5, <2>6, MemCopy
  <2> QED
    BY <2>1, <2>3, <2>7, MemAddType
<1> QED
  BY <1>3, <1>4

LEMMA MemCopyTo ==
  ASSUME MemIInv, NEW dest \in types, NEW src \in types, Memory!MoCopyMediaType(dest, src)
  PROVE  MemIInv'
<1>1. /\ dest.holds.pbFormat = None /\ src.holds.cbFormat # Any /\ UNCHANGED <<buffers, short, blank>>
      /\ Memory!CopyTo(dest.at, src, room, Memory!Taken, types \ {dest})
  BY DEF Memory!MoCopyMediaType
<1>2. dest.at \in BlockOfDll /\ room[dest.at] # None
  BY MemParts DEF MemIInv, MemUsed
<1>3. dest.at \notin Memory!Taken
  BY <1>2, MemNames DEF Memory!Taken, Memory!Used
<1>4. room \in [BlockOfDll -> Nat \cup {None}]
  BY DEF MemIInv, MemTypes
<1>5. PICK free : free = Memory!Taken
  OBVIOUS
<1>6. /\ MemElse /\ room' \in [BlockOfDll -> Nat \cup {None}] /\ room'[dest.at] = room[dest.at]
      /\ \E cb, pb : /\ MemHolds(cb, pb) /\ pb # dest.at
                     /\ \A c \in BlockOfDll : c # dest.at /\ c # pb => room'[c] = room[c]
                     /\ types' = (types \ {dest}) \cup {[at |-> dest.at, holds |-> [cbFormat |-> cb, pbFormat |-> pb]]}
  BY <1>1, <1>2, <1>3, <1>4, <1>5, MemCopy
<1>7. dest.holds.pbFormat \notin BlockOfDll
  BY <1>1, MemNames
<1> QED
  BY <1>6, <1>7, MemSetType

\* What becomes of the rooms when a type loses its format.
LEMMA MemFreed ==
  ASSUME MemIInv, NEW d \in types
  PROVE  /\ Memory!Freed(d.holds.pbFormat) \in [BlockOfDll -> Nat \cup {None}]
         /\ d.holds.pbFormat \in BlockOfDll => Memory!Freed(d.holds.pbFormat)[d.holds.pbFormat] = None
         /\ \A c \in BlockOfDll : c # d.holds.pbFormat => Memory!Freed(d.holds.pbFormat)[c] = room[c]
<1>1. d.holds.pbFormat \in BlockOfDll => d.holds.pbFormat \in Memory!Used
  BY MemNames DEF MemIInv, MemFormats, Memory!Used
<1>2. room \in [BlockOfDll -> Nat \cup {None}]
  BY DEF MemIInv, MemTypes
<1>3. CASE d.holds.pbFormat \in BlockOfDll
  <2>1. Memory!Freed(d.holds.pbFormat) = [room EXCEPT ![d.holds.pbFormat] = None]
    BY <1>1, <1>3 DEF Memory!Freed, Memory!Release
  <2> QED
    BY <1>2, <1>3, <2>1
<1>4. CASE d.holds.pbFormat \notin BlockOfDll
  <2>1. Memory!Freed(d.holds.pbFormat) = room
    BY <1>4 DEF Memory!Freed, Memory!Used
  <2> QED
    BY <1>2, <1>4, <2>1
<1> QED
  BY <1>3, <1>4

LEMMA MemFree ==
  ASSUME MemIInv, NEW d \in types, Memory!MoFreeMediaType(d)
  PROVE  MemIInv'
<1>1. /\ room' = Memory!Freed(d.holds.pbFormat)
      /\ types' = (types \ {d}) \cup {[d EXCEPT !.holds = [cbFormat |-> 0, pbFormat |-> None]]}
      /\ crashed' \in Memory!MayCrash(d.holds.pbFormat) /\ UNCHANGED <<buffers, short, blank>>
  BY DEF Memory!MoFreeMediaType
<1>2. MemElse
  <2>1. crashed' \in BOOLEAN
    BY <1>1 DEF Memory!MayCrash
  <2> QED
    BY <1>1, <2>1 DEF MemElse, MemIInv, MemFlags
<1>3. [d EXCEPT !.holds = [cbFormat |-> 0, pbFormat |-> None]] = [at |-> d.at, holds |-> [cbFormat |-> 0, pbFormat |-> None]]
  <2>1. d \in MemType
    BY DEF MemIInv, MemTypes
  <2> QED
    BY <2>1 DEF MemType
<1>4. PICK rest : rest = {[at |-> d.at, holds |-> [cbFormat |-> 0, pbFormat |-> None]]}
  OBVIOUS
<1>5. types' = (types \ {d}) \cup rest /\ rest # {}
  BY <1>1, <1>3, <1>4
<1>6. d.at \in BlockOfDll /\ d.at # d.holds.pbFormat
  BY MemParts DEF MemIInv, MemApart
<1>7. /\ room' \in [BlockOfDll -> Nat \cup {None}]
      /\ d.holds.pbFormat \in BlockOfDll => room'[d.holds.pbFormat] = None
      /\ \A c \in BlockOfDll : c # d.holds.pbFormat => room'[c] = room[c]
  BY <1>1, MemFreed
<1>8. room'[d.at] = room[d.at]
  BY <1>6, <1>7
<1> QED
  BY <1>2, <1>4, <1>5, <1>7, <1>8, MemLose

LEMMA MemDelete ==
  ASSUME MemIInv, NEW d \in types, Memory!MoDeleteMediaType(d)
  PROVE  MemIInv'
<1>1. /\ room' = [Memory!Freed(d.holds.pbFormat) EXCEPT ![d.at] = None]
      /\ types' = types \ {d}
      /\ crashed' \in Memory!MayCrash(d.holds.pbFormat) /\ UNCHANGED <<buffers, short, blank>>
  BY DEF Memory!MoDeleteMediaType, Memory!Release
<1>2. MemElse
  <2>1. crashed' \in BOOLEAN
    BY <1>1 DEF Memory!MayCrash
  <2> QED
    BY <1>1, <2>1 DEF MemElse, MemIInv, MemFlags
<1>3. PICK rest : rest = {}
  OBVIOUS
<1>4. types' = (types \ {d}) \cup rest
  BY <1>1, <1>3
<1>5. d.at \in BlockOfDll /\ d.at # d.holds.pbFormat
  BY MemParts DEF MemIInv, MemApart
<1>6. PICK freed : freed = Memory!Freed(d.holds.pbFormat)
  OBVIOUS
<1>7. /\ freed \in [BlockOfDll -> Nat \cup {None}]
      /\ d.holds.pbFormat \in BlockOfDll => freed[d.holds.pbFormat] = None
      /\ \A c \in BlockOfDll : c # d.holds.pbFormat => freed[c] = room[c]
  BY <1>6, MemFreed
<1>8. room' = [freed EXCEPT ![d.at] = None]
  BY <1>1, <1>6
<1>9. /\ room' \in [BlockOfDll -> Nat \cup {None}] /\ room'[d.at] = None
      /\ d.holds.pbFormat \in BlockOfDll => room'[d.holds.pbFormat] = None
      /\ \A c \in BlockOfDll : c # d.at /\ c # d.holds.pbFormat => room'[c] = room[c]
  BY <1>5, <1>7, <1>8
<1> QED
  BY <1>2, <1>3, <1>4, <1>9, MemLose

\* ... and by those about media types.
LEMMA MemTypeStep == MemIInv /\ Memory!TypeNext => MemIInv'
<1> SUFFICES ASSUME MemIInv, Memory!TypeNext PROVE MemIInv'
  OBVIOUS
<1>1. {0} \cup Ask \subseteq Nat
  BY MemoryAssumption
<1>2. ASSUME NEW cb \in {0} \cup Ask, Memory!MoCreateMediaType(cb) PROVE MemIInv'
  BY <1>1, <1>2, MemCreate
<1> QED
  BY <1>2, MemFree, MemDelete, MemDuplicate, MemCopyTo DEF Memory!TypeNext

\* What the invariant is for.
LEMMA MemGood == MemIInv => Memory!BlocksOwned
<1> SUFFICES ASSUME MemIInv PROVE Memory!BlocksOwned
  OBVIOUS
<1>1. short \/ \A u \in buffers : room[u.block] >= u.want
  BY DEF MemIInv, MemRoom
<1>2. ASSUME ~blank
      PROVE  /\ Memory!Used = {u.block : u \in buffers} \cup {t.at : t \in types} \cup {t.holds.pbFormat : t \in Memory!Formatted}
             /\ \A b \in Memory!Used : \E o \in Memory!Owners(b) : Memory!Owners(b) = {o}
             /\ \A t \in Memory!Formatted : room[t.holds.pbFormat] = t.holds.cbFormat
  <2>1. \A t \in types : t.holds.pbFormat = None \/ t.holds.pbFormat \in BlockOfDll
    BY <1>2, MemParts DEF MemIInv, MemFormats
  <2>2. \A t \in types : t \in Memory!Formatted <=> t.holds.pbFormat \in BlockOfDll
    BY <2>1, MemNames DEF Memory!Formatted
  <2>3. \A t \in Memory!Formatted : t \in types /\ room[t.holds.pbFormat] = t.holds.cbFormat /\ room[t.holds.pbFormat] \in Nat
    BY <2>2 DEF Memory!Formatted, MemIInv, MemFormats
  <2>4. Memory!Used = {u.block : u \in buffers} \cup {t.at : t \in types} \cup {t.holds.pbFormat : t \in Memory!Formatted}
    <3>1. \A u \in buffers : u.block \in Memory!Used
      BY MemParts DEF MemIInv, MemUsed, Memory!Used
    <3>2. \A t \in types : t.at \in Memory!Used
      BY MemParts DEF MemIInv, MemUsed, Memory!Used
    <3>3. \A t \in Memory!Formatted : t.holds.pbFormat \in Memory!Used
      BY <2>2, <2>3, MemNames DEF Memory!Used
    <3>4. \A b \in Memory!Used : \/ \E u \in buffers : u.block = b
                                 \/ \E t \in types : t.at = b
                                 \/ \E t \in Memory!Formatted : t.holds.pbFormat = b
      BY <2>2 DEF MemIInv, MemUsed, Memory!Used
    <3> QED
      BY <3>1, <3>2, <3>3, <3>4
  <2>5. ASSUME NEW b \in Memory!Used PROVE \E o \in Memory!Owners(b) : Memory!Owners(b) = {o}
    <3>1. b \in BlockOfDll
      BY DEF Memory!Used
    <3>2. CASE \E u \in buffers : u.block = b
      <4>1. PICK u \in buffers : u.block = b
        BY <3>2
      <4>2. {v \in buffers : v.block = b} = {u}
        BY <4>1 DEF MemIInv, MemApart
      <4>3. {t \in types : t.at = b} = {}
        BY <4>1 DEF MemIInv, MemApart
      <4>4. {t \in Memory!Formatted : t.holds.pbFormat = b} = {}
        BY <2>3, <4>1 DEF MemIInv, MemApart
      <4>5. Memory!Owners(b) = {<<"buffer", u>>}
        BY <4>2, <4>3, <4>4 DEF Memory!Owners
      <4> QED
        BY <4>5
    <3>3. CASE \E t \in types : t.at = b
      <4>1. PICK t \in types : t.at = b
        BY <3>3
      <4>2. {v \in buffers : v.block = b} = {}
        BY <4>1 DEF MemIInv, MemApart
      <4>3. {r \in types : r.at = b} = {t}
        BY <4>1 DEF MemIInv, MemApart
      <4>4. {r \in Memory!Formatted : r.holds.pbFormat = b} = {}
        BY <2>3, <4>1 DEF MemIInv, MemApart
      <4>5. Memory!Owners(b) = {<<"type", t>>}
        BY <4>2, <4>3, <4>4 DEF Memory!Owners
      <4> QED
        BY <4>5
    <3>4. CASE \E t \in Memory!Formatted : t.holds.pbFormat = b
      <4>1. PICK t \in Memory!Formatted : t.holds.pbFormat = b
        BY <3>4
      <4>2. {v \in buffers : v.block = b} = {}
        BY <2>3, <4>1 DEF MemIInv, MemApart
      <4>3. {r \in types : r.at = b} = {}
        BY <2>3, <4>1 DEF MemIInv, MemApart
      <4>4. {r \in Memory!Formatted : r.holds.pbFormat = b} = {t}
        BY <2>3, <3>1, <4>1 DEF MemIInv, MemApart
      <4>5. Memory!Owners(b) = {<<"format", t>>}
        BY <4>2, <4>3, <4>4 DEF Memory!Owners
      <4> QED
        BY <4>5
    <3>5. \/ \E u \in buffers : u.block = b
          \/ \E t \in types : t.at = b
          \/ \E t \in Memory!Formatted : t.holds.pbFormat = b
      BY <2>2, <3>1 DEF MemIInv, MemUsed, Memory!Used
    <3> QED
      BY <3>2, <3>3, <3>4, <3>5
  <2> QED
    BY <2>3, <2>4, <2>5
<1> QED
  BY <1>1, <1>2 DEF Memory!BlocksOwned, MemIInv, MemFlags

-----------------------------------------------------------------------------
(* Whichever part runs *)

\* The invariant of the part that runs.
AnyIInv ==
  /\ part = "events" => EvIInv
  /\ part \in {"indices", "words"} => ThrIInv
  /\ part = "classes" => ClsIInv
  /\ part \in {"files", "searches"} => FilIInv
  /\ part = "dispatcher" => QtdIInv
  /\ part \in {"buffers", "types"} => MemIInv

\* The invariant holds at first, whatever part runs ...
LEMMA AnyInitInv == AnyInit => AnyIInv
BY EvInit, ThrInit, ClsInit, FilInit, QtdInit, MemInit DEF AnyInit, AnyIInv

\* ... and is kept by every step of that part.
LEMMA AnyNextInv == AnyIInv /\ AnyNext => AnyIInv'
<1> SUFFICES ASSUME AnyIInv, AnyNext PROVE AnyIInv'
  OBVIOUS
<1>1. CASE HeapNext
  BY <1>1 DEF AnyIInv, HeapNext
<1>2. CASE MemoryNext
  BY <1>2, MemBufferStep, MemTypeStep DEF AnyIInv, MemoryNext
<1>3. CASE FilesNext
  BY <1>3, FilHandleStep, FilSearchStep DEF AnyIInv, FilesNext
<1>4. CASE ClassesNext
  BY <1>4, ClsStep DEF AnyIInv, ClassesNext
<1>5. CASE DispatcherNext
  BY <1>5, QtdStep DEF AnyIInv, DispatcherNext
<1>6. CASE EventsNext
  BY <1>6, EvStep DEF AnyIInv, EventsNext
<1>7. CASE ThreadsNext
  BY <1>7, ThrStepKeeps DEF AnyIInv, ThreadsNext
<1> QED
  BY <1>1, <1>2, <1>3, <1>4, <1>5, <1>6, <1>7 DEF AnyNext

\* A step of nobody.
LEMMA AnyStutters == AnyIInv /\ UNCHANGED AnyVars => AnyIInv'
<1> SUFFICES ASSUME AnyIInv, UNCHANGED AnyVars PROVE AnyIInv'
  OBVIOUS
<1>1. EvIInv => EvIInv'
  <2>1. UNCHANGED <<mlist, nodes, at, handles, raced, stranded>>
    BY DEF AnyVars, objVars
  <2> QED
    BY <2>1, EvStays DEF EvIInv
<1>2. ThrIInv => ThrIInv'
  BY DEF AnyVars, thrVars, ThrIInv, ThrTypes, ThrCounted, ThrSlots, ThrLock, Threads!References
<1>3. ClsIInv => ClsIInv'
  BY DEF AnyVars, dllVars, comVars, ClsIInv, ClsTypes, ClsKept, ClsOffered, ClsAt, Classes!Alive
<1>4. FilIInv => FilIInv'
  BY DEF AnyVars, dllVars, fileVars, FilIInv, FilHandles, FilOwn, FilSearches, FilRest
<1>5. QtdIInv => QtdIInv'
  <2>1. UNCHANGED <<ret_array, ret_i, step, frames, order>> /\ UNCHANGED <<crossed, pointers, allocated>>
    BY DEF AnyVars, dllVars, qtdVars
  <2> QED
    BY <2>1, QtdLeft DEF QtdIInv, QtdHeap
<1>6. MemIInv => MemIInv'
  BY MemSame DEF AnyVars, dllVars, memVars
<1>7. part' = part
  BY DEF AnyVars
<1> QED
  BY <1>1, <1>2, <1>3, <1>4, <1>5, <1>6, <1>7 DEF AnyIInv

\* The part that runs keeps its invariant.
LEMMA AnyAlways == AnySpec => []AnyIInv
<1>1. AnyInit => AnyIInv
  BY AnyInitInv
<1>2. AnyIInv /\ [AnyNext]_AnyVars => AnyIInv'
  BY AnyNextInv, AnyStutters
<1>3. AnySpec => AnyInit /\ [][AnyNext]_AnyVars
  BY PTL DEF AnySpec
<1> QED
  BY <1>1, <1>2, <1>3, PTL

\* Unless creations overlap, a thread sleeps at an event that is set only while one that
\* the set woke is on its way, or stranded by it: no SetEvent is lost (EventsWake).
THEOREM NoSetIsLost == AnySpec => []EventsWake
<1>1. AnyIInv => EventsWake
  BY EvGood DEF AnyIInv, EventsWake
<1> QED
  BY <1>1, AnyAlways, PTL

\* What is handed out has one owner (OwnUnlessRaced): blocks and formats, file handles,
\* the class of allocators; and, unless two calls overlap where nothing locks, nodes,
\* names, TLS indices, locks and the addresses QuickTime's calls return to.
THEOREM OneOwner == AnySpec => []OwnUnlessRaced
<1>1. AnyIInv => OwnUnlessRaced
  BY MemGood, FilGood, ClsGood, QtdGood, EvGood, ThrGood DEF AnyIInv, OwnUnlessRaced
<1> QED
  BY <1>1, AnyAlways, PTL

\* The heap runs as it would alone, so that its theorems hold here.
THEOREM HeapAlone == AnySpec => Spec
<1>1. AnyInit => Init
  BY DEF AnyInit
<1>2. [AnyNext]_AnyVars => [Next]_vars
  BY DEF AnyNext, AnyVars, HeapNext, MemoryNext, FilesNext, ClassesNext, DispatcherNext, EventsNext, ThreadsNext
<1>3. AnySpec => AnyInit /\ [][AnyNext]_AnyVars
  BY PTL DEF AnySpec
<1> QED
  BY <1>1, <1>2, <1>3, PTL DEF Spec
=============================================================================

---------------------------- MODULE TablesProofs ----------------------------
(***************************************************************************)
(* Safety properties of the tables (MCTables): of the memory and images    *)
(* for any pages, images and addresses, of the stubs for any names and     *)
(* number of slots, of the drivers for any records, handles and streams,   *)
(* of the registry for any names, data, number of values and keys.         *)
(*                                                                         *)
(* Each of the four parts has an inductive invariant; a step leaves the    *)
(* other parts alone, so that together they are one of AnySpec.            *)
(***************************************************************************)
EXTENDS MCTables, SequenceTheorems, FiniteSetTheorems, NaturalsInduction, WellFoundedInduction, TLAPS
-----------------------------------------------------------------------------
(* Sequences *)

\* A set of numbers has a least one.
LEMMA LeastOf ==
  ASSUME NEW T \in SUBSET Nat, T # {}
  PROVE  \E m \in T : \A k \in T : m <= k
<1>1. IsWellFoundedOn(OpToRel(<, Nat), Nat)
  BY NatLessThanWellFounded
<1> DEFINE R == OpToRel(<, Nat)
<1>2. \A x, y \in Nat : <<x, y>> \in R <=> x < y
  BY DEF OpToRel
<1>3. PICK m \in T : \A y \in T : ~(<<y, m>> \in R)
  <2> HIDE DEF R
  <2>1. IsWellFoundedOn(R, Nat)
    BY <1>1 DEF R
  <2> QED
    BY <2>1, WFMin, Zenon
<1> HIDE DEF R
<1>4. ASSUME NEW k \in T PROVE m <= k
  <2>1. k \in Nat /\ m \in Nat /\ ~(<<k, m>> \in R)
    BY <1>3
  <2>2. ~(k < m)
    BY <2>1, <1>2
  <2> QED
    BY <2>1, <2>2
<1> QED
  BY <1>4

\* A newer element in front of a sequence.
LEMMA Pushed ==
  ASSUME NEW S, NEW s \in Seq(S), NEW e \in S
  PROVE  /\ <<e>> \o s \in Seq(S) /\ Len(<<e>> \o s) = Len(s) + 1 /\ <<e>> \o s # s
         /\ (<<e>> \o s)[1] = e /\ \A k \in 1..Len(s) : (<<e>> \o s)[k + 1] = s[k]
         /\ Head(<<e>> \o s) = e /\ <<e>> \o s # <<>>
OBVIOUS

\* A sequence without one of its elements.
Without(s, i) == SubSeq(s, 1, i - 1) \o SubSeq(s, i + 1, Len(s))

\* It is a sequence of one less, the places behind that of the element shifted.
LEMMA WithoutOne ==
  ASSUME NEW S, NEW s \in Seq(S), NEW i \in 1..Len(s)
  PROVE  /\ Without(s, i) \in Seq(S) /\ Len(Without(s, i)) = Len(s) - 1
         /\ \A k \in 1..(Len(s) - 1) : Without(s, i)[k] = IF k < i THEN s[k] ELSE s[k + 1]
<1> DEFINE n == Len(s)
<1>1. n \in Nat
  OBVIOUS
<1>2. i - 1 \in Nat /\ n - i \in Nat /\ i <= n
  BY <1>1
<1>3. PICK a : a = SubSeq(s, 1, i - 1)
  OBVIOUS
<1>4. PICK b : b = SubSeq(s, i + 1, n)
  OBVIOUS
<1>5. a \in Seq(S) /\ Len(a) = i - 1 /\ \A k \in 1..(i - 1) : a[k] = s[k]
  BY <1>1, <1>2, <1>3
<1>6. b \in Seq(S) /\ Len(b) = n - i /\ \A k \in 1..(n - i) : b[k] = s[k + i]
  BY <1>1, <1>2, <1>4
<1>7. /\ a \o b \in Seq(S) /\ Len(a \o b) = n - 1
      /\ \A k \in 1..(n - 1) : (a \o b)[k] = IF k <= i - 1 THEN a[k] ELSE b[k - (i - 1)]
  <2>1. Len(a) + Len(b) = n - 1
    BY <1>1, <1>2, <1>5, <1>6
  <2>2. a \in Seq(S) /\ b \in Seq(S) /\ Len(a) = i - 1
    BY <1>5, <1>6
  <2>3. /\ a \o b \in Seq(S) /\ Len(a \o b) = Len(a) + Len(b)
        /\ \A k \in 1..(Len(a) + Len(b)) : (a \o b)[k] = IF k <= Len(a) THEN a[k] ELSE b[k - Len(a)]
    BY <2>2, ConcatProperties, Zenon
  <2> QED
    BY <2>1, <2>2, <2>3, Zenon
<1>8. ASSUME NEW k \in 1..(n - 1) PROVE (a \o b)[k] = IF k < i THEN s[k] ELSE s[k + 1]
  <2>1. CASE k < i
    <3>1. k \in 1..(i - 1)
      BY <1>1, <1>2, <2>1
    <3> QED
      BY <1>2, <1>5, <1>7, <2>1, <3>1
  <2>2. CASE ~(k < i)
    <3>1. k - (i - 1) \in 1..(n - i) /\ (k - (i - 1)) + i = k + 1 /\ ~(k <= i - 1)
      BY <1>1, <1>2, <2>2
    <3> QED
      BY <1>6, <1>7, <2>2, <3>1
  <2> QED
    BY <2>1, <2>2
<1> QED
  BY <1>3, <1>4, <1>7, <1>8 DEF Without

\* Its elements are the others.
LEMMA WithoutElements ==
  ASSUME NEW S, NEW s \in Seq(S), NEW i \in 1..Len(s), NEW l, l = Without(s, i)
  PROVE  /\ \A k \in 1..Len(l) : \E m \in 1..Len(s) : l[k] = s[m] /\ m # i /\ m = IF k < i THEN k ELSE k + 1
         /\ \A j, k \in 1..Len(l) : (IF j < i THEN j ELSE j + 1) = (IF k < i THEN k ELSE k + 1) => j = k
<1>1. PICK n : n = Len(s)
  OBVIOUS
<1>2. n \in Nat /\ i \in 1..n
  BY <1>1
<1>3. Len(l) = n - 1 /\ \A k \in 1..(n - 1) : l[k] = IF k < i THEN s[k] ELSE s[k + 1]
  BY <1>1, WithoutOne
<1>4. ASSUME NEW k \in 1..(n - 1)
      PROVE  \E m \in 1..n : l[k] = s[m] /\ m # i /\ m = IF k < i THEN k ELSE k + 1
  <2>1. (IF k < i THEN k ELSE k + 1) \in 1..n /\ (IF k < i THEN k ELSE k + 1) # i
    BY <1>2
  <2> QED
    BY <1>3, <2>1
<1>6. \A j, k \in 1..(n - 1) : (IF j < i THEN j ELSE j + 1) = (IF k < i THEN k ELSE k + 1) => j = k
  BY <1>2
<1> QED
  BY <1>1, <1>3, <1>4, <1>6

\* Every other element is still there.
LEMMA WithoutKeeps ==
  ASSUME NEW S, NEW s \in Seq(S), NEW i \in 1..Len(s), NEW l, l = Without(s, i)
  PROVE  \A m \in 1..Len(s) : m = i \/ \E k \in 1..Len(l) : l[k] = s[m]
<1>1. PICK n : n = Len(s)
  OBVIOUS
<1>2. n \in Nat /\ i \in 1..n
  BY <1>1
<1>3. Len(l) = n - 1 /\ \A k \in 1..(n - 1) : l[k] = IF k < i THEN s[k] ELSE s[k + 1]
  BY <1>1, WithoutOne
<1>4. ASSUME NEW m \in 1..n PROVE m = i \/ \E k \in 1..(n - 1) : l[k] = s[m]
  <2>1. CASE m < i
    <3>1. m \in 1..(n - 1)
      BY <1>2, <2>1
    <3> QED
      BY <1>3, <2>1, <3>1
  <2>2. CASE m > i
    <3>1. m - 1 \in 1..(n - 1) /\ ~(m - 1 < i) /\ (m - 1) + 1 = m
      BY <1>2, <2>2
    <3> QED
      BY <1>3, <2>2, <3>1
  <2> QED
    BY <1>2, <2>1, <2>2
<1> QED
  BY <1>1, <1>3, <1>4

\* What comes behind an element, too, is of the sequence.
LEMMA BehindOne ==
  ASSUME NEW S, NEW s \in Seq(S), NEW i \in 1..Len(s), NEW l, l = SubSeq(s, i + 1, Len(s))
  PROVE  l \in Seq(S) /\ Len(l) = Len(s) - i /\ \A k \in 1..Len(l) : k + i \in 1..Len(s) /\ k + i # i /\ l[k] = s[k + i]
<1>1. PICK n : n = Len(s)
  OBVIOUS
<1>2. n \in Nat /\ n - i \in Nat /\ i \in 1..n
  BY <1>1
<1>3. l \in Seq(S) /\ Len(l) = n - i /\ \A k \in 1..(n - i) : l[k] = s[k + i]
  BY <1>1, <1>2
<1>4. \A k \in 1..(n - i) : k + i \in 1..n /\ k + i # i
  BY <1>2
<1> QED
  BY <1>1, <1>3, <1>4
-----------------------------------------------------------------------------
(* Pages *)

\* Rounding up gives the least multiple that is not less.
LEMMA RoundUpIs ==
  ASSUME NEW n \in Nat, NEW m \in Nat \ {0}
  PROVE  /\ RoundUp(n, m) \in Nat /\ n <= RoundUp(n, m) /\ RoundUp(n, m) < n + m
         /\ \E q \in Nat : RoundUp(n, m) = q * m
<1>1. PICK q : q = (n + m - 1) \div m
  OBVIOUS
<1>2. q \in Nat
  BY <1>1
<1>3. q * m <= n + m - 1 /\ n + m - 1 < q * m + m
  BY <1>1
<1>4. RoundUp(n, m) = q * m
  BY <1>1 DEF RoundUp
<1>5. q * m \in Nat
  BY <1>2
<1> QED
  BY <1>2, <1>3, <1>4, <1>5

\* What ends before a multiple ends before it when it is rounded.
LEMMA RoundUpLeast ==
  ASSUME NEW n \in Nat, NEW m \in Nat \ {0}, NEW k \in Nat, n <= k, k % m = 0
  PROVE  RoundUp(n, m) <= k
<1>1. PICK p : p = k \div m
  OBVIOUS
<1>2. p \in Nat /\ k = p * m
  BY <1>1
<1>3. PICK q \in Nat : RoundUp(n, m) = q * m
  BY RoundUpIs
<1>4. q * m < n + m
  BY <1>3, RoundUpIs
<1>5. q * m < (p + 1) * m
  BY <1>2, <1>4
<1>6. q < p + 1
  BY <1>2, <1>5
<1>7. q * m <= p * m
  BY <1>2, <1>6
<1> QED
  BY <1>2, <1>3, <1>7

-----------------------------------------------------------------------------
(* The list of allocations *)

Allocation == [at : 1..Space, size : Nat \ {0}, state : {0, 1}]
Mapping == [at : 1..Space, size : Nat, name : MapName \cup {None}]

\* No two allocations start at one address.
VmApart(l) == \A i, j \in 1..Len(l) : i # j => l[i].at # l[j].at
Starts(l) == {l[i].at : i \in 1..Len(l)}

\* The bounds are natural numbers.
LEMMA MemConstants == /\ Page \in Nat \ {0} /\ Granule \in Nat \ {0} /\ Space \in Nat
                      /\ None \notin Nat /\ Wanted \subseteq Nat /\ FileSize \in Nat
BY MemAssumption, ImageAssumption

\* The kernel maps only what was free.
LEMMA MmapFree ==
  ASSUME NEW hint, NEW size \in Nat, NEW a \in Mmap(hint, size)
  PROVE  a \in 1..Space /\ size # 0 /\ a \notin Mapped
<1>1. PICK free : /\ free = {b \in 1..Space : b % Page = 0 /\ (b + RoundUp(size, Page) <= Space
                        /\ Units([at |-> b, size |-> RoundUp(size, Page)]) \cap Mapped = {})}
                  /\ a \in IF size = 0 THEN {} ELSE IF hint \in free THEN {hint} ELSE {b \in free : \A c \in free : c <= b}
  BY DEF Mmap
<1>2. size # 0 /\ a \in free
  BY <1>1
<1>3. RoundUp(size, Page) \in Nat /\ RoundUp(size, Page) >= size
  BY RoundUpIs, MemConstants
<1>4. a \in 1..Space /\ a \in a..(a + RoundUp(size, Page) - 1)
  BY <1>1, <1>2, <1>3, MemConstants
<1>5. a \in Units([at |-> a, size |-> RoundUp(size, Page)])
  BY <1>4 DEF Units
<1> QED
  BY <1>1, <1>2, <1>4, <1>5

\* An allocation covers its first unit.
LEMMA StartsMapped ==
  ASSUME vm \in Seq(Allocation), NEW i \in 1..Len(vm)
  PROVE  vm[i].at \in Mapped
<1>1. PICK r : r = vm[i]
  OBVIOUS
<1>2. r \in Allocation /\ r \in Listed
  BY <1>1 DEF Listed
<1>3. r.at \in Nat /\ r.size \in Nat /\ RoundUp(r.size, Page) >= r.size /\ RoundUp(r.size, Page) \in Nat /\ r.size > 0
  <2>1. r.at \in Nat /\ r.size \in Nat \ {0}
    BY <1>2, MemConstants DEF Allocation
  <2>2. RoundUp(r.size, Page) >= r.size /\ RoundUp(r.size, Page) \in Nat
    <3>1. PICK n \in Nat : n = r.size
      BY <2>1
    <3>2. RoundUp(n, Page) >= n /\ RoundUp(n, Page) \in Nat
      BY RoundUpIs, MemConstants
    <3> QED
      BY <3>1, <3>2
  <2> QED
    BY <2>1, <2>2
<1>4. Pages(r).at = r.at /\ Pages(r).size = RoundUp(r.size, Page)
  BY <1>2 DEF Pages, Allocation
<1>5. r.at \in Units(Pages(r))
  BY <1>3, <1>4 DEF Units
<1> QED
  BY <1>1, <1>2, <1>5 DEF Mapped

\* VirtualAlloc leaves the list as it was, or puts in front an allocation that starts where
\* none of the others does, and answers where.
Fresh(r) == \E e \in Allocation : r.answer = e.at /\ r.list = <<e>> \o vm /\ e.at \notin Starts(vm)

\* What VirtualAlloc answers comes from the list as it is or as it becomes.
LEMMA AllocResult ==
  ASSUME vm \in Seq(Allocation), NEW address \in Nat, NEW size \in Nat, NEW type,
         NEW r \in VirtualAlloc(address, size, type)
  PROVE  r.list = vm \/ Fresh(r)
<1>1. PICK q : q = Rounded(address, size, type)
  OBVIOUS
<1>2. q.size \in Nat
  <2>1. PICK n \in Nat : q.size = RoundUp(n, Page)
    <3> DEFINE skip == IF "reserve" \in type THEN address % Granule ELSE 0
               a == address - skip
               over == IF "commit" \in type THEN a % Page ELSE 0
               s == size + skip + over
               least == IF "reserve" \in type /\ s < Granule THEN Granule ELSE s
    <3>1. skip \in Nat /\ skip <= address
      BY MemConstants
    <3>2. over \in Nat
      <4>1. a \in Nat
        BY <3>1
      <4> QED
        BY <4>1, MemConstants
    <3>3. least \in Nat
      BY <3>1, <3>2, MemConstants
    <3>4. q.size = RoundUp(least, Page)
      BY <1>1 DEF Rounded
    <3> QED
      BY <3>3, <3>4
  <2> QED
    BY <2>1, RoundUpIs, MemConstants
<1>3. CASE r.list = vm
  BY <1>3
<1>4. CASE r.list # vm
  <2>1. PICK a \in Mmap(q.at, q.size) :
          r = [answer |-> a, list |-> <<[at |-> a, size |-> q.size, state |-> IF type = {"reserve"} THEN 0 ELSE 1]>> \o vm]
    <3>1. PICK a \in Mmap(q.at, q.size) :
            r = [answer |-> a,
                 list |-> <<[[at |-> 0, size |-> q.size, state |-> IF type = {"reserve"} THEN 0 ELSE 1] EXCEPT !.at = a]>> \o vm]
      <4>1. PICK made : made = [at |-> 0, size |-> q.size, state |-> IF type = {"reserve"} THEN 0 ELSE 1]
        OBVIOUS
      <4>2. type # {} /\ ~(q.at # 0 /\ Hit(q) # {})
        BY <1>1, <1>4 DEF VirtualAlloc
      <4>3. r \in {[answer |-> a, list |-> <<[made EXCEPT !.at = a]>> \o vm] : a \in Mmap(q.at, q.size)}
        BY <1>1, <1>4, <4>1, <4>2 DEF VirtualAlloc
      <4> QED
        BY <4>1, <4>3
    <3>2. [[at |-> 0, size |-> q.size, state |-> IF type = {"reserve"} THEN 0 ELSE 1] EXCEPT !.at = a]
            = [at |-> a, size |-> q.size, state |-> IF type = {"reserve"} THEN 0 ELSE 1]
      <4>1. PICK st : st = IF type = {"reserve"} THEN 0 ELSE 1
        OBVIOUS
      <4>2. [[at |-> 0, size |-> q.size, state |-> st] EXCEPT !.at = a] = [at |-> a, size |-> q.size, state |-> st]
        OBVIOUS
      <4> QED
        BY <4>1, <4>2, Zenon
    <3> QED
      BY <3>1, <3>2
  <2>2. a \in 1..Space /\ q.size # 0 /\ a \notin Mapped
    BY <1>2, MmapFree
  <2> DEFINE e == [at |-> a, size |-> q.size, state |-> IF type = {"reserve"} THEN 0 ELSE 1]
  <2>3. e \in Allocation
    BY <1>2, <2>2 DEF Allocation
  <2>4. e.at \notin Starts(vm)
    BY <2>2, StartsMapped DEF Starts
  <2> QED
    BY <2>1, <2>3, <2>4 DEF Fresh
<1> QED
  BY <1>3, <1>4

\* What it answers is an address or None.
LEMMA AllocAnswers ==
  ASSUME vm \in Seq(Allocation), NEW address \in Nat, NEW size \in Nat, NEW type,
         NEW r \in VirtualAlloc(address, size, type)
  PROVE  r.answer \in Nat \cup {None}
<1>1. CASE Fresh(r)
  BY <1>1, MemConstants DEF Fresh, Allocation
<1>2. CASE r.list = vm
  <2>1. PICK q : q = Rounded(address, size, type)
    OBVIOUS
  <2>2. q.at \in Nat
    <3> DEFINE skip == IF "reserve" \in type THEN address % Granule ELSE 0
               a == address - skip
               over == IF "commit" \in type THEN a % Page ELSE 0
    <3>1. skip \in Nat /\ skip <= address
      BY MemConstants
    <3>2. a \in Nat
      BY <3>1
    <3> HIDE DEF a
    <3>3. over \in Nat /\ over <= a
      BY <3>2, MemConstants
    <3>4. q.at = a - over
      BY <2>1 DEF Rounded, a
    <3> QED
      BY <3>2, <3>3, <3>4
  <2>3. r.answer = None \/ r.answer = q.at \/ \E e : r.list = <<e>> \o vm
    <3>1. PICK made : made = [at |-> 0, size |-> q.size, state |-> IF type = {"reserve"} THEN 0 ELSE 1]
      OBVIOUS
    <3>2. PICK failed : failed = [answer |-> None, list |-> vm]
      OBVIOUS
    <3>3. \/ r = failed \/ r = [answer |-> q.at, list |-> vm]
          \/ r \in {[answer |-> a, list |-> <<[made EXCEPT !.at = a]>> \o vm] : a \in Mmap(q.at, q.size)}
      BY <2>1, <3>1, <3>2 DEF VirtualAlloc
    <3>4. ASSUME NEW a \in Mmap(q.at, q.size), r = [answer |-> a, list |-> <<[made EXCEPT !.at = a]>> \o vm]
          PROVE \E e : r.list = <<e>> \o vm
      BY <3>4, Zenon
    <3>5. r = failed \/ r = [answer |-> q.at, list |-> vm] => r.answer = None \/ r.answer = q.at
      BY <3>2
    <3> QED
      BY <3>3, <3>4, <3>5
  <2>4. \A e : <<e>> \o vm # vm
    OBVIOUS
  <2> QED
    BY <1>2, <2>2, <2>3, <2>4
<1> QED
  BY <1>1, <1>2, AllocResult

\* It answers None only when it left the list.
LEMMA AllocFails ==
  ASSUME vm \in Seq(Allocation), NEW address \in Nat, NEW size \in Nat, NEW type,
         NEW r \in VirtualAlloc(address, size, type), r.answer = None
  PROVE  r.list = vm
<1>1. ~Fresh(r)
  <2> SUFFICES ASSUME NEW e \in Allocation, r.answer = e.at PROVE FALSE
    BY DEF Fresh
  <2>1. e.at \in 1..Space
    BY DEF Allocation
  <2>2. e.at \in Nat
    BY <2>1, MemConstants
  <2> QED
    BY <2>2, MemConstants
<1> QED
  BY <1>1, AllocResult

\* A fresh allocation in front.
LEMMA FreshStarts ==
  ASSUME vm \in Seq(Allocation), VmApart(vm), NEW r, Fresh(r)
  PROVE  /\ r.list \in Seq(Allocation) /\ VmApart(r.list) /\ r.list # vm
         /\ Starts(r.list) = Starts(vm) \cup {r.answer} /\ r.answer \notin Starts(vm) /\ r.answer \in 1..Space
<1>1. PICK e \in Allocation : r.answer = e.at /\ r.list = <<e>> \o vm /\ e.at \notin Starts(vm)
  BY DEF Fresh
<1>2. PICK l : l = r.list
  OBVIOUS
<1>3. PICK n : n = Len(vm)
  OBVIOUS
<1>4. /\ l \in Seq(Allocation) /\ Len(l) = n + 1 /\ l # vm /\ n \in Nat
      /\ l[1] = e /\ \A k \in 1..n : l[k + 1] = vm[k]
  BY <1>1, <1>2, <1>3, Pushed
<1>5. \A k \in 1..(n + 1) : k = 1 \/ (k - 1 \in 1..n /\ l[k] = vm[k - 1])
  <2> TAKE k \in 1..(n + 1)
  <2>1. k = 1 \/ (k - 1 \in 1..n /\ (k - 1) + 1 = k)
    BY <1>4
  <2> QED
    BY <1>4, <2>1
<1>6. \A k \in 1..n : vm[k].at \in Starts(vm)
  BY <1>3 DEF Starts
<1>7. VmApart(l)
  <2> SUFFICES ASSUME NEW i \in 1..(n + 1), NEW j \in 1..(n + 1), i # j PROVE l[i].at # l[j].at
    BY <1>4 DEF VmApart
  <2>1. CASE i = 1
    BY <1>1, <1>4, <1>5, <1>6, <2>1
  <2>2. CASE j = 1
    BY <1>1, <1>4, <1>5, <1>6, <2>2
  <2>3. CASE i # 1 /\ j # 1
    <3>1. i - 1 # j - 1
      BY <1>4
    <3> QED
      BY <1>3, <1>5, <2>3, <3>1 DEF VmApart
  <2> QED
    BY <2>1, <2>2, <2>3
<1>8. Starts(l) = Starts(vm) \cup {e.at}
  <2>1. \A k \in 1..(n + 1) : l[k].at \in Starts(vm) \cup {e.at}
    BY <1>4, <1>5, <1>6
  <2>2. \A k \in 1..n : vm[k].at \in {l[i].at : i \in 1..(n + 1)}
    <3> TAKE k \in 1..n
    <3>1. k + 1 \in 1..(n + 1)
      BY <1>4
    <3> QED
      BY <1>4, <3>1
  <2>3. e.at \in {l[i].at : i \in 1..(n + 1)}
    BY <1>4
  <2> QED
    BY <1>3, <1>4, <2>1, <2>2, <2>3 DEF Starts
<1> QED
  BY <1>1, <1>2, <1>4, <1>7, <1>8 DEF Allocation

\* VirtualFree takes the allocation that starts there, if there is one, and no other.
LEMMA FreeStarts ==
  ASSUME vm \in Seq(Allocation), VmApart(vm), NEW a
  PROVE  /\ VirtualFree(a) \in Seq(Allocation) /\ VmApart(VirtualFree(a))
         /\ Starts(VirtualFree(a)) = Starts(vm) \ {a}
<1>1. PICK n : n = Len(vm)
  OBVIOUS
<1>2. n \in Nat
  BY <1>1
<1>3. CASE \E i \in 1..n : vm[i].at = a
  <2>1. PICK i \in 1..n : vm[i].at = a
    BY <1>3
  <2>2. \A j \in 1..n : vm[j].at = a => j = i
    BY <1>1, <2>1 DEF VmApart
  <2>3. {j \in 1..n : vm[j].at = a} = {i}
    BY <2>1, <2>2
  <2>4. VirtualFree(a) = Without(vm, i)
    <3>1. (CHOOSE k \in {i} : \A j \in {i} : k <= j) = i
      BY <1>2, <2>1
    <3> QED
      BY <1>1, <2>3, <3>1 DEF VirtualFree, Without
  <2>5. PICK l : l = Without(vm, i)
    OBVIOUS
  <2>6. /\ l \in Seq(Allocation) /\ Len(l) = n - 1
        /\ \A k \in 1..(n - 1) : l[k] = IF k < i THEN vm[k] ELSE vm[k + 1]
    BY <1>1, <2>1, <2>5, WithoutOne
  <2>7. \A k \in 1..(n - 1) : \E m \in 1..n : l[k] = vm[m] /\ m # i /\ m = IF k < i THEN k ELSE k + 1
    BY <1>1, <2>1, <2>5, <2>6, WithoutElements
  <2>8. VmApart(l)
    <3> SUFFICES ASSUME NEW j \in 1..(n - 1), NEW k \in 1..(n - 1), j # k PROVE l[j].at # l[k].at
      BY <2>6 DEF VmApart
    <3>1. PICK p \in 1..n : l[j] = vm[p] /\ p = IF j < i THEN j ELSE j + 1
      BY <2>7
    <3>2. PICK q \in 1..n : l[k] = vm[q] /\ q = IF k < i THEN k ELSE k + 1
      BY <2>7
    <3>3. p # q
      BY <1>2, <2>1, <3>1, <3>2
    <3> QED
      BY <1>1, <3>1, <3>2, <3>3 DEF VmApart
  <2>9. Starts(l) = Starts(vm) \ {a}
    <3>1. \A k \in 1..(n - 1) : l[k].at \in Starts(vm) /\ l[k].at # a
      BY <1>1, <2>2, <2>7 DEF Starts
    <3>2. \A m \in 1..n : vm[m].at = a \/ \E k \in 1..(n - 1) : l[k] = vm[m]
      <4>1. \A m \in 1..Len(vm) : m = i \/ \E k \in 1..Len(l) : l[k] = vm[m]
        BY <1>1, <2>1, <2>5, WithoutKeeps
      <4> QED
        BY <1>1, <2>1, <2>6, <4>1
    <3>3. Starts(l) = {l[k].at : k \in 1..(n - 1)} /\ Starts(vm) = {vm[k].at : k \in 1..n}
      BY <1>1, <2>6 DEF Starts
    <3>4. ASSUME NEW x \in Starts(vm), x # a PROVE x \in Starts(l)
      BY <3>2, <3>3, <3>4
    <3> QED
      BY <3>1, <3>3, <3>4
  <2> QED
    BY <2>4, <2>5, <2>6, <2>8, <2>9
<1>4. CASE ~\E i \in 1..n : vm[i].at = a
  <2>1. VirtualFree(a) = vm
    BY <1>1, <1>4 DEF VirtualFree
  <2> QED
    BY <1>1, <1>4, <2>1 DEF Starts
<1> QED
  BY <1>3, <1>4

\* A new file mapping is the newest; a failed one leaves the list.
LEMMA MapResult ==
  ASSUME fm \in Seq(Mapping), NEW len \in Nat, NEW name \in MapName \cup {None},
         NEW r \in CreateFileMappingA(len, name)
  PROVE  /\ r.list \in Seq(Mapping)
         /\ r.answer # None => r.list # <<>> /\ Head(r.list).at = r.answer
<1>1. CASE r = [answer |-> None, list |-> fm]
  BY <1>1
<1>2. CASE \E a \in Mmap(0, len) : r = [answer |-> a, list |-> <<[at |-> a, size |-> len, name |-> name]>> \o fm]
  <2>1. PICK a \in Mmap(0, len) : r = [answer |-> a, list |-> <<[at |-> a, size |-> len, name |-> name]>> \o fm]
    BY <1>2
  <2>2. PICK e : e = [at |-> a, size |-> len, name |-> name]
    OBVIOUS
  <2>3. e \in Mapping /\ e.at = a
    BY <2>2, MmapFree DEF Mapping
  <2>4. r.list = <<e>> \o fm /\ r.answer = a
    BY <2>1, <2>2
  <2> QED
    BY <2>3, <2>4, Pushed
<1> QED
  BY <1>1, <1>2 DEF CreateFileMappingA

-----------------------------------------------------------------------------
(* The images *)

\* What starts on a page and ends before another page also does so when rounded.
LEMMA RoundUpBetween ==
  ASSUME NEW m \in Nat \ {0}, NEW a \in Nat, NEW b \in Nat, NEW n \in Nat, a % m = 0, b % m = 0, a + n <= b
  PROVE  a + RoundUp(n, m) <= b
<1>1. PICK p : p = a \div m
  OBVIOUS
<1>2. PICK q : q = b \div m
  OBVIOUS
<1>3. p \in Nat /\ q \in Nat /\ a = p * m /\ b = q * m
  BY <1>1, <1>2
<1>4. PICK r \in Nat : RoundUp(n, m) = r * m
  BY RoundUpIs
<1>5. r * m < n + m
  BY <1>4, RoundUpIs
<1>6. p * m + r * m < q * m + m
  BY <1>3, <1>5
<1>7. (p + r) * m < (q + 1) * m
  BY <1>3, <1>4, <1>6
<1>8. p + r < q + 1
  BY <1>3, <1>4, <1>7
<1>9. (p + r) * m <= q * m
  BY <1>3, <1>4, <1>8
<1>10. p * m + r * m <= q * m
  BY <1>3, <1>4, <1>9
<1> QED
  BY <1>3, <1>4, <1>10

\* A multiple has no rest.
LEMMA RoundUpWhole ==
  ASSUME NEW n \in Nat, NEW m \in Nat \ {0}
  PROVE  RoundUp(n, m) % m = 0 /\ (n % m = 0 => RoundUp(n, m) = n)
<1>1. PICK q \in Nat : RoundUp(n, m) = q * m
  BY RoundUpIs
<1>2. (q * m) % m = 0
  <2>1. PICK x \in Nat : x = q * m
    OBVIOUS
  <2>2. PICK d : d = x \div m
    OBVIOUS
  <2>3. PICK e : e = x % m
    OBVIOUS
  <2>4. d \in Nat /\ e \in Nat /\ e < m /\ x = d * m + e
    BY <2>1, <2>2, <2>3
  <2>5. ~(d >= q + 1)
    <3> SUFFICES ASSUME d >= q + 1 PROVE FALSE
      OBVIOUS
    <3>1. d * m >= (q + 1) * m
      BY <2>4
    <3> QED
      BY <2>1, <2>4, <3>1
  <2>6. ~(d + 1 <= q)
    <3> SUFFICES ASSUME d + 1 <= q PROVE FALSE
      OBVIOUS
    <3>1. (d + 1) * m <= q * m
      BY <2>4
    <3> QED
      BY <2>1, <2>4, <3>1
  <2>7. d = q
    BY <2>4, <2>5, <2>6
  <2>8. e = 0
    BY <2>1, <2>4, <2>7
  <2> QED
    BY <2>1, <2>3, <2>8
<1>3. ASSUME n % m = 0 PROVE RoundUp(n, m) <= n
  BY <1>3, RoundUpLeast
<1> QED
  BY <1>1, <1>2, <1>3, RoundUpIs

PeSection == [at : Nat, size : Nat, raw : Nat, aligned : BOOLEAN]

\* What makes an accepted image.
Sectioned(i) ==
  /\ i.header \in Nat /\ i.sections \in Seq(PeSection)
  /\ i.sections # <<>> /\ i.header <= i.sections[1].at
  /\ \A k \in 1..Len(i.sections) : i.sections[k].at % Page = 0
  /\ \A k \in 1..Len(i.sections) : \A l \in 1..(k - 1) :
       i.sections[l].at + i.sections[l].size <= i.sections[k].at /\
       i.sections[l].at + i.sections[l].raw <= i.sections[k].at

\* Every valid image is one.
LEMMA ValidIsSectioned ==
  ASSUME NEW i \in Image, i.valid
  PROVE  Sectioned(i)
BY ImageAssumption DEF Sectioned, PeSection

\* Its sections have numbers,
LEMMA SectionTyped ==
  ASSUME NEW i, Sectioned(i), NEW k \in 1..Len(i.sections)
  PROVE  \E s \in PeSection : /\ s = i.sections[k]
                               /\ s.at \in Nat /\ s.size \in Nat /\ s.raw \in Nat
<1>1. i.sections[k] \in PeSection
  BY ElementOfSeq DEF Sectioned
<1> QED
  BY <1>1 DEF PeSection

\* and there is a first.
LEMMA FirstSection ==
  ASSUME NEW i, Sectioned(i)
  PROVE  1 \in 1..Len(i.sections)
BY DEF Sectioned

\* No section ends behind the size that is calculated.
LEMMA VmaSizeHolds ==
  ASSUME NEW i, Sectioned(i)
  PROVE  /\ CalcVmaSize(i) \in Nat
         /\ \A k \in 1..Len(i.sections) :
              /\ i.sections[k].at + i.sections[k].raw <= CalcVmaSize(i)
              /\ i.sections[k].at + i.sections[k].size <= CalcVmaSize(i)
<1>1. PICK n : n = Len(i.sections)
  OBVIOUS
<1>2. n \in Nat \ {0}
  BY <1>1 DEF Sectioned
<1>3. PICK s : s = i.sections
  OBVIOUS
<1>4. \A k \in 1..n : s[k].at \in Nat /\ s[k].size \in Nat /\ s[k].raw \in Nat
  BY <1>1, <1>3, SectionTyped
<1>5. PICK ends : ends = {0} \cup {t.at + t.raw : t \in SectionsOf(i)} \cup {t.at + t.size : t \in SectionsOf(i)}
  OBVIOUS
<1>6. \A e \in ends : e = 0 \/ \E k \in 1..n : e = s[k].at + s[k].raw \/ e = s[k].at + s[k].size
  BY <1>1, <1>3, <1>5 DEF SectionsOf
<1>7. \A k \in 1..n : s[k].at + s[k].raw \in ends /\ s[k].at + s[k].size \in ends
  BY <1>1, <1>3, <1>5 DEF SectionsOf
<1>8. \A e \in ends : e \in Nat
  BY <1>4, <1>6
<1>9. PICK t : t = s[n]
  OBVIOUS
<1>10. t.at \in Nat /\ t.size \in Nat /\ t.raw \in Nat /\ t.at + t.raw \in ends /\ t.at + t.size \in ends
  BY <1>2, <1>4, <1>7, <1>9
<1>11. \A e \in ends : e <= t.at + t.raw \/ e <= t.at + t.size
  <2> SUFFICES ASSUME NEW e \in ends, e # 0 PROVE e <= t.at + t.raw \/ e <= t.at + t.size
    BY <1>10
  <2>1. PICK k \in 1..n : e = s[k].at + s[k].raw \/ e = s[k].at + s[k].size
    BY <1>6
  <2>2. CASE k = n
    BY <1>9, <1>10, <2>1, <2>2
  <2>3. CASE k # n
    <3>1. n \in 1..n /\ k \in 1..(n - 1)
      BY <1>2, <2>3
    <3>2. s[k].at + s[k].size <= t.at /\ s[k].at + s[k].raw <= t.at
      BY <1>1, <1>3, <1>9, <3>1 DEF Sectioned
    <3> QED
      BY <1>4, <1>10, <2>1, <3>2
  <2> QED
    BY <2>2, <2>3
<1>12. \E e \in ends : \A f \in ends : e >= f
  <2>1. CASE t.raw <= t.size
    <3>1. \A f \in ends : t.at + t.size >= f
      BY <1>8, <1>10, <1>11, <2>1
    <3> QED
      BY <1>10, <3>1
  <2>2. CASE t.size <= t.raw
    <3>1. \A f \in ends : t.at + t.raw >= f
      BY <1>8, <1>10, <1>11, <2>2
    <3> QED
      BY <1>10, <3>1
  <2> QED
    BY <1>10, <2>1, <2>2
<1>13. CalcVmaSize(i) \in ends /\ \A f \in ends : CalcVmaSize(i) >= f
  <2>1. CalcVmaSize(i) = CHOOSE e \in ends : \A f \in ends : e >= f
    BY <1>5 DEF CalcVmaSize
  <2> QED
    BY <1>12, <2>1
<1> QED
  BY <1>1, <1>3, <1>4, <1>7, <1>8, <1>13

\* A section that ends before another does so with its last page.
LEMMA SectionsApart ==
  ASSUME NEW i, Sectioned(i), NEW k \in 1..Len(i.sections), NEW l \in 1..(k - 1)
  PROVE  /\ i.sections[l].at + RoundUp(i.sections[l].raw, Page) <= i.sections[k].at
         /\ i.sections[l].at + i.sections[l].size <= i.sections[k].at
<1>1. l \in 1..Len(i.sections)
  BY DEF Sectioned
<1>2. PICK s \in PeSection : s = i.sections[l] /\ s.at \in Nat /\ s.size \in Nat /\ s.raw \in Nat
  BY <1>1, SectionTyped
<1>3. PICK t \in PeSection : t = i.sections[k] /\ t.at \in Nat
  BY SectionTyped
<1>4. s.at % Page = 0 /\ t.at % Page = 0 /\ s.at + s.raw <= t.at /\ s.at + s.size <= t.at
  BY <1>1, <1>2, <1>3 DEF Sectioned
<1>5. s.at + RoundUp(s.raw, Page) <= t.at
  BY <1>2, <1>3, <1>4, RoundUpBetween, MemConstants
<1> QED
  BY <1>2, <1>3, <1>4, <1>5

\* The header's last page ends before the first section, and all within the memory.
LEMMA SectionsInside ==
  ASSUME NEW i, Sectioned(i)
  PROVE  /\ \A k \in 1..Len(i.sections) :
              /\ RoundUp(i.header, Page) <= i.sections[k].at
              /\ i.sections[k].at + RoundUp(i.sections[k].raw, Page) <= RoundUp(CalcVmaSize(i), Page)
              /\ i.sections[k].at + i.sections[k].size <= RoundUp(CalcVmaSize(i), Page)
         /\ RoundUp(i.header, Page) <= RoundUp(CalcVmaSize(i), Page)
<1>1. PICK v \in Nat : v = CalcVmaSize(i)
  BY VmaSizeHolds
<1>2. PICK e : e = RoundUp(v, Page)
  OBVIOUS
<1>3. e \in Nat /\ v <= e /\ e % Page = 0
  BY <1>2, RoundUpIs, RoundUpWhole, MemConstants
<1>4. PICK h \in Nat : h = i.header
  BY DEF Sectioned
<1>5. RoundUp(h, Page) \in Nat
  BY RoundUpIs, MemConstants
<1>6. ASSUME NEW k \in 1..Len(i.sections)
      PROVE  /\ RoundUp(h, Page) <= i.sections[k].at
             /\ i.sections[k].at + RoundUp(i.sections[k].raw, Page) <= e
             /\ i.sections[k].at + i.sections[k].size <= e
             /\ i.sections[k].at \in Nat /\ i.sections[k].at <= e
  <2>1. PICK s \in PeSection : s = i.sections[k] /\ s.at \in Nat /\ s.size \in Nat /\ s.raw \in Nat
    BY SectionTyped
  <2>2. s.at % Page = 0 /\ s.at + s.raw <= v /\ s.at + s.size <= v
    BY <1>1, <2>1, VmaSizeHolds DEF Sectioned
  <2>3. s.at + RoundUp(s.raw, Page) <= e
    <3>1. s.at + s.raw <= e
      BY <1>3, <2>1, <2>2
    <3> QED
      BY <1>3, <2>1, <2>2, <3>1, RoundUpBetween, MemConstants
  <2>4. h <= s.at
    <3>1. PICK t \in PeSection : t = i.sections[1] /\ t.at \in Nat /\ t.size \in Nat
      BY FirstSection, SectionTyped
    <3>2. h <= t.at
      BY <1>4, <3>1 DEF Sectioned
    <3>3. CASE k = 1
      BY <2>1, <3>1, <3>2, <3>3
    <3>4. CASE k # 1
      <4>1. 1 \in 1..(k - 1)
        BY <3>4
      <4>2. t.at + t.size <= s.at
        BY <2>1, <3>1, <4>1, SectionsApart
      <4> QED
        BY <2>1, <3>1, <3>2, <4>2
    <3> QED
      BY <3>3, <3>4
  <2>5. RoundUp(h, Page) <= s.at
    BY <2>1, <2>2, <2>4, RoundUpLeast, MemConstants
  <2>6. s.at + s.size <= e /\ s.at <= e
    <3> PICK a \in Nat, z \in Nat : a = s.at /\ z = s.size
      BY <2>1
    <3>1. e \in Nat /\ v <= e /\ a + z <= v
      BY <1>3, <2>2
    <3>2. a + z <= e /\ a <= e
      BY ONLY <3>1, v \in Nat, a \in Nat, z \in Nat
    <3> QED
      BY <3>2
  <2> QED
    BY <2>1, <2>3, <2>5, <2>6, Zenon
<1>7. RoundUp(h, Page) <= e
  <2>1. 1 \in 1..Len(i.sections)
    BY FirstSection
  <2> QED
    BY <1>3, <1>5, <1>6, <2>1
<1> QED
  BY <1>1, <1>2, <1>4, <1>6, <1>7

-----------------------------------------------------------------------------
(* What an image holds *)

\* The sections that are mapped hold their data and zeros behind them, the others zeros.
HoldsOK(i, n, h) ==
  /\ h \in [0..(RoundUp(CalcVmaSize(i), Page) - 1) -> Holds]
  /\ \A k \in 1..Len(i.sections) : \A u \in 0..(i.sections[k].size - 1) :
       h[i.sections[k].at + u] = IF k < n /\ u < i.sections[k].raw THEN "file" ELSE "zero"

\* A unit of a section is in the memory.
LEMMA UnitInside ==
  ASSUME NEW i, Sectioned(i), NEW k \in 1..Len(i.sections), NEW u \in 0..(i.sections[k].size - 1)
  PROVE  i.sections[k].at + u \in 0..(RoundUp(CalcVmaSize(i), Page) - 1)
<1>1. PICK s \in PeSection : s = i.sections[k] /\ s.at \in Nat /\ s.size \in Nat
  BY SectionTyped
<1>2. PICK e : e = RoundUp(CalcVmaSize(i), Page)
  OBVIOUS
<1>3. e \in Nat
  BY <1>2, VmaSizeHolds, RoundUpIs, MemConstants
<1>4. s.at + s.size <= e
  BY <1>1, <1>2, SectionsInside
<1>5. s.at + u \in 0..(e - 1)
  <2> PICK a \in Nat, z \in Nat : a = s.at /\ z = s.size
    BY <1>1
  <2>1. u \in 0..(z - 1) /\ a + z <= e
    BY <1>1, <1>4
  <2>2. a + u \in 0..(e - 1)
    BY ONLY <1>3, <2>1, a \in Nat, z \in Nat
  <2> QED
    BY <2>2
<1> QED
  BY <1>1, <1>2, <1>5

\* Memory that was just reserved.
LEMMA HoldsReserved ==
  ASSUME NEW i, Sectioned(i)
  PROVE  HoldsOK(i, 0, [u \in 0..(RoundUp(CalcVmaSize(i), Page) - 1) |-> "zero"])
<1> DEFINE d == 0..(RoundUp(CalcVmaSize(i), Page) - 1)
           h == [u \in d |-> "zero"]
<1>1. h \in [d -> Holds]
  BY DEF Holds
<1>2. ASSUME NEW k \in 1..Len(i.sections), NEW u \in 0..(i.sections[k].size - 1)
      PROVE  h[i.sections[k].at + u] = "zero" /\ ~(k < 0)
  BY <1>2, UnitInside
<1> QED
  BY <1>1, <1>2 DEF HoldsOK

\* The header is in front of every section.
LEMMA HoldsHeader ==
  ASSUME NEW i, Sectioned(i), HoldsOK(i, 0, load.holds)
  PROVE  HoldsOK(i, 1, Dommap(0, i.header, TRUE))
<1> DEFINE d == 0..(RoundUp(CalcVmaSize(i), Page) - 1)
           h == load.holds
           g == Dommap(0, i.header, TRUE)
<1>1. DOMAIN h = d /\ \A u \in d : h[u] \in Holds
  BY DEF HoldsOK
<1>2. PICK e \in Nat : e = RoundUp(i.header, Page)
  BY RoundUpIs, MemConstants DEF Sectioned
<1>3. g = [u \in d |-> IF u \notin 0..(0 + e - 1) THEN h[u] ELSE IF u < 0 + i.header THEN "file" ELSE "beyond"]
  BY <1>1, <1>2 DEF Dommap
<1>4. g \in [d -> Holds]
  BY <1>1, <1>3 DEF Holds
<1>5. ASSUME NEW k \in 1..Len(i.sections), NEW u \in 0..(i.sections[k].size - 1)
      PROVE  g[i.sections[k].at + u] = "zero" /\ ~(k < 1)
  <2>1. PICK s \in PeSection : s = i.sections[k] /\ s.at \in Nat /\ s.size \in Nat
    BY SectionTyped
  <2>2. e <= s.at
    BY <1>2, <2>1, SectionsInside
  <2>3. s.at + u \in d
    BY <2>1, UnitInside
  <2>4. s.at + u \notin 0..(0 + e - 1)
    BY <1>2, <2>1, <2>2
  <2>5. h[s.at + u] = "zero"
    BY <2>1 DEF HoldsOK
  <2>6. PICK x \in d : x = s.at + u
    BY <2>3
  <2>7. g[x] = h[x]
    BY <1>3, <2>4, <2>6
  <2>8. ~(k < 1)
    BY DEF Sectioned
  <2> QED
    BY <2>1, <2>5, <2>6, <2>7, <2>8
<1> QED
  BY <1>4, <1>5 DEF HoldsOK

\* Where the units of a section are, whose data are raw units, in pages of e units.
LEMMA SectionUnits ==
  ASSUME NEW at \in Nat, NEW raw \in Nat, NEW size \in Nat, NEW e \in Nat, NEW last \in Nat, NEW u \in Nat,
         raw <= e, last = IF e > size THEN size ELSE e
  PROVE  /\ u < raw => /\ at + u \in at..(at + e - 1) /\ at + u < at + raw
                       /\ at + u \notin (at + raw)..(at + last - 1)
         /\ ~(u < raw) /\ u < e /\ u < size => raw < size /\ at + u \in (at + raw)..(at + last - 1)
         /\ ~(u < e) => /\ at + u \notin at..(at + e - 1) /\ ~(u < raw)
                        /\ at + u \notin (at + raw)..(at + last - 1)
         /\ u \notin at..(at + e - 1) => u \notin (at + raw)..(at + last - 1)
<1>1. last <= e
  OBVIOUS
<1>2. ASSUME u < raw PROVE at + u \in at..(at + e - 1) /\ at + u < at + raw /\ at + u \notin (at + raw)..(at + last - 1)
  BY <1>2
<1>3. ASSUME ~(u < raw), u < e, u < size PROVE raw < size /\ at + u \in (at + raw)..(at + last - 1)
  BY <1>3
<1>4. ASSUME ~(u < e)
      PROVE  at + u \notin at..(at + e - 1) /\ ~(u < raw) /\ at + u \notin (at + raw)..(at + last - 1)
  BY <1>1, <1>4
<1>5. ASSUME u \notin at..(at + e - 1) PROVE u \notin (at + raw)..(at + last - 1)
  BY <1>1, <1>5
<1> QED
  BY <1>2, <1>3, <1>4, <1>5

\* Units that lie before or behind a range are not in it.
LEMMA OutsideRange ==
  ASSUME NEW a \in Nat, NEW e \in Nat, NEW b \in Nat, NEW n \in Nat, NEW u \in Nat, u < n,
         b + n <= a \/ a + e <= b
  PROVE  b + u \notin a..(a + e - 1)
OBVIOUS

\* A section's data end up in its memory, with zeros behind them, and nowhere else.
LEMMA HoldsSection ==
  ASSUME NEW i, Sectioned(i), NEW n \in 1..Len(i.sections), HoldsOK(i, n, load.holds),
         NEW s, s = i.sections[n]
  PROVE  HoldsOK(i, n + 1, IF s.raw = 0 THEN load.holds ELSE ClearTail(s, Dommap(s.at, s.raw, s.aligned)))
<1> DEFINE d == 0..(RoundUp(CalcVmaSize(i), Page) - 1)
           h == load.holds
<1>1. DOMAIN h = d /\ \A u \in d : h[u] \in Holds
  BY DEF HoldsOK
<1>2. s.at \in Nat /\ s.size \in Nat /\ s.raw \in Nat
  BY SectionTyped
<1>3. CASE s.raw = 0
  <2>1. ASSUME NEW k \in 1..Len(i.sections), NEW u \in 0..(i.sections[k].size - 1)
        PROVE  (k < n /\ u < i.sections[k].raw) <=> (k < n + 1 /\ u < i.sections[k].raw)
    <3>1. PICK t \in PeSection : t = i.sections[k] /\ t.size \in Nat /\ t.raw \in Nat
      BY SectionTyped
    <3>2. k = n => ~(u < t.raw)
      BY <1>3, <3>1
    <3>3. k \in Nat /\ n \in Nat
      BY DEF Sectioned
    <3> QED
      BY <3>1, <3>2, <3>3
  <2> QED
    BY <1>3, <2>1 DEF HoldsOK
<1>4. CASE s.raw # 0
  <2>1. PICK e \in Nat : e = RoundUp(s.raw, Page) /\ s.raw <= e
    BY <1>2, RoundUpIs, MemConstants
  <2>2. PICK g : g = Dommap(s.at, s.raw, s.aligned)
    OBVIOUS
  <2>3. g = [u \in d |-> IF u \notin s.at..(s.at + e - 1) THEN h[u]
                         ELSE IF u < s.at + s.raw THEN "file" ELSE IF s.aligned THEN "beyond" ELSE "zero"]
    BY <1>1, <2>1, <2>2 DEF Dommap
  <2>4. PICK c : c = ClearTail(s, g)
    OBVIOUS
  <2>5. PICK last \in Nat : last = (IF e > s.size THEN s.size ELSE e) /\ last <= e /\ (last = e \/ last = s.size)
    BY <1>2, <2>1
  <2>6. c = [u \in d |-> IF s.raw < s.size /\ s.raw % Page # 0 /\ u \in (s.at + s.raw)..(s.at + last - 1)
                         THEN "zero" ELSE g[u]]
    BY <2>1, <2>3, <2>4, <2>5 DEF ClearTail
  <2>9. ASSUME NEW v \in Nat
        PROVE  /\ v < s.raw => /\ s.at + v \in s.at..(s.at + e - 1) /\ s.at + v < s.at + s.raw
                               /\ s.at + v \notin (s.at + s.raw)..(s.at + last - 1)
               /\ ~(v < s.raw) /\ v < e /\ v < s.size => s.raw < s.size /\ s.at + v \in (s.at + s.raw)..(s.at + last - 1)
               /\ ~(v < e) => /\ s.at + v \notin s.at..(s.at + e - 1) /\ ~(v < s.raw)
                              /\ s.at + v \notin (s.at + s.raw)..(s.at + last - 1)
               /\ v \notin s.at..(s.at + e - 1) => v \notin (s.at + s.raw)..(s.at + last - 1)
    <3>1. PICK a \in Nat, raw \in Nat, size \in Nat : a = s.at /\ raw = s.raw /\ size = s.size
      BY <1>2
    <3>2. raw <= e /\ last = IF e > size THEN size ELSE e
      BY <2>1, <2>5, <3>1
    <3>3. /\ v < raw => /\ a + v \in a..(a + e - 1) /\ a + v < a + raw
                        /\ a + v \notin (a + raw)..(a + last - 1)
          /\ ~(v < raw) /\ v < e /\ v < size => raw < size /\ a + v \in (a + raw)..(a + last - 1)
          /\ ~(v < e) => /\ a + v \notin a..(a + e - 1) /\ ~(v < raw)
                         /\ a + v \notin (a + raw)..(a + last - 1)
          /\ v \notin a..(a + e - 1) => v \notin (a + raw)..(a + last - 1)
      BY ONLY <3>2, SectionUnits, SMT
    <3> QED
      BY <3>1, <3>3, Zenon
  <2>7. c \in [d -> Holds]
    BY <1>1, <2>3, <2>6 DEF Holds
  <2>8. ASSUME NEW k \in 1..Len(i.sections), NEW u \in 0..(i.sections[k].size - 1)
        PROVE  c[i.sections[k].at + u] = IF k < n + 1 /\ u < i.sections[k].raw THEN "file" ELSE "zero"
    <3>1. PICK t \in PeSection : t = i.sections[k] /\ t.at \in Nat /\ t.size \in Nat /\ t.raw \in Nat
      BY SectionTyped
    <3>2. PICK x : x \in d /\ x = t.at + u
      BY <3>1, UnitInside
    <3>3. h[x] = IF k < n /\ u < t.raw THEN "file" ELSE "zero"
      BY <3>1, <3>2 DEF HoldsOK
    <3>4. /\ k \in Nat /\ n \in Nat /\ u \in Nat /\ u < t.size
          /\ t.at \in Nat /\ t.size \in Nat /\ x = t.at + u /\ x \in Nat
      BY <3>1, <3>2 DEF Sectioned
    <3>5. CASE k = n
      <4>1. t = s
        BY <3>1, <3>5
      <4>2. CASE u < s.raw
        <5>1. x \in s.at..(s.at + e - 1) /\ x < s.at + s.raw /\ x \notin (s.at + s.raw)..(s.at + last - 1)
          BY <2>9, <3>4, <4>1, <4>2
        <5>2. c[x] = "file"
          BY <2>3, <2>6, <3>2, <5>1
        <5> QED
          BY <3>1, <3>2, <3>4, <3>5, <4>1, <4>2, <5>2
      <4>3. CASE ~(u < s.raw) /\ u < e
        <5>1. s.raw < s.size /\ x \in (s.at + s.raw)..(s.at + last - 1)
          BY <2>9, <3>4, <4>1, <4>3
        <5>2. s.raw % Page # 0
          BY <1>2, <2>1, <3>4, <4>3, RoundUpWhole, MemConstants
        <5>3. c[x] = "zero"
          BY <2>6, <3>2, <5>1, <5>2
        <5> QED
          BY <3>1, <3>2, <4>1, <4>3, <5>3
      <4>4. CASE ~(u < e)
        <5>1. x \notin s.at..(s.at + e - 1) /\ x \notin (s.at + s.raw)..(s.at + last - 1) /\ ~(u < s.raw)
          BY <2>9, <3>4, <4>1, <4>4
        <5>2. c[x] = h[x]
          BY <2>3, <2>6, <3>2, <5>1
        <5> QED
          BY <3>1, <3>2, <3>3, <4>1, <5>1, <5>2
      <4> QED
        BY <4>2, <4>3, <4>4
    <3>6. CASE k # n
      <4>1. x \notin s.at..(s.at + e - 1)
        <5>1. CASE k < n
          <6>1. k \in 1..(n - 1)
            BY <3>4, <5>1
          <6>2. t.at + t.size <= s.at
            BY <3>1, <6>1, SectionsApart
          <6> QED
            BY <1>2, <2>1, <3>4, <6>2, OutsideRange
        <5>2. CASE n < k
          <6>1. n \in 1..(k - 1)
            BY <3>4, <5>2
          <6>2. s.at + e <= t.at
            BY <2>1, <3>1, <6>1, SectionsApart
          <6> QED
            BY <1>2, <2>1, <3>4, <6>2, OutsideRange
        <5> QED
          BY <3>4, <3>6, <5>1, <5>2
      <4>2. x \notin (s.at + s.raw)..(s.at + last - 1)
        BY <2>9, <3>4, <4>1
      <4>3. c[x] = h[x]
        BY <2>3, <2>6, <3>2, <4>1, <4>2
      <4>4. k < n <=> k < n + 1
        BY <3>4, <3>6
      <4> QED
        BY <3>1, <3>2, <3>3, <4>3, <4>4
    <3> QED
      BY <3>5, <3>6
  <2> QED
    BY <1>4, <2>2, <2>4, <2>7, <2>8 DEF HoldsOK
<1> QED
  BY <1>3, <1>4

-----------------------------------------------------------------------------
(* Memory and the images in it *)

Loading == IF load = None \/ load.at = 0 THEN {} ELSE {load.at}
Owned == images \cup codec \cup Loading

VmOK == vm \in Seq(Allocation) /\ VmApart(vm)

\* The view that is open is the newest mapping, unless another one was made.
FmOK == /\ fm \in Seq(Mapping) /\ ~left
        /\ load # None /\ ~hidden => fm # <<>> /\ Head(fm).at = load.view

\* Every allocation has an owner; until an image is put into a codec's, each owner has an
\* allocation and each allocation one owner.
OwnersOK ==
  /\ Starts(vm) \subseteq Owned
  /\ ~borrowed => /\ Owned \subseteq Starts(vm) /\ images \cap codec = {}
                  /\ Loading \cap (images \cup codec) = {}

\* The image of a load is accepted before there is memory for it.
LoadOK ==
  load # None =>
    /\ load \in Load
    /\ load.step # "map" => load.at = 0 /\ load.next = 0
    /\ load.step # "check" => load.image.valid
    /\ load.step = "map" => HoldsOK(load.image, load.next, load.holds) /\ (load.at # 0 \/ borrowed)

MemIInv == VmOK /\ FmOK /\ OwnersOK /\ LoadOK

\* Memory that is empty has it.
LEMMA MemInit == Init => MemIInv
<1> SUFFICES ASSUME Init PROVE MemIInv
  OBVIOUS
<1>1. vm = <<>> /\ fm = <<>> /\ load = None /\ images = {} /\ codec = {} /\ ~left /\ ~borrowed
  BY DEF Init
<1>2. Starts(vm) = {} /\ VmApart(vm)
  BY <1>1 DEF Starts, VmApart
<1> QED
  BY <1>1, <1>2 DEF MemIInv, VmOK, FmOK, OwnersOK, LoadOK, Owned, Loading

\* It says what the two properties say.
LEMMA MemGoals == MemIInv => ImageIsFile /\ LoadLeavesNothing
<1> SUFFICES ASSUME MemIInv PROVE ImageIsFile /\ LoadLeavesNothing
  OBVIOUS
<1>1. ImageIsFile
  <2> SUFFICES ASSUME load # None, load.step = "map" PROVE ImageIsFile
    BY DEF ImageIsFile
  <2>1. PICK i \in Image : i = load.image /\ i.valid /\ HoldsOK(i, load.next, load.holds) /\ load.next \in Nat
    BY DEF MemIInv, LoadOK, Load
  <2>2. Sectioned(i)
    BY <2>1, ValidIsSectioned
  <2>3. PICK e \in Nat : e = RoundUp(CalcVmaSize(i), Page)
    BY <2>2, VmaSizeHolds, RoundUpIs, MemConstants
  <2>4. DOMAIN load.holds = 0..(e - 1)
    BY <2>1, <2>3 DEF HoldsOK
  <2>5. ASSUME NEW s \in SectionsOf(i)
        PROVE  s.at..(s.at + RoundUp(s.raw, Page) - 1) \subseteq 0..(e - 1)
    <3>1. PICK k \in 1..Len(i.sections) : s = i.sections[k]
      BY DEF SectionsOf
    <3>2. s.at \in Nat /\ s.raw \in Nat
      BY <2>2, <3>1, SectionTyped
    <3>3. s.at + RoundUp(s.raw, Page) <= e
      BY <2>2, <2>3, <3>1, SectionsInside
    <3>4. PICK r \in Nat : r = RoundUp(s.raw, Page)
      BY <3>2, RoundUpIs, MemConstants
    <3> QED
      BY <3>2, <3>3, <3>4
  <2>6. 0..(0 + RoundUp(i.header, Page) - 1) \subseteq 0..(e - 1)
    <3>1. RoundUp(i.header, Page) <= e
      BY <2>2, <2>3, SectionsInside
    <3>2. PICK r \in Nat : r = RoundUp(i.header, Page)
      BY <2>2, RoundUpIs, MemConstants DEF Sectioned
    <3> QED
      BY <3>1, <3>2
  <2>7. ASSUME load.next > Len(i.sections), NEW s \in SectionsOf(i), NEW u \in 0..(s.size - 1)
        PROVE  load.holds[s.at + u] = IF u < s.raw THEN "file" ELSE "zero"
    <3>1. PICK k \in 1..Len(i.sections) : s = i.sections[k]
      BY DEF SectionsOf
    <3>2. k < load.next
      BY <2>1, <2>2, <2>7, <3>1 DEF Sectioned
    <3> QED
      BY <2>1, <3>1, <3>2 DEF HoldsOK
  <2> QED
    BY <2>1, <2>4, <2>5, <2>6, <2>7 DEF ImageIsFile
<1>2. LoadLeavesNothing
  <2>1. ~left /\ Starts(vm) \subseteq Owned
    BY DEF MemIInv, FmOK, OwnersOK
  <2>2. load = None => \A i \in 1..Len(vm) : vm[i].at \in images \cup codec
    BY <2>1 DEF Starts, Owned, Loading
  <2>3. borrowed \/ \A at \in images : at \notin codec /\ \E i \in 1..Len(vm) : vm[i].at = at
    <3> SUFFICES ASSUME ~borrowed, NEW at \in images PROVE at \notin codec /\ \E i \in 1..Len(vm) : vm[i].at = at
      OBVIOUS
    <3>1. at \in Starts(vm) /\ at \notin codec
      BY DEF MemIInv, OwnersOK, Owned
    <3> QED
      BY <3>1 DEF Starts
  <2> QED
    BY <2>1, <2>2, <2>3 DEF LoadLeavesNothing
<1> QED
  BY <1>1, <1>2

\* What a codec reserves is its own.
LEMMA CodecAllocatesMem == MemIInv /\ CodecAllocates => MemIInv'
<1> SUFFICES ASSUME MemIInv, CodecAllocates PROVE MemIInv'
  OBVIOUS
<1>1. UNCHANGED <<fm, load, images, left, hidden, borrowed>>
  BY DEF CodecAllocates
<1>2. PICK address \in Wanted, size \in {1, Granule} :
        \E type \in {{"reserve"}, {"commit"}, {"reserve", "commit"}} : \E r \in VirtualAlloc(address, size, type) :
          vm' = r.list /\ codec' = IF r.list = vm THEN codec ELSE codec \cup {r.answer}
  BY DEF CodecAllocates
<1>8. PICK type : \E r \in VirtualAlloc(address, size, type) :
        vm' = r.list /\ codec' = IF r.list = vm THEN codec ELSE codec \cup {r.answer}
  BY <1>2
<1>3. PICK r \in VirtualAlloc(address, size, type) :
        vm' = r.list /\ codec' = IF r.list = vm THEN codec ELSE codec \cup {r.answer}
  BY <1>8
<1>4. address \in Nat /\ size \in Nat
  BY MemConstants
<1>5. VmOK
  BY DEF MemIInv
<1>6. CASE r.list = vm
  <2>1. UNCHANGED <<vm, codec>>
    BY <1>3, <1>6
  <2> QED
    BY <1>1, <2>1 DEF MemIInv, VmOK, FmOK, OwnersOK, LoadOK, Owned, Loading
<1>7. CASE r.list # vm
  <2>1. /\ vm' \in Seq(Allocation) /\ VmApart(vm')
        /\ Starts(vm') = Starts(vm) \cup {r.answer} /\ r.answer \notin Starts(vm)
    BY <1>3, <1>4, <1>5, <1>7, AllocResult, FreshStarts DEF VmOK
  <2>2. codec' = codec \cup {r.answer} /\ Loading' = Loading
    BY <1>1, <1>3, <1>7 DEF Loading
  <2>3. OwnersOK'
    BY <1>1, <2>1, <2>2 DEF MemIInv, OwnersOK, Owned
  <2>4. VmOK'
    BY <2>1 DEF VmOK
  <2> QED
    BY <1>1, <2>3, <2>4 DEF MemIInv, FmOK, LoadOK
<1> QED
  BY <1>6, <1>7

\* What a codec frees was its own, and nobody else's.
LEMMA CodecFreesMem == MemIInv /\ CodecFrees => MemIInv'
<1> SUFFICES ASSUME MemIInv, CodecFrees PROVE MemIInv'
  OBVIOUS
<1>1. PICK at \in codec : vm' = VirtualFree(at) /\ codec' = codec \ {at}
  BY DEF CodecFrees
<1>2. UNCHANGED <<fm, load, images, left, hidden, borrowed>> /\ Loading' = Loading
  BY DEF CodecFrees, Loading
<1>3. vm' \in Seq(Allocation) /\ VmApart(vm') /\ Starts(vm') = Starts(vm) \ {at}
  BY <1>1, FreeStarts DEF MemIInv, VmOK
<1>4. OwnersOK'
  BY <1>1, <1>2, <1>3 DEF MemIInv, OwnersOK, Owned
<1>5. VmOK'
  BY <1>3 DEF VmOK
<1> QED
  BY <1>2, <1>4, <1>5 DEF MemIInv, FmOK, LoadOK

\* A mapping that a codec makes during a load hides the load's view.
LEMMA CodecMapsMem == MemIInv /\ CodecMaps => MemIInv'
<1> SUFFICES ASSUME MemIInv, CodecMaps PROVE MemIInv'
  OBVIOUS
<1>1. PICK name \in MapName \cup {None} :
        \/ UNCHANGED fm
        \/ \E r \in CreateFileMappingA(Page, name) : fm' = r.list
  BY DEF CodecMaps
<1>2. UNCHANGED <<vm, load, images, codec, left, borrowed>> /\ Loading' = Loading
  BY DEF CodecMaps, Loading
<1>3. hidden' = (hidden \/ (load # None /\ fm' # fm))
  BY DEF CodecMaps
<1>4. fm' \in Seq(Mapping)
  <2>1. fm \in Seq(Mapping)
    BY DEF MemIInv, FmOK
  <2>2. CASE UNCHANGED fm
    BY <2>1, <2>2
  <2>3. CASE \E r \in CreateFileMappingA(Page, name) : fm' = r.list
    BY <2>1, <2>3, MapResult, MemConstants
  <2> QED
    BY <1>1, <2>2, <2>3
<1>5. FmOK'
  BY <1>2, <1>3, <1>4 DEF MemIInv, FmOK
<1> QED
  BY <1>2, <1>5 DEF MemIInv, VmOK, OwnersOK, LoadOK, Owned

\* A load begins with the newest mapping.
LEMMA OpenImageMem == MemIInv /\ OpenImage => MemIInv'
<1> SUFFICES ASSUME MemIInv, OpenImage PROVE MemIInv'
  OBVIOUS
<1>1. PICK i \in Image, r \in CreateFileMappingA(FileSize, None) :
        /\ fm' = r.list
        /\ load' = IF r.answer = None THEN None
                   ELSE [image |-> i, step |-> "check", view |-> r.answer, at |-> 0, reloc |-> FALSE,
                         next |-> 0, holds |-> <<>>]
  BY DEF OpenImage
<1>2. UNCHANGED <<vm, images, codec, left, borrowed>> /\ load = None
  BY DEF OpenImage
<1>3. fm' \in Seq(Mapping) /\ (r.answer # None => fm' # <<>> /\ Head(fm').at = r.answer)
  BY <1>1, MapResult, MemConstants DEF MemIInv, FmOK
<1>4. CASE r.answer = None
  <2>1. load' = None /\ Loading' = Loading
    BY <1>1, <1>2, <1>4 DEF Loading
  <2> QED
    BY <1>2, <1>3, <2>1 DEF MemIInv, VmOK, FmOK, OwnersOK, LoadOK, Owned
<1>5. CASE r.answer # None
  <2>1. load' = [image |-> i, step |-> "check", view |-> r.answer, at |-> 0, reloc |-> FALSE, next |-> 0, holds |-> <<>>]
    BY <1>1, <1>5
  <2>2. Loading' = Loading
    BY <1>2, <2>1 DEF Loading
  <2>3. r.answer \in Nat
    <3>1. Head(fm') \in Mapping
      BY <1>3, <1>5, HeadTailProperties
    <3>2. r.answer \in 1..Space
      BY <1>3, <1>5, <3>1 DEF Mapping
    <3> QED
      BY <3>2, MemConstants
  <2>4. load' \in Load
    BY <2>1, <2>3 DEF Load
  <2>5. LoadOK'
    BY <2>1, <2>4 DEF LoadOK
  <2>6. FmOK'
    BY <1>2, <1>3, <1>5, <2>1 DEF MemIInv, FmOK
  <2> QED
    BY <1>2, <2>2, <2>5, <2>6 DEF MemIInv, VmOK, OwnersOK, Owned
<1> QED
  BY <1>4, <1>5

\* The view is unmapped if it is the newest.
LEMMA DropViewMem ==
  ASSUME FmOK, load # None, DropView, load' = None
  PROVE  FmOK'
<1>1. fm \in Seq(Mapping) /\ (fm' = fm \/ (fm # <<>> /\ fm' = Tail(fm)))
  BY DEF FmOK, DropView, UnmapViewOfFile
<1>2. fm' \in Seq(Mapping)
  BY <1>1, HeadTailProperties
<1>3. ASSUME ~hidden PROVE fm' # fm
  <2>1. fm # <<>> /\ fm' = Tail(fm)
    BY <1>3 DEF FmOK, DropView, UnmapViewOfFile
  <2>2. Len(Tail(fm)) = Len(fm) - 1 /\ Len(fm) \in Nat
    BY <1>1, <2>1
  <2>3. Len(fm') = Len(fm) - 1
    BY <2>1, <2>2, Zenon
  <2>4. Len(fm) # Len(fm) - 1
    BY <2>2
  <2> QED
    BY <2>3, <2>4, Zenon
<1>4. ~left'
  BY <1>3 DEF FmOK, DropView
<1> QED
  BY <1>2, <1>4 DEF FmOK

\* A load that fails gives back its memory and its view.
LEMMA ErrorMem ==
  ASSUME MemIInv, load # None, Error(vm), UNCHANGED <<images, codec, hidden, borrowed>>
  PROVE  MemIInv'
<1>1. load' = None /\ DropView
  BY DEF Error
<1>2. FmOK' /\ LoadOK'
  BY <1>1, DropViewMem DEF MemIInv, LoadOK
<1>3. Loading' = {}
  BY <1>1 DEF Loading
<1>4. CASE load.at = 0
  <2>1. vm' = vm /\ Loading = {}
    BY <1>4 DEF Error, Loading
  <2> QED
    BY <1>2, <1>3, <2>1 DEF MemIInv, VmOK, OwnersOK, Owned
<1>5. CASE load.at # 0
  <2>1. vm' = VirtualFree(load.at) /\ Loading = {load.at}
    BY <1>5 DEF Error, Loading
  <2>2. vm' \in Seq(Allocation) /\ VmApart(vm') /\ Starts(vm') = Starts(vm) \ {load.at}
    BY <2>1, FreeStarts DEF MemIInv, VmOK
  <2>3. OwnersOK'
    BY <1>3, <2>1, <2>2 DEF MemIInv, OwnersOK, Owned
  <2>4. VmOK'
    BY <2>2 DEF VmOK
  <2> QED
    BY <1>2, <2>3, <2>4 DEF MemIInv
<1> QED
  BY <1>4, <1>5

\* An image that is not valid is refused, its view given back; another goes on.
LEMMA CheckImageMem == MemIInv /\ CheckImage => MemIInv'
<1> SUFFICES ASSUME MemIInv, CheckImage PROVE MemIInv'
  OBVIOUS
<1>1. load # None /\ load.step = "check" /\ UNCHANGED <<images, codec, hidden, borrowed>> /\ load \in Load /\ load.at = 0
  BY DEF CheckImage, MemIInv, LoadOK
<1>2. CASE load.image.valid
  <2>1. load' = [load EXCEPT !.step = "reserve"] /\ UNCHANGED <<vm, fm, left>>
    BY <1>2 DEF CheckImage
  <2>2. /\ load' \in Load /\ load'.step = "reserve" /\ load'.at = 0 /\ load'.view = load.view
        /\ load'.image = load.image
    BY <1>1, <2>1 DEF Load
  <2>3. Loading' = Loading
    BY <1>1, <2>2 DEF Loading
  <2> QED
    BY <1>1, <1>2, <2>1, <2>2, <2>3 DEF MemIInv, VmOK, FmOK, OwnersOK, LoadOK, Owned
<1>3. CASE ~load.image.valid
  BY <1>1, <1>3, ErrorMem DEF CheckImage
<1> QED
  BY <1>2, <1>3

\* An image is put into fresh memory, or into what a codec reserved.
LEMMA PlacedMem ==
  ASSUME MemIInv, load # None, load.step = "reserve", UNCHANGED <<fm, left, images, codec, hidden>>,
         NEW size \in Nat, size = CalcVmaSize(load.image), NEW address \in Nat, NEW type,
         NEW r \in VirtualAlloc(address, size, type), r.answer # None, NEW reloc \in BOOLEAN,
         load' = [load EXCEPT !.step = "map", !.at = r.answer, !.reloc = reloc,
                              !.holds = [u \in 0..(RoundUp(size, Page) - 1) |-> "zero"]],
         borrowed' = (borrowed \/ r.list = vm), vm' = r.list
  PROVE  MemIInv'
<1>1. load \in Load /\ load.image.valid /\ load.at = 0 /\ load.next \in Nat
  BY DEF MemIInv, LoadOK, Load
<1>2. PICK h : h = [u \in 0..(RoundUp(size, Page) - 1) |-> "zero"]
  OBVIOUS
<1>3. Sectioned(load.image)
  BY <1>1, ValidIsSectioned DEF Load
<1>4. HoldsOK(load.image, 0, h) /\ load.next = 0
  BY <1>2, <1>3, HoldsReserved DEF MemIInv, LoadOK
<1>5. r.answer \in Nat /\ RoundUp(size, Page) \in Nat
  BY AllocAnswers, RoundUpIs, MemConstants DEF MemIInv, VmOK
<1>6. h \in UNION {[0..(RoundUp(CalcVmaSize(i), Page) - 1) -> Holds] : i \in Image}
  BY <1>1, <1>2 DEF Holds, Load
<1>7. load' = [load EXCEPT !.step = "map", !.at = r.answer, !.reloc = reloc, !.holds = h]
  BY <1>2
<1>8. /\ load' \in Load /\ load'.step = "map" /\ load'.at = r.answer /\ load'.view = load.view
      /\ load'.image = load.image /\ load'.next = 0 /\ load'.holds = h
  BY <1>1, <1>4, <1>5, <1>6, <1>7 DEF Load
<1>9. load' # None
  BY <1>8, LoadAssumption
<1>14. r.answer # 0 \/ borrowed'
  <2> SUFFICES ASSUME r.list # vm PROVE r.answer # 0
    OBVIOUS
  <2>1. Fresh(r) /\ vm \in Seq(Allocation) /\ VmApart(vm)
    BY AllocResult DEF MemIInv, VmOK
  <2>2. r.answer \in 1..Space
    BY <2>1, FreshStarts
  <2> QED
    BY <2>2, MemConstants
<1>10. FmOK' /\ LoadOK'
  BY <1>1, <1>4, <1>8, <1>14 DEF MemIInv, FmOK, LoadOK
<1>11. Loading = {} /\ Loading' \subseteq {r.answer} /\ (r.answer # 0 => Loading' = {r.answer})
  BY <1>1, <1>8, <1>9 DEF Loading
<1>12. CASE r.list = vm
  <2>1. OwnersOK'
    BY <1>11, <1>12 DEF MemIInv, OwnersOK, Owned
  <2> QED
    BY <1>10, <1>12, <2>1 DEF MemIInv, VmOK
<1>13. CASE r.list # vm
  <2>1. Fresh(r) /\ vm \in Seq(Allocation) /\ VmApart(vm)
    BY <1>13, AllocResult DEF MemIInv, VmOK
  <2>2. /\ vm' \in Seq(Allocation) /\ VmApart(vm')
        /\ Starts(vm') = Starts(vm) \cup {r.answer} /\ r.answer \notin Starts(vm) /\ r.answer \in 1..Space
    BY <2>1, FreshStarts
  <2>3. r.answer # 0
    BY <2>2, MemConstants
  <2>4. OwnersOK'
    BY <1>11, <1>13, <2>2, <2>3 DEF MemIInv, OwnersOK, Owned
  <2>5. VmOK'
    BY <2>2 DEF VmOK
  <2> QED
    BY <1>10, <2>4, <2>5 DEF MemIInv
<1> QED
  BY <1>12, <1>13

\* An image is put at its base, or elsewhere, or refused.
LEMMA ReserveMem == MemIInv /\ Reserve => MemIInv'
<1> SUFFICES ASSUME MemIInv, Reserve PROVE MemIInv'
  OBVIOUS
<1>1. load # None /\ load.step = "reserve" /\ UNCHANGED <<images, codec, hidden>>
  BY DEF Reserve
<1>2. load \in Load /\ load.image.valid
  BY <1>1 DEF MemIInv, LoadOK
<1>3. PICK size \in Nat : size = CalcVmaSize(load.image)
  <2>1. load.image \in Image
    BY <1>2 DEF Load
  <2> QED
    BY <1>2, <2>1, ValidIsSectioned, VmaSizeHolds
<1>4. PICK base \in Nat : base = load.image.base
  BY <1>2, ImageAssumption DEF Load
<1>5. PICK type : type = {"reserve", "commit"}
  OBVIOUS
<1> DEFINE Placed(r, reloc) ==
             /\ load' = [load EXCEPT !.step = "map", !.at = r.answer, !.reloc = reloc,
                                     !.holds = [u \in 0..(RoundUp(size, Page) - 1) |-> "zero"]]
             /\ borrowed' = (borrowed \/ r.list = vm)
             /\ vm' = r.list /\ UNCHANGED <<fm, left>>
<1>6. PICK r \in VirtualAlloc(base, size, type) :
        IF r.answer # None THEN Placed(r, FALSE)
        ELSE IF ~load.image.relocs THEN Error(r.list) /\ UNCHANGED borrowed
        ELSE \E q \in VirtualAlloc(0, size, type) :
               IF q.answer # None THEN Placed(q, TRUE) ELSE Error(q.list) /\ UNCHANGED borrowed
  BY <1>3, <1>4, <1>5 DEF Reserve
<1>7. vm \in Seq(Allocation)
  BY DEF MemIInv, VmOK
<1>8. CASE r.answer # None
  <2>1. Placed(r, FALSE)
    BY <1>6, <1>8
  <2> QED
    BY <1>1, <1>3, <1>8, <2>1, PlacedMem
<1>9. CASE r.answer = None /\ ~load.image.relocs
  <2>1. Error(vm) /\ UNCHANGED borrowed
    BY <1>6, <1>7, <1>9, AllocFails
  <2> QED
    BY <1>1, <2>1, ErrorMem
<1>10. CASE r.answer = None /\ load.image.relocs
  <2>1. PICK q \in VirtualAlloc(0, size, type) :
          IF q.answer # None THEN Placed(q, TRUE) ELSE Error(q.list) /\ UNCHANGED borrowed
    BY <1>6, <1>10
  <2>2. CASE q.answer # None
    <3>1. Placed(q, TRUE)
      BY <2>1, <2>2
    <3> QED
      BY <1>1, <1>3, <2>2, <3>1, PlacedMem
  <2>3. CASE q.answer = None
    <3>1. Error(vm) /\ UNCHANGED borrowed
      BY <1>7, <2>1, <2>3, AllocFails
    <3> QED
      BY <1>1, <3>1, ErrorMem
  <2> QED
    BY <2>2, <2>3
<1> QED
  BY <1>8, <1>9, <1>10

\* The header or a section is mapped, or the load fails.
LEMMA MapSectionMem == MemIInv /\ MapSection => MemIInv'
<1> SUFFICES ASSUME MemIInv, MapSection PROVE MemIInv'
  OBVIOUS
<1>1. /\ load # None /\ load.step = "map" /\ load.next <= Len(load.image.sections)
      /\ UNCHANGED <<images, codec, hidden, borrowed>>
  BY DEF MapSection
<1>2. load \in Load /\ load.image.valid /\ HoldsOK(load.image, load.next, load.holds)
  BY <1>1 DEF MemIInv, LoadOK
<1>3. PICK i \in Image : i = load.image
  BY <1>2 DEF Load
<1>4. PICK n \in Nat : n = load.next
  BY <1>2 DEF Load
<1>5. Sectioned(i)
  BY <1>2, <1>3, ValidIsSectioned
<1>6. CASE Error(vm)
  BY <1>1, <1>6, ErrorMem
<1>7. CASE ~Error(vm)
  <2> DEFINE g == IF n = 0 THEN Dommap(0, i.header, TRUE)
                  ELSE LET s == i.sections[n] IN
                       IF s.raw = 0 THEN load.holds ELSE ClearTail(s, Dommap(s.at, s.raw, s.aligned))
  <2>1. load' = [load EXCEPT !.next = n + 1, !.holds = g] /\ UNCHANGED <<vm, fm, left>>
    BY <1>3, <1>4, <1>7 DEF MapSection
  <2>2. HoldsOK(i, n + 1, g)
    <3>1. CASE n = 0
      <4>1. g = Dommap(0, i.header, TRUE) /\ n + 1 = 1
        BY <3>1
      <4>2. HoldsOK(i, 1, Dommap(0, i.header, TRUE))
        BY <1>2, <1>3, <1>4, <1>5, <3>1, HoldsHeader
      <4> HIDE DEF g
      <4> QED
        BY <4>1, <4>2
    <3>2. CASE n # 0
      <4>1. n \in 1..Len(i.sections)
        BY <1>1, <1>3, <1>4, <1>5, <3>2 DEF Sectioned
      <4>2. PICK s : s = i.sections[n]
        OBVIOUS
      <4>3. g = IF s.raw = 0 THEN load.holds ELSE ClearTail(s, Dommap(s.at, s.raw, s.aligned))
        BY <3>2, <4>2
      <4> HIDE DEF g
      <4>4. HoldsOK(i, n + 1, IF s.raw = 0 THEN load.holds ELSE ClearTail(s, Dommap(s.at, s.raw, s.aligned)))
        BY <1>2, <1>3, <1>4, <1>5, <4>1, <4>2, HoldsSection
      <4> QED
        BY <4>3, <4>4
    <3> QED
      BY <3>1, <3>2
  <2> HIDE DEF g
  <2>3. g \in UNION {[0..(RoundUp(CalcVmaSize(j), Page) - 1) -> Holds] : j \in Image}
    BY <2>2 DEF HoldsOK
  <2>4. /\ load' \in Load /\ load'.step = "map" /\ load'.at = load.at /\ load'.view = load.view
        /\ load'.image = i /\ load'.next = n + 1 /\ load'.holds = g
    <3>1. PICK l : l = [load EXCEPT !.next = n + 1]
      OBVIOUS
    <3>2. /\ l \in Load /\ l.step = "map" /\ l.at = load.at /\ l.view = load.view
          /\ l.image = i /\ l.next = n + 1
      BY <1>1, <1>2, <1>3, <3>1 DEF Load
    <3>3. load' = [l EXCEPT !.holds = g]
      BY <2>1, <3>1
    <3> QED
      BY <2>3, <3>2, <3>3 DEF Load
  <2>5. load' # None
    BY <2>4, LoadAssumption
  <2>6. Loading' = Loading
    BY <1>1, <2>4, <2>5 DEF Loading
  <2>7. FmOK' /\ LoadOK'
    BY <1>1, <1>2, <1>3, <2>1, <2>2, <2>4 DEF MemIInv, FmOK, LoadOK
  <2> QED
    BY <1>1, <2>1, <2>6, <2>7 DEF MemIInv, VmOK, OwnersOK, Owned
<1> QED
  BY <1>6, <1>7

\* The memory of a load becomes that of a module.
LEMMA LoadedMem == MemIInv /\ Loaded => MemIInv'
<1> SUFFICES ASSUME MemIInv, Loaded PROVE MemIInv'
  OBVIOUS
<1>1. /\ load # None /\ DropView /\ load' = None /\ images' = images \cup {load.at}
      /\ UNCHANGED <<vm, codec, hidden, borrowed>>
  BY DEF Loaded
<1>2. FmOK' /\ LoadOK'
  BY <1>1, DropViewMem DEF MemIInv, LoadOK
<1>3. Loading' = {}
  BY <1>1 DEF Loading
<1>4. Starts(vm) \subseteq Owned'
  BY <1>1 DEF MemIInv, OwnersOK, Owned, Loading
<1>5. ASSUME ~borrowed PROVE Owned' = Owned /\ Loading = {load.at}
  <2>1. load.at # 0
    BY <1>1, <1>5 DEF MemIInv, LoadOK, Loaded
  <2> QED
    BY <1>1, <1>3, <2>1 DEF Loading, Owned
<1>6. OwnersOK'
  BY <1>1, <1>3, <1>4, <1>5 DEF MemIInv, OwnersOK
<1> QED
  BY <1>1, <1>2, <1>6 DEF MemIInv, VmOK

\* A module that is unloaded frees what was its own.
LEMMA UnloadMem == MemIInv /\ PE_UnloadLibrary => MemIInv'
<1> SUFFICES ASSUME MemIInv, PE_UnloadLibrary PROVE MemIInv'
  OBVIOUS
<1>1. PICK at \in images : vm' = VirtualFree(at) /\ images' = images \ {at}
  BY DEF PE_UnloadLibrary
<1>2. UNCHANGED <<fm, load, codec, left, hidden, borrowed>> /\ Loading' = Loading
  BY DEF PE_UnloadLibrary, Loading
<1>3. vm' \in Seq(Allocation) /\ VmApart(vm') /\ Starts(vm') = Starts(vm) \ {at}
  BY <1>1, FreeStarts DEF MemIInv, VmOK
<1>4. OwnersOK'
  BY <1>1, <1>2, <1>3 DEF MemIInv, OwnersOK, Owned
<1>5. VmOK'
  BY <1>3 DEF VmOK
<1> QED
  BY <1>2, <1>4, <1>5 DEF MemIInv, FmOK, LoadOK

\* Every step of a load and of a codec keeps the invariant of the memory.
LEMMA MemNext == MemIInv /\ [Next]_vars => MemIInv'
<1> SUFFICES ASSUME MemIInv, [Next]_vars PROVE MemIInv'
  OBVIOUS
<1>1. CASE Next
  BY <1>1, CodecAllocatesMem, CodecFreesMem, CodecMapsMem, OpenImageMem, CheckImageMem, ReserveMem,
     MapSectionMem, LoadedMem, UnloadMem DEF Next
<1>2. CASE UNCHANGED vars
  BY <1>2 DEF vars, MemIInv, VmOK, FmOK, OwnersOK, LoadOK, Owned, Loading
<1> QED
  BY <1>1, <1>2
-----------------------------------------------------------------------------
(* Stubs *)

Fits == ShortNames \cup OrdinalNames

\* A name that fits stands in one slot.
Written(n) == <<n, 1, FALSE>>

\* The slots that are in use are behind the first free one, which is there.
SlotsOK ==
  /\ pos \in 0..(SlotCount - 1)
  /\ DOMAIN export_names = 0..(SlotCount - 1)
  /\ \A i \in 0..(SlotCount - 1) : export_names[i][3] \in BOOLEAN

\* No two of them hold the same name that fits.
SlotsApart ==
  \A n \in Fits : \A i, j \in 0..(pos - 1) :
    export_names[i] = Written(n) /\ export_names[j] = Written(n) => i = j

\* A stub for a name that fits is in its slot; in the last one if there were too many.
HandedOK ==
  \A h \in handed :
    /\ h = <<h[1], h[2]>>
    /\ h[1] \in Fits =>
         \/ h[2] \in 0..(pos - 1) /\ export_names[h[2]] = Written(h[1])
         \/ h[2] = SlotCount - 1

StubIInv == SlotsOK /\ SlotsApart /\ HandedOK

\* At first no slot is in use.
LEMMA StubInit == Stubs!Init => StubIInv
<1> SUFFICES ASSUME Stubs!Init PROVE StubIInv
  OBVIOUS
<1>1. SlotCount \in Nat \ {0}
  BY StubAssumption
<1>2. pos = 0 /\ handed = {} /\ export_names = [i \in 0..(SlotCount - 1) |-> <<"", 1, FALSE>>]
  BY DEF Stubs!Init, Stubs!Empty
<1>3. SlotsOK
  <2>1. PICK e : e = <<"", 1, FALSE>>
    OBVIOUS
  <2>2. e[3] \in BOOLEAN
    BY <2>1
  <2>3. export_names = [i \in 0..(SlotCount - 1) |-> e]
    BY <1>2, <2>1
  <2>4. 0 \in 0..(SlotCount - 1)
    BY <1>1
  <2>5. DOMAIN export_names = 0..(SlotCount - 1) /\ \A i \in 0..(SlotCount - 1) : export_names[i] = e
    BY <2>3
  <2> QED
    BY <1>2, <2>2, <2>4, <2>5 DEF SlotsOK
<1>4. SlotsApart /\ HandedOK
  <2>2. pos = 0
    BY <1>2
  <2>1. \A i : i \notin 0..(pos - 1)
    BY <2>2
  <2> QED
    BY <1>2, <2>1 DEF SlotsApart, HandedOK
<1> QED
  BY <1>3, <1>4 DEF StubIInv

\* A name that fits is not long.
LEMMA FitsIsWritten == \A n \in Fits : <<n, 1, n \in LongNames>> = Written(n)
<1> SUFFICES ASSUME NEW n \in Fits PROVE <<n, 1, n \in LongNames>> = Written(n)
  OBVIOUS
<1>1. n \notin LongNames
  BY StubAssumption DEF Fits
<1>2. (n \in LongNames) = FALSE
  BY <1>1
<1> QED
  BY <1>2, Zenon DEF Written

\* It says that the stubs tell.
LEMMA StubGoal == StubIInv => Stubs!StubsTell
<1> SUFFICES ASSUME StubIInv, NEW h \in handed, h[1] \in Fits
             PROVE  /\ h[2] < SlotCount - 1 => Stubs!ReadFrom(export_names, h[2]) = <<<<h[1], 1, FALSE>>>>
                    /\ \A g \in handed : g[1] = h[1] => g = h \/ (SlotCount - 1) \in {g[2], h[2]}
  BY DEF Stubs!StubsTell, Fits
<1>1. SlotCount \in Nat \ {0} /\ pos \in Nat
  BY StubAssumption DEF StubIInv, SlotsOK
<1>2. \/ h[2] \in 0..(pos - 1) /\ export_names[h[2]] = Written(h[1])
      \/ h[2] = SlotCount - 1
  BY DEF StubIInv, HandedOK
<1>3. h[2] < SlotCount - 1 => Stubs!ReadFrom(export_names, h[2]) = <<<<h[1], 1, FALSE>>>>
  <2> SUFFICES ASSUME h[2] < SlotCount - 1
               PROVE  Stubs!ReadFrom(export_names, h[2]) = <<<<h[1], 1, FALSE>>>>
    OBVIOUS
  <2>1. h[2] # SlotCount - 1
    <3>1. PICK m : m = SlotCount - 1 /\ m \in Nat
      BY <1>1
    <3> QED
      BY <3>1
  <2>2. export_names[h[2]] = <<h[1], 1, FALSE>>
    BY <1>2, <2>1 DEF Written
  <2>3. ~export_names[h[2]][3]
    BY <2>2
  <2> QED
    BY <2>2, <2>3 DEF Stubs!ReadFrom
<1>4. ASSUME NEW g \in handed, g[1] = h[1], g[2] # SlotCount - 1, h[2] # SlotCount - 1
      PROVE  g = h
  <2>1. g[2] \in 0..(pos - 1) /\ export_names[g[2]] = Written(h[1])
    BY <1>4 DEF StubIInv, HandedOK
  <2>2. g[2] = h[2]
    BY <1>2, <1>4, <2>1 DEF StubIInv, SlotsApart
  <2> QED
    BY <1>4, <2>2 DEF StubIInv, HandedOK
<1> QED
  BY <1>3, <1>4

\* What is copied to the first free slot leaves those behind it.
LEMMA CopiedKeeps ==
  ASSUME StubIInv, NEW n, NEW t, t = Stubs!Copied(n, pos)
  PROVE  /\ DOMAIN t = 0..(SlotCount - 1) /\ \A i \in 0..(SlotCount - 1) : t[i][3] \in BOOLEAN
         /\ \A i \in 0..(pos - 1) : t[i] = export_names[i]
         /\ t[pos] = <<n, 1, n \in LongNames>>
<1>1. SlotCount \in Nat \ {0} /\ pos \in 0..(SlotCount - 1)
  BY StubAssumption DEF StubIInv, SlotsOK
<1>2. DOMAIN export_names = 0..(SlotCount - 1) /\ \A i \in 0..(SlotCount - 1) : export_names[i][3] \in BOOLEAN
  BY DEF StubIInv, SlotsOK
<1>3. t = [k \in 0..(SlotCount - 1) |->
             IF k = pos THEN <<n, 1, n \in LongNames>>
             ELSE IF n \in LongNames /\ k = pos + 1 THEN <<n, 2, FALSE>> ELSE export_names[k]]
  BY <1>2 DEF Stubs!Copied
<1>4. DOMAIN t = 0..(SlotCount - 1) /\ t[pos] = <<n, 1, n \in LongNames>>
  BY <1>1, <1>3
<1>5. ASSUME NEW i \in 0..(SlotCount - 1) PROVE t[i][3] \in BOOLEAN
  <2>1. CASE i = pos
    <3>1. CASE n \in LongNames
      <4>1. (n \in LongNames) = TRUE
        BY <3>1
      <4>2. t[i] = <<n, 1, TRUE>>
        BY <1>4, <2>1, <4>1, Zenon
      <4> QED
        BY <4>2
    <3>2. CASE n \notin LongNames
      <4>1. (n \in LongNames) = FALSE
        BY <3>2
      <4>2. t[i] = <<n, 1, FALSE>>
        BY <1>4, <2>1, <4>1, Zenon
      <4> QED
        BY <4>2
    <3> QED
      BY <3>1, <3>2
  <2>2. CASE i # pos /\ n \in LongNames /\ i = pos + 1
    <3>1. t[i] = <<n, 2, FALSE>>
      BY <1>3, <2>2
    <3> QED
      BY <3>1
  <2>3. CASE i # pos /\ ~(n \in LongNames /\ i = pos + 1)
    BY <1>2, <1>3, <2>3
  <2> QED
    BY <2>1, <2>2, <2>3
<1>6. ASSUME NEW i \in 0..(pos - 1) PROVE t[i] = export_names[i]
  <2>1. i \in 0..(SlotCount - 1) /\ i # pos /\ i # pos + 1
    BY <1>1
  <2> QED
    BY <1>3, <2>1
<1> QED
  BY <1>4, <1>5, <1>6

\* A name that fits is found where it stands, and only there.
LEMMA FoundWhereWritten ==
  ASSUME StubIInv, NEW n \in Fits, NEW t, t = Stubs!Copied(n, pos), NEW i \in 0..(pos - 1)
  PROVE  i \in Stubs!Existing(t) <=> export_names[i] = Written(n)
<1>1. t[i] = export_names[i] /\ t[pos] = <<n, 1, n \in LongNames>> /\ t[i][3] \in BOOLEAN
  <2>1. i \in 0..(SlotCount - 1)
    BY StubAssumption DEF StubIInv, SlotsOK
  <2> QED
    BY <2>1, CopiedKeeps
<1>3. t[pos] = Written(n)
  BY <1>1, FitsIsWritten, Zenon
<1>2. PICK y : y = t[pos]
  OBVIOUS
<1>7. y = <<n, 1, FALSE>>
  BY <1>2, <1>3 DEF Written
<1>8. ~y[3]
  BY <1>7
<1>4. Stubs!ReadFrom(t, pos) = <<Written(n)>>
  BY <1>2, <1>3, <1>8 DEF Stubs!ReadFrom
<1>5. CASE t[i][3]
  <2>1. PICK x : Stubs!ReadFrom(t, i) = <<t[i], x>>
    BY <1>5 DEF Stubs!ReadFrom
  <2>2. Len(<<t[i], x>>) = 2 /\ Len(<<Written(n)>>) = 1
    OBVIOUS
  <2>3. Stubs!ReadFrom(t, i) # <<Written(n)>>
    BY <2>1, <2>2
  <2>4. t[i] # Written(n)
    <3>1. \A z : z = <<n, 1, FALSE>> => ~z[3]
      OBVIOUS
    <3> QED
      BY <1>5, <3>1 DEF Written
  <2> QED
    BY <1>1, <1>4, <2>3, <2>4 DEF Stubs!Existing
<1>6. CASE ~t[i][3]
  <2>1. Stubs!ReadFrom(t, i) = <<t[i]>>
    BY <1>6 DEF Stubs!ReadFrom
  <2>2. <<t[i]>> = <<Written(n)>> <=> t[i] = Written(n)
    OBVIOUS
  <2> QED
    BY <1>1, <1>4, <2>1, <2>2 DEF Stubs!Existing
<1> QED
  BY <1>1, <1>5, <1>6

\* A stub that is handed out again, one in a new slot, and one of too many.
LEMMA AddStubKeeps ==
  ASSUME StubIInv, NEW n, Stubs!AddStub(n, Stubs!Copied(n, pos))
  PROVE  StubIInv'
<1>1. PICK t : t = Stubs!Copied(n, pos)
  OBVIOUS
<1>2. Stubs!AddStub(n, t)
  BY <1>1
<1>3. SlotCount \in Nat \ {0} /\ pos \in 0..(SlotCount - 1)
  BY StubAssumption DEF StubIInv, SlotsOK
<1>4. /\ DOMAIN t = 0..(SlotCount - 1) /\ \A i \in 0..(SlotCount - 1) : t[i][3] \in BOOLEAN
      /\ \A i \in 0..(pos - 1) : t[i] = export_names[i]
      /\ t[pos] = <<n, 1, n \in LongNames>>
  BY <1>1, CopiedKeeps
<1>5. ASSUME export_names' = t, pos' = pos, NEW k, handed' = handed \cup {<<n, k>>} \/ handed' = handed,
             n \in Fits /\ handed' # handed => k \in 0..(pos - 1) /\ export_names[k] = Written(n)
      PROVE  StubIInv'
  <2>1. SlotsOK' /\ SlotsApart'
    BY <1>3, <1>4, <1>5 DEF StubIInv, SlotsOK, SlotsApart
  <2>2. ASSUME NEW h \in handed'
        PROVE  /\ h = <<h[1], h[2]>>
               /\ h[1] \in Fits =>
                    \/ h[2] \in 0..(pos - 1) /\ t[h[2]] = Written(h[1])
                    \/ h[2] = SlotCount - 1
    <3>1. CASE h \in handed
      BY <1>4, <3>1 DEF StubIInv, HandedOK
    <3>2. CASE h \notin handed
      <4>1. h = <<n, k>>
        BY <1>5, <2>2, <3>2
      <4>2. h[1] = n /\ h[2] = k
        BY <4>1
      <4> QED
        BY <1>4, <1>5, <2>2, <3>2, <4>1, <4>2
    <3> QED
      BY <3>1, <3>2
  <2>3. HandedOK'
    BY <1>5, <2>2 DEF HandedOK
  <2> QED
    BY <2>1, <2>3 DEF StubIInv
<1>6. CASE Stubs!Existing(t) # {}
  <2>1. PICK k : k = CHOOSE i \in Stubs!Existing(t) : \A j \in Stubs!Existing(t) : i <= j
    OBVIOUS
  <2>2. handed' = handed \cup {<<n, k>>} /\ export_names' = t /\ pos' = pos
    BY <1>2, <1>6, <2>1 DEF Stubs!AddStub
  <2>3. ASSUME n \in Fits PROVE k \in 0..(pos - 1) /\ export_names[k] = Written(n)
    <3>1. PICK i : i \in Stubs!Existing(t)
      BY <1>6
    <3>2. i \in 0..(pos - 1) /\ export_names[i] = Written(n)
      <4>1. i \in 0..(pos - 1)
        BY <3>1 DEF Stubs!Existing
      <4> QED
        BY <1>1, <2>3, <3>1, <4>1, FoundWhereWritten
    <3>3. ASSUME NEW j \in Stubs!Existing(t) PROVE j = i
      <4>1. j \in 0..(pos - 1)
        BY <3>3 DEF Stubs!Existing
      <4>2. export_names[j] = Written(n)
        BY <1>1, <2>3, <3>3, <4>1, FoundWhereWritten
      <4> QED
        BY <2>3, <3>2, <4>1, <4>2 DEF StubIInv, SlotsApart
    <3>4. Stubs!Existing(t) = {i}
      BY <3>1, <3>3
    <3>5. i <= i
      BY <1>3, <3>2
    <3>6. k = i
      <4>1. k = CHOOSE x \in {i} : \A j \in {i} : x <= j
        BY <2>1, <3>4
      <4> QED
        BY <3>5, <4>1
    <3> QED
      BY <3>2, <3>6
  <2> QED
    BY <1>5, <2>2, <2>3
<1>7. CASE Stubs!Existing(t) = {} /\ n = RefusedName
  <2>1. export_names' = t /\ UNCHANGED <<pos, handed>>
    BY <1>2, <1>7 DEF Stubs!AddStub
  <2> QED
    BY <1>5, <2>1
<1>8. CASE Stubs!Existing(t) = {} /\ n # RefusedName /\ pos + 1 >= SlotCount
  <2>1. /\ handed' = handed \cup {<<n, pos>>} /\ pos' = pos
        /\ export_names' = [t EXCEPT ![pos] = Stubs!TooMany]
    BY <1>2, <1>8 DEF Stubs!AddStub
  <2>2. pos = SlotCount - 1
    BY <1>3, <1>8
  <2>3. PICK u : u = [t EXCEPT ![pos] = Stubs!TooMany]
    OBVIOUS
  <2>4. /\ DOMAIN u = 0..(SlotCount - 1) /\ \A i \in 0..(SlotCount - 1) : u[i][3] \in BOOLEAN
        /\ \A i \in 0..(pos - 1) : u[i] = export_names[i]
    <3>1. Stubs!TooMany[3] \in BOOLEAN
      BY DEF Stubs!TooMany
    <3>2. PICK x : x = Stubs!TooMany
      OBVIOUS
    <3>3. u = [t EXCEPT ![pos] = x] /\ x[3] \in BOOLEAN
      BY <2>3, <3>1, <3>2
    <3> QED
      BY <1>3, <1>4, <3>3
  <2>5. SlotsOK' /\ SlotsApart'
    BY <1>3, <2>1, <2>3, <2>4 DEF StubIInv, SlotsOK, SlotsApart
  <2>6. ASSUME NEW h \in handed'
        PROVE  /\ h = <<h[1], h[2]>>
               /\ h[1] \in Fits =>
                    \/ h[2] \in 0..(pos - 1) /\ u[h[2]] = Written(h[1])
                    \/ h[2] = SlotCount - 1
    <3>1. CASE h \in handed
      BY <2>4, <3>1 DEF StubIInv, HandedOK
    <3>2. CASE h = <<n, pos>>
      BY <2>2, <3>2
    <3> QED
      BY <2>1, <2>6, <3>1, <3>2
  <2>7. HandedOK'
    BY <2>1, <2>3, <2>6 DEF HandedOK
  <2> QED
    BY <2>5, <2>7 DEF StubIInv
<1>9. CASE Stubs!Existing(t) = {} /\ n # RefusedName /\ ~(pos + 1 >= SlotCount)
  <2>1. handed' = handed \cup {<<n, pos>>} /\ pos' = pos + 1 /\ export_names' = t
    BY <1>2, <1>9 DEF Stubs!AddStub
  <2>2. pos + 1 \in 0..(SlotCount - 1) /\ \A i : i \in 0..pos <=> i \in 0..(pos - 1) \/ i = pos
    BY <1>3, <1>9
  <2>3. SlotsOK'
    BY <1>4, <2>1, <2>2 DEF SlotsOK
  <2>4. ASSUME NEW m \in Fits, NEW i \in 0..pos, NEW j \in 0..pos, t[i] = Written(m), t[j] = Written(m)
        PROVE  i = j
    <3>1. CASE i # pos /\ j # pos
      BY <1>4, <2>2, <2>4, <3>1 DEF StubIInv, SlotsApart
    <3>2. ASSUME NEW k \in 0..(pos - 1), t[k] = Written(m), t[pos] = Written(m) PROVE FALSE
      <4>1. m = n
        BY <1>4, <3>2 DEF Written
      <4>2. k \in Stubs!Existing(t)
        BY <1>1, <1>4, <3>2, <4>1, FoundWhereWritten
      <4> QED
        BY <1>9, <4>2
    <3> QED
      BY <2>2, <2>4, <3>1, <3>2
  <2>5. SlotsApart'
    <3>1. (pos + 1) - 1 = pos
      BY <1>3
    <3> QED
      BY <2>1, <2>4, <3>1 DEF SlotsApart
  <2>6. ASSUME NEW h \in handed'
        PROVE  /\ h = <<h[1], h[2]>>
               /\ h[1] \in Fits =>
                    \/ h[2] \in 0..pos /\ t[h[2]] = Written(h[1])
                    \/ h[2] = SlotCount - 1
    <3>1. CASE h \in handed
      BY <1>4, <2>2, <3>1 DEF StubIInv, HandedOK
    <3>2. CASE h = <<n, pos>>
      <4>1. n \in Fits => t[pos] = Written(n)
        BY <1>4, FitsIsWritten, Zenon
      <4>2. h[1] = n /\ h[2] = pos /\ pos \in 0..pos
        BY <1>3, <3>2
      <4> QED
        BY <3>2, <4>1, <4>2
    <3> QED
      BY <2>1, <2>6, <3>1, <3>2
  <2>7. HandedOK'
    <3>1. (pos + 1) - 1 = pos
      BY <1>3
    <3> QED
      BY <2>1, <2>6, <3>1 DEF HandedOK
  <2> QED
    BY <2>3, <2>5, <2>7 DEF StubIInv
<1> QED
  BY <1>6, <1>7, <1>8, <1>9

\* Every lookup by name, by ordinal or while an image is linked keeps the slots.
LEMMA StubNext == StubIInv /\ [Stubs!Next]_stubVars => StubIInv'
<1> SUFFICES ASSUME StubIInv, [Stubs!Next]_stubVars PROVE StubIInv'
  OBVIOUS
<1>1. ASSUME UNCHANGED <<export_names, pos, handed>> PROVE StubIInv'
  BY <1>1 DEF StubIInv, SlotsOK, SlotsApart, HandedOK
<1>2. ASSUME NEW n, Stubs!LookupExternalByName(n) PROVE StubIInv'
  BY <1>1, <1>2, AddStubKeeps DEF Stubs!LookupExternalByName
<1>3. CASE Stubs!expGetProcAddress
  BY <1>2, <1>3 DEF Stubs!expGetProcAddress
<1>4. CASE Stubs!FillThunk
  <2>1. PICK n : Stubs!Lookup(n)
    BY <1>4 DEF Stubs!FillThunk
  <2> QED
    BY <1>2, <2>1, AddStubKeeps DEF Stubs!Lookup, Stubs!LookupExternal
<1>5. CASE \E i \in ToLink : Stubs!fixup_imports(i)
  BY <1>1, <1>5 DEF Stubs!fixup_imports
<1>6. CASE UNCHANGED stubVars
  BY <1>1, <1>6 DEF stubVars
<1> QED
  BY <1>3, <1>4, <1>5, <1>6 DEF Stubs!Next
-----------------------------------------------------------------------------
(* Drivers *)

Used == [driver : Drivers, own : BOOLEAN]
OpenStreams == {s \in StreamHandles : streams[s] # None}
Header == [status : SUBSET {"prepared", "done"}, now : HeaderBuffers, prepared : HeaderBuffers \cup {None}]

\* A record is registered once.
IdsOK ==
  /\ ids \in Seq(Records \X WaveTags)
  /\ \A j, k \in 1..Len(ids) : ids[j][1] = ids[k][1] => j = k

\* A handle is on a list once, that of the record it was opened on, which is registered.
ListsOK ==
  /\ list \in [Records -> Seq(Drivers)]
  /\ \A i \in Records : \A j, k \in 1..Len(list[i]) : list[i][j] = list[i][k] => j = k
  /\ \A i \in Records : \A d \in Acm!On(i) : id[d] = i /\ i \in Acm!Registered

\* A handle has its DRVR, and is of one interface.
HandlesOK ==
  /\ id \in [Drivers -> Records \cup {None}]
  /\ \A d \in Drivers : /\ id[d] # None \/ d \in hics => d \in live
                        /\ id[d] = None \/ d \notin hics

\* A stream has its driver, its own one for itself.
StreamsOK ==
  /\ streams \in [StreamHandles -> Used \cup {None}]
  /\ \A s \in OpenStreams : id[streams[s].driver] # None
  /\ \A s, t \in OpenStreams : streams[s].own /\ streams[s].driver = streams[t].driver => s = t

\* What a search has left are places in the list, and its stream is closed.
ProbeOK ==
  probe # None => /\ probe \in [for : StreamHandles, query : BOOLEAN, rest : SUBSET (1..Len(ids))]
                  /\ streams[probe.for] = None

CountOK ==
  /\ IsFiniteSet(live) /\ IsFiniteSet(OpenStreams)
  /\ codecs = Cardinality(live) + Cardinality(OpenStreams)

\* Of a header that was prepared and still says where, the driver knows.
HeadersOK ==
  /\ header \in [StreamHandles -> Header \cup {None}]
  /\ told \in [StreamHandles -> HeaderBuffers \cup {None}]
  /\ \A s \in OpenStreams :
       /\ header[s] \in Header
       /\ "prepared" \in header[s].status /\ header[s].prepared # None => told[s] = header[s].prepared

AcmIInv == IdsOK /\ ListsOK /\ HandlesOK /\ StreamsOK /\ ProbeOK /\ CountOK /\ HeadersOK

\* The instance counts as the library does.
LEMMA AcmCardinality == ASSUME NEW S PROVE Acm!Cardinality(S) = Cardinality(S)
BY Zenon DEF Acm!Cardinality, Cardinality

\* At first nothing is registered, open or counted.
LEMMA AcmInit == Acm!Init => AcmIInv
<1> SUFFICES ASSUME Acm!Init PROVE AcmIInv
  OBVIOUS
<1>1. /\ ids = <<>> /\ list = [d \in Records |-> <<>>] /\ id = [d \in Drivers |-> None]
      /\ live = {} /\ hics = {} /\ streams = [s \in StreamHandles |-> None] /\ probe = None
      /\ header = [s \in StreamHandles |-> None] /\ told = [s \in StreamHandles |-> None] /\ codecs = 0
  BY DEF Acm!Init
<1>2. OpenStreams = {}
  BY <1>1 DEF OpenStreams
<1>3. CountOK
  <2>1. IsFiniteSet({}) /\ Cardinality({}) = 0
    BY FS_EmptySet
  <2> QED
    BY <1>1, <1>2, <2>1 DEF CountOK
<1>4. IdsOK
  BY <1>1 DEF IdsOK
<1>5. ListsOK
  <2>1. \A i \in Records : list[i] = <<>> /\ Acm!On(i) = {}
    BY <1>1 DEF Acm!On
  <2> QED
    BY <1>1, <2>1 DEF ListsOK
<1>6. HandlesOK /\ StreamsOK /\ ProbeOK /\ HeadersOK
  BY <1>1, <1>2 DEF HandlesOK, StreamsOK, ProbeOK, HeadersOK
<1> QED
  BY <1>3, <1>4, <1>5, <1>6 DEF AcmIInv

\* It says what the properties say.
LEMMA AcmGoal == AcmIInv => Acm!DriversLive /\ Acm!ConvertsPrepared
<1> SUFFICES ASSUME AcmIInv PROVE Acm!DriversLive /\ Acm!ConvertsPrepared
  OBVIOUS
<1>1. Acm!acmDriverEnum({}) = [k \in 1..Len(ids) |-> ids[k][1]]
  BY DEF Acm!acmDriverEnum
<1>2. \A d \in Drivers : id[d] # None \/ d \in hics => d \in live
  BY DEF AcmIInv, HandlesOK
<1>3. \A s \in StreamHandles : streams[s] # None => id[streams[s].driver] # None
  BY DEF AcmIInv, StreamsOK, OpenStreams
<1>4. ASSUME NEW i \in Records, NEW d \in Acm!On(i)
      PROVE  Acm!acmDriverID(d) = i /\ \E k \in DOMAIN Acm!acmDriverEnum({}) : Acm!acmDriverEnum({})[k] = i
  <2>1. id[d] = i /\ i \in Acm!Registered
    BY DEF AcmIInv, ListsOK
  <2>2. PICK k \in 1..Len(ids) : ids[k][1] = i
    BY <2>1 DEF Acm!Registered
  <2> QED
    BY <1>1, <2>1, <2>2 DEF Acm!acmDriverID
<1>5. \A j, k \in DOMAIN Acm!acmDriverEnum({}) : Acm!acmDriverEnum({})[j] = Acm!acmDriverEnum({})[k] => j = k
  BY <1>1 DEF AcmIInv, IdsOK
<1>6. codecs = Acm!Cardinality(live) + Acm!Cardinality({s \in StreamHandles : streams[s] # None})
  BY AcmCardinality DEF AcmIInv, CountOK, OpenStreams
<1>7. Acm!ConvertsPrepared
  <2> SUFFICES ASSUME NEW s \in StreamHandles, streams[s] # None, "prepared" \in header[s].status,
                      Acm!Unmodified(header[s])
               PROVE  told[s] # None /\ header[s].now.at = told[s].at /\ header[s].now.length <= told[s].length
    BY DEF Acm!ConvertsPrepared
  <2>1. header[s].prepared # None /\ told[s] = header[s].prepared
    BY DEF AcmIInv, HeadersOK, OpenStreams, Acm!Unmodified
  <2> QED
    BY <2>1 DEF Acm!Unmodified
<1> QED
  BY <1>2, <1>3, <1>4, <1>5, <1>6, <1>7 DEF Acm!DriversLive

-----------------------------------------------------------------------------

\* A DRVR more is a codec more.
LEMMA LiveAdded ==
  ASSUME CountOK, NEW d, d \notin live, live' = live \cup {d}, codecs' = codecs + 1, UNCHANGED streams
  PROVE  CountOK'
<1>1. IsFiniteSet(live') /\ Cardinality(live') = Cardinality(live) + 1
  BY FS_AddElement DEF CountOK
<1>2. Cardinality(live) \in Nat /\ Cardinality(OpenStreams) \in Nat
  BY FS_CardinalityType DEF CountOK
<1>3. OpenStreams' = OpenStreams
  BY DEF OpenStreams
<1> QED
  BY <1>1, <1>2, <1>3 DEF CountOK

\* A DRVR less is a codec less.
LEMMA LiveTaken ==
  ASSUME CountOK, NEW d \in live, live' = live \ {d}, codecs' = codecs - 1, UNCHANGED streams
  PROVE  CountOK'
<1>1. IsFiniteSet(live') /\ Cardinality(live') = Cardinality(live) - 1
  BY FS_RemoveElement DEF CountOK
<1>2. Cardinality(live) \in Nat /\ Cardinality(OpenStreams) \in Nat
  BY FS_CardinalityType DEF CountOK
<1>3. OpenStreams' = OpenStreams
  BY DEF OpenStreams
<1> QED
  BY <1>1, <1>2, <1>3 DEF CountOK

\* A record whose list is empty has nothing on it; the others keep what they have.
LEMMA OneEmptied ==
  ASSUME NEW d \in Records, list'[d] = <<>>, \A i \in Records : i # d => list'[i] = list[i]
  PROVE  Acm!On(d)' = {} /\ \A i \in Records : i # d => Acm!On(i)' = Acm!On(i)
<1>1. Acm!On(d)' = {}
  <2>1. Acm!On(d)' = {list'[d][i] : i \in 1..Len(list'[d])}
    BY DEF Acm!On
  <2> PICK l : l = list'[d]
    OBVIOUS
  <2>2. {l[i] : i \in 1..Len(l)} = {}
    BY ONLY l = list'[d], list'[d] = <<>>
  <2> QED
    BY <2>1, <2>2
<1>2. ASSUME NEW i \in Records, i # d PROVE Acm!On(i)' = Acm!On(i)
  <2>1. list'[i] = list[i]
    BY <1>2
  <2>2. Acm!On(i)' = {list'[i][j] : j \in 1..Len(list'[i])} /\ Acm!On(i) = {list[i][j] : j \in 1..Len(list[i])}
    BY Zenon DEF Acm!On
  <2> QED
    BY ONLY <2>1, <2>2
<1> QED
  BY <1>1, <1>2

\* The lists depend on the records and ids only,
LEMMA ListsKept == ASSUME ListsOK, UNCHANGED <<ids, list, id>> PROVE ListsOK'
BY DEF ListsOK, Acm!On, Acm!Registered
\* the streams on the ids,
LEMMA StreamsKept == ASSUME StreamsOK, UNCHANGED <<id, streams>> PROVE StreamsOK'
BY DEF StreamsOK, OpenStreams
\* the headers on the streams,
LEMMA HeadersKept == ASSUME HeadersOK, UNCHANGED <<streams, header, told>> PROVE HeadersOK'
BY DEF HeadersOK, OpenStreams
\* and the count on the DRVR objects and streams.
LEMMA CountKept == ASSUME CountOK, UNCHANGED <<live, streams, codecs>> PROVE CountOK'
BY DEF CountOK, OpenStreams

\* Of what only concerns DRVR objects that no handle has, nothing is disturbed.
LEMMA LiveGrows ==
  ASSUME AcmIInv, NEW d \in Drivers, Acm!DrvOpen(d), UNCHANGED <<ids, list, id, streams, header, told>>
  PROVE  IdsOK' /\ ListsOK' /\ StreamsOK' /\ CountOK' /\ HeadersOK' /\ (UNCHANGED hics => HandlesOK')
<1>1. d \notin live /\ live' = live \cup {d} /\ codecs' = codecs + 1
  BY DEF Acm!DrvOpen, Acm!Unused
<1>2. CountOK'
  BY <1>1, LiveAdded DEF AcmIInv
<1>3. UNCHANGED hics => HandlesOK'
  BY <1>1 DEF AcmIInv, HandlesOK
<1>4. IdsOK' /\ ListsOK' /\ StreamsOK' /\ HeadersOK'
  BY ListsKept, StreamsKept, HeadersKept DEF AcmIInv, IdsOK
<1> QED
  BY <1>2, <1>3, <1>4

-----------------------------------------------------------------------------
(* DRVR objects and VfW *)

\* What only asks a driver changes nothing, whether it is there or not.
LEMMA AskedAcm ==
  ASSUME AcmIInv, UNCHANGED <<ids, list, id, live, hics, streams, probe, header, told, codecs>>
  PROVE  AcmIInv'
<1>1. ListsOK' /\ StreamsOK' /\ HeadersOK' /\ CountOK'
  BY ListsKept, StreamsKept, HeadersKept, CountKept DEF AcmIInv
<1>2. IdsOK' /\ HandlesOK' /\ ProbeOK'
  BY DEF AcmIInv, IdsOK, HandlesOK, ProbeOK
<1> QED
  BY <1>1, <1>2 DEF AcmIInv

\* A VfW driver gets a DRVR that no handle has.
LEMMA ICOpenAcm == ASSUME AcmIInv, NEW d \in Drivers, Acm!ICOpen(d) PROVE AcmIInv'
<1>1. /\ probe = None /\ Acm!DrvOpen(d) /\ hics' = hics \cup {d}
      /\ UNCHANGED <<ids, list, id, streams, probe, header, told>>
  BY DEF Acm!ICOpen, Acm!Idle, Acm!drivers
<1>2. IdsOK' /\ ListsOK' /\ StreamsOK' /\ CountOK' /\ HeadersOK'
  BY <1>1, LiveGrows
<1>3. HandlesOK'
  BY <1>1 DEF AcmIInv, HandlesOK, Acm!DrvOpen, Acm!Unused
<1> QED
  BY <1>1, <1>2, <1>3 DEF AcmIInv, ProbeOK

\* It is released with its DRVR, which no ACM handle had.
LEMMA ICCloseAcm == ASSUME AcmIInv, NEW d \in Drivers, Acm!ICClose(d) PROVE AcmIInv'
<1>1. /\ probe = None /\ d \in hics /\ live' = live \ {d} /\ codecs' = codecs - 1 /\ hics' = hics \ {d}
      /\ UNCHANGED <<ids, list, id, streams, probe, header, told>>
  BY DEF Acm!ICClose, Acm!Idle, Acm!DrvClose, Acm!drivers
<1>2. d \in live /\ id[d] = None
  BY <1>1 DEF AcmIInv, HandlesOK
<1>3. CountOK'
  BY <1>1, <1>2, LiveTaken DEF AcmIInv
<1>4. HandlesOK'
  BY <1>1, <1>2 DEF AcmIInv, HandlesOK
<1>5. ListsOK' /\ StreamsOK' /\ HeadersOK'
  BY <1>1, ListsKept, StreamsKept, HeadersKept DEF AcmIInv
<1> QED
  BY <1>1, <1>3, <1>4, <1>5 DEF AcmIInv, IdsOK, ProbeOK

-----------------------------------------------------------------------------
(* Driver ids and handles *)

\* A record that is registered was not, and has no handles yet.
LEMMA RegisterAcm ==
  ASSUME AcmIInv, NEW d \in Records, NEW tag \in WaveTags, Acm!MSACM_RegisterDriver(d, tag)
  PROVE  AcmIInv'
<1>1. /\ probe = None /\ d \notin Acm!Registered /\ ids' = Append(ids, <<d, tag>>) /\ list' = [list EXCEPT ![d] = <<>>]
      /\ UNCHANGED <<id, live, hics, streams, probe, header, told, codecs>>
  BY DEF Acm!MSACM_RegisterDriver, Acm!Idle
<1>2. PICK n : n = Len(ids)
  OBVIOUS
<1>3. n \in Nat /\ ids \in Seq(Records \X WaveTags)
  BY <1>2 DEF AcmIInv, IdsOK
<1>4. PICK e : e = <<d, tag>> /\ e \in Records \X WaveTags /\ e[1] = d
  <2>1. <<d, tag>>[1] = d
    OBVIOUS
  <2> QED
    BY <2>1
<1>5. /\ ids' \in Seq(Records \X WaveTags) /\ Len(ids') = n + 1
      /\ ids'[n + 1] = e /\ \A k \in 1..n : ids'[k] = ids[k]
  BY <1>1, <1>2, <1>3, <1>4, AppendProperties
<1>6. \A k \in 1..n : ids[k][1] # d
  BY <1>1, <1>2 DEF Acm!Registered
<1>7. IdsOK'
  <2>1. \A j, k \in 1..(n + 1) : ids'[j][1] = ids'[k][1] => j = k
    <3> SUFFICES ASSUME NEW j \in 1..(n + 1), NEW k \in 1..(n + 1), ids'[j][1] = ids'[k][1] PROVE j = k
      OBVIOUS
    <3>1. (j \in 1..n \/ j = n + 1) /\ (k \in 1..n \/ k = n + 1)
      BY <1>3
    <3> QED
      BY <1>2, <1>4, <1>5, <1>6, <3>1 DEF AcmIInv, IdsOK
  <2> QED
    BY <1>5, <2>1 DEF IdsOK
<1>8. Acm!Registered \subseteq Acm!Registered'
  <2> SUFFICES ASSUME NEW k \in 1..n PROVE ids[k][1] \in Acm!Registered'
    BY <1>2 DEF Acm!Registered
  <2>1. k \in 1..(n + 1) /\ ids'[k] = ids[k]
    BY <1>3, <1>5
  <2> QED
    BY <1>5, <2>1 DEF Acm!Registered
<1>9. ListsOK'
  <2>1. list \in [Records -> Seq(Drivers)]
    BY DEF AcmIInv, ListsOK
  <2>2. list' \in [Records -> Seq(Drivers)] /\ list'[d] = <<>> /\ \A i \in Records : i # d => list'[i] = list[i]
    BY <1>1, <2>1
  <2>3. Acm!On(d)' = {} /\ \A i \in Records : i # d => Acm!On(i)' = Acm!On(i)
    BY <2>2, OneEmptied, Zenon
  <2>4. ASSUME NEW i \in Records PROVE \A j, k \in 1..Len(list'[i]) : list'[i][j] = list'[i][k] => j = k
    <3>1. CASE i = d
      BY <2>2, <3>1
    <3>2. CASE i # d
      BY <2>2, <3>2 DEF AcmIInv, ListsOK
    <3> QED
      BY <3>1, <3>2
  <2>5. ASSUME NEW i \in Records, NEW h \in Acm!On(i)' PROVE id'[h] = i /\ i \in Acm!Registered'
    BY <1>1, <1>8, <2>3, <2>5 DEF AcmIInv, ListsOK
  <2> QED
    BY <2>2, <2>4, <2>5 DEF ListsOK
<1>10. StreamsOK' /\ HeadersOK' /\ CountOK'
  BY <1>1, StreamsKept, HeadersKept, CountKept DEF AcmIInv
<1> QED
  BY <1>1, <1>7, <1>9, <1>10 DEF AcmIInv, HandlesOK, ProbeOK

\* What is left of the list when a handle is closed: each of it was on it, and is another.
LEMMA OlderOnes ==
  ASSUME ListsOK, NEW d \in Drivers, NEW i \in Records, id[d] = i
  PROVE  /\ Acm!Older(d) \in Seq(Drivers)
         /\ \A j, k \in 1..Len(Acm!Older(d)) : Acm!Older(d)[j] = Acm!Older(d)[k] => j = k
         /\ \A k \in 1..Len(Acm!Older(d)) : Acm!Older(d)[k] \in Acm!On(i) \ {d}
<1>1. PICK l : l = list[i]
  OBVIOUS
<1>2. PICK n : n = Len(l)
  OBVIOUS
<1>3. l \in Seq(Drivers) /\ n \in Nat /\ \A j, k \in 1..n : l[j] = l[k] => j = k
  BY <1>1, <1>2 DEF ListsOK
<1>4. CASE \E m \in 1..n : l[m] = d
  <2>1. PICK m \in 1..n : l[m] = d
    BY <1>4
  <2>2. (CHOOSE k \in 1..n : l[k] = d) = m
    BY <1>3, <2>1
  <2>3. Acm!Older(d) = SubSeq(l, m + 1, n)
    BY <1>1, <1>2, <1>4, <2>2 DEF Acm!Older
  <2>4. PICK o : o = SubSeq(l, m + 1, n)
    OBVIOUS
  <2>5. o \in Seq(Drivers) /\ Len(o) \in Nat /\ \A k \in 1..Len(o) : k + m \in 1..n /\ k + m # m /\ o[k] = l[k + m]
    BY <1>2, <1>3, <2>1, <2>4, BehindOne
  <2>6. ASSUME NEW j \in 1..Len(o), NEW k \in 1..Len(o), o[j] = o[k] PROVE j = k
    <3>1. j + m = k + m
      BY <1>3, <2>5, <2>6
    <3> QED
      BY <1>3, <2>1, <2>5, <3>1
  <2>7. ASSUME NEW k \in 1..Len(o) PROVE o[k] \in Acm!On(i) \ {d}
    <3>1. k + m \in 1..n /\ k + m # m /\ o[k] = l[k + m]
      BY <2>5
    <3>2. o[k] # d
      BY <1>3, <2>1, <3>1
    <3> QED
      BY <1>1, <1>2, <3>1, <3>2 DEF Acm!On
  <2> QED
    BY <2>3, <2>4, <2>5, <2>6, <2>7
<1>5. CASE ~\E m \in 1..n : l[m] = d
  <2>1. Acm!Older(d) = <<>>
    BY <1>1, <1>2, <1>5 DEF Acm!Older
  <2> QED
    BY <2>1
<1> QED
  BY <1>4, <1>5

\* A handle that is closed leaves the lists and handles as they should be.
LEMMA HandleCloses ==
  ASSUME AcmIInv, NEW d \in Drivers, id[d] # None,
         id' = [id EXCEPT ![d] = None], list' = [list EXCEPT ![id[d]] = Acm!Older(d)],
         live' \in {live, live \ {d}}, UNCHANGED <<ids, hics>>
  PROVE  ListsOK' /\ HandlesOK' /\ d \in live /\ id[d] \in Records
<1>1. PICK i \in Records : id[d] = i
  BY DEF AcmIInv, HandlesOK
<1>2. ListsOK /\ HandlesOK
  BY DEF AcmIInv
<1>3. d \in live
  BY <1>2 DEF HandlesOK
<1>4. HandlesOK'
  BY <1>2 DEF HandlesOK
<1>5. PICK o : o = Acm!Older(d)
  OBVIOUS
<1>6. /\ o \in Seq(Drivers) /\ \A j, k \in 1..Len(o) : o[j] = o[k] => j = k
      /\ \A k \in 1..Len(o) : o[k] \in Acm!On(i) \ {d}
  BY <1>1, <1>2, <1>5, OlderOnes
<1>7. list' \in [Records -> Seq(Drivers)] /\ list'[i] = o /\ \A j \in Records : j # i => list'[j] = list[j]
  BY <1>1, <1>2, <1>5, <1>6 DEF ListsOK
<1>8. Acm!On(i)' \subseteq Acm!On(i) \ {d} /\ \A j \in Records : j # i => Acm!On(j)' = Acm!On(j)
  BY <1>6, <1>7 DEF Acm!On
<1>9. ASSUME NEW j \in Records PROVE \A k, m \in 1..Len(list'[j]) : list'[j][k] = list'[j][m] => k = m
  BY <1>2, <1>6, <1>7 DEF ListsOK
<1>10. ASSUME NEW j \in Records, NEW h \in Acm!On(j)' PROVE id'[h] = j /\ j \in Acm!Registered'
  <2>1. h \in Acm!On(j) /\ h # d
    <3>1. CASE j = i
      BY <1>8, <1>10, <3>1
    <3>2. CASE j # i
      <4>1. h \in Acm!On(j) /\ id[h] = j
        BY <1>2, <1>8, <1>10, <3>2 DEF ListsOK
      <4> QED
        BY <1>1, <3>2, <4>1
    <3> QED
      BY <3>1, <3>2
  <2>2. id[h] = j /\ j \in Acm!Registered
    BY <1>2, <2>1 DEF ListsOK
  <2>3. h \in Drivers
    BY <1>2, <2>1 DEF ListsOK, Acm!On
  <2>4. id'[h] = id[h]
    BY <1>2, <2>1, <2>3 DEF HandlesOK
  <2> QED
    BY <2>2, <2>4 DEF Acm!Registered
<1>11. ListsOK'
  BY <1>7, <1>9, <1>10 DEF ListsOK
<1> QED
  BY <1>1, <1>3, <1>4, <1>11

\* A handle that is opened goes in front of the list of its record; the others keep their ids.
LEMMA HandleOpens ==
  ASSUME AcmIInv, NEW d \in Drivers, NEW i \in Records, i \in Acm!Registered, Acm!Unused(d),
         id' = [id EXCEPT ![d] = i], list' = [list EXCEPT ![i] = <<d>> \o @],
         live' = live \cup {d}, UNCHANGED <<ids, hics>>
  PROVE  ListsOK' /\ HandlesOK' /\ \A h \in Drivers : id[h] # None => h # d /\ id'[h] = id[h]
<1>1. d \notin live /\ id[d] = None /\ d \notin hics
  BY DEF Acm!Unused
<1>2. ListsOK /\ HandlesOK
  BY DEF AcmIInv
<1>3. HandlesOK' /\ \A h \in Drivers : id[h] # None => h # d /\ id'[h] = id[h]
  BY <1>1, <1>2 DEF HandlesOK
<1>4. PICK l : l = list[i]
  OBVIOUS
<1>5. PICK o : o = <<d>> \o l
  OBVIOUS
<1>6. PICK n : n = Len(l)
  OBVIOUS
<1>7. l \in Seq(Drivers) /\ n \in Nat
  BY <1>2, <1>4, <1>6 DEF ListsOK
<1>8. o \in Seq(Drivers) /\ Len(o) = n + 1 /\ o[1] = d /\ \A k \in 1..n : o[k + 1] = l[k]
  BY <1>5, <1>6, <1>7, Pushed
<1>9. \A k \in 1..n : l[k] \in Acm!On(i) /\ l[k] # d
  <2> SUFFICES ASSUME NEW k \in 1..n PROVE l[k] \in Acm!On(i) /\ l[k] # d
    OBVIOUS
  <2>1. l[k] \in Acm!On(i)
    BY <1>4, <1>6 DEF Acm!On
  <2>2. id[l[k]] = i
    BY <1>2, <2>1 DEF ListsOK
  <2> QED
    BY <1>1, <2>1, <2>2, DriverAssumption
<1>10. \A k \in 1..(n + 1) : k = 1 \/ (k - 1 \in 1..n /\ o[k] = l[k - 1])
  <2> SUFFICES ASSUME NEW k \in 1..(n + 1), k # 1 PROVE k - 1 \in 1..n /\ o[k] = l[k - 1]
    OBVIOUS
  <2>1. k - 1 \in 1..n /\ (k - 1) + 1 = k
    BY <1>7
  <2> QED
    BY <1>8, <2>1
<1>11. list' \in [Records -> Seq(Drivers)] /\ list'[i] = o /\ \A j \in Records : j # i => list'[j] = list[j]
  BY <1>2, <1>4, <1>5, <1>8 DEF ListsOK
<1>12. ASSUME NEW j \in 1..(n + 1), NEW k \in 1..(n + 1), o[j] = o[k] PROVE j = k
  <2>1. CASE j = 1 \/ k = 1
    BY <1>8, <1>9, <1>10, <1>12, <2>1
  <2>2. CASE j # 1 /\ k # 1
    <3>1. j - 1 \in 1..n /\ k - 1 \in 1..n /\ l[j - 1] = l[k - 1]
      BY <1>10, <1>12, <2>2
    <3>2. j - 1 = k - 1
      BY <1>2, <1>4, <1>6, <3>1 DEF ListsOK
    <3> QED
      BY <1>7, <3>2
  <2> QED
    BY <2>1, <2>2
<1>13. ASSUME NEW j \in Records PROVE \A k, m \in 1..Len(list'[j]) : list'[j][k] = list'[j][m] => k = m
  <2>1. CASE j = i
    BY <1>8, <1>11, <1>12, <2>1
  <2>2. CASE j # i
    BY <1>2, <1>11, <2>2 DEF ListsOK
  <2> QED
    BY <2>1, <2>2
<1>14. ASSUME NEW j \in Records, NEW h \in Acm!On(j)' PROVE id'[h] = j /\ j \in Acm!Registered'
  <2>1. CASE j = i /\ h = d
    BY <1>2, <2>1 DEF HandlesOK, Acm!Registered
  <2>2. CASE ~(j = i /\ h = d)
    <3>1. h \in Acm!On(j)
      <4>1. CASE j = i
        <5>1. PICK k \in 1..(n + 1) : h = o[k]
          BY <1>8, <1>11, <1>14, <4>1 DEF Acm!On
        <5>2. k - 1 \in 1..n /\ h = l[k - 1]
          BY <1>8, <1>10, <2>2, <4>1, <5>1
        <5> QED
          BY <1>9, <4>1, <5>2
      <4>2. CASE j # i
        BY <1>11, <1>14, <4>2 DEF Acm!On
      <4> QED
        BY <4>1, <4>2
    <3>2. id[h] = j /\ j \in Acm!Registered /\ h \in Drivers
      BY <1>2, <3>1 DEF ListsOK, Acm!On
    <3>3. id[h] # None
      BY <3>2, DriverAssumption
    <3> QED
      BY <1>3, <3>2, <3>3 DEF Acm!Registered
  <2> QED
    BY <2>1, <2>2
<1>15. ListsOK'
  BY <1>11, <1>13, <1>14 DEF ListsOK
<1> QED
  BY <1>3, <1>15

\* acmDriverOpen puts the new handle on the list of its record.
LEMMA DriverOpenAcm ==
  ASSUME AcmIInv, NEW d \in Drivers, NEW i \in Records, Acm!acmDriverOpen(d, i)
  PROVE  AcmIInv'
<1>1. /\ probe = None /\ i \in Acm!Registered /\ Acm!DrvOpen(d) /\ Acm!Unused(d)
      /\ id' = [id EXCEPT ![d] = i] /\ list' = [list EXCEPT ![i] = <<d>> \o @]
      /\ live' = live \cup {d} /\ codecs' = codecs + 1 /\ d \notin live
      /\ UNCHANGED <<ids, hics, streams, probe, header, told>>
  BY DEF Acm!acmDriverOpen, Acm!Idle, Acm!DrvOpen, Acm!Unused
<1>2. ListsOK' /\ HandlesOK' /\ \A h \in Drivers : id[h] # None => id'[h] = id[h]
  BY <1>1, HandleOpens
<1>3. CountOK'
  BY <1>1, LiveAdded DEF AcmIInv
<1>4. StreamsOK'
  <2>1. OpenStreams' = OpenStreams
    BY <1>1 DEF OpenStreams
  <2>2. \A s \in OpenStreams : streams[s].driver \in Drivers
    BY DEF AcmIInv, StreamsOK, OpenStreams, Used
  <2> QED
    BY <1>1, <1>2, <2>1, <2>2 DEF AcmIInv, StreamsOK
<1>5. HeadersOK'
  BY <1>1, HeadersKept DEF AcmIInv
<1> QED
  BY <1>1, <1>2, <1>3, <1>4, <1>5 DEF AcmIInv, IdsOK, ProbeOK

\* acmDriverClose: no stream uses the handle, which is its caller's to see to.
LEMMA DriverCloseAcm ==
  ASSUME AcmIInv, NEW d \in Drivers, Acm!acmDriverClose(d)
  PROVE  AcmIInv'
<1>1. /\ probe = None /\ id[d] # None /\ Acm!UsedBy(d) = {}
      /\ id' = [id EXCEPT ![d] = None] /\ list' = [list EXCEPT ![id[d]] = Acm!Older(d)]
      /\ \/ live' = live \ {d} /\ codecs' = codecs - 1
         \/ live' = live /\ codecs' = codecs
      /\ UNCHANGED <<ids, hics, streams, probe, header, told>>
  BY DEF Acm!acmDriverClose, Acm!Idle, Acm!Closed, Acm!DrvClose
<1>2. ListsOK' /\ HandlesOK' /\ d \in live
  BY <1>1, HandleCloses
<1>3. CountOK'
  BY <1>1, <1>2, LiveTaken, CountKept DEF AcmIInv
<1>4. StreamsOK'
  <2>1. OpenStreams' = OpenStreams
    BY <1>1 DEF OpenStreams
  <2>2. \A s \in OpenStreams : streams[s].driver \in Drivers /\ streams[s].driver # d
    BY <1>1 DEF AcmIInv, StreamsOK, OpenStreams, Used, Acm!UsedBy
  <2>3. \A s \in OpenStreams : id'[streams[s].driver] = id[streams[s].driver]
    BY <1>1, <2>2 DEF AcmIInv, HandlesOK
  <2> QED
    BY <1>1, <2>1, <2>3 DEF AcmIInv, StreamsOK
<1>5. HeadersOK'
  BY <1>1, HeadersKept DEF AcmIInv
<1> QED
  BY <1>1, <1>2, <1>3, <1>4, <1>5 DEF AcmIInv, IdsOK, ProbeOK

\* A record that goes takes its handles with it, and the DRVR of the oldest one.
LEMMA UnregisterAcm ==
  ASSUME AcmIInv, NEW d \in Records, Acm!MSACM_UnregisterDriver(d)
  PROVE  AcmIInv'
<1>1. /\ probe = None /\ d \in Acm!Registered
      /\ \A s \in StreamHandles : streams[s] # None => id[streams[s].driver] # d
      /\ list' = [list EXCEPT ![d] = <<>>]
      /\ id' = [e \in Drivers |-> IF e \in Acm!On(d) THEN None ELSE id[e]]
      /\ UNCHANGED <<hics, streams, probe, header, told>>
  BY DEF Acm!MSACM_UnregisterDriver, Acm!Idle
<1>2. \/ list[d] = <<>> /\ UNCHANGED <<live, codecs>>
      \/ /\ list[d] # <<>> /\ live' = live \ {list[d][Len(list[d])]} /\ codecs' = codecs - 1
  BY DEF Acm!MSACM_UnregisterDriver, Acm!DrvClose
<1>3. IdsOK /\ ListsOK /\ HandlesOK /\ StreamsOK /\ CountOK
  BY DEF AcmIInv
<1>4. PICK m \in 1..Len(ids) : ids[m][1] = d
  BY <1>1 DEF Acm!Registered
<1>5. PICK l : l = Without(ids, m)
  OBVIOUS
<1>6. ids' = l
  <2>1. (CHOOSE k \in 1..Len(ids) : ids[k][1] = d) = m
    BY <1>3, <1>4 DEF IdsOK
  <2> QED
    BY <1>5, <2>1 DEF Acm!MSACM_UnregisterDriver, Without
<1>7. /\ l \in Seq(Records \X WaveTags)
      /\ \A k \in 1..Len(l) : \E p \in 1..Len(ids) : l[k] = ids[p] /\ p # m /\ p = IF k < m THEN k ELSE k + 1
      /\ \A p \in 1..Len(ids) : p = m \/ \E k \in 1..Len(l) : l[k] = ids[p]
      /\ \A j, k \in 1..Len(l) : (IF j < m THEN j ELSE j + 1) = (IF k < m THEN k ELSE k + 1) => j = k
  <2>1. ids \in Seq(Records \X WaveTags)
    BY <1>3 DEF IdsOK
  <2>2. PICK S : S = Records \X WaveTags
    OBVIOUS
  <2>3. ids \in Seq(S)
    BY <2>1, <2>2
  <2>4. l \in Seq(S)
    BY <1>4, <1>5, <2>3, WithoutOne
  <2>5. \A k \in 1..Len(l) : \E p \in 1..Len(ids) : l[k] = ids[p] /\ p # m /\ p = IF k < m THEN k ELSE k + 1
    BY <1>5, <2>3, WithoutElements
  <2>6. \A p \in 1..Len(ids) : p = m \/ \E k \in 1..Len(l) : l[k] = ids[p]
    BY <1>5, <2>3, WithoutKeeps
  <2>7. \A j, k \in 1..Len(l) : (IF j < m THEN j ELSE j + 1) = (IF k < m THEN k ELSE k + 1) => j = k
    BY <1>5, <2>3, WithoutElements
  <2> QED
    BY <2>2, <2>4, <2>5, <2>6, <2>7
<1>8. IdsOK'
  <2>1. ASSUME NEW j \in 1..Len(l), NEW k \in 1..Len(l), l[j][1] = l[k][1] PROVE j = k
    <3>1. PICK p \in 1..Len(ids) : l[j] = ids[p] /\ p = IF j < m THEN j ELSE j + 1
      BY <1>7
    <3>2. PICK q \in 1..Len(ids) : l[k] = ids[q] /\ q = IF k < m THEN k ELSE k + 1
      BY <1>7
    <3>3. p = q
      BY <1>3, <2>1, <3>1, <3>2 DEF IdsOK
    <3> QED
      BY <1>7, <3>1, <3>2, <3>3
  <2> QED
    BY <1>6, <1>7, <2>1 DEF IdsOK
<1>9. ASSUME NEW i \in Acm!Registered, i # d PROVE i \in Acm!Registered'
  <2>1. PICK p \in 1..Len(ids) : ids[p][1] = i
    BY <1>9 DEF Acm!Registered
  <2>2. PICK k \in 1..Len(l) : l[k] = ids[p]
    BY <1>4, <1>7, <1>9, <2>1
  <2> QED
    BY <1>6, <2>1, <2>2 DEF Acm!Registered
<1>10. /\ list' \in [Records -> Seq(Drivers)] /\ list'[d] = <<>> /\ \A i \in Records : i # d => list'[i] = list[i]
  BY <1>1, <1>3 DEF ListsOK
<1>11. Acm!On(d)' = {} /\ \A i \in Records : i # d => Acm!On(i)' = Acm!On(i)
  BY <1>10, OneEmptied, Zenon
<1>12. ListsOK'
  <2>1. ASSUME NEW i \in Records PROVE \A j, k \in 1..Len(list'[i]) : list'[i][j] = list'[i][k] => j = k
    <3>1. CASE i = d
      BY <1>10, <3>1
    <3>2. CASE i # d
      BY <1>3, <1>10, <3>2 DEF ListsOK
    <3> QED
      BY <3>1, <3>2
  <2>2. ASSUME NEW i \in Records, NEW h \in Acm!On(i)' PROVE id'[h] = i /\ i \in Acm!Registered'
    <3>1. i # d /\ h \in Acm!On(i)
      BY <1>11, <2>2
    <3>2. id[h] = i /\ i \in Acm!Registered /\ h \in Drivers
      <4>1. id[h] = i /\ i \in Acm!Registered
        BY <1>3, <3>1, Zenon DEF ListsOK
      <4>2. list[i] \in Seq(Drivers)
        BY <1>3 DEF ListsOK
      <4>3. PICK j \in 1..Len(list[i]) : h = list[i][j]
        BY <3>1, Zenon DEF Acm!On
      <4>4. list[i][j] \in Drivers
        BY ONLY <4>2, j \in 1..Len(list[i])
      <4> QED
        BY <4>1, <4>3, <4>4
    <3>3. h \notin Acm!On(d)
      BY <1>3, <3>1, <3>2 DEF ListsOK
    <3> QED
      BY <1>1, <1>9, <3>1, <3>2, <3>3
  <2> QED
    BY <1>10, <2>1, <2>2 DEF ListsOK
<1>13. \A h \in Acm!On(d) : h \in Drivers /\ id[h] = d /\ h \in live /\ h \notin hics
  <2> SUFFICES ASSUME NEW h \in Acm!On(d) PROVE h \in Drivers /\ id[h] = d /\ h \in live /\ h \notin hics
    OBVIOUS
  <2>1. h \in Drivers /\ id[h] = d
    BY <1>3 DEF ListsOK, Acm!On
  <2>2. id[h] # None
    BY <2>1, DriverAssumption
  <2> QED
    BY <1>3, <2>1, <2>2 DEF HandlesOK
<1>14. CountOK' /\ HandlesOK'
  <2>1. CASE list[d] = <<>>
    <3>1. UNCHANGED <<live, codecs>>
      BY <1>2, <2>1
    <3>2. CountOK'
      BY <1>1, <1>3, <3>1, CountKept
    <3>3. HandlesOK'
      BY <1>1, <1>3, <3>1 DEF HandlesOK
    <3> QED
      BY <3>2, <3>3
  <2>2. CASE list[d] # <<>>
    <3>1. PICK h : h = list[d][Len(list[d])]
      OBVIOUS
    <3>2. h \in Acm!On(d)
      <4>1. list[d] \in Seq(Drivers)
        BY <1>3 DEF ListsOK
      <4>2. Len(list[d]) \in 1..Len(list[d])
        BY <2>2, <4>1
      <4> QED
        BY <3>1, <4>2 DEF Acm!On
    <3>3. live' = live \ {h} /\ codecs' = codecs - 1
      BY <1>2, <2>2, <3>1
    <3>4. CountOK'
      BY <1>1, <1>3, <1>13, <3>2, <3>3, LiveTaken
    <3>5. HandlesOK'
      BY <1>1, <1>3, <1>13, <3>2, <3>3 DEF HandlesOK
    <3> QED
      BY <3>4, <3>5
  <2> QED
    BY <2>1, <2>2
<1>15. StreamsOK'
  <2>1. OpenStreams' = OpenStreams
    BY <1>1 DEF OpenStreams
  <2>2. \A s \in OpenStreams : streams[s].driver \in Drivers /\ id[streams[s].driver] # d
    BY <1>1, <1>3 DEF StreamsOK, OpenStreams, Used
  <2>3. \A s \in OpenStreams : id'[streams[s].driver] = id[streams[s].driver]
    BY <1>1, <1>13, <2>2
  <2> QED
    BY <1>1, <1>3, <2>1, <2>3 DEF StreamsOK
<1>16. HeadersOK'
  BY <1>1, HeadersKept DEF AcmIInv
<1>17. ProbeOK'
  BY <1>1 DEF ProbeOK
<1> QED
  BY <1>8, <1>12, <1>14, <1>15, <1>16, <1>17 DEF AcmIInv

-----------------------------------------------------------------------------
(* Streams *)

\* A stream that opens, with its header fresh.
LEMMA StreamOpens ==
  ASSUME AcmIInv, NEW s \in StreamHandles, streams[s] = None, NEW d \in Drivers, NEW own \in BOOLEAN,
         Acm!Opened(s, d, own)
  PROVE  /\ streams' \in [StreamHandles -> Used \cup {None}] /\ streams'[s] = [driver |-> d, own |-> own]
         /\ OpenStreams' = OpenStreams \cup {s} /\ s \notin OpenStreams
         /\ \A t \in OpenStreams : streams'[t] = streams[t]
         /\ IsFiniteSet(OpenStreams') /\ Cardinality(OpenStreams') = Cardinality(OpenStreams) + 1
         /\ HeadersOK'
<1>1. PICK b \in HeaderBuffers : /\ streams' = [streams EXCEPT ![s] = [driver |-> d, own |-> own]]
                                 /\ header' = [header EXCEPT ![s] = Acm!Unprepared(b)]
                                 /\ told' = [told EXCEPT ![s] = None]
  BY DEF Acm!Opened
<1>2. PICK u \in Used : u = [driver |-> d, own |-> own]
  BY DEF Used
<1>3. u # None
  BY <1>2, DriverAssumption DEF Used
<1>4. StreamsOK /\ HeadersOK /\ CountOK
  BY DEF AcmIInv
<1>5. /\ streams' \in [StreamHandles -> Used \cup {None}] /\ streams'[s] = u
      /\ \A t \in StreamHandles : t # s => streams'[t] = streams[t]
  BY <1>1, <1>2, <1>4 DEF StreamsOK
<1>6. OpenStreams' = OpenStreams \cup {s} /\ s \notin OpenStreams
  BY <1>3, <1>5 DEF OpenStreams
<1>7. IsFiniteSet(OpenStreams') /\ Cardinality(OpenStreams') = Cardinality(OpenStreams) + 1
  BY <1>4, <1>6, FS_AddElement DEF CountOK
<1>8. HeadersOK'
  <2>1. PICK h : h = Acm!Unprepared(b)
    OBVIOUS
  <2>2. h \in Header /\ h.status = {}
    BY <2>1 DEF Header, Acm!Unprepared
  <2>3. /\ header' \in [StreamHandles -> Header \cup {None}] /\ told' \in [StreamHandles -> HeaderBuffers \cup {None}]
        /\ header'[s] = h /\ \A t \in StreamHandles : t # s => header'[t] = header[t] /\ told'[t] = told[t]
    BY <1>1, <1>4, <2>1, <2>2 DEF HeadersOK
  <2> QED
    BY <1>4, <1>6, <2>2, <2>3 DEF HeadersOK, OpenStreams
<1> QED
  BY <1>2, <1>5, <1>6, <1>7, <1>8 DEF OpenStreams

\* A stream that closes.
LEMMA StreamCloses ==
  ASSUME AcmIInv, NEW s \in OpenStreams, Acm!Gone(s)
  PROVE  /\ streams' \in [StreamHandles -> Used \cup {None}]
         /\ OpenStreams' = OpenStreams \ {s} /\ \A t \in OpenStreams' : streams'[t] = streams[t]
         /\ IsFiniteSet(OpenStreams') /\ Cardinality(OpenStreams') = Cardinality(OpenStreams) - 1
         /\ HeadersOK'
<1>1. /\ streams' = [streams EXCEPT ![s] = None]
      /\ header' = [header EXCEPT ![s] = None] /\ told' = [told EXCEPT ![s] = None]
  BY DEF Acm!Gone
<1>2. StreamsOK /\ HeadersOK /\ CountOK /\ s \in StreamHandles
  BY DEF AcmIInv, OpenStreams
<1>3. /\ streams' \in [StreamHandles -> Used \cup {None}] /\ streams'[s] = None
      /\ \A t \in StreamHandles : t # s => streams'[t] = streams[t]
  BY <1>1, <1>2 DEF StreamsOK
<1>4. OpenStreams' = OpenStreams \ {s}
  BY <1>3 DEF OpenStreams
<1>5. IsFiniteSet(OpenStreams') /\ Cardinality(OpenStreams') = Cardinality(OpenStreams) - 1
  BY <1>2, <1>4, FS_RemoveElement DEF CountOK
<1>6. HeadersOK'
  <2>1. /\ header' \in [StreamHandles -> Header \cup {None}] /\ told' \in [StreamHandles -> HeaderBuffers \cup {None}]
        /\ \A t \in StreamHandles : t # s => header'[t] = header[t] /\ told'[t] = told[t]
    BY <1>1, <1>2 DEF HeadersOK
  <2> QED
    BY <1>2, <1>4, <2>1 DEF HeadersOK, OpenStreams
<1> QED
  BY <1>3, <1>4, <1>5, <1>6 DEF OpenStreams

\* A stream on a driver of the caller counts as a codec more.
LEMMA StreamOpenAcm ==
  ASSUME AcmIInv, NEW s \in StreamHandles, NEW d \in Drivers, Acm!acmStreamOpen(s, d)
  PROVE  AcmIInv'
<1>1. /\ probe = None /\ streams[s] = None /\ id[d] # None /\ \A t \in Acm!UsedBy(d) : ~streams[t].own
      /\ \/ Acm!Opened(s, d, FALSE) /\ codecs' = codecs + 1
         \/ UNCHANGED <<streams, header, told, codecs>>
      /\ UNCHANGED <<ids, list, id, live, hics, probe>>
  BY DEF Acm!acmStreamOpen, Acm!Idle, Acm!drivers
<1>2. CASE UNCHANGED <<streams, header, told, codecs>>
  BY <1>1, <1>2, AskedAcm
<1>3. CASE Acm!Opened(s, d, FALSE) /\ codecs' = codecs + 1
  <2>1. /\ streams' \in [StreamHandles -> Used \cup {None}] /\ streams'[s] = [driver |-> d, own |-> FALSE]
        /\ OpenStreams' = OpenStreams \cup {s} /\ s \notin OpenStreams
        /\ \A t \in OpenStreams : streams'[t] = streams[t]
        /\ IsFiniteSet(OpenStreams') /\ Cardinality(OpenStreams') = Cardinality(OpenStreams) + 1
        /\ HeadersOK'
    BY <1>1, <1>3, StreamOpens
  <2>2. CountOK'
    <3>1. Cardinality(live) \in Nat /\ Cardinality(OpenStreams) \in Nat
      BY FS_CardinalityType DEF AcmIInv, CountOK
    <3> QED
      BY <1>1, <1>3, <2>1, <3>1 DEF AcmIInv, CountOK
  <2>3. StreamsOK'
    <3>1. streams'[s].driver = d /\ ~streams'[s].own
      BY <2>1
    <3>2. \A t \in OpenStreams : streams[t].driver = d => ~streams[t].own
      BY <1>1 DEF Acm!UsedBy, OpenStreams
    <3>3. \A t \in OpenStreams' : id'[streams'[t].driver] # None
      BY <1>1, <2>1, <3>1 DEF AcmIInv, StreamsOK
    <3>4. ASSUME NEW t \in OpenStreams', NEW v \in OpenStreams', streams'[t].own, streams'[t].driver = streams'[v].driver
          PROVE  t = v
      BY <2>1, <3>1, <3>2, <3>4 DEF AcmIInv, StreamsOK
    <3> QED
      BY <2>1, <3>3, <3>4 DEF StreamsOK
  <2>4. ListsOK'
    BY <1>1, ListsKept DEF AcmIInv
  <2> QED
    BY <1>1, <2>1, <2>2, <2>3, <2>4 DEF AcmIInv, IdsOK, HandlesOK, ProbeOK
<1> QED
  BY <1>1, <1>2, <1>3

\* A stream that is closed closes the driver it opened for itself, which no other stream uses.
LEMMA StreamCloseAcm ==
  ASSUME AcmIInv, NEW s \in StreamHandles, Acm!acmStreamClose(s)
  PROVE  AcmIInv'
<1>1. probe = None /\ s \in OpenStreams /\ UNCHANGED <<hics, probe>>
  BY DEF Acm!acmStreamClose, Acm!Idle, OpenStreams
<1>2. PICK d : d = streams[s].driver
  OBVIOUS
<1>3. d \in Drivers /\ id[d] # None
  BY <1>1, <1>2 DEF AcmIInv, StreamsOK, OpenStreams, Used
<1>4. \/ /\ ~streams[s].own /\ codecs' = codecs - 1 /\ Acm!Gone(s) /\ UNCHANGED <<ids, list, id, live>>
      \/ /\ streams[s].own
         /\ id' = [id EXCEPT ![d] = None] /\ list' = [list EXCEPT ![id[d]] = Acm!Older(d)]
         /\ \/ live' = live \ {d} /\ codecs' = codecs - 2
            \/ live' = live /\ codecs' = codecs - 1
         /\ Acm!Gone(s) /\ UNCHANGED ids
      \/ UNCHANGED <<ids, list, id, live, streams, header, told, codecs>>
  BY <1>2 DEF Acm!acmStreamClose, Acm!drivers
<1>5. CASE UNCHANGED <<ids, list, id, live, streams, header, told, codecs>>
  BY <1>1, <1>5, AskedAcm
<1>6. CASE ~UNCHANGED <<ids, list, id, live, streams, header, told, codecs>>
  <2>1. /\ streams' \in [StreamHandles -> Used \cup {None}]
        /\ OpenStreams' = OpenStreams \ {s} /\ \A t \in OpenStreams' : streams'[t] = streams[t]
        /\ IsFiniteSet(OpenStreams') /\ Cardinality(OpenStreams') = Cardinality(OpenStreams) - 1
        /\ HeadersOK'
    BY <1>1, <1>4, <1>6, StreamCloses
  <2>2. Cardinality(live) \in Nat /\ Cardinality(OpenStreams) \in Nat /\ IsFiniteSet(live)
        /\ codecs = Cardinality(live) + Cardinality(OpenStreams)
    BY FS_CardinalityType DEF AcmIInv, CountOK
  <2>3. CASE ~streams[s].own
    <3>1. codecs' = codecs - 1 /\ UNCHANGED <<ids, list, id, live>>
      BY <1>4, <1>6, <2>3
    <3>2. CountOK'
      BY <2>1, <2>2, <3>1 DEF CountOK
    <3>3. StreamsOK'
      BY <2>1, <3>1 DEF AcmIInv, StreamsOK
    <3>4. ListsOK'
      BY <3>1, ListsKept DEF AcmIInv
    <3> QED
      BY <1>1, <2>1, <3>1, <3>2, <3>3, <3>4 DEF AcmIInv, IdsOK, HandlesOK, ProbeOK
  <2>4. CASE streams[s].own
    <3>1. /\ id' = [id EXCEPT ![d] = None] /\ list' = [list EXCEPT ![id[d]] = Acm!Older(d)]
          /\ \/ live' = live \ {d} /\ codecs' = codecs - 2
             \/ live' = live /\ codecs' = codecs - 1
          /\ UNCHANGED ids
      BY <1>4, <1>6, <2>4
    <3>2. ListsOK' /\ HandlesOK' /\ d \in live
      BY <1>1, <1>3, <3>1, HandleCloses
    <3>3. CountOK'
      <4>1. IsFiniteSet(live \ {d}) /\ Cardinality(live \ {d}) = Cardinality(live) - 1
        BY <2>2, <3>2, FS_RemoveElement
      <4>2. CASE live' = live \ {d} /\ codecs' = codecs - 2
        BY <2>1, <2>2, <4>1, <4>2 DEF CountOK
      <4>3. CASE live' = live /\ codecs' = codecs - 1
        BY <2>1, <2>2, <4>3 DEF CountOK
      <4> QED
        BY <3>1, <4>2, <4>3
    <3>4. StreamsOK'
      <4>1. \A t \in OpenStreams' : /\ t \in OpenStreams /\ t # s /\ streams'[t] = streams[t]
                                    /\ streams[t].driver \in Drivers
        BY <2>1 DEF AcmIInv, StreamsOK, OpenStreams, Used
      <4>2. \A t \in OpenStreams' : streams[t].driver # d
        BY <1>1, <1>2, <2>4, <4>1 DEF AcmIInv, StreamsOK
      <4>3. \A t \in OpenStreams' : id'[streams[t].driver] = id[streams[t].driver]
        BY <3>1, <4>1, <4>2 DEF AcmIInv, HandlesOK
      <4> QED
        BY <2>1, <4>1, <4>3 DEF AcmIInv, StreamsOK
    <3> QED
      BY <1>1, <2>1, <3>1, <3>2, <3>3, <3>4 DEF AcmIInv, IdsOK, ProbeOK
  <2> QED
    BY <2>3, <2>4
<1> QED
  BY <1>5, <1>6

\* The record that a search tries next is one that is registered.
LEMMA CandidateThere ==
  ASSUME AcmIInv, probe # None, probe.rest # {}
  PROVE  Acm!Candidate \in Records /\ Acm!Candidate \in Acm!Registered
<1>1. probe.rest \in SUBSET (1..Len(ids)) /\ ids \in Seq(Records \X WaveTags)
  BY DEF AcmIInv, ProbeOK, IdsOK
<1>2. PICK n : n = Len(ids)
  OBVIOUS
<1>3. n \in Nat /\ probe.rest \in SUBSET Nat
  BY <1>1, <1>2
<1>4. \E k \in probe.rest : \A j \in probe.rest : k <= j
  BY <1>3, LeastOf
<1>5. PICK k : k = Acm!Place /\ k \in probe.rest
  BY <1>4 DEF Acm!Place
<1>6. k \in 1..Len(ids) /\ Acm!Candidate = ids[k][1]
  BY <1>1, <1>5 DEF Acm!Candidate
<1>7. ids[k] \in Records \X WaveTags
  BY <1>1, <1>6
<1> QED
  BY <1>6, <1>7 DEF Acm!Registered

\* A search for a driver begins with the places of the records of the format.
LEMMA ProbeStartAcm ==
  ASSUME AcmIInv, NEW s \in StreamHandles, NEW tag, Acm!StreamProbe(s, tag)
  PROVE  AcmIInv'
<1>1. PICK query \in BOOLEAN : probe' = [for |-> s, query |-> query, rest |-> {k \in 1..Len(ids) : ids[k][2] = tag}]
  BY DEF Acm!StreamProbe
<1>2. streams[s] = None /\ UNCHANGED <<ids, list, id, live, hics, streams, header, told, codecs>>
  BY DEF Acm!StreamProbe, Acm!drivers
<1>3. ProbeOK'
  BY <1>1, <1>2 DEF ProbeOK
<1>4. ListsOK' /\ StreamsOK' /\ HeadersOK' /\ CountOK'
  BY <1>2, ListsKept, StreamsKept, HeadersKept, CountKept DEF AcmIInv
<1> QED
  BY <1>2, <1>3, <1>4 DEF AcmIInv, IdsOK, HandlesOK

\* The next record, or the end.
LEMMA ProbeGoesOn ==
  ASSUME AcmIInv, probe # None, probe' = Acm!Tried \/ probe' = None, UNCHANGED <<ids, streams>>
  PROVE  ProbeOK'
<1>1. /\ probe \in [for : StreamHandles, query : BOOLEAN, rest : SUBSET (1..Len(ids))]
      /\ streams[probe.for] = None
  BY DEF AcmIInv, ProbeOK
<1>2. CASE probe' = None
  BY <1>2 DEF ProbeOK
<1>3. CASE probe' = Acm!Tried
  <2>1. PICK r : r = probe.rest \ {Acm!Place}
    OBVIOUS
  <2>2. probe' = [probe EXCEPT !.rest = r] /\ r \in SUBSET (1..Len(ids))
    BY <1>1, <1>3, <2>1 DEF Acm!Tried
  <2>3. /\ probe' \in [for : StreamHandles, query : BOOLEAN, rest : SUBSET (1..Len(ids))]
        /\ probe'.for = probe.for
    BY <1>1, <2>2
  <2> QED
    BY <1>1, <2>3 DEF ProbeOK
<1> QED
  BY <1>2, <1>3

\* A driver that refuses is closed again, and its place is tried no more.
LEMMA ProbeStepAcm ==
  ASSUME AcmIInv, Acm!ProbeOpenFails \/ Acm!ProbeEnds \/ \E d \in Drivers : Acm!ProbeRefused(d) \/ Acm!ProbeAnswered(d)
  PROVE  AcmIInv'
<1>1. CASE Acm!ProbeOpenFails \/ Acm!ProbeEnds
  <2>1. /\ probe # None /\ (probe' = Acm!Tried \/ probe' = None)
        /\ UNCHANGED <<ids, list, id, live, hics, streams, header, told, codecs>>
    BY <1>1 DEF Acm!ProbeOpenFails, Acm!ProbeEnds, Acm!DrvOpenFails, Acm!drivers
  <2>2. ProbeOK'
    BY <2>1, ProbeGoesOn
  <2>3. ListsOK' /\ StreamsOK' /\ HeadersOK' /\ CountOK'
    BY <2>1, ListsKept, StreamsKept, HeadersKept, CountKept DEF AcmIInv
  <2> QED
    BY <2>1, <2>2, <2>3 DEF AcmIInv, IdsOK, HandlesOK
<1>2. ASSUME NEW d \in Drivers, Acm!ProbeRefused(d) \/ Acm!ProbeAnswered(d) PROVE AcmIInv'
  <2>1. /\ probe # None /\ (probe' = Acm!Tried \/ probe' = None) /\ Acm!OpenedAndClosed(d)
        /\ UNCHANGED <<ids, list, id, hics, streams, header, told>>
    BY <1>2 DEF Acm!ProbeRefused, Acm!ProbeAnswered, Acm!drivers
  <2>2. ProbeOK'
    BY <2>1, ProbeGoesOn
  <2>3. CASE Acm!DrvOpen(d)
    BY <2>1, <2>2, <2>3, LiveGrows DEF AcmIInv
  <2>4. CASE UNCHANGED <<live, codecs>>
    <3>1. ListsOK' /\ StreamsOK' /\ HeadersOK' /\ CountOK'
      BY <2>1, <2>4, ListsKept, StreamsKept, HeadersKept, CountKept DEF AcmIInv
    <3> QED
      BY <2>1, <2>2, <2>4, <3>1 DEF AcmIInv, IdsOK, HandlesOK
  <2> QED
    BY <2>1, <2>3, <2>4 DEF Acm!OpenedAndClosed
<1> QED
  BY <1>1, <1>2

\* A driver that takes the format is the stream's own.
LEMMA ProbeTakenAcm ==
  ASSUME AcmIInv, NEW d \in Drivers, Acm!ProbeTaken(d)
  PROVE  AcmIInv'
<1>1. /\ probe # None /\ probe.rest # {} /\ Acm!Unused(d) /\ probe' = None
      /\ live' = live \cup {d} /\ codecs' = codecs + 2
      /\ id' = [id EXCEPT ![d] = Acm!Candidate] /\ list' = [list EXCEPT ![Acm!Candidate] = <<d>> \o @]
      /\ Acm!Opened(probe.for, d, TRUE)
      /\ UNCHANGED <<ids, hics>>
  BY DEF Acm!ProbeTaken
<1>2. PICK i : i = Acm!Candidate /\ i \in Records /\ i \in Acm!Registered
  BY <1>1, CandidateThere
<1>3. PICK s \in StreamHandles : s = probe.for /\ streams[s] = None
  BY <1>1 DEF AcmIInv, ProbeOK
<1>4. ListsOK' /\ HandlesOK' /\ \A h \in Drivers : id[h] # None => h # d /\ id'[h] = id[h]
  BY <1>1, <1>2, HandleOpens
<1>5. /\ streams' \in [StreamHandles -> Used \cup {None}] /\ streams'[s] = [driver |-> d, own |-> TRUE]
      /\ OpenStreams' = OpenStreams \cup {s} /\ s \notin OpenStreams
      /\ \A t \in OpenStreams : streams'[t] = streams[t]
      /\ IsFiniteSet(OpenStreams') /\ Cardinality(OpenStreams') = Cardinality(OpenStreams) + 1
      /\ HeadersOK'
  BY <1>1, <1>3, StreamOpens
<1>6. CountOK'
  <2>1. Cardinality(live) \in Nat /\ Cardinality(OpenStreams) \in Nat /\ IsFiniteSet(live)
        /\ codecs = Cardinality(live) + Cardinality(OpenStreams)
    BY FS_CardinalityType DEF AcmIInv, CountOK
  <2>2. IsFiniteSet(live') /\ Cardinality(live') = Cardinality(live) + 1
    BY <1>1, <2>1, FS_AddElement DEF Acm!Unused
  <2> QED
    BY <1>1, <1>5, <2>1, <2>2 DEF CountOK
<1>7. StreamsOK'
  <2>1. streams'[s].driver = d /\ id'[d] # None
    <3>1. id'[d] = i
      BY <1>1, <1>2 DEF AcmIInv, HandlesOK
    <3>2. i # None
      BY <1>2, DriverAssumption
    <3> QED
      BY <1>5, <3>1, <3>2
  <2>2. \A t \in OpenStreams : /\ streams[t].driver # d /\ id'[streams[t].driver] # None
    <3> TAKE t \in OpenStreams
    <3>1. streams[t].driver \in Drivers /\ id[streams[t].driver] # None
      BY DEF AcmIInv, StreamsOK, OpenStreams, Used
    <3> QED
      BY <1>4, <3>1
  <2>3. \A t \in OpenStreams' : id'[streams'[t].driver] # None
    BY <1>5, <2>1, <2>2
  <2>4. ASSUME NEW t \in OpenStreams', NEW v \in OpenStreams', streams'[t].own, streams'[t].driver = streams'[v].driver
        PROVE  t = v
    BY <1>5, <2>1, <2>2, <2>4 DEF AcmIInv, StreamsOK
  <2> QED
    BY <1>5, <2>3, <2>4 DEF StreamsOK
<1>8. IdsOK' /\ ProbeOK'
  BY <1>1 DEF AcmIInv, IdsOK, ProbeOK
<1> QED
  BY <1>4, <1>5, <1>6, <1>7, <1>8 DEF AcmIInv

-----------------------------------------------------------------------------
(* Stream headers *)

\* What only concerns the header of an open stream.
LEMMA HeaderSet ==
  ASSUME AcmIInv, NEW s \in OpenStreams, NEW h \in Header, NEW t \in HeaderBuffers \cup {None},
         header' = [header EXCEPT ![s] = h], told' = [told EXCEPT ![s] = t],
         "prepared" \in h.status /\ h.prepared # None => t = h.prepared,
         UNCHANGED <<ids, list, id, live, hics, streams, probe, codecs>>
  PROVE  AcmIInv'
<1>1. OpenStreams' = OpenStreams /\ s \in StreamHandles /\ HeadersOK
  BY DEF AcmIInv, OpenStreams
<1>2. /\ header' \in [StreamHandles -> Header \cup {None}] /\ told' \in [StreamHandles -> HeaderBuffers \cup {None}]
      /\ header'[s] = h /\ told'[s] = t
      /\ \A u \in StreamHandles : u # s => header'[u] = header[u] /\ told'[u] = told[u]
  BY <1>1 DEF HeadersOK
<1>3. HeadersOK'
  BY <1>1, <1>2 DEF HeadersOK, OpenStreams
<1>4. ListsOK' /\ StreamsOK' /\ CountOK'
  BY ListsKept, StreamsKept, CountKept DEF AcmIInv
<1> QED
  BY <1>3, <1>4 DEF AcmIInv, IdsOK, HandlesOK, ProbeOK

\* The calls on a header tell the driver of the memory they mark as prepared.
LEMMA HeaderAcm ==
  ASSUME AcmIInv, NEW s \in StreamHandles,
         \/ \E b \in HeaderBuffers : Acm!SetHeader(s, b)
         \/ Acm!acmStreamPrepareHeader(s) \/ Acm!acmStreamConvert(s) \/ Acm!acmStreamUnprepareHeader(s)
  PROVE  AcmIInv'
<1>1. s \in OpenStreams /\ UNCHANGED <<ids, list, id, live, hics, streams, probe, codecs>>
  BY DEF Acm!SetHeader, Acm!acmStreamPrepareHeader, Acm!acmStreamConvert, Acm!acmStreamUnprepareHeader, Acm!OfStream,
         Acm!headerOnly, Acm!drivers, OpenStreams
<1>2. PICK h : h = header[s]
  OBVIOUS
<1>3. PICK t : t = told[s]
  OBVIOUS
<1>4. /\ h \in Header /\ t \in HeaderBuffers \cup {None} /\ ("prepared" \in h.status /\ h.prepared # None => t = h.prepared)
      /\ header = [header EXCEPT ![s] = h] /\ told = [told EXCEPT ![s] = t] /\ s \in StreamHandles
  BY <1>1, <1>2, <1>3 DEF AcmIInv, HeadersOK, OpenStreams
<1>5. CASE UNCHANGED <<header, told>>
  BY <1>1, <1>4, <1>5, HeaderSet
<1>6. ASSUME NEW b \in HeaderBuffers, Acm!SetHeader(s, b) PROVE AcmIInv'
  <2>1. header' = [header EXCEPT ![s].now = b] /\ told' = told
    BY <1>6 DEF Acm!SetHeader
  <2>2. PICK g : g = [h EXCEPT !.now = b]
    OBVIOUS
  <2>3. g \in Header /\ g.status = h.status /\ g.prepared = h.prepared
    BY <1>4, <2>2 DEF Header
  <2>4. header' = [header EXCEPT ![s] = g]
    BY <1>2, <2>1, <2>2
  <2>5. told' = [told EXCEPT ![s] = t]
    BY <1>4, <2>1
  <2> QED
    BY <1>1, <1>4, <2>3, <2>4, <2>5, HeaderSet
<1>7. CASE Acm!acmStreamPrepareHeader(s)
  <2>1. CASE header' = [header EXCEPT ![s].prepared = None] /\ UNCHANGED told
    <3>1. PICK g : g = [h EXCEPT !.prepared = None]
      OBVIOUS
    <3>2. g \in Header /\ g.prepared = None
      BY <1>4, <3>1 DEF Header
    <3>3. header' = [header EXCEPT ![s] = g]
      BY <1>2, <2>1, <3>1
    <3> QED
      BY <1>1, <1>4, <2>1, <3>2, <3>3, HeaderSet
  <2>2. CASE /\ header' = [header EXCEPT ![s].status = {"prepared"}, ![s].prepared = header[s].now]
             /\ told' = [told EXCEPT ![s] = header[s].now]
    <3>1. PICK f : f = [h EXCEPT !.status = {"prepared"}]
      OBVIOUS
    <3>2. PICK g : g = [f EXCEPT !.prepared = h.now]
      OBVIOUS
    <3>3. f \in Header
      BY <1>4, <3>1 DEF Header
    <3>4. h.now \in HeaderBuffers
      BY <1>4 DEF Header
    <3>5. g \in Header /\ g.prepared = h.now
      BY <3>2, <3>3, <3>4 DEF Header
    <3>6. header' = [header EXCEPT ![s] = g]
      BY <1>2, <2>2, <3>1, <3>2
    <3>7. told' = [told EXCEPT ![s] = h.now]
      BY <1>2, <2>2
    <3> QED
      BY <1>1, <3>4, <3>5, <3>6, <3>7, HeaderSet
  <2> QED
    BY <1>7, <2>1, <2>2 DEF Acm!acmStreamPrepareHeader
<1>8. CASE Acm!acmStreamConvert(s)
  <2>1. CASE header' = header
    BY <1>5, <1>8, <2>1 DEF Acm!acmStreamConvert
  <2>2. CASE header' = [header EXCEPT ![s].status = @ \cup {"done"}]
    <3>1. PICK g : g = [h EXCEPT !.status = h.status \cup {"done"}]
      OBVIOUS
    <3>2. h.status \cup {"done"} \in SUBSET {"prepared", "done"}
      BY <1>4 DEF Header
    <3>3. g \in Header /\ g.prepared = h.prepared /\ g.status = h.status \cup {"done"}
      BY <1>4, <3>1, <3>2 DEF Header
    <3>4. "prepared" \in g.status => "prepared" \in h.status
      BY <3>3
    <3>5. header' = [header EXCEPT ![s] = g]
      BY <1>2, <2>2, <3>1
    <3>6. told' = told
      BY <1>8 DEF Acm!acmStreamConvert
    <3> QED
      BY <1>1, <1>4, <3>3, <3>4, <3>5, <3>6, HeaderSet
  <2> QED
    BY <1>8, <2>1, <2>2 DEF Acm!acmStreamConvert
<1>9. CASE Acm!acmStreamUnprepareHeader(s)
  <2>1. CASE UNCHANGED <<header, told>>
    BY <1>5, <2>1
  <2>2. CASE header' = [header EXCEPT ![s].status = {}] /\ told' = [told EXCEPT ![s] = None]
    <3>1. PICK g : g = [h EXCEPT !.status = {}]
      OBVIOUS
    <3>2. g \in Header /\ g.status = {}
      BY <1>4, <3>1 DEF Header
    <3>3. header' = [header EXCEPT ![s] = g]
      BY <1>2, <2>2, <3>1
    <3> QED
      BY <1>1, <2>2, <3>2, <3>3, HeaderSet
  <2> QED
    BY <1>9, <2>1, <2>2 DEF Acm!acmStreamUnprepareHeader
<1> QED
  BY <1>6, <1>7, <1>8, <1>9

\* Every call of the drivers keeps the invariant.
LEMMA AcmNext == AcmIInv /\ [Acm!Next]_acmVars => AcmIInv'
<1> SUFFICES ASSUME AcmIInv, [Acm!Next]_acmVars PROVE AcmIInv'
  OBVIOUS
<1>1. CASE UNCHANGED acmVars
  BY <1>1, AskedAcm DEF acmVars
<1>2. CASE Acm!acmDriverAddA \/ Acm!ProbeOpenFails \/ Acm!ProbeEnds
  <2>1. CASE Acm!acmDriverAddA
    BY <2>1, AskedAcm DEF Acm!acmDriverAddA, Acm!drivers
  <2> QED
    BY <1>2, <2>1, ProbeStepAcm
<1>3. ASSUME NEW i \in Records, \/ Acm!acmDriverRemove(i)
                                \/ \E tag \in WaveTags : Acm!MSACM_RegisterDriver(i, tag)
                                \/ \E d \in Drivers : Acm!acmDriverOpen(d, i)
      PROVE  AcmIInv'
  BY <1>3, UnregisterAcm, RegisterAcm, DriverOpenAcm DEF Acm!acmDriverRemove
<1>4. ASSUME NEW d \in Drivers,
             \/ Acm!ICOpen(d) \/ Acm!ICGetInfo(d) \/ Acm!ICCompress(d) \/ Acm!ICDecompress(d) \/ Acm!ICDecompressEx(d)
             \/ Acm!ICUniversalEx(d) \/ Acm!ICClose(d) \/ Acm!acmDriverClose(d) \/ Acm!acmDriverMessage(d)
             \/ Acm!ProbeRefused(d) \/ Acm!ProbeAnswered(d) \/ Acm!ProbeTaken(d)
             \/ \E s \in StreamHandles : Acm!acmStreamOpen(s, d)
      PROVE  AcmIInv'
  <2>1. CASE Acm!ICSendMessage(d) \/ Acm!acmDriverMessage(d)
    BY <2>1, AskedAcm DEF Acm!ICSendMessage, Acm!acmDriverMessage, Acm!drivers
  <2>2. CASE Acm!ICOpen(d) \/ Acm!ICClose(d)
    BY <2>2, ICOpenAcm, ICCloseAcm
  <2>3. CASE Acm!ProbeRefused(d) \/ Acm!ProbeAnswered(d) \/ Acm!ProbeTaken(d)
    BY <2>3, ProbeStepAcm, ProbeTakenAcm
  <2>4. CASE Acm!acmDriverClose(d) \/ \E s \in StreamHandles : Acm!acmStreamOpen(s, d)
    BY <2>4, DriverCloseAcm, StreamOpenAcm
  <2> QED
    BY <1>4, <2>1, <2>2, <2>3, <2>4
    DEF Acm!ICGetInfo, Acm!ICCompress, Acm!ICDecompress, Acm!ICDecompressEx, Acm!ICUniversalEx
<1>5. ASSUME NEW s \in StreamHandles,
             \/ \E tag \in WaveTags : Acm!StreamProbe(s, tag)
             \/ \E b \in HeaderBuffers : Acm!SetHeader(s, b)
             \/ Acm!acmStreamClose(s) \/ Acm!acmStreamPrepareHeader(s) \/ Acm!acmStreamConvert(s)
             \/ Acm!acmStreamUnprepareHeader(s) \/ Acm!acmStreamSize(s) \/ Acm!acmStreamReset(s)
      PROVE  AcmIInv'
  <2>1. CASE Acm!acmStreamSize(s) \/ Acm!acmStreamReset(s)
    BY <2>1, AskedAcm DEF Acm!acmStreamSize, Acm!acmStreamReset, Acm!headerOnly, Acm!drivers
  <2> QED
    BY <1>5, <2>1, ProbeStartAcm, HeaderAcm, StreamCloseAcm
<1>6. CASE Acm!Next
  <2>1. CASE \E i \in Records : \/ Acm!acmDriverRemove(i)
                                \/ \E tag \in WaveTags : Acm!MSACM_RegisterDriver(i, tag)
                                \/ \E d \in Drivers : Acm!acmDriverOpen(d, i)
    BY <1>3, <2>1, Zenon
  <2>2. CASE \E d \in Drivers :
               \/ Acm!ICOpen(d) \/ Acm!ICGetInfo(d) \/ Acm!ICCompress(d) \/ Acm!ICDecompress(d) \/ Acm!ICDecompressEx(d)
               \/ Acm!ICUniversalEx(d) \/ Acm!ICClose(d) \/ Acm!acmDriverClose(d) \/ Acm!acmDriverMessage(d)
               \/ Acm!ProbeRefused(d) \/ Acm!ProbeAnswered(d) \/ Acm!ProbeTaken(d)
               \/ \E s \in StreamHandles : Acm!acmStreamOpen(s, d)
    BY <1>4, <2>2
  <2>3. CASE \E s \in StreamHandles :
               \/ \E tag \in WaveTags : Acm!StreamProbe(s, tag)
               \/ \E b \in HeaderBuffers : Acm!SetHeader(s, b)
               \/ Acm!acmStreamClose(s) \/ Acm!acmStreamPrepareHeader(s) \/ Acm!acmStreamConvert(s)
               \/ Acm!acmStreamUnprepareHeader(s) \/ Acm!acmStreamSize(s) \/ Acm!acmStreamReset(s)
    BY <1>5, <2>3
  <2> QED
    BY <1>2, <1>6, <2>1, <2>2, <2>3 DEF Acm!Next
<1> QED
  BY <1>1, <1>6

-----------------------------------------------------------------------------
(* The registry: where records lie in the file *)

Cell == RegValue \X Nat

\* The cells in front of each record of a sequence, and of all of them.
Offs(off, rs) ==
  /\ off \in [0..Len(rs) -> Nat] /\ off[0] = 0
  /\ \A i \in 1..Len(rs) : off[i] = off[i - 1] + 1 + Len(rs[i].value)

\* A record lies behind o cells, and the first n records each behind those before it.
LiesAt(cells, r, o) ==
  /\ o + 1 + Len(r.value) <= Len(cells)
  /\ \A k \in 1..(1 + Len(r.value)) : cells[o + k] = <<r, k>>
Laid(cells, rs, off, n) == \A i \in 1..n : LiesAt(cells, rs[i], off[i - 1])

\* What holds of zero, and of each next number as well, holds up to n.
LEMMA UpTo ==
  ASSUME NEW n \in Nat, NEW S, 0 \in S, \A i \in 0..(n - 1) : i \in S => i + 1 \in S
  PROVE  \A i \in 0..n : i \in S
<1> DEFINE T == {i \in 0..n : i \notin S}
<1> SUFFICES ASSUME T # {} PROVE FALSE
  OBVIOUS
<1>1. PICK m \in T : \A k \in T : m <= k
  <2>1. T \in SUBSET Nat
    OBVIOUS
  <2> HIDE DEF T
  <2> QED
    BY <2>1, LeastOf
<1>2. m # 0 /\ m \in 0..n /\ m \notin S
  BY <1>1
<1>3. m - 1 \in 0..(n - 1) /\ m - 1 \in S
  BY <1>1, <1>2
<1> QED
  BY <1>1, <1>3

\* The cells of a record are a sequence.
LEMMA CellsOfRecord ==
  ASSUME NEW r \in RegValue
  PROVE  /\ Len(r.value) \in Nat /\ Reg!CellsOf(r) \in Seq(Cell) /\ Len(Reg!CellsOf(r)) = 1 + Len(r.value)
         /\ \A k \in 1..(1 + Len(r.value)) : Reg!CellsOf(r)[k] = <<r, k>>
<1>1. Len(r.value) \in Nat
  BY DEF RegValue
<1> DEFINE n == 1 + Len(r.value)
<1>2. \A k \in 1..n : <<r, k>> \in Cell
  BY <1>1 DEF Cell
<1>3. n \in Nat
  BY <1>1
<1>4. Reg!CellsOf(r) = [k \in 1..n |-> <<r, k>>]
  BY DEF Reg!CellsOf
<1> HIDE DEF n
<1>5. Reg!CellsOf(r) \in Seq(Cell) /\ Len(Reg!CellsOf(r)) = n /\ \A k \in 1..n : Reg!CellsOf(r)[k] = <<r, k>>
  BY <1>2, <1>3, <1>4
<1> QED
  BY <1>1, <1>5 DEF n

\* The cells of records are those of each behind those of the ones before it.
LEMMA CellsExist ==
  ASSUME NEW n \in Nat, NEW c \in [1..n -> Seq(Cell)]
  PROVE  \E f \in [0..n -> Seq(Cell)] : f[0] = <<>> /\ \A i \in 1..n : f[i] = f[i - 1] \o c[i]
<1> DEFINE P == {m \in 0..n : \E g \in [0..m -> Seq(Cell)] : g[0] = <<>> /\ \A i \in 1..m : g[i] = g[i - 1] \o c[i]}
<1>1. 0 \in P
  <2> DEFINE g == [i \in 0..0 |-> <<>>]
  <2>1. g \in [0..0 -> Seq(Cell)] /\ g[0] = <<>> /\ \A i \in 1..0 : g[i] = g[i - 1] \o c[i]
    OBVIOUS
  <2>2. 0 \in 0..n
    OBVIOUS
  <2> QED
    BY <2>1, <2>2
<1>2. ASSUME NEW m \in 0..(n - 1), m \in P PROVE m + 1 \in P
  <2>1. PICK g \in [0..m -> Seq(Cell)] : g[0] = <<>> /\ \A i \in 1..m : g[i] = g[i - 1] \o c[i]
    BY <1>2
  <2> DEFINE e == g[m] \o c[m + 1]
             h == [i \in 0..(m + 1) |-> IF i <= m THEN g[i] ELSE e]
  <2>2. g[m] \in Seq(Cell) /\ c[m + 1] \in Seq(Cell)
    BY <2>1
  <2>3. e \in Seq(Cell)
    BY <2>2
  <2> HIDE DEF e
  <2>4. h \in [0..(m + 1) -> Seq(Cell)] /\ h[0] = <<>>
    BY <2>1, <2>3
  <2>5. ASSUME NEW i \in 1..(m + 1) PROVE h[i] = h[i - 1] \o c[i]
    <3>1. CASE i <= m
      <4>1. h[i] = g[i] /\ h[i - 1] = g[i - 1] /\ i \in 1..m
        BY <3>1
      <4> QED
        BY <2>1, <4>1
    <3>2. CASE i = m + 1
      <4>1. h[i] = e /\ h[i - 1] = g[m]
        BY <3>2
      <4> QED
        BY <3>2, <4>1 DEF e
    <3>3. i <= m \/ i = m + 1
      OBVIOUS
    <3> QED
      BY ONLY <3>1, <3>2, <3>3
  <2> HIDE DEF h
  <2>6. m + 1 \in 0..n
    OBVIOUS
  <2> QED
    BY <2>4, <2>5, <2>6
<1>3. n \in P
  <2> HIDE DEF P
  <2>1. \A i \in 0..n : i \in P
    BY <1>1, <1>2, UpTo
  <2> QED
    BY <2>1
<1> QED
  BY <1>3

LEMMA CellsAre ==
  ASSUME NEW rs \in Seq(RegValue)
  PROVE  \E f \in [0..Len(rs) -> Seq(Cell)] :
           f[0] = <<>> /\ (\A i \in 1..Len(rs) : f[i] = f[i - 1] \o Reg!CellsOf(rs[i])) /\ Reg!Cells(rs) = f[Len(rs)]
<1> DEFINE n == Len(rs)
<1>1. n \in Nat /\ \A i \in 1..n : rs[i] \in RegValue
  OBVIOUS
<1>2. PICK c \in [1..n -> Seq(Cell)] : \A i \in 1..n : c[i] = Reg!CellsOf(rs[i])
  <2> DEFINE d == [i \in 1..n |-> Reg!CellsOf(rs[i])]
  <2>1. d \in [1..n -> Seq(Cell)] /\ \A i \in 1..n : d[i] = Reg!CellsOf(rs[i])
    BY <1>1, CellsOfRecord
  <2> QED
    BY <2>1
<1>3. PICK g \in [0..n -> Seq(Cell)] : g[0] = <<>> /\ \A i \in 1..n : g[i] = g[i - 1] \o c[i]
  BY <1>1, <1>2, CellsExist
<1>4. ASSUME NEW i \in 0..n PROVE g[i] = IF i = 0 THEN <<>> ELSE g[i - 1] \o Reg!CellsOf(rs[i])
  <2>1. CASE i = 0
    BY <1>3, <2>1
  <2>2. CASE i # 0
    <3>1. i \in 1..n
      BY <1>1, <2>2
    <3> QED
      BY <1>2, <1>3, <2>2, <3>1, Zenon
  <2> QED
    BY <2>1, <2>2
<1>5. g = [i \in 0..Len(rs) |-> IF i = 0 THEN <<>> ELSE g[i - 1] \o Reg!CellsOf(rs[i])]
  BY <1>4
<1>6. PICK f : /\ f = [i \in 0..Len(rs) |-> IF i = 0 THEN <<>> ELSE f[i - 1] \o Reg!CellsOf(rs[i])]
               /\ Reg!Cells(rs) = f[Len(rs)]
  <2> DEFINE e == CHOOSE f : f = [i \in 0..Len(rs) |-> IF i = 0 THEN <<>> ELSE f[i - 1] \o Reg!CellsOf(rs[i])]
  <2>1. e = [i \in 0..Len(rs) |-> IF i = 0 THEN <<>> ELSE e[i - 1] \o Reg!CellsOf(rs[i])]
    BY <1>5, Zenon
  <2>2. Reg!Cells(rs) = e[Len(rs)]
    BY Zenon DEF Reg!Cells
  <2> QED
    BY <2>1, <2>2, Zenon
<1>7. f[0] = <<>> /\ \A i \in 1..n : f[i] = f[i - 1] \o Reg!CellsOf(rs[i])
  <2>1. 0 \in 0..Len(rs) /\ \A i \in 1..Len(rs) : i \in 0..Len(rs) /\ i # 0
    BY <1>1
  <2>2. f[0] = <<>>
    BY <1>6, <2>1, Zenon
  <2>3. \A i \in 1..Len(rs) : f[i] = f[i - 1] \o Reg!CellsOf(rs[i])
    BY <1>6, <2>1, Zenon
  <2> QED
    BY <2>2, <2>3
<1> DEFINE P == {i \in 0..n : f[i] = g[i]}
<1>8. 0 \in P /\ \A i \in 0..(n - 1) : i \in P => i + 1 \in P
  <2>1. 0 \in P
    BY <1>1, <1>3, <1>7
  <2>2. ASSUME NEW i \in 0..(n - 1), i \in P PROVE i + 1 \in P
    <3>1. i + 1 \in 1..n /\ i + 1 \in 0..n /\ (i + 1) - 1 = i
      BY <1>1
    <3>2. f[i + 1] = g[i + 1]
      BY <1>2, <1>3, <1>7, <2>2, <3>1
    <3> QED
      BY <3>1, <3>2
  <2> QED
    BY <2>1, <2>2
<1>9. n \in P
  <2> HIDE DEF P, n
  <2>1. \A i \in 0..n : i \in P
    BY <1>1, <1>8, UpTo
  <2> QED
    BY <1>1, <2>1
<1> QED
  BY <1>1, <1>2, <1>3, <1>6, <1>9
\* The places of records depend on their lengths alone,
LEMMA OffsOnce ==
  ASSUME NEW rs \in Seq(RegValue), NEW rt \in Seq(RegValue), NEW o, Offs(o, rs), NEW p, Offs(p, rt),
         NEW n \in Nat, n <= Len(rs), n <= Len(rt), \A i \in 1..n : Len(rs[i].value) = Len(rt[i].value)
  PROVE  \A i \in 0..n : o[i] = p[i]
<1> DEFINE P == {i \in 0..n : o[i] = p[i]}
<1>1. 0 \in P
  BY DEF Offs
<1>2. ASSUME NEW i \in 0..(n - 1), i \in P PROVE i + 1 \in P
  <2>1. i + 1 \in 1..n /\ i + 1 \in 1..Len(rs) /\ i + 1 \in 1..Len(rt) /\ i + 1 \in 0..n /\ (i + 1) - 1 = i
    OBVIOUS
  <2>2. o[i + 1] = o[i] + 1 + Len(rs[i + 1].value) /\ p[i + 1] = p[i] + 1 + Len(rt[i + 1].value)
    BY <2>1 DEF Offs
  <2>3. o[i] = p[i] /\ Len(rs[i + 1].value) = Len(rt[i + 1].value)
    BY <1>2, <2>1
  <2> QED
    BY <2>1, <2>2, <2>3
<1> HIDE DEF P
<1>3. \A i \in 0..n : i \in P
  BY <1>1, <1>2, UpTo
<1> QED
  BY <1>3 DEF P

LEMMA OffsNat ==
  ASSUME NEW rs \in Seq(RegValue), NEW o, Offs(o, rs), NEW i \in 0..Len(rs)
  PROVE  o[i] \in Nat
BY DEF Offs

\* and grow.
LEMMA OffsGrow ==
  ASSUME NEW rs \in Seq(RegValue), NEW o, Offs(o, rs), NEW j \in 0..Len(rs)
  PROVE  \A i \in 0..Len(rs) : j <= i => o[j] <= o[i]
<1> DEFINE n == Len(rs)
           P == {i \in 0..n : j <= i => o[j] <= o[i]}
<1>1. n \in Nat /\ (\A i \in 1..n : Len(rs[i].value) \in Nat) /\ \A i \in 0..n : o[i] \in Nat
  <2>1. \A i \in 1..n : rs[i] \in RegValue
    OBVIOUS
  <2>2. \A i \in 1..n : Len(rs[i].value) \in Nat
    BY <2>1, CellsOfRecord
  <2>3. n \in Nat
    OBVIOUS
  <2>4. \A i \in 0..n : o[i] \in Nat
    BY <2>3 DEF Offs
  <2> QED
    BY <2>2, <2>3, <2>4
<1>2. 0 \in P
  BY <1>1
<1>3. ASSUME NEW i \in 0..(n - 1), i \in P PROVE i + 1 \in P
  <2>1. i + 1 \in 1..n /\ i + 1 \in 0..n /\ (i + 1) - 1 = i /\ i \in 0..n
    BY <1>1
  <2>2. o[i + 1] = o[i] + 1 + Len(rs[i + 1].value)
    BY <2>1 DEF Offs
  <2>3. Len(rs[i + 1].value) \in Nat /\ o[i] \in Nat /\ o[i + 1] \in Nat /\ o[j] \in Nat /\ j \in Nat
    BY <1>1, <2>1
  <2>4. j <= i + 1 => o[j] <= o[i + 1]
    <3>1. CASE j <= i
      BY <1>3, <2>2, <2>3, <3>1
    <3>2. CASE j = i + 1
      BY <2>3, <3>2
    <3> QED
      BY <2>1, <2>3, <3>1, <3>2
  <2> QED
    BY <2>1, <2>4
<1> HIDE DEF P, n
<1>4. \A i \in 0..n : i \in P
  BY <1>1, <1>2, <1>3, UpTo
<1> QED
  BY <1>4 DEF P, n

\* A cell of a record is behind those in front of it.
LEMMA CellBehind ==
  ASSUME NEW o \in Nat, NEW w \in Nat, NEW m \in Nat, o + 1 + w <= m, NEW k \in 1..(1 + w)
  PROVE  o + k \in 1..m /\ o + k > o
OBVIOUS

\* What lies in cells lies in longer ones that begin with them.
LEMMA LiesLonger ==
  ASSUME NEW c \in Seq(Cell), NEW d \in Seq(Cell), NEW r \in RegValue, NEW o \in Nat, LiesAt(c, r, o),
         Len(c) <= Len(d), \A k \in 1..Len(c) : d[k] = c[k]
  PROVE  LiesAt(d, r, o)
<1> PICK w \in Nat, m \in Nat, n \in Nat : w = Len(r.value) /\ m = Len(c) /\ n = Len(d)
  BY CellsOfRecord
<1>1. o + 1 + w <= m /\ \A k \in 1..(1 + w) : c[o + k] = <<r, k>>
  BY DEF LiesAt
<1>2. ASSUME NEW k \in 1..(1 + w) PROVE d[o + k] = <<r, k>>
  <2>1. o + 1 + w <= m
    BY <1>1
  <2>2. o + k \in 1..m
    BY <2>1, CellBehind
  <2> QED
    BY <1>1, <2>2
<1>3. o + 1 + w <= n
  BY <1>1
<1> QED
  BY <1>2, <1>3 DEF LiesAt

\* A sequence behind another.
LEMMA Joined ==
  ASSUME NEW S, NEW c \in Seq(S), NEW x \in Seq(S)
  PROVE  /\ c \o x \in Seq(S) /\ Len(c \o x) = Len(c) + Len(x) /\ Len(c) \in Nat /\ Len(x) \in Nat
         /\ \A k \in 1..Len(c) : (c \o x)[k] = c[k]
         /\ \A k \in 1..Len(x) : (c \o x)[Len(c) + k] = x[k]
OBVIOUS

\* The cells of records hold each where it belongs.
LEMMA CellsLaid ==
  ASSUME NEW rs \in Seq(RegValue)
  PROVE  /\ Reg!Cells(rs) \in Seq(Cell)
         /\ \E o : Offs(o, rs) /\ Len(Reg!Cells(rs)) = o[Len(rs)] /\ Laid(Reg!Cells(rs), rs, o, Len(rs))
<1> DEFINE n == Len(rs)
<1>1. n \in Nat /\ \A i \in 1..n : rs[i] \in RegValue
  OBVIOUS
<1>2. PICK f \in [0..n -> Seq(Cell)] :
        f[0] = <<>> /\ (\A i \in 1..n : f[i] = f[i - 1] \o Reg!CellsOf(rs[i])) /\ Reg!Cells(rs) = f[n]
  BY CellsAre
<1>3. ASSUME NEW i \in 1..n
      PROVE  /\ f[i - 1] \in Seq(Cell) /\ f[i] \in Seq(Cell) /\ Len(f[i]) = Len(f[i - 1]) + 1 + Len(rs[i].value)
             /\ Len(f[i - 1]) \in Nat /\ \A k \in 1..Len(f[i - 1]) : f[i][k] = f[i - 1][k]
             /\ LiesAt(f[i], rs[i], Len(f[i - 1]))
  <2> PICK r \in RegValue : r = rs[i]
    BY <1>1
  <2> PICK c \in Seq(Cell) : c = f[i - 1]
    <3>1. i - 1 \in 0..n
      BY <1>1
    <3> QED
      BY <3>1
  <2> PICK x \in Seq(Cell) : x = Reg!CellsOf(r)
    BY CellsOfRecord
  <2>1. Len(r.value) \in Nat /\ Len(x) = 1 + Len(r.value) /\ \A k \in 1..(1 + Len(r.value)) : x[k] = <<r, k>>
    BY CellsOfRecord
  <2>2. f[i] = c \o x
    BY <1>2
  <2>3. /\ f[i] \in Seq(Cell) /\ Len(f[i]) = Len(c) + 1 + Len(r.value) /\ Len(c) \in Nat
        /\ \A k \in 1..Len(c) : f[i][k] = c[k]
        /\ \A k \in 1..(1 + Len(r.value)) : f[i][Len(c) + k] = <<r, k>>
    BY <2>1, <2>2, Joined
  <2>4. LiesAt(f[i], r, Len(c))
    BY <2>1, <2>3 DEF LiesAt
  <2> QED
    BY <2>3, <2>4
<1> DEFINE o == [i \in 0..n |-> Len(f[i])]
<1>4. Offs(o, rs)
  <2>1. o \in [0..n -> Nat] /\ o[0] = 0
    BY <1>1, <1>2
  <2>2. ASSUME NEW i \in 1..n PROVE o[i] = o[i - 1] + 1 + Len(rs[i].value)
    <3>1. i \in 0..n /\ i - 1 \in 0..n
      BY <1>1
    <3> QED
      BY <1>3, <3>1
  <2> QED
    BY <2>1, <2>2 DEF Offs
<1> DEFINE P == {m \in 0..n : Laid(f[m], rs, o, m)}
<1>5. 0 \in P
  BY <1>1 DEF Laid
<1>6. ASSUME NEW m \in 0..(n - 1), m \in P PROVE m + 1 \in P
  <2>1. m + 1 \in 1..n /\ m + 1 \in 0..n /\ (m + 1) - 1 = m
    BY <1>1
  <2>2. /\ f[m] \in Seq(Cell) /\ f[m + 1] \in Seq(Cell) /\ LiesAt(f[m + 1], rs[m + 1], Len(f[m]))
        /\ Len(f[m]) <= Len(f[m + 1]) /\ \A k \in 1..Len(f[m]) : f[m + 1][k] = f[m][k]
    <3>1. Len(rs[m + 1].value) \in Nat
      BY <1>1, <2>1, CellsOfRecord
    <3> HIDE DEF P, o, n
    <3>2. /\ f[m] \in Seq(Cell) /\ f[m + 1] \in Seq(Cell) /\ Len(f[m + 1]) = Len(f[m]) + 1 + Len(rs[m + 1].value)
          /\ Len(f[m]) \in Nat /\ \A k \in 1..Len(f[m]) : f[m + 1][k] = f[m][k]
          /\ LiesAt(f[m + 1], rs[m + 1], Len(f[m]))
      BY <1>3, <2>1
    <3>3. Len(f[m]) <= Len(f[m + 1])
      <4>1. \A a, b \in Nat : a <= a + 1 + b
        OBVIOUS
      <4> QED
        BY ONLY <3>1, <3>2, <4>1, Zenon
    <3> QED
      BY ONLY <3>2, <3>3
  <2>3. ASSUME NEW i \in 1..(m + 1) PROVE LiesAt(f[m + 1], rs[i], o[i - 1])
    <3>1. CASE i = m + 1
      <4>1. o[i - 1] = Len(f[m])
        BY <2>1, <3>1
      <4> QED
        BY <2>2, <3>1, <4>1
    <3>2. CASE i # m + 1
      <4>1. i \in 1..m /\ i - 1 \in 0..n /\ rs[i] \in RegValue
        BY <1>1, <3>2
      <4>2. LiesAt(f[m], rs[i], o[i - 1]) /\ o[i - 1] \in Nat
        BY <1>4, <1>6, <4>1 DEF Laid, Offs
      <4> HIDE DEF o
      <4> QED
        BY <2>2, <4>1, <4>2, LiesLonger
    <3> QED
      BY <3>1, <3>2
  <2> QED
    BY <2>1, <2>3 DEF Laid
<1>7. n \in P
  <2> HIDE DEF P, n
  <2>1. \A m \in 0..n : m \in P
    BY <1>1, <1>5, <1>6, UpTo
  <2> QED
    BY <1>1, <2>1
<1>8. Reg!Cells(rs) = f[n] /\ f[n] \in Seq(Cell) /\ o[n] = Len(f[n]) /\ Laid(f[n], rs, o, n)
  BY <1>1, <1>2, <1>7
<1> HIDE DEF o
<1> QED
  BY <1>4, <1>8

\* Reading: the records that were read and the cell of the next.
Read == [got : Seq(RegValue), cell : Nat]
NextRead(f, p) ==
  IF p.cell = 0 \/ p.cell > Len(f.cells) THEN [p EXCEPT !.cell = 0]
  ELSE LET r == f.cells[p.cell][1]
           end == p.cell + Len(r.value) IN
       IF end <= Len(f.cells) /\ SubSeq(f.cells, p.cell, end) = Reg!CellsOf(r)
       THEN [got |-> Append(p.got, r), cell |-> end + 1] ELSE [p EXCEPT !.cell = 0]
RegFile == [size : Nat, cells : Seq(Cell)]

\* Sums in another order.
LEMMA Sums ==
  ASSUME NEW q \in Nat, NEW w \in Nat
  PROVE  (q + w) + 1 = q + 1 + w /\ q + 1 + w \in Nat /\ (q - 1) + 1 = q /\ (q + 1) - 1 = q
OBVIOUS

LEMMA Between ==
  ASSUME NEW a \in Nat, NEW m \in Nat, NEW n \in Nat, a <= m, m <= n
  PROVE  a <= n
OBVIOUS

\* A sequence with one more, the rest of one, and one that is empty.
LEMMA OneMore ==
  ASSUME NEW S, NEW s \in Seq(S), NEW e \in S, NEW n \in Nat, n = Len(s)
  PROVE  /\ Append(s, e) \in Seq(S) /\ Len(Append(s, e)) = n + 1 /\ Append(s, e)[n + 1] = e
         /\ \A i \in 1..n : Append(s, e)[i] = s[i]
BY AppendProperties

LEMMA RestIs ==
  ASSUME NEW S, NEW d \in Seq(S), NEW m \in Nat, m < Len(d)
  PROVE  /\ SubSeq(d, m + 1, Len(d)) \in Seq(S) /\ Len(SubSeq(d, m + 1, Len(d))) = Len(d) - m
         /\ \A k \in 1..(Len(d) - m) : SubSeq(d, m + 1, Len(d))[k] = d[m + k]
OBVIOUS

LEMMA FirstOf ==
  ASSUME NEW S, NEW s \in Seq(S), NEW m \in Nat, m <= Len(s)
  PROVE  /\ SubSeq(s, 1, m) \in Seq(S) /\ Len(SubSeq(s, 1, m)) = m
         /\ \A k \in 1..m : SubSeq(s, 1, m)[k] = s[k]
OBVIOUS

LEMMA NothingIs == ASSUME NEW S PROVE <<>> \in Seq(S) /\ Len(<<>>) = 0
OBVIOUS

\* What a part of a sequence is.
LEMMA PartIs ==
  ASSUME NEW S, NEW c \in Seq(S), NEW x \in Seq(S), NEW q \in Nat \ {0}, NEW w \in Nat, q + w <= Len(c),
         Len(x) = 1 + w, \A k \in 1..(1 + w) : c[(q - 1) + k] = x[k]
  PROVE  SubSeq(c, q, q + w) = x
<1> PICK y : y = SubSeq(c, q, q + w)
  OBVIOUS
<1>1. y \in Seq(S) /\ Len(y) = 1 + w /\ \A k \in 1..(1 + w) : y[k] = c[(q - 1) + k]
  OBVIOUS
<1>2. y = x
  BY <1>1, SeqEqual
<1> QED
  BY <1>2

\* A record that lies in the cells is the one that is read there.
LEMMA LiesIsRead ==
  ASSUME NEW c \in Seq(Cell), NEW q \in Nat \ {0}, NEW r \in RegValue
  PROVE  LiesAt(c, r, q - 1) <=> /\ q <= Len(c) /\ c[q][1] = r /\ q + Len(r.value) <= Len(c)
                                 /\ SubSeq(c, q, q + Len(r.value)) = Reg!CellsOf(r)
<1> PICK w \in Nat, n \in Nat : w = Len(r.value) /\ n = Len(c)
  BY CellsOfRecord
<1> PICK x \in Seq(Cell) : x = Reg!CellsOf(r) /\ Len(x) = 1 + w /\ \A k \in 1..(1 + w) : x[k] = <<r, k>>
  BY CellsOfRecord
<1>1. ASSUME q + w <= n
      PROVE  /\ SubSeq(c, q, q + w) \in Seq(Cell) /\ Len(SubSeq(c, q, q + w)) = 1 + w
             /\ \A k \in 1..(1 + w) : SubSeq(c, q, q + w)[k] = c[(q - 1) + k]
  BY <1>1
<1>2. ASSUME LiesAt(c, r, q - 1)
      PROVE  q <= n /\ c[q][1] = r /\ q + w <= n /\ SubSeq(c, q, q + w) = x
  <2>1. q + w <= n /\ \A k \in 1..(1 + w) : c[(q - 1) + k] = <<r, k>>
    BY <1>2 DEF LiesAt
  <2>2. c[q] = <<r, 1>>
    <3>1. 1 \in 1..(1 + w) /\ (q - 1) + 1 = q
      OBVIOUS
    <3> QED
      BY <2>1, <3>1
  <2>3. SubSeq(c, q, q + w) = x
    <3>1. q + w <= Len(c) /\ Len(x) = 1 + w /\ \A k \in 1..(1 + w) : c[(q - 1) + k] = x[k]
      BY <2>1
    <3> QED
      BY <3>1, PartIs
  <2> QED
    BY <2>1, <2>2, <2>3
<1>3. ASSUME q + w <= n, SubSeq(c, q, q + w) = x
      PROVE  LiesAt(c, r, q - 1)
  <2>1. \A k \in 1..(1 + w) : c[(q - 1) + k] = <<r, k>>
    BY <1>1, <1>3
  <2> QED
    BY <1>3, <2>1 DEF LiesAt
<1> QED
  BY <1>2, <1>3

\* One record more is read, where one lies, or no more.
LEMMA ReadsOne ==
  ASSUME NEW f \in RegFile, NEW p \in Read
  PROVE  /\ \A r \in RegValue : p.cell # 0 /\ LiesAt(f.cells, r, p.cell - 1) =>
              NextRead(f, p) = [got |-> Append(p.got, r), cell |-> p.cell + 1 + Len(r.value)]
         /\ \/ NextRead(f, p) = [got |-> p.got, cell |-> 0]
            \/ \E r \in RegValue : p.cell # 0 /\ LiesAt(f.cells, r, p.cell - 1)
<1> PICK c \in Seq(Cell) : c = f.cells
  BY DEF RegFile
<1> PICK g \in Seq(RegValue), q \in Nat : p = [got |-> g, cell |-> q] /\ p.got = g /\ p.cell = q
  BY DEF Read
<1>1. [p EXCEPT !.cell = 0] = [got |-> g, cell |-> 0]
  OBVIOUS
<1>2. ASSUME NEW r \in RegValue, q # 0, LiesAt(c, r, q - 1)
      PROVE  NextRead(f, p) = [got |-> Append(g, r), cell |-> q + 1 + Len(r.value)]
  <2>1. q <= Len(c) /\ c[q][1] = r /\ q + Len(r.value) <= Len(c) /\ SubSeq(c, q, q + Len(r.value)) = Reg!CellsOf(r)
    <3>1. q \in Nat \ {0} /\ LiesAt(c, r, q - 1)
      BY <1>2
    <3> QED
      BY ONLY <3>1, LiesIsRead, Zenon
  <2>2. ~(q = 0 \/ q > Len(c))
    BY <1>2, <2>1
  <2>3. NextRead(f, p) = [got |-> Append(g, r), cell |-> (q + Len(r.value)) + 1]
    BY <2>1, <2>2 DEF NextRead
  <2>4. (q + Len(r.value)) + 1 = q + 1 + Len(r.value)
    <3>1. Len(r.value) \in Nat
      BY CellsOfRecord
    <3> PICK w \in Nat : w = Len(r.value)
      BY <3>1
    <3>2. (q + w) + 1 = q + 1 + w
      BY Sums
    <3> QED
      BY <3>2
  <2> QED
    BY <2>3, <2>4
<1>3. CASE q = 0 \/ q > Len(c)
  <2>1. NextRead(f, p) = [got |-> g, cell |-> 0]
    BY <1>1, <1>3 DEF NextRead
  <2> QED
    BY <1>2, <2>1
<1>4. CASE q # 0 /\ q <= Len(c)
  <2> PICK r \in RegValue : r = c[q][1]
    <3>1. c[q] \in Cell
      BY <1>4
    <3> QED
      BY <3>1 DEF Cell
  <2>1. CASE q + Len(r.value) <= Len(c) /\ SubSeq(c, q, q + Len(r.value)) = Reg!CellsOf(r)
    <3>1. LiesAt(c, r, q - 1)
      <4>1. q \in Nat \ {0} /\ q <= Len(c) /\ c[q][1] = r
        BY <1>4
      <4> QED
        BY ONLY <2>1, <4>1, LiesIsRead, Zenon
    <3> QED
      BY <1>2, <1>4, <3>1
  <2>2. CASE ~(q + Len(r.value) <= Len(c) /\ SubSeq(c, q, q + Len(r.value)) = Reg!CellsOf(r))
    <3>1. ~(q = 0 \/ q > Len(c))
      BY <1>4
    <3>2. NextRead(f, p) = [got |-> g, cell |-> 0]
      BY <1>1, <2>2, <3>1 DEF NextRead
    <3> QED
      BY <1>2, <3>2
  <2> QED
    BY <2>1, <2>2
<1> QED
  BY <1>3, <1>4

LEMMA NextReadType ==
  ASSUME NEW f \in RegFile, NEW p \in Read
  PROVE  NextRead(f, p) \in Read
<1> PICK g \in Seq(RegValue), q \in Nat : p.got = g /\ p.cell = q
  BY DEF Read
<1>1. CASE NextRead(f, p) = [got |-> g, cell |-> 0]
  BY <1>1 DEF Read
<1>2. ASSUME NEW r \in RegValue, p.cell # 0 /\ LiesAt(f.cells, r, p.cell - 1) PROVE NextRead(f, p) \in Read
  <2>1. NextRead(f, p) = [got |-> Append(g, r), cell |-> q + 1 + Len(r.value)]
    BY <1>2, ReadsOne
  <2>2. Append(g, r) \in Seq(RegValue) /\ Len(r.value) \in Nat
    BY CellsOfRecord
  <2> PICK more \in Seq(RegValue), w \in Nat : more = Append(g, r) /\ w = Len(r.value)
    BY <2>2
  <2>3. q + 1 + w \in Nat
    BY Sums
  <2>4. [got |-> more, cell |-> q + 1 + w] \in Read
    BY <2>3 DEF Read
  <2> QED
    BY <2>1, <2>4
<1> QED
  BY <1>1, <1>2, ReadsOne

\* A file is read record by record.
LEMMA ReadsExist ==
  ASSUME NEW f \in RegFile, NEW n \in Nat
  PROVE  \E a \in [0..n -> Read] : a[0] = [got |-> <<>>, cell |-> 1] /\ \A i \in 1..n : a[i] = NextRead(f, a[i - 1])
<1> DEFINE P == {m \in 0..n : \E a \in [0..m -> Read] :
                   a[0] = [got |-> <<>>, cell |-> 1] /\ \A i \in 1..m : a[i] = NextRead(f, a[i - 1])}
<1>1. 0 \in P
  <2> DEFINE a == [i \in 0..0 |-> [got |-> <<>>, cell |-> 1]]
  <2>1. [got |-> <<>>, cell |-> 1] \in Read
    BY DEF Read
  <2>2. a \in [0..0 -> Read] /\ a[0] = [got |-> <<>>, cell |-> 1]
    BY <2>1
  <2>3. \A i \in 1..0 : a[i] = NextRead(f, a[i - 1])
    OBVIOUS
  <2>4. 0 \in 0..n
    OBVIOUS
  <2> HIDE DEF a
  <2> QED
    BY <2>2, <2>3, <2>4
<1>2. ASSUME NEW m \in 0..(n - 1), m \in P PROVE m + 1 \in P
  <2>1. PICK a \in [0..m -> Read] : a[0] = [got |-> <<>>, cell |-> 1] /\ \A i \in 1..m : a[i] = NextRead(f, a[i - 1])
    BY <1>2
  <2> DEFINE e == NextRead(f, a[m])
             h == [i \in 0..(m + 1) |-> IF i <= m THEN a[i] ELSE e]
  <2>2. a[m] \in Read
    BY <2>1
  <2>3. e \in Read
    BY <2>2, NextReadType
  <2> HIDE DEF e
  <2>4. h \in [0..(m + 1) -> Read] /\ h[0] = [got |-> <<>>, cell |-> 1]
    BY <2>1, <2>3
  <2>5. ASSUME NEW i \in 1..(m + 1) PROVE h[i] = NextRead(f, h[i - 1])
    <3>1. CASE i <= m
      <4>1. h[i] = a[i] /\ h[i - 1] = a[i - 1] /\ i \in 1..m
        BY <3>1
      <4> QED
        BY <2>1, <4>1
    <3>2. CASE i = m + 1
      <4>1. h[i] = e /\ h[i - 1] = a[m]
        BY <3>2
      <4> QED
        BY <3>2, <4>1 DEF e
    <3>3. i <= m \/ i = m + 1
      OBVIOUS
    <3> QED
      BY ONLY <3>1, <3>2, <3>3
  <2> HIDE DEF h
  <2>6. m + 1 \in 0..n
    OBVIOUS
  <2> QED
    BY <2>4, <2>5, <2>6
<1>3. n \in P
  <2> HIDE DEF P
  <2>1. \A i \in 0..n : i \in P
    BY <1>1, <1>2, UpTo
  <2> QED
    BY <2>1
<1> QED
  BY <1>3

LEMMA ReadsAre ==
  ASSUME NEW f \in RegFile, NEW n \in Nat, n = f.size
  PROVE  \E a \in [0..n -> Read] : /\ a[0] = [got |-> <<>>, cell |-> 1]
                                   /\ \A i \in 1..n : a[i] = NextRead(f, a[i - 1])
                                   /\ Reg!ReadBack(f) = a[n]
<1> DEFINE first == [got |-> <<>>, cell |-> 1]
<1>1. PICK a \in [0..n -> Read] : a[0] = first /\ \A i \in 1..n : a[i] = NextRead(f, a[i - 1])
  BY ReadsExist
<1>2. ASSUME NEW i \in 0..n PROVE a[i] = IF i = 0 THEN first ELSE NextRead(f, a[i - 1])
  <2>1. CASE i = 0
    BY <1>1, <2>1
  <2>2. CASE i # 0
    <3>1. i \in 1..n
      BY <2>2
    <3> HIDE DEF first
    <3> QED
      BY <1>1, <2>2, <3>1, Zenon
  <2> QED
    BY <2>1, <2>2
<1>3. a = [i \in 0..f.size |-> IF i = 0 THEN first ELSE NextRead(f, a[i - 1])]
  <2> HIDE DEF first
  <2> QED
    BY <1>2
<1>4. PICK b : /\ b = [i \in 0..f.size |-> IF i = 0 THEN first ELSE NextRead(f, b[i - 1])]
               /\ Reg!ReadBack(f) = b[f.size]
  <2> DEFINE e == CHOOSE b : b = [i \in 0..f.size |-> IF i = 0 THEN first ELSE NextRead(f, b[i - 1])]
  <2>1. e = [i \in 0..f.size |-> IF i = 0 THEN first ELSE NextRead(f, e[i - 1])]
    <3> HIDE DEF first
    <3> QED
      BY <1>3, Zenon
  <2>2. Reg!ReadBack(f) = e[f.size]
    BY Zenon DEF Reg!ReadBack, NextRead
  <2> HIDE DEF first, e
  <2> QED
    BY <2>1, <2>2, Zenon
<1> HIDE DEF first
<1>5. b[0] = first /\ \A i \in 1..n : b[i] = NextRead(f, b[i - 1])
  <2>1. 0 \in 0..f.size /\ \A i \in 1..f.size : i \in 0..f.size /\ i # 0
    OBVIOUS
  <2>2. b[0] = first
    BY <1>4, <2>1, Zenon
  <2>3. \A i \in 1..f.size : b[i] = NextRead(f, b[i - 1])
    BY <1>4, <2>1, Zenon
  <2> QED
    BY <2>2, <2>3
<1> DEFINE P == {i \in 0..n : b[i] = a[i]}
<1>6. 0 \in P /\ \A i \in 0..(n - 1) : i \in P => i + 1 \in P
  <2>1. 0 \in P
    BY <1>1, <1>5
  <2>2. ASSUME NEW i \in 0..(n - 1), i \in P PROVE i + 1 \in P
    <3>1. i + 1 \in 1..n /\ i + 1 \in 0..n /\ (i + 1) - 1 = i
      OBVIOUS
    <3>2. b[i + 1] = a[i + 1]
      BY <1>1, <1>5, <2>2, <3>1
    <3> QED
      BY <3>1, <3>2
  <2> QED
    BY <2>1, <2>2
<1>7. n \in P
  <2> HIDE DEF P
  <2>1. \A i \in 0..n : i \in P
    BY <1>6, UpTo
  <2> QED
    BY <2>1
<1> QED
  BY <1>1, <1>4, <1>7 DEF first

\* A record behind others that lie in the file.
LEMMA LaidMore ==
  ASSUME NEW c \in Seq(Cell), NEW rs \in Seq(RegValue), NEW n \in Nat, n = Len(rs), NEW o, Offs(o, rs), Laid(c, rs, o, n),
         NEW r \in RegValue, LiesAt(c, r, o[n])
  PROVE  \E p : Offs(p, Append(rs, r)) /\ p[n + 1] = o[n] + 1 + Len(r.value) /\ Laid(c, Append(rs, r), p, n + 1)
<1> PICK rt \in Seq(RegValue) : rt = Append(rs, r)
  BY OneMore
<1>1. Len(rt) = n + 1 /\ rt[n + 1] = r /\ \A i \in 1..n : rt[i] = rs[i]
  BY OneMore
<1>2. /\ o \in [0..n -> Nat] /\ o[0] = 0 /\ \A i \in 1..n : o[i] = o[i - 1] + 1 + Len(rs[i].value)
  BY DEF Offs
<1> DEFINE e == o[n] + 1 + Len(r.value)
           p == [i \in 0..(n + 1) |-> IF i <= n THEN o[i] ELSE e]
<1>3. e \in Nat
  <2>1. n \in 0..n
    OBVIOUS
  <2>2. o[n] \in Nat
    BY <1>2, <2>1
  <2>3. Len(r.value) \in Nat
    BY CellsOfRecord
  <2> QED
    BY <2>2, <2>3
<1> HIDE DEF e
<1>4. p \in [0..(n + 1) -> Nat] /\ p[0] = 0 /\ p[n + 1] = e /\ \A i \in 0..n : p[i] = o[i]
  BY <1>2, <1>3
<1> HIDE DEF p
<1>5. ASSUME NEW i \in 1..(n + 1)
      PROVE  p[i] = p[i - 1] + 1 + Len(rt[i].value) /\ LiesAt(c, rt[i], p[i - 1])
  <2>1. CASE i = n + 1
    <3>1. p[i] = e /\ p[i - 1] = o[n] /\ rt[i] = r
      BY <1>1, <1>4, <2>1
    <3> QED
      BY <3>1 DEF e
  <2>2. CASE i # n + 1
    <3>1. i \in 1..n /\ i \in 0..n /\ i - 1 \in 0..n
      BY <2>2
    <3>2. p[i] = o[i] /\ p[i - 1] = o[i - 1] /\ rt[i] = rs[i]
      BY <1>1, <1>4, <3>1
    <3>3. LiesAt(c, rs[i], o[i - 1]) /\ o[i] = o[i - 1] + 1 + Len(rs[i].value)
      BY <1>2, <3>1 DEF Laid
    <3> QED
      BY <3>2, <3>3
  <2> QED
    BY <2>1, <2>2
<1>6. Offs(p, rt)
  BY <1>1, <1>4, <1>5 DEF Offs
<1>7. Laid(c, rt, p, n + 1)
  BY <1>5 DEF Laid
<1> QED
  BY <1>4, <1>6, <1>7 DEF e

\* Records that lie in the file are read from it,
LEMMA LaidAreRead ==
  ASSUME NEW f \in RegFile, NEW rs \in Seq(RegValue), NEW o, Offs(o, rs),
         NEW m \in Nat, m <= Len(rs), m <= f.size, Laid(f.cells, rs, o, m)
  PROVE  /\ Reg!ReadBack(f) \in Read
         /\ Len(Reg!ReadBack(f).got) >= m /\ \A i \in 1..m : Reg!ReadBack(f).got[i] = rs[i]
         /\ m = f.size => Len(Reg!ReadBack(f).got) = m
<1> PICK n \in Nat : n = f.size
  BY DEF RegFile
<1>1. PICK a \in [0..n -> Read] : /\ a[0] = [got |-> <<>>, cell |-> 1]
                                  /\ \A i \in 1..n : a[i] = NextRead(f, a[i - 1])
                                  /\ Reg!ReadBack(f) = a[n]
  BY ReadsAre
<1>2. \A i \in 0..n : a[i] \in Read /\ a[i].got \in Seq(RegValue) /\ a[i].cell \in Nat
  BY DEF Read
<1> DEFINE P == {i \in 0..m : a[i].cell = o[i] + 1 /\ Len(a[i].got) = i /\ \A k \in 1..i : a[i].got[k] = rs[k]}
<1>3. 0 \in P
  BY <1>1 DEF Offs
<1>4. ASSUME NEW i \in 0..(m - 1), i \in P PROVE i + 1 \in P
  <2>1. i + 1 \in 1..n /\ i + 1 \in 0..m /\ i + 1 \in 1..Len(rs) /\ i + 1 \in 1..m /\ (i + 1) - 1 = i /\ i \in 0..n /\ i \in 0..Len(rs)
    OBVIOUS
  <2> PICK r \in RegValue : r = rs[i + 1]
    BY <2>1
  <2> PICK g \in Seq(RegValue) : g = a[i].got
    BY <1>2, <2>1
  <2>2. a[i].cell = o[i] + 1 /\ Len(g) = i /\ \A k \in 1..i : g[k] = rs[k]
    BY <1>4
  <2>3. o[i] \in Nat /\ o[i + 1] = o[i] + 1 + Len(r.value) /\ Len(r.value) \in Nat
    BY <2>1, CellsOfRecord DEF Offs
  <2>4. LiesAt(f.cells, r, o[i])
    BY <2>1 DEF Laid
  <2>5. a[i].cell # 0 /\ a[i].cell - 1 = o[i]
    <3> PICK u \in Nat : u = o[i] /\ a[i].cell = u + 1
      BY <2>2, <2>3
    <3>1. u + 1 # 0 /\ (u + 1) - 1 = u
      OBVIOUS
    <3> QED
      BY <3>1
  <2>6. a[i + 1] = [got |-> Append(g, r), cell |-> a[i].cell + 1 + Len(r.value)]
    <3>1. NextRead(f, a[i]) = [got |-> Append(g, r), cell |-> a[i].cell + 1 + Len(r.value)]
      BY <1>2, <2>1, <2>4, <2>5, ReadsOne
    <3> QED
      BY <1>1, <2>1, <3>1
  <2>7. a[i + 1].cell = o[i + 1] + 1
    BY <2>2, <2>3, <2>6
  <2>8. Len(a[i + 1].got) = i + 1 /\ \A k \in 1..(i + 1) : a[i + 1].got[k] = rs[k]
    BY <2>2, <2>6
  <2> QED
    BY <2>1, <2>7, <2>8
<1>5. m \in P
  <2> HIDE DEF P
  <2>1. \A i \in 0..m : i \in P
    BY <1>3, <1>4, UpTo
  <2> QED
    BY <2>1
<1> DEFINE Q == {i \in 0..n : m <= i => Len(a[i].got) >= m /\ \A k \in 1..m : a[i].got[k] = rs[k]}
<1>6. \A i \in 0..m : i \in 0..n /\ (i = m => i \in Q)
  BY <1>5
<1>7. 0 \in Q
  BY <1>6
<1>8. ASSUME NEW i \in 0..(n - 1), i \in Q PROVE i + 1 \in Q
  <2>1. CASE i + 1 <= m
    BY <1>6, <2>1
  <2>2. CASE m <= i
    <3>1. i + 1 \in 1..n /\ i + 1 \in 0..n /\ (i + 1) - 1 = i /\ i \in 0..n
      OBVIOUS
    <3> PICK g \in Seq(RegValue) : g = a[i].got
      BY <1>2, <3>1
    <3>2. Len(g) >= m /\ \A k \in 1..m : g[k] = rs[k]
      BY <1>8, <2>2
    <3>3. a[i + 1].got = g \/ \E r \in RegValue : a[i + 1].got = Append(g, r)
      <4>1. a[i] \in Read /\ a[i + 1] = NextRead(f, a[i])
        BY <1>1, <3>1
      <4>2. CASE NextRead(f, a[i]) = [got |-> a[i].got, cell |-> 0]
        BY <4>1, <4>2
      <4>3. ASSUME NEW r \in RegValue, a[i].cell # 0 /\ LiesAt(f.cells, r, a[i].cell - 1)
            PROVE  a[i + 1].got = Append(g, r)
        <5>1. NextRead(f, a[i]) = [got |-> Append(a[i].got, r), cell |-> a[i].cell + 1 + Len(r.value)]
          BY <4>1, <4>3, ReadsOne
        <5> QED
          BY <4>1, <5>1
      <4> QED
        BY <4>1, <4>2, <4>3, ReadsOne
    <3>4. \A r \in RegValue : Len(Append(g, r)) >= m /\ \A k \in 1..m : Append(g, r)[k] = g[k]
      BY <3>2
    <3>5. Len(a[i + 1].got) >= m /\ \A k \in 1..m : a[i + 1].got[k] = rs[k]
      <4>1. CASE a[i + 1].got = g
        BY <3>2, <4>1
      <4>2. ASSUME NEW r \in RegValue, a[i + 1].got = Append(g, r)
            PROVE  Len(a[i + 1].got) >= m /\ \A k \in 1..m : a[i + 1].got[k] = rs[k]
        BY <3>2, <3>4, <4>2
      <4> QED
        BY <3>3, <4>1, <4>2
    <3> QED
      BY <3>1, <3>5
  <2> QED
    BY <2>1, <2>2
<1>9. n \in Q
  <2> HIDE DEF Q
  <2>1. \A i \in 0..n : i \in Q
    BY <1>7, <1>8, UpTo
  <2> QED
    BY <2>1
<1> QED
  BY <1>1, <1>2, <1>5, <1>9

\* and records that are read, as many as the file says, lie in it.
LEMMA ReadAreLaid ==
  ASSUME NEW f \in RegFile, NEW n \in Nat, n = f.size, Reg!ReadBack(f).cell # 0
  PROVE  /\ Reg!ReadBack(f).got \in Seq(RegValue) /\ Len(Reg!ReadBack(f).got) = n
         /\ \E o : Offs(o, Reg!ReadBack(f).got) /\ Laid(f.cells, Reg!ReadBack(f).got, o, n)
<1>1. PICK a \in [0..n -> Read] : /\ a[0] = [got |-> <<>>, cell |-> 1]
                                  /\ \A i \in 1..n : a[i] = NextRead(f, a[i - 1])
                                  /\ Reg!ReadBack(f) = a[n]
  BY ReadsAre
<1>2. \A i \in 0..n : a[i] \in Read /\ a[i].got \in Seq(RegValue) /\ a[i].cell \in Nat
  BY DEF Read
<1> PICK c \in Seq(Cell) : c = f.cells
  BY DEF RegFile
<1> DEFINE GotLaid(i) == /\ Len(a[i].got) = i
                      /\ \E o : Offs(o, a[i].got) /\ o[i] = a[i].cell - 1 /\ Laid(c, a[i].got, o, i)
           P == {i \in 0..n : a[i].cell # 0 => GotLaid(i)}
<1>3. 0 \in P
  <2> DEFINE o == [i \in 0..0 |-> 0]
  <2>1. Offs(o, <<>>) /\ o[0] = 0
    BY DEF Offs
  <2>2. Laid(c, <<>>, o, 0)
    BY DEF Laid
  <2> HIDE DEF o
  <2>3. a[0].got = <<>> /\ a[0].cell = 1
    BY <1>1
  <2>4. GotLaid(0)
    BY <2>1, <2>2, <2>3
  <2> HIDE DEF GotLaid
  <2> QED
    BY <2>4
<1>4. ASSUME NEW i \in 0..(n - 1), i \in P PROVE i + 1 \in P
  <2>1. i + 1 \in 1..n /\ i + 1 \in 0..n /\ (i + 1) - 1 = i /\ i \in 0..n /\ i \in Nat
    OBVIOUS
  <2>2. a[i] \in Read /\ a[i + 1] = NextRead(f, a[i])
    BY <1>1, <2>1
  <2>3. CASE a[i + 1].cell = 0
    BY <2>1, <2>3
  <2>4. CASE a[i + 1].cell # 0
    <3>1. NextRead(f, a[i]) # [got |-> a[i].got, cell |-> 0]
      BY <2>2, <2>4
    <3>2. PICK r \in RegValue : a[i].cell # 0 /\ LiesAt(c, r, a[i].cell - 1)
      BY <2>2, <3>1, ReadsOne
    <3>3. NextRead(f, a[i]) = [got |-> Append(a[i].got, r), cell |-> a[i].cell + 1 + Len(r.value)]
      BY <2>2, <3>2, ReadsOne
    <3> PICK g \in Seq(RegValue), q \in Nat : g = a[i].got /\ q = a[i].cell
      BY <1>2, <2>1
    <3>4. a[i + 1].got = Append(g, r) /\ a[i + 1].cell = q + 1 + Len(r.value)
      BY <2>2, <3>3
    <3>5. GotLaid(i)
      <4> HIDE DEF GotLaid
      <4> QED
        BY <1>4, <3>2
    <3>6. PICK o : Len(g) = i /\ Offs(o, g) /\ o[i] = q - 1 /\ Laid(c, g, o, i)
      BY <3>5
    <3>7. PICK p : Offs(p, Append(g, r)) /\ p[i + 1] = o[i] + 1 + Len(r.value) /\ Laid(c, Append(g, r), p, i + 1)
      BY <2>1, <3>2, <3>6, LaidMore
    <3>8. Len(Append(g, r)) = i + 1
      BY <3>6
    <3>9. p[i + 1] = a[i + 1].cell - 1
      <4>1. Len(r.value) \in Nat
        BY CellsOfRecord
      <4> QED
        BY <3>4, <3>6, <3>7, <4>1
    <3>10. GotLaid(i + 1)
      BY <3>4, <3>7, <3>8, <3>9
    <3> HIDE DEF GotLaid
    <3> QED
      BY <2>1, <3>10
  <2> QED
    BY <2>3, <2>4
<1>5. n \in P
  <2> HIDE DEF P
  <2>1. \A i \in 0..n : i \in P
    BY <1>3, <1>4, UpTo
  <2> QED
    BY <2>1
<1>6. GotLaid(n)
  <2> HIDE DEF GotLaid
  <2> QED
    BY <1>1, <1>5
<1>7. n \in 0..n
  OBVIOUS
<1> QED
  BY <1>1, <1>2, <1>6, <1>7

\* The same where they differ only in front of the record.
LEMMA LiesBehind ==
  ASSUME NEW c \in Seq(Cell), NEW d \in Seq(Cell), NEW r \in RegValue, NEW o \in Nat, LiesAt(c, r, o),
         Len(c) <= Len(d), NEW l \in Nat, l <= o, \A k \in 1..Len(c) : k > l => d[k] = c[k]
  PROVE  LiesAt(d, r, o)
<1> PICK w \in Nat, m \in Nat, n \in Nat : w = Len(r.value) /\ m = Len(c) /\ n = Len(d)
  BY CellsOfRecord
<1>1. o + 1 + w <= m /\ \A k \in 1..(1 + w) : c[o + k] = <<r, k>>
  BY DEF LiesAt
<1>2. ASSUME NEW k \in 1..(1 + w) PROVE d[o + k] = <<r, k>>
  <2>1. o + 1 + w <= m
    BY <1>1
  <2>2. o + k \in 1..m /\ o + k > o
    BY <2>1, CellBehind
  <2>3. o + k > l
    BY <2>2
  <2>4. d[o + k] = c[o + k]
    BY <2>2, <2>3
  <2> QED
    BY <1>1, <2>4
<1>3. o + 1 + w <= n
  BY <1>1, Between, Sums
<1> QED
  BY <1>2, <1>3 DEF LiesAt

\* What is written over the cells of the file.
LEMMA OverIs ==
  ASSUME NEW c \in Seq(Cell), NEW d \in Seq(Cell)
  PROVE  /\ Reg!Over(c, d) \in Seq(Cell) /\ Len(c) <= Len(Reg!Over(c, d)) /\ Len(d) <= Len(Reg!Over(c, d))
         /\ \A k \in 1..Len(c) : Reg!Over(c, d)[k] = c[k]
         /\ \A k \in 1..Len(d) : k > Len(c) => Reg!Over(c, d)[k] = d[k]
<1> PICK m \in Nat, n \in Nat : m = Len(c) /\ n = Len(d)
  OBVIOUS
<1>1. CASE m >= n
  <2>1. Reg!Over(c, d) = c
    BY <1>1 DEF Reg!Over
  <2> QED
    BY <1>1, <2>1
<1>2. CASE m < n
  <2>1. m < Len(d)
    BY <1>2
  <2>2. PICK x \in Seq(Cell) : /\ x = SubSeq(d, m + 1, Len(d)) /\ Len(x) = Len(d) - m
                               /\ \A k \in 1..(Len(d) - m) : x[k] = d[m + k]
    <3>1. /\ SubSeq(d, m + 1, Len(d)) \in Seq(Cell) /\ Len(SubSeq(d, m + 1, Len(d))) = Len(d) - m
          /\ \A k \in 1..(Len(d) - m) : SubSeq(d, m + 1, Len(d))[k] = d[m + k]
      BY ONLY <2>1, RestIs, SMT
    <3> QED
      BY ONLY <3>1, Zenon
  <2>3. Reg!Over(c, d) = c \o x
    BY <1>2, <2>2 DEF Reg!Over
  <2>4. /\ c \o x \in Seq(Cell) /\ Len(c \o x) = n
        /\ (\A k \in 1..m : (c \o x)[k] = c[k]) /\ \A k \in 1..(n - m) : (c \o x)[m + k] = x[k]
    BY <1>2, <2>2, Joined
  <2>5. ASSUME NEW k \in 1..n, k > m PROVE (c \o x)[k] = d[k]
    <3>1. k - m \in 1..(n - m) /\ m + (k - m) = k
      BY <2>5
    <3> QED
      BY <2>2, <2>4, <3>1
  <2> QED
    BY <1>2, <2>3, <2>4, <2>5
<1> QED
  BY <1>1, <1>2

-----------------------------------------------------------------------------
(* The registry: what holds of its variables *)

\* A file that holds records, and no more as far as it says.
Whole(f, rs) == f \in RegFile /\ f.size = Len(rs) /\ \E o : Offs(o, rs) /\ Laid(f.cells, rs, o, Len(rs))

NamesDiffer(rs) == \A i \in 1..Len(rs) : \A j \in 1..(i - 1) : rs[j].name # rs[i].name

OpenKey == [handle : Nat, name : Seq(Component)]

RegTypes ==
  /\ regs # None => regs \in Seq(RegValue)
  /\ file # None => file \in RegFile
  /\ saving # None => saving \in Nat
  /\ before \in Seq(RegValue)

\* The handle of HKEY_LOCAL_MACHINE is that of its key, and open while there is a registry.
HeadOK ==
  /\ zz \in Nat /\ zz >= 2 /\ head \in Seq(OpenKey)
  /\ \A i \in 1..Len(head) : head[i].handle = 1 => head[i].name = <<"HKLM">>
  /\ regs # None => \E i \in 1..Len(head) : head[i].handle = 1

\* Between saves the file holds the registry; if no save was cut short, names differ
\* in a file that is left behind.
SavedOK ==
  ~damaged /\ saving = None =>
    /\ regs # None => Whole(file, regs)
    /\ regs = None /\ file # None /\ ~cut => \E rs \in Seq(RegValue) : Whole(file, rs) /\ NamesDiffer(rs)

\* What the file holds when a save begins; what changes in one is one value.
FileHolds(old) == IF file = None THEN old = <<>> ELSE Whole(file, old)

\* In a save the file holds the records that are written, and of those before it the
\* ones that are behind them.
OneApart(old, rs) == Len(old) <= Len(rs) /\ \E c : \A i \in 1..Len(old) : i # c => rs[i] = old[i]
SavingOK ==
  saving # None =>
    /\ regs # None /\ file # None /\ saving <= Len(regs) /\ file.size = Len(regs)
    /\ \E o, p : /\ Offs(o, regs) /\ Offs(p, before) /\ Laid(file.cells, regs, o, saving)
                 /\ \A i \in 1..Len(before) : p[i - 1] >= o[saving] => LiesAt(file.cells, before[i], p[i - 1])
    /\ OneApart(before, regs)

NamesOK == regs # None /\ ~cut => NamesDiffer(regs)

RegIInv == RegTypes /\ HeadOK /\ SavedOK /\ SavingOK /\ NamesOK

\* None is none of these.
LEMMA NoneIsNone ==
  /\ None \notin Nat /\ None \notin Seq(RegValue) /\ None \notin RegFile /\ None \notin Seq(Component)
  /\ None \notin OpenKey
BY RegistryAssumption DEF RegFile, Cell, OpenKey

\* Values and open keys are records.
LEMMA ValueIs ==
  ASSUME NEW name \in Seq(Component), NEW type \in RegType, NEW value \in Seq(Nat)
  PROVE  \E v \in RegValue : v = [name |-> name, type |-> type, value |-> value] /\ v.name = name
<1>1. [name |-> name, type |-> type, value |-> value] \in RegValue
  BY DEF RegValue
<1>2. [name |-> name, type |-> type, value |-> value].name = name
  OBVIOUS
<1> QED
  BY ONLY <1>1, <1>2, Zenon

LEMMA ValueParts ==
  ASSUME NEW v \in RegValue
  PROVE  \E x \in Seq(Nat), l \in Nat : x = v.value /\ l = Len(x)
BY DEF RegValue

LEMMA KeyIs ==
  ASSUME NEW n \in Nat, NEW name \in Seq(Component)
  PROVE  \E e \in OpenKey : e = [handle |-> n, name |-> name] /\ e.handle = n
<1>1. [handle |-> n, name |-> name] \in OpenKey
  BY DEF OpenKey
<1>2. [handle |-> n, name |-> name].handle = n
  OBVIOUS
<1> QED
  BY ONLY <1>1, <1>2, Zenon

LEMMA KeyParts ==
  ASSUME NEW e \in OpenKey
  PROVE  e.handle \in Nat /\ e.name \in Seq(Component)
BY DEF OpenKey

\* Names and types of values.
LEMMA NamesAre ==
  /\ <<"HKLM">> \in Seq(Component) /\ <<"HKCU">> \in Seq(Component) /\ <<"<default>">> \in Seq(Component)
  /\ <<>> \in Seq(Nat) /\ <<0>> \in Seq(Nat) /\ "dir" \in RegType /\ "binary" \in RegType /\ "string" \in RegType
<1>1. "HKLM" \in Component /\ "HKCU" \in Component /\ "<default>" \in Component
  BY DEF Component
<1> QED
  BY <1>1 DEF RegType

LEMMA RegInit == Reg!Init => RegIInv
BY NoneIsNone DEF Reg!Init, RegIInv, RegTypes, HeadOK, SavedOK, SavingOK, NamesOK

\* There are places for any records.
LEMMA OffsExist ==
  ASSUME NEW rs \in Seq(RegValue)
  PROVE  \E o : Offs(o, rs)
BY CellsLaid

\* A file that is whole reads as what it holds.
LEMMA WholeReads ==
  ASSUME NEW rs \in Seq(RegValue), NEW f, Whole(f, rs)
  PROVE  f \in RegFile /\ Reg!ReadBack(f).got = rs
<1> PICK n \in Nat : n = Len(rs)
  OBVIOUS
<1>1. f \in RegFile /\ n = f.size
  BY DEF Whole
<1>2. PICK o : Offs(o, rs) /\ Laid(f.cells, rs, o, n)
  BY DEF Whole
<1>3. Reg!ReadBack(f) \in Read /\ Len(Reg!ReadBack(f).got) = n /\ \A i \in 1..n : Reg!ReadBack(f).got[i] = rs[i]
  <2>1. f \in RegFile /\ n \in Nat /\ n <= Len(rs) /\ n <= f.size /\ Offs(o, rs) /\ Laid(f.cells, rs, o, n)
    BY <1>1, <1>2
  <2> QED
    BY <1>1, <2>1, LaidAreRead
<1>4. Reg!ReadBack(f).got \in Seq(RegValue)
  BY <1>3 DEF Read
<1>5. Reg!ReadBack(f).got = rs
  BY <1>3, <1>4, SeqEqual
<1> QED
  BY <1>1, <1>5

\* A save begins.
LEMMA SaveBegins ==
  ASSUME RegTypes, NEW rs \in Seq(RegValue), regs' = rs, Reg!Begin(rs), NEW old \in Seq(RegValue),
         FileHolds(old), OneApart(old, rs)
  PROVE  RegTypes' /\ SavingOK' /\ SavedOK'
<1> PICK n \in Nat, m \in Nat : n = Len(rs) /\ m = Len(old)
  OBVIOUS
<1>1. before' = old /\ saving' = 0
  <2>1. saving' = 0 /\ before' = IF file = None THEN <<>> ELSE Reg!ReadBack(file).got
    BY DEF Reg!Begin
  <2> QED
    BY <2>1, WholeReads DEF FileHolds
<1> PICK d \in Seq(Cell) : d = IF file = None THEN <<>> ELSE file.cells
  <2>1. CASE file = None
    BY <2>1, NothingIs
  <2>2. CASE file # None
    BY <2>2 DEF RegTypes, RegFile
  <2> QED
    BY <2>1, <2>2
<1>2. file' = [size |-> n, cells |-> d] /\ file' \in RegFile /\ file'.size = n /\ file'.cells = d
  BY DEF Reg!Begin, RegFile
<1>3. regs' # None /\ file' # None /\ saving' # None /\ saving' \in Nat
  BY <1>1, <1>2, NoneIsNone
<1>4. RegTypes'
  BY <1>1, <1>2 DEF RegTypes
<1>5. SavedOK'
  BY <1>3 DEF SavedOK
<1>6. PICK o : Offs(o, rs)
  BY OffsExist
<1>7. PICK p : Offs(p, old) /\ \A i \in 1..m : LiesAt(d, old[i], p[i - 1])
  <2>1. CASE file = None
    <3>1. PICK p : Offs(p, old)
      BY OffsExist
    <3>2. m = 0
      BY <2>1, NothingIs DEF FileHolds
    <3> QED
      BY <3>1, <3>2
  <2>2. CASE file # None
    <3>1. Whole(file, old) /\ d = file.cells
      BY <2>2 DEF FileHolds
    <3> QED
      BY <3>1 DEF Whole, Laid
  <2> QED
    BY <2>1, <2>2
<1>8. Laid(d, rs, o, 0)
  BY DEF Laid
<1>9. SavingOK'
  <2>1. saving' <= Len(regs')
    BY <1>1
  <2>2. OneApart(before', regs')
    BY <1>1
  <2>3. /\ Offs(o, regs') /\ Offs(p, before') /\ Laid(file'.cells, regs', o, saving')
        /\ \A i \in 1..Len(before') : p[i - 1] >= o[saving'] => LiesAt(file'.cells, before'[i], p[i - 1])
    BY <1>1, <1>2, <1>6, <1>7, <1>8
  <2> QED
    BY <1>2, <1>3, <2>1, <2>2, <2>3 DEF SavingOK
<1> QED
  BY <1>4, <1>5, <1>9

\* The records of a save that are written, and the next.
LEMMA NextWritten ==
  ASSUME RegTypes, SavingOK, Reg!save_registry, saving # Len(regs)
  PROVE  RegTypes' /\ SavingOK' /\ file'.size = file.size
<1>1. saving # None /\ regs \in Seq(RegValue) /\ file \in RegFile /\ saving \in Nat /\ before \in Seq(RegValue)
  BY DEF RegTypes, SavingOK, Reg!save_registry
<1> PICK rs \in Seq(RegValue), s \in Nat, n \in Nat, bs \in Seq(RegValue), m \in Nat :
      rs = regs /\ s = saving /\ n = Len(rs) /\ bs = before /\ m = Len(bs)
  BY <1>1
<1> PICK d \in Seq(Cell) : d = file.cells
  BY <1>1 DEF RegFile
<1>2. PICK o, p : /\ Offs(o, rs) /\ Offs(p, bs) /\ Laid(d, rs, o, s)
                  /\ \A i \in 1..m : p[i - 1] >= o[s] => LiesAt(d, bs[i], p[i - 1])
  BY <1>1 DEF SavingOK
<1>3. s + 1 \in Nat /\ s + 1 <= n /\ file.size = n /\ m <= n /\ OneApart(bs, rs)
  <2>1. s <= n /\ s # n
    BY <1>1 DEF SavingOK
  <2>2. s + 1 \in Nat /\ s + 1 <= n
    BY <2>1
  <2>3. file.size = n /\ OneApart(bs, rs)
    BY <1>1 DEF SavingOK
  <2>4. m <= n
    BY <2>3 DEF OneApart
  <2> QED
    BY <2>2, <2>3, <2>4
<1> PICK rt \in Seq(RegValue) : rt = SubSeq(rs, 1, s + 1) /\ Len(rt) = s + 1 /\ \A i \in 1..(s + 1) : rt[i] = rs[i]
  <2>1. s + 1 \in Nat /\ s + 1 <= Len(rs)
    BY <1>3
  <2> QED
    <3>1. /\ SubSeq(rs, 1, s + 1) \in Seq(RegValue) /\ Len(SubSeq(rs, 1, s + 1)) = s + 1
          /\ \A k \in 1..(s + 1) : SubSeq(rs, 1, s + 1)[k] = rs[k]
      BY ONLY <2>1, FirstOf, SMT
    <3> QED
      BY ONLY <3>1, Zenon
<1> PICK c \in Seq(Cell) : c = Reg!Cells(rt)
  BY CellsLaid
<1>4. PICK q : Offs(q, rt) /\ Len(c) = q[s + 1] /\ Laid(c, rt, q, s + 1)
  <2>1. \E q : Offs(q, rt) /\ Len(Reg!Cells(rt)) = q[Len(rt)] /\ Laid(Reg!Cells(rt), rt, q, Len(rt))
    BY CellsLaid, Zenon
  <2> QED
    BY <2>1
<1>5. \A i \in 0..(s + 1) : q[i] = o[i]
  <2>1. s + 1 \in Nat /\ s + 1 <= Len(rt) /\ s + 1 <= Len(rs) /\ \A i \in 1..(s + 1) : Len(rt[i].value) = Len(rs[i].value)
    BY <1>3
  <2>2. Offs(q, rt) /\ Offs(o, rs)
    BY <1>2, <1>4
  <2> QED
    BY ONLY <2>1, <2>2, OffsOnce, SMT
<1> PICK e \in Seq(Cell) : e = Reg!Over(c, d)
  BY OverIs
<1>6. /\ Len(c) <= Len(e) /\ Len(d) <= Len(e)
      /\ (\A k \in 1..Len(c) : e[k] = c[k]) /\ \A k \in 1..Len(d) : k > Len(c) => e[k] = d[k]
  BY OverIs
<1>7. /\ file' = [file EXCEPT !.cells = e] /\ saving' = s + 1 /\ regs' = rs /\ before' = bs
  BY <1>1 DEF Reg!save_registry
<1>8. file' \in RegFile /\ file'.cells = e /\ file'.size = n
  BY <1>1, <1>3, <1>7 DEF RegFile
<1>9. Laid(e, rs, o, s + 1)
  <2> SUFFICES ASSUME NEW i \in 1..(s + 1) PROVE LiesAt(e, rs[i], o[i - 1])
    BY DEF Laid
  <2>1. LiesAt(c, rt[i], q[i - 1]) /\ rt[i] \in RegValue /\ rt[i] = rs[i]
    <3>1. LiesAt(c, rt[i], q[i - 1])
      BY ONLY <1>4 DEF Laid
    <3>2. i \in 1..Len(rt)
      OBVIOUS
    <3> QED
      BY <3>1, <3>2
  <2>2. i - 1 \in 0..(s + 1) /\ q[i - 1] = o[i - 1] /\ q[i - 1] \in Nat
    <3>1. i - 1 \in 0..(s + 1)
      OBVIOUS
    <3> QED
      BY <1>4, <1>5, <3>1 DEF Offs
  <2> QED
    <3>1. Len(c) <= Len(e) /\ \A k \in 1..Len(c) : e[k] = c[k]
      BY <1>6
    <3>2. LiesAt(e, rt[i], q[i - 1])
      BY ONLY <2>1, <2>2, <3>1, LiesLonger, Zenon
    <3> QED
      BY <2>1, <2>2, <3>2
<1>10. ASSUME NEW i \in 1..m, p[i - 1] >= o[s + 1] PROVE LiesAt(e, bs[i], p[i - 1])
  <2>1. p[i - 1] \in Nat /\ bs[i] \in RegValue
    <3>1. i - 1 \in 0..Len(bs) /\ i \in 1..Len(bs)
      OBVIOUS
    <3>2. p[i - 1] \in Nat
      BY <1>2, <3>1, OffsNat, Zenon
    <3>3. bs[i] \in RegValue
      BY <3>1
    <3> QED
      BY <3>2, <3>3
  <2>2. o[s] <= o[s + 1] /\ o[s] \in Nat /\ o[s + 1] \in Nat
    <3>1. s \in 0..n /\ s + 1 \in 0..n /\ s <= s + 1
      BY <1>3
    <3>2. o[s] \in Nat /\ o[s + 1] \in Nat
      BY <1>2, <3>1 DEF Offs
    <3> QED
      BY <1>2, <3>1, <3>2, OffsGrow
  <2>3. LiesAt(d, bs[i], p[i - 1])
    BY <1>2, <1>10, <2>1, <2>2
  <2>4. Len(c) = o[s + 1]
    <3>1. s + 1 \in 0..(s + 1)
      OBVIOUS
    <3> QED
      BY <1>4, <1>5, <3>1
  <2>5. Len(c) \in Nat /\ Len(c) <= p[i - 1]
    BY <1>10, <2>4
  <2> QED
    <3>1. Len(d) <= Len(e) /\ \A k \in 1..Len(d) : k > Len(c) => e[k] = d[k]
      BY <1>6
    <3> QED
      BY ONLY <2>1, <2>3, <2>5, <3>1, LiesBehind, Zenon
<1>11. RegTypes'
  <2>1. s + 1 \in Nat
    OBVIOUS
  <2> QED
    BY <1>1, <1>7, <1>8, <2>1 DEF RegTypes
<1>12. SavingOK'
  <2>1. regs' # None /\ file' # None /\ saving' <= Len(regs') /\ file'.size = Len(regs')
    BY <1>3, <1>7, <1>8, NoneIsNone
  <2>2. /\ Offs(o, regs') /\ Offs(p, before') /\ Laid(file'.cells, regs', o, saving')
        /\ \A i \in 1..Len(before') : p[i - 1] >= o[saving'] => LiesAt(file'.cells, before'[i], p[i - 1])
    BY <1>2, <1>7, <1>8, <1>9, <1>10
  <2>3. OneApart(before', regs')
    BY <1>3, <1>7
  <2> QED
    BY <2>1, <2>2, <2>3 DEF SavingOK
<1> QED
  BY <1>3, <1>8, <1>11, <1>12

LEMMA SaveReg ==
  ASSUME RegIInv, Reg!save_registry
  PROVE  RegIInv'
<1>1. saving # None /\ UNCHANGED <<regs, head, zz, damaged, cut>> /\ RegTypes /\ SavingOK
  BY DEF Reg!save_registry, RegIInv
<1>2. HeadOK' /\ NamesOK'
  BY <1>1 DEF RegIInv, HeadOK, NamesOK
<1>3. CASE saving = Len(regs)
  <2>1. saving' = None /\ before' = <<>> /\ file' = file
    BY <1>3 DEF Reg!save_registry
  <2>2. regs # None /\ regs \in Seq(RegValue) /\ file \in RegFile /\ file.size = Len(regs)
    BY <1>1 DEF SavingOK, RegTypes
  <2>3. \E o : Offs(o, regs) /\ Laid(file.cells, regs, o, Len(regs))
    BY <1>1, <1>3 DEF SavingOK
  <2>4. Whole(file, regs)
    BY <2>2, <2>3 DEF Whole
  <2>5. RegTypes' /\ SavingOK'
    BY <1>1, <2>1 DEF RegTypes, SavingOK
  <2>6. SavedOK'
    BY <1>1, <2>1, <2>2, <2>4 DEF SavedOK
  <2> QED
    BY <1>2, <2>5, <2>6 DEF RegIInv
<1>4. CASE saving # Len(regs)
  <2>1. RegTypes' /\ SavingOK'
    BY <1>1, <1>4, NextWritten
  <2>2. SavedOK'
    <3>1. saving' # None
      <4>1. saving' = saving + 1 /\ saving \in Nat
        BY <1>1, <1>4 DEF Reg!save_registry, RegTypes
      <4>2. saving + 1 \in Nat
        BY <4>1
      <4> QED
        BY <4>1, <4>2, NoneIsNone
    <3> QED
      BY <3>1 DEF SavedOK
  <2> QED
    BY <1>2, <2>1, <2>2 DEF RegIInv
<1> QED
  BY <1>3, <1>4

\* The empty registry, and a file that holds no records.
LEMMA NewIsEmpty ==
  /\ Reg!NewRegistry \in Seq(RegValue) /\ Len(Reg!NewRegistry) = 2 /\ NamesDiffer(Reg!NewRegistry)
  /\ <<"HKLM">> \in Seq(Component) /\ <<"HKCU">> \in Seq(Component)
<1> DEFINE a == [name |-> <<"HKLM">>, type |-> "dir", value |-> <<>>]
           b == [name |-> <<"HKCU">>, type |-> "dir", value |-> <<>>]
<1>1. <<"HKLM">> \in Seq(Component) /\ <<"HKCU">> \in Seq(Component) /\ <<>> \in Seq(Nat) /\ "dir" \in RegType
  BY NamesAre
<1>2. a \in RegValue /\ b \in RegValue
  BY <1>1 DEF RegValue
<1>3. a.name # b.name
  OBVIOUS
<1>4. Reg!NewRegistry = <<a, b>>
  BY DEF Reg!NewRegistry
<1> HIDE DEF a, b
<1>5. <<a, b>> \in Seq(RegValue) /\ Len(<<a, b>>) = 2 /\ <<a, b>>[1] = a /\ <<a, b>>[2] = b
  BY <1>2
<1>6. \A i \in 1..2 : \A j \in 1..(i - 1) : i = 2 /\ j = 1
  OBVIOUS
<1> QED
  BY <1>1, <1>3, <1>4, <1>5, <1>6 DEF NamesDiffer

LEMMA StartReg ==
  ASSUME RegIInv, Reg!init_registry
  PROVE  RegIInv'
<1>1. saving = None /\ regs = None /\ ~damaged /\ RegTypes /\ zz \in Nat /\ zz >= 2
  BY DEF Reg!init_registry, Reg!Idle, RegIInv, HeadOK
<1>2. cut' = cut /\ zz' = zz
  BY DEF Reg!init_registry
<1>3. HeadOK'
  <2> DEFINE a == [handle |-> 2, name |-> <<"HKCU">>]
             b == [handle |-> 1, name |-> <<"HKLM">>]
  <2>1. a \in OpenKey /\ b \in OpenKey /\ a.handle = 2 /\ b.handle = 1 /\ b.name = <<"HKLM">>
    BY NewIsEmpty DEF OpenKey
  <2>2. head' = <<a, b>>
    BY DEF Reg!init_registry, Reg!HKEY_LOCAL_MACHINE, Reg!HKEY_CURRENT_USER
  <2> HIDE DEF a, b
  <2>3. head' \in Seq(OpenKey) /\ Len(head') = 2 /\ head'[1] = a /\ head'[2] = b
    BY <2>1, <2>2
  <2>4. (\A i \in 1..Len(head') : head'[i].handle = 1 => head'[i].name = <<"HKLM">>)
        /\ \E i \in 1..Len(head') : head'[i].handle = 1
    BY <2>1, <2>3
  <2> QED
    BY <1>1, <1>2, <2>3, <2>4 DEF HeadOK
<1>4. CASE file = None
  <2> PICK rs \in Seq(RegValue) : rs = Reg!NewRegistry /\ NamesDiffer(rs)
    BY NewIsEmpty
  <2>1. regs' = rs /\ Reg!Begin(rs) /\ damaged' = damaged
    BY <1>4 DEF Reg!init_registry, Reg!open_registry, Reg!create_registry
  <2> PICK old \in Seq(RegValue) : old = <<>> /\ Len(old) = 0
    BY NothingIs
  <2>2. FileHolds(old) /\ OneApart(old, rs)
    BY <1>4 DEF FileHolds, OneApart
  <2>3. RegTypes' /\ SavingOK' /\ SavedOK'
    BY <1>1, <2>1, <2>2, SaveBegins
  <2>4. NamesOK'
    BY <2>1 DEF NamesOK
  <2> QED
    BY <1>3, <2>3, <2>4 DEF RegIInv
<1>5. CASE file # None
  <2>1. file \in RegFile
    BY <1>1, <1>5 DEF RegTypes
  <2> PICK n \in Nat : n = file.size
    BY <2>1 DEF RegFile
  <2>2. regs' = Reg!ReadBack(file).got /\ UNCHANGED <<file, saving, before>>
        /\ damaged' = (Reg!ReadBack(file).cell = 0 /\ n > 0)
    BY <1>5 DEF Reg!init_registry, Reg!open_registry
  <2>3. Reg!ReadBack(file) \in Read /\ regs' \in Seq(RegValue)
    <3> PICK rs \in Seq(RegValue) : rs = <<>> /\ Len(rs) = 0
      BY NothingIs
    <3>1. PICK o : Offs(o, rs)
      BY OffsExist
    <3>2. Laid(file.cells, rs, o, 0)
      BY DEF Laid
    <3>3. 0 \in Nat /\ 0 <= Len(rs) /\ 0 <= n
      OBVIOUS
    <3>4. Reg!ReadBack(file) \in Read
      BY <2>1, <3>1, <3>2, <3>3, LaidAreRead
    <3> QED
      BY <2>2, <3>4 DEF Read
  <2>4. ASSUME ~damaged' PROVE Whole(file, regs')
    <3>1. CASE n = 0
      <4> PICK rs \in Seq(RegValue) : rs = <<>> /\ Len(rs) = 0
        BY NothingIs
      <4>1. PICK o : Offs(o, rs)
        BY OffsExist
      <4>2. Laid(file.cells, rs, o, 0)
        BY DEF Laid
      <4>3. Whole(file, rs)
        BY <2>1, <3>1, <4>1, <4>2 DEF Whole
      <4> QED
        BY <2>2, <4>3, WholeReads
    <3>2. CASE n # 0
      <4>1. n > 0
        BY <3>2
      <4>2. Reg!ReadBack(file).cell # 0
        BY <2>2, <2>4, <4>1
      <4> QED
        BY <2>1, <2>2, <4>2, ReadAreLaid DEF Whole
    <3> QED
      BY <3>1, <3>2
  <2>5. regs' # None
    BY <2>3, NoneIsNone
  <2>6. RegTypes' /\ SavingOK'
    BY <1>1, <2>2, <2>3 DEF RegTypes, SavingOK
  <2>7. SavedOK'
    BY <2>2, <2>4, <2>5 DEF SavedOK
  <2>8. NamesOK'
    <3> SUFFICES ASSUME ~cut PROVE NamesDiffer(regs')
      BY <1>2 DEF NamesOK
    <3>1. PICK rs \in Seq(RegValue) : Whole(file, rs) /\ NamesDiffer(rs)
      BY <1>1, <1>5 DEF RegIInv, SavedOK
    <3> QED
      BY <2>2, <3>1, WholeReads
  <2> QED
    BY <1>3, <2>6, <2>7, <2>8 DEF RegIInv
<1> QED
  BY <1>4, <1>5

\* The registry is let go, at the end of the last codec or with the process.
LEMMA EndReg ==
  ASSUME RegIInv, Reg!free_registry \/ Reg!Stop
  PROVE  RegIInv'
<1>1. regs' = None /\ head' = <<>> /\ UNCHANGED <<file, damaged>> /\ zz' \in {zz, 2} /\ saving' = None
  BY DEF Reg!free_registry, Reg!Stop, Reg!Idle
<1>2. (before' = before \/ before' = <<>>) /\ (cut' \/ (saving = None /\ ~cut))
  <2>1. CASE Reg!free_registry
    BY <2>1 DEF Reg!free_registry, Reg!Idle
  <2>2. CASE Reg!Stop
    <3>1. before' = <<>> /\ cut' = (cut \/ saving # None)
      BY <2>2 DEF Reg!Stop, Reg!Idle
    <3>2. cut' \/ (saving = None /\ ~cut)
      BY <3>1, Zenon
    <3> QED
      BY <3>1, <3>2
  <2> QED
    BY <2>1, <2>2
<1>3. HeadOK'
  BY <1>1 DEF RegIInv, HeadOK
<1>4. RegTypes' /\ SavingOK' /\ NamesOK'
  <2>1. before' \in Seq(RegValue)
    BY <1>2, NothingIs DEF RegIInv, RegTypes
  <2> QED
    BY <1>1, <2>1 DEF RegIInv, RegTypes, SavingOK, NamesOK
<1>5. SavedOK'
  <2> SUFFICES ASSUME ~damaged, file # None, ~cut' PROVE \E rs \in Seq(RegValue) : Whole(file, rs) /\ NamesDiffer(rs)
    BY <1>1 DEF SavedOK
  <2>1. saving = None /\ ~cut
    BY <1>2
  <2>2. CASE regs = None
    BY <2>1, <2>2 DEF RegIInv, SavedOK
  <2>3. CASE regs # None
    BY <2>1, <2>3 DEF RegIInv, SavedOK, NamesOK, RegTypes
  <2> QED
    BY <2>2, <2>3
<1> QED
  BY <1>3, <1>4, <1>5 DEF RegIInv

-----------------------------------------------------------------------------
(* The registry: keys and values *)

\* What is found under a handle is an open key, if there is one.
LEMMA FoundHandle ==
  ASSUME HeadOK, NEW h
  PROVE  /\ Reg!find_handle(h) # None =>
              \E i \in 1..Len(head) : head[i].handle = h /\ Reg!find_handle(h) = head[i]
         /\ (\E i \in 1..Len(head) : head[i].handle = h) => Reg!find_handle(h) # None
<1> DEFINE at == {i \in 1..Len(head) : head[i].handle = h}
<1>1. Reg!find_handle(h) = IF at = {} THEN None ELSE head[CHOOSE i \in at : \A j \in at : i <= j]
  BY DEF Reg!find_handle
<1>2. CASE at = {}
  BY <1>1, <1>2
<1>3. CASE at # {}
  <2>1. at \in SUBSET Nat
    OBVIOUS
  <2>2. PICK i \in at : i = CHOOSE k \in at : \A j \in at : k <= j
    <3> HIDE DEF at
    <3>1. \E m \in at : \A k \in at : m <= k
      BY <1>3, <2>1, LeastOf
    <3> QED
      BY <3>1
  <2>3. i \in 1..Len(head) /\ head[i].handle = h /\ Reg!find_handle(h) = head[i]
    BY <1>1, <1>3, <2>2
  <2>4. head[i] \in OpenKey
    BY <2>3 DEF HeadOK
  <2> QED
    BY <2>3, <2>4, NoneIsNone
<1> QED
  BY <1>2, <1>3

\* A value that is found is the first of its name.
LEMMA FoundValue ==
  ASSUME regs \in Seq(RegValue), NEW name
  PROVE  /\ Reg!find_value_by_name(name) \in 0..Len(regs)
         /\ Reg!find_value_by_name(name) = 0 => \A i \in 1..Len(regs) : regs[i].name # name
         /\ Reg!find_value_by_name(name) # 0 =>
              /\ regs[Reg!find_value_by_name(name)].name = name
              /\ \A j \in 1..Len(regs) : regs[j].name = name => Reg!find_value_by_name(name) <= j
<1> DEFINE at == {i \in 1..Len(regs) : regs[i].name = name}
<1>1. Reg!find_value_by_name(name) = IF at = {} THEN 0 ELSE CHOOSE i \in at : \A j \in at : i <= j
  BY DEF Reg!find_value_by_name
<1>2. CASE at = {}
  BY <1>1, <1>2
<1>3. CASE at # {}
  <2>1. at \in SUBSET Nat
    OBVIOUS
  <2>2. PICK i \in at : i = (CHOOSE k \in at : \A j \in at : k <= j) /\ \A j \in at : i <= j
    <3> HIDE DEF at
    <3>1. \E m \in at : \A k \in at : m <= k
      BY <1>3, <2>1, LeastOf
    <3> QED
      BY <3>1
  <2>3. Reg!find_value_by_name(name) = i
    BY <1>1, <1>3, <2>2
  <2> QED
    BY <2>2, <2>3
<1> QED
  BY <1>2, <1>3

\* The name of a key or value under an open key.
LEMMA KeynameType ==
  ASSUME HeadOK, NEW h, Reg!find_handle(h) # None, NEW sub \in Seq(Component) \cup {None}
  PROVE  Reg!build_keyname(h, sub) \in Seq(Component)
<1>1. Reg!find_handle(h).name \in Seq(Component)
  <2>1. PICK i \in 1..Len(head) : Reg!find_handle(h) = head[i]
    BY FoundHandle
  <2>2. head[i] \in OpenKey
    BY DEF HeadOK
  <2> QED
    BY <2>1, <2>2, KeyParts
<1>2. (IF sub = None THEN <<"<default>">> ELSE sub) \in Seq(Component)
  <2>1. <<"<default>">> \in Seq(Component)
    BY NamesAre
  <2> QED
    BY <2>1
<1> PICK a \in Seq(Component), b \in Seq(Component) :
      a = Reg!find_handle(h).name /\ b = IF sub = None THEN <<"<default>">> ELSE sub
  BY <1>1, <1>2
<1>3. Reg!build_keyname(h, sub) = a \o b
  BY DEF Reg!build_keyname
<1>4. a \o b \in Seq(Component)
  OBVIOUS
<1> QED
  BY <1>3, <1>4

\* A key is opened.
LEMMA HandleInserted ==
  ASSUME HeadOK, NEW name \in Seq(Component), Reg!insert_handle(name), regs # None
  PROVE  HeadOK'
<1> PICK n \in Nat, s \in Seq(OpenKey), k \in Nat : n = zz /\ n >= 2 /\ s = head /\ k = Len(s)
  <2>1. Len(head) \in Nat
    BY DEF HeadOK
  <2> QED
    BY <2>1 DEF HeadOK
<1> PICK e \in OpenKey : e = [handle |-> n + 1, name |-> name] /\ e.handle = n + 1
  <2>1. n + 1 \in Nat
    OBVIOUS
  <2> QED
    BY ONLY <2>1, KeyIs, Zenon
<1>1. head' = <<e>> \o s /\ zz' = n + 1
  BY DEF Reg!insert_handle
<1> PICK t \in Seq(OpenKey) : t = <<e>> \o s /\ Len(t) = k + 1 /\ t[1] = e /\ \A i \in 1..k : t[i + 1] = s[i]
  <2>1. /\ <<e>> \o s \in Seq(OpenKey) /\ Len(<<e>> \o s) = Len(s) + 1 /\ (<<e>> \o s)[1] = e
        /\ \A i \in 1..Len(s) : (<<e>> \o s)[i + 1] = s[i]
    BY ONLY Pushed, SMT
  <2> QED
    BY <2>1
<1>2. (\A i \in 1..k : s[i].handle = 1 => s[i].name = <<"HKLM">>) /\ \E i \in 1..k : s[i].handle = 1
  BY DEF HeadOK
<1>3. ASSUME NEW i \in 1..(k + 1), t[i].handle = 1 PROVE t[i].name = <<"HKLM">>
  <2>1. i # 1
    BY <1>3
  <2>2. i - 1 \in 1..k /\ (i - 1) + 1 = i
    BY <2>1
  <2>3. t[i] = s[i - 1]
    BY <2>2
  <2> QED
    BY <1>2, <1>3, <2>2, <2>3
<1>4. \E i \in 1..(k + 1) : t[i].handle = 1
  <2>1. PICK i \in 1..k : s[i].handle = 1
    BY <1>2
  <2>2. i + 1 \in 1..(k + 1) /\ t[i + 1].handle = 1
    BY <2>1
  <2> QED
    BY <2>2
<1>5. n + 1 \in Nat /\ n + 1 >= 2
  OBVIOUS
<1> QED
  BY <1>1, <1>3, <1>4, <1>5 DEF HeadOK

\* A value is replaced or added.
LEMMA ValueInserted ==
  ASSUME RegTypes, SavedOK, NamesOK, saving = None, regs # None, ~damaged, cut' = cut,
         NEW name \in Seq(Component), NEW type \in RegType, NEW value \in Seq(Nat),
         Reg!insert_reg_value(name, type, value)
  PROVE  RegTypes' /\ SavingOK' /\ SavedOK' /\ NamesOK' /\ regs' # None
<1> PICK old \in Seq(RegValue), n \in Nat : old = regs /\ n = Len(old)
  BY DEF RegTypes
<1> PICK v \in RegValue : v = [name |-> name, type |-> type, value |-> value] /\ v.name = name
  BY ONLY ValueIs, Zenon
<1> PICK i : i = Reg!find_value_by_name(name)
  OBVIOUS
<1>1. /\ i \in 0..n
      /\ i = 0 => \A k \in 1..n : old[k].name # name
      /\ i # 0 => old[i].name = name
  BY FoundValue
<1> PICK rs \in Seq(RegValue) : /\ rs = IF i = 0 THEN Append(old, v) ELSE [old EXCEPT ![i] = v]
                                /\ n <= Len(rs) /\ Len(rs) <= n + 1 /\ (Len(rs) = n + 1 => i = 0 /\ rs[n + 1] = v)
                                /\ \A k \in 1..n : rs[k] = IF k = i THEN v ELSE old[k]
  <2>1. CASE i = 0
    <3> PICK x \in Seq(RegValue) : x = Append(old, v) /\ Len(x) = n + 1 /\ x[n + 1] = v /\ \A k \in 1..n : x[k] = old[k]
      <4>1. /\ Append(old, v) \in Seq(RegValue) /\ Len(Append(old, v)) = n + 1 /\ Append(old, v)[n + 1] = v
            /\ \A k \in 1..n : Append(old, v)[k] = old[k]
        OBVIOUS
      <4> QED
        BY <4>1
    <3>1. x = IF i = 0 THEN Append(old, v) ELSE [old EXCEPT ![i] = v]
      BY <2>1
    <3>2. n <= Len(x) /\ Len(x) <= n + 1 /\ \A k \in 1..n : k # i
      BY <2>1
    <3> QED
      BY <2>1, <3>1, <3>2
  <2>2. CASE i # 0
    <3>1. i \in 1..n
      BY <1>1, <2>2
    <3> PICK x \in Seq(RegValue) : /\ x = [old EXCEPT ![i] = v] /\ Len(x) = n
                                   /\ \A k \in 1..n : x[k] = IF k = i THEN v ELSE old[k]
      <4>1. [old EXCEPT ![i] = v] \in Seq(RegValue) /\ Len([old EXCEPT ![i] = v]) = n
            /\ \A k \in 1..n : [old EXCEPT ![i] = v][k] = IF k = i THEN v ELSE old[k]
        BY <3>1
      <4> QED
        BY <4>1
    <3>2. x = IF i = 0 THEN Append(old, v) ELSE [old EXCEPT ![i] = v]
      BY <2>2
    <3>3. n <= Len(x) /\ Len(x) <= n + 1 /\ Len(x) # n + 1
      OBVIOUS
    <3> QED
      BY <3>2, <3>3
  <2> QED
    BY <2>1, <2>2
<1>2. regs' = rs /\ Reg!Begin(rs)
  BY DEF Reg!insert_reg_value
<1>3. Whole(file, old) /\ file # None
  BY NoneIsNone DEF SavedOK, Whole
<1>4. RegTypes' /\ SavingOK' /\ SavedOK'
  <2>1. FileHolds(old)
    BY <1>3 DEF FileHolds
  <2>2. OneApart(old, rs)
    <3>1. \A k \in 1..Len(old) : k # i => rs[k] = old[k]
      OBVIOUS
    <3>2. Len(old) <= Len(rs)
      OBVIOUS
    <3> QED
      BY ONLY <3>1, <3>2 DEF OneApart
  <2> QED
    BY <1>2, <2>1, <2>2, SaveBegins
<1>5. NamesOK'
  <2> SUFFICES ASSUME ~cut, NEW k \in 1..Len(rs), NEW j \in 1..(k - 1) PROVE rs[j].name # rs[k].name
    BY <1>2 DEF NamesOK, NamesDiffer
  <2> PICK m \in Nat : m = Len(rs) /\ n <= m /\ m <= n + 1
    OBVIOUS
  <2>1. j \in 1..n /\ (k \in 1..n \/ (k = n + 1 /\ m = n + 1))
    OBVIOUS
  <2>2. \A x \in 1..n : rs[x].name = old[x].name
    BY <1>1
  <2>3. CASE k \in 1..n
    <3>1. old[j].name # old[k].name
      BY <2>3 DEF NamesOK, NamesDiffer
    <3> QED
      BY <2>1, <2>2, <2>3, <3>1
  <2>4. CASE k = n + 1 /\ m = n + 1
    <3>1. rs[k].name = name /\ old[j].name # name
      BY <1>1, <2>1, <2>4
    <3> QED
      BY <2>1, <2>2, <3>1
  <2> QED
    BY <2>1, <2>3, <2>4
<1>6. regs' # None
  BY <1>2, NoneIsNone
<1> QED
  BY <1>4, <1>5, <1>6

\* A handle that works, and what the registry is then.
LEMMA ReadyReg ==
  ASSUME RegIInv, NEW h, Reg!Ready(h)
  PROVE  /\ saving = None /\ regs # None /\ ~damaged /\ Reg!find_handle(h) # None
         /\ RegTypes /\ HeadOK /\ SavedOK /\ NamesOK
BY DEF Reg!Ready, Reg!Idle, RegIInv

LEMMA OpenReg ==
  ASSUME RegIInv, NEW h, NEW sub \in Seq(Component) \cup {None}, Reg!RegOpenKeyExA(h, sub)
  PROVE  RegIInv'
<1>1. Reg!Ready(h) /\ Reg!insert_handle(Reg!build_keyname(h, sub)) /\ UNCHANGED <<regs, file, saving, before, damaged, cut>>
  BY DEF Reg!RegOpenKeyExA
<1>2. HeadOK'
  <2>1. Reg!build_keyname(h, sub) \in Seq(Component)
    BY <1>1, ReadyReg, KeynameType
  <2> QED
    BY <1>1, <2>1, ReadyReg, HandleInserted
<1>3. RegTypes' /\ SavedOK' /\ SavingOK' /\ NamesOK'
  BY <1>1 DEF RegIInv, RegTypes, SavedOK, SavingOK, NamesOK
<1> QED
  BY <1>2, <1>3 DEF RegIInv

LEMMA CreateReg ==
  ASSUME RegIInv, NEW h, NEW sub \in Seq(Component) \cup {None}, Reg!RegCreateKeyExA(h, sub)
  PROVE  RegIInv'
<1> PICK name : name = Reg!build_keyname(h, sub)
  OBVIOUS
<1>1. Reg!Ready(h) /\ Reg!insert_handle(name) /\ damaged' = damaged /\ cut' = cut
  BY DEF Reg!RegCreateKeyExA
<1>2. name \in Seq(Component)
  BY <1>1, ReadyReg, KeynameType
<1>3. HeadOK'
  BY <1>1, <1>2, ReadyReg, HandleInserted
<1>4. CASE Reg!find_value_by_name(name) = 0
  <2>1. Reg!insert_reg_value(name, "dir", <<0>>)
    BY <1>4 DEF Reg!RegCreateKeyExA
  <2>2. "dir" \in RegType /\ <<0>> \in Seq(Nat)
    BY NamesAre
  <2>3. RegTypes' /\ SavingOK' /\ SavedOK' /\ NamesOK'
    BY <1>1, <1>2, <2>1, <2>2, ReadyReg, ValueInserted
  <2> QED
    BY <1>3, <2>3 DEF RegIInv
<1>5. CASE Reg!find_value_by_name(name) # 0
  <2>1. UNCHANGED <<regs, file, saving, before>>
    BY <1>5 DEF Reg!RegCreateKeyExA
  <2>2. RegTypes' /\ SavedOK' /\ SavingOK' /\ NamesOK'
    BY <1>1, <2>1 DEF RegIInv, RegTypes, SavedOK, SavingOK, NamesOK
  <2> QED
    BY <1>3, <2>2 DEF RegIInv
<1> QED
  BY <1>4, <1>5

LEMMA SetReg ==
  ASSUME RegIInv, NEW h, NEW sub \in Seq(Component) \cup {None}, NEW type \in RegType, NEW value \in Seq(Nat),
         Reg!RegSetValueExA(h, sub, type, value)
  PROVE  RegIInv'
<1>1. Reg!Ready(h) /\ Reg!insert_reg_value(Reg!build_keyname(h, sub), type, value)
      /\ UNCHANGED <<head, zz, damaged, cut>>
  BY DEF Reg!RegSetValueExA
<1>2. Reg!build_keyname(h, sub) \in Seq(Component)
  BY <1>1, ReadyReg, KeynameType
<1>3. RegTypes' /\ SavingOK' /\ SavedOK' /\ NamesOK'
  BY <1>1, <1>2, ReadyReg, ValueInserted
<1>4. HeadOK'
  BY <1>1, ReadyReg DEF HeadOK
<1> QED
  BY <1>3, <1>4 DEF RegIInv

LEMMA CloseReg ==
  ASSUME RegIInv, NEW h, Reg!RegCloseKey(h)
  PROVE  RegIInv'
<1>1. h # 1 /\ UNCHANGED <<regs, zz, file, saving, before, damaged, cut>>
  BY DEF Reg!RegCloseKey, Reg!Root, Reg!HKEY_LOCAL_MACHINE
<1>2. RegTypes' /\ SavedOK' /\ SavingOK' /\ NamesOK'
  BY <1>1 DEF RegIInv, RegTypes, SavedOK, SavingOK, NamesOK
<1> PICK s \in Seq(OpenKey), n \in Nat : s = head /\ n = Len(s)
  BY DEF RegIInv, HeadOK
<1>3. /\ (\A i \in 1..n : s[i].handle = 1 => s[i].name = <<"HKLM">>)
      /\ regs # None => \E i \in 1..n : s[i].handle = 1
  BY DEF RegIInv, HeadOK
<1>4. PICK i \in 1..n : s[i].handle = h /\ head' = Without(s, i)
  BY DEF Reg!RegCloseKey, Without
<1> PICK t \in Seq(OpenKey) : /\ t = Without(s, i) /\ Len(t) = n - 1
                              /\ \A k \in 1..(n - 1) : t[k] = IF k < i THEN s[k] ELSE s[k + 1]
  <2>1. i \in 1..Len(s)
    OBVIOUS
  <2>2. /\ Without(s, i) \in Seq(OpenKey) /\ Len(Without(s, i)) = Len(s) - 1
        /\ \A k \in 1..(Len(s) - 1) : Without(s, i)[k] = IF k < i THEN s[k] ELSE s[k + 1]
    BY ONLY <2>1, WithoutOne, Zenon
  <2> QED
    BY <2>2
<1>5. ASSUME NEW k \in 1..(n - 1), t[k].handle = 1 PROVE t[k].name = <<"HKLM">>
  <2>1. k \in 1..n /\ k + 1 \in 1..n
    OBVIOUS
  <2> QED
    BY <1>3, <1>5, <2>1
<1>6. ASSUME regs # None PROVE \E k \in 1..(n - 1) : t[k].handle = 1
  <2>1. PICK m \in 1..n : s[m].handle = 1
    BY <1>3, <1>6
  <2>2. m # i
    BY <1>1, <1>4, <2>1
  <2>3. CASE m < i
    <3>1. m \in 1..(n - 1) /\ t[m] = s[m]
      BY <2>3
    <3> QED
      BY <2>1, <3>1
  <2>4. CASE m > i
    <3>1. m - 1 \in 1..(n - 1) /\ ~(m - 1 < i) /\ (m - 1) + 1 = m
      BY <2>4
    <3>2. t[m - 1] = s[m]
      BY <3>1
    <3> QED
      BY <2>1, <3>1, <3>2
  <2> QED
    BY <2>2, <2>3, <2>4
<1>7. HeadOK'
  BY <1>1, <1>4, <1>5, <1>6 DEF RegIInv, HeadOK
<1> QED
  BY <1>2, <1>7 DEF RegIInv

\* Every step of the registry keeps its invariant.
LEMMA RegNext == RegIInv /\ [Reg!Next]_regVars => RegIInv'
<1> SUFFICES ASSUME RegIInv, [Reg!Next]_regVars PROVE RegIInv'
  OBVIOUS
<1>1. CASE UNCHANGED regVars
  BY <1>1 DEF regVars, RegIInv, RegTypes, HeadOK, SavedOK, SavingOK, NamesOK
<1>2. CASE Reg!init_registry \/ Reg!free_registry \/ Reg!save_registry \/ Reg!Stop
  BY <1>2, StartReg, EndReg, SaveReg
<1>3. ASSUME NEW value \in DataUsed, Reg!expWritePrivateProfileStringA(value) PROVE RegIInv'
  <2>1. value \in Seq(Nat) /\ ProfileUsed \in Seq(Component) \cup {None} /\ "string" \in RegType
    BY RegistryAssumption, NamesAre
  <2>2. Reg!RegSetValueExA(Reg!HKEY_LOCAL_MACHINE, ProfileUsed, "string", value)
    BY <1>3 DEF Reg!expWritePrivateProfileStringA
  <2> QED
    BY <2>1, <2>2, SetReg
<1>4. ASSUME NEW h \in Reg!Handles, Reg!expRegCloseKey(h) PROVE RegIInv'
  BY <1>4, CloseReg DEF Reg!expRegCloseKey
<1>5. ASSUME NEW h \in Reg!Handles, NEW sub \in KeysUsed,
             \/ Reg!expRegOpenKeyExA(h, sub) \/ Reg!expRegOpenKeyA(h, sub) \/ Reg!expRegCreateKeyExA(h, sub)
             \/ \E value \in DataUsed : Reg!expRegSetValueExA(h, sub, value)
      PROVE  RegIInv'
  <2>1. sub \in Seq(Component) \cup {None}
    BY RegistryAssumption
  <2>2. CASE Reg!expRegOpenKeyExA(h, sub) \/ Reg!expRegOpenKeyA(h, sub) \/ Reg!expRegCreateKeyExA(h, sub)
    BY <2>1, <2>2, OpenReg, CreateReg DEF Reg!expRegOpenKeyExA, Reg!expRegOpenKeyA, Reg!expRegCreateKeyExA
  <2>3. ASSUME NEW value \in DataUsed, Reg!expRegSetValueExA(h, sub, value) PROVE RegIInv'
    <3>1. value \in Seq(Nat) /\ "binary" \in RegType
      BY RegistryAssumption, NamesAre
    <3> QED
      BY <2>1, <2>3, <3>1, SetReg DEF Reg!expRegSetValueExA
  <2> QED
    BY <1>5, <2>2, <2>3
<1>6. CASE Reg!Next
  BY <1>2, <1>3, <1>4, <1>5, <1>6 DEF Reg!Next
<1> QED
  BY <1>1, <1>6

-----------------------------------------------------------------------------
(* The registry: what is kept *)

\* What is in the file in the middle of a save is read: where lengths are the same,
\* the values already written and then those before.
LEMMA SavingReads ==
  ASSUME RegIInv, saving # None, \A i \in 1..Len(before) : Len(regs[i].value) = Len(before[i].value)
  PROVE  /\ Len(Reg!ReadBack(file).got) \in Nat /\ Len(before) <= Len(Reg!ReadBack(file).got)
         /\ \A i \in 1..Len(before) : regs[i] = before[i] => Reg!ReadBack(file).got[i] = before[i]
<1>1. regs \in Seq(RegValue) /\ file \in RegFile /\ saving \in Nat /\ before \in Seq(RegValue)
  BY DEF RegIInv, RegTypes, SavingOK
<1> PICK rs \in Seq(RegValue), s \in Nat, n \in Nat, bs \in Seq(RegValue), m \in Nat, d \in Seq(Cell) :
      rs = regs /\ s = saving /\ n = Len(rs) /\ bs = before /\ m = Len(bs) /\ d = file.cells
  <2>1. file.cells \in Seq(Cell) /\ Len(regs) \in Nat /\ Len(before) \in Nat
    BY <1>1 DEF RegFile
  <2> QED
    BY <1>1, <2>1
<1>2. PICK o, p : /\ Offs(o, rs) /\ Offs(p, bs) /\ Laid(d, rs, o, s)
                  /\ \A i \in 1..m : p[i - 1] >= o[s] => LiesAt(d, bs[i], p[i - 1])
  BY DEF RegIInv, SavingOK
<1>3. s <= n /\ file.size = n /\ m <= n
  <2>1. SavingOK
    BY DEF RegIInv
  <2>2. s <= n /\ file.size = n /\ OneApart(bs, rs)
    BY <2>1 DEF SavingOK
  <2> QED
    BY <2>2 DEF OneApart
<1>4. \A i \in 0..m : o[i] = p[i]
  <2>1. m \in Nat /\ m <= Len(rs) /\ m <= Len(bs) /\ \A i \in 1..m : Len(rs[i].value) = Len(bs[i].value)
    BY <1>3
  <2>2. Offs(o, rs) /\ Offs(p, bs)
    BY <1>2
  <2> QED
    BY ONLY <2>1, <2>2, OffsOnce, SMT
<1> PICK mix \in Seq(RegValue) : Len(mix) = m /\ \A i \in 1..m : mix[i] = IF i <= s THEN rs[i] ELSE bs[i]
  <2> DEFINE x == [i \in 1..m |-> IF i <= s THEN rs[i] ELSE bs[i]]
  <2>1. \A i \in 1..m : i \in 1..n
    BY <1>3
  <2>2. \A i \in 1..m : rs[i] \in RegValue /\ bs[i] \in RegValue
    BY <2>1
  <2>3. x \in Seq(RegValue) /\ Len(x) = m
    BY <2>2
  <2> QED
    BY <2>3
<1>5. Offs(p, mix)
  <2>1. \A i \in 1..m : Len(mix[i].value) = Len(bs[i].value)
    OBVIOUS
  <2> QED
    BY <1>2, <2>1 DEF Offs
<1>6. Laid(d, mix, p, m)
  <2> SUFFICES ASSUME NEW i \in 1..m PROVE LiesAt(d, mix[i], p[i - 1])
    BY DEF Laid
  <2>1. i - 1 \in 0..m /\ o[i - 1] = p[i - 1]
    <3>1. i - 1 \in 0..m
      OBVIOUS
    <3> QED
      BY <1>4, <3>1
  <2>2. CASE i <= s
    <3>1. i \in 1..s /\ mix[i] = rs[i]
      BY <2>2
    <3> QED
      BY <1>2, <2>1, <3>1 DEF Laid
  <2>3. CASE ~(i <= s)
    <3>1. mix[i] = bs[i] /\ s <= i - 1 /\ s \in 0..n /\ i - 1 \in 0..n
      BY <1>3, <2>3
    <3>2. o[s] <= o[i - 1]
      BY <1>2, <3>1, OffsGrow
    <3>3. p[i - 1] >= o[s]
      <4>1. o[s] \in Nat /\ o[i - 1] \in Nat
        BY <1>2, <3>1 DEF Offs
      <4> QED
        BY <2>1, <3>2, <4>1
    <3> QED
      BY <1>2, <3>1, <3>3
  <2> QED
    BY <2>2, <2>3
<1>7. Len(Reg!ReadBack(file).got) >= m /\ \A i \in 1..m : Reg!ReadBack(file).got[i] = mix[i]
  BY <1>1, <1>3, <1>5, <1>6, LaidAreRead
<1>8. Len(Reg!ReadBack(file).got) \in Nat
  <2>1. Reg!ReadBack(file).got \in Seq(RegValue)
    BY <1>1, <1>3, <1>5, <1>6, LaidAreRead DEF Read
  <2> QED
    BY <2>1
<1> QED
  BY <1>7, <1>8

LEMMA StopSurvived == RegIInv => Reg!SurvivesStop
<1> SUFFICES ASSUME RegIInv, regs # None, ~damaged PROVE Reg!SurvivesStop
  BY DEF Reg!SurvivesStop
<1> DEFINE got == Reg!ReadBack(file).got
           same == \A i \in 1..Len(before) : Len(regs[i].value) = Len(before[i].value)
           changed == {i \in 1..Len(before) : regs[i] # before[i]}
<1>1. ASSUME saving = None PROVE got = regs
  <2>1. regs \in Seq(RegValue) /\ Whole(file, regs)
    BY <1>1 DEF RegIInv, RegTypes, SavedOK
  <2> QED
    BY <2>1, WholeReads
<1>2. ASSUME saving # None, same
      PROVE  /\ Reg!Cardinality(changed) <= 1
             /\ \A i \in 1..Len(before) \ changed : i <= Len(got) /\ got[i] = before[i]
  <2>1. Reg!Cardinality(changed) <= 1
    <3>1. PICK c : changed \subseteq {c}
      <4>1. OneApart(before, regs)
        BY <1>2 DEF RegIInv, SavingOK
      <4> QED
        BY <4>1 DEF OneApart
    <3> HIDE DEF changed
    <3>2. IsFiniteSet({c}) /\ Cardinality({c}) = 1
      BY FS_Singleton
    <3>3. Cardinality(changed) <= 1
      BY <3>1, <3>2, FS_Subset
    <3>4. Reg!Cardinality(changed) = Cardinality(changed)
      BY Zenon DEF Reg!Cardinality, Cardinality
    <3> QED
      BY <3>3, <3>4
  <2>2. before \in Seq(RegValue) /\ Len(before) \in Nat
    BY DEF RegIInv, RegTypes
  <2>3. /\ Len(before) <= Len(got)
        /\ \A i \in 1..Len(before) : regs[i] = before[i] => got[i] = before[i]
    BY <1>2, SavingReads
  <2>4. Len(got) \in Nat
    BY <1>2, SavingReads
  <2>5. ASSUME NEW i \in 1..Len(before) \ changed PROVE i <= Len(got) /\ got[i] = before[i]
    BY <2>2, <2>3, <2>4
  <2> QED
    BY <2>1, <2>5
<1> QED
  BY <1>1, <1>2 DEF Reg!SurvivesStop, Reg!Idle

\* A value is found by its name if it is the first of it.
LEMMA FirstFound ==
  ASSUME regs \in Seq(RegValue), NEW i \in 1..Len(regs), \A j \in 1..(i - 1) : regs[j].name # regs[i].name
  PROVE  Reg!find_value_by_name(regs[i].name) = i
<1> PICK k \in 0..Len(regs), n \in Nat : n = Len(regs) /\ k = Reg!find_value_by_name(regs[i].name)
  BY FoundValue
<1>1. k \in 0..n /\ k # 0
  BY FoundValue
<1>2. regs[k].name = regs[i].name /\ k <= i
  BY <1>1, FoundValue
<1>3. ~(k < i)
  <2> SUFFICES ASSUME k < i PROVE FALSE
    OBVIOUS
  <2>1. k \in 1..(i - 1)
    BY <1>1
  <2> QED
    BY <1>2, <2>1
<1> QED
  BY <1>1, <1>2, <1>3

\* A query for it answers all of it, if there is room.
LEMMA QueryAnswers ==
  ASSUME regs \in Seq(RegValue), NEW i \in 1..Len(regs), \A j \in 1..(i - 1) : regs[j].name # regs[i].name,
         NEW h, Reg!find_handle(h) # None, NEW sub, Reg!build_keyname(h, sub) = regs[i].name,
         NEW room \in Nat, Len(regs[i].value) <= room
  PROVE  Reg!RegQueryValueExA(h, sub, room)
           = [answer |-> 0, type |-> regs[i].type, count |-> Len(regs[i].value), data |-> regs[i].value]
<1> PICK v \in Seq(Nat), l \in Nat : v = regs[i].value /\ l = Len(v)
  <2>1. regs[i] \in RegValue
    OBVIOUS
  <2> QED
    BY ONLY <2>1, ValueParts, Zenon
<1>1. SubSeq(v, 1, l) = v /\ (IF l < room THEN l ELSE room) = l /\ ~(room < l)
  OBVIOUS
<1>2. Reg!find_value_by_name(Reg!build_keyname(h, sub)) = i /\ i # 0
  BY FirstFound
<1> QED
  BY <1>1, <1>2 DEF Reg!RegQueryValueExA

LEMMA AllFound == RegIInv => Reg!ValuesFound
<1> SUFFICES ASSUME RegIInv, regs # None, ~damaged, NEW i \in 1..Len(regs),
                    ~(cut /\ \E j \in 1..(i - 1) : regs[j].name = regs[i].name)
             PROVE  /\ \A h \in Reg!Handles, sub \in KeysUsed : Reg!build_keyname(h, sub) = regs[i].name =>
                         Reg!expRegQueryValueExA(h, sub, Len(regs[i].value)) =
                           [answer |-> 0, type |-> regs[i].type, count |-> Len(regs[i].value), data |-> regs[i].value]
                    /\ regs[i].name = <<"HKLM">> \o ProfileUsed =>
                         /\ Len(regs[i].value) <= 255 => Reg!expGetPrivateProfileIntA(None) = regs[i].value
                         /\ \A len \in 0..4 : Len(regs[i].value) <= len => Reg!expGetPrivateProfileStringA(len) <= len
  BY DEF Reg!ValuesFound
<1>1. regs \in Seq(RegValue) /\ HeadOK
  BY DEF RegIInv, RegTypes
<1>2. \A j \in 1..(i - 1) : regs[j].name # regs[i].name
  BY DEF RegIInv, NamesOK, NamesDiffer
<1>3. Len(regs[i].value) \in Nat
  BY <1>1 DEF RegValue
<1>4. ASSUME NEW h \in Reg!Handles, NEW sub \in KeysUsed, Reg!build_keyname(h, sub) = regs[i].name
      PROVE  Reg!expRegQueryValueExA(h, sub, Len(regs[i].value)) =
               [answer |-> 0, type |-> regs[i].type, count |-> Len(regs[i].value), data |-> regs[i].value]
  <2>1. Reg!find_handle(h) # None
    BY <1>1, FoundHandle DEF Reg!Handles
  <2>2. Len(regs[i].value) <= Len(regs[i].value)
    BY <1>3
  <2> QED
    BY <1>1, <1>2, <1>3, <1>4, <2>1, <2>2, QueryAnswers DEF Reg!expRegQueryValueExA
<1>5. ASSUME regs[i].name = <<"HKLM">> \o ProfileUsed
      PROVE  /\ Len(regs[i].value) <= 255 => Reg!expGetPrivateProfileIntA(None) = regs[i].value
             /\ \A len \in 0..4 : Len(regs[i].value) <= len => Reg!expGetPrivateProfileStringA(len) <= len
  <2>1. Reg!find_handle(1) # None
    BY <1>1, FoundHandle DEF HeadOK
  <2>2. Reg!find_handle(1).name = <<"HKLM">>
    BY <1>1, <2>1, FoundHandle DEF HeadOK
  <2>3. Reg!build_keyname(1, ProfileUsed) = regs[i].name
    <3>1. ProfileUsed # None
      BY RegistryAssumption
    <3> QED
      BY <1>5, <2>2, <3>1 DEF Reg!build_keyname
  <2>4. ASSUME NEW room \in Nat, Len(regs[i].value) <= room
        PROVE  Reg!RegQueryValueExA(Reg!HKEY_LOCAL_MACHINE, ProfileUsed, room) =
                 [answer |-> 0, type |-> regs[i].type, count |-> Len(regs[i].value), data |-> regs[i].value]
    BY <1>1, <1>2, <2>1, <2>3, <2>4, QueryAnswers DEF Reg!HKEY_LOCAL_MACHINE
  <2>5. ASSUME Len(regs[i].value) <= 255 PROVE Reg!expGetPrivateProfileIntA(None) = regs[i].value
    BY <2>4, <2>5 DEF Reg!expGetPrivateProfileIntA
  <2>6. ASSUME NEW len \in 0..4, Len(regs[i].value) <= len PROVE Reg!expGetPrivateProfileStringA(len) <= len
    <3>1. len \in Nat
      OBVIOUS
    <3>2. Reg!expGetPrivateProfileStringA(len) = Len(regs[i].value)
      BY <2>4, <2>6, <3>1 DEF Reg!expGetPrivateProfileStringA
    <3> QED
      BY <2>6, <3>2
  <2> QED
    BY <2>5, <2>6
<1> QED
  BY <1>4, <1>5

LEMMA RegGoal == RegIInv => Reg!SurvivesStop /\ Reg!ValuesFound
BY StopSurvived, AllFound

-----------------------------------------------------------------------------
(* The parts together *)

allVars == <<part, vars, stubVars, acmVars, regVars, nameVars, cpuVars, timeVars>>

TablesIInv == MemIInv /\ StubIInv /\ AcmIInv /\ RegIInv

\* The invariants hold at first, whichever part runs,
LEMMA TablesInit == AnyInit => TablesIInv
BY MemInit, StubInit, AcmInit, RegInit DEF AnyInit, TablesIInv

\* and a step is one of each part or leaves it alone.
LEMMA TablesNext == TablesIInv /\ [AnyNext]_allVars => TablesIInv'
<1> SUFFICES ASSUME TablesIInv, [AnyNext]_allVars PROVE TablesIInv'
  OBVIOUS
<1>1. [Next]_vars /\ [Stubs!Next]_stubVars /\ [Acm!Next]_acmVars /\ [Reg!Next]_regVars
  <2>1. CASE MemoryNext
    BY <2>1 DEF MemoryNext
  <2>2. CASE ImportsNext
    BY <2>2 DEF ImportsNext
  <2>3. CASE DriversNext
    BY <2>3 DEF DriversNext
  <2>4. CASE RegistryNext
    BY <2>4 DEF RegistryNext
  <2>5. CASE NamesNext
    BY <2>5 DEF NamesNext
  <2>6. CASE SystemNext
    BY <2>6 DEF SystemNext
  <2>7. CASE ClockNext
    BY <2>7 DEF ClockNext
  <2>8. CASE UNCHANGED allVars
    BY <2>8 DEF allVars
  <2> QED
    BY <2>1, <2>2, <2>3, <2>4, <2>5, <2>6, <2>7, <2>8 DEF AnyNext
<1> QED
  BY <1>1, MemNext, StubNext, AcmNext, RegNext DEF TablesIInv

\* So they hold of every behaviour.
LEMMA TablesInvariant == AnySpec => []TablesIInv
BY TablesInit, TablesNext, PTL DEF AnySpec, allVars

\* PE_LoadImage: whatever the pages, sections and file offsets, an image that is loaded
\* holds its sections' data and zeros up to their sizes, and nothing is mapped outside
\* the memory that was reserved for it.
THEOREM ImageIsFileAlways == AnySpec => []ImageIsFile
BY TablesInvariant, MemGoals, PTL DEF TablesIInv

\* PE_LoadImage's error path: whichever call fails, a load leaves no view and no memory
\* behind that is neither a module's nor a codec's, and each of these has its own.
THEOREM LoadLeavesNothingAlways == AnySpec => []LoadLeavesNothing
BY TablesInvariant, MemGoals, PTL DEF TablesIInv

\* add_stub: a stub that was handed out for a name that fits its slot tells that name, and
\* a name has one stub, until the slots run out.
THEOREM StubsTellAlways == AnySpec => []StubsTell
<1>1. TablesIInv => StubsTell
  BY StubGoal DEF TablesIInv, StubsTell
<1> QED
  BY <1>1, TablesInvariant, PTL

\* afl.c, vfl.c, driver.c: whatever is opened, closed, registered and removed, an open
\* handle has its driver, the count of codecs is that of drivers and streams, and a
\* stream converts only memory its driver was told about.
THEOREM DriversServeAlways == AnySpec => []DriversServe
<1>1. TablesIInv => DriversServe
  BY AcmGoal DEF TablesIInv, DriversServe
<1> QED
  BY <1>1, TablesInvariant, PTL

\* registry.c: whatever is opened, set and closed, and wherever a process stops, the next
\* one reads what was saved last, or in a save that replaces a value by one as long or
\* adds one, all but that value; and every value is found by its name, whole, through
\* whichever open key, unless a former record of its name is found in its place.
THEOREM RegistryKeptAlways == AnySpec => []RegistryKept
<1>1. TablesIInv => RegistryKept
  BY RegGoal DEF TablesIInv, RegistryKept
<1> QED
  BY <1>1, TablesInvariant, PTL
=============================================================================

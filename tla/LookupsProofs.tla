---------------------------- MODULE LookupsProofs ---------------------------
(***************************************************************************)
(* What is looked up agrees with what is there (LookupsAgree of MCTables): *)
(* libraries for any files and names, the processor's features and the     *)
(* clock's frequency for any file that tells of them; and exports,         *)
(* resources, strings, imports and fixups for any images.                  *)
(*                                                                         *)
(* The libraries, the processor and the clock each have an inductive       *)
(* invariant; a step leaves the other parts alone.  What is looked up in   *)
(* an image depends on the image alone: there the proofs are about the     *)
(* functions of PeLookup and ExportStubs, whose recursion goes over the    *)
(* positions of a table or the fixups of a block.                          *)
(***************************************************************************)
EXTENDS MCTables, SequenceTheorems, FiniteSetTheorems, NaturalsInduction, WellFoundedInduction, TLAPS
-----------------------------------------------------------------------------
(* Numbers *)

\* A set of numbers has a least one.
LEMMA LeastOf ==
  ASSUME NEW T \in SUBSET Nat, T # {}
  PROVE  \E m \in T : \A k \in T : m <= k
<1>1. IsWellFoundedOn(OpToRel(<, Nat), Nat)
  BY NatLessThanWellFounded
<1> DEFINE R == OpToRel(<, Nat)
<1>2. \A x, y \in Nat : <<x, y>> \in R <=> x < y
  BY DEF OpToRel
<1>3. PICK m \in T : \A y \in T : ~(<<y, m>> \in R)
  <2> HIDE DEF R
  <2>1. IsWellFoundedOn(R, Nat)
    BY <1>1 DEF R
  <2> QED
    BY <2>1, WFMin, Zenon
<1> HIDE DEF R
<1>4. ASSUME NEW k \in T PROVE m <= k
  <2>1. k \in Nat /\ m \in Nat /\ ~(<<k, m>> \in R)
    BY <1>3
  <2>2. ~(k < m)
    BY <2>1, <1>2
  <2> QED
    BY <2>1, <2>2
<1> QED
  BY <1>4

\* What holds of zero, and of each next number as well, holds up to n.
LEMMA UpTo ==
  ASSUME NEW n \in Nat, NEW S, 0 \in S, \A i \in 0..(n - 1) : i \in S => i + 1 \in S
  PROVE  \A i \in 0..n : i \in S
<1> DEFINE T == {i \in 0..n : i \notin S}
<1> SUFFICES ASSUME T # {} PROVE FALSE
  OBVIOUS
<1>1. PICK m \in T : \A k \in T : m <= k
  <2>1. T \in SUBSET Nat
    OBVIOUS
  <2> HIDE DEF T
  <2> QED
    BY <2>1, LeastOf
<1>2. m # 0 /\ m \in 0..n /\ m \notin S
  BY <1>1
<1>3. m - 1 \in 0..(n - 1) /\ m - 1 \in S
  BY <1>1, <1>2
<1> QED
  BY <1>1, <1>3

-----------------------------------------------------------------------------
(* The processor's invariant *)

\* v is the value of the last of the first k pieces that has one of the keys, or is
\* the one to begin with.
LastUpTo(file_, k, keys, default, v) ==
  \/ (\A j \in 1..k : file_[j].key \notin keys) /\ v = default
  \/ \E j \in 1..k : file_[j].key \in keys /\ v = file_[j].value /\ \A l \in (j + 1)..k : file_[l].key \notin keys
ShownUpTo(file_, k) == UNION {System!Shows(file_[j]) : j \in 1..k}

Families == {"cpu family", "cpu"}

CpuTypes ==
  /\ cpuinfo \in CpuInfosUsed
  /\ cache \in BOOLEAN /\ pf_set \in BOOLEAN /\ together \in BOOLEAN /\ unread \in BOOLEAN
  /\ cachedsi = [type |-> cachedsi.type, revision |-> cachedsi.revision, number |-> cachedsi.number]
  /\ reads \in [Threads -> Nat] /\ wants \in [Threads -> {None, "info"} \cup FeaturesAsked]
  /\ info = [c \in Threads |-> info[c]] /\ answer = [c \in Threads |-> answer[c]]
  /\ \A c \in Threads : reads[c] <= Len(cpuinfo)
  /\ cache => pf_set
  /\ \A c \in Threads : System!Idle(c) \/ pf_set

\* Nothing is told that is not shown.
OnlyShown ==
  /\ PF \subseteq System!Shown
  /\ \A c \in Threads : answer[c] # None => (answer[c].present => answer[c].feature \in System!Shown)

\* As long as no two callers met: one that reads has what the pieces it has read say,
\* and when nobody reads and the file could be, the statics are complete.
ReadAlone ==
  /\ \A c, d \in Threads : c = d \/ System!Idle(c) \/ System!Idle(d)
  /\ \A c \in Threads : ~System!Idle(c) =>
       /\ pf_set /\ ~cache /\ PF = ShownUpTo(cpuinfo, reads[c])
       /\ \E v : LastUpTo(cpuinfo, reads[c], Families, 3, v) /\ cachedsi.type = System!TypeOf(v)
       /\ LastUpTo(cpuinfo, reads[c], {"stepping"}, 257, cachedsi.revision)
  /\ cache => cachedsi = System!InfoOfFile /\ PF = System!Shown
  /\ pf_set /\ ~unread /\ (\A c \in Threads : System!Idle(c)) => PF = System!Shown

\* Nothing is told that the file does not say, or denied.
ToldAlone ==
  \A c \in Threads :
    /\ info[c] \in {None, System!InfoOfFile}
    /\ answer[c] # None /\ ~unread => (answer[c].feature \in System!Shown => answer[c].present)

CpuIInv == CpuTypes /\ OnlyShown /\ (~together => ReadAlone /\ ToldAlone)

LEMMA CpuFile ==
  ASSUME CpuTypes
  PROVE  Len(cpuinfo) \in Nat /\ DOMAIN cpuinfo = 1..Len(cpuinfo)
BY SystemAssumption DEF CpuTypes

\* With all pieces read, what was read last is what the file says.
LEMMA LastIs ==
  ASSUME CpuTypes, NEW keys, NEW default, NEW v, LastUpTo(cpuinfo, Len(cpuinfo), keys, default, v)
  PROVE  System!LastOf(keys, default) = v
<1> DEFINE at == {i \in DOMAIN cpuinfo : cpuinfo[i].key \in keys}
<1>1. Len(cpuinfo) \in Nat /\ DOMAIN cpuinfo = 1..Len(cpuinfo)
  BY CpuFile
<1>2. System!LastOf(keys, default) = IF at = {} THEN default ELSE cpuinfo[System!Max(at)].value
  BY Zenon DEF System!LastOf, System!Pieces
<1>3. CASE at = {}
  BY <1>1, <1>2, <1>3 DEF LastUpTo
<1>4. CASE at # {}
  <2>1. PICK j \in 1..Len(cpuinfo) : cpuinfo[j].key \in keys /\ v = cpuinfo[j].value /\ \A l \in (j + 1)..Len(cpuinfo) : cpuinfo[l].key \notin keys
    BY <1>1, <1>4 DEF LastUpTo
  <2>2. j \in at /\ \A i \in at : i <= j /\ i \in Int
    BY <1>1, <2>1 
  <2> HIDE DEF at
  <2>3. System!Max(at) \in at /\ \A i \in at : System!Max(at) >= i
    BY <2>2 DEF System!Max
  <2>4. System!Max(at) = j
    <3> PICK m : m = System!Max(at)
      OBVIOUS
    <3>1. m \in Int /\ m <= j /\ m >= j /\ j \in Int
      BY <2>2, <2>3
    <3> QED
      BY ONLY <3>1, m = System!Max(at)
  <2> QED
    BY <1>2, <1>4, <2>1, <2>4
<1> QED
  BY <1>3, <1>4

LEMMA AllShown ==
  ASSUME CpuTypes
  PROVE  /\ ShownUpTo(cpuinfo, Len(cpuinfo)) = System!Shown
         /\ \A k \in 0..Len(cpuinfo) : ShownUpTo(cpuinfo, k) \subseteq System!Shown
BY CpuFile DEF ShownUpTo, System!Shown

\* One piece more.
LEMMA LastOneMore ==
  ASSUME CpuTypes, NEW k \in Nat, NEW keys, NEW default, NEW v, NEW w, LastUpTo(cpuinfo, k, keys, default, v),
         w = IF cpuinfo[k + 1].key \in keys THEN cpuinfo[k + 1].value ELSE v
  PROVE  LastUpTo(cpuinfo, k + 1, keys, default, w)
<1>1. CASE cpuinfo[k + 1].key \in keys
  <2>1. k + 1 \in 1..(k + 1) /\ \A l \in ((k + 1) + 1)..(k + 1) : cpuinfo[l].key \notin keys
    OBVIOUS
  <2> QED
    BY <1>1, <2>1 DEF LastUpTo
<1>2. CASE cpuinfo[k + 1].key \notin keys
  <2>1. w = v /\ \A j \in 1..(k + 1) : j \in 1..k \/ j = k + 1
    BY <1>2
  <2>2. CASE (\A j \in 1..k : cpuinfo[j].key \notin keys) /\ v = default
    BY <1>2, <2>1, <2>2 DEF LastUpTo
  <2>3. ASSUME NEW j \in 1..k, cpuinfo[j].key \in keys, v = cpuinfo[j].value, \A l \in (j + 1)..k : cpuinfo[l].key \notin keys
        PROVE  LastUpTo(cpuinfo, k + 1, keys, default, w)
    <3>1. j \in 1..(k + 1) /\ \A l \in (j + 1)..(k + 1) : cpuinfo[l].key \notin keys
      BY <1>2, <2>3
    <3> QED
      BY <2>1, <2>3, <3>1 DEF LastUpTo
  <2> QED
    BY <2>2, <2>3 DEF LastUpTo
<1> QED
  BY <1>1, <1>2

LEMMA ShownOneMore ==
  ASSUME NEW k \in Nat
  PROVE  ShownUpTo(cpuinfo, k + 1) = ShownUpTo(cpuinfo, k) \cup System!Shows(cpuinfo[k + 1])
<1>1. 1..(k + 1) = 1..k \cup {k + 1}
  OBVIOUS
<1> QED
  BY <1>1 DEF ShownUpTo

cpuFrame == <<cpuinfo, cache, pf_set, PF, cachedsi>>

\* What the file says does not change.
LEMMA SameFile ==
  ASSUME UNCHANGED cpuinfo
  PROVE  /\ System!Shown' = System!Shown /\ System!InfoOfFile' = System!InfoOfFile
BY DEF System!Shown, System!InfoOfFile, System!LastOf, System!Pieces

LEMMA CpuInit == AnyInit => CpuIInv
<1> SUFFICES ASSUME AnyInit PROVE CpuIInv
  OBVIOUS
<1>1. System!Init
  BY DEF AnyInit
<1>2. CpuTypes
  <2>1. Len(cpuinfo) \in Nat
    BY <1>1, SystemAssumption DEF System!Init
  <2>2. info = [c \in Threads |-> info[c]] /\ answer = [c \in Threads |-> answer[c]]
    <3>1. info = [c \in Threads |-> None] /\ answer = [c \in Threads |-> None]
      BY <1>1 DEF System!Init
    <3>2. \A c \in Threads : info[c] = None /\ answer[c] = None
      BY <3>1
    <3> QED
      BY ONLY <3>1, <3>2
  <2>3. cachedsi = [type |-> cachedsi.type, revision |-> cachedsi.revision, number |-> cachedsi.number]
    BY <1>1 DEF System!Init
  <2>4. reads \in [Threads -> Nat] /\ \A c \in Threads : reads[c] = 0
    BY <1>1 DEF System!Init
  <2>5. wants \in [Threads -> {None, "info"} \cup FeaturesAsked]
    BY <1>1 DEF System!Init
  <2>6. \A c \in Threads : reads[c] <= Len(cpuinfo)
    BY <2>1, <2>4
  <2>8. \A c \in Threads : System!Idle(c)
    BY <1>1 DEF System!Init, System!Idle
  <2>7. cpuinfo \in CpuInfosUsed /\ cache = FALSE /\ pf_set = FALSE /\ together = FALSE /\ unread = FALSE
    BY <1>1 DEF System!Init
  <2> QED
    BY ONLY <2>2, <2>3, <2>4, <2>5, <2>6, <2>7, <2>8, Zenon DEF CpuTypes
<1>3. OnlyShown
  BY <1>1 DEF System!Init, OnlyShown
<1>4. ReadAlone /\ ToldAlone
  BY <1>1 DEF System!Init, System!Idle, ReadAlone, ToldAlone
<1> QED
  BY <1>2, <1>3, <1>4 DEF CpuIInv

\* A call that reads the file begins with the statics cleared.
LEMMA CpuBegins ==
  ASSUME CpuIInv, NEW c \in Threads, NEW what \in {"info"} \cup FeaturesAsked, System!Idle(c), System!Meets(c),
         ~cache, System!Begin(c, what), UNCHANGED <<cpuinfo, unread>>
  PROVE  CpuIInv'
<1>1. /\ CpuTypes /\ wants[c] = None /\ together' = (together \/ \E d \in Threads \ {c} : wants[d] # None)
      /\ PF' = {} /\ pf_set' = TRUE /\ cachedsi' = [type |-> 386, revision |-> 257, number |-> 1]
      /\ reads' = [reads EXCEPT ![c] = 0] /\ wants' = [wants EXCEPT ![c] = what]
      /\ UNCHANGED <<cpuinfo, unread, cache, info, answer>>
  BY DEF CpuIInv, System!Idle, System!Meets, System!Begin, System!Blank
<1>2. what # None
  BY SystemAssumption
<1>3. CpuTypes'
  <2>1. Len(cpuinfo) \in Nat
    BY <1>1, CpuFile
  <2> QED
    BY <1>1, <2>1 DEF CpuTypes
<1>4. OnlyShown'
  BY <1>1, SameFile DEF CpuIInv, OnlyShown
<1>5. ASSUME ~together' PROVE ReadAlone' /\ ToldAlone'
  <2>1. ~together /\ ReadAlone /\ ToldAlone /\ \A d \in Threads : d # c => wants[d] = None
    BY <1>1, <1>5 DEF CpuIInv
  <2>2. ToldAlone'
    BY <1>1, <2>1, SameFile DEF ToldAlone
  <2>3. wants'[c] = what /\ reads'[c] = 0 /\ \A d \in Threads : d # c => wants'[d] = None
    BY <1>1, <2>1 DEF CpuTypes
  <2>4. LastUpTo(cpuinfo, 0, Families, 3, 3) /\ LastUpTo(cpuinfo, 0, {"stepping"}, 257, 257) /\ ShownUpTo(cpuinfo, 0) = {}
    BY DEF LastUpTo, ShownUpTo
  <2>5. System!TypeOf(3) = 386
    BY DEF System!TypeOf
  <2>6. ReadAlone'
    BY <1>1, <1>2, <2>1, <2>3, <2>4, <2>5 DEF ReadAlone, System!Idle, System!TypeOf
  <2> QED
    BY <2>2, <2>6
<1> QED
  BY <1>3, <1>4, <1>5 DEF CpuIInv

LEMMA ToldOf ==
  ASSUME NEW f, NEW S, NEW told_, told_ = [feature |-> f, present |-> f \in S]
  PROVE  told_.feature = f /\ (told_.present <=> f \in S)
<1>1. CASE f \in S
  <2>1. told_ = [feature |-> f, present |-> TRUE]
    BY <1>1
  <2> QED
    BY ONLY <1>1, <2>1
<1>2. CASE f \notin S
  <2>1. (f \in S) = FALSE
    BY ONLY <1>2
  <2>2. told_ = [feature |-> f, present |-> FALSE]
    BY ONLY <2>1, told_ = [feature |-> f, present |-> f \in S], Zenon
  <2> QED
    BY ONLY <1>2, <2>2
<1> QED
  BY ONLY <1>1, <1>2

\* A call that finds the statics tells what is there.
LEMMA CpuTells ==
  ASSUME CpuIInv, NEW c \in Threads, System!Idle(c), System!Meets(c), UNCHANGED <<cpuFrame, reads, wants, unread>>,
         \/ cache /\ info' = [info EXCEPT ![c] = cachedsi] /\ UNCHANGED answer
         \/ \E f \in FeaturesAsked : pf_set /\ System!Tell(c, f) /\ UNCHANGED info
  PROVE  CpuIInv'
<1>1. /\ CpuTypes /\ wants[c] = None /\ together' = (together \/ \E d \in Threads \ {c} : wants[d] # None)
      /\ UNCHANGED <<cpuinfo, cache, pf_set, PF, cachedsi, reads, wants, unread>>
  BY DEF CpuIInv, System!Idle, System!Meets, cpuFrame
<1>2. CASE cache /\ info' = [info EXCEPT ![c] = cachedsi] /\ UNCHANGED answer
  <2>1. CpuTypes'
    BY <1>1, <1>2 DEF CpuTypes
  <2>2. OnlyShown'
    BY <1>1, <1>2, SameFile DEF CpuIInv, OnlyShown
  <2>3. ASSUME ~together' PROVE ReadAlone' /\ ToldAlone'
    <3>1. ReadAlone /\ ToldAlone
      BY <1>1, <2>3 DEF CpuIInv
    <3>2. ReadAlone'
      BY <1>1, <3>1, SameFile DEF ReadAlone, System!Idle, System!TypeOf
    <3>3. cachedsi = System!InfoOfFile
      BY <1>2, <3>1 DEF ReadAlone
    <3>4. ToldAlone'
      BY <1>1, <1>2, <3>1, <3>3, SameFile DEF ToldAlone, CpuTypes
    <3> QED
      BY <3>2, <3>4
  <2> QED
    BY <2>1, <2>2, <2>3 DEF CpuIInv
<1>3. ASSUME NEW f \in FeaturesAsked, pf_set, System!Tell(c, f), UNCHANGED info PROVE CpuIInv'
  <2>1. answer' = [answer EXCEPT ![c] = [feature |-> f, present |-> f \in PF]]
    BY <1>3 DEF System!Tell
  <2>2. CpuTypes'
    BY <1>1, <1>3, <2>1 DEF CpuTypes
  <2>3. \A d \in Threads : answer'[d] = IF d = c THEN [feature |-> f, present |-> f \in PF] ELSE answer[d]
    BY <1>1, <2>1 DEF CpuTypes
  <2>6. answer'[c].feature = f /\ (answer'[c].present <=> f \in PF)
    <3>1. answer'[c] = [feature |-> f, present |-> f \in PF]
      BY <2>3
    <3> QED
      BY ONLY <3>1, ToldOf, Zenon
  <2>4. OnlyShown'
    <3>1. PF' \subseteq System!Shown'
      BY <1>1, SameFile DEF CpuIInv, OnlyShown
    <3>2. ASSUME NEW d \in Threads, answer'[d] # None, answer'[d].present PROVE answer'[d].feature \in System!Shown'
      <4>1. CASE d = c
        BY <2>6, <3>1, <3>2, <4>1, <1>1
      <4>2. CASE d # c
        BY <1>1, <2>3, <3>2, <4>2, SameFile DEF CpuIInv, OnlyShown
      <4> QED
        BY <4>1, <4>2
    <3> QED
      BY <3>1, <3>2 DEF OnlyShown
  <2>5. ASSUME ~together' PROVE ReadAlone' /\ ToldAlone'
    <3>1. ReadAlone /\ ToldAlone /\ \A d \in Threads : System!Idle(d)
      BY <1>1, <2>5 DEF CpuIInv, System!Idle
    <3>2. ReadAlone'
      BY <1>1, <3>1, SameFile DEF ReadAlone, System!Idle, System!TypeOf
    <3>3. ~unread => PF = System!Shown
      BY <1>3, <3>1 DEF ReadAlone
    <3>4. ASSUME NEW d \in Threads
          PROVE  /\ info'[d] \in {None, System!InfoOfFile'}
                 /\ answer'[d] # None /\ ~unread' => (answer'[d].feature \in System!Shown' => answer'[d].present)
      <4>1. CASE d = c
        BY <1>1, <1>3, <2>6, <3>1, <3>3, <4>1, SameFile DEF ToldAlone
      <4>2. CASE d # c
        BY <1>1, <1>3, <2>3, <3>1, <4>2, SameFile DEF ToldAlone
      <4> QED
        BY <4>1, <4>2
    <3>5. ToldAlone'
      BY <3>4 DEF ToldAlone
    <3> QED
      BY <3>2, <3>5
  <2> QED
    BY <2>2, <2>4, <2>5 DEF CpuIInv
<1> QED
  BY <1>2, <1>3

\* A call that read the file returns: what it tells is what the file says, unless the
\* file could not be opened.
LEMMA CpuReturns ==
  ASSUME CpuIInv, NEW c \in Threads, ~System!Idle(c), NEW filled \in BOOLEAN, System!Return(c, filled),
         UNCHANGED <<cpuinfo, PF, pf_set, reads, together>>,
         unread' \in BOOLEAN, unread => unread', cache' \in BOOLEAN, cache' => pf_set,
         cachedsi' = [type |-> cachedsi'.type, revision |-> cachedsi'.revision, number |-> cachedsi'.number],
         filled \/ unread', ~together /\ (filled \/ cache') => cachedsi' = System!InfoOfFile /\ PF = System!Shown
  PROVE  CpuIInv'
<1>1. CpuTypes /\ UNCHANGED <<cpuinfo, PF, pf_set, reads, together>>
  BY DEF CpuIInv
<1>2. /\ wants' = [wants EXCEPT ![c] = None]
      /\ \/ info' = [info EXCEPT ![c] = IF filled THEN cachedsi' ELSE None] /\ UNCHANGED answer
         \/ /\ answer' = [answer EXCEPT ![c] = [feature |-> wants[c], present |-> wants[c] \in PF]]
            /\ UNCHANGED info
  BY DEF System!Return, System!Tell
<1>3. CpuTypes'
  BY <1>1, <1>2 DEF CpuTypes
<1>4. \A d \in Threads :
        /\ wants'[d] = IF d = c THEN None ELSE wants[d]
        /\ info'[d] = info[d] \/ (d = c /\ info'[d] = IF filled THEN cachedsi' ELSE None)
        /\ \/ answer'[d] = answer[d]
           \/ (d = c /\ answer'[d] = [feature |-> wants[c], present |-> wants[c] \in PF])
  BY <1>1, <1>2 DEF CpuTypes
<1>5. ASSUME NEW d \in Threads, answer'[d] # answer[d]
      PROVE  answer'[d].feature = wants[c] /\ (answer'[d].present <=> wants[c] \in PF)
  <2>1. answer'[d] = [feature |-> wants[c], present |-> wants[c] \in PF]
    BY <1>4, <1>5
  <2> QED
    BY ONLY <2>1, ToldOf, Zenon
<1>6. System!Shown' = System!Shown /\ System!InfoOfFile' = System!InfoOfFile
  BY <1>1, SameFile
<1>7. OnlyShown'
  <2>1. PF' \subseteq System!Shown'
    BY <1>1, <1>6 DEF CpuIInv, OnlyShown
  <2>2. ASSUME NEW d \in Threads, answer'[d] # None, answer'[d].present PROVE answer'[d].feature \in System!Shown
    <3>1. CASE answer'[d] = answer[d]
      BY <2>2, <3>1 DEF CpuIInv, OnlyShown
    <3>2. CASE answer'[d] # answer[d]
      BY <1>1, <1>5, <1>6, <2>1, <2>2, <3>2
    <3> QED
      BY <3>1, <3>2
  <2> QED
    BY <1>6, <2>1, <2>2 DEF OnlyShown
<1>8. ASSUME ~together PROVE ReadAlone' /\ ToldAlone'
  <2>1. ReadAlone /\ ToldAlone
    BY <1>8 DEF CpuIInv
  <2>2. \A d \in Threads : wants'[d] = None
    BY <1>4, <2>1 DEF ReadAlone, System!Idle
  <2>3. ~unread' => PF = System!Shown
    BY <1>8
  <2>4. ReadAlone'
    <3>1. \A d \in Threads : System!Idle(d)'
      BY <2>2 DEF System!Idle
    <3>2. cache' => cachedsi' = System!InfoOfFile /\ PF' = System!Shown
      BY <1>1, <1>8
    <3> QED
      BY <1>1, <1>6, <2>3, <3>1, <3>2 DEF ReadAlone
  <2>5. ASSUME NEW d \in Threads PROVE info'[d] \in {None, System!InfoOfFile}
    BY <1>4, <1>8, <2>1 DEF ToldAlone
  <2>6. ASSUME NEW d \in Threads, answer'[d] # None, ~unread', answer'[d].feature \in System!Shown PROVE answer'[d].present
    <3>1. CASE answer'[d] = answer[d]
      BY <2>1, <2>6, <3>1 DEF ToldAlone
    <3>2. CASE answer'[d] # answer[d]
      BY <1>5, <2>3, <2>6, <3>2
    <3> QED
      BY <3>1, <3>2
  <2>7. ToldAlone'
    BY <1>6, <2>5, <2>6 DEF ToldAlone
  <2> QED
    BY <2>4, <2>7
<1> QED
  BY <1>1, <1>3, <1>7, <1>8 DEF CpuIInv

\* One piece of the file.
LEMMA CpuReads ==
  ASSUME CpuIInv, NEW c \in Threads, System!ReadPiece(c)
  PROVE  CpuIInv'
<1> PICK k, p : k = reads[c] /\ p = cpuinfo[k + 1]
  OBVIOUS
<1>1. /\ CpuTypes /\ ~System!Idle(c) /\ k < Len(cpuinfo) /\ reads' = [reads EXCEPT ![c] = k + 1]
      /\ UNCHANGED <<cpuinfo, cache, pf_set, wants, info, answer, together, unread>>
  BY DEF CpuIInv, System!ReadPiece
<1>2. k \in Nat /\ k + 1 \in 1..Len(cpuinfo) /\ DOMAIN cpuinfo = 1..Len(cpuinfo) /\ Len(cpuinfo) \in Nat
  BY <1>1, CpuFile DEF CpuTypes
<1>3. \/ p.key \in Families /\ cachedsi' = [cachedsi EXCEPT !.type = System!TypeOf(p.value)] /\ PF' = PF
      \/ /\ p.key = "processor" /\ PF' = PF
         /\ \E n : cachedsi' = [cachedsi EXCEPT !.number = n]
      \/ p.key = "stepping" /\ cachedsi' = [cachedsi EXCEPT !.revision = p.value] /\ PF' = PF
      \/ /\ p.key \notin Families \cup {"processor", "stepping"}
         /\ PF' = PF \cup System!Shows(p) /\ cachedsi' = cachedsi
  <2>1. CASE p.key \in Families
    BY <2>1 DEF System!ReadPiece, System!CpuFamily, Families
  <2>2. CASE p.key = "processor"
    <3>1. System!Processor(p)
      BY <2>2 DEF System!ReadPiece
    <3> QED
      BY <2>2, <3>1, Zenon DEF System!Processor
  <2>3. CASE p.key = "stepping"
    BY <2>3 DEF System!ReadPiece, System!Stepping
  <2>4. CASE p.key \notin Families \cup {"processor", "stepping"}
    BY <2>4 DEF System!ReadPiece, System!Features, Families
  <2> QED
    BY <2>1, <2>2, <2>3, <2>4
<1>4. /\ PF' = PF \cup System!Shows(p)
      /\ cachedsi'.type = IF p.key \in Families THEN System!TypeOf(p.value) ELSE cachedsi.type
      /\ cachedsi'.revision = IF p.key = "stepping" THEN p.value ELSE cachedsi.revision
      /\ cachedsi' = [type |-> cachedsi'.type, revision |-> cachedsi'.revision, number |-> cachedsi'.number]
  <2>1. cachedsi = [type |-> cachedsi.type, revision |-> cachedsi.revision, number |-> cachedsi.number]
    BY <1>1 DEF CpuTypes
  <2>2. p.key \in Families \cup {"processor", "stepping"} => System!Shows(p) = {}
    BY DEF System!Shows, Families
  <2> QED
    BY <1>3, <2>1, <2>2 DEF Families
<1>5. CpuTypes'
  BY <1>1, <1>2, <1>4 DEF CpuTypes
<1>6. System!Shown' = System!Shown /\ System!InfoOfFile' = System!InfoOfFile
  BY <1>1, SameFile
<1>7. OnlyShown'
  <2>1. System!Shows(p) \subseteq System!Shown
    BY <1>2 DEF System!Shown
  <2> QED
    BY <1>1, <1>4, <1>6, <2>1 DEF CpuIInv, OnlyShown
<1>8. ASSUME ~together PROVE ReadAlone' /\ ToldAlone'
  <2>1. ReadAlone /\ ToldAlone
    BY <1>8 DEF CpuIInv
  <2>2. /\ pf_set /\ ~cache /\ PF = ShownUpTo(cpuinfo, k)
        /\ LastUpTo(cpuinfo, k, {"stepping"}, 257, cachedsi.revision)
        /\ \A d \in Threads : d # c => wants[d] = None
    BY <1>1, <2>1 DEF ReadAlone, System!Idle
  <2>3. PICK v : LastUpTo(cpuinfo, k, Families, 3, v) /\ cachedsi.type = System!TypeOf(v)
    BY <1>1, <2>1 DEF ReadAlone
  <2>4. PF' = ShownUpTo(cpuinfo, k + 1)
    BY <1>2, <1>4, <2>2, ShownOneMore
  <2> PICK w : w = IF cpuinfo[k + 1].key \in Families THEN cpuinfo[k + 1].value ELSE v
    OBVIOUS
  <2>5. LastUpTo(cpuinfo, k + 1, Families, 3, w) /\ cachedsi'.type = System!TypeOf(w)
    <3>1. LastUpTo(cpuinfo, k + 1, Families, 3, w)
      BY <1>1, <1>2, <2>3, LastOneMore
    <3>2. cachedsi'.type = System!TypeOf(w)
      <4>1. CASE p.key \in Families
        BY <1>4, <4>1 
      <4>2. CASE p.key \notin Families
        BY <1>4, <2>3, <4>2 
      <4> QED
        BY <4>1, <4>2
    <3> QED
      BY <3>1, <3>2
  <2>6. LastUpTo(cpuinfo, k + 1, {"stepping"}, 257, cachedsi'.revision)
    <3>1. cachedsi'.revision = IF cpuinfo[k + 1].key \in {"stepping"} THEN cpuinfo[k + 1].value ELSE cachedsi.revision
      BY <1>4 
    <3> QED
      BY <1>1, <1>2, <2>2, <3>1, LastOneMore
  <2>7. \A d \in Threads : reads'[d] = IF d = c THEN k + 1 ELSE reads[d]
    BY <1>1 DEF CpuTypes
  <2>8. ReadAlone'
    <3>1. \A d, e \in Threads : d = e \/ System!Idle(d)' \/ System!Idle(e)'
      BY <1>1, <2>2 DEF System!Idle
    <3>2. ASSUME NEW d \in Threads, ~System!Idle(d)'
          PROVE  /\ pf_set' /\ ~cache' /\ PF' = ShownUpTo(cpuinfo', reads'[d])
                 /\ \E u : LastUpTo(cpuinfo', reads'[d], Families, 3, u) /\ cachedsi'.type = System!TypeOf(u)
                 /\ LastUpTo(cpuinfo', reads'[d], {"stepping"}, 257, cachedsi'.revision)
      <4>1. d = c /\ reads'[d] = k + 1
        BY <1>1, <2>2, <2>7, <3>2 DEF System!Idle
      <4> QED
        BY <1>1, <2>2, <2>4, <2>5, <2>6, <4>1, SameFile
    <3>3. ~cache' /\ ~System!Idle(c)'
      BY <1>1, <2>2 DEF System!Idle
    <3> QED
      BY <3>1, <3>2, <3>3 DEF ReadAlone, System!TypeOf
  <2>9. ToldAlone'
    BY <1>1, <1>6, <2>1 DEF ToldAlone
  <2> QED
    BY <2>8, <2>9
<1> QED
  BY <1>1, <1>5, <1>7, <1>8 DEF CpuIInv

\* At the end of the file there is one processor.
LEMMA CpuFinishes ==
  ASSUME CpuIInv, NEW c \in Threads, System!Finish(c)
  PROVE  CpuIInv'
<1>1. /\ CpuTypes /\ ~System!Idle(c) /\ reads[c] = Len(cpuinfo) /\ System!Return(c, TRUE)
      /\ cachedsi' = [cachedsi EXCEPT !.number = 1] /\ cache' = TRUE
      /\ UNCHANGED <<cpuinfo, PF, pf_set, reads, together, unread>>
  BY DEF CpuIInv, System!Finish
<1>2. cachedsi' = [type |-> cachedsi.type, revision |-> cachedsi.revision, number |-> 1]
  <2>1. cachedsi = [type |-> cachedsi.type, revision |-> cachedsi.revision, number |-> cachedsi.number]
    BY <1>1 DEF CpuTypes
  <2> QED
    BY ONLY <1>1, <2>1
<1>3. ASSUME ~together PROVE cachedsi' = System!InfoOfFile /\ PF = System!Shown
  <2>1. ReadAlone
    BY <1>3 DEF CpuIInv
  <2>2. PICK v : LastUpTo(cpuinfo, Len(cpuinfo), Families, 3, v) /\ cachedsi.type = System!TypeOf(v)
    BY <1>1, <2>1 DEF ReadAlone
  <2>3. LastUpTo(cpuinfo, Len(cpuinfo), {"stepping"}, 257, cachedsi.revision) /\ PF = ShownUpTo(cpuinfo, Len(cpuinfo))
    BY <1>1, <2>1 DEF ReadAlone
  <2>4. System!LastOf(Families, 3) = v /\ System!LastOf({"stepping"}, 257) = cachedsi.revision
    BY <1>1, <2>2, <2>3, LastIs
  <2>5. cachedsi' = System!InfoOfFile
    BY <1>2, <2>2, <2>4 DEF System!InfoOfFile, Families
  <2> QED
    BY <1>1, <2>3, <2>5, AllShown
<1>4. pf_set
  BY <1>1 DEF CpuTypes
<1>5. cachedsi' = [type |-> cachedsi'.type, revision |-> cachedsi'.revision, number |-> cachedsi'.number]
  BY <1>2
<1>6. unread' \in BOOLEAN /\ cache' \in BOOLEAN /\ pf_set
  BY <1>1, <1>4 DEF CpuTypes
<1> QED
  BY <1>1, <1>3, <1>5, <1>6, CpuReturns

LEMMA CpuStep == CpuIInv /\ [System!Next]_cpuVars => CpuIInv'
<1> SUFFICES ASSUME CpuIInv, [System!Next]_cpuVars PROVE CpuIInv'
  OBVIOUS
<1>0. CpuTypes
  BY DEF CpuIInv
<1>1. CASE UNCHANGED cpuVars
  <2>1. UNCHANGED <<cpuinfo, cache, cachedsi, PF, pf_set, reads, wants, info, answer, together, unread>>
    BY <1>1 DEF cpuVars
  <2> QED
    BY <2>1, SameFile DEF CpuIInv, CpuTypes, OnlyShown, ReadAlone, ToldAlone, System!Idle, System!TypeOf
<1>2. ASSUME NEW c \in Threads, System!GetSystemInfo(c) PROVE CpuIInv'
  <2>1. CASE cache
    <3>1. System!Idle(c) /\ System!Meets(c) /\ UNCHANGED <<cpuFrame, reads, wants, unread>>
          /\ info' = [info EXCEPT ![c] = cachedsi] /\ UNCHANGED answer
      BY <1>2, <2>1 DEF System!GetSystemInfo, System!statics, cpuFrame
    <3> QED
      BY <2>1, <3>1, CpuTells
  <2>2. CASE ~cache
    <3>1. System!Idle(c) /\ System!Meets(c) /\ System!Begin(c, "info") /\ UNCHANGED <<cpuinfo, unread>>
      BY <1>2, <2>2 DEF System!GetSystemInfo
    <3> QED
      BY <2>2, <3>1, CpuBegins
  <2> QED
    BY <2>1, <2>2
<1>3. ASSUME NEW c \in Threads, NEW f \in FeaturesAsked, System!IsProcessorFeaturePresent(c, f) PROVE CpuIInv'
  <2>1. CASE pf_set
    <3>1. System!Idle(c) /\ System!Meets(c) /\ UNCHANGED <<cpuFrame, reads, wants, unread>>
          /\ System!Tell(c, f) /\ UNCHANGED info
      BY <1>3, <2>1 DEF System!IsProcessorFeaturePresent, System!statics, cpuFrame
    <3> QED
      BY <2>1, <3>1, CpuTells
  <2>2. CASE ~pf_set
    <3>1. /\ System!Idle(c) /\ System!Meets(c) /\ System!Begin(c, f) /\ UNCHANGED <<cpuinfo, unread>>
          /\ ~cache
      BY <1>0, <1>3, <2>2 DEF System!IsProcessorFeaturePresent, CpuTypes
    <3> QED
      BY <3>1, CpuBegins
  <2> QED
    BY <2>1, <2>2
<1>4. ASSUME NEW c \in Threads, System!OpenFails(c) PROVE CpuIInv'
  <2>1. /\ ~System!Idle(c) /\ unread' = TRUE /\ System!Return(c, FALSE)
        /\ UNCHANGED <<cpuinfo, cache, cachedsi, PF, pf_set, reads, together>>
    BY <1>4 DEF System!OpenFails, System!statics
  <2>2. /\ cachedsi' = [type |-> cachedsi'.type, revision |-> cachedsi'.revision, number |-> cachedsi'.number]
        /\ cache' \in BOOLEAN /\ (cache' => pf_set)
    BY <1>0, <2>1 DEF CpuTypes
  <2>3. ~together /\ (FALSE \/ cache') => cachedsi' = System!InfoOfFile /\ PF = System!Shown
    BY <2>1 DEF CpuIInv, ReadAlone
  <2> QED
    BY <2>1, <2>2, <2>3, CpuReturns
<1>5. ASSUME NEW c \in Threads, System!ReadPiece(c) PROVE CpuIInv'
  BY <1>5, CpuReads
<1>6. ASSUME NEW c \in Threads, System!Finish(c) PROVE CpuIInv'
  BY <1>6, CpuFinishes
<1> QED
  BY <1>1, <1>2, <1>3, <1>4, <1>5, <1>6 DEF System!Next

LEMMA CpuGoal == CpuIInv => System!FeaturesTold
BY DEF CpuIInv, OnlyShown, ToldAlone, System!FeaturesTold

-----------------------------------------------------------------------------
(* The clock: what a second is *)

\* The second of a time, and the next time in it or at the begin of the next one.
LEMMA NextUnit ==
  ASSUME NEW t \in Nat, NEW s \in Nat \ {0}
  PROVE  /\ t \div s \in Nat /\ t % s \in 0..(s - 1) /\ t = (t \div s) * s + (t % s)
         /\ \/ (t + 1) \div s = t \div s /\ (t + 1) % s = (t % s) + 1
            \/ (t + 1) \div s = t \div s + 1 /\ (t + 1) % s = 0 /\ t % s = s - 1 /\ t + 1 = (t \div s + 1) * s
<1> PICK q, r : q = t \div s /\ r = t % s
  OBVIOUS
<1>1. q \in Nat /\ r \in 0..(s - 1) /\ t = q * s + r
  OBVIOUS
<1>2. CASE r < s - 1
  <2>1. t + 1 = q * s + (r + 1) /\ r + 1 \in 0..(s - 1)
    BY <1>1, <1>2
  <2>2. (t + 1) \div s = q /\ (t + 1) % s = r + 1
    BY <1>1, <2>1
  <2> QED
    BY <1>1, <2>2
<1>3. CASE r = s - 1
  <2>1. t + 1 = (q + 1) * s + 0
    BY <1>1, <1>3
  <2>2. (t + 1) \div s = q + 1 /\ (t + 1) % s = 0
    BY <1>1, <2>1
  <2> QED
    BY <1>1, <1>3, <2>1, <2>2
<1> QED
  BY <1>1, <1>2, <1>3

\* At the begin of a second that second has come.
LEMMA AtBegin ==
  ASSUME NEW q \in Nat, NEW s \in Nat \ {0}
  PROVE  (q * s) \div s = q /\ (q * s) % s = 0
OBVIOUS

\* Numbers that differ by a multiple of w.
Alike(a, b, w) == \E k \in Int : a - b = k * w

LEMMA AlikeIs ==
  ASSUME NEW w \in Nat \ {0}, NEW a \in Int, NEW b \in Int
  PROVE  Alike(a, b, w) => (a - b) % w = 0
<1> SUFFICES ASSUME NEW k \in Int, a - b = k * w PROVE (a - b) % w = 0
  BY DEF Alike
<1>1. (k * w) % w = 0
  OBVIOUS
<1> QED
  BY <1>1

\* A count in a signed word differs so from the count.
LEMMA SignedAlike ==
  ASSUME NEW n \in Int
  PROVE  Clock!Signed(n) \in Int /\ Alike(Clock!Signed(n), n, WordValues)
<1> PICK w : w = WordValues
  OBVIOUS
<1>1. w \in Nat \ {0}
  BY ClockAssumption
<1> PICK q, m : q = n \div w /\ m = n % w
  OBVIOUS
<1>2. q \in Int /\ m \in Int /\ n = q * w + m
  BY <1>1
<1>3. m - n = (-q) * w /\ (m - w) - n = (-q - 1) * w /\ -q \in Int /\ -q - 1 \in Int
  BY <1>1, <1>2
<1>4. Alike(m, n, w) /\ Alike(m - w, n, w)
  BY ONLY <1>3, Zenon DEF Alike
<1>5. Clock!Signed(n) = m \/ Clock!Signed(n) = m - w
  BY DEF Clock!Signed
<1>6. m \in Int /\ m - w \in Int
  BY <1>1, <1>2
<1>7. w = WordValues
  OBVIOUS
<1> QED
  BY ONLY <1>4, <1>5, <1>6, <1>7

LEMMA AlikeTrans ==
  ASSUME NEW a \in Int, NEW b \in Int, NEW c \in Int, NEW w \in Nat, Alike(a, b, w), Alike(b, c, w)
  PROVE  Alike(a, c, w)
<1> PICK k \in Int, l \in Int : a - b = k * w /\ b - c = l * w
  BY DEF Alike
<1>1. a - c = (k + l) * w /\ k + l \in Int
  OBVIOUS
<1> QED
  BY ONLY <1>1, Zenon DEF Alike

LEMMA AlikeMinus ==
  ASSUME NEW a \in Int, NEW b \in Int, NEW c \in Int, NEW d \in Int, NEW w \in Nat, Alike(a, b, w), Alike(c, d, w)
  PROVE  Alike(a - c, b - d, w)
<1> PICK k \in Int, l \in Int : a - b = k * w /\ c - d = l * w
  BY DEF Alike
<1>1. (a - c) - (b - d) = (k - l) * w /\ k - l \in Int
  OBVIOUS
<1> QED
  BY ONLY <1>1, Zenon DEF Alike

(* The counts *)

ClockTypes ==
  /\ now \in Nat /\ tsc \in BOOLEAN /\ rate \in Nat /\ listing \in ClockListings
  /\ source \in {"stub", IF tsc THEN "tsc" ELSE "notsc"}
  /\ ofreq \in Int /\ step \in [Threads -> {"out", "first", "second"}]
  /\ saw \in [Threads -> Nat] /\ early \in [Threads -> Int] /\ freq \in [Threads -> Int \cup {None}]
  /\ count \in Nat /\ late \in BOOLEAN

\* The count of a time, with a time stamp and without one.
CountOf(t) ==
  IF tsc THEN t * rate
  ELSE (t \div UnitsPerSecond) * WordValues + Clock!Limit * (t % UnitsPerSecond)

\* Whatever was chosen, the count of a time is that of the processor.
LEMMA ChosenCounts ==
  ASSUME ClockTypes, NEW t \in Nat
  PROVE  Clock!LongCount(t) = CountOf(t)
<1>1. Clock!Chosen = "tsc" <=> tsc
  BY DEF ClockTypes, Clock!Chosen
<1> QED
  BY <1>1 DEF Clock!LongCount, CountOf

LEMMA ClockConstants ==
  /\ UnitsPerSecond \in Nat \ {0} /\ WordValues \in Nat \ {0} /\ ClockRates \subseteq Nat /\ None \notin Int
  /\ Clock!Limit \in Nat /\ Clock!Limit * UnitsPerSecond <= WordValues
<1>1. /\ UnitsPerSecond \in Nat \ {0} /\ WordValues \in Nat \ {0} /\ ClockRates \subseteq Nat /\ None \notin Int
  BY ClockAssumption
<1> PICK s \in Nat \ {0}, w \in Nat \ {0} : s = UnitsPerSecond /\ w = WordValues
  BY <1>1
<1>2. (w - 1) \div s \in Nat /\ ((w - 1) \div s) * s <= w - 1
  OBVIOUS
<1>3. Clock!Limit = (w - 1) \div s
  BY DEF Clock!Limit
<1> QED
  BY <1>1, <1>2, <1>3

\* A unit of time adds to it what it should.
LEMMA CountGrows ==
  ASSUME ClockTypes, NEW t \in Nat
  PROVE  /\ CountOf(t) \in Nat /\ CountOf(t + 1) \in Nat
         /\ CountOf(t + 1) - CountOf(t) >= (IF tsc THEN rate ELSE Clock!Limit)
<1>1. CASE tsc
  <2>1. CountOf(t) = t * rate /\ CountOf(t + 1) = (t + 1) * rate /\ rate \in Nat
    BY <1>1 DEF CountOf, ClockTypes
  <2>2. t * rate \in Nat /\ (t + 1) * rate = t * rate + rate
    BY <2>1
  <2> QED
    BY <1>1, <2>1, <2>2
<1>2. CASE ~tsc
  <2> PICK s \in Nat \ {0}, w \in Nat \ {0}, l \in Nat : s = UnitsPerSecond /\ w = WordValues /\ l = Clock!Limit
    BY ClockConstants
  <2> PICK q, r : q = t \div s /\ r = t % s
    OBVIOUS
  <2>1. l * s <= w
    BY ClockConstants
  <2>2. CountOf(t) = q * w + l * r /\ CountOf(t + 1) = ((t + 1) \div s) * w + l * ((t + 1) % s)
    BY <1>2 DEF CountOf
  <2>3. /\ q \in Nat /\ r \in 0..(s - 1)
        /\ \/ (t + 1) \div s = q /\ (t + 1) % s = r + 1
           \/ (t + 1) \div s = q + 1 /\ (t + 1) % s = 0 /\ r = s - 1
    BY NextUnit
  <2>4. q * w \in Nat /\ l * r \in Nat
    BY <2>3
  <2>5. CASE (t + 1) \div s = q /\ (t + 1) % s = r + 1
    <3>1. l * (r + 1) = l * r + l
      BY <2>3
    <3> QED
      BY <1>2, <2>2, <2>4, <2>5, <3>1
  <2>6. CASE (t + 1) \div s = q + 1 /\ (t + 1) % s = 0 /\ r = s - 1
    <3>1. (q + 1) * w = q * w + w /\ l * 0 = 0 /\ l * (s - 1) = l * s - l
      BY <2>3
    <3>2. CountOf(t + 1) = q * w + w /\ CountOf(t) = q * w + (l * s - l)
      BY <2>2, <2>6, <3>1
    <3>3. l * s \in Nat
      OBVIOUS
    <3>4. CountOf(t) \in Nat
      BY <2>2, <2>4
    <3>5. CountOf(t + 1) \in Nat
      BY <2>4, <3>2
    <3>6. CountOf(t + 1) - CountOf(t) >= l
      BY <2>1, <2>4, <3>2, <3>3
    <3> QED
      BY <1>2, <3>4, <3>5, <3>6
  <2> QED
    BY <2>3, <2>5, <2>6
<1> QED
  BY <1>1, <1>2 DEF ClockTypes

-----------------------------------------------------------------------------
(* The clock's invariant *)

\* As long as no measuring thread was late, it is in the second it saw or at the begin
\* of the next one; the count it took is that of the begin of a second, and what was
\* measured are the counts of a second.
Measured ==
  /\ \A c \in Threads :
       /\ step[c] # "out" => now \div UnitsPerSecond = saw[c] \/ now = (saw[c] + 1) * UnitsPerSecond
       /\ step[c] = "second" => Alike(early[c], rate * (saw[c] * UnitsPerSecond), WordValues)
       /\ freq[c] # None /\ Clock!Listed <= 0 => Alike(freq[c], rate * UnitsPerSecond, WordValues)
  /\ ofreq # 0 => Alike(ofreq, rate * UnitsPerSecond, WordValues)

\* Nobody measures what is listed.
ListedTold == Clock!Listed > 0 => \A c \in Threads : step[c] = "out" /\ freq[c] \in {None, Clock!Listed}

ClockIInv ==
  /\ ClockTypes /\ count <= CountOf(now)
  /\ ListedTold /\ (tsc /\ ~late => Measured)

\* What is listed is a number.
LEMMA ListedIs ==
  ASSUME listing \in ClockListings
  PROVE  Clock!Listed \in Int
<1> DEFINE rows == {n \in DOMAIN listing : listing[n].key = "cpu MHz" /\ listing[n].value # None}
<1>1. rows \in SUBSET Nat
  BY ClockAssumption
<1>2. \A n \in rows : listing[n].value \in Nat
  BY ClockAssumption
<1>5. Clock!Listed = IF rows = {} THEN -1 ELSE listing[Clock!Min(rows)].value
  BY Zenon DEF Clock!Listed
<1>3. CASE rows = {}
  <2> HIDE DEF rows
  <2> QED
    BY <1>3, <1>5
<1>4. CASE rows # {}
  <2>1. Clock!Listed = listing[Clock!Min(rows)].value
    <3> HIDE DEF rows
    <3> QED
      BY <1>4, <1>5
  <2>2. Clock!Min(rows) \in rows
    <3> HIDE DEF rows
    <3>1. PICK m \in rows : \A k \in rows : m <= k
      BY <1>1, <1>4, LeastOf
    <3> QED
      BY <3>1 DEF Clock!Min
  <2> HIDE DEF rows
  <2>3. listing[Clock!Min(rows)].value \in Int
    BY <1>2, <2>2
  <2> QED
    BY <2>1, <2>3
<1> QED
  BY <1>3, <1>4

\* At first nothing was counted or measured.
LEMMA ClockInit == AnyInit => ClockIInv
<1> SUFFICES ASSUME AnyInit PROVE ClockIInv
  OBVIOUS
<1>1. Clock!Init
  BY DEF AnyInit
<1>2. ClockTypes
  <2>1. now \in Nat
    <3>1. now \in 0..(UnitsPerSecond - 1)
      BY <1>1 DEF Clock!Init
    <3> QED
      BY <3>1
  <2>2. rate \in Nat /\ 0 \in Int /\ 0 \in Nat
    BY <1>1, ClockConstants DEF Clock!Init
  <2> QED
    BY <1>1, <2>1, <2>2 DEF Clock!Init, ClockTypes
<1>3. count <= CountOf(now)
  BY <1>1, <1>2, CountGrows DEF Clock!Init, ClockTypes
<1>4. ListedTold /\ (tsc /\ ~late => Measured)
  BY <1>1 DEF Clock!Init, ListedTold, Measured
<1> QED
  BY <1>2, <1>3, <1>4 DEF ClockIInv

\* Time passes: a measuring thread that is not late sees this second, or the begin of
\* the next.
LEMMA ClockPass ==
  ASSUME ClockIInv, Clock!Pass
  PROVE  ClockIInv'
<1>1. /\ ClockTypes /\ now' = now + 1 /\ now \in Nat
      /\ late' = (late \/ \E c \in Threads : step[c] # "out" /\ now \div UnitsPerSecond # saw[c])
      /\ UNCHANGED <<tsc, rate, listing, source, ofreq, step, saw, early, freq, count>>
  BY DEF ClockIInv, ClockTypes, Clock!Pass, Clock!processor, Clock!measuring, Clock!Time
<1>2. ClockTypes'
  BY <1>1 DEF ClockTypes
<1>3. Clock!Listed' = Clock!Listed
  BY <1>1 DEF Clock!Listed
<1>4. (count <= CountOf(now))'
  <2>1. CountOf(now)' = CountOf(now + 1)
    BY <1>1 DEF CountOf, Clock!Limit
  <2>2. CountOf(now) \in Nat /\ CountOf(now + 1) \in Nat /\ CountOf(now + 1) - CountOf(now) >= (IF tsc THEN rate ELSE Clock!Limit)
    BY <1>1, CountGrows
  <2>3. (IF tsc THEN rate ELSE Clock!Limit) \in Nat
    BY <1>1, ClockConstants DEF ClockTypes
  <2>4. count <= CountOf(now) /\ count \in Nat
    BY <1>1 DEF ClockIInv, ClockTypes
  <2>5. count <= CountOf(now + 1)
    BY ONLY <2>2, <2>3, <2>4
  <2> QED
    BY <1>1, <2>1, <2>5
<1>5. ListedTold'
  BY <1>1, <1>3 DEF ClockIInv, ListedTold
<1>6. ASSUME tsc, ~late' PROVE Measured'
  <2>1. Measured /\ \A c \in Threads : step[c] # "out" => now \div UnitsPerSecond = saw[c]
    BY <1>1, <1>6 DEF ClockIInv
  <2>2. ASSUME NEW c \in Threads, step[c] # "out"
        PROVE  now' \div UnitsPerSecond = saw[c] \/ now' = (saw[c] + 1) * UnitsPerSecond
    <3> PICK u \in Nat \ {0}, t \in Nat, n \in Nat : u = UnitsPerSecond /\ t = now /\ n = saw[c]
      BY <1>1, ClockConstants DEF ClockTypes
    <3>1. t \div u = n
      BY <2>1, <2>2
    <3>2. (t + 1) \div u = n \/ t + 1 = (n + 1) * u
      <4>1. \/ (t + 1) \div u = t \div u
            \/ t + 1 = (t \div u + 1) * u
        BY ONLY t \in Nat, u \in Nat \ {0}, NextUnit
      <4> QED
        BY ONLY <3>1, <4>1
    <3> QED
      BY <1>1, <3>2
  <2> QED
    BY <1>1, <1>3, <2>1, <2>2 DEF Measured
<1> QED
  BY <1>1, <1>2, <1>4, <1>5, <1>6 DEF ClockIInv

LEMMA ClockCounts ==
  ASSUME ClockIInv, NEW c \in Threads, Clock!QueryPerformanceCounter(c)
  PROVE  ClockIInv'
<1>1. /\ ClockTypes /\ now \in Nat /\ count' = CountOf(now) /\ source' = Clock!Chosen
      /\ UNCHANGED <<now, tsc, rate, listing, ofreq, step, saw, early, freq, late>>
  BY ChosenCounts DEF ClockIInv, ClockTypes, Clock!QueryPerformanceCounter, Clock!processor, Clock!measuring
<1>2. CountOf(now) \in Nat
  BY <1>1, CountGrows
<1>3. Clock!Chosen = IF tsc THEN "tsc" ELSE "notsc"
  BY <1>1 DEF ClockTypes, Clock!Chosen
<1>4. ClockTypes'
  BY <1>1, <1>2, <1>3 DEF ClockTypes
<1>5. Clock!Listed' = Clock!Listed /\ CountOf(now)' = CountOf(now)
  BY <1>1 DEF Clock!Listed, CountOf, Clock!Limit
<1>6. (count <= CountOf(now))'
  BY <1>1, <1>2, <1>5
<1>7. ListedTold' /\ (tsc' /\ ~late' => Measured')
  BY <1>1, <1>5 DEF ClockIInv, ListedTold, Measured
<1> QED
  BY <1>4, <1>6, <1>7 DEF ClockIInv

\* The frequency is told as it is listed or was measured, or a measurement begins.
LEMMA ClockAsked ==
  ASSUME ClockIInv, NEW c \in Threads, Clock!QueryPerformanceFrequency(c)
  PROVE  ClockIInv'
<1>1. /\ ClockTypes /\ step[c] = "out"
      /\ \/ Clock!Listed > 0 /\ freq' = [freq EXCEPT ![c] = Clock!Listed] /\ UNCHANGED <<step, saw>>
         \/ ~(Clock!Listed > 0) /\ ofreq # 0 /\ freq' = [freq EXCEPT ![c] = ofreq] /\ UNCHANGED <<step, saw>>
         \/ /\ ~(Clock!Listed > 0) /\ step' = [step EXCEPT ![c] = "first"]
            /\ saw' = [saw EXCEPT ![c] = now \div UnitsPerSecond] /\ UNCHANGED freq
      /\ UNCHANGED <<now, tsc, rate, listing, source, ofreq, early, count, late>>
  BY DEF ClockIInv, Clock!QueryPerformanceFrequency, Clock!processor, Clock!Tell, Clock!Time
<1>2. Clock!Listed \in Int /\ now \div UnitsPerSecond \in Nat
  BY <1>1, ListedIs, NextUnit, ClockConstants DEF ClockTypes
<1>3. ClockTypes'
  BY <1>1, <1>2 DEF ClockTypes
<1>4. Clock!Listed' = Clock!Listed /\ CountOf(now)' = CountOf(now)
  BY <1>1 DEF Clock!Listed, CountOf, Clock!Limit
<1>5. (count <= CountOf(now))'
  BY <1>1, <1>4 DEF ClockIInv
<1>6. ListedTold'
  BY <1>1, <1>4 DEF ClockIInv, ListedTold, ClockTypes
<1>7. ASSUME tsc, ~late PROVE Measured'
  <2>1. Measured
    BY <1>7 DEF ClockIInv
  <2>2. ASSUME NEW d \in Threads
        PROVE  /\ step'[d] # "out" => now \div UnitsPerSecond = saw'[d] \/ now = (saw'[d] + 1) * UnitsPerSecond
               /\ step'[d] = "second" => Alike(early[d], rate * (saw'[d] * UnitsPerSecond), WordValues)
               /\ freq'[d] # None /\ Clock!Listed <= 0 => Alike(freq'[d], rate * UnitsPerSecond, WordValues)
    <3>1. CASE d # c
      BY <1>1, <2>1, <3>1 DEF Measured, ClockTypes
    <3>2. CASE d = c
      BY <1>1, <1>2, <2>1, <3>2 DEF Measured, ClockTypes
    <3> QED
      BY <3>1, <3>2
  <2> QED
    BY <1>1, <1>4, <2>1, <2>2 DEF Measured
<1> QED
  BY <1>1, <1>3, <1>5, <1>6, <1>7 DEF ClockIInv

\* A thread that is not late counts at the begin of a second.
LEMMA AtSecond ==
  ASSUME ClockTypes, Measured, tsc, NEW c \in Threads, step[c] # "out", Clock!Time # saw[c]
  PROVE  /\ now = (saw[c] + 1) * UnitsPerSecond /\ now \div UnitsPerSecond = saw[c] + 1
         /\ Clock!LocalCount \in Int /\ Alike(Clock!LocalCount, rate * ((saw[c] + 1) * UnitsPerSecond), WordValues)
<1>1. now \in Nat /\ saw[c] \in Nat /\ rate \in Nat
  BY DEF ClockTypes
<1>2. now = (saw[c] + 1) * UnitsPerSecond
  BY DEF Measured, Clock!Time
<1>3. now \div UnitsPerSecond = saw[c] + 1
  <2>1. saw[c] + 1 \in Nat
    BY <1>1
  <2> QED
    BY <1>2, <2>1, AtBegin, ClockConstants
<1>4. Clock!LongCount(now) = now * rate
  BY <1>1, ChosenCounts DEF CountOf
<1>5. now * rate \in Int /\ now * rate = rate * now
  BY <1>1
<1>6. Clock!LocalCount \in Int /\ Alike(Clock!LocalCount, rate * now, WordValues)
  BY <1>4, <1>5, SignedAlike DEF Clock!LocalCount
<1> QED
  BY <1>2, <1>3, <1>6

LEMMA ClockFirst ==
  ASSUME ClockIInv, NEW c \in Threads, Clock!FirstCount(c)
  PROVE  ClockIInv'
<1>1. /\ ClockTypes /\ step[c] = "first" /\ Clock!Time # saw[c]
      /\ early' = [early EXCEPT ![c] = Clock!LocalCount] /\ saw' = [saw EXCEPT ![c] = @ + 1]
      /\ step' = [step EXCEPT ![c] = "second"] /\ source' = Clock!Chosen
      /\ UNCHANGED <<now, tsc, rate, listing, ofreq, freq, count, late>>
  BY DEF ClockIInv, Clock!FirstCount, Clock!processor
<1>2. Clock!LocalCount \in Int
  <2>1. now \in Nat
    BY <1>1 DEF ClockTypes
  <2>2. CountOf(now) \in Int
    BY <1>1, <2>1, CountGrows
  <2> QED
    BY <1>1, <2>1, <2>2, ChosenCounts, SignedAlike DEF Clock!LocalCount
<1>3. Clock!Chosen = IF tsc THEN "tsc" ELSE "notsc"
  BY <1>1 DEF ClockTypes, Clock!Chosen
<1>4. ClockTypes'
  BY <1>1, <1>2, <1>3 DEF ClockTypes
<1>5. Clock!Listed' = Clock!Listed /\ CountOf(now)' = CountOf(now)
  BY <1>1 DEF Clock!Listed, CountOf, Clock!Limit
<1>6. (count <= CountOf(now))'
  BY <1>1, <1>5 DEF ClockIInv
<1>7. ListedTold'
  BY <1>1, <1>5 DEF ClockIInv, ListedTold
<1>8. ASSUME tsc, ~late PROVE Measured'
  <2>1. Measured
    BY <1>8 DEF ClockIInv
  <2>2. /\ now = (saw[c] + 1) * UnitsPerSecond /\ now \div UnitsPerSecond = saw[c] + 1
        /\ Alike(Clock!LocalCount, rate * ((saw[c] + 1) * UnitsPerSecond), WordValues)
    BY <1>1, <1>8, <2>1, AtSecond
  <2>3. ASSUME NEW d \in Threads
        PROVE  /\ step'[d] # "out" => now \div UnitsPerSecond = saw'[d] \/ now = (saw'[d] + 1) * UnitsPerSecond
               /\ step'[d] = "second" => Alike(early'[d], rate * (saw'[d] * UnitsPerSecond), WordValues)
    <3>1. CASE d # c
      BY <1>1, <2>1, <3>1 DEF Measured, ClockTypes
    <3>2. CASE d = c
      <4>1. saw'[d] = saw[c] + 1 /\ early'[d] = Clock!LocalCount
        BY <1>1, <3>2 DEF ClockTypes
      <4> QED
        BY <2>2, <4>1
    <3> QED
      BY <3>1, <3>2
  <2> QED
    BY <1>1, <1>5, <2>1, <2>3 DEF Measured
<1> QED
  BY <1>1, <1>4, <1>6, <1>7, <1>8 DEF ClockIInv

\* Two counts at the begins of two seconds, one after the other, differ by those of one.
LEMMA ClockSecond ==
  ASSUME ClockIInv, NEW c \in Threads, Clock!SecondCount(c)
  PROVE  ClockIInv'
<1>1. /\ ClockTypes /\ step[c] = "second" /\ Clock!Time # saw[c]
      /\ ofreq' = Clock!Signed(Clock!LocalCount - early[c]) /\ freq' = [freq EXCEPT ![c] = ofreq']
      /\ step' = [step EXCEPT ![c] = "out"]
      /\ UNCHANGED <<now, tsc, rate, listing, source, saw, early, count, late>>
  BY DEF ClockIInv, Clock!SecondCount, Clock!processor, Clock!Tell
<1>2. Clock!LocalCount \in Int /\ early[c] \in Int
  <2>1. now \in Nat
    BY <1>1 DEF ClockTypes
  <2>2. CountOf(now) \in Int
    BY <1>1, <2>1, CountGrows
  <2> QED
    BY <1>1, <2>1, <2>2, ChosenCounts, SignedAlike DEF Clock!LocalCount, ClockTypes
<1>3. Clock!LocalCount - early[c] \in Int
  BY <1>2
<1>4. ofreq' \in Int /\ Alike(ofreq', Clock!LocalCount - early[c], WordValues)
  BY <1>1, <1>3, SignedAlike
<1>5. ClockTypes'
  BY <1>1, <1>4 DEF ClockTypes
<1>6. Clock!Listed' = Clock!Listed /\ CountOf(now)' = CountOf(now)
  BY <1>1 DEF Clock!Listed, CountOf, Clock!Limit
<1>7. (count <= CountOf(now))'
  BY <1>1, <1>6 DEF ClockIInv
<1>8. ListedTold'
  BY <1>1, <1>6 DEF ClockIInv, ListedTold
<1>9. ASSUME tsc, ~late PROVE Measured'
  <2>1. Measured
    BY <1>9 DEF ClockIInv
  <2> PICK n \in Nat, r \in Nat, u \in Nat, w \in Nat : n = saw[c] /\ r = rate /\ u = UnitsPerSecond /\ w = WordValues
    BY <1>1, ClockConstants DEF ClockTypes
  <2>2. Alike(Clock!LocalCount, r * ((n + 1) * u), w) /\ Alike(early[c], r * (n * u), w)
    BY <1>1, <1>9, <2>1, AtSecond DEF Measured
  <2>3. r * ((n + 1) * u) \in Int /\ r * (n * u) \in Int /\ r * u \in Int
    OBVIOUS
  <2>4. r * ((n + 1) * u) - r * (n * u) = r * u
    <3>1. n * u \in Nat /\ (n + 1) * u = n * u + u
      OBVIOUS
    <3>2. r * (n * u + u) = r * (n * u) + r * u
      BY <3>1
    <3> QED
      BY <2>3, <3>1, <3>2
  <2>5. Alike(Clock!LocalCount - early[c], r * u, w)
    <3>1. Alike(Clock!LocalCount - early[c], r * ((n + 1) * u) - r * (n * u), w)
      BY ONLY <1>2, <2>2, <2>3, w \in Nat, AlikeMinus
    <3> QED
      BY ONLY <2>4, <3>1
  <2>6. Alike(ofreq', r * u, w)
    BY <1>3, <1>4, <2>3, <2>5, AlikeTrans
  <2>7. ASSUME NEW d \in Threads
        PROVE  /\ step'[d] # "out" => now \div UnitsPerSecond = saw[d] \/ now = (saw[d] + 1) * UnitsPerSecond
               /\ step'[d] = "second" => Alike(early[d], rate * (saw[d] * UnitsPerSecond), WordValues)
               /\ freq'[d] # None /\ Clock!Listed <= 0 => Alike(freq'[d], rate * UnitsPerSecond, WordValues)
    <3>1. CASE d # c
      BY <1>1, <2>1, <3>1 DEF Measured, ClockTypes
    <3>2. CASE d = c
      <4>1. step'[d] = "out" /\ freq'[d] = ofreq'
        BY <1>1, <3>2 DEF ClockTypes
      <4> QED
        BY <2>6, <4>1
    <3> QED
      BY <3>1, <3>2
  <2> QED
    BY <1>1, <1>6, <2>6, <2>7 DEF Measured
<1> QED
  BY <1>1, <1>5, <1>7, <1>8, <1>9 DEF ClockIInv

LEMMA ClockStep == ClockIInv /\ [Clock!Next]_timeVars => ClockIInv'
<1> SUFFICES ASSUME ClockIInv, [Clock!Next]_timeVars PROVE ClockIInv'
  OBVIOUS
<1>1. CASE UNCHANGED timeVars
  <2>1. UNCHANGED <<now, tsc, rate, listing, source, ofreq, step, saw, early, freq, count, late>>
    BY <1>1 DEF timeVars
  <2>2. Clock!Listed' = Clock!Listed /\ CountOf(now)' = CountOf(now)
    BY <2>1 DEF Clock!Listed, CountOf, Clock!Limit
  <2> QED
    BY <2>1, <2>2 DEF ClockIInv, ClockTypes, ListedTold, Measured
<1>2. CASE Clock!Pass
  BY <1>2, ClockPass
<1>3. ASSUME NEW c \in Threads, Clock!QueryPerformanceCounter(c) PROVE ClockIInv'
  BY <1>3, ClockCounts
<1>4. ASSUME NEW c \in Threads, Clock!QueryPerformanceFrequency(c) PROVE ClockIInv'
  BY <1>4, ClockAsked
<1>5. ASSUME NEW c \in Threads, Clock!FirstCount(c) PROVE ClockIInv'
  BY <1>5, ClockFirst
<1>6. ASSUME NEW c \in Threads, Clock!SecondCount(c) PROVE ClockIInv'
  BY <1>6, ClockSecond
<1> QED
  BY <1>1, <1>2, <1>3, <1>4, <1>5, <1>6 DEF Clock!Next

LEMMA ClockGoal == ClockIInv => Clock!ClockTells
<1> SUFFICES ASSUME ClockIInv PROVE Clock!ClockTells
  OBVIOUS
<1>1. ClockTypes /\ now \in Nat /\ now + 1 \in Nat
  BY DEF ClockIInv, ClockTypes
<1>2. Clock!LongCount(now) = CountOf(now) /\ Clock!LongCount(now + 1) = CountOf(now + 1)
  BY <1>1, ChosenCounts
<1>3. /\ Clock!LongCount(now + 1) - Clock!LongCount(now) >= (IF tsc THEN rate ELSE Clock!Limit)
      /\ count <= Clock!LongCount(now)
  BY <1>1, <1>2, CountGrows DEF ClockIInv
<1>4. ASSUME NEW c \in Threads, freq[c] # None
      PROVE  IF Clock!Listed > 0 THEN freq[c] = Clock!Listed
             ELSE tsc /\ ~late => (freq[c] - rate * UnitsPerSecond) % WordValues = 0
  <2>1. CASE Clock!Listed > 0
    BY <1>4, <2>1 DEF ClockIInv, ListedTold
  <2>2. ASSUME ~(Clock!Listed > 0), tsc, ~late PROVE (freq[c] - rate * UnitsPerSecond) % WordValues = 0
    <3>1. Clock!Listed <= 0
      BY <1>1, <2>2, ListedIs DEF ClockTypes
    <3>2. Alike(freq[c], rate * UnitsPerSecond, WordValues)
      BY <1>4, <2>2, <3>1 DEF ClockIInv, Measured
    <3>3. freq[c] \in Int /\ rate * UnitsPerSecond \in Int
      BY <1>1, <1>4, ClockConstants DEF ClockTypes
    <3> QED
      BY <3>2, <3>3, AlikeIs, ClockConstants
  <2> QED
    BY <2>1, <2>2
<1> QED
  BY <1>3, <1>4 DEF Clock!ClockTells

-----------------------------------------------------------------------------
(* Names *)

\* A sequence is one of whatever its elements are of.
LEMMA InSeq ==
  ASSUME NEW S, NEW T, NEW s \in Seq(S), \A i \in 1..Len(s) : s[i] \in T
  PROVE  s \in Seq(T)
<1> PICK n \in Nat : n = Len(s)
  OBVIOUS
<1>1. s \in [1..n -> S] /\ \A i \in 1..n : s[i] \in T
  OBVIOUS
<1>2. s \in [1..n -> T]
  BY ONLY <1>1
<1> QED
  BY ONLY <1>2, n \in Nat

LEMMA AsSeq == ASSUME NEW S, NEW m \in Nat, NEW p \in [1..m -> S] PROVE p \in Seq(S) /\ Len(p) = m
OBVIOUS

LEMMA TwoPieces ==
  ASSUME NEW S, NEW x \in S, NEW y \in S
  PROVE  <<x>> \o <<>> = <<x>> /\ <<x>> \o <<y>> = <<x, y>>
<1>1. <<x>> \o <<>> \in Seq(S) /\ <<x>> \in Seq(S) /\ Len(<<x>> \o <<>>) = 1 /\ (<<x>> \o <<>>)[1] = x
  OBVIOUS
<1>2. <<x>> \o <<y>> \in Seq(S) /\ <<x, y>> \in Seq(S) /\ Len(<<x>> \o <<y>>) = 2
  OBVIOUS
<1>3. (<<x>> \o <<y>>)[1] = x /\ (<<x>> \o <<y>>)[2] = y
  OBVIOUS
<1>4. \A i \in 1..Len(<<x>> \o <<>>) : (<<x>> \o <<>>)[i] = <<x>>[i]
  BY <1>1
<1>5. \A i \in 1..Len(<<x>> \o <<y>>) : (<<x>> \o <<y>>)[i] = <<x, y>>[i]
  BY <1>2, <1>3
<1>6. <<x>> \o <<>> = <<x>>
  BY <1>1, <1>4, SeqEqual
<1>7. <<x>> \o <<y>> = <<x, y>>
  BY <1>2, <1>5, SeqEqual
<1> QED
  BY <1>6, <1>7

\* Names without a separator, and without any.
Free(sep) == Seq(Piece \ {sep})
Bare == Seq(Piece \ {"/", "\\"})

LEMMA BareIs == ASSUME NEW n \in Bare PROVE n \in Free("/") /\ n \in Free("\\") /\ n \in Seq(Piece)
BY DEF Bare, Free

\* What follows the last separator is what was put behind it.
LEMMA AfterIt ==
  ASSUME NEW d \in Seq(Piece), NEW sep \in Piece, NEW n \in Free(sep)
  PROVE  Names!AfterLast(d \o <<sep>> \o n, sep) = n
<1> PICK p : p = d \o <<sep>> \o n
  OBVIOUS
<1> PICK k \in Nat, l \in Nat : k = Len(d) /\ l = Len(n)
  OBVIOUS
<1>1. n \in Seq(Piece) /\ \A i \in 1..l : n[i] # sep
  BY DEF Free
<1>2. p \in Seq(Piece) /\ Len(p) = k + 1 + l /\ p[k + 1] = sep /\ \A i \in 1..l : p[k + 1 + i] = n[i]
  BY <1>1
<1> DEFINE at == {0} \cup {i \in DOMAIN p : p[i] = sep}
<1>3. k + 1 \in at /\ \A i \in at : i <= k + 1 /\ i \in Int
  <2>1. ASSUME NEW i \in DOMAIN p, p[i] = sep PROVE i <= k + 1 /\ i \in Int
    <3>1. i \in 1..(k + 1 + l)
      BY <1>2
    <3>2. ASSUME i > k + 1 PROVE FALSE
      <4>1. i - (k + 1) \in 1..l /\ k + 1 + (i - (k + 1)) = i
        BY <3>1, <3>2
      <4> QED
        BY <1>1, <1>2, <2>1, <4>1
    <3> QED
      BY <3>1, <3>2
  <2>2. k + 1 \in DOMAIN p
    BY <1>2
  <2>3. k + 1 \in at
    BY <1>2, <2>2
  <2>4. \A i \in at : i <= k + 1 /\ i \in Int
    <3>1. \A i \in DOMAIN p : p[i] = sep => i <= k + 1 /\ i \in Int
      BY <2>1
    <3>2. 0 <= k + 1 /\ 0 \in Int
      OBVIOUS
    <3> QED
      BY <3>1, <3>2, Zenon
  <2> QED
    BY <2>3, <2>4, Zenon
<1>4. Names!AfterLast(p, sep) = SubSeq(p, Names!Max(at) + 1, Len(p))
  BY Zenon DEF Names!AfterLast
<1> HIDE DEF at
<1>5. Names!Max(at) = k + 1
  <2> PICK m : m = Names!Max(at)
    OBVIOUS
  <2>1. m \in at /\ \A i \in at : m >= i
    BY <1>3 DEF Names!Max
  <2>2. m \in Int /\ m <= k + 1 /\ m >= k + 1
    BY <1>3, <2>1
  <2> QED
    BY ONLY <2>2, m = Names!Max(at), k \in Nat
<1>6. SubSeq(p, k + 1 + 1, k + 1 + l) = n
  <2>1. SubSeq(p, k + 1 + 1, k + 1 + l) \in Seq(Piece) /\ Len(SubSeq(p, k + 1 + 1, k + 1 + l)) = l
    BY <1>2
  <2>2. \A i \in 1..l : SubSeq(p, k + 1 + 1, k + 1 + l)[i] = n[i]
    BY <1>2
  <2>3. l = Len(n)
    OBVIOUS
  <2> QED
    BY ONLY <1>1, <2>1, <2>2, <2>3, SeqEqual
<1> QED
  BY <1>2, <1>4, <1>5, <1>6

\* Without a separator it is the name.
LEMMA AfterNone ==
  ASSUME NEW sep, NEW n \in Free(sep)
  PROVE  Names!AfterLast(n, sep) = n
<1> DEFINE at == {0} \cup {i \in DOMAIN n : n[i] = sep}
<1>1. at = {0}
  BY DEF Free
<1>2. Names!AfterLast(n, sep) = SubSeq(n, Names!Max(at) + 1, Len(n))
  BY Zenon DEF Names!AfterLast
<1> HIDE DEF at
<1>3. Names!Max(at) = 0
  BY <1>1 DEF Names!Max
<1> QED
  BY <1>2, <1>3 DEF Free

\* Behind the last separator there is none, and it is part of the name.
LEMMA AfterFree ==
  ASSUME NEW S, NEW n \in Seq(S), NEW sep
  PROVE  Names!AfterLast(n, sep) \in Seq(S \ {sep}) /\ Names!Contains(n, Names!AfterLast(n, sep))
<1> DEFINE at == {0} \cup {i \in DOMAIN n : n[i] = sep}
<1>1. Names!AfterLast(n, sep) = SubSeq(n, Names!Max(at) + 1, Len(n))
  BY Zenon DEF Names!AfterLast
<1> PICK l \in Nat : l = Len(n)
  OBVIOUS
<1>2. at \in SUBSET (0..l) /\ 0 \in at
  OBVIOUS
<1>3. PICK m \in at : \A i \in at : i <= m
  <2> DEFINE T == {l - i : i \in at}
  <2>1. T \in SUBSET Nat /\ T # {}
    BY <1>2
  <2>2. PICK t \in T : \A u \in T : t <= u
    <3> HIDE DEF T
    <3> QED
      BY <2>1, LeastOf
  <2>3. PICK i \in at : t = l - i
    BY <2>2
  <2>4. \A j \in at : j <= i
    <3>1. ASSUME NEW j \in at PROVE j <= i
      <4>1. l - j \in T
        OBVIOUS
      <4>2. t <= l - j /\ j \in 0..l /\ i \in 0..l
        BY <1>2, <2>2, <4>1
      <4> HIDE DEF at, T
      <4> QED
        BY <2>3, <4>2
    <3> QED
      BY <3>1
  <2> QED
    BY <2>4
<1>4. Names!Max(at) = m
  <2> HIDE DEF at
  <2> PICK k : k = Names!Max(at)
    OBVIOUS
  <2>1. k \in at /\ \A i \in at : k >= i
    BY <1>2, <1>3 DEF Names!Max
  <2>2. k <= m /\ k >= m /\ k \in Int /\ m \in Int
    BY <1>2, <1>3, <2>1
  <2> QED
    BY ONLY <2>2, k = Names!Max(at)
<1>5. m \in 0..l
  BY <1>2, <1>3
<1>6. \A i \in (m + 1)..l : n[i] # sep
  BY <1>3, <1>5
<1> HIDE DEF at
<1> PICK a : a = SubSeq(n, m + 1, l)
  OBVIOUS
<1>7. a \in Seq(S) /\ Len(a) = l - m /\ \A i \in 1..(l - m) : a[i] = n[m + i]
  BY <1>5
<1>8. \A i \in 1..(l - m) : a[i] \in S \ {sep}
  <2>1. ASSUME NEW i \in 1..(l - m) PROVE a[i] \in S \ {sep}
    <3>1. m + i \in (m + 1)..l
      BY <1>5
    <3> QED
      BY <1>6, <1>7, <3>1
  <2> QED
    BY <2>1
<1>9. a \in Seq(S \ {sep})
  <2>1. \A i \in 1..Len(a) : a[i] \in S \ {sep}
    BY <1>7, <1>8
  <2> QED
    BY <1>7, <2>1, InSeq
<1>10. Names!Contains(n, a)
  <2>1. m \in 0..(Len(n) - Len(a)) /\ SubSeq(n, m + 1, m + Len(a)) = a
    BY <1>5, <1>7
  <2> QED
    BY ONLY <2>1 DEF Names!Contains
<1> QED
  BY <1>1, <1>4, <1>9, <1>10

\* A path has in it what was put at its end, and itself.
LEMMA HasEnd ==
  ASSUME NEW S, NEW d \in Seq(S), NEW n \in Seq(S)
  PROVE  Names!Contains(d \o n, n) /\ Names!Contains(n, n)
<1>1. SubSeq(d \o n, Len(d) + 1, Len(d) + Len(n)) = n /\ Len(d) \in 0..(Len(d \o n) - Len(n))
  <2> PICK k \in Nat, l \in Nat : k = Len(d) /\ l = Len(n)
    OBVIOUS
  <2>1. d \o n \in Seq(S) /\ Len(d \o n) = k + l /\ \A i \in 1..l : (d \o n)[k + i] = n[i]
    OBVIOUS
  <2>2. SubSeq(d \o n, k + 1, k + l) \in Seq(S) /\ Len(SubSeq(d \o n, k + 1, k + l)) = l
    BY <2>1
  <2>3. \A i \in 1..l : SubSeq(d \o n, k + 1, k + l)[i] = n[i]
    BY <2>1
  <2>4. SubSeq(d \o n, k + 1, k + l) = n
    BY ONLY <2>2, <2>3, l = Len(n), n \in Seq(S), SeqEqual
  <2>5. k \in 0..(k + l - l)
    BY ONLY k \in Nat, l \in Nat
  <2> QED
    BY ONLY <2>1, <2>4, <2>5, k = Len(d), l = Len(n)
<1>2. SubSeq(n, 0 + 1, 0 + Len(n)) = n /\ 0 \in 0..(Len(n) - Len(n))
  OBVIOUS
<1> QED
  BY <1>1, <1>2 DEF Names!Contains

-----------------------------------------------------------------------------
(* Recursion over numbers *)

\* What is made of a step by step.
Steps(next, n, D) == next \in [1..n -> [D -> D]]
Made(f, n, D, a, next) == f \in [0..n -> D] /\ f[0] = a /\ \A i \in 1..n : f[i] = next[i][f[i - 1]]

\* It exists.
LEMMA StepsExist ==
  ASSUME NEW n \in Nat, NEW D, NEW a \in D, NEW next, Steps(next, n, D)
  PROVE  \E f : Made(f, n, D, a, next)
<1>0. next \in [1..n -> [D -> D]]
  BY DEF Steps
<1> DEFINE P == {m \in 0..n : \E g \in [0..m -> D] : g[0] = a /\ \A i \in 1..m : g[i] = next[i][g[i - 1]]}
<1>1. 0 \in P
  <2> DEFINE g == [i \in 0..0 |-> a]
  <2>1. g \in [0..0 -> D] /\ g[0] = a /\ \A i \in 1..0 : g[i] = next[i][g[i - 1]]
    OBVIOUS
  <2>2. 0 \in 0..n
    OBVIOUS
  <2> QED
    BY <2>1, <2>2
<1>2. ASSUME NEW m \in 0..(n - 1), m \in P PROVE m + 1 \in P
  <2>1. PICK g \in [0..m -> D] : g[0] = a /\ \A i \in 1..m : g[i] = next[i][g[i - 1]]
    BY <1>2
  <2> DEFINE e == next[m + 1][g[m]]
             h == [i \in 0..(m + 1) |-> IF i <= m THEN g[i] ELSE e]
  <2>2. g[m] \in D /\ m + 1 \in 1..n
    BY <2>1
  <2>3. e \in D
    BY <1>0, <2>2
  <2> HIDE DEF e
  <2>4. h \in [0..(m + 1) -> D] /\ h[0] = a
    BY <2>1, <2>3
  <2>5. ASSUME NEW i \in 1..(m + 1) PROVE h[i] = next[i][h[i - 1]]
    <3>1. CASE i <= m
      <4>1. h[i] = g[i] /\ h[i - 1] = g[i - 1] /\ i \in 1..m
        BY <3>1
      <4> QED
        BY <2>1, <4>1
    <3>2. CASE i = m + 1
      <4>1. h[i] = e /\ h[i - 1] = g[m]
        BY <3>2
      <4> QED
        BY <3>2, <4>1 DEF e
    <3>3. i <= m \/ i = m + 1
      OBVIOUS
    <3> QED
      BY ONLY <3>1, <3>2, <3>3
  <2> HIDE DEF h
  <2>6. m + 1 \in 0..n
    OBVIOUS
  <2> QED
    BY <2>4, <2>5, <2>6
<1>3. n \in P
  <2> HIDE DEF P
  <2>1. \A i \in 0..n : i \in P
    BY <1>1, <1>2, UpTo
  <2> QED
    BY <2>1
<1> QED
  BY <1>3 DEF Made

\* The characters of a name are those of its pieces.
LEMMA CharactersAre ==
  ASSUME NEW name \in Seq(Piece)
  PROVE  \E f \in [0..Len(name) -> Nat] :
           f[0] = 0 /\ (\A i \in 1..Len(name) : f[i] = f[i - 1] + PieceWidth[name[i]]) /\ Names!Characters(name) = f[Len(name)]
<1> DEFINE n == Len(name)
<1>1. n \in Nat /\ \A i \in 1..n : name[i] \in Piece /\ PieceWidth[name[i]] \in Nat
  BY NameAssumption
<1> DEFINE next == [i \in 1..n |-> [c \in Nat |-> c + PieceWidth[name[i]]]]
<1>2. PICK g \in [0..n -> Nat] : g[0] = 0 /\ \A i \in 1..n : g[i] = next[i][g[i - 1]]
  <2>1. Steps(next, n, Nat)
    BY <1>1 DEF Steps
  <2>2. n \in Nat /\ 0 \in Nat
    BY <1>1
  <2> HIDE DEF next, n
  <2> QED
    <3>1. PICK g : Made(g, n, Nat, 0, next)
      BY ONLY <2>1, <2>2, StepsExist, Zenon
    <3> QED
      BY <3>1 DEF Made
<1>3. \A i \in 1..n : g[i] = g[i - 1] + PieceWidth[name[i]]
  <2>1. ASSUME NEW i \in 1..n PROVE g[i] = g[i - 1] + PieceWidth[name[i]]
    <3>1. g[i - 1] \in Nat
      BY <1>1
    <3> QED
      BY <1>2, <3>1
  <2> QED
    BY <2>1
<1> HIDE DEF next
<1>4. ASSUME NEW i \in 0..n PROVE g[i] = IF i = 0 THEN 0 ELSE g[i - 1] + PieceWidth[name[i]]
  BY <1>1, <1>2, <1>3
<1>5. g = [i \in 0..Len(name) |-> IF i = 0 THEN 0 ELSE g[i - 1] + PieceWidth[name[i]]]
  BY <1>4
<1>6. PICK f : /\ f = [i \in 0..Len(name) |-> IF i = 0 THEN 0 ELSE f[i - 1] + PieceWidth[name[i]]]
               /\ Names!Characters(name) = f[Len(name)]
  <2> DEFINE e == CHOOSE f : f = [i \in 0..Len(name) |-> IF i = 0 THEN 0 ELSE f[i - 1] + PieceWidth[name[i]]]
  <2>1. e = [i \in 0..Len(name) |-> IF i = 0 THEN 0 ELSE e[i - 1] + PieceWidth[name[i]]]
    BY <1>5, Zenon
  <2>2. Names!Characters(name) = e[Len(name)]
    BY Zenon DEF Names!Characters
  <2> QED
    BY <2>1, <2>2, Zenon
<1>7. f[0] = 0 /\ \A i \in 1..n : f[i] = f[i - 1] + PieceWidth[name[i]]
  <2>1. 0 \in 0..Len(name) /\ \A i \in 1..Len(name) : i \in 0..Len(name) /\ i # 0
    BY <1>1
  <2>2. f[0] = 0
    BY <1>6, <2>1, Zenon
  <2>3. \A i \in 1..Len(name) : f[i] = f[i - 1] + PieceWidth[name[i]]
    BY <1>6, <2>1, Zenon
  <2> QED
    BY <2>2, <2>3
<1> DEFINE P == {i \in 0..n : f[i] \in Nat}
<1>8. 0 \in P /\ \A i \in 0..(n - 1) : i \in P => i + 1 \in P
  <2>1. 0 \in P
    BY <1>1, <1>7
  <2>2. ASSUME NEW i \in 0..(n - 1), i \in P PROVE i + 1 \in P
    <3>1. i + 1 \in 1..n /\ i + 1 \in 0..n /\ (i + 1) - 1 = i
      BY <1>1
    <3>2. f[i + 1] = f[i] + PieceWidth[name[i + 1]]
      BY <1>7, <3>1
    <3> QED
      BY <1>1, <2>2, <3>1, <3>2
  <2> QED
    BY <2>1, <2>2
<1>9. \A i \in 0..n : f[i] \in Nat
  <2> HIDE DEF n
  <2>1. \A i \in 0..n : i \in P
    <3> HIDE DEF P
    <3> QED
      BY <1>1, <1>8, UpTo
  <2> QED
    BY <2>1
<1>10. f \in [0..n -> Nat]
  BY <1>6, <1>9
<1> QED
  BY <1>6, <1>7, <1>10

\* A name behind another has the characters of both.
LEMMA CharactersJoined ==
  ASSUME NEW d \in Seq(Piece), NEW name \in Seq(Piece)
  PROVE  /\ Names!Characters(name) \in Nat
         /\ Names!Characters(d \o name) = Names!Characters(d) + Names!Characters(name)
<1> PICK k \in Nat, l \in Nat : k = Len(d) /\ l = Len(name)
  OBVIOUS
<1> PICK p : p = d \o name
  OBVIOUS
<1>0. p \in Seq(Piece)
  OBVIOUS
<1>1. Len(p) = k + l /\ (\A i \in 1..k : p[i] = d[i]) /\ \A i \in 1..l : p[k + i] = name[i]
  OBVIOUS
<1>2. PICK f \in [0..k -> Nat] : f[0] = 0 /\ (\A i \in 1..k : f[i] = f[i - 1] + PieceWidth[d[i]]) /\ Names!Characters(d) = f[k]
  BY CharactersAre
<1>3. PICK g \in [0..l -> Nat] : g[0] = 0 /\ (\A i \in 1..l : g[i] = g[i - 1] + PieceWidth[name[i]]) /\ Names!Characters(name) = g[l]
  BY CharactersAre
<1>4. PICK h \in [0..(k + l) -> Nat] :
        h[0] = 0 /\ (\A i \in 1..(k + l) : h[i] = h[i - 1] + PieceWidth[p[i]]) /\ Names!Characters(p) = h[k + l]
  <2>1. PICK h \in [0..Len(p) -> Nat] :
          h[0] = 0 /\ (\A i \in 1..Len(p) : h[i] = h[i - 1] + PieceWidth[p[i]]) /\ Names!Characters(p) = h[Len(p)]
    BY <1>0, CharactersAre, Zenon
  <2> QED
    BY <1>1, <2>1, Zenon
<1> DEFINE P == {i \in 0..k : h[i] = f[i]}
           Q == {i \in 0..l : h[k + i] = f[k] + g[i]}
<1>5. \A i \in 0..k : i \in P
  <2>1. 0 \in P
    BY <1>2, <1>4
  <2>2. ASSUME NEW i \in 0..(k - 1), i \in P PROVE i + 1 \in P
    <3>1. i + 1 \in 1..k /\ i + 1 \in 0..k /\ i + 1 \in 1..(k + l) /\ (i + 1) - 1 = i
      OBVIOUS
    <3>2. f[i + 1] = f[i] + PieceWidth[d[i + 1]] /\ h[i + 1] = h[i] + PieceWidth[p[i + 1]] /\ p[i + 1] = d[i + 1]
      BY <1>1, <1>2, <1>4, <3>1
    <3> QED
      BY <2>2, <3>1, <3>2
  <2> HIDE DEF P
  <2> QED
    BY <2>1, <2>2, UpTo
<1>6. \A i \in 0..l : i \in Q
  <2>1. 0 \in Q
    <3>1. k \in P
      BY <1>5
    <3>2. f[k] \in Nat /\ h[k] = f[k] /\ k + 0 = k
      BY <3>1
    <3> QED
      BY <1>3, <3>2
  <2>2. ASSUME NEW i \in 0..(l - 1), i \in Q PROVE i + 1 \in Q
    <3>1. i + 1 \in 1..l /\ i + 1 \in 0..l /\ (i + 1) - 1 = i
      OBVIOUS
    <3>2. k + (i + 1) \in 1..(k + l) /\ (k + (i + 1)) - 1 = k + i
      OBVIOUS
    <3>3. g[i + 1] = g[i] + PieceWidth[name[i + 1]] /\ p[k + (i + 1)] = name[i + 1]
      BY <1>1, <1>3, <3>1
    <3>4. h[k + (i + 1)] = h[k + i] + PieceWidth[p[k + (i + 1)]]
      BY <1>4, <3>2
    <3>5. h[k + i] = f[k] + g[i] /\ f[k] \in Nat /\ g[i] \in Nat /\ PieceWidth[name[i + 1]] \in Nat
      <4>1. name[i + 1] \in Piece
        BY <3>1
      <4>2. PieceWidth[name[i + 1]] \in Nat
        BY <4>1, NameAssumption
      <4>3. h[k + i] = f[k] + g[i]
        BY <2>2
      <4>4. f[k] \in Nat /\ g[i] \in Nat
        <5>1. k \in 0..k /\ i \in 0..l
          OBVIOUS
        <5> QED
          BY <5>1
      <4> QED
        BY <4>2, <4>3, <4>4
    <3>6. h[k + (i + 1)] = f[k] + g[i + 1]
      <4> PICK w : w = PieceWidth[name[i + 1]]
        OBVIOUS
      <4> PICK y, z : y = f[k] /\ z = g[i]
        OBVIOUS
      <4>1. h[k + (i + 1)] = (y + z) + w /\ g[i + 1] = z + w /\ f[k] = y
        BY <3>3, <3>4, <3>5, Zenon
      <4>2. y \in Nat /\ z \in Nat /\ w \in Nat
        BY <3>5, Zenon
      <4>3. (y + z) + w = y + (z + w)
        BY ONLY <4>2
      <4> QED
        BY <4>1, <4>3, Zenon
    <3> QED
      BY <3>1, <3>6
  <2> HIDE DEF Q
  <2> QED
    BY <2>1, <2>2, UpTo
<1>7. h[k + l] = f[k] + g[l] /\ g[l] \in Nat
  <2>1. l \in Q
    BY <1>6
  <2> QED
    BY <2>1
<1> QED
  BY <1>2, <1>3, <1>4, <1>7

-----------------------------------------------------------------------------
(* Libraries *)

BaseOf(path) == Names!AfterLast(path, "/")

LEMMA NameConstants ==
  /\ NamesAsked \subseteq Seq(Piece \ {"/"}) /\ LibraryFiles \subseteq Seq(Piece) /\ Directory \in Seq(Piece)
  /\ None \notin Seq(Piece) /\ "emulated" \notin Piece /\ "/" \in Piece /\ "\\" \in Piece
  /\ \A x : None # <<"emulated", x>> \/ x \notin Piece
<1>1. "emulated" \notin Piece /\ "/" \in Piece /\ "\\" \in Piece
  BY NameAssumption DEF Piece
<1>2. Seq(Piece) \subseteq Seq(Piece \cup {"emulated"})
  OBVIOUS
<1>3. ASSUME NEW x \in Piece PROVE <<"emulated", x>> \in Seq(Piece \cup {"emulated"})
  OBVIOUS
<1> QED
  BY <1>1, <1>2, <1>3, NameAssumption

\* What MODULE_FindModule finds has the name in it; there is nothing if it finds none.
LEMMA FindModule ==
  ASSUME NEW l \in Seq(LibraryFiles), NEW n
  PROVE  \/ Names!MODULE_FindModule(l, n) = None /\ \A i \in 1..Len(l) : ~Names!Contains(l[i], n)
         \/ \E i \in 1..Len(l) : Names!MODULE_FindModule(l, n) = l[i] /\ Names!Contains(l[i], n) /\ l[i] # None
<1> DEFINE at == {i \in DOMAIN l : Names!Contains(l[i], n)}
<1>1. at \in SUBSET Nat /\ DOMAIN l = 1..Len(l)
  OBVIOUS
<1>2. Names!MODULE_FindModule(l, n) = IF at = {} THEN None ELSE l[Names!Min(at)]
  BY Zenon DEF Names!MODULE_FindModule
<1>3. CASE at = {}
  BY <1>1, <1>2, <1>3
<1>4. CASE at # {}
  <2>1. Names!Min(at) \in at
    <3> HIDE DEF at
    <3>1. \E m \in at : \A k \in at : m <= k
      BY <1>1, <1>4, LeastOf
    <3> QED
      BY <3>1, Zenon DEF Names!Min
  <2>2. Names!Min(at) \in 1..Len(l) /\ Names!Contains(l[Names!Min(at)], n)
    BY <1>1, <2>1
  <2> HIDE DEF at
  <2>3. l[Names!Min(at)] # None
    <3>1. l[Names!Min(at)] \in LibraryFiles
      BY <2>2
    <3> QED
      BY <3>1, NameConstants
  <2>4. Names!MODULE_FindModule(l, n) = l[Names!Min(at)]
    BY <1>2, <1>4
  <2> QED
    BY <2>2, <2>3, <2>4, Zenon
<1> QED
  BY <1>3, <1>4

\* A path that is tried ends in the name.
LEMMA CandidateIs ==
  ASSUME NEW n \in Bare, NEW i \in DOMAIN Names!Candidates(n)
  PROVE  BaseOf(Names!Candidates(n)[i]) = n /\ Names!Contains(Names!Candidates(n)[i], n)
<1>1. n \in Free("/") /\ n \in Seq(Piece)
  BY BareIs
<1> PICK ds : ds = Names!Directories
  OBVIOUS
<1>2. ds \in Seq(Seq(Piece))
  <2>1. <<"/usr/lib/win32">> \in Seq(Piece) /\ <<"/usr/local/lib/win32">> \in Seq(Piece)
    BY DEF Piece
  <2>2. Names!Listed(<<"/usr/lib/win32">>) \in Seq(Seq(Piece)) /\ Names!Listed(<<"/usr/local/lib/win32">>) \in Seq(Seq(Piece))
    BY <2>1 DEF Names!Listed
  <2>3. <<Directory>> \in Seq(Seq(Piece))
    BY NameConstants
  <2> QED
    BY <2>2, <2>3 DEF Names!Directories
<1> DEFINE paths == [k \in DOMAIN ds |-> ds[k] \o <<"/">> \o n]
<1>3. Names!Candidates(n) = <<n>> \o paths
  BY DEF Names!Candidates
<1>4. \A k \in 1..Len(ds) : ds[k] \in Seq(Piece) /\ paths[k] = ds[k] \o <<"/">> \o n /\ paths[k] \in Seq(Piece)
  <2> SUFFICES ASSUME NEW k \in 1..Len(ds)
               PROVE  ds[k] \in Seq(Piece) /\ paths[k] = ds[k] \o <<"/">> \o n /\ paths[k] \in Seq(Piece)
    OBVIOUS
  <2>1. k \in DOMAIN ds /\ ds[k] \in Seq(Piece)
    BY ONLY <1>2, k \in 1..Len(ds)
  <2>2. paths[k] = ds[k] \o <<"/">> \o n
    BY <2>1
  <2> PICK e : e = ds[k]
    OBVIOUS
  <2>3. <<"/">> \in Seq(Piece)
    BY NameConstants
  <2>4. e \o <<"/">> \o n \in Seq(Piece)
    BY ONLY <1>1, <2>1, <2>3, e = ds[k]
  <2> QED
    BY <2>1, <2>2, <2>4
<1>5. paths \in Seq(Seq(Piece)) /\ Len(paths) = Len(ds)
  <2> PICK m \in Nat : m = Len(ds)
    BY <1>2
  <2> HIDE DEF paths
  <2>1. paths = [k \in 1..m |-> paths[k]]
    BY <1>2 DEF paths
  <2>2. paths \in [1..m -> Seq(Piece)]
    BY <1>4, <2>1
  <2>3. paths \in Seq(Seq(Piece))
    BY <2>2, AsSeq
  <2> QED
    BY <2>2, <2>3
<1> HIDE DEF paths
<1>6. (<<n>> \o paths)[1] = n /\ \A k \in 1..Len(ds) : (<<n>> \o paths)[k + 1] = paths[k]
  BY <1>1, <1>5
<1>7. DOMAIN (<<n>> \o paths) = 1..(Len(ds) + 1)
  BY <1>1, <1>5
<1>8. CASE i = 1
  <2>1. Names!Candidates(n)[i] = n
    BY <1>3, <1>6, <1>8
  <2>2. Names!Contains(n, n)
    BY <1>1, HasEnd
  <2> QED
    BY <1>1, <2>1, <2>2, AfterNone DEF BaseOf
<1>9. CASE i # 1
  <2>1. i - 1 \in 1..Len(ds) /\ (i - 1) + 1 = i
    BY <1>2, <1>3, <1>7, <1>9
  <2> PICK k \in 1..Len(ds) : k + 1 = i
    BY <2>1
  <2>2. Names!Candidates(n)[i] = ds[k] \o <<"/">> \o n /\ ds[k] \in Seq(Piece)
    BY <1>3, <1>4, <1>6
  <2>3. Names!AfterLast(ds[k] \o <<"/">> \o n, "/") = n
    BY <1>1, <2>2, AfterIt, NameConstants
  <2>4. Names!Contains((ds[k] \o <<"/">>) \o n, n)
    <3>1. ds[k] \o <<"/">> \in Seq(Piece)
      BY <2>2, NameConstants
    <3> QED
      BY <1>1, <3>1, HasEnd
  <2> QED
    BY <2>2, <2>3, <2>4 DEF BaseOf
<1> QED
  BY <1>8, <1>9

\* What is loaded: libraries of different names that are no emulated ones.
LoadedOK(l) ==
  /\ l \in Seq(LibraryFiles)
  /\ \A i \in 1..Len(l) : BaseOf(l[i]) \in Bare /\ Names!EmulatedHandle(BaseOf(l[i])) = None
  /\ \A i, j \in 1..Len(l) : BaseOf(l[i]) = BaseOf(l[j]) => l[i] = l[j]

\* A handle is that of an emulated library, or of one that is loaded and has the name in its path.
GivenOK(l, g) ==
  \E n \in Bare :
    /\ g[1] = n
    /\ \/ Names!EmulatedHandle(n) # None /\ g[2] = Names!EmulatedHandle(n)
       \/ Names!EmulatedHandle(n) = None /\ \E i \in 1..Len(l) : g[2] = l[i] /\ Names!Contains(l[i], n)

NamesIInv == LoadedOK(loaded) /\ \A g \in given : GivenOK(loaded, g)

LEMMA NamesInit == Names!Init => NamesIInv
BY DEF Names!Init, NamesIInv, LoadedOK

\* Loading leaves the list or puts a library in front of it, and its handle is in it.
LEMMA LoadIs ==
  ASSUME LoadedOK(loaded), NEW n \in Bare, Names!EmulatedHandle(n) = None
  PROVE  LET of == Names!LoadLibraryExA(n) IN
         /\ LoadedOK(of.list)
         /\ \A i \in 1..Len(loaded) : \E j \in 1..Len(of.list) : of.list[j] = loaded[i]
         /\ of.handle = None \/ \E i \in 1..Len(of.list) : of.handle = of.list[i] /\ Names!Contains(of.list[i], n)
<1>1. loaded \in Seq(LibraryFiles)
  BY DEF LoadedOK
<1> DEFINE there == {i \in DOMAIN Names!Candidates(n) : Names!Candidates(n)[i] \in LibraryFiles}
           f == Names!Candidates(n)[Names!Min(there)]
           m == Names!MODULE_FindModule(loaded, n)
<1>2. Names!LoadLibraryExA(n) = IF m # None THEN [list |-> loaded, handle |-> m]
                                ELSE IF there = {} THEN [list |-> loaded, handle |-> None]
                                ELSE [list |-> <<f>> \o loaded, handle |-> f]
  BY Zenon DEF Names!LoadLibraryExA
<1>3. CASE m # None
  <2>1. PICK i \in 1..Len(loaded) : m = loaded[i] /\ Names!Contains(loaded[i], n)
    BY <1>1, <1>3, FindModule
  <2>2. Names!LoadLibraryExA(n) = [list |-> loaded, handle |-> m]
    BY <1>2, <1>3
  <2> HIDE DEF m
  <2> QED
    BY <2>1, <2>2
<1>4. CASE m = None /\ there = {}
  <2>1. Names!LoadLibraryExA(n) = [list |-> loaded, handle |-> None]
    BY <1>2, <1>4
  <2> QED
    BY <2>1
<1>5. CASE m = None /\ there # {}
  <2>1. f \in LibraryFiles /\ BaseOf(f) = n /\ Names!Contains(f, n)
    <3>1. there \in SUBSET Nat
      <4>1. Names!Candidates(n) \in Seq(Seq(Piece)) \/ DOMAIN Names!Candidates(n) \subseteq Nat
        BY DEF Names!Candidates, Names!Directories, Names!Listed
      <4> QED
        BY <4>1
    <3>2. Names!Min(there) \in there
      <4> HIDE DEF there
      <4>1. \E k \in there : \A j \in there : k <= j
        BY <1>5, <3>1, LeastOf
      <4> QED
        BY <4>1, Zenon DEF Names!Min
    <3>3. Names!Min(there) \in DOMAIN Names!Candidates(n) /\ f \in LibraryFiles
      BY <3>2
    <3> HIDE DEF there
    <3> QED
      BY <3>3, CandidateIs
  <2>2. Names!LoadLibraryExA(n) = [list |-> <<f>> \o loaded, handle |-> f]
    BY <1>2, <1>5
  <2> HIDE DEF f, there
  <2> PICK l : l = <<f>> \o loaded
    OBVIOUS
  <2>3. /\ l \in Seq(LibraryFiles) /\ Len(l) = Len(loaded) + 1
        /\ l[1] = f /\ \A k \in 1..Len(loaded) : l[k + 1] = loaded[k]
    BY <1>1, <2>1
  <2>4. ASSUME NEW i \in 1..Len(l) PROVE i = 1 \/ \E k \in 1..Len(loaded) : i = k + 1 /\ l[i] = loaded[k]
    <3>1. i # 1 => i - 1 \in 1..Len(loaded) /\ (i - 1) + 1 = i
      BY <1>1, <2>3
    <3> QED
      BY <2>3, <3>1
  <2>5. \A k \in 1..Len(loaded) : BaseOf(loaded[k]) # n
    <3>1. \A k \in 1..Len(loaded) : ~Names!Contains(loaded[k], n)
      BY <1>1, <1>5, FindModule
    <3>2. ASSUME NEW k \in 1..Len(loaded), BaseOf(loaded[k]) = n PROVE FALSE
      <4>1. loaded[k] \in Seq(Piece)
        BY <1>1, NameConstants
      <4>2. Names!Contains(loaded[k], n)
        BY <3>2, <4>1, AfterFree DEF BaseOf
      <4> QED
        BY <3>1, <4>2
    <3> QED
      BY <3>2
  <2>6. ASSUME NEW i \in 1..Len(l) PROVE BaseOf(l[i]) \in Bare /\ Names!EmulatedHandle(BaseOf(l[i])) = None
    <3>1. CASE i = 1
      BY <2>1, <2>3, <3>1
    <3>2. CASE i # 1
      <4>1. PICK k \in 1..Len(loaded) : l[i] = loaded[k]
        BY <2>4, <3>2
      <4>2. BaseOf(loaded[k]) \in Bare /\ Names!EmulatedHandle(BaseOf(loaded[k])) = None
        BY Zenon DEF LoadedOK
      <4> QED
        BY <4>1, <4>2
    <3> QED
      BY <3>1, <3>2
  <2>7. ASSUME NEW i \in 1..Len(l), NEW j \in 1..Len(l), BaseOf(l[i]) = BaseOf(l[j]) PROVE l[i] = l[j]
    <3>1. CASE i = 1 /\ j = 1
      BY <3>1
    <3>2. CASE i = 1 /\ j # 1
      BY <2>1, <2>3, <2>4, <2>5, <2>7, <3>2
    <3>3. CASE i # 1 /\ j = 1
      BY <2>1, <2>3, <2>4, <2>5, <2>7, <3>3
    <3>4. CASE i # 1 /\ j # 1
      BY <2>4, <2>7, <3>4 DEF LoadedOK
    <3> QED
      BY <3>1, <3>2, <3>3, <3>4
  <2>8. LoadedOK(l)
    BY <2>3, <2>6, <2>7 DEF LoadedOK
  <2>9. \A i \in 1..Len(loaded) : \E j \in 1..Len(l) : l[j] = loaded[i]
    <3>1. \A i \in 1..Len(loaded) : i + 1 \in 1..Len(l) /\ l[i + 1] = loaded[i]
      BY <1>1, <2>3
    <3> QED
      BY <3>1
  <2>10. 1 \in 1..Len(l) /\ f = l[1] /\ Names!Contains(l[1], n)
    BY <1>1, <2>1, <2>3
  <2> QED
    BY <2>2, <2>8, <2>9, <2>10
<1> QED
  BY <1>3, <1>4, <1>5

\* A handle stays good however many are loaded.
LEMMA GivenStays ==
  ASSUME NEW l, NEW k, NEW g, GivenOK(l, g), \A i \in 1..Len(l) : \E j \in 1..Len(k) : k[j] = l[i]
  PROVE  GivenOK(k, g)
BY DEF GivenOK

LEMMA NamesStep == NamesIInv /\ [Names!Next]_nameVars => NamesIInv'
<1> SUFFICES ASSUME NamesIInv, [Names!Next]_nameVars PROVE NamesIInv'
  OBVIOUS
<1>1. ASSUME NEW a \in NamesAsked, Names!expLoadLibraryA(a) PROVE NamesIInv'
  <2> DEFINE n == Names!AfterLast(a, "\\")
  <2>1. n \in Bare
    <3>1. a \in Seq(Piece \ {"/"})
      BY NameConstants
    <3>2. n \in Seq((Piece \ {"/"}) \ {"\\"})
      BY <3>1, AfterFree
    <3>3. (Piece \ {"/"}) \ {"\\"} = Piece \ {"/", "\\"}
      OBVIOUS
    <3> QED
      BY <3>2, <3>3 DEF Bare
  <2> DEFINE of == IF Names!EmulatedHandle(n) # None THEN [list |-> loaded, handle |-> Names!EmulatedHandle(n)]
                   ELSE Names!LoadLibraryExA(n)
  <2>2. loaded' = of.list /\ given' = IF of.handle = None THEN given ELSE given \cup {<<n, of.handle>>}
    BY <1>1, Zenon DEF Names!expLoadLibraryA
  <2> HIDE DEF n
  <2>3. CASE Names!EmulatedHandle(n) # None
    <3>1. loaded' = loaded /\ given' = given \cup {<<n, Names!EmulatedHandle(n)>>}
      BY <2>2, <2>3
    <3>2. GivenOK(loaded, <<n, Names!EmulatedHandle(n)>>)
      BY <2>1, <2>3 DEF GivenOK
    <3> QED
      BY <3>1, <3>2 DEF NamesIInv
  <2>4. CASE Names!EmulatedHandle(n) = None
    <3> DEFINE o == Names!LoadLibraryExA(n)
    <3>1. /\ LoadedOK(o.list)
          /\ \A i \in 1..Len(loaded) : \E j \in 1..Len(o.list) : o.list[j] = loaded[i]
          /\ o.handle = None \/ \E i \in 1..Len(o.list) : o.handle = o.list[i] /\ Names!Contains(o.list[i], n)
      BY <2>1, <2>4, LoadIs DEF NamesIInv
    <3>2. loaded' = o.list /\ given' = IF o.handle = None THEN given ELSE given \cup {<<n, o.handle>>}
      BY <2>2, <2>4
    <3> HIDE DEF o
    <3>3. \A g \in given : GivenOK(o.list, g)
      BY <3>1, GivenStays DEF NamesIInv
    <3>4. o.handle # None => GivenOK(o.list, <<n, o.handle>>)
      BY <2>1, <2>4, <3>1 DEF GivenOK
    <3>5. LoadedOK(loaded') /\ \A g \in given' : GivenOK(loaded', g)
      BY <3>1, <3>2, <3>3, <3>4
    <3> QED
      BY <3>5 DEF NamesIInv
  <2> QED
    BY <2>3, <2>4
<1>2. ASSUME UNCHANGED nameVars PROVE NamesIInv'
  BY <1>2 DEF nameVars, NamesIInv
<1>3. ASSUME NEW g \in given, Names!expFreeLibrary(g[2]) PROVE NamesIInv'
  BY <1>2, <1>3 DEF Names!expFreeLibrary, Names!nameVars, nameVars
<1> QED
  BY <1>1, <1>2, <1>3 DEF Names!Next

\* The directory that is told has eighteen characters.
LEMMA DirectoryHas ==
  /\ <<"c:", "\\", "windows", "\\", "system", "\\">> \in Seq(Piece)
  /\ Names!Characters(<<"c:", "\\", "windows", "\\", "system", "\\">>) = 18
<1> PICK d : d = <<"c:", "\\", "windows", "\\", "system", "\\">>
  OBVIOUS
<1>1. d \in Seq(Piece) /\ Len(d) = 6
  BY DEF Piece
<1>2. PICK f \in [0..Len(d) -> Nat] :
        f[0] = 0 /\ (\A i \in 1..Len(d) : f[i] = f[i - 1] + PieceWidth[d[i]]) /\ Names!Characters(d) = f[Len(d)]
  BY <1>1, CharactersAre, Zenon
<1>3. f[1] = 2 /\ f[2] = 3 /\ f[3] = 10
  <2>1. f[1] = f[0] + PieceWidth["c:"]
    BY <1>1, <1>2
  <2>2. f[2] = f[1] + PieceWidth["\\"]
    BY <1>1, <1>2
  <2>3. f[3] = f[2] + PieceWidth["windows"]
    BY <1>1, <1>2
  <2> QED
    BY <1>2, <2>1, <2>2, <2>3, NameAssumption
<1>4. f[4] = 11 /\ f[5] = 17 /\ f[6] = 18
  <2>1. f[4] = f[3] + PieceWidth["\\"]
    BY <1>1, <1>2
  <2>2. f[5] = f[4] + PieceWidth["system"]
    BY <1>1, <1>2
  <2>3. f[6] = f[5] + PieceWidth["\\"]
    BY <1>1, <1>2
  <2> QED
    BY <1>3, <2>1, <2>2, <2>3, NameAssumption
<1> QED
  BY <1>1, <1>2, <1>4

\* The program's name has eleven.
LEMMA ProgramHas ==
  <<"aviplay", ".dll">> \in Seq(Piece) /\ Names!Characters(<<"aviplay", ".dll">>) = 11
<1> PICK d : d = <<"aviplay", ".dll">>
  OBVIOUS
<1>1. d \in Seq(Piece) /\ Len(d) = 2
  BY DEF Piece
<1>2. PICK f \in [0..Len(d) -> Nat] :
        f[0] = 0 /\ (\A i \in 1..Len(d) : f[i] = f[i - 1] + PieceWidth[d[i]]) /\ Names!Characters(d) = f[Len(d)]
  BY <1>1, CharactersAre, Zenon
<1>3. f[1] = f[0] + PieceWidth["aviplay"]
  BY <1>1, <1>2
<1>4. f[2] = f[1] + PieceWidth[".dll"]
  BY <1>1, <1>2
<1>5. f[2] = 11
  BY <1>2, <1>3, <1>4, NameAssumption
<1> QED
  BY <1>1, <1>2, <1>5

\* The file name that is told of a library is its own, and fits if the name leaves room.
LEMMA NameTold ==
  ASSUME LoadedOK(loaded), NEW m \in Names!Range(loaded), NEW len \in 34..44,
         Names!expGetModuleFileNameA(m, len) # None
  PROVE  LET path == Names!expGetModuleFileNameA(m, len) IN
         /\ Names!AfterLast(path, "\\") = BaseOf(m)
         /\ Names!Characters(BaseOf(m)) + 19 <= len => Names!Characters(path) < len
<1> DEFINE d == <<"c:", "\\", "windows", "\\", "system">>
           dir == <<"c:", "\\", "windows", "\\", "system", "\\">>
           b == BaseOf(m)
<1>1. m # None /\ b \in Bare
  <2>1. PICK i \in 1..Len(loaded) : m = loaded[i]
    BY DEF Names!Range, LoadedOK
  <2>2. m \in LibraryFiles /\ b \in Bare
    BY <2>1 DEF LoadedOK
  <2> QED
    BY <2>2, NameConstants
<1>2. Names!expGetModuleFileNameA(m, len) = dir \o Names!AfterLast(m, "/")
  BY <1>1, Zenon DEF Names!expGetModuleFileNameA
<1>3. Names!expGetModuleFileNameA(m, len) = dir \o b
  BY <1>2 DEF BaseOf
<1>4. b \in Free("\\") /\ b \in Seq(Piece)
  BY <1>1, BareIs
<1> HIDE DEF b
<1>5. d \in Seq(Piece) /\ "\\" \in Piece /\ dir = d \o <<"\\">>
  BY DEF Piece
<1>6. dir \o b = d \o <<"\\">> \o b
  BY <1>5
<1>7. Names!AfterLast(d \o <<"\\">> \o b, "\\") = b
  BY ONLY <1>4, <1>5, AfterIt
<1>8. Names!Characters(dir \o b) = 18 + Names!Characters(b) /\ Names!Characters(b) \in Nat
  BY <1>4, DirectoryHas, CharactersJoined
<1>9. Names!Characters(b) + 19 <= len => Names!Characters(dir \o b) < len
  BY <1>8
<1> HIDE DEF d, dir
<1> QED
  BY <1>3, <1>6, <1>7, <1>9 DEF b

\* A handle is good for its name.
LEMMA HandleServes ==
  ASSUME LoadedOK(loaded), NEW g, GivenOK(loaded, g)
  PROVE  /\ Names!Library(g[2]) = g[2]
         /\ Names!Within(g[1]) \/ g[2] \notin LibraryFiles \/ Names!AfterLast(g[2], "/") = Names!AfterLast(g[1], "/")
         /\ \/ Names!Within(g[1]) \/ Names!expGetModuleHandleA(g[1]) = g[2]
            \/ g[1] = <<"user32", ".dll">> \/ g[1][1] \in Names!Emulated \ {"kernel32", "user32"}
<1> PICK n \in Bare : /\ g[1] = n
                      /\ \/ Names!EmulatedHandle(n) # None /\ g[2] = Names!EmulatedHandle(n)
                         \/ /\ Names!EmulatedHandle(n) = None
                            /\ \E i \in 1..Len(loaded) : g[2] = loaded[i] /\ Names!Contains(loaded[i], n)
  BY DEF GivenOK
<1>1. n \in Seq(Piece) /\ Names!AfterLast(n, "/") = n /\ n # None
  BY BareIs, AfterNone, NameConstants
<1>2. \A i \in 1..Len(loaded) : loaded[i] \in Names!Range(loaded)
  BY DEF Names!Range, LoadedOK
<1>3. ASSUME NEW i \in 1..Len(loaded), Names!Contains(loaded[i], n), BaseOf(loaded[i]) # n
      PROVE  Names!Within(n)
  BY <1>1, <1>2, <1>3 DEF Names!Within, BaseOf
<1>4. loaded \in Seq(LibraryFiles)
  BY DEF LoadedOK
<1>5. CASE Names!EmulatedHandle(n) # None /\ g[2] = Names!EmulatedHandle(n)
  <2>1. n # <<>> /\ n[1] \in Names!Emulated /\ Tail(n) \in {<<>>, <<".dll">>} /\ g[2] = <<"emulated", n[1]>>
    BY <1>5 DEF Names!EmulatedHandle
  <2>2. Names!Library(g[2]) = g[2]
    BY <2>1 DEF Names!Library
  <2>3. g[2] \notin LibraryFiles
    <3>1. ASSUME g[2] \in Seq(Piece) PROVE FALSE
      <4>1. g[2][1] \in Piece
        BY <2>1, <3>1
      <4> QED
        BY <2>1, <4>1, NameConstants
    <3> QED
      BY <3>1, NameConstants
  <2>4. ASSUME ~Names!Within(n), n # <<"user32", ".dll">>, n[1] \in {"kernel32", "user32"}
        PROVE  Names!expGetModuleHandleA(n) = g[2]
    <3>1. Names!MODULE_FindModule(loaded, n) = None
      <4>1. ASSUME NEW i \in 1..Len(loaded), Names!Contains(loaded[i], n) PROVE FALSE
        <5>1. BaseOf(loaded[i]) = n
          BY <1>3, <2>4, <4>1
        <5> QED
          BY <1>5, <5>1 DEF LoadedOK
      <4> QED
        BY <1>4, <4>1, FindModule
    <3>2. n \in {<<"kernel32">>, <<"kernel32", ".dll">>, <<"user32">>}
      <4>1. n = <<n[1]>> \o Tail(n)
        BY <1>1, <2>1
      <4>2. n = <<n[1]>> \/ n = <<n[1], ".dll">>
        <5> PICK x, t : x = n[1] /\ t = Tail(n)
          OBVIOUS
        <5>0. x \in Piece /\ ".dll" \in Piece
          BY <1>1, <2>1 DEF Piece
        <5>1. t = <<>> => <<x>> \o t = <<x>>
          BY ONLY <5>0, TwoPieces, Zenon
        <5>2. t = <<".dll">> => <<x>> \o t = <<x, ".dll">>
          BY ONLY <5>0, TwoPieces, Zenon
        <5> QED
          BY <2>1, <4>1, <5>1, <5>2, Zenon
      <4> QED
        BY <2>4, <4>2
    <3> QED
      BY <1>1, <1>5, <3>1, <3>2 DEF Names!expGetModuleHandleA
  <2>5. n[1] \in {"kernel32", "user32"} \/ n[1] \in Names!Emulated \ {"kernel32", "user32"}
    BY <2>1
  <2> QED
    BY <2>2, <2>3, <2>4, <2>5
<1>6. CASE \E i \in 1..Len(loaded) : g[2] = loaded[i] /\ Names!Contains(loaded[i], n)
  <2>1. PICK i \in 1..Len(loaded) : g[2] = loaded[i] /\ Names!Contains(loaded[i], n)
    BY <1>6
  <2>2. Names!Library(g[2]) = g[2]
    BY <1>2, <2>1 DEF Names!Library
  <2>3. ASSUME ~Names!Within(n) PROVE Names!AfterLast(g[2], "/") = n /\ Names!expGetModuleHandleA(n) = g[2]
    <3>1. BaseOf(loaded[i]) = n
      BY <1>3, <2>1, <2>3
    <3>2. PICK k \in 1..Len(loaded) : /\ Names!MODULE_FindModule(loaded, n) = loaded[k]
                                      /\ Names!Contains(loaded[k], n) /\ loaded[k] # None
      BY <1>4, <2>1, FindModule
    <3>3. BaseOf(loaded[k]) = n
      BY <1>3, <2>3, <3>2
    <3>4. loaded[k] = loaded[i]
      BY <3>1, <3>3 DEF LoadedOK
    <3> QED
      BY <1>1, <2>1, <3>1, <3>2, <3>4 DEF BaseOf, Names!expGetModuleHandleA
  <2> QED
    BY <1>1, <2>2, <2>3
<1> QED
  BY <1>5, <1>6

LEMMA NamesGoal == NamesIInv => Names!HandlesAgree
<1> SUFFICES ASSUME NamesIInv PROVE Names!HandlesAgree
  OBVIOUS
<1>1. ASSUME NEW g \in given
      PROVE  /\ Names!Library(g[2]) = g[2]
             /\ Names!Within(g[1]) \/ g[2] \notin LibraryFiles \/ Names!AfterLast(g[2], "/") = Names!AfterLast(g[1], "/")
             /\ \/ Names!Within(g[1]) \/ Names!expGetModuleHandleA(g[1]) = g[2]
                \/ g[1] = <<"user32", ".dll">> \/ g[1][1] \in Names!Emulated \ {"kernel32", "user32"}
  BY HandleServes DEF NamesIInv
<1>2. ASSUME NEW m \in Names!Range(loaded), NEW len \in 34..44
      PROVE  LET path == Names!expGetModuleFileNameA(m, len)  base == Names!AfterLast(m, "/") IN
             path # None => /\ Names!AfterLast(path, "\\") = base
                            /\ Names!Characters(base) + 19 <= len => Names!Characters(path) < len
  BY NameTold DEF NamesIInv, BaseOf
<1>3. ASSUME NEW len \in 11..12
      PROVE  Names!expGetModuleFileNameA(None, len) # None <=> Names!Characters(<<"aviplay", ".dll">>) < len
  <2>1. <<"aviplay", ".dll">> # None
    BY ProgramHas, NameConstants
  <2>2. len >= 12 => Names!expGetModuleFileNameA(None, len) = <<"aviplay", ".dll">>
    BY DEF Names!expGetModuleFileNameA
  <2>3. ~(len >= 12) => Names!expGetModuleFileNameA(None, len) = None
    BY DEF Names!expGetModuleFileNameA
  <2>4. Names!Characters(<<"aviplay", ".dll">>) < len <=> len >= 12
    BY ProgramHas
  <2> QED
    BY <2>1, <2>2, <2>3, <2>4
<1> QED
  BY <1>1, <1>2, <1>3 DEF Names!HandlesAgree

-----------------------------------------------------------------------------
(* The beginning of a sequence *)

LEMMA PrefixIs ==
  ASSUME NEW S, NEW s \in Seq(S), NEW n \in 0..Len(s)
  PROVE  /\ SubSeq(s, 1, n) \in Seq(S) /\ Len(SubSeq(s, 1, n)) = n
         /\ \A i \in 1..n : SubSeq(s, 1, n)[i] = s[i]
OBVIOUS
-----------------------------------------------------------------------------
(* What is looked up: exports *)

LEMMA SequenceIs ==
  ASSUME NEW s, IsSequence(s)
  PROVE  Len(s) \in Nat /\ DOMAIN s = 1..Len(s) /\ (s # <<>> => 1 \in 1..Len(s))
BY DEF IsSequence

\* A table of exports whose names and functions are as the assumption says.
TableOK(t) ==
  /\ t.base \in Int /\ IsSequence(t.functions) /\ IsSequence(t.names)
  /\ \A i \in 1..Len(t.functions) : t.functions[i] = None \/ t.functions[i][1] \in {"code", "forward"}
  /\ \A i \in 1..Len(t.names) : t.names[i][1] \in Int /\ t.names[i][2] \in Int

LEMMA TablesTyped ==
  /\ \A t \in TablesUsed : TableOK(t)
  /\ \A m \in DOMAIN TableOfModule : TableOK(TableOfModule[m])
BY ExportAssumption DEF TableOK

\* The ranges of a bisection.
RangeOK(r, n) == r[1] \in 0..n /\ r[2] \in -1..(n - 1)
InMiddle(names, wanted, r) == r[1] <= r[2] /\ names[Look!Middle(r) + 1][1] = wanted

LEMMA MiddleIs ==
  ASSUME NEW n \in Nat, NEW r, RangeOK(r, n), r[1] <= r[2]
  PROVE  Look!Middle(r) \in 0..(n - 1) /\ r[1] <= Look!Middle(r) /\ Look!Middle(r) <= r[2]
BY DEF RangeOK, Look!Middle

\* A round makes the range smaller unless its middle is the name or it is empty.
LEMMA HalveIs ==
  ASSUME NEW names, NEW wanted, NEW n \in Nat, n = Len(names), NEW r \in (0..n) \X (-1..(n - 1))
  PROVE  LET h == Look!Halve(names, wanted, r) IN
         /\ h \in (0..n) \X (-1..(n - 1))
         /\ (h = r /\ (r[1] > r[2] \/ InMiddle(names, wanted, r))) \/ h[2] - h[1] < r[2] - r[1]
BY MiddleIs DEF RangeOK, Look!Halve, InMiddle

\* Where the bisection ends, the name is.
LEMMA BisectIs ==
  ASSUME NEW names, NEW wanted, Len(names) \in Nat
  PROVE  LET place == Look!Bisect(names, wanted) IN
         place = -1 \/ (place \in 0..(Len(names) - 1) /\ names[place + 1][1] = wanted)
<1> PICK n \in Nat : n = Len(names)
  OBVIOUS
<1> DEFINE D == (0..n) \X (-1..(n - 1))
           next == [k \in 1..n |-> [r \in D |-> Look!Halve(names, wanted, r)]]
<1>1. PICK g : Made(g, n, D, <<0, n - 1>>, next)
  <2>1. Steps(next, n, D)
    BY HalveIs DEF Steps
  <2>2. <<0, n - 1>> \in D
    OBVIOUS
  <2> HIDE DEF next, D
  <2> QED
    BY <2>1, <2>2, StepsExist
<1>2. /\ g \in [0..n -> D] /\ g[0] = <<0, n - 1>>
      /\ \A k \in 1..n : g[k] = Look!Halve(names, wanted, g[k - 1])
  <2>1. g \in [0..n -> D] /\ g[0] = <<0, n - 1>> /\ \A k \in 1..n : g[k] = next[k][g[k - 1]]
    BY <1>1 DEF Made
  <2>2. ASSUME NEW k \in 1..n PROVE g[k] = Look!Halve(names, wanted, g[k - 1])
    <3>1. g[k - 1] \in D
      BY <2>1
    <3> HIDE DEF D
    <3> QED
      BY <2>1, <3>1
  <2> QED
    BY <2>1, <2>2
<1> HIDE DEF next
<1>3. g = [k \in 0..n |-> IF k = 0 THEN <<0, n - 1>> ELSE Look!Halve(names, wanted, g[k - 1])]
  BY <1>2
<1>4. PICK f : /\ f = [k \in 0..n |-> IF k = 0 THEN <<0, n - 1>> ELSE Look!Halve(names, wanted, f[k - 1])]
               /\ Look!Bisect(names, wanted) = IF f[n][1] <= f[n][2] THEN Look!Middle(f[n]) ELSE -1
  <2> DEFINE e == CHOOSE f : f = [k \in 0..Len(names) |-> IF k = 0 THEN <<0, Len(names) - 1>>
                                                         ELSE Look!Halve(names, wanted, f[k - 1])]
  <2>1. e = [k \in 0..Len(names) |-> IF k = 0 THEN <<0, Len(names) - 1>> ELSE Look!Halve(names, wanted, e[k - 1])]
    BY <1>3, Zenon
  <2>2. Look!Bisect(names, wanted) = IF e[Len(names)][1] <= e[Len(names)][2] THEN Look!Middle(e[Len(names)]) ELSE -1
    BY Zenon DEF Look!Bisect
  <2> HIDE DEF e
  <2> QED
    BY <2>1, <2>2, Zenon
<1>5. f[0] = <<0, n - 1>> /\ \A k \in 1..n : f[k] = Look!Halve(names, wanted, f[k - 1])
  <2>1. 0 \in 0..n /\ \A k \in 1..n : k \in 0..n /\ k # 0
    OBVIOUS
  <2>2. f[0] = <<0, n - 1>>
    BY <1>4, <2>1, Zenon
  <2>3. \A k \in 1..n : f[k] = Look!Halve(names, wanted, f[k - 1])
    BY <1>4, <2>1, Zenon
  <2> QED
    BY <2>2, <2>3
<1> DEFINE Small(k) == f[k][1] > f[k][2] \/ InMiddle(names, wanted, f[k]) \/ f[k][2] - f[k][1] + 1 <= n - k
           P == {k \in 0..n : f[k] \in D /\ Small(k)}
<1>6. 0 \in P
  <2> PICK r : r = f[0]
    OBVIOUS
  <2>1. r = <<0, n - 1>>
    BY <1>5
  <2>2. r \in D /\ r[1] = 0 /\ r[2] = n - 1
    BY <2>1
  <2>3. r[2] - r[1] + 1 <= n - 0
    BY <2>2
  <2>4. Small(0)
    BY <2>3
  <2> HIDE DEF Small, D
  <2>5. 0 \in 0..n /\ f[0] \in D
    BY <2>2
  <2> QED
    BY <2>4, <2>5
<1>7. ASSUME NEW k \in 0..(n - 1), k \in P PROVE k + 1 \in P
  <2>1. f[k + 1] = Look!Halve(names, wanted, f[k]) /\ f[k] \in D /\ Small(k)
    <3>1. k + 1 \in 1..n /\ (k + 1) - 1 = k
      BY <1>7
    <3>2. f[k + 1] = Look!Halve(names, wanted, f[k])
      BY <1>5, <3>1
    <3> HIDE DEF Small, D
    <3> QED
      BY <1>7, <3>2
  <2> PICK h, r : h = f[k + 1] /\ r = f[k]
    OBVIOUS
  <2>2. h \in D /\ ((h = r /\ (r[1] > r[2] \/ InMiddle(names, wanted, r))) \/ h[2] - h[1] < r[2] - r[1])
    <3>1. h = Look!Halve(names, wanted, r) /\ r \in (0..n) \X (-1..(n - 1))
      BY <2>1
    <3>2. /\ Look!Halve(names, wanted, r) \in (0..n) \X (-1..(n - 1))
          /\ \/ Look!Halve(names, wanted, r) = r /\ (r[1] > r[2] \/ InMiddle(names, wanted, r))
             \/ Look!Halve(names, wanted, r)[2] - Look!Halve(names, wanted, r)[1] < r[2] - r[1]
      BY ONLY <3>1, n \in Nat, n = Len(names), HalveIs
    <3> QED
      BY ONLY <3>1, <3>2
  <2>3. CASE h = r /\ (r[1] > r[2] \/ InMiddle(names, wanted, r))
    <3>1. Small(k + 1)
      BY <2>3
    <3> HIDE DEF Small, D
    <3> QED
      BY <2>2, <3>1
  <2>4. CASE h[2] - h[1] < r[2] - r[1]
    <3>1. h[1] \in Int /\ h[2] \in Int /\ r[1] \in Int /\ r[2] \in Int
      BY <2>1, <2>2
    <3>2. CASE r[1] > r[2]
      <4>1. h[1] > h[2]
        BY <2>4, <3>1, <3>2
      <4>2. Small(k + 1)
        BY <4>1
      <4> HIDE DEF Small, D
      <4> QED
        BY <2>2, <4>2
    <3>3. CASE InMiddle(names, wanted, r)
      BY <2>1, <2>4, <3>1, <3>3 DEF InMiddle, Look!Halve
    <3>4. CASE r[2] - r[1] + 1 <= n - k
      <4>1. h[2] - h[1] + 1 <= n - (k + 1)
        <5> PICK x, y : x = h[2] - h[1] /\ y = r[2] - r[1]
          OBVIOUS
        <5>1. x \in Int /\ y \in Int /\ x < y /\ y + 1 <= n - k /\ k \in Int
          BY <2>4, <3>1, <3>4
        <5> QED
          BY ONLY <5>1, x = h[2] - h[1], n \in Nat
      <4>2. Small(k + 1)
        BY <4>1
      <4> HIDE DEF Small, D
      <4> QED
        BY <2>2, <4>2
    <3> QED
      BY <2>1, <3>2, <3>3, <3>4
  <2> QED
    BY <2>2, <2>3, <2>4
<1>8. n \in P
  <2> HIDE DEF P
  <2>1. \A k \in 0..n : k \in P
    BY <1>6, <1>7, UpTo
  <2> QED
    BY <2>1
<1> PICK r : r = f[n]
  OBVIOUS
<1>9. r \in D /\ (r[1] > r[2] \/ InMiddle(names, wanted, r) \/ r[2] - r[1] + 1 <= n - n)
  BY <1>8
<1>10. RangeOK(r, n) /\ (r[1] > r[2] \/ InMiddle(names, wanted, r))
  BY <1>9 DEF RangeOK
<1>11. CASE r[1] <= r[2]
  <2>1. InMiddle(names, wanted, r)
    BY <1>10, <1>11 DEF RangeOK
  <2>2. Look!Middle(r) \in 0..(n - 1)
    BY <1>10, <1>11, MiddleIs
  <2> QED
    BY <1>4, <1>11, <2>1, <2>2 DEF InMiddle
<1>12. CASE ~(r[1] <= r[2])
  BY <1>12, <1>4
<1> QED
  BY <1>11, <1>12

\* The index of a name is that of an entry with it, if there is one.
IndexOf(names, wanted, x) ==
  \/ x = -1 /\ \A i \in 1..Len(names) : names[i][1] # wanted
  \/ \E i \in 1..Len(names) : names[i][1] = wanted /\ x = names[i][2]

LEMMA IndexIs ==
  ASSUME NEW t, TableOK(t), NEW wanted
  PROVE  IndexOf(t.names, wanted, Look!IndexOfName(t.names, wanted))
<1> PICK s : s = t.names
  OBVIOUS
<1> PICK n \in Nat : n = Len(s)
  BY SequenceIs DEF TableOK
<1> DEFINE at == {i \in 1..Len(s) : s[i][1] = wanted}
           place == Look!Bisect(s, wanted)
<1>1. Look!IndexOfName(s, wanted) = IF place # -1 THEN s[place + 1][2]
                                    ELSE IF at = {} THEN -1
                                    ELSE s[CHOOSE i \in at : \A j \in at : i <= j][2]
  BY Zenon DEF Look!IndexOfName
<1> USE DEF IndexOf
<1>2. CASE place # -1
  <2>1. place \in 0..(n - 1) /\ s[place + 1][1] = wanted
    BY <1>2, BisectIs
  <2>2. place + 1 \in 1..n
    BY <2>1
  <2>3. Look!IndexOfName(s, wanted) = s[place + 1][2]
    BY <1>1, <1>2
  <2> HIDE DEF place
  <2> QED
    BY <2>1, <2>2, <2>3
<1>3. CASE place = -1 /\ at = {}
  BY <1>1, <1>3
<1>4. CASE place = -1 /\ at # {}
  <2>1. \E i \in at : \A j \in at : i <= j
    <3>1. at \in SUBSET Nat
      OBVIOUS
    <3> HIDE DEF at
    <3> QED
      BY <1>4, <3>1, LeastOf
  <2>2. PICK i \in at : i = CHOOSE e \in at : \A j \in at : e <= j
    BY <2>1, Zenon
  <2>3. Look!IndexOfName(s, wanted) = s[i][2]
    BY <1>1, <1>4, <2>2, Zenon
  <2> QED
    BY <2>3
<1> QED
  BY <1>2, <1>3, <1>4

\* An ordinal finds the function it stands for,
LEMMA OrdinalFound ==
  ASSUME NEW t, TableOK(t), NEW x \in Int
  PROVE  Look!PE_FindExportedFunction(t, <<"ordinal", t.base + x>>)
           = IF x + 1 \in 1..Len(t.functions) THEN t.functions[x + 1] ELSE None
BY SequenceIs DEF TableOK, Look!PE_FindExportedFunction

\* and a name that of its index.
LEMMA NameFound ==
  ASSUME NEW t, TableOK(t), NEW wanted, NEW x \in Int, Look!IndexOfName(t.names, wanted) = x
  PROVE  Look!PE_FindExportedFunction(t, <<"name", wanted>>)
           = IF x + 1 \in 1..Len(t.functions) THEN t.functions[x + 1] ELSE None
BY SequenceIs DEF TableOK, Look!PE_FindExportedFunction

\* What is found is a function of the table or nothing.
LEMMA FoundTyped ==
  ASSUME NEW t, TableOK(t), NEW asked, asked[1] = "name" \/ asked[2] \in Int
  PROVE  LET e == Look!PE_FindExportedFunction(t, asked) IN
         e = None \/ (e \in Look!Elements(t.functions) /\ e[1] \in {"code", "forward"})
<1> PICK n \in Nat : n = Len(t.functions)
  BY SequenceIs DEF TableOK
<1> DEFINE i == IF asked[1] = "name" THEN Look!IndexOfName(t.names, asked[2]) ELSE asked[2] - t.base
<1>1. i \in Int
  <2> PICK x : x = Look!IndexOfName(t.names, asked[2])
    OBVIOUS
  <2>0. x = -1 \/ \E k \in 1..Len(t.names) : x = t.names[k][2]
    BY IndexIs, Zenon DEF IndexOf
  <2>1. x \in Int
    BY <2>0 DEF TableOK
  <2> QED
    BY <2>1 DEF TableOK
<1>2. Look!PE_FindExportedFunction(t, asked) = IF i < 0 \/ i >= n THEN None ELSE t.functions[i + 1]
  BY DEF Look!PE_FindExportedFunction
<1> HIDE DEF i
<1>3. CASE i < 0 \/ i >= n
  BY <1>2, <1>3
<1>4. CASE ~(i < 0 \/ i >= n)
  BY <1>1, <1>2, <1>4 DEF Look!Elements, TableOK
<1> QED
  BY <1>3, <1>4

\* Wherever forwards lead, they end at code.
LEMMA ProcAddressIs ==
  ASSUME NEW loadedOnes, \A m \in DOMAIN loadedOnes : TableOK(loadedOnes[m]),
         NEW module \in DOMAIN loadedOnes, NEW name, NEW follows \in Nat
  PROVE  LET e == Look!MODULE_GetProcAddress(loadedOnes, module, <<"name", name>>, follows) IN
         e = None \/ e[1] = "code"
<1> PICK L, asked : L = loadedOnes /\ asked = <<"name", name>>
  OBVIOUS
<1> DEFINE asks == {asked} \cup UNION {{<<"name", e[3]>> : e \in Look!Forwards(L[k])} : k \in DOMAIN L}
           P == (DOMAIN L) \X asks
           E(p) == Look!PE_FindExportedFunction(L[p[1]], p[2])
           Row(n, row) == [p \in P |-> IF E(p) = None \/ E(p)[1] # "forward" THEN E(p)
                                       ELSE IF E(p)[2] \notin DOMAIN L \/ n = 0 THEN None
                                       ELSE row[<<E(p)[2], <<"name", E(p)[3]>>>>]]
           Result == {None} \cup UNION {Look!Elements(L[m].functions) : m \in DOMAIN L}
           Good == {e \in Result : e = None \/ e[1] = "code"}
           D == [P -> Good]
<1>1. ASSUME NEW p \in P
      PROVE  /\ E(p) \in Good \/ (E(p) # None /\ E(p)[1] = "forward")
             /\ E(p) # None /\ E(p)[1] = "forward" /\ E(p)[2] \in DOMAIN L => <<E(p)[2], <<"name", E(p)[3]>>>> \in P
  <2>1. p[1] \in DOMAIN L /\ p[2] \in asks
    OBVIOUS
  <2>2. p[2][1] = "name"
    BY <2>1
  <2>3. E(p) = None \/ (E(p) \in Look!Elements(L[p[1]].functions) /\ E(p)[1] \in {"code", "forward"})
    BY <2>1, <2>2, FoundTyped
  <2> PICK e : e = E(p)
    OBVIOUS
  <2>4. e \in Good \/ (e # None /\ e[1] = "forward")
    BY <2>1, <2>3
  <2>5. ASSUME e # None, e[1] = "forward", e[2] \in DOMAIN L PROVE <<e[2], <<"name", e[3]>>>> \in P
    <3>1. e \in Look!Forwards(L[p[1]])
      BY <2>3, <2>5 DEF Look!Forwards
    <3>2. <<"name", e[3]>> \in asks
      BY <2>1, <3>1
    <3> HIDE DEF asks
    <3> QED
      BY <2>5, <3>2
  <2> HIDE DEF E, P, Good
  <2> QED
    BY <2>4, <2>5
<1>2. ASSUME NEW n \in Nat, NEW row \in D PROVE Row(n, row) \in D
  <2>1. ASSUME NEW p \in P PROVE Row(n, row)[p] \in Good
    <3>0. None \in Good
      OBVIOUS
    <3> HIDE DEF Good, P, E
    <3>1. Row(n, row)[p] = IF E(p) = None \/ E(p)[1] # "forward" THEN E(p)
                           ELSE IF E(p)[2] \notin DOMAIN L \/ n = 0 THEN None
                           ELSE row[<<E(p)[2], <<"name", E(p)[3]>>>>]
      OBVIOUS
    <3>2. CASE E(p) = None \/ E(p)[1] # "forward"
      BY <1>1, <3>0, <3>1, <3>2
    <3>3. CASE ~(E(p) = None \/ E(p)[1] # "forward") /\ (E(p)[2] \notin DOMAIN L \/ n = 0)
      BY <3>0, <3>1, <3>3
    <3>4. CASE ~(E(p) = None \/ E(p)[1] # "forward") /\ ~(E(p)[2] \notin DOMAIN L \/ n = 0)
      BY <1>1, <3>1, <3>4
    <3> QED
      BY <3>2, <3>3, <3>4
  <2> HIDE DEF Good, P, E
  <2> QED
    BY <2>1
<1> DEFINE first == Row(0, [p \in P |-> None])
           next == [n \in 1..follows |-> [row \in D |-> Row(n, row)]]
<1>3. PICK g : Made(g, follows, D, first, next)
  <2>1. [p \in P |-> None] \in D
    OBVIOUS
  <2> HIDE DEF D, Row
  <2>2. first \in D
    BY <1>2, <2>1
  <2>3. Steps(next, follows, D)
    BY <1>2 DEF Steps
  <2> HIDE DEF next, first
  <2> QED
    BY <2>2, <2>3, StepsExist
<1>4. g \in [0..follows -> D] /\ g[0] = first /\ \A n \in 1..follows : g[n] = Row(n, g[n - 1])
  <2> HIDE DEF D, Row
  <2>1. g \in [0..follows -> D] /\ g[0] = first /\ \A n \in 1..follows : g[n] = next[n][g[n - 1]]
    BY <1>3 DEF Made
  <2>2. ASSUME NEW n \in 1..follows PROVE g[n] = Row(n, g[n - 1])
    <3>1. n - 1 \in 0..follows
      OBVIOUS
    <3>2. g[n - 1] \in D
      BY <2>1, <3>1
    <3> QED
      BY <2>1, <3>2
  <2> QED
    BY <2>1, <2>2
<1> DEFINE Is(f) == f = [n \in 0..follows |-> Row(n, f[n - 1])]
<1>5. Is(g)
  <2>1. g[0] = Row(0, g[0 - 1])
    BY <1>4
  <2>2. \A n \in 0..follows : g[n] = Row(n, g[n - 1])
    <3> HIDE DEF Row, D, first
    <3> QED
      BY <1>4, <2>1
  <2> HIDE DEF Row, D
  <2> QED
    BY <1>4, <2>2
<1>6. PICK f : Is(f) /\ Look!MODULE_GetProcAddress(L, module, asked, follows) = f[follows][<<module, asked>>]
  <2> DEFINE e == CHOOSE f : Is(f)
  <2>1. Is(e)
    BY <1>5, Zenon
  <2>2. Look!MODULE_GetProcAddress(L, module, asked, follows) = e[follows][<<module, asked>>]
    BY Zenon DEF Look!MODULE_GetProcAddress
  <2> HIDE DEF e, Is
  <2> QED
    BY <2>1, <2>2
<1> DEFINE Q == {n \in 0..follows : f[n] \in D}
<1>7. 0 \in Q
  <2>1. f[0] = Row(0, f[0 - 1])
    <3> HIDE DEF Row
    <3>1. 0 \in 0..follows
      OBVIOUS
    <3> QED
      BY <1>6, <3>1
  <2>2. Row(0, f[0 - 1]) = Row(0, [p \in P |-> None])
    OBVIOUS
  <2>3. [p \in P |-> None] \in D
    OBVIOUS
  <2> HIDE DEF Row, D
  <2>4. f[0] \in D
    BY <1>2, <2>1, <2>2, <2>3
  <2> QED
    BY <2>4
<1>8. ASSUME NEW n \in 0..(follows - 1), n \in Q PROVE n + 1 \in Q
  <2> HIDE DEF Row, D
  <2>1. n + 1 \in 0..follows /\ (n + 1) - 1 = n /\ n + 1 \in Nat
    OBVIOUS
  <2>2. f[n + 1] = Row(n + 1, f[n])
    BY <1>6, <2>1
  <2>3. f[n + 1] \in D
    BY <1>2, <1>8, <2>1, <2>2
  <2> QED
    BY <2>1, <2>3
<1>9. f[follows] \in D
  <2> HIDE DEF Q
  <2>1. \A n \in 0..follows : n \in Q
    BY <1>7, <1>8, UpTo
  <2>2. follows \in Q
    BY <2>1
  <2> HIDE DEF D
  <2> QED
    BY <2>2 DEF Q
<1>10. <<module, asked>> \in P
  OBVIOUS
<1>11. f[follows][<<module, asked>>] \in Good
  <2> HIDE DEF P, Good
  <2> QED
    BY <1>9, <1>10
<1> QED
  BY <1>6, <1>11

LEMMA ExportsFound == Look!ExportsAgree(TablesUsed, TableOfModule)
<1>1. ASSUME NEW t \in TablesUsed, NEW i \in 1..Len(t.names),
             \A j \in 1..Len(t.names) : t.names[j][1] = t.names[i][1] => j = i
      PROVE  LET k == t.names[i][2] + 1 IN
             /\ Look!PE_FindExportedFunction(t, <<"name", t.names[i][1]>>)
                  = IF k \in 1..Len(t.functions) THEN t.functions[k] ELSE None
             /\ k \in 1..Len(t.functions) =>
                  Look!PE_FindExportedFunction(t, <<"name", t.names[i][1]>>)
                    = Look!PE_FindExportedFunction(t, <<"ordinal", t.base + k - 1>>)
  <2>1. TableOK(t)
    BY TablesTyped
  <2> PICK x, w, b : x = t.names[i][2] /\ w = t.names[i][1] /\ b = t.base
    OBVIOUS
  <2>2. x \in Int /\ b \in Int
    BY <2>1 DEF TableOK
  <2>3. Look!IndexOfName(t.names, w) = x
    <3>1. IndexOf(t.names, w, Look!IndexOfName(t.names, w))
      BY <2>1, IndexIs, Zenon
    <3> USE DEF IndexOf
    <3> QED
      BY <1>1, <3>1
  <2>4. Look!PE_FindExportedFunction(t, <<"name", w>>)
          = IF x + 1 \in 1..Len(t.functions) THEN t.functions[x + 1] ELSE None
    BY <2>1, <2>2, <2>3, NameFound
  <2>5. b + (x + 1) - 1 = b + x
    BY <2>2
  <2>6. Look!PE_FindExportedFunction(t, <<"ordinal", t.base + x>>)
          = IF x + 1 \in 1..Len(t.functions) THEN t.functions[x + 1] ELSE None
    BY <2>1, <2>2, OrdinalFound
  <2> QED
    BY <2>4, <2>5, <2>6
<1>2. ASSUME NEW t \in TablesUsed, NEW n \in 0..9, n \notin {e[1] : e \in Look!Elements(t.names)}
      PROVE  Look!PE_FindExportedFunction(t, <<"name", n>>) = None
  <2>1. TableOK(t)
    BY TablesTyped
  <2> PICK w : w = n
    OBVIOUS
  <2>2. \A i \in 1..Len(t.names) : t.names[i][1] # w
    BY <1>2 DEF Look!Elements
  <2>3. Look!IndexOfName(t.names, w) = -1
    <3>1. IndexOf(t.names, w, Look!IndexOfName(t.names, w))
      BY <2>1, IndexIs, Zenon
    <3> USE DEF IndexOf
    <3> QED
      BY <2>2, <3>1
  <2>4. -1 \in Int /\ ~((-1) + 1 \in 1..Len(t.functions))
    OBVIOUS
  <2> QED
    BY <2>1, <2>3, <2>4, NameFound
<1>3. ASSUME NEW m \in DOMAIN TableOfModule, NEW e \in Look!Elements(TableOfModule[m].names)
      PROVE  LET f == Look!MODULE_GetProcAddress(TableOfModule, m, <<"name", e[1]>>, 3) IN f = None \/ f[1] = "code"
  BY TablesTyped, ProcAddressIs
<1> QED
  BY <1>1, <1>2, <1>3 DEF Look!ExportsAgree

-----------------------------------------------------------------------------
(* What is looked up: resources *)

\* A tree of resources as the assumption says.
DataOK(type, data) == IF type = 6 THEN data \in [1..16 -> Seq(Nat)] ELSE data.offset \in Nat
RootOK(r) ==
  /\ DirectoryOK(r)
  /\ \A i \in 1..Len(r.ids) :
       /\ DirectoryOK(r.ids[i][2])
       /\ \A j \in 1..Len(r.ids[i][2].ids) :
            /\ DirectoryOK(r.ids[i][2].ids[j][2])
            /\ \A l \in 1..Len(r.ids[i][2].ids[j][2].ids) : DataOK(r.ids[i][1], r.ids[i][2].ids[j][2].ids[l][2])

LEMMA RootsTyped ==
  /\ \A r \in RootsUsed : RootOK(r)
  /\ \A m \in DOMAIN RootOfModule : RootOfModule[m] # None => RootOK(RootOfModule[m])
BY ResourceAssumption DEF RootOK, DataOK

\* An entry of a directory: the one of its id, or the first if any will do.
EntryOf(d, n, e) == \/ e = None /\ \A i \in 1..Len(d.ids) : d.ids[i][1] # n
                    \/ \E i \in 1..Len(d.ids) : d.ids[i][1] = n /\ e = d.ids[i][2]

LEMMA FirstIs ==
  ASSUME NEW d, DirectoryOK(d), NEW n
  PROVE  EntryOf(d, n, Look!First(d.ids, n))
<1> PICK s : s = d.ids
  OBVIOUS
<1> DEFINE at == {i \in 1..Len(s) : s[i][1] = n}
<1>1. Look!First(s, n) = IF at = {} THEN None ELSE s[CHOOSE i \in at : \A j \in at : i <= j][2]
  BY Zenon DEF Look!First
<1>2. Len(s) \in Nat
  BY SequenceIs DEF DirectoryOK
<1> USE DEF EntryOf
<1>3. CASE at = {}
  BY <1>1, <1>3
<1>4. CASE at # {}
  <2>1. \E i \in at : \A j \in at : i <= j
    <3>1. at \in SUBSET Nat
      BY <1>2
    <3> HIDE DEF at
    <3> QED
      BY <1>4, <3>1, LeastOf
  <2>2. PICK i \in at : i = CHOOSE e \in at : \A j \in at : e <= j
    BY <2>1, Zenon
  <2>3. Look!First(s, n) = s[i][2]
    BY <1>1, <1>4, <2>2, Zenon
  <2> QED
    BY <2>3
<1> QED
  BY <1>3, <1>4

LEMMA EntryIs ==
  ASSUME NEW d, DirectoryOK(d), NEW n, NEW tag \in {"id", "hash"}
  PROVE  EntryOf(d, n, Look!GetResDirEntryW(d, <<tag, n>>, FALSE))
<1>1. d # None /\ <<tag, n>>[1] # "text" /\ <<tag, n>>[2] = n
  BY DEF DirectoryOK
<1>2. Look!GetResDirEntryW(d, <<tag, n>>, FALSE) = IF n \in {e[1] : e \in Look!Elements(d.ids)} THEN Look!First(d.ids, n) ELSE None
  BY <1>1 DEF Look!GetResDirEntryW
<1>3. CASE n \in {e[1] : e \in Look!Elements(d.ids)}
  BY <1>2, <1>3, FirstIs
<1>4. CASE n \notin {e[1] : e \in Look!Elements(d.ids)}
  BY <1>2, <1>4 DEF Look!Elements, EntryOf
<1> QED
  BY <1>3, <1>4

\* The entry of an id that is there is its own.
LEMMA EntryThere ==
  ASSUME NEW d, DirectoryOK(d), NEW tag \in {"id", "hash"}, NEW i \in 1..Len(d.ids)
  PROVE  Look!GetResDirEntryW(d, <<tag, d.ids[i][1]>>, FALSE) = d.ids[i][2]
<1> PICK n, e : n = d.ids[i][1] /\ e = Look!GetResDirEntryW(d, <<tag, n>>, FALSE)
  OBVIOUS
<1>1. EntryOf(d, n, e)
  BY EntryIs
<1>2. PICK j \in 1..Len(d.ids) : d.ids[j][1] = n /\ e = d.ids[j][2]
  BY <1>1 DEF EntryOf
<1>3. i = j
  BY <1>2 DEF DirectoryOK
<1> QED
  BY <1>2, <1>3

\* What stands for the neutral language.
LEMMA DefaultIs ==
  ASSUME NEW d, DirectoryOK(d)
  PROVE  LET e == Look!GetResDirEntryW(d, <<"id", 0>>, TRUE) IN
         \/ \E i \in 1..Len(d.ids) : d.ids[i][1] = 0 /\ e = d.ids[i][2]
         \/ /\ \A i \in 1..Len(d.ids) : d.ids[i][1] # 0
            /\ e = IF d.ids = <<>> THEN None ELSE d.ids[1][2]
<1> PICK e : e = Look!GetResDirEntryW(d, <<"id", 0>>, TRUE)
  OBVIOUS
<1>1. d # None /\ <<"id", 0>>[1] # "text" /\ <<"id", 0>>[2] = 0
  BY DEF DirectoryOK
<1>2. e = IF 0 \in {x[1] : x \in Look!Elements(d.ids)} THEN Look!First(d.ids, 0)
          ELSE IF d.ids # <<>> THEN d.ids[1][2] ELSE None
  BY <1>1 DEF Look!GetResDirEntryW
<1>3. CASE 0 \in {x[1] : x \in Look!Elements(d.ids)}
  <2>1. e = Look!First(d.ids, 0)
    BY <1>2, <1>3
  <2>2. \E i \in 1..Len(d.ids) : d.ids[i][1] = 0
    BY <1>3 DEF Look!Elements
  <2>3. EntryOf(d, 0, e)
    BY <2>1, FirstIs
  <2> QED
    BY <2>2, <2>3 DEF EntryOf
<1>4. CASE 0 \notin {x[1] : x \in Look!Elements(d.ids)}
  BY <1>2, <1>4 DEF Look!Elements
<1> QED
  BY <1>3, <1>4

\* Of the languages of a resource: the one asked for, the neutral one or any.
LanguageOf(d, lang, e) ==
  \/ \E i \in 1..Len(d.ids) : d.ids[i][1] = lang /\ e = d.ids[i][2]
  \/ /\ \A i \in 1..Len(d.ids) : d.ids[i][1] # lang
     /\ \/ \E i \in 1..Len(d.ids) : d.ids[i][1] = 0 /\ e = d.ids[i][2]
        \/ (\A i \in 1..Len(d.ids) : d.ids[i][1] # 0) /\ e = IF d.ids = <<>> THEN None ELSE d.ids[1][2]

LEMMA LanguageIs ==
  ASSUME NEW d, DirectoryOK(d), NEW lang, NEW e,
         e = LET exact == Look!GetResDirEntryW(d, <<"id", lang>>, FALSE) IN
             IF exact # None THEN exact ELSE Look!GetResDirEntryW(d, <<"id", 0>>, TRUE)
  PROVE  LanguageOf(d, lang, e)
<1> PICK exact : exact = Look!GetResDirEntryW(d, <<"id", lang>>, FALSE)
  OBVIOUS
<1>1. EntryOf(d, lang, exact)
  BY EntryIs
<1>2. CASE \E i \in 1..Len(d.ids) : d.ids[i][1] = lang /\ exact = d.ids[i][2]
  BY <1>2 DEF DirectoryOK, LanguageOf
<1>3. CASE exact = None /\ \A i \in 1..Len(d.ids) : d.ids[i][1] # lang
  BY <1>3, DefaultIs DEF LanguageOf
<1> QED
  BY <1>1, <1>2, <1>3 DEF EntryOf

\* A resource whose type and name are there is looked for among its languages.
LEMMA ResourceThere ==
  ASSUME NEW r, RootOK(r), NEW i \in 1..Len(r.ids), NEW j \in 1..Len(r.ids[i][2].ids), NEW lang
  PROVE  LET name == r.ids[i][2].ids[j] IN
         /\ DirectoryOK(name[2])
         /\ LanguageOf(name[2], lang, Look!PE_FindResourceExW(r, <<"id", name[1]>>, <<"id", r.ids[i][1]>>, lang))
BY EntryThere, LanguageIs DEF RootOK, Look!PE_FindResourceExW

\* Whatever is found is data of the type.
LEMMA ResourceFound ==
  ASSUME NEW r, RootOK(r), NEW name, NEW type, NEW lang
  PROVE  LET e == Look!PE_FindResourceExW(r, <<"id", name>>, <<"id", type>>, lang) IN e = None \/ DataOK(type, e)
<1> PICK e : e = Look!PE_FindResourceExW(r, <<"id", name>>, <<"id", type>>, lang)
  OBVIOUS
<1> PICK t, d : t = Look!GetResDirEntryW(r, <<"id", type>>, FALSE) /\ d = Look!GetResDirEntryW(t, <<"id", name>>, FALSE)
  OBVIOUS
<1>1. e = LET exact == Look!GetResDirEntryW(d, <<"id", lang>>, FALSE) IN
          IF exact # None THEN exact ELSE Look!GetResDirEntryW(d, <<"id", 0>>, TRUE)
  BY DEF Look!PE_FindResourceExW
<1>2. CASE d = None
  BY <1>1, <1>2 DEF Look!GetResDirEntryW
<1>3. CASE d # None
  <2>1. t # None
    BY <1>3 DEF Look!GetResDirEntryW
  <2>2. DirectoryOK(r) /\ EntryOf(r, type, t)
    BY EntryIs DEF RootOK
  <2>3. PICK i \in 1..Len(r.ids) : r.ids[i][1] = type /\ t = r.ids[i][2]
    BY <2>1, <2>2 DEF EntryOf
  <2>4. DirectoryOK(t)
    BY <2>3 DEF RootOK
  <2>5. EntryOf(t, name, d)
    BY <2>4, EntryIs
  <2>6. PICK j \in 1..Len(t.ids) : t.ids[j][1] = name /\ d = t.ids[j][2]
    BY <1>3, <2>5 DEF EntryOf
  <2>7. DirectoryOK(d) /\ \A l \in 1..Len(d.ids) : DataOK(type, d.ids[l][2])
    BY <2>3, <2>6 DEF RootOK
  <2>8. LanguageOf(d, lang, e)
    BY <1>1, <2>7, LanguageIs
  <2>9. e = None \/ \E l \in 1..Len(d.ids) : e = d.ids[l][2]
    BY <2>7, <2>8, SequenceIs DEF DirectoryOK, LanguageOf
  <2> QED
    BY <2>7, <2>9
<1> QED
  BY <1>2, <1>3

\* What is enumerated is an entry's name or id, and all are, if all are asked for.
InDirectory(d) == {<<"counted", d.named[i][1]>> : i \in 1..Len(d.named)} \cup {<<"id", d.ids[i][1]>> : i \in 1..Len(d.ids)}

LEMMA EnumerateIs ==
  ASSUME NEW d, DirectoryOK(d), NEW enough \in Nat
  PROVE  /\ Look!Elements(Look!Enumerate(d, enough)) \subseteq InDirectory(d)
         /\ enough = Len(d.named) + Len(d.ids) =>
              \A i \in 1..Len(d.ids) : <<"id", d.ids[i][1]>> \in Look!Elements(Look!Enumerate(d, enough))
<1> PICK n, m : n = Len(d.named) /\ m = Len(d.ids)
  OBVIOUS
<1>1. n \in Nat /\ m \in Nat /\ d # None
  BY SequenceIs DEF DirectoryOK
<1> DEFINE a == [i \in 1..n |-> <<"counted", d.named[i][1]>>]
           b == [i \in 1..m |-> <<"id", d.ids[i][1]>>]
           all == a \o b
           X == InDirectory(d)
           least == IF enough < Len(all) THEN enough ELSE Len(all)
<1>2. Look!Enumerate(d, enough) = SubSeq(all, 1, least)
  BY <1>1 DEF Look!Enumerate
<1>3. a \in Seq(X) /\ Len(a) = n /\ b \in Seq(X) /\ Len(b) = m /\ \A i \in 1..m : b[i] = <<"id", d.ids[i][1]>>
  <2>1. a \in [1..n -> X] /\ b \in [1..m -> X] /\ \A i \in 1..m : b[i] = <<"id", d.ids[i][1]>>
    BY DEF InDirectory
  <2> HIDE DEF a, b, X
  <2> QED
    BY <1>1, <2>1, AsSeq
<1> HIDE DEF a, b, X
<1>4. all \in Seq(X) /\ Len(all) = n + m /\ \A i \in 1..m : all[n + i] = b[i]
  <2>1. a \in Seq(X) /\ Len(a) = n /\ b \in Seq(X) /\ Len(b) = m
    BY <1>3
  <2>2. /\ a \o b \in Seq(X) /\ Len(a \o b) = Len(a) + Len(b)
        /\ \A i \in 1..Len(b) : (a \o b)[Len(a) + i] = b[i]
    BY ONLY <2>1
  <2> QED
    BY ONLY <2>1, <2>2 DEF all
<1> HIDE DEF all
<1>5. least \in 0..(n + m) /\ (enough = n + m => least = n + m)
  <2> PICK c : c = Len(all)
    OBVIOUS
  <2>1. c = n + m
    BY <1>4
  <2>2. enough \in Nat
    OBVIOUS
  <2> QED
    BY ONLY <1>1, <2>1, <2>2, c = Len(all) DEF least
<1> HIDE DEF least
<1>6. SubSeq(all, 1, least) \in Seq(X) /\ Len(SubSeq(all, 1, least)) = least /\ \A i \in 1..least : SubSeq(all, 1, least)[i] = all[i]
  <2>1. all \in Seq(X) /\ least \in 0..Len(all)
    BY <1>4, <1>5
  <2> QED
    BY ONLY <2>1, PrefixIs
<1> PICK s : s = Look!Enumerate(d, enough)
  OBVIOUS
<1>7. s \in Seq(X) /\ Len(s) = least /\ \A i \in 1..least : s[i] = all[i]
  BY <1>2, <1>6
<1>8. Look!Elements(s) \subseteq X
  BY <1>7 DEF Look!Elements
<1>9. ASSUME enough = n + m, NEW i \in 1..m PROVE <<"id", d.ids[i][1]>> \in Look!Elements(s)
  <2>1. n + i \in 1..least
    BY <1>1, <1>5, <1>9
  <2>2. s[n + i] = <<"id", d.ids[i][1]>>
    BY <1>3, <1>4, <1>7, <2>1
  <2> QED
    BY <1>7, <2>1, <2>2 DEF Look!Elements
<1> QED
  BY <1>8, <1>9 DEF X

\* The entries of an id.
Of(s, l) == {e[2] : e \in {y \in Look!Elements(s) : y[1] = l}}
OfIs(s, l, S) ==
  /\ \A x : x \in S <=> \E k \in 1..Len(s) : s[k][1] = l /\ x = s[k][2]
  /\ S = {} <=> \A k \in 1..Len(s) : s[k][1] # l
LEMMA OfLanguage ==
  ASSUME NEW s, NEW l
  PROVE  OfIs(s, l, Of(s, l))
BY DEF Look!Elements, Of, OfIs

\* What ResourcesAgree says of a name's resources.
ResourceTold(root, type, name) ==
    /\ \A lang \in 0..3 :
         LET r == Look!PE_FindResourceExW(root, <<"id", name[1]>>, <<"id", type[1]>>, lang)
             of(l) == {e[2] : e \in {x \in Look!Elements(name[2].ids) : x[1] = l}} IN
         IF of(lang) # {} THEN r \in of(lang) ELSE IF of(0) # {} THEN r \in of(0)
         ELSE IF name[2].ids = <<>> THEN r = None ELSE r = name[2].ids[1][2]
    /\ \A enough \in 0..9 :
         /\ \A e \in Look!Elements(Look!PE_EnumResourceNamesW(root, <<"hash", type[1]>>, enough)) :
              e[1] = "id" => \E n \in Look!Elements(type[2].ids) : n[1] = e[2]
         /\ Look!PE_EnumResourceNamesA(root, <<"hash", type[1]>>, enough)
              = Look!PE_EnumResourceNamesW(root, <<"id", type[1]>>, enough)
    /\ LET all == Len(root.named) + Len(root.ids) IN
       \E e \in Look!Elements(Look!PE_EnumResourceTypesA(root, all)) : e = <<"id", type[1]>>

LEMMA ResourcesAgreed == Look!ResourcesAgree(RootsUsed)
<1> SUFFICES ASSUME NEW r \in RootsUsed, NEW type \in Look!Elements(r.ids), NEW name \in Look!Elements(type[2].ids)
             PROVE  ResourceTold(r, type, name)
  BY Zenon DEF Look!ResourcesAgree, ResourceTold
<1> PICK i \in 1..Len(r.ids) : type = r.ids[i]
  BY DEF Look!Elements
<1> PICK t : t = type[2]
  OBVIOUS
<1> PICK j \in 1..Len(t.ids) : name = t.ids[j]
  BY DEF Look!Elements
<1> PICK d : d = name[2]
  OBVIOUS
<1>1. RootOK(r)
  BY RootsTyped
<1>2. DirectoryOK(r) /\ DirectoryOK(t) /\ DirectoryOK(d)
  BY <1>1 DEF RootOK
<1>3. ASSUME NEW lang
      PROVE  LET e == Look!PE_FindResourceExW(r, <<"id", name[1]>>, <<"id", type[1]>>, lang)
                 of(l) == {x[2] : x \in {y \in Look!Elements(d.ids) : y[1] = l}} IN
             IF of(lang) # {} THEN e \in of(lang) ELSE IF of(0) # {} THEN e \in of(0)
             ELSE IF d.ids = <<>> THEN e = None ELSE e = d.ids[1][2]
  <2> PICK e : e = Look!PE_FindResourceExW(r, <<"id", name[1]>>, <<"id", type[1]>>, lang)
    OBVIOUS
  <2>1. LanguageOf(d, lang, e)
    BY <1>1, ResourceThere
  <2> PICK s : s = d.ids
    OBVIOUS
  <2> PICK exact : exact = Of(s, lang)
    OBVIOUS
  <2> PICK neutral : neutral = Of(s, 0)
    OBVIOUS
  <2> PICK first : first = IF s = <<>> THEN None ELSE s[1][2]
    OBVIOUS
  <2>2. OfIs(s, lang, exact) /\ OfIs(s, 0, neutral)
    BY OfLanguage
  <2>3. \A x : x \in exact <=> \E k \in 1..Len(s) : s[k][1] = lang /\ x = s[k][2]
    BY <2>2, Zenon DEF OfIs
  <2>4. exact = {} <=> \A k \in 1..Len(s) : s[k][1] # lang
    BY <2>2, Zenon DEF OfIs
  <2>5. neutral = {} <=> \A k \in 1..Len(s) : s[k][1] # 0
    BY <2>2, Zenon DEF OfIs
  <2>8. \A x : x \in neutral <=> \E k \in 1..Len(s) : s[k][1] = 0 /\ x = s[k][2]
    BY <2>2, Zenon DEF OfIs
  <2>6. \/ \E k \in 1..Len(s) : s[k][1] = lang /\ e = s[k][2]
        \/ /\ \A k \in 1..Len(s) : s[k][1] # lang
           /\ \/ \E k \in 1..Len(s) : s[k][1] = 0 /\ e = s[k][2]
              \/ (\A k \in 1..Len(s) : s[k][1] # 0) /\ e = first
    BY <2>1 DEF LanguageOf
  <2>7. IF exact # {} THEN e \in exact ELSE IF neutral # {} THEN e \in neutral ELSE e = first
    <3>1. CASE \E k \in 1..Len(s) : s[k][1] = lang /\ e = s[k][2]
      <4>1. e \in exact
        BY ONLY <2>3, <3>1, Zenon
      <4> QED
        BY ONLY <4>1
    <3>2. CASE /\ \A k \in 1..Len(s) : s[k][1] # lang
               /\ \E k \in 1..Len(s) : s[k][1] = 0 /\ e = s[k][2]
      <4>1. exact = {} /\ e \in neutral
        BY ONLY <2>4, <2>8, <3>2, Zenon
      <4> QED
        BY ONLY <4>1
    <3>3. CASE /\ \A k \in 1..Len(s) : s[k][1] # lang
               /\ (\A k \in 1..Len(s) : s[k][1] # 0) /\ e = first
      BY <2>4, <2>5, <3>3
    <3> QED
      BY ONLY <2>6, <3>1, <3>2, <3>3
  <2> QED
    BY <2>7, Zenon DEF Of
<1>4. ASSUME NEW tag \in {"id", "hash"} PROVE Look!GetResDirEntryW(r, <<tag, type[1]>>, FALSE) = t
  BY <1>2, EntryThere
<1>5. ASSUME NEW enough \in Nat
      PROVE  /\ \A e \in Look!Elements(Look!PE_EnumResourceNamesW(r, <<"hash", type[1]>>, enough)) :
                  e[1] = "id" => \E n \in Look!Elements(t.ids) : n[1] = e[2]
             /\ Look!PE_EnumResourceNamesA(r, <<"hash", type[1]>>, enough)
                  = Look!PE_EnumResourceNamesW(r, <<"id", type[1]>>, enough)
  <2>1. Look!PE_EnumResourceNamesW(r, <<"hash", type[1]>>, enough) = Look!Enumerate(t, enough)
    BY <1>4 DEF Look!PE_EnumResourceNamesW
  <2>2. Look!PE_EnumResourceNamesW(r, <<"id", type[1]>>, enough) = Look!Enumerate(t, enough)
    BY <1>4 DEF Look!PE_EnumResourceNamesW
  <2>3. Look!PE_EnumResourceNamesA(r, <<"hash", type[1]>>, enough) = Look!Enumerate(t, enough)
    BY <1>4 DEF Look!PE_EnumResourceNamesA, Look!GetResDirEntryA
  <2>4. ASSUME NEW e \in Look!Elements(Look!Enumerate(t, enough)), e[1] = "id"
        PROVE  \E n \in Look!Elements(t.ids) : n[1] = e[2]
    <3>1. e \in InDirectory(t)
      BY <1>2, EnumerateIs
    <3>2. PICK k \in 1..Len(t.ids) : e = <<"id", t.ids[k][1]>>
      <4>1. CASE e \in {<<"id", t.ids[k][1]>> : k \in 1..Len(t.ids)}
        BY <4>1
      <4>2. CASE e \in {<<"counted", t.named[k][1]>> : k \in 1..Len(t.named)}
        BY <2>4, <4>2
      <4> QED
        BY <3>1, <4>1, <4>2 DEF InDirectory
    <3>3. t.ids[k] \in Look!Elements(t.ids) /\ t.ids[k][1] = e[2]
      BY <3>2 DEF Look!Elements
    <3> QED
      BY <3>3
  <2> QED
    BY <2>1, <2>2, <2>3, <2>4
<1>6. \A enough \in 0..9 : enough \in Nat
  OBVIOUS
<1>7. <<"id", type[1]>> \in Look!Elements(Look!PE_EnumResourceTypesA(r, Len(r.named) + Len(r.ids)))
  <2>1. Len(r.named) + Len(r.ids) \in Nat
    <3>1. Len(r.named) \in Nat /\ Len(r.ids) \in Nat
      BY <1>2, SequenceIs DEF DirectoryOK
    <3> PICK k : k = Len(r.named)
      OBVIOUS
    <3> PICK l : l = Len(r.ids)
      OBVIOUS
    <3>2. k \in Nat /\ l \in Nat
      BY <3>1
    <3>3. k + l \in Nat
      BY ONLY <3>2
    <3> QED
      BY <3>3
  <2> QED
    BY <1>2, <2>1, EnumerateIs DEF Look!PE_EnumResourceTypesA
<1>8. \A lang \in 0..3 :
         LET e == Look!PE_FindResourceExW(r, <<"id", name[1]>>, <<"id", type[1]>>, lang)
             of(l) == {x[2] : x \in {y \in Look!Elements(d.ids) : y[1] = l}} IN
         IF of(lang) # {} THEN e \in of(lang) ELSE IF of(0) # {} THEN e \in of(0)
         ELSE IF d.ids = <<>> THEN e = None ELSE e = d.ids[1][2]
  BY <1>3, Zenon
<1>9. \A enough \in 0..9 :
         /\ \A e \in Look!Elements(Look!PE_EnumResourceNamesW(r, <<"hash", type[1]>>, enough)) :
              e[1] = "id" => \E n \in Look!Elements(t.ids) : n[1] = e[2]
         /\ Look!PE_EnumResourceNamesA(r, <<"hash", type[1]>>, enough)
              = Look!PE_EnumResourceNamesW(r, <<"id", type[1]>>, enough)
  BY <1>5, <1>6, Zenon
<1>10. \E e \in Look!Elements(Look!PE_EnumResourceTypesA(r, Len(r.named) + Len(r.ids))) : e = <<"id", type[1]>>
  BY <1>7
<1> QED
  BY <1>8, <1>9, <1>10, Zenon DEF ResourceTold

LEMMA DataAgreed == Look!DataAgree(RootOfModule, IdsAsked, IdsAsked)
<1> SUFFICES ASSUME NEW m \in DOMAIN RootOfModule \cup {None}, NEW type \in IdsAsked, NEW name \in IdsAsked
             PROVE  LET res == Look!RES_FindResource2(RootOfModule, m, <<"id", type>>, <<"id", name>>, 1033)
                        memory == Look!RES_LockResource(Look!RES_LoadResource(RootOfModule, m, res)) IN
                    /\ res # None => memory = <<m, res.offset>> /\ Look!RES_SizeofResource(m, res) = res.size
                    /\ res = None => memory = None /\ Look!RES_SizeofResource(m, res) = 0
                    /\ Look!RES_FreeResource(memory) <=> res # None
                    /\ Look!RES_AccessResource(m, res) = None
  BY DEF Look!DataAgree
<1> PICK res, memory : /\ res = Look!RES_FindResource2(RootOfModule, m, <<"id", type>>, <<"id", name>>, 1033)
                       /\ memory = Look!RES_LockResource(Look!RES_LoadResource(RootOfModule, m, res))
  OBVIOUS
<1>1. res # None => m \in DOMAIN RootOfModule /\ m # None /\ res.offset \in Nat
  <2> SUFFICES ASSUME res # None PROVE m \in DOMAIN RootOfModule /\ m # None /\ res.offset \in Nat
    OBVIOUS
  <2>1. m \in DOMAIN RootOfModule /\ m # None /\ RootOfModule[m] # None
    <3>1. None \notin DOMAIN RootOfModule
      BY ResourceAssumption
    <3>2. CASE m \notin DOMAIN RootOfModule
      BY <3>2 DEF Look!RES_FindResource2
    <3>3. CASE m \in DOMAIN RootOfModule /\ RootOfModule[m] = None
      BY <3>3 DEF Look!RES_FindResource2
    <3> QED
      BY <3>1, <3>2, <3>3
  <2>2. res = Look!PE_FindResourceExW(RootOfModule[m], <<"id", name>>, <<"id", type>>, 1033)
    BY <2>1 DEF Look!RES_FindResource2
  <2>3. RootOK(RootOfModule[m])
    BY <2>1, RootsTyped
  <2>4. DataOK(type, res)
    BY <2>2, <2>3, ResourceFound
  <2>5. type # 6 /\ m # None
    BY <2>1, ResourceAssumption
  <2> QED
    BY <2>1, <2>4, <2>5 DEF DataOK
<1>2. CASE res # None
  <2>1. memory = <<m, res.offset>>
    BY <1>1, <1>2 DEF Look!RES_LockResource, Look!RES_LoadResource
  <2>2. memory # None
    <3>1. memory \in (DOMAIN RootOfModule) \X Nat
      BY <1>1, <1>2, <2>1
    <3>2. None \notin (DOMAIN RootOfModule) \X Nat
      BY ResourceAssumption
    <3> QED
      BY <3>1, <3>2
  <2> QED
    BY <1>1, <1>2, <2>1, <2>2 DEF Look!RES_SizeofResource, Look!RES_FreeResource, Look!RES_AccessResource
<1>3. CASE res = None
  <2>1. memory = None
    BY <1>3 DEF Look!RES_LockResource, Look!RES_LoadResource
  <2> QED
    BY <1>3, <2>1 DEF Look!RES_SizeofResource, Look!RES_FreeResource, Look!RES_AccessResource
<1> QED
  BY <1>2, <1>3

-----------------------------------------------------------------------------
(* What is looked up: strings *)

LEMMA TableIs ==
  ASSUME NEW r \in RootsUsed, NEW asked
  PROVE  Look!Table(r, asked) = None \/ Look!Table(r, asked) \in [1..16 -> Seq(Nat)]
BY RootsTyped, ResourceFound DEF Look!Table, Look!RT_STRING, DataOK

LEMMA StringNoIs == ASSUME NEW asked \in Nat PROVE Look!StringNo(asked) \in 1..16
<1>1. asked % 16 \in 0..15
  BY ONLY asked \in Nat
<1> QED
  BY ONLY <1>1 DEF Look!StringNo

\* The buffer of n characters that k of a string's first m are copied to.
LEMMA Copied ==
  ASSUME NEW s \in Seq(Nat), NEW m \in 0..Len(s), NEW k \in 0..m
  PROVE  LET b == Append(SubSeq(SubSeq(s, 1, m), 1, k), 0) IN
         /\ b \in Seq(Nat) /\ Len(b) = k + 1 /\ b[k + 1] = 0
         /\ SubSeq(b, 1, k) = SubSeq(s, 1, k)
<1> PICK t : t = SubSeq(s, 1, m)
  OBVIOUS
<1>1. t \in Seq(Nat) /\ Len(t) = m /\ \A i \in 1..m : t[i] = s[i]
  BY PrefixIs
<1> PICK u : u = SubSeq(t, 1, k)
  OBVIOUS
<1>2. u \in Seq(Nat) /\ Len(u) = k /\ \A i \in 1..k : u[i] = t[i]
  BY <1>1, PrefixIs
<1> PICK b : b = Append(u, 0)
  OBVIOUS
<1>3. b \in Seq(Nat) /\ Len(b) = k + 1 /\ b[k + 1] = 0 /\ \A i \in 1..k : b[i] = u[i]
  BY <1>2
<1> PICK v : v = SubSeq(b, 1, k)
  OBVIOUS
<1>4. k \in 0..Len(b) /\ k \in 0..Len(s) /\ Len(s) \in Nat
  BY <1>3
<1>5. v \in Seq(Nat) /\ Len(v) = k /\ \A i \in 1..k : v[i] = b[i]
  BY <1>3, <1>4, PrefixIs
<1> PICK w : w = SubSeq(s, 1, k)
  OBVIOUS
<1>6. w \in Seq(Nat) /\ Len(w) = k /\ \A i \in 1..k : w[i] = s[i]
  BY <1>4, PrefixIs
<1>7. Len(v) = Len(w) /\ \A i \in 1..Len(v) : v[i] = w[i]
  BY <1>1, <1>2, <1>3, <1>5, <1>6
<1>8. v = w
  BY ONLY <1>5, <1>6, <1>7, SeqEqual
<1> QED
  BY <1>3, <1>8

LEMMA LeastIs ==
  ASSUME NEW a \in Int, NEW b \in Int
  PROVE  Look!Least(a, b) \in {a, b} /\ Look!Least(a, b) <= a /\ Look!Least(a, b) <= b
BY DEF Look!Least

\* A wide string has room in its buffer.
LEMMA WideFits ==
  ASSUME NEW t, t = None \/ t \in [1..16 -> Seq(Nat)], NEW no \in 1..16, NEW n \in Nat
  PROVE  Len(Look!Wide(t, no, n).buffer) <= n
<1>1. CASE t = None \/ n = 0
  BY <1>1 DEF Look!Wide
<1>2. CASE t # None /\ n # 0
  <2> PICK s : s = t[no]
    OBVIOUS
  <2>1. s \in Seq(Nat)
    BY <1>2
  <2> PICK i : i = Look!Least(n - 1, Len(s))
    OBVIOUS
  <2>2. i \in Nat /\ i <= n - 1 /\ i \in 0..Len(s)
    <3> PICK c : c = Len(s)
      OBVIOUS
    <3>1. c \in Nat
      BY <2>1
    <3>2. n - 1 \in Nat
      BY <1>2
    <3>3. i = Look!Least(n - 1, c) /\ n - 1 \in Int /\ c \in Int
      BY <3>1, <3>2
    <3>4. i \in {n - 1, c} /\ i <= n - 1 /\ i <= c
      BY <3>3, LeastIs
    <3>5. i \in Nat /\ i <= n - 1 /\ i \in 0..c
      BY <3>1, <3>2, <3>4
    <3> QED
      BY <3>5
  <2>3. Look!Wide(t, no, n).buffer = IF n > 1 THEN Append(SubSeq(s, 1, i), 0) ELSE <<>>
    BY <1>2 DEF Look!Wide
  <2>4. CASE n > 1
    BY <2>1, <2>2, <2>3, <2>4, PrefixIs
  <2>5. CASE ~(n > 1)
    BY <2>3, <2>5
  <2> QED
    BY <2>4, <2>5
<1> QED
  BY <1>1, <1>2

\* With room for its zero, all of a string is got.
LEMMA WideWhole ==
  ASSUME NEW t \in [1..16 -> Seq(Nat)], t # None, NEW no \in 1..16
  PROVE  LET s == t[no]  w == Look!Wide(t, no, Look!Wide(t, no, 0).answer + 1) IN
         /\ w.answer = Len(s)
         /\ Len(s) # 0 => SubSeq(w.buffer, 1, w.answer) = s
<1> PICK s : s = t[no]
  OBVIOUS
<1>1. s \in Seq(Nat)
  OBVIOUS
<1> PICK c : c = Len(s)
  OBVIOUS
<1>2. c \in Nat
  BY <1>1
<1>3. Look!Wide(t, no, 0).answer = c
  BY DEF Look!Wide
<1> PICK w : w = Look!Wide(t, no, c + 1)
  OBVIOUS
<1>4. (c + 1) - 1 = c /\ c + 1 # 0 /\ (c # 0 => c + 1 > 1)
  <2>1. (c + 1) - 1 = c
    BY ONLY <1>2
  <2>2. c + 1 # 0
    BY ONLY <1>2
  <2>3. c # 0 => c + 1 > 1
    BY ONLY <1>2
  <2> QED
    BY ONLY <2>1, <2>2, <2>3
<1>5. Look!Least(c, c) = c
  BY DEF Look!Least
<1> PICK buffer : buffer = IF c + 1 > 1 THEN Append(SubSeq(s, 1, c), 0) ELSE <<>>
  OBVIOUS
<1>6. w = [answer |-> c, buffer |-> buffer]
  BY <1>4, <1>5 DEF Look!Wide
<1>8. w.answer = c /\ w.buffer = buffer
  BY ONLY <1>6
<1>7. ASSUME c # 0 PROVE SubSeq(w.buffer, 1, c) = s
  <2>1. w.buffer = Append(SubSeq(s, 1, c), 0)
    BY <1>4, <1>8, <1>7
  <2>2. SubSeq(s, 1, c) = s
    BY ONLY <1>1, c = Len(s), SubSeqFull
  <2> PICK b : b = Append(s, 0)
    OBVIOUS
  <2>3. b \in Seq(Nat) /\ Len(b) = c + 1 /\ \A i \in 1..c : b[i] = s[i]
    BY <1>1
  <2> PICK v : v = SubSeq(b, 1, c)
    OBVIOUS
  <2>4. v \in Seq(Nat) /\ Len(v) = c /\ \A i \in 1..c : v[i] = b[i]
    <3>1. c \in 0..Len(b)
      BY <1>2, <2>3
    <3> QED
      BY ONLY <2>3, <3>1, PrefixIs, v = SubSeq(b, 1, c)
  <2>5. Len(v) = Len(s) /\ \A i \in 1..Len(v) : v[i] = s[i]
    BY <2>3, <2>4
  <2>6. v = s
    BY ONLY <1>1, <2>4, <2>5, SeqEqual
  <2> QED
    BY <2>1, <2>2, <2>6
<1> QED
  BY <1>3, <1>7, <1>8

\* What is converted of a string that is not empty is not empty.
LEMMA UpToZeroIs ==
  ASSUME NEW s \in Seq(Nat), Len(s) # 0
  PROVE  \E m \in 1..Len(s) : Look!UpToZero(s) = SubSeq(s, 1, m)
<1> DEFINE ends == {i \in 2..Len(s) : s[i] = 0}
<1>1. CASE ends = {}
  BY <1>1, SubSeqFull DEF Look!UpToZero
<1>2. CASE ends # {}
  <2>1. ends \in SUBSET Nat
    OBVIOUS
  <2>2. \E i \in ends : \A j \in ends : i <= j
    BY <1>2, <2>1, LeastOf
  <2> DEFINE e == CHOOSE i \in ends : \A j \in ends : i <= j
  <2>3. e \in ends
    BY <2>2
  <2>4. Look!UpToZero(s) = SubSeq(s, 1, e - 1)
    BY <1>2 DEF Look!UpToZero
  <2>5. e \in 2..Len(s)
    BY <2>3
  <2> HIDE DEF e
  <2>6. e - 1 \in 1..Len(s)
    BY <2>5
  <2> QED
    BY <2>4, <2>6
<1> QED
  BY <1>1, <1>2

\* What is told of a narrow string.
NarrowTold(a, t, no, n) ==
  /\ a.buffer # <<>> /\ Len(a.buffer) <= n /\ a.buffer[Len(a.buffer)] = 0
  /\ t # None => SubSeq(a.buffer, 1, a.answer) = SubSeq(t[no], 1, a.answer)

LEMMA NarrowIs ==
  ASSUME NEW t, t = None \/ t \in [1..16 -> Seq(Nat)], NEW no \in 1..16, NEW n \in Nat \ {0}
  PROVE  NarrowTold(Look!Narrow(Look!Wide(t, no, Look!Wide(t, no, 0).answer + 1), n), t, no, n)
<1> PICK w : w = Look!Wide(t, no, Look!Wide(t, no, 0).answer + 1)
  OBVIOUS
<1> PICK a : a = Look!Narrow(w, n)
  OBVIOUS
<1> PICK s : s = t[no]
  OBVIOUS
<1> SUFFICES NarrowTold(a, t, no, n)
  OBVIOUS
<1>1. CASE w.answer = 0
  BY <1>1, SubSeqEmpty DEF Look!Narrow, NarrowTold
<1>2. CASE w.answer # 0
  <2>1. t # None
    BY <1>2 DEF Look!Wide
  <2>2. t \in [1..16 -> Seq(Nat)] /\ s \in Seq(Nat)
    BY <2>1
  <2>3. w.answer = Len(s) /\ Len(s) # 0 /\ SubSeq(w.buffer, 1, w.answer) = s
    BY <1>2, <2>1, <2>2, WideWhole
  <2>4. PICK m \in 1..Len(s) : Look!UpToZero(s) = SubSeq(s, 1, m)
    BY <2>2, <2>3, UpToZeroIs
  <2>5. m \in Nat \ {0} /\ m \in 0..Len(s) /\ Len(SubSeq(s, 1, m)) = m
    BY <2>2, <2>4, PrefixIs
  <2> PICK k : k = Look!Least(m, n - 1)
    OBVIOUS
  <2>6. k \in 0..m /\ k <= n - 1
    BY <2>5, LeastIs
  <2>7. a = [answer |-> k, buffer |-> Append(SubSeq(SubSeq(s, 1, m), 1, k), 0)]
    BY <1>2, <2>3, <2>4, <2>5 DEF Look!Narrow
  <2> PICK b : b = Append(SubSeq(SubSeq(s, 1, m), 1, k), 0)
    OBVIOUS
  <2>8. b \in Seq(Nat) /\ Len(b) = k + 1 /\ b[k + 1] = 0 /\ SubSeq(b, 1, k) = SubSeq(s, 1, k)
    BY ONLY <2>2, <2>5, <2>6, Copied, b = Append(SubSeq(SubSeq(s, 1, m), 1, k), 0)
  <2>11. a = [answer |-> k, buffer |-> b]
    BY <2>7
  <2>9. a.answer = k /\ a.buffer = b
    BY ONLY <2>11
  <2>10. b # <<>> /\ Len(b) <= n
    BY <2>6, <2>8
  <2> QED
    BY <2>8, <2>9, <2>10 DEF NarrowTold
<1> QED
  BY <1>1, <1>2

\* What is told of a string that is widened.
WidenedTold(w, s, n) ==
  /\ 2 * Len(w.written) <= n /\ w.written = SubSeq(s, 1, Len(w.written))
  /\ w.answer <= Len(w.written) + 1
  /\ w.answer = Len(w.written) <=> w.written # <<>> /\ w.written[Len(w.written)] = 0

LEMMA WidenedIs ==
  ASSUME NEW s \in Seq(Nat), NEW siz1 \in -1..Len(s), NEW n \in Nat \ {0}
  PROVE  WidenedTold(Look!MultiByteToWideChar(s, siz1, TRUE, n), s, n)
<1> PICK w : w = Look!MultiByteToWideChar(s, siz1, TRUE, n)
  OBVIOUS
<1> SUFFICES WidenedTold(w, s, n)
  OBVIOUS
<1> PICK most : most = Look!Least(siz1, n \div 2)
  OBVIOUS
<1>1. most \in -1..Len(s) /\ 2 * most <= n
  BY LeastIs
<1> DEFINE zeros == {i \in 1..most : s[i] = 0}
<1>2. CASE zeros # {}
  <2>1. zeros \in SUBSET Nat
    BY <1>1
  <2>2. \E i \in zeros : \A j \in zeros : i <= j
    BY <1>2, <2>1, LeastOf
  <2> DEFINE e == CHOOSE i \in zeros : \A j \in zeros : i <= j
  <2>3. e \in zeros
    BY <2>2
  <2>4. w = [answer |-> e, written |-> SubSeq(s, 1, e)]
    BY <1>2 DEF Look!MultiByteToWideChar
  <2>5. e \in 1..Len(s) /\ e <= most /\ s[e] = 0
    BY <1>1, <2>3
  <2> HIDE DEF e, zeros
  <2> PICK v : v = SubSeq(s, 1, e)
    OBVIOUS
  <2>6. v \in Seq(Nat) /\ Len(v) = e /\ \A i \in 1..e : v[i] = s[i]
    BY <2>5, PrefixIs
  <2>7. 2 * e <= n /\ e <= e + 1
    BY <1>1, <2>5
  <2>10. v # <<>> /\ v[e] = 0
    BY <2>5, <2>6
  <2>9. w = [answer |-> e, written |-> v]
    BY <2>4
  <2>8. w.answer = e /\ w.written = v
    BY ONLY <2>9
  <2> QED
    BY <2>6, <2>7, <2>8, <2>10 DEF WidenedTold
<1>3. CASE zeros = {}
  <2>1. w = [answer |-> IF most < 0 THEN 1 ELSE most + 1, written |-> SubSeq(s, 1, most)]
    BY <1>3 DEF Look!MultiByteToWideChar
  <2> PICK v : v = SubSeq(s, 1, most)
    OBVIOUS
  <2> PICK say : say = IF most < 0 THEN 1 ELSE most + 1
    OBVIOUS
  <2>4. w = [answer |-> say, written |-> v]
    BY <2>1
  <2>5. w.answer = say /\ w.written = v
    BY ONLY <2>4
  <2>2. CASE most <= 0
    <3>1. v = <<>> /\ SubSeq(s, 1, 0) = <<>>
      BY <1>1, <2>2, SubSeqEmpty
    <3>2. say = 1
      BY <1>1, <2>2
    <3>3. w.answer = 1 /\ w.written = <<>> /\ Len(<<>>) = 0
      BY <2>5, <3>1, <3>2
    <3>4. 2 * 0 <= n /\ 1 <= 0 + 1 /\ 1 # 0
      OBVIOUS
    <3>5. /\ 2 * Len(w.written) <= n /\ w.written = SubSeq(s, 1, Len(w.written))
          /\ w.answer <= Len(w.written) + 1
          /\ w.answer # Len(w.written) /\ w.written = <<>>
      BY ONLY <3>1, <3>3, <3>4, Zenon
    <3> QED
      BY ONLY <3>5, Zenon DEF WidenedTold
  <2>3. CASE most > 0
    <3>1. most \in 1..Len(s)
      BY <1>1, <2>3
    <3>2. v \in Seq(Nat) /\ Len(v) = most /\ \A i \in 1..most : v[i] = s[i]
      BY <3>1, PrefixIs
    <3>3. v[most] # 0 /\ v # <<>>
      BY <1>3, <3>1, <3>2
    <3>4. w.answer = most + 1 /\ w.written = v
      <4>1. most \in Int
        BY <3>1
      <4>2. say = most + 1
        BY ONLY <2>3, <4>1, say = IF most < 0 THEN 1 ELSE most + 1
      <4> QED
        BY <2>5, <4>2
    <3>5. 2 * most <= n /\ most + 1 <= most + 1 /\ most + 1 # most
      BY <1>1, <3>1
    <3> QED
      BY <3>2, <3>3, <3>4, <3>5 DEF WidenedTold
  <2>6. most \in Int
    BY <1>1
  <2>7. most <= 0 \/ most > 0
    BY ONLY <2>6
  <2> QED
    BY <2>2, <2>3, <2>7
<1> QED
  BY <1>2, <1>3

\* What StringsAgree says of a string.
StringTold(root, asked, n) ==
  /\ \A w \in {Look!LoadStringW(root, asked, n).buffer} : Len(w) <= n
  /\ \A a \in {Look!LoadStringA(root, asked, n)}, table \in {Look!Table(root, asked)} :
       /\ a.buffer # <<>> /\ Len(a.buffer) <= n /\ a.buffer[Len(a.buffer)] = 0
       /\ table # None => SubSeq(a.buffer, 1, a.answer) = SubSeq(table[Look!StringNo(asked)], 1, a.answer)
       /\ table # None => \A siz1 \in -1..Len(table[Look!StringNo(asked)]) :
            LET s == table[Look!StringNo(asked)]  w == Look!MultiByteToWideChar(s, siz1, TRUE, n) IN
            /\ 2 * Len(w.written) <= n /\ w.written = SubSeq(s, 1, Len(w.written))
            /\ w.answer <= Len(w.written) + 1
            /\ w.answer = Len(w.written) <=> w.written # <<>> /\ w.written[Len(w.written)] = 0

LEMMA StringsAgreed == Look!StringsAgree(RootsUsed, StringsAsked, RoomUsed)
<1> SUFFICES ASSUME NEW r \in RootsUsed, NEW asked \in StringsAsked, NEW n \in 1..RoomUsed
             PROVE  StringTold(r, asked, n)
  BY Zenon DEF Look!StringsAgree, StringTold
<1> SUFFICES ASSUME NEW a \in {Look!LoadStringA(r, asked, n)}, NEW table \in {Look!Table(r, asked)}
    PROVE  /\ Len(Look!LoadStringW(r, asked, n).buffer) <= n
           /\ a.buffer # <<>> /\ Len(a.buffer) <= n /\ a.buffer[Len(a.buffer)] = 0
           /\ table # None => SubSeq(a.buffer, 1, a.answer) = SubSeq(table[Look!StringNo(asked)], 1, a.answer)
           /\ table # None => \A siz1 \in -1..Len(table[Look!StringNo(asked)]) :
                LET s == table[Look!StringNo(asked)]  w == Look!MultiByteToWideChar(s, siz1, TRUE, n) IN
                /\ 2 * Len(w.written) <= n /\ w.written = SubSeq(s, 1, Len(w.written))
                /\ w.answer <= Len(w.written) + 1
                /\ w.answer = Len(w.written) <=> w.written # <<>> /\ w.written[Len(w.written)] = 0
  BY Zenon DEF StringTold
<1>1. asked \in Nat /\ n \in Nat \ {0}
  <2>1. asked \in Nat /\ RoomUsed \in Nat
    BY ONLY ResourceAssumption, asked \in StringsAsked, Zenon
  <2> QED
    BY <2>1
<1> PICK no : no = Look!StringNo(asked)
  OBVIOUS
<1>9. a = Look!LoadStringA(r, asked, n) /\ table = Look!Table(r, asked)
  OBVIOUS
<1>2. (table = None \/ table \in [1..16 -> Seq(Nat)]) /\ no \in 1..16
  BY <1>1, <1>9, TableIs, StringNoIs
<1>3. Len(Look!LoadStringW(r, asked, n).buffer) <= n
  BY <1>1, <1>2, <1>9, WideFits DEF Look!LoadStringW
<1>4. NarrowTold(a, table, no, n)
  BY <1>1, <1>2, <1>9, NarrowIs DEF Look!LoadStringW, Look!LoadStringA
<1>5. ASSUME table # None, NEW siz1 \in -1..Len(table[no]) PROVE WidenedTold(Look!MultiByteToWideChar(table[no], siz1, TRUE, n), table[no], n)
  BY <1>1, <1>2, <1>5, WidenedIs
<1>7. /\ a.buffer # <<>> /\ Len(a.buffer) <= n /\ a.buffer[Len(a.buffer)] = 0
      /\ table # None => SubSeq(a.buffer, 1, a.answer) = SubSeq(table[no], 1, a.answer)
  BY <1>4, Zenon DEF NarrowTold
<1>8. table # None => \A siz1 \in -1..Len(table[no]) :
        LET s == table[no]  w == Look!MultiByteToWideChar(s, siz1, TRUE, n) IN
        /\ 2 * Len(w.written) <= n /\ w.written = SubSeq(s, 1, Len(w.written))
        /\ w.answer <= Len(w.written) + 1
        /\ w.answer = Len(w.written) <=> w.written # <<>> /\ w.written[Len(w.written)] = 0
  BY <1>5, Zenon DEF WidenedTold
<1> QED
  BY <1>3, <1>7, <1>8, Zenon

-----------------------------------------------------------------------------
(* What is imported *)

Range1(s) == {s[i] : i \in 1..Len(s)}

LEMMA RangeOfBoth ==
  ASSUME NEW S, NEW a \in Seq(S), NEW b \in Seq(S)
  PROVE  Range1(a \o b) = Range1(a) \cup Range1(b)
<1> PICK c : c = a \o b
  OBVIOUS
<1> PICK n : n = Len(a)
  OBVIOUS
<1> PICK m : m = Len(b)
  OBVIOUS
<1>1. n \in Nat /\ m \in Nat
  OBVIOUS
<1>2. Len(c) = n + m /\ (\A i \in 1..n : c[i] = a[i]) /\ (\A i \in 1..m : c[n + i] = b[i])
  OBVIOUS
<1>3. ASSUME NEW i \in 1..Len(c) PROVE c[i] \in Range1(a) \cup Range1(b)
  BY <1>1, <1>2 DEF Range1
<1>4. ASSUME NEW i \in 1..n PROVE a[i] \in Range1(c)
  BY <1>1, <1>2 DEF Range1
<1>5. ASSUME NEW i \in 1..m PROVE b[i] \in Range1(c)
  <2>1. n + i \in 1..Len(c) /\ c[n + i] = b[i]
    BY <1>1, <1>2
  <2> QED
    BY <2>1 DEF Range1
<1>6. Range1(c) \subseteq Range1(a) \cup Range1(b)
  BY <1>3 DEF Range1
<1>7. Range1(a) \subseteq Range1(c)
  BY <1>4 DEF Range1
<1>8. Range1(b) \subseteq Range1(c)
  BY <1>5 DEF Range1
<1> QED
  BY <1>6, <1>7, <1>8

\* The imports of the first k descriptors.
Before(d, k) == {d[x[1]].names[x[2]] : x \in {y \in (1..k) \X Nat : y[2] \in 1..Len(d[y[1]].names)}}

LEMMA BeforeIs ==
  ASSUME NEW d, NEW k \in Nat, Len(d[k + 1].names) \in Nat
  PROVE  Before(d, 0) = {} /\ Before(d, k + 1) = Before(d, k) \cup Range1(d[k + 1].names)
<1>1. Before(d, 0) = {}
  BY DEF Before
<1>2. \A i \in 1..(k + 1) : i \in 1..k \/ i = k + 1
  OBVIOUS
<1>3. 1..k \subseteq 1..(k + 1) /\ k + 1 \in 1..(k + 1)
  OBVIOUS
<1>4. ASSUME NEW i \in 1..(k + 1), NEW j \in Nat, j \in 1..Len(d[i].names)
      PROVE  d[i].names[j] \in Before(d, k) \cup Range1(d[k + 1].names)
  <2>1. CASE i \in 1..k
    <3>1. <<i, j>> \in {y \in (1..k) \X Nat : y[2] \in 1..Len(d[y[1]].names)}
      BY <1>4, <2>1
    <3>2. d[i].names[j] \in Before(d, k)
      BY <3>1 DEF Before
    <3> QED
      BY <3>2
  <2>2. CASE i = k + 1
    BY <1>4, <2>2 DEF Range1
  <2> QED
    BY <1>2, <2>1, <2>2
<1>5. Before(d, k + 1) \subseteq Before(d, k) \cup Range1(d[k + 1].names)
  <2>1. ASSUME NEW x \in Before(d, k + 1) PROVE x \in Before(d, k) \cup Range1(d[k + 1].names)
    <3>1. PICK y \in (1..(k + 1)) \X Nat : y[2] \in 1..Len(d[y[1]].names) /\ x = d[y[1]].names[y[2]]
      BY DEF Before
    <3>2. y[1] \in 1..(k + 1) /\ y[2] \in Nat
      OBVIOUS
    <3> QED
      BY <1>4, <3>1, <3>2
  <2> QED
    BY <2>1
<1>6. Before(d, k) \subseteq Before(d, k + 1)
  BY <1>3 DEF Before
<1>7. ASSUME NEW j \in 1..Len(d[k + 1].names) PROVE d[k + 1].names[j] \in Before(d, k + 1)
  <2>1. j \in Nat
    OBVIOUS
  <2>2. <<k + 1, j>> \in {y \in (1..(k + 1)) \X Nat : y[2] \in 1..Len(d[y[1]].names)}
    BY <1>3, <2>1
  <2> QED
    BY <2>2 DEF Before
<1>8. Range1(d[k + 1].names) \subseteq Before(d, k + 1)
  BY <1>7 DEF Range1
<1> QED
  BY <1>1, <1>5, <1>6, <1>8

LEMMA ImportsAgreed == Stubs!ImportsAll
<1> SUFFICES ASSUME NEW image \in ToLink,
                    \A k \in 1..Len(image.descriptors) :
                      image.descriptors[k].characteristics = image.descriptors[1].characteristics
             PROVE  {Stubs!Imports(image)[k] : k \in 1..Len(Stubs!Imports(image))}
                      = UNION {{image.descriptors[k].names[j] : j \in 1..Len(image.descriptors[k].names)} : k \in 1..Len(image.descriptors)}
  BY Zenon DEF Stubs!ImportsAll
<1> DEFINE d == image.descriptors
<1> PICK n : n = Len(d)
  OBVIOUS
<1>1. d \in Seq([characteristics : BOOLEAN, names : Seq(ImportName)])
  BY StubAssumption
<1>2. n \in Nat /\ \A k \in 1..n : d[k].characteristics \in BOOLEAN /\ d[k].names \in Seq(ImportName)
  <2> PICK R : R = [characteristics : BOOLEAN, names : Seq(ImportName)]
    OBVIOUS
  <2>1. \A x \in R : x.characteristics \in BOOLEAN /\ x.names \in Seq(ImportName)
    OBVIOUS
  <2>2. d \in Seq(R)
    BY <1>1
  <2> HIDE DEF d
  <2>3. n \in Nat /\ \A k \in 1..n : d[k] \in R
    BY ONLY <2>2, n = Len(d)
  <2> QED
    BY ONLY <2>1, <2>3
<1> DEFINE stop == {i \in 1..Len(d) : ~d[i].characteristics}
           last == IF stop = {} \/ 1 \in stop THEN Len(d) ELSE (CHOOSE i \in stop : \A j \in stop : i <= j) - 1
<1>3. last = n
  <2>1. ASSUME stop # {} PROVE 1 \in stop
    BY <1>2, <2>1
  <2> HIDE DEF stop
  <2> QED
    BY <2>1
<1> DEFINE D == Seq(ImportName)
           next == [k \in 1..n |-> [s \in D |-> s \o d[k].names]]
<1>4. PICK g : Made(g, n, D, <<>>, next)
  <2>1. Steps(next, n, D)
    <3>1. ASSUME NEW k \in 1..n, NEW s \in D PROVE s \o d[k].names \in D
      BY <1>2
    <3> HIDE DEF D
    <3> QED
      BY <3>1 DEF Steps
  <2>2. <<>> \in D
    OBVIOUS
  <2> HIDE DEF next, D
  <2> QED
    BY <1>2, <2>1, <2>2, StepsExist
<1>5. /\ g \in [0..n -> D] /\ g[0] = <<>>
      /\ \A k \in 1..n : g[k] = g[k - 1] \o d[k].names
  <2>1. g \in [0..n -> D] /\ g[0] = <<>> /\ \A k \in 1..n : g[k] = next[k][g[k - 1]]
    BY <1>4 DEF Made
  <2>2. ASSUME NEW k \in 1..n PROVE g[k] = g[k - 1] \o d[k].names
    <3>1. k - 1 \in 0..n
      BY <1>2
    <3>2. g[k - 1] \in D
      BY <2>1, <3>1
    <3> HIDE DEF D
    <3> QED
      BY <2>1, <3>2
  <2> QED
    BY <2>1, <2>2
<1> HIDE DEF next
<1>6. g = [k \in 0..n |-> IF k = 0 THEN <<>> ELSE g[k - 1] \o d[k].names]
  <2>1. \A k \in 0..n : k = 0 \/ k \in 1..n
    BY <1>2
  <2>2. \A k \in 0..n : g[k] = IF k = 0 THEN <<>> ELSE g[k - 1] \o d[k].names
    BY <1>5, <2>1
  <2> QED
    BY <1>5, <2>2
<1>7. PICK f : f = [k \in 0..n |-> IF k = 0 THEN <<>> ELSE f[k - 1] \o d[k].names] /\ Stubs!Imports(image) = f[n]
  <2> DEFINE e == CHOOSE f : f = [k \in 0..last |-> IF k = 0 THEN <<>> ELSE f[k - 1] \o d[k].names]
  <2>2. Stubs!Imports(image) = e[last]
    BY Zenon DEF Stubs!Imports
  <2> HIDE DEF stop, last
  <2>1. e = [k \in 0..last |-> IF k = 0 THEN <<>> ELSE e[k - 1] \o d[k].names]
    BY <1>3, <1>6, Zenon
  <2> HIDE DEF e
  <2> QED
    BY <1>3, <2>1, <2>2, Zenon
<1>8. f[0] = <<>> /\ \A k \in 1..n : f[k] = f[k - 1] \o d[k].names
  <2>1. 0 \in 0..n /\ \A k \in 1..n : k \in 0..n /\ k # 0
    BY <1>2
  <2>2. f[0] = <<>>
    BY <1>7, <2>1, Zenon
  <2>3. \A k \in 1..n : f[k] = f[k - 1] \o d[k].names
    BY <1>7, <2>1, Zenon
  <2> QED
    BY <2>2, <2>3
<1> DEFINE P == {k \in 0..n : f[k] \in D /\ Range1(f[k]) = Before(d, k)}
<1>9. 0 \in P
  <2>1. Before(d, 0) = {}
    BY DEF Before
  <2>2. Range1(<<>>) = {} /\ <<>> \in D /\ 0 \in 0..n
    BY <1>2 DEF Range1
  <2> HIDE DEF D
  <2> QED
    BY <1>8, <2>1, <2>2
<1>10. ASSUME NEW k \in 0..(n - 1), k \in P PROVE k + 1 \in P
  <2>1. k + 1 \in 1..n /\ k + 1 \in 0..n /\ (k + 1) - 1 = k /\ k \in Nat
    BY <1>2
  <2>2. f[k + 1] = f[k] \o d[k + 1].names
    BY <1>8, <2>1
  <2>3. d[k + 1].names \in Seq(ImportName) /\ f[k] \in Seq(ImportName) /\ Range1(f[k]) = Before(d, k)
    BY <1>2, <1>10, <2>1
  <2>4. f[k + 1] \in D
    BY <2>2, <2>3
  <2>5. Range1(f[k + 1]) = Range1(f[k]) \cup Range1(d[k + 1].names)
    BY <2>2, <2>3, RangeOfBoth
  <2>6. Len(d[k + 1].names) \in Nat
    BY <2>3
  <2>7. Before(d, k + 1) = Before(d, k) \cup Range1(d[k + 1].names)
    BY <2>1, <2>6, BeforeIs
  <2>8. Range1(f[k + 1]) = Before(d, k + 1)
    BY <2>3, <2>5, <2>7
  <2> HIDE DEF D
  <2> QED
    BY <2>1, <2>4, <2>8
<1>11. Range1(f[n]) = Before(d, n)
  <2> HIDE DEF P
  <2>1. \A k \in 0..n : k \in P
    BY <1>2, <1>9, <1>10, UpTo
  <2>2. n \in P
    BY <1>2, <2>1
  <2> QED
    BY <2>2 DEF P
<1>12. Before(d, n) = UNION {{d[k].names[j] : j \in 1..Len(d[k].names)} : k \in 1..n}
  <2>1. ASSUME NEW k \in 1..n, NEW j \in 1..Len(d[k].names) PROVE d[k].names[j] \in Before(d, n)
    <3>1. j \in Nat
      BY <1>2
    <3> HIDE DEF d
    <3>2. <<k, j>> \in {y \in (1..n) \X Nat : y[2] \in 1..Len(d[y[1]].names)}
      BY <3>1
    <3> QED
      BY <3>2 DEF Before
  <2>2. ASSUME NEW x \in Before(d, n) PROVE \E k \in 1..n : \E j \in 1..Len(d[k].names) : x = d[k].names[j]
    BY DEF Before
  <2>3. Before(d, n) \subseteq UNION {{d[k].names[j] : j \in 1..Len(d[k].names)} : k \in 1..n}
    BY <2>2
  <2>4. UNION {{d[k].names[j] : j \in 1..Len(d[k].names)} : k \in 1..n} \subseteq Before(d, n)
    BY <2>1
  <2> QED
    BY <2>3, <2>4
<1>13. Stubs!Imports(image) = f[n]
  BY <1>7, Zenon
<1>14. {Stubs!Imports(image)[k] : k \in 1..Len(Stubs!Imports(image))} = Before(d, n)
  BY <1>11, <1>13, Zenon DEF Range1
<1>15. Len(d) = n
  OBVIOUS
<1> QED
  BY <1>12, <1>14, <1>15, Zenon

-----------------------------------------------------------------------------
(* What is fixed up *)

\* A multiple that is larger than what it is compared with.
LEMMA Multiple == ASSUME NEW s \in Nat \ {0}, NEW k \in Int, k >= 1 PROVE k * s >= s
OBVIOUS

\* There is one way to divide.
LEMMA Divided ==
  ASSUME NEW s \in Nat \ {0}, NEW x \in Int
  PROVE  x \div s \in Int /\ x % s \in 0..(s - 1) /\ x = (x \div s) * s + (x % s)
<1> PICK q : q = x \div s
  OBVIOUS
<1> PICK r : r = x % s
  OBVIOUS
<1>1. q \in Int /\ r \in Int
  OBVIOUS
<1>2. r >= 0 /\ r < s
  OBVIOUS
<1>3. x = q * s + r
  OBVIOUS
<1>4. r \in 0..(s - 1)
  BY ONLY <1>1, <1>2, s \in Nat \ {0}
<1> QED
  BY <1>1, <1>3, <1>4

LEMMA OneWay ==
  ASSUME NEW s \in Nat \ {0}, NEW q \in Int, NEW r \in 0..(s - 1), NEW x, x = q * s + r
  PROVE  x \div s = q /\ x % s = r
<1> PICK p : p = x \div s
  OBVIOUS
<1> PICK t : t = x % s
  OBVIOUS
<1>1. x \in Int /\ r \in Int /\ r >= 0 /\ r < s
  OBVIOUS
<1>2. p \in Int /\ t \in 0..(s - 1) /\ x = p * s + t
  BY <1>1, Divided
<1> PICK k : k = p - q
  OBVIOUS
<1>3. k \in Int /\ -k \in Int
  BY <1>2
<1>4. k * s = r - t /\ (-k) * s = t - r
  BY <1>1, <1>2
<1>5. ~(k >= 1)
  <2> SUFFICES ASSUME k >= 1 PROVE FALSE
    OBVIOUS
  <2>1. k * s >= s
    BY <1>3, Multiple
  <2> QED
    BY <1>1, <1>2, <1>4, <2>1
<1>6. ~(-k >= 1)
  <2> SUFFICES ASSUME -k >= 1 PROVE FALSE
    OBVIOUS
  <2>1. (-k) * s >= s
    BY <1>3, Multiple
  <2> QED
    BY <1>1, <1>2, <1>4, <2>1
<1>7. k = 0
  BY ONLY <1>3, <1>5, <1>6
<1>8. p = q
  BY ONLY <1>2, <1>7, k = p - q, q \in Int
<1>9. t = r
  BY ONLY <1>1, <1>2, <1>8, x = q * s + r, q \in Int, s \in Nat \ {0}
<1> QED
  BY <1>8, <1>9

\* A pointer is its two halves.
LEMMA Halves ==
  ASSUME NEW h \in Nat \ {0}, NEW a \in 0..(h - 1), NEW b \in 0..(h - 1)
  PROVE  LET p == a + h * b IN p \in 0..(h * h - 1) /\ p % h = a /\ p \div h = b
<1> PICK p : p = a + h * b
  OBVIOUS
<1>1. a \in Int /\ b \in Int /\ h \in Int /\ h - 1 - b >= 0
  OBVIOUS
<1>2. p = b * h + a
  BY <1>1
<1>3. p % h = a /\ p \div h = b
  BY <1>1, <1>2, OneWay
<1>4. h * b >= 0 /\ h * b \in Int
  BY <1>1
<1> PICK k : k = h - 1 - b
  OBVIOUS
<1>5. h * k >= 0 /\ h * k \in Int /\ h * k = h * h - h - h * b
  BY <1>1
<1>6. h * h \in Int
  BY <1>1
<1>7. p \in 0..(h * h - 1)
  <2> PICK x : x = h * b
    OBVIOUS
  <2> PICK y : y = h * h
    OBVIOUS
  <2> PICK z : z = h * k
    OBVIOUS
  <2>1. x \in Int /\ y \in Int /\ z \in Int /\ x >= 0 /\ z >= 0 /\ z = y - h - x /\ p = a + x
    BY <1>4, <1>5, <1>6
  <2>2. p \in 0..(y - 1)
    BY ONLY <2>1, a \in 0..(h - 1), h \in Nat \ {0}
  <2> QED
    BY <2>2
<1> QED
  BY <1>3, <1>7

LEMMA Joined2 ==
  ASSUME NEW h \in Nat \ {0}, NEW p \in 0..(h * h - 1)
  PROVE  p % h \in 0..(h - 1) /\ p \div h \in 0..(h - 1) /\ p = (p % h) + h * (p \div h)
<1> PICK q : q = p \div h
  OBVIOUS
<1> PICK r : r = p % h
  OBVIOUS
<1>1. p \in Int /\ p >= 0 /\ h \in Int /\ h * h \in Int /\ p < h * h
  OBVIOUS
<1>2. q \in Int /\ r \in 0..(h - 1) /\ p = q * h + r
  BY <1>1, Divided
<1>3. ~(-q >= 1)
  <2> SUFFICES ASSUME -q >= 1 PROVE FALSE
    OBVIOUS
  <2>1. (-q) * h >= h /\ -q \in Int
    BY <1>2, Multiple
  <2>2. q * h <= -h
    BY <1>2, <2>1
  <2> PICK x : x = q * h
    OBVIOUS
  <2>3. x \in Int
    BY <1>2
  <2> QED
    BY ONLY <1>1, <1>2, <2>2, <2>3, x = q * h
<1>4. ~(q - (h - 1) >= 1)
  <2> SUFFICES ASSUME q - (h - 1) >= 1 PROVE FALSE
    OBVIOUS
  <2>1. (q - (h - 1)) * h >= h /\ q - (h - 1) \in Int
    BY <1>1, <1>2, Multiple
  <2>2. (q - (h - 1)) * h = q * h - h * h + h
    BY <1>1, <1>2
  <2> PICK x : x = q * h
    OBVIOUS
  <2> PICK y : y = h * h
    OBVIOUS
  <2>3. x \in Int /\ y \in Int
    BY <1>1, <1>2
  <2>4. x - y + h >= h /\ p = x + r /\ p < y /\ r \in 0..(h - 1)
    BY <1>1, <1>2, <2>1, <2>2
  <2> QED
    BY ONLY <1>1, <2>3, <2>4
<1>5. q \in 0..(h - 1)
  BY ONLY <1>1, <1>2, <1>3, <1>4
<1>6. p = r + h * q
  BY <1>1, <1>2
<1> QED
  BY <1>2, <1>5, <1>6

\* Adding by halves is adding as long as there is no carry, and only then.
CarryOnly(h, a, b, delta) ==
  (((a + (delta % h)) % h) + h * ((b + delta \div h) % h) = ((a + h * b) + delta) % (h * h))
    <=> a + (delta % h) < h

LEMMA ByHalves ==
  ASSUME NEW h \in Nat \ {0}, NEW a \in 0..(h - 1), NEW b \in 0..(h - 1), NEW delta \in 0..(h * h - 1)
  PROVE  CarryOnly(h, a, b, delta)
<1> PICK c : c = delta % h
  OBVIOUS
<1> PICK d : d = delta \div h
  OBVIOUS
<1>1. c \in 0..(h - 1) /\ d \in 0..(h - 1) /\ delta = c + h * d
  BY Joined2
<1>2. a \in Int /\ b \in Int /\ c \in Int /\ d \in Int /\ h \in Int /\ h * h \in Nat \ {0}
  BY <1>1
<1> PICK sum : sum = (a + h * b) + delta
  OBVIOUS
<1>3. sum = (a + c) + h * (b + d)
  BY <1>1, <1>2
\* What the sum is, of a low half and a high one.
<1>4. ASSUME NEW low \in 0..(h - 1), NEW high \in Int, sum = low + h * high
      PROVE  sum % (h * h) = low + h * (high % h) /\ high % h \in 0..(h - 1)
  <2> PICK q : q = high \div h
    OBVIOUS
  <2> PICK r : r = high % h
    OBVIOUS
  <2>1. q \in Int /\ r \in 0..(h - 1) /\ high = q * h + r
    BY <1>4, Divided
  <2>2. r \in Int /\ low \in Int
    BY <2>1, <1>4
  <2>3. sum = q * (h * h) + (low + h * r)
    <3>1. sum = low + h * (q * h + r)
      BY <1>4, <2>1
    <3> QED
      BY ONLY <1>2, <2>1, <2>2, <3>1
  <2>4. low + h * r \in 0..(h * h - 1)
    BY <2>1, <1>4, Halves
  <2>5. sum % (h * h) = low + h * r
    <3> PICK m : m = h * h
      OBVIOUS
    <3> PICK x : x = low + h * r
      OBVIOUS
    <3>1. m \in Nat \ {0} /\ q \in Int /\ x \in 0..(m - 1) /\ sum = q * m + x
      BY <1>2, <2>1, <2>3, <2>4
    <3>2. sum % m = x
      BY ONLY <3>1, OneWay
    <3> QED
      BY <3>2
  <2> QED
    BY <2>1, <2>5
<1> PICK u : u = (b + d) % h
  OBVIOUS
<1>5. u \in 0..(h - 1) /\ b + d \in Int
  BY <1>2, Divided
<1>6. CASE a + c < h
  <2>1. a + c \in 0..(h - 1)
    BY <1>1, <1>2, <1>6
  <2>2. (a + c) % h = a + c
    <3> PICK x : x = a + c
      OBVIOUS
    <3>1. x = 0 * h + x /\ x \in 0..(h - 1) /\ 0 \in Int
      BY <1>2, <2>1
    <3>2. x % h = x
      BY ONLY <3>1, OneWay, h \in Nat \ {0}
    <3> QED
      BY <3>2
  <2>3. sum % (h * h) = (a + c) + h * u
    BY <1>3, <1>4, <1>5, <2>1
  <2> QED
    BY <1>6, <2>2, <2>3 DEF CarryOnly
<1>7. CASE ~(a + c < h)
  <2>1. a + c - h \in 0..(h - 1)
    BY <1>1, <1>2, <1>7
  <2>2. (a + c) % h = a + c - h
    <3> PICK x : x = a + c
      OBVIOUS
    <3> PICK y : y = a + c - h
      OBVIOUS
    <3>1. x = 1 * h + y /\ y \in 0..(h - 1) /\ 1 \in Int
      BY <1>2, <2>1
    <3>2. x % h = y
      BY ONLY <3>1, OneWay, h \in Nat \ {0}
    <3> QED
      BY <3>2
  <2> PICK v : v = (b + d + 1) % h
    OBVIOUS
  <2>3. sum = (a + c - h) + h * (b + d + 1) /\ b + d + 1 \in Int
    BY <1>2, <1>3
  <2>4. sum % (h * h) = (a + c - h) + h * v /\ v \in 0..(h - 1)
    BY <1>4, <2>1, <2>3
  <2>5. u # v
    <3> SUFFICES ASSUME u = v PROVE FALSE
      OBVIOUS
    <3> PICK p : p = (b + d) \div h
      OBVIOUS
    <3> PICK q : q = (b + d + 1) \div h
      OBVIOUS
    <3>1. p \in Int /\ q \in Int /\ b + d = p * h + u /\ b + d + 1 = q * h + v
      BY <1>5, <2>3, Divided
    <3> PICK k : k = q - p
      OBVIOUS
    <3>2. k \in Int /\ k * h = 1 /\ (-k) * h = -1
      <4>1. u \in Int
        BY <1>5
      <4> QED
        BY ONLY <1>2, <3>1, <4>1, u = v, k = q - p
    <3>3. h >= 2
      BY <1>1, <1>2, <1>7
    <3>4. k >= 1 \/ -k >= 1 \/ k = 0
      BY ONLY <3>2
    <3>5. k >= 1 => k * h >= h
      BY <3>2, Multiple
    <3>6. -k >= 1 => (-k) * h >= h
      <4>1. -k \in Int
        BY <3>2
      <4> QED
        BY <4>1, Multiple
    <3>7. k = 0 => k * h = 0
      BY <1>2
    <3> QED
      BY ONLY <1>2, <3>2, <3>3, <3>4, <3>5, <3>6, <3>7
  <2>6. (a + c - h) + h * u # (a + c - h) + h * v
    <3> SUFFICES ASSUME h * u = h * v PROVE FALSE
      BY <1>2, <1>5, <2>4
    <3>1. (h * u) \div h = u
      <4>1. h * u = u * h + 0 /\ 0 \in 0..(h - 1) /\ u \in Int
        BY <1>2, <1>5
      <4> QED
        BY <4>1, OneWay
    <3>2. (h * v) \div h = v
      <4>1. h * v = v * h + 0 /\ 0 \in 0..(h - 1) /\ v \in Int
        BY <1>2, <2>4
      <4> QED
        BY <4>1, OneWay
    <3> QED
      BY <2>5, <3>1, <3>2
  <2> QED
    BY <1>7, <2>2, <2>4, <2>6 DEF CarryOnly
<1> QED
  BY <1>6, <1>7

-----------------------------------------------------------------------------
(* The shorts a fixup changes *)

Short == 0..(ShortValues - 1)
Pointers == 0..(ShortValues * ShortValues - 1)
Touched(at, type) == IF type \in {"HIGH", "LOW"} THEN {at} ELSE IF type = "HIGHLOW" THEN {at, at + 1} ELSE {}
Moved(m, at, delta) == (Look!Pointer(m, at) + delta) % (ShortValues * ShortValues)

HighDone(n, m, at, delta, f) ==
  /\ f \in [n -> Short] /\ f[at] = (m[at] + delta \div ShortValues) % ShortValues
  /\ \A a \in n \ {at} : f[a] = m[a]
LowDone(n, m, at, delta, f) ==
  /\ f \in [n -> Short] /\ f[at] = (m[at] + (delta % ShortValues)) % ShortValues
  /\ \A a \in n \ {at} : f[a] = m[a]
HighLowDone(n, m, at, delta, f) ==
  LET p == Moved(m, at, delta) IN
  /\ f \in [n -> Short] /\ f[at] = p % ShortValues /\ f[at + 1] = p \div ShortValues
  /\ \A a \in n \ {at, at + 1} : f[a] = m[a]
  /\ p \in Pointers

LEMMA HighIs ==
  ASSUME NEW n, NEW m \in [n -> Short], NEW at \in n, NEW delta \in Pointers
  PROVE  HighDone(n, m, at, delta, Look!Fixup(m, at, "HIGH", delta))
<1> PICK h : h = ShortValues
  OBVIOUS
<1>1. h \in Nat \ {0}
  BY FixupAssumption
<1> PICK v : v = (m[at] + delta \div ShortValues) % ShortValues
  OBVIOUS
<1>2. v \in Short
  BY <1>1, Divided DEF Short, Pointers
<1>3. Look!Fixup(m, at, "HIGH", delta) = [m EXCEPT ![at] = v]
  BY DEF Look!Fixup
<1> QED
  BY <1>2, <1>3 DEF HighDone

LEMMA LowIs ==
  ASSUME NEW n, NEW m \in [n -> Short], NEW at \in n, NEW delta \in Pointers
  PROVE  LowDone(n, m, at, delta, Look!Fixup(m, at, "LOW", delta))
<1> PICK h : h = ShortValues
  OBVIOUS
<1>1. h \in Nat \ {0}
  BY FixupAssumption
<1> PICK v : v = (m[at] + (delta % ShortValues)) % ShortValues
  OBVIOUS
<1>2. v \in Short
  <2>1. m[at] \in Int
    BY <1>1 DEF Short
  <2>2. delta % h \in Int
    BY <1>1, Divided DEF Pointers
  <2> PICK x : x = m[at] + (delta % h)
    OBVIOUS
  <2>3. x \in Int
    BY <2>1, <2>2
  <2>4. x % h \in 0..(h - 1)
    BY <1>1, <2>3, Divided
  <2> QED
    BY <2>4 DEF Short
<1>3. Look!Fixup(m, at, "LOW", delta) = [m EXCEPT ![at] = v]
  BY DEF Look!Fixup
<1> QED
  BY <1>2, <1>3 DEF LowDone

LEMMA HighLowIs ==
  ASSUME NEW n, NEW m \in [n -> Short], NEW at \in Nat, at \in n, at + 1 \in n, NEW delta \in Pointers
  PROVE  HighLowDone(n, m, at, delta, Look!Fixup(m, at, "HIGHLOW", delta))
<1> PICK h : h = ShortValues
  OBVIOUS
<1>1. h \in Nat \ {0}
  BY FixupAssumption
<1> PICK p : p = Moved(m, at, delta)
  OBVIOUS
<1>2. p \in Pointers
  <2>1. m[at] \in Int /\ m[at + 1] \in Int /\ delta \in Int
    BY <1>1 DEF Short, Pointers
  <2>2. Look!Pointer(m, at) \in Int
    BY <1>1, <2>1 DEF Look!Pointer
  <2> PICK x : x = Look!Pointer(m, at) + delta
    OBVIOUS
  <2> PICK s : s = h * h
    OBVIOUS
  <2>3. x \in Int /\ s \in Nat \ {0}
    BY <1>1, <2>1, <2>2
  <2>4. x % s \in 0..(s - 1)
    BY <2>3, Divided
  <2> QED
    BY <2>4 DEF Moved, Pointers
<1> PICK u : u = p % ShortValues
  OBVIOUS
<1> PICK v : v = p \div ShortValues
  OBVIOUS
<1>3. u \in Short /\ v \in Short
  BY <1>1, <1>2, Joined2 DEF Pointers, Short
<1>4. Look!Fixup(m, at, "HIGHLOW", delta) = [m EXCEPT ![at] = u, ![at + 1] = v]
  BY DEF Look!Fixup, Moved
<1>5. at # at + 1
  OBVIOUS
<1> QED
  BY <1>2, <1>3, <1>4, <1>5 DEF HighLowDone

LEMMA OtherIs ==
  ASSUME NEW m, NEW at, NEW type, NEW delta, type \notin {"HIGH", "LOW", "HIGHLOW"}
  PROVE  Look!Fixup(m, at, type, delta) = m
BY DEF Look!Fixup

\* A fixup keeps the shorts of an image and changes its own only, by their values.
FixupOf(n, m, at, type, delta, f) ==
  /\ f \in [n -> Short]
  /\ \A a \in n \ Touched(at, type) : f[a] = m[a]

LEMMA FixupIs ==
  ASSUME NEW n, NEW m \in [n -> Short], NEW at \in Nat, NEW type, Touched(at, type) \subseteq n, NEW delta \in Pointers
  PROVE  FixupOf(n, m, at, type, delta, Look!Fixup(m, at, type, delta))
BY HighIs, LowIs, HighLowIs, OtherIs DEF Touched, FixupOf, HighDone, LowDone, HighLowDone

\* Of equal shorts it makes equal ones.
LEMMA FixupSame ==
  ASSUME NEW n, NEW m \in [n -> Short], NEW o \in [n -> Short], NEW at \in Nat, NEW type, Touched(at, type) \subseteq n,
         NEW delta \in Pointers, \A a \in Touched(at, type) : m[a] = o[a]
  PROVE  \A a \in Touched(at, type) : Look!Fixup(m, at, type, delta)[a] = Look!Fixup(o, at, type, delta)[a]
BY HighIs, LowIs, HighLowIs DEF Touched, HighDone, LowDone, Moved, Look!Pointer, HighLowDone

\* An image that is where it wants to be is not changed by its fixups.
LEMMA FixupZero ==
  ASSUME NEW n, NEW m \in [n -> Short], NEW at \in Nat, NEW type, Touched(at, type) \subseteq n
  PROVE  \A a \in Touched(at, type) : Look!Fixup(m, at, type, 0)[a] = m[a]
<1> PICK h : h = ShortValues
  OBVIOUS
<1>1. h \in Nat \ {0} /\ \A a \in n : m[a] \in 0..(h - 1)
  BY FixupAssumption DEF Short
<1> PICK f : f = Look!Fixup(m, at, type, 0)
  OBVIOUS
<1>2. 0 \div h = 0 /\ 0 % h = 0 /\ 0 \in Pointers
  BY <1>1, OneWay DEF Pointers
<1>3. ASSUME NEW x \in 0..(h - 1) PROVE (x + 0) % h = x
  <2> PICK y : y = x + 0
    OBVIOUS
  <2>1. y = x
    OBVIOUS
  <2>2. x = 0 * h + x /\ 0 \in Int
    BY <1>1
  <2>3. x % h = x
    BY ONLY <1>1, <2>2, OneWay, x \in 0..(h - 1)
  <2> QED
    BY <2>1, <2>3
<1>4. CASE type = "HIGH"
  BY <1>1, <1>2, <1>3, <1>4, HighIs DEF Touched, HighDone
<1>5. CASE type = "LOW"
  BY <1>1, <1>2, <1>3, <1>5, LowIs DEF Touched, LowDone
<1>6. CASE type = "HIGHLOW"
  <2>1. at \in n /\ at + 1 \in n /\ Touched(at, type) = {at, at + 1}
    BY <1>6 DEF Touched
  <2> PICK p : p = Look!Pointer(m, at)
    OBVIOUS
  <2>2. p \in Pointers /\ p % h = m[at] /\ p \div h = m[at + 1]
    BY <1>1, <2>1, Halves DEF Look!Pointer, Pointers
  <2>3. Moved(m, at, 0) = p
    BY <1>1, <2>2, OneWay DEF Pointers, Moved
  <2>4. f[at] = p % h /\ f[at + 1] = p \div h
    <3>1. HighLowDone(n, m, at, 0, f)
      BY <1>2, <1>6, <2>1, <2>3, HighLowIs
    <3> QED
      BY <1>2, <1>6, <2>1, <2>3, <3>1 DEF HighLowDone
  <2> QED
    BY <2>1, <2>2, <2>4
<1>7. CASE type \notin {"HIGH", "LOW", "HIGHLOW"}
  BY <1>7 DEF Touched
<1> QED
  BY <1>4, <1>5, <1>6, <1>7

-----------------------------------------------------------------------------
(* The fixups of an image *)

Fixes(i) == {x \in Nat \X Nat : x[1] \in 1..Len(i.blocks) /\ x[2] \in 1..Len(i.blocks[x[1]].fixups)}
AtOf(i, x) == i.blocks[x[1]].page + i.blocks[x[1]].fixups[x[2]][1]
TypeOf(i, x) == i.blocks[x[1]].fixups[x[2]][2]
ShortsOf(i, x) == Touched(AtOf(i, x), TypeOf(i, x))
Upto(i, b, k) == {x \in Fixes(i) : x[1] < b \/ (x[1] = b /\ x[2] <= k)}

ImageOK(i) ==
  /\ i.base \in Nat /\ i.memory \in [DOMAIN i.memory -> Short] /\ IsSequence(i.blocks)
  /\ \A b \in 1..Len(i.blocks) : IsSequence(i.blocks[b].fixups)
  /\ \A x \in Fixes(i) : AtOf(i, x) \in Nat /\ ShortsOf(i, x) \subseteq DOMAIN i.memory
  /\ \A x \in Fixes(i) : \A y \in Fixes(i) : x = y \/ ShortsOf(i, x) \cap ShortsOf(i, y) = {}

\* Fixup k of block b is the same as fixup l of block c, or has no short in common with it.
Apart(i, b, k, c, l) ==
  \/ c = b /\ l = k
  \/ Shorts(i.blocks[b], i.blocks[b].fixups[k]) \cap Shorts(i.blocks[c], i.blocks[c].fixups[l]) = {}

LEMMA ImagesTyped == ASSUME NEW i \in ImagesUsed PROVE ImageOK(i)
<1>1. /\ i.base \in Nat /\ i.memory \in Seq(Short) /\ IsSequence(i.blocks)
      /\ \A b \in 1..Len(i.blocks) :
           LET block == i.blocks[b] IN
           /\ block.page \in Nat /\ IsSequence(block.fixups)
           /\ \A k \in 1..Len(block.fixups) :
                /\ block.fixups[k][1] \in Nat /\ Shorts(block, block.fixups[k]) \subseteq DOMAIN i.memory
                /\ \A c \in 1..Len(i.blocks) : \A l \in 1..Len(i.blocks[c].fixups) :
                     <<c, l>> = <<b, k>> \/ Shorts(block, block.fixups[k]) \cap Shorts(i.blocks[c], i.blocks[c].fixups[l]) = {}
  BY FixupAssumption, Zenon DEF Short
<1>2. i.memory \in [DOMAIN i.memory -> Short]
  BY <1>1
<1>3. ASSUME NEW x \in Fixes(i)
      PROVE  ShortsOf(i, x) = Shorts(i.blocks[x[1]], i.blocks[x[1]].fixups[x[2]])
  BY Zenon DEF ShortsOf, Shorts, Touched, AtOf, TypeOf
<1>4. ASSUME NEW x \in Fixes(i) PROVE x[1] \in 1..Len(i.blocks) /\ x[2] \in 1..Len(i.blocks[x[1]].fixups)
  BY DEF Fixes
<1>5. ASSUME NEW x \in Fixes(i) PROVE AtOf(i, x) \in Nat /\ ShortsOf(i, x) \subseteq DOMAIN i.memory
  <2> PICK b : b = x[1]
    OBVIOUS
  <2> PICK k : k = x[2]
    OBVIOUS
  <2>1. b \in 1..Len(i.blocks) /\ k \in 1..Len(i.blocks[b].fixups)
    BY <1>4
  <2>2. i.blocks[b].page \in Nat
    BY <1>1, <2>1, Zenon
  <2>3. i.blocks[b].fixups[k][1] \in Nat /\ Shorts(i.blocks[b], i.blocks[b].fixups[k]) \subseteq DOMAIN i.memory
    BY <1>1, <2>1, Zenon
  <2>4. AtOf(i, x) \in Nat
    BY <2>2, <2>3 DEF AtOf
  <2>5. ShortsOf(i, x) = Shorts(i.blocks[b], i.blocks[b].fixups[k])
    BY <1>3
  <2> QED
    BY <2>3, <2>4, <2>5
<1>6. ASSUME NEW b \in 1..Len(i.blocks), NEW k \in 1..Len(i.blocks[b].fixups),
             NEW c \in 1..Len(i.blocks), NEW l \in 1..Len(i.blocks[c].fixups)
      PROVE  Apart(i, b, k, c, l)
  BY <1>1 DEF Apart
<1>7. ASSUME NEW x \in Fixes(i), NEW y \in Fixes(i) PROVE x = y \/ ShortsOf(i, x) \cap ShortsOf(i, y) = {}
  <2> PICK b : b = x[1]
    OBVIOUS
  <2> PICK k : k = x[2]
    OBVIOUS
  <2> PICK c : c = y[1]
    OBVIOUS
  <2> PICK l : l = y[2]
    OBVIOUS
  <2>1. b \in 1..Len(i.blocks) /\ k \in 1..Len(i.blocks[b].fixups)
    BY <1>4
  <2>2. c \in 1..Len(i.blocks) /\ l \in 1..Len(i.blocks[c].fixups)
    BY <1>4
  <2>3. Apart(i, b, k, c, l)
    BY <1>6, <2>1, <2>2
  <2>4. x = <<b, k>> /\ y = <<c, l>>
    BY DEF Fixes
  <2>5. ShortsOf(i, x) = Shorts(i.blocks[b], i.blocks[b].fixups[k])
    BY <1>3
  <2>6. ShortsOf(i, y) = Shorts(i.blocks[c], i.blocks[c].fixups[l])
    BY <1>3
  <2> QED
    BY <2>3, <2>4, <2>5, <2>6 DEF Apart
<1>8. \A b \in 1..Len(i.blocks) : IsSequence(i.blocks[b].fixups)
  BY <1>1, Zenon
<1> QED
  BY <1>1, <1>2, <1>5, <1>7, <1>8 DEF ImageOK

LEMMA ImagesIndexed == ASSUME NEW i \in ImagesUsed PROVE DOMAIN i.memory \subseteq Nat
BY FixupAssumption

\* The memory m after the fixups S of an image.
Done(i, m, S, delta) ==
  /\ m \in [DOMAIN i.memory -> Short]
  /\ \A x \in S : \A a \in ShortsOf(i, x) : m[a] = Look!Fixup(i.memory, AtOf(i, x), TypeOf(i, x), delta)[a]
  /\ \A a \in DOMAIN i.memory : (\A x \in S : a \notin ShortsOf(i, x)) => m[a] = i.memory[a]

\* One more is done.
LEMMA OneDone ==
  ASSUME NEW i, ImageOK(i), NEW m, NEW S \in SUBSET Fixes(i), NEW delta \in Pointers, Done(i, m, S, delta),
         NEW x \in Fixes(i), x \notin S
  PROVE  Done(i, Look!Fixup(m, AtOf(i, x), TypeOf(i, x), delta), S \cup {x}, delta)
<1> PICK o : o = i.memory
  OBVIOUS
<1> PICK n : n = DOMAIN o
  OBVIOUS
<1> PICK at : at = AtOf(i, x)
  OBVIOUS
<1> PICK type : type = TypeOf(i, x)
  OBVIOUS
<1> PICK f : f = Look!Fixup(m, at, type, delta)
  OBVIOUS
<1>1. m \in [n -> Short] /\ o \in [n -> Short]
  BY DEF Done, ImageOK
<1>2. at \in Nat /\ Touched(at, type) = ShortsOf(i, x) /\ ShortsOf(i, x) \subseteq n
  BY DEF ImageOK, ShortsOf
<1>3. \A y \in S : \A a \in ShortsOf(i, y) : m[a] = Look!Fixup(o, AtOf(i, y), TypeOf(i, y), delta)[a]
  BY DEF Done
<1>4. \A a \in n : (\A y \in S : a \notin ShortsOf(i, y)) => m[a] = o[a]
  BY DEF Done
<1>5. \A y \in S : ShortsOf(i, y) \cap ShortsOf(i, x) = {} /\ ShortsOf(i, y) \subseteq n
  BY DEF ImageOK
<1>6. FixupOf(n, m, at, type, delta, f)
  BY <1>1, <1>2, FixupIs
<1>7. f \in [n -> Short] /\ \A a \in n \ ShortsOf(i, x) : f[a] = m[a]
  BY <1>2, <1>6 DEF FixupOf
<1>8. \A a \in Touched(at, type) : m[a] = o[a]
  BY <1>2, <1>4, <1>5
<1>9. \A a \in ShortsOf(i, x) : f[a] = Look!Fixup(o, at, type, delta)[a]
  BY <1>1, <1>2, <1>8, FixupSame
<1>10. ASSUME NEW y \in S \cup {x}, NEW a \in ShortsOf(i, y)
       PROVE  f[a] = Look!Fixup(o, AtOf(i, y), TypeOf(i, y), delta)[a]
  BY <1>3, <1>5, <1>7, <1>9
<1>11. ASSUME NEW a \in n, \A y \in S \cup {x} : a \notin ShortsOf(i, y) PROVE f[a] = o[a]
  BY <1>11, <1>4, <1>7
<1> QED
  BY <1>7, <1>10, <1>11 DEF Done

LEMMA NextFix ==
  ASSUME NEW i, ImageOK(i), NEW b \in 1..Len(i.blocks), NEW k \in Nat, k + 1 \in 1..Len(i.blocks[b].fixups)
  PROVE  /\ <<b, k + 1>> \in Fixes(i) /\ <<b, k + 1>> \notin Upto(i, b, k)
         /\ Upto(i, b, k) \in SUBSET Fixes(i) /\ Upto(i, b, k + 1) = Upto(i, b, k) \cup {<<b, k + 1>>}
BY DEF Fixes, Upto

LEMMA NextBlock ==
  ASSUME NEW i, ImageOK(i), NEW b \in 1..Len(i.blocks)
  PROVE  Upto(i, b, Len(i.blocks[b].fixups)) = Upto(i, b + 1, 0)
BY DEF Fixes, Upto

\* The memory while a block is fixed up.
BlockRun(i, b, delta, m, f) ==
  LET n == Len(i.blocks[b].fixups) IN
  /\ \A k \in 0..n : f[k] \in [DOMAIN i.memory -> Short]
  /\ f[0] = m /\ Look!FixBlock(m, i.blocks[b], delta) = f[n]
  /\ \A k \in 1..n : f[k] = Look!Fixup(f[k - 1], AtOf(i, <<b, k>>), TypeOf(i, <<b, k>>), delta)

LEMMA BlockRuns ==
  ASSUME NEW i, ImageOK(i), NEW b \in 1..Len(i.blocks), NEW delta \in Pointers, NEW m \in [DOMAIN i.memory -> Short]
  PROVE  \E f : BlockRun(i, b, delta, m, f)
<1> PICK block : block = i.blocks[b]
  OBVIOUS
<1> PICK n : n = Len(block.fixups)
  OBVIOUS
<1>1. n \in Nat
  BY SequenceIs DEF ImageOK
<1> DEFINE D == [DOMAIN i.memory -> Short]
           Fix(k, s) == Look!Fixup(s, block.page + block.fixups[k][1], block.fixups[k][2], delta)
           next == [k \in 1..n |-> [s \in D |-> Fix(k, s)]]
<1>2. ASSUME NEW k \in 1..n, NEW s
      PROVE  Fix(k, s) = Look!Fixup(s, AtOf(i, <<b, k>>), TypeOf(i, <<b, k>>), delta) /\ <<b, k>> \in Fixes(i)
  BY DEF AtOf, TypeOf, Fixes
<1>3. ASSUME NEW k \in 1..n, NEW s \in D PROVE Fix(k, s) \in D
  <2> PICK at : at = AtOf(i, <<b, k>>)
    OBVIOUS
  <2> PICK type : type = TypeOf(i, <<b, k>>)
    OBVIOUS
  <2>1. Fix(k, s) = Look!Fixup(s, at, type, delta) /\ <<b, k>> \in Fixes(i)
    BY <1>2
  <2>2. at \in Nat /\ Touched(at, type) \subseteq DOMAIN i.memory
    BY <2>1 DEF ImageOK, ShortsOf
  <2>3. FixupOf(DOMAIN i.memory, s, at, type, delta, Look!Fixup(s, at, type, delta))
    BY <2>2, FixupIs
  <2> QED
    BY <2>1, <2>3 DEF FixupOf
<1>4. m \in D
  OBVIOUS
<1> HIDE DEF Fix, D
<1>5. PICK g : Made(g, n, D, m, next)
  <2>1. Steps(next, n, D)
    BY <1>3 DEF Steps
  <2> HIDE DEF next
  <2> QED
    BY <1>1, <1>4, <2>1, StepsExist
<1>6. g \in [0..n -> D] /\ g[0] = m /\ \A k \in 1..n : g[k] = Fix(k, g[k - 1])
  <2>1. g \in [0..n -> D] /\ g[0] = m /\ \A k \in 1..n : g[k] = next[k][g[k - 1]]
    BY <1>5 DEF Made
  <2>2. ASSUME NEW k \in 1..n PROVE g[k] = Fix(k, g[k - 1])
    <3>1. k - 1 \in 0..n
      BY <1>1
    <3>2. g[k - 1] \in D
      BY <2>1, <3>1
    <3> QED
      BY <2>1, <3>2
  <2> QED
    BY <2>1, <2>2
<1> HIDE DEF next
<1>7. g = [k \in 0..n |-> IF k = 0 THEN m ELSE Fix(k, g[k - 1])]
  BY <1>1, <1>6
<1>8. PICK f : f = [k \in 0..n |-> IF k = 0 THEN m ELSE Fix(k, f[k - 1])] /\ Look!FixBlock(m, block, delta) = f[n]
  <2> DEFINE e == CHOOSE f : f = [k \in 0..Len(block.fixups) |-> IF k = 0 THEN m ELSE
                       Look!Fixup(f[k - 1], block.page + block.fixups[k][1], block.fixups[k][2], delta)]
  <2>1. Look!FixBlock(m, block, delta) = e[Len(block.fixups)]
    BY Zenon DEF Look!FixBlock
  <2>2. e = [k \in 0..Len(block.fixups) |-> IF k = 0 THEN m ELSE
               Look!Fixup(e[k - 1], block.page + block.fixups[k][1], block.fixups[k][2], delta)]
    BY <1>7 DEF Fix
  <2> HIDE DEF e
  <2>3. e = [k \in 0..n |-> IF k = 0 THEN m ELSE Fix(k, e[k - 1])]
    BY <2>2 DEF Fix
  <2> QED
    BY <2>1, <2>3, Zenon
<1>9. f[0] = m /\ \A k \in 1..n : f[k] = Fix(k, f[k - 1])
  <2>1. 0 \in 0..n /\ \A k \in 1..n : k \in 0..n /\ k # 0
    BY <1>1
  <2>2. f[0] = m
    BY <1>8, <2>1, Zenon
  <2>3. \A k \in 1..n : f[k] = Fix(k, f[k - 1])
    BY <1>8, <2>1, Zenon
  <2> QED
    BY <2>2, <2>3
<1> DEFINE T == {k \in 0..n : f[k] \in D}
<1>10. 0 \in T
  BY <1>1, <1>4, <1>9
<1>11. ASSUME NEW k \in 0..(n - 1), k \in T PROVE k + 1 \in T
  BY <1>1, <1>11, <1>3, <1>9
<1>12. \A k \in 0..n : f[k] \in D
  <2> HIDE DEF T
  <2>1. \A k \in 0..n : k \in T
    BY <1>1, <1>10, <1>11, UpTo
  <2> QED
    BY <2>1 DEF T
<1>13. \A k \in 1..n : f[k] = Look!Fixup(f[k - 1], AtOf(i, <<b, k>>), TypeOf(i, <<b, k>>), delta)
  BY <1>2, <1>9
<1>14. BlockRun(i, b, delta, m, f)
  BY <1>8, <1>9, <1>12, <1>13 DEF BlockRun, D
<1> QED
  BY <1>14

LEMMA BlockTyped ==
  ASSUME NEW i, ImageOK(i), NEW b \in 1..Len(i.blocks), NEW delta \in Pointers, NEW m \in [DOMAIN i.memory -> Short]
  PROVE  Look!FixBlock(m, i.blocks[b], delta) \in [DOMAIN i.memory -> Short]
<1>1. PICK f : BlockRun(i, b, delta, m, f)
  BY BlockRuns
<1> PICK n : n = Len(i.blocks[b].fixups)
  OBVIOUS
<1>2. n \in 0..n
  BY SequenceIs DEF ImageOK
<1> QED
  BY <1>1, <1>2 DEF BlockRun

\* One more block is.
LEMMA BlockDone ==
  ASSUME NEW i, ImageOK(i), NEW b \in 1..Len(i.blocks), NEW delta \in Pointers, NEW m, Done(i, m, Upto(i, b, 0), delta)
  PROVE  Done(i, Look!FixBlock(m, i.blocks[b], delta), Upto(i, b + 1, 0), delta)
<1> PICK block : block = i.blocks[b]
  OBVIOUS
<1> PICK n : n = Len(block.fixups)
  OBVIOUS
<1>1. n \in Nat
  BY SequenceIs DEF ImageOK
<1>2. m \in [DOMAIN i.memory -> Short]
  BY DEF Done
<1>3. PICK f : BlockRun(i, b, delta, m, f)
  BY <1>2, BlockRuns
<1>8. f[0] = m /\ Look!FixBlock(m, block, delta) = f[n]
  BY <1>3 DEF BlockRun
<1>9. \A k \in 1..n : f[k] = Look!Fixup(f[k - 1], AtOf(i, <<b, k>>), TypeOf(i, <<b, k>>), delta)
  BY <1>3 DEF BlockRun
<1> DEFINE P == {k \in 0..n : Done(i, f[k], Upto(i, b, k), delta)}
<1>10. 0 \in P
  BY <1>1, <1>8
<1>11. ASSUME NEW k \in 0..(n - 1), k \in P PROVE k + 1 \in P
  <2>1. k + 1 \in 1..n /\ k + 1 \in 0..n /\ (k + 1) - 1 = k /\ k \in Nat
    BY <1>1
  <2> PICK x : x = <<b, k + 1>>
    OBVIOUS
  <2>2. f[k + 1] = Look!Fixup(f[k], AtOf(i, x), TypeOf(i, x), delta)
    BY <1>9, <2>1
  <2>3. /\ x \in Fixes(i) /\ x \notin Upto(i, b, k)
        /\ Upto(i, b, k) \in SUBSET Fixes(i) /\ Upto(i, b, k + 1) = Upto(i, b, k) \cup {x}
    BY <2>1, NextFix
  <2>4. Done(i, f[k], Upto(i, b, k), delta)
    BY <1>11
  <2>5. Done(i, f[k + 1], Upto(i, b, k) \cup {x}, delta)
    BY <2>2, <2>3, <2>4, OneDone
  <2> QED
    BY <2>1, <2>3, <2>5
<1>12. Done(i, f[n], Upto(i, b, n), delta)
  <2> HIDE DEF P
  <2>1. \A k \in 0..n : k \in P
    BY <1>1, <1>10, <1>11, UpTo
  <2>2. n \in P
    BY <1>1, <2>1
  <2> QED
    BY <2>2 DEF P
<1>13. Upto(i, b, n) = Upto(i, b + 1, 0)
  BY NextBlock
<1> QED
  BY <1>8, <1>12, <1>13

\* The blocks that count are the first ones.
UsedOf(i, u) == Len(Look!Used(i.blocks)) = u /\ \A b \in 1..u : Look!Used(i.blocks)[b] = i.blocks[b]

LEMMA UsedIs ==
  ASSUME NEW i, IsSequence(i.blocks)
  PROVE  \E u \in 0..Len(i.blocks) : UsedOf(i, u)
<1> PICK s : s = i.blocks
  OBVIOUS
<1> PICK S : S = {s[k] : k \in DOMAIN s}
  OBVIOUS
<1>1. s \in Seq(S) /\ Len(s) \in Nat
  BY DEF IsSequence
<1> DEFINE ends == {k \in 1..Len(s) : s[k].page = 0}
<1>2. CASE ends = {}
  BY <1>1, <1>2 DEF Look!Used, UsedOf
<1>3. CASE ends # {}
  <2>1. ends \in SUBSET Nat
    OBVIOUS
  <2>2. \E k \in ends : \A j \in ends : k <= j
    BY <1>3, <2>1, LeastOf
  <2> DEFINE e == CHOOSE k \in ends : \A j \in ends : k <= j
  <2>3. e \in ends
    BY <2>2
  <2>4. Look!Used(s) = SubSeq(s, 1, e - 1)
    BY <1>3 DEF Look!Used
  <2>5. e \in 1..Len(s)
    BY <2>3
  <2> HIDE DEF e, ends
  <2> PICK u : u = e - 1
    OBVIOUS
  <2>6. u \in 0..Len(s)
    BY <1>1, <2>5
  <2>7. Len(SubSeq(s, 1, u)) = u /\ \A k \in 1..u : SubSeq(s, 1, u)[k] = s[k]
    BY ONLY <1>1, <2>6, PrefixIs
  <2>8. UsedOf(i, u)
    BY <2>4, <2>7 DEF UsedOf
  <2> QED
    BY <2>6, <2>8
<1> QED
  BY <1>2, <1>3

\* Nothing is done at first.
LEMMA NoneDone ==
  ASSUME NEW i, ImageOK(i), NEW delta
  PROVE  Done(i, i.memory, Upto(i, 1, 0), delta)
BY DEF Fixes, Upto, Done, ImageOK

\* With no distance to move, whatever is done changes nothing.
LEMMA ZeroDone ==
  ASSUME NEW i, ImageOK(i), NEW S \in SUBSET Fixes(i)
  PROVE  Done(i, i.memory, S, 0)
BY FixupZero DEF ImageOK, ShortsOf, Done

LEMMA Relocated ==
  ASSUME NEW i, ImageOK(i), NEW load_addr \in Int, NEW u \in 0..Len(i.blocks), UsedOf(i, u)
  PROVE  LET delta == Look!Delta(i, load_addr) IN
         delta \in Pointers /\ Done(i, Look!do_relocations(i, load_addr), Upto(i, u + 1, 0), delta)
<1> PICK delta : delta = Look!Delta(i, load_addr)
  OBVIOUS
<1>1. delta \in Pointers
  <2> PICK x : x = load_addr - i.base
    OBVIOUS
  <2> PICK s : s = ShortValues * ShortValues
    OBVIOUS
  <2>1. x \in Int /\ s \in Nat \ {0}
    BY FixupAssumption DEF ImageOK
  <2>2. x % s \in 0..(s - 1)
    BY <2>1, Divided
  <2> QED
    BY <2>2 DEF Look!Delta, Pointers
<1>2. u \in Nat /\ Len(i.blocks) \in Nat
  BY SequenceIs DEF ImageOK
<1>3. CASE delta = 0
  BY <1>1, <1>3, ZeroDone DEF Look!do_relocations, Upto
<1>4. CASE delta # 0
  <2> PICK used : used = Look!Used(i.blocks)
    OBVIOUS
  <2>1. Len(used) = u /\ \A b \in 1..u : used[b] = i.blocks[b]
    BY DEF UsedOf
  <2> DEFINE D == [DOMAIN i.memory -> Short]
             Fix(b, s) == Look!FixBlock(s, used[b], delta)
             next == [b \in 1..u |-> [s \in D |-> Fix(b, s)]]
  <2>2. ASSUME NEW b \in 1..u PROVE b \in 1..Len(i.blocks) /\ used[b] = i.blocks[b]
    BY <1>2, <2>1
  <2>3. ASSUME NEW b \in 1..u, NEW s \in D PROVE Fix(b, s) \in D
    BY <1>1, <2>2, BlockTyped
  <2>4. i.memory \in D
    BY DEF ImageOK
  <2> HIDE DEF Fix, D
  <2>5. PICK g : Made(g, u, D, i.memory, next)
    <3>1. Steps(next, u, D)
      BY <2>3 DEF Steps
    <3> HIDE DEF next
    <3> QED
      BY <1>2, <2>4, <3>1, StepsExist
  <2>6. g \in [0..u -> D] /\ g[0] = i.memory /\ \A b \in 1..u : g[b] = Fix(b, g[b - 1])
    <3>1. g \in [0..u -> D] /\ g[0] = i.memory /\ \A b \in 1..u : g[b] = next[b][g[b - 1]]
      BY <2>5 DEF Made
    <3>2. ASSUME NEW b \in 1..u PROVE g[b] = Fix(b, g[b - 1])
      <4>1. b - 1 \in 0..u
        BY <1>2
      <4>2. g[b - 1] \in D
        BY <3>1, <4>1
      <4> QED
        BY <3>1, <4>2
    <3> QED
      BY <3>1, <3>2
  <2> HIDE DEF next
  <2>7. g = [b \in 0..u |-> IF b = 0 THEN i.memory ELSE Fix(b, g[b - 1])]
    BY <1>2, <2>6
  <2>8. PICK f : f = [b \in 0..u |-> IF b = 0 THEN i.memory ELSE Fix(b, f[b - 1])] /\ Look!do_relocations(i, load_addr) = f[u]
    <3> DEFINE e == CHOOSE f : f = [b \in 0..Len(Look!Used(i.blocks)) |-> IF b = 0 THEN i.memory ELSE
                         Look!FixBlock(f[b - 1], Look!Used(i.blocks)[b], Look!Delta(i, load_addr))]
    <3>1. Look!do_relocations(i, load_addr) = e[Len(Look!Used(i.blocks))]
      BY <1>4, Zenon DEF Look!do_relocations
    <3>2. e = [b \in 0..Len(Look!Used(i.blocks)) |-> IF b = 0 THEN i.memory ELSE
                 Look!FixBlock(e[b - 1], Look!Used(i.blocks)[b], Look!Delta(i, load_addr))]
      <4>1. g = [b \in 0..Len(Look!Used(i.blocks)) |-> IF b = 0 THEN i.memory ELSE
                 Look!FixBlock(g[b - 1], Look!Used(i.blocks)[b], Look!Delta(i, load_addr))]
        BY <2>1, <2>7 DEF Fix
      <4> QED
        BY <4>1, Zenon
    <3> HIDE DEF e
    <3>3. e = [b \in 0..u |-> IF b = 0 THEN i.memory ELSE Fix(b, e[b - 1])]
      BY <2>1, <3>2 DEF Fix
    <3> QED
      BY <2>1, <3>1, <3>3, Zenon
  <2>9. f[0] = i.memory /\ \A b \in 1..u : f[b] = Fix(b, f[b - 1])
    BY <1>2, <2>8
  <2> DEFINE P == {b \in 0..u : Done(i, f[b], Upto(i, b + 1, 0), delta)}
  <2>10. 0 \in P
    BY <1>2, <2>9, NoneDone
  <2>11. ASSUME NEW b \in 0..(u - 1), b \in P PROVE b + 1 \in P
    BY <1>1, <1>2, <2>11, <2>2, <2>9, BlockDone DEF Fix
  <2>12. Done(i, f[u], Upto(i, u + 1, 0), delta)
    <3> HIDE DEF P
    <3>1. \A b \in 0..u : b \in P
      BY <1>2, <2>10, <2>11, UpTo
    <3>2. u \in P
      BY <1>2, <3>1
    <3> QED
      BY <3>2 DEF P
  <2>13. Look!do_relocations(i, load_addr) = f[u]
    BY <2>8, Zenon
  <2> QED
    BY <1>1, <2>12, <2>13
<1> QED
  BY <1>1, <1>3, <1>4

\* The types of the fixups of a short, and the fixups they are of.
TypesOf(image, at) ==
  UNION {{f[2] : f \in {g \in Look!Elements(b.fixups) : b.page + g[1] = at}} : b \in Look!Elements(Look!Used(image.blocks))}
Fixed(i, u, at, t) == \E x \in Upto(i, u + 1, 0) : AtOf(i, x) = at /\ TypeOf(i, x) = t

LEMMA TypesAre ==
  ASSUME NEW i, ImageOK(i), NEW u \in 0..Len(i.blocks), UsedOf(i, u), NEW at, NEW t
  PROVE  t \in TypesOf(i, at) <=> Fixed(i, u, at, t)
<1>1. u \in Nat /\ Len(i.blocks) \in Nat
  BY SequenceIs DEF ImageOK
<1>2. ASSUME t \in TypesOf(i, at) PROVE Fixed(i, u, at, t)
  <2> PICK b \in Look!Elements(Look!Used(i.blocks)) : t \in {f[2] : f \in {g \in Look!Elements(b.fixups) : b.page + g[1] = at}}
    BY <1>2 DEF TypesOf
  <2> PICK f \in Look!Elements(b.fixups) : b.page + f[1] = at /\ f[2] = t
    OBVIOUS
  <2> PICK c \in 1..u : b = i.blocks[c]
    BY DEF Look!Elements, UsedOf
  <2> PICK l \in 1..Len(b.fixups) : f = b.fixups[l]
    BY DEF Look!Elements
  <2> PICK x : x = <<c, l>>
    OBVIOUS
  <2>1. x \in Nat \X Nat /\ x[1] = c /\ x[2] = l
    BY <1>1
  <2>2. c \in 1..Len(i.blocks) /\ c < u + 1
    BY <1>1
  <2>3. x \in Upto(i, u + 1, 0)
    BY <2>1, <2>2 DEF Upto, Fixes
  <2>4. AtOf(i, x) = at /\ TypeOf(i, x) = t
    BY <2>1 DEF AtOf, TypeOf
  <2> QED
    BY <2>3, <2>4 DEF Fixed
<1>3. ASSUME Fixed(i, u, at, t) PROVE t \in TypesOf(i, at)
  <2> PICK x \in Upto(i, u + 1, 0) : AtOf(i, x) = at /\ TypeOf(i, x) = t
    BY <1>3 DEF Fixed
  <2> PICK c : c = x[1]
    OBVIOUS
  <2> PICK l : l = x[2]
    OBVIOUS
  <2>1. c \in 1..Len(i.blocks) /\ l \in 1..Len(i.blocks[c].fixups) /\ (c < u + 1 \/ (c = u + 1 /\ l <= 0))
    BY DEF Upto, Fixes
  <2>2. c \in 1..u
    BY <1>1, <2>1
  <2> PICK b : b = i.blocks[c]
    OBVIOUS
  <2> PICK f : f = b.fixups[l]
    OBVIOUS
  <2>3. b \in Look!Elements(Look!Used(i.blocks))
    BY <2>2 DEF Look!Elements, UsedOf
  <2>4. f \in Look!Elements(b.fixups)
    BY <2>1 DEF Look!Elements
  <2>5. b.page + f[1] = at /\ f[2] = t
    BY DEF AtOf, TypeOf
  <2>6. t \in {h[2] : h \in {g \in Look!Elements(b.fixups) : b.page + g[1] = at}}
    BY <2>4, <2>5
  <2> QED
    BY <2>3, <2>6 DEF TypesOf
<1> QED
  BY <1>2, <1>3

\* A fixup of two shorts moves the pointer that they are.
LEMMA WholeMoved ==
  ASSUME NEW i, ImageOK(i), NEW S \in SUBSET Fixes(i), NEW delta \in Pointers, NEW m, Done(i, m, S, delta),
         NEW x \in S, TypeOf(i, x) = "HIGHLOW"
  PROVE  Look!Pointer(m, AtOf(i, x)) = Moved(i.memory, AtOf(i, x), delta)
<1> PICK h : h = ShortValues
  OBVIOUS
<1> PICK at : at = AtOf(i, x)
  OBVIOUS
<1> PICK o : o = i.memory
  OBVIOUS
<1> PICK p : p = Moved(o, at, delta)
  OBVIOUS
<1> PICK f : f = Look!Fixup(o, at, "HIGHLOW", delta)
  OBVIOUS
<1>1. h \in Nat \ {0}
  BY FixupAssumption
<1>2. ShortsOf(i, x) = {at, at + 1}
  BY DEF ShortsOf, Touched
<1>3. at \in Nat /\ at \in DOMAIN o /\ at + 1 \in DOMAIN o /\ o \in [DOMAIN o -> Short]
  BY <1>2 DEF ImageOK
<1>4. HighLowDone(DOMAIN o, o, at, delta, f)
  BY <1>3, HighLowIs
<1>5. p \in Pointers /\ f[at] = p % h /\ f[at + 1] = p \div h
  BY <1>4 DEF HighLowDone
<1>6. m[at] = f[at] /\ m[at + 1] = f[at + 1]
  BY <1>2 DEF Done
<1>7. p = (p % h) + h * (p \div h)
  BY <1>1, <1>5, Joined2 DEF Pointers
<1> QED
  BY <1>5, <1>6, <1>7 DEF Look!Pointer

\* Two fixups of one short each move it too, unless there is a carry.
LEMMA HalvesMoved ==
  ASSUME NEW i, ImageOK(i), NEW S \in SUBSET Fixes(i), NEW delta \in Pointers, NEW m, Done(i, m, S, delta),
         NEW x \in S, TypeOf(i, x) = "LOW", NEW y \in S, TypeOf(i, y) = "HIGH", AtOf(i, y) = AtOf(i, x) + 1
  PROVE  (Look!Pointer(m, AtOf(i, x)) = Moved(i.memory, AtOf(i, x), delta))
         <=> i.memory[AtOf(i, x)] + (delta % ShortValues) < ShortValues
<1> PICK h : h = ShortValues
  OBVIOUS
<1> PICK at : at = AtOf(i, x)
  OBVIOUS
<1> PICK o : o = i.memory
  OBVIOUS
<1> PICK low : low = o[at]
  OBVIOUS
<1> PICK high : high = o[at + 1]
  OBVIOUS
<1>1. h \in Nat \ {0}
  BY FixupAssumption
<1>2. ShortsOf(i, x) = {at} /\ ShortsOf(i, y) = {at + 1}
  BY DEF ShortsOf, Touched
<1>3. at \in DOMAIN o /\ at + 1 \in DOMAIN o /\ o \in [DOMAIN o -> Short]
  BY <1>2 DEF ImageOK
<1>4. low \in 0..(h - 1) /\ high \in 0..(h - 1)
  BY <1>3 DEF Short
<1>5. m[at] = (low + (delta % h)) % h
  <2>1. LowDone(DOMAIN o, o, at, delta, Look!Fixup(o, at, "LOW", delta))
    BY <1>3, LowIs
  <2>2. m[at] = Look!Fixup(o, at, "LOW", delta)[at]
    BY <1>2 DEF Done
  <2> QED
    BY <2>1, <2>2 DEF LowDone
<1>6. m[at + 1] = (high + delta \div h) % h
  BY <1>2, <1>3, HighIs DEF Done, HighDone
<1>7. Look!Pointer(m, at) = ((low + (delta % h)) % h) + h * ((high + delta \div h) % h)
  BY <1>5, <1>6 DEF Look!Pointer
<1>8. Moved(o, at, delta) = ((low + h * high) + delta) % (h * h)
  BY DEF Moved, Look!Pointer
<1>9. (((low + (delta % h)) % h) + h * ((high + delta \div h) % h) = ((low + h * high) + delta) % (h * h))
        <=> low + (delta % h) < h
  <2>1. delta \in 0..(h * h - 1)
    BY DEF Pointers
  <2>2. CarryOnly(h, low, high, delta)
    BY <1>1, <1>4, <2>1, ByHalves
  <2> QED
    BY <2>2 DEF CarryOnly
<1> QED
  BY <1>7, <1>8, <1>9

\* What has no fixup is as it was.
StaysAt(i, m, at) == m[at] = i.memory[at]
Padding(i, u, at) == \A t : Fixed(i, u, at, t) => t = "ABSOLUTE"

LEMMA RestKept ==
  ASSUME NEW i, ImageOK(i), NEW u, NEW S, S = Upto(i, u + 1, 0), NEW delta, NEW m, Done(i, m, S, delta),
         NEW at \in DOMAIN i.memory, at \in Nat,
         Padding(i, u, at), ~Fixed(i, u, at - 1, "HIGHLOW")
  PROVE  StaysAt(i, m, at)
<1>1. ASSUME NEW x \in S, at \in ShortsOf(i, x) PROVE FALSE
  <2> PICK b : b = AtOf(i, x)
    OBVIOUS
  <2> PICK t : t = TypeOf(i, x)
    OBVIOUS
  <2>1. Fixed(i, u, b, t)
    BY DEF Fixed
  <2>2. b \in Nat
    BY DEF ImageOK, Upto
  <2>3. at \in Touched(b, t)
    BY <1>1 DEF ShortsOf
  <2>4. CASE at = b
    BY <2>1, <2>3, <2>4 DEF Padding, Touched
  <2>5. CASE at # b
    BY <2>1, <2>2, <2>3, <2>5 DEF Touched
  <2> QED
    BY <2>4, <2>5
<1> QED
  BY <1>1 DEF Done, StaysAt

RelocationTold(image, load_addr) ==
  LET moved == Look!do_relocations(image, load_addr)
      delta == Look!Delta(image, load_addr)
      types(at) == UNION {{f[2] : f \in {g \in Look!Elements(b.fixups) : b.page + g[1] = at}} : b \in Look!Elements(Look!Used(image.blocks))}
      right(at) == Look!Pointer(moved, at) = (Look!Pointer(image.memory, at) + delta) % (ShortValues * ShortValues) IN
  \A at \in DOMAIN image.memory :
    /\ "HIGHLOW" \in types(at) => right(at)
    /\ "LOW" \in types(at) /\ "HIGH" \in types(at + 1) =>
         (right(at) <=> image.memory[at] + (delta % ShortValues) < ShortValues)
    /\ types(at) \subseteq {"ABSOLUTE"} /\ "HIGHLOW" \notin types(at - 1) => moved[at] = image.memory[at]

LEMMA RelocationsAgreed == Look!RelocationsAgree(ImagesUsed)
<1> SUFFICES ASSUME NEW image \in ImagesUsed, NEW load_addr \in 0..(ShortValues * ShortValues - 1)
             PROVE  RelocationTold(image, load_addr)
  BY Zenon DEF Look!RelocationsAgree, RelocationTold
<1>1. ImageOK(image)
  BY ImagesTyped
<1>2. load_addr \in Int
  BY FixupAssumption
<1> PICK u \in 0..Len(image.blocks) : UsedOf(image, u)
  BY <1>1, UsedIs DEF ImageOK
<1> PICK m : m = Look!do_relocations(image, load_addr)
  OBVIOUS
<1> PICK d : d = Look!Delta(image, load_addr)
  OBVIOUS
<1> PICK S : S = Upto(image, u + 1, 0)
  OBVIOUS
<1>3. d \in Pointers /\ Done(image, m, S, d) /\ S \in SUBSET Fixes(image)
  BY <1>1, <1>2, Relocated DEF Upto
<1>4. ASSUME NEW at \in DOMAIN image.memory
      PROVE  /\ "HIGHLOW" \in TypesOf(image, at) => Look!Pointer(m, at) = Moved(image.memory, at, d)
             /\ "LOW" \in TypesOf(image, at) /\ "HIGH" \in TypesOf(image, at + 1) =>
                  ((Look!Pointer(m, at) = Moved(image.memory, at, d)) <=> image.memory[at] + (d % ShortValues) < ShortValues)
             /\ TypesOf(image, at) \subseteq {"ABSOLUTE"} /\ "HIGHLOW" \notin TypesOf(image, at - 1) => m[at] = image.memory[at]
  <2>1. ASSUME NEW b, NEW t PROVE t \in TypesOf(image, b) <=> Fixed(image, u, b, t)
    BY <1>1, TypesAre
  <2>2. ASSUME "HIGHLOW" \in TypesOf(image, at)
        PROVE  Look!Pointer(m, at) = Moved(image.memory, at, d)
    BY <1>1, <1>3, <2>1, <2>2, WholeMoved DEF Fixed
  <2>3. ASSUME "LOW" \in TypesOf(image, at), "HIGH" \in TypesOf(image, at + 1)
        PROVE  (Look!Pointer(m, at) = Moved(image.memory, at, d)) <=> image.memory[at] + (d % ShortValues) < ShortValues
    BY <1>1, <1>3, <2>1, <2>3, HalvesMoved DEF Fixed
  <2>4. ASSUME TypesOf(image, at) \subseteq {"ABSOLUTE"}, "HIGHLOW" \notin TypesOf(image, at - 1)
        PROVE  m[at] = image.memory[at]
    <3>1. at \in Nat
      BY ImagesIndexed
    <3>2. Padding(image, u, at)
      BY <2>1, <2>4 DEF Padding
    <3>3. ~Fixed(image, u, at - 1, "HIGHLOW")
      BY <2>1, <2>4
    <3>4. StaysAt(image, m, at)
      BY <1>1, <1>3, <3>1, <3>2, <3>3, RestKept
    <3> QED
      BY <3>4 DEF StaysAt
  <2> QED
    BY <2>2, <2>3, <2>4
<1>5. \A at \in DOMAIN image.memory :
        /\ "HIGHLOW" \in TypesOf(image, at) => Look!Pointer(m, at) = Moved(image.memory, at, d)
        /\ "LOW" \in TypesOf(image, at) /\ "HIGH" \in TypesOf(image, at + 1) =>
             ((Look!Pointer(m, at) = Moved(image.memory, at, d)) <=> image.memory[at] + (d % ShortValues) < ShortValues)
        /\ TypesOf(image, at) \subseteq {"ABSOLUTE"} /\ "HIGHLOW" \notin TypesOf(image, at - 1) => m[at] = image.memory[at]
  BY <1>4, Zenon
<1> QED
  BY <1>5, Zenon DEF RelocationTold, TypesOf, Moved

-----------------------------------------------------------------------------
(* The parts together *)

LookupsIInv == NamesIInv /\ CpuIInv /\ ClockIInv

\* The invariants hold at first, whichever part runs,
LEMMA LookupsInit == AnyInit => LookupsIInv
BY NamesInit, CpuInit, ClockInit DEF AnyInit, LookupsIInv

\* and a step is one of each part or leaves it alone.
LEMMA LookupsNext == LookupsIInv /\ [AnyNext]_<<part, vars, stubVars, acmVars, regVars, nameVars, cpuVars, timeVars>> => LookupsIInv'
<1> SUFFICES ASSUME LookupsIInv, [AnyNext]_<<part, vars, stubVars, acmVars, regVars, nameVars, cpuVars, timeVars>>
             PROVE  LookupsIInv'
  OBVIOUS
<1>1. [Names!Next]_nameVars /\ [System!Next]_cpuVars /\ [Clock!Next]_timeVars
  BY DEF AnyNext, MemoryNext, ImportsNext, DriversNext, RegistryNext, NamesNext, SystemNext, ClockNext
<1> QED
  BY <1>1, NamesStep, CpuStep, ClockStep DEF LookupsIInv

\* pe_image.c, pe_resource.c, resource.c, module.c, win32.c: whatever the tables, an export is
\* found wherever its name stands, a resource or string wherever it stands in its
\* directory, every import is filled and every pointer of an image moves with it unless its
\* halves carry; a handle of a library is that of its name however it was asked for; and
\* the features and the frequency that are told are those the processor's file shows.
THEOREM LookupsAgreeAlways == AnySpec => []LookupsAgree
<1>1. ASSUME LookupsIInv PROVE LookupsAgree
  <2>1. /\ Look!ExportsAgree(TablesUsed, TableOfModule)
        /\ Look!ResourcesAgree(RootsUsed)
        /\ Look!DataAgree(RootOfModule, IdsAsked, IdsAsked)
        /\ Look!StringsAgree(RootsUsed, StringsAsked, RoomUsed)
        /\ Look!RelocationsAgree(ImagesUsed)
        /\ Stubs!ImportsAll
    BY ExportsFound, ResourcesAgreed, DataAgreed, StringsAgreed, RelocationsAgreed, ImportsAgreed
  <2>2. Names!HandlesAgree
    BY <1>1, NamesGoal DEF LookupsIInv
  <2>3. System!FeaturesTold
    BY <1>1, CpuGoal DEF LookupsIInv
  <2>4. Clock!ClockTells
    BY <1>1, ClockGoal DEF LookupsIInv
  <2> QED
    BY <2>1, <2>2, <2>3, <2>4 DEF LookupsAgree
<1>2. LookupsIInv => LookupsAgree
  BY <1>1
<1> QED
  BY <1>2, LookupsInit, LookupsNext, PTL DEF AnySpec
=============================================================================

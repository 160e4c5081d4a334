---------------------------- MODULE DshowProofs ----------------------------
(***************************************************************************)
(* Theorems about the parts below the elements that only the streaming     *)
(* thread uses (MCDshow), for any number of samples, images, buffers,      *)
(* references and frames, and for any types and formats that a codec       *)
(* offers.                                                                 *)
(*                                                                         *)
(* Each part has an inductive invariant of its own.  The allocator's rests *)
(* on the shape of its rings: a ring has one reachable node or none, and   *)
(* only one of the two has one.  Those of the filters say what is held at  *)
(* each place of the lists of calls by which a codec is opened and closed. *)
(***************************************************************************)
EXTENDS MCDshow, SequenceTheorems, WellFoundedInduction, NaturalsInduction, TLAPS


-----------------------------------------------------------------------------
(* The memory allocator *)

Single(r) == r.head # None => r.next[r.head] = r.head
Heads == {free_list.head, used_list.head} \ {None}

\* Which samples the rings hold.
Shape ==
  /\ Single(free_list) /\ Single(used_list)
  /\ free_list.head = None \/ used_list.head = None
  /\ lost \subseteq samples /\ samples \ lost = Heads /\ Heads \cap lost = {}
  /\ ~alive => busy = "no" /\ Heads = {}
  /\ busy = "commit" => used_list.head = None
  /\ image # None => alive /\ busy # "decommit"

\* Who refers to them.
Counts ==
  /\ used_list.head # None => refcount[used_list.head] > 0
  /\ free_list.head # None /\ busy # "decommit" => refcount[free_list.head] = 0
  /\ \A s \in lost : refcount[s] = 0
  /\ careful => \A s \in Sample : refcount[s] > 0 => s \in samples
  /\ careful /\ modified_sample # None => refcount[modified_sample] > 0

\* Where they lead to.
Blocks ==
  /\ \A s \in samples : block[s] # None => modified_sample = s
  /\ \A s \in lost : block[s] = None
  /\ free_list.head # None /\ busy # "decommit" => block[free_list.head] = None
  /\ image # None => /\ new_pointer \in {None, image}
                     /\ \A s \in lent \cap samples : block[s] \in {None, image}

IInv == TypeOK /\ Shape /\ Counts /\ Blocks

-----------------------------------------------------------------------------
(* The rings *)

\* avm_list_find meets one node, the head, or none.
LEMMA MembersOfSingle ==
  ASSUME NEW r \in Ring, Single(r)
  PROVE  Members(r) = {r.head} \ {None}
<1>1. CASE r.head = None
  BY <1>1 DEF Members
<1>2. CASE r.head # None
  <2>1. r.head \in Sample /\ r.next[r.head] = r.head
    BY <1>2 DEF Ring, OptSample, Single
  <2>2. ASSUME NEW s \in Members(r) PROVE s = r.head
    <3>1. \A C \in SUBSET Sample :
            r.head \in C /\ (\A x \in C : r.next[x] \in Sample => r.next[x] \in C) => s \in C
      BY <1>2 DEF Members
    <3>2. {r.head} \in SUBSET Sample /\ \A x \in {r.head} : r.next[x] \in {r.head}
      BY <2>1
    <3> QED
      BY <3>1, <3>2
  <2>3. r.head \in Members(r)
    BY <1>2, <2>1 DEF Members
  <2> QED
    BY <1>2, <2>2, <2>3
<1> QED
  BY <1>1, <1>2

\* A node added at the tail becomes the head of an empty ring and else is out of
\* reach.
LEMMA AddTailOfSingle ==
  ASSUME NEW r \in Ring, Single(r), NEW s \in Sample, s # r.head
  PROVE  /\ AddTail(r, s) \in Ring /\ Single(AddTail(r, s))
         /\ AddTail(r, s).head = IF r.head = None THEN s ELSE r.head
BY NoneAssumption DEF AddTail, AddHead, Single, Ring, OptSample

\* A node added to an empty ring becomes its head.
LEMMA AddHeadOfEmpty ==
  ASSUME NEW r \in Ring, r.head = None, NEW s \in Sample
  PROVE  AddHead(r, s) \in Ring /\ Single(AddHead(r, s)) /\ AddHead(r, s).head = s
BY NoneAssumption DEF AddHead, Single, Ring, OptSample

\* A ring whose head is deleted is empty.
LEMMA DelHeadOfSingle ==
  ASSUME NEW r \in Ring, Single(r), r.head # None
  PROVE  DelHead(r) \in Ring /\ DelHead(r).head = None
BY DEF DelHead, Single, Ring, OptSample

\* The rings of a new object are rings.
LEMMA EmptyIsRing == EmptyRing \in Ring /\ EmptyRing.head = None
BY DEF EmptyRing, NoLinks, Ring, OptSample

-----------------------------------------------------------------------------
(* The invariant *)

\* What the type invariant and the shape say of heads and rings.
LEMMA HeadFacts ==
  ASSUME IInv
  PROVE  /\ free_list \in Ring /\ used_list \in Ring
         /\ free_list.head \in OptSample /\ used_list.head \in OptSample
         /\ Members(free_list) = {free_list.head} \ {None}
         /\ Members(used_list) = {used_list.head} \ {None}
<1>1. free_list \in Ring /\ used_list \in Ring /\ Single(free_list) /\ Single(used_list)
  BY DEF IInv, TypeOK, Shape
<1> QED
  BY <1>1, MembersOfSingle DEF Ring

\* The initial state.
LEMMA InitInv == Init => IInv
<1> SUFFICES ASSUME Init PROVE IInv
  OBVIOUS
<1> USE EmptyIsRing, NoneAssumption, MaxBuffersAssumption DEF Init
<1>0. 1 \in 1..MaxBuffers /\ 0 \in 0..MaxBuffers
  OBVIOUS
<1>1. TypeOK
  <2>1. /\ refcount \in [Sample -> Nat] /\ block \in [Sample -> OptImage]
        /\ new_pointer \in OptImage /\ modified_sample \in OptSample /\ image \in OptImage
    BY DEF OptSample, OptImage
  <2>2. cBuffers \in 1..MaxBuffers /\ left \in 0..MaxBuffers
    BY <1>0
  <2>3. alive \in BOOLEAN /\ busy \in {"no", "commit", "decommit"}
    OBVIOUS
  <2> QED
    BY <2>1, <2>2, <2>3 DEF TypeOK
<1>2. Shape
  BY DEF Shape, Single, Heads
<1>3. Counts
  BY DEF Counts
<1>4. Blocks
  BY DEF Blocks
<1> QED
  BY <1>1, <1>2, <1>3, <1>4 DEF IInv

\* A new object has empty rings, and the samples of a former one are lost.
LEMMA CreateInv ==
  ASSUME IInv, Create
  PROVE  IInv'
<1> USE NoneAssumption, MaxBuffersAssumption, EmptyIsRing DEF Create, fields, decode, history
<1>0. TypeOK /\ Shape /\ Counts /\ Blocks
  BY DEF IInv
<1>1. TypeOK'
  BY <1>0 DEF TypeOK, OptSample, OptImage
<1>2. Shape'
  BY <1>0 DEF Shape, Single, Heads
<1>3. Counts'
  BY <1>0 DEF Counts, Shape
<1>4. Blocks'
  BY <1>0 DEF Blocks, Shape
<1> QED
  BY <1>1, <1>2, <1>3, <1>4 DEF IInv

\* The calls that leave rings and samples alone: Commit begins, and Decommit and
\* Destroy end, with no node on the rings.
LEMMA ControlInv ==
  ASSUME IInv, SetProperties \/ Commit \/ CommitEnds \/ Decommit \/ DecommitEnds \/ Destroy
  PROVE  IInv'
<1> USE MaxBuffersAssumption DEF SetProperties, Commit, CommitEnds, Decommit, DecommitEnds, Destroy,
        Ready, NoNodes, rings, fields, redirect, decode, history
<1>0. TypeOK /\ Shape /\ Counts /\ Blocks
  BY DEF IInv
<1>1. TypeOK'
  <2>1. alive' \in BOOLEAN /\ busy' \in {"no", "commit", "decommit"}
    BY <1>0 DEF TypeOK
  <2>2. cBuffers' \in 1..MaxBuffers /\ left' \in 0..MaxBuffers
    BY <1>0 DEF TypeOK
  <2>3. UNCHANGED <<rings, samples, fields, redirect, decode, lost>>
    OBVIOUS
  <2> QED
    BY <2>1, <2>2, <2>3, <1>0 DEF TypeOK
<1>2. Shape'
  BY <1>0 DEF Shape, Heads
<1>3. Counts'
  BY <1>0 DEF Counts
<1>4. Blocks'
  BY <1>0 DEF Blocks
<1> QED
  BY <1>1, <1>2, <1>3, <1>4 DEF IInv

\* A decode call hands over its own buffer, and what was lent in it is forgotten
\* at its end.
LEMMA DecodingInv ==
  ASSUME IInv, Decoding
  PROVE  IInv'
<1> USE NoneAssumption DEF Decoding, Decode, DecodeEnds, Ready, rings, fields, redirect, history
<1>0. TypeOK /\ Shape /\ Counts /\ Blocks
  BY DEF IInv
<1>1. TypeOK'
  BY <1>0 DEF TypeOK, OptImage
<1>2. Shape'
  BY <1>0 DEF Shape, Heads
<1>3. Counts'
  BY <1>0 DEF Counts
<1>4. Blocks'
  BY <1>0 DEF Blocks
<1> QED
  BY <1>1, <1>2, <1>3, <1>4 DEF IInv

\* A sample that is kept is the used one, and a Release that is not the last
\* leaves a reference.
LEMMA CountingInv ==
  ASSUME IInv, NEW s \in Sample, AddRef(s) \/ Release(s)
  PROVE  IInv'
<1> USE NoneAssumption, MaxRefsAssumption DEF AddRef, Release, Ready, rings, redirect, decode, history
<1>0. TypeOK /\ Shape /\ Counts /\ Blocks
  BY DEF IInv
<1>1. TypeOK'
  BY <1>0 DEF TypeOK
<1>2. Shape'
  BY <1>0 DEF Shape, Heads
<1>3. Counts'
  <2>1. /\ s \in samples /\ refcount[s] > 0 /\ refcount'[s] > 0
        /\ \A x \in Sample \ {s} : refcount'[x] = refcount[x]
    BY <1>0 DEF TypeOK
  <2>2. UNCHANGED <<free_list, used_list, samples, lost, careful, busy, modified_sample>>
    OBVIOUS
  <2> QED
    BY <2>1, <2>2, <1>0 DEF Counts, TypeOK, Ring, OptSample
<1>4. Blocks'
  BY <1>0 DEF Blocks
<1> QED
  BY <1>1, <1>2, <1>3, <1>4 DEF IInv

\* The first sample of a commit becomes the head, the others are lost.
LEMMA CommitSampleInv ==
  ASSUME IInv, CommitSample
  PROVE  IInv'
<1> USE DEF CommitSample, fields, redirect, decode
<1> USE NoneAssumption, MaxBuffersAssumption
<1>0. TypeOK /\ Shape /\ Counts /\ Blocks
  BY DEF IInv
<1>1. PICK s \in Sample \ samples : 
        /\ samples' = samples \cup {s}
        /\ refcount' = [refcount EXCEPT ![s] = 0]
        /\ block' = [block EXCEPT ![s] = None]
        /\ free_list' = AddTail(free_list, s)
        /\ lost' = IF free_list.head = None THEN lost ELSE lost \cup {s}
  OBVIOUS
<1>2. /\ free_list' \in Ring /\ Single(free_list')
      /\ free_list'.head = IF free_list.head = None THEN s ELSE free_list.head
  <2>1. s # free_list.head
    BY <1>0, <1>1 DEF Shape, Heads
  <2> QED
    BY <2>1, <1>0, <1>1, AddTailOfSingle DEF TypeOK, Shape
<1>3. used_list' = used_list /\ used_list.head = None
  BY <1>0 DEF Shape
<1>4. TypeOK'
  BY <1>0, <1>1, <1>2 DEF TypeOK, OptImage
<1>5. Shape'
  BY <1>0, <1>1, <1>2, <1>3 DEF Shape, Single, Heads
<1>6. Counts'
  BY <1>0, <1>1, <1>2, <1>3 DEF Counts, Shape, Heads, TypeOK
<1>7. Blocks'
  BY <1>0, <1>1, <1>2, <1>3 DEF Blocks, Shape, Heads, TypeOK
<1> QED
  BY <1>4, <1>5, <1>6, <1>7 DEF IInv

\* The used sample becomes the head of the empty free ring.
LEMMA DecommitUsedInv ==
  ASSUME IInv, DecommitUsed
  PROVE  IInv'
<1> USE DEF DecommitUsed, fields, redirect, decode, history
<1> USE NoneAssumption
<1>0. TypeOK /\ Shape /\ Counts /\ Blocks
  BY DEF IInv
<1>1. /\ free_list' \in Ring /\ Single(free_list') /\ free_list'.head = used_list.head
      /\ used_list' \in Ring /\ used_list'.head = None
  <2>1. /\ free_list \in Ring /\ used_list \in Ring /\ used_list.head \in Sample
        /\ Single(free_list) /\ Single(used_list) /\ free_list.head = None
    BY <1>0 DEF TypeOK, Shape, Ring, OptSample
  <2> QED
    BY <2>1, AddTailOfSingle, DelHeadOfSingle
<1>2. TypeOK'
  BY <1>0, <1>1 DEF TypeOK
<1>3. Shape'
  BY <1>0, <1>1 DEF Shape, Single, Heads
<1>4. Counts'
  BY <1>0, <1>1 DEF Counts
<1>5. Blocks'
  BY <1>0, <1>1 DEF Blocks
<1> QED
  BY <1>2, <1>3, <1>4, <1>5 DEF IInv

\* The sample that is destroyed is the only one the rings hold.
LEMMA DecommitFreeInv ==
  ASSUME IInv, DecommitFree
  PROVE  IInv'
<1> USE DEF DecommitFree, fields, redirect, decode
<1> USE NoneAssumption
<1>0. TypeOK /\ Shape /\ Counts /\ Blocks
  BY DEF IInv
<1>1. free_list' \in Ring /\ free_list'.head = None
  BY <1>0, DelHeadOfSingle DEF TypeOK, Shape
<1>2. TypeOK'
  BY <1>0, <1>1 DEF TypeOK
<1>3. Shape'
  BY <1>0, <1>1 DEF Shape, Single, Heads
<1>4. careful' => careful /\ refcount[free_list.head] = 0
  OBVIOUS
<1>5. Counts'
  <2>1. /\ samples' = samples \ {free_list.head} /\ used_list'.head = None
        /\ UNCHANGED <<refcount, modified_sample, lost>>
    OBVIOUS
  <2>2. careful' => \A s \in Sample : refcount'[s] > 0 => s \in samples'
    BY <2>1, <1>0, <1>4 DEF Counts, TypeOK
  <2>3. careful' /\ modified_sample' # None => refcount'[modified_sample'] > 0
    BY <2>1, <1>0, <1>4 DEF Counts
  <2>4. \A s \in lost' : refcount'[s] = 0
    BY <2>1, <1>0 DEF Counts
  <2> QED
    BY <2>1, <2>2, <2>3, <2>4, <1>1 DEF Counts
<1>6. Blocks'
  BY <1>0, <1>1 DEF Blocks, Shape
<1> QED
  BY <1>2, <1>3, <1>5, <1>6 DEF IInv

\* The free sample goes to the empty used ring, and leads to this call's buffer.
LEMMA GetBufferInv ==
  ASSUME IInv, GetBuffer
  PROVE  IInv'
<1> DEFINE s == free_list.head
<1> USE NoneAssumption
<1>0. TypeOK /\ Shape /\ Counts /\ Blocks
  BY DEF IInv
<1>1. /\ alive /\ busy = "no" /\ image # None /\ s # None
      /\ free_list' = DelHead(free_list) /\ used_list' = AddTail(used_list, s)
      /\ refcount' = [refcount EXCEPT ![s] = @ + 1]
      /\ lent' = lent \cup {s}
      /\ Redirect(s)
      /\ UNCHANGED <<alive, cBuffers, samples, busy, left, image, lost, careful>>
  BY DEF GetBuffer, Ready, history
<1>2. s \in Sample /\ s \in samples /\ s \notin lost /\ used_list.head = None
  BY <1>0, <1>1 DEF Shape, Heads, TypeOK
<1>3. /\ used_list' \in Ring /\ Single(used_list') /\ used_list'.head = s
      /\ free_list' \in Ring /\ free_list'.head = None
  BY <1>0, <1>1, <1>2, AddTailOfSingle, DelHeadOfSingle DEF TypeOK, Shape
<1>4. TypeOK'
  <2>1. /\ block' \in [Sample -> OptImage] /\ new_pointer' \in OptImage
        /\ modified_sample' \in OptSample
    BY <1>0, <1>1, <1>2 DEF TypeOK, Redirect, redirect, OptSample, OptImage
  <2>2. refcount' \in [Sample -> Nat]
    BY <1>0, <1>1, <1>2 DEF TypeOK
  <2> QED
    BY <2>1, <2>2, <1>0, <1>1, <1>2, <1>3 DEF TypeOK
<1>5. Shape'
  BY <1>0, <1>1, <1>2, <1>3 DEF Shape, Single, Heads
<1>6. Counts'
  <2>1. refcount'[s] > 0 /\ \A x \in Sample \ {s} : refcount'[x] = refcount[x]
    BY <1>0, <1>1, <1>2 DEF TypeOK
  <2>2. modified_sample' \in {modified_sample, s}
    BY <1>1 DEF Redirect, redirect
  <2> QED
    BY <2>1, <2>2, <1>0, <1>1, <1>2, <1>3 DEF Counts, TypeOK, OptSample
<1>7. Blocks'
  BY <1>0, <1>1, <1>2, <1>3 DEF Blocks, Redirect, redirect, TypeOK
<1> QED
  BY <1>4, <1>5, <1>6, <1>7 DEF IInv

\* The sample found is the head that is deleted, and gets its own block back.
LEMMA ReleaseBufferInv ==
  ASSUME IInv, NEW s \in Sample, ReleaseBuffer(s)
  PROVE  IInv'
<1> USE NoneAssumption DEF ReleaseBuffer, Ready, history, decode
<1>0. TypeOK /\ Shape /\ Counts /\ Blocks
  BY DEF IInv
<1>1. used_list.head = s /\ free_list.head = None /\ s \notin lost
  BY <1>0, HeadFacts DEF Shape, Heads
<1>2. /\ free_list' \in Ring /\ Single(free_list') /\ free_list'.head = s
      /\ used_list' \in Ring /\ used_list'.head = None
  BY <1>0, <1>1, AddHeadOfEmpty, DelHeadOfSingle DEF TypeOK, Shape
<1>3. TypeOK'
  BY <1>0, <1>2 DEF TypeOK, OptSample, OptImage
<1>4. Shape'
  BY <1>0, <1>1, <1>2 DEF Shape, Single, Heads
<1>5. Counts'
  BY <1>0, <1>1, <1>2 DEF Counts, TypeOK
<1>6. Blocks'
  BY <1>0, <1>1, <1>2 DEF Blocks, TypeOK
<1> QED
  BY <1>3, <1>4, <1>5, <1>6 DEF IInv

-----------------------------------------------------------------------------
(* The theorems *)

\* Every step keeps the invariant ...
LEMMA NextInv == IInv /\ [Next]_vars => IInv'
<1> SUFFICES ASSUME IInv, [Next]_vars PROVE IInv'
  OBVIOUS
<1>1. CASE UNCHANGED vars
  BY <1>1 DEF vars, rings, fields, redirect, decode, history, IInv, TypeOK, Shape, Counts,
              Blocks, Heads
<1>2. CASE Committing
  BY <1>2, ControlInv, CommitSampleInv DEF Committing
<1>3. CASE Decommitting
  BY <1>3, ControlInv, DecommitUsedInv, DecommitFreeInv DEF Decommitting
<1>4. CASE Lending
  BY <1>4, GetBufferInv, CountingInv, ReleaseBufferInv DEF Lending
<1>5. CASE Decoding
  BY <1>5, DecodingInv
<1> QED
  BY <1>1, <1>2, <1>3, <1>4, <1>5, CreateInv, ControlInv DEF Next

\* ... so that it always holds.
LEMMA AlwaysInv == Spec => []IInv
BY InitInv, NextInv, PTL DEF Spec

\* The variables always have their types, and Commit makes no more samples than
\* were granted.
THEOREM TypeCorrect == Spec => []TypeOK
<1>1. IInv => TypeOK
  BY DEF IInv
<1> QED
  BY <1>1, AlwaysInv, PTL

\* The used ring holds exactly the samples that are referred to and the free ring
\* the others: none is lent twice, and only a commit of more than one loses any.
THEOREM NoneLentTwice == Spec => []LentOrFree
<1>1. IInv => LentOrFree
  <2> SUFFICES ASSUME IInv PROVE LentOrFree
    OBVIOUS
  <2>1. TypeOK /\ Shape /\ Counts
    BY DEF IInv
  <2>2. samples = lost \cup Heads
    BY <2>1 DEF Shape
  <2>3. CASE ~alive
    BY <2>1, <2>2, <2>3 DEF Shape, LentOrFree
  <2>4. ASSUME alive, busy = "no"
        PROVE  /\ Members(used_list) = {s \in samples : refcount[s] > 0}
               /\ Members(free_list) = {s \in samples \ lost : refcount[s] = 0}
    BY <2>1, <2>2, <2>4, HeadFacts DEF Counts, Heads, Shape
  <2> QED
    BY <2>3, <2>4 DEF LentOrFree
<1> QED
  BY <1>1, AlwaysInv, PTL

\* A careful codec never makes the allocator touch a sample that is gone.
THEOREM NoDanglingSample == Spec => []NothingDangles
<1>1. IInv => NothingDangles
  BY NoneAssumption DEF NothingDangles, IInv, TypeOK, Shape, Counts, Heads, OptSample
<1> QED
  BY <1>1, AlwaysInv, PTL

\* A picture never goes to a buffer of a former decode call.
THEOREM OnlyThisBuffer == Spec => []RedirectCurrent
<1>1. IInv => RedirectCurrent
  BY HeadFacts DEF RedirectCurrent, IInv, Blocks, Ready
<1> QED
  BY <1>1, AlwaysInv, PTL

-----------------------------------------------------------------------------
(* The DirectShow filter *)

\* The steps of s from the i-th on.
From(s, i) == SubSeq(s, i, Len(s))

\* Where Create is: up to the ninth step there is nothing of the loader's own.
DsOpeningAt(i) ==
  /\ todo = From(Ds!CreateSteps, i)
  /\ connected = IF i <= 10 THEN {} ELSE {"in"}
  /\ ours = IF i <= 9 THEN {} ELSE {"parentFilter", "srcFilter", "ourInput"}
  /\ "factory" \in held => i = 4
  /\ "object" \in held => i = 5
  /\ header = m_decoder

DsClosingAt(i) ==
  /\ todo = From(Ds!DestroySteps, i)
  /\ i > 3 => "in" \notin connected
  /\ i > 4 => "out" \notin connected
  /\ i > 2 => "ourInput" \notin ours
  /\ i > 6 => "ourOutput" \notin ours
  /\ i > 7 => "parentFilter" \notin ours
  /\ i > 8 => "srcFilter" \notin ours
  /\ "factory" \notin held /\ "object" \notin held
  /\ i > 5 => held \subseteq {"dll", "pinEnum"}

DsStage ==
  /\ phase = "opening" => \E i \in 1..11 : DsOpeningAt(i)
  /\ phase = "closing" => \E i \in 1..9 : DsClosingAt(i)
  /\ phase = "closed" => ours = {} /\ connected = {} /\ held \subseteq {"pinEnum"}
  /\ phase = "open" => /\ ours = {"parentFilter", "srcFilter", "ourInput", "ourOutput"}
                       /\ header = m_decoder /\ outType \in {None, header}
                       /\ "factory" \notin held /\ "object" \notin held
  /\ codecs = IF phase = "closed" THEN 0 ELSE 1

DsSides ==
  /\ ours \subseteq {"parentFilter", "srcFilter", "ourInput", "ourOutput"}
  /\ "in" \in connected => {"srcFilter", "parentFilter"} \subseteq ours /\ taken["ourInput"] > 0
  /\ "in" \notin connected => enum = None /\ \A o \in Ds!InputSide : taken[o] = 0
  /\ "out" \in connected => "ourOutput" \in ours /\ taken["ourOutput"] > 0 /\ pAllocator # "freed"
  /\ "out" \notin connected => taken["ourOutput"] = 0

One(condition) == IF condition THEN 1 ELSE 0

\* RefsAreHolders, object by object.
DsCounted ==
  /\ refs["srcFilter"] = taken["srcFilter"] + One("srcFilter" \in ours)
  /\ refs["parentFilter"] = taken["parentFilter"] + One("parentFilter" \in ours)
  /\ refs["ourOutput"] = taken["ourOutput"] + One("ourOutput" \in ours)
  /\ refs["ourInput"] = taken["ourInput"] + One("ourInput" \in ours) + One(refs["srcFilter"] > 0)
  /\ refs["unusedPin"] = taken["unusedPin"] + One("unusedPin" \in ours) + One(refs["srcFilter"] > 0)
  /\ refs["parentPin"] = taken["parentPin"] + One("parentPin" \in ours) + One(refs["parentFilter"] > 0)

DsIInv == Ds!TypeOK /\ DsStage /\ DsSides /\ DsCounted

\* The next step of a list that is at i, and what is left after it.
LEMMA FromFacts ==
  ASSUME NEW S, NEW s \in Seq(S), NEW i \in 1..Len(s), NEW r, r = From(s, i)
  PROVE  /\ r # <<>> /\ Head(r) = s[i]
         /\ \A t : t = Tail(r) => t = From(s, i + 1)
<1> DEFINE n == Len(s)
<1>1. n \in Nat
  OBVIOUS
<1>2. Head(SubSeq(s, i, n)) = s[i] /\ Tail(SubSeq(s, i, n)) = SubSeq(s, i + 1, n)
  <2>1. n \in i..n
    BY <1>1
  <2> QED
    BY <2>1, HeadTailOfSubSeq
<1>3. SubSeq(s, i, n) # <<>>
  <2>1. \A j \in i..n : s[j] \in S
    BY <1>1
  <2>2. Len(SubSeq(s, i, n)) = n - i + 1
    BY <1>1, <2>1, SubSeqProperties
  <2>3. n - i + 1 # 0
    BY <1>1
  <2>4. Len(<<>>) = 0
    OBVIOUS
  <2> QED
    BY <2>2, <2>3, <2>4, Zenon
<1> QED
  BY <1>2, <1>3 DEF From

\* A list that is at its first step.
LEMMA FromFirst ==
  ASSUME NEW S, NEW s \in Seq(S)
  PROVE  s = From(s, 1)
BY SubSeqFull DEF From

DsNames == {"library", "entry", "factory", "object", "filter", "pins", "memInput", "accept",
            "ours", "connectIn", "connectOut", "stop", "dropInput", "disconnectIn",
            "disconnectOut", "dropCodec", "dropOutput", "dropParent", "dropSource", "freeLibrary"}

\* The lists of steps of DS_Filter_Create and DS_Filter_Destroy.
LEMMA DsLists ==
  /\ Ds!CreateSteps \in Seq(DsNames) /\ Len(Ds!CreateSteps) = 11
  /\ Ds!DestroySteps \in Seq(DsNames) /\ Len(Ds!DestroySteps) = 9
<1>1. Ds!CreateSteps \in Seq(DsNames)
  BY DEF Ds!CreateSteps, DsNames
<1>2. Len(Ds!CreateSteps) = 11
  BY DEF Ds!CreateSteps
<1>3. Ds!DestroySteps \in Seq(DsNames)
  BY DEF Ds!DestroySteps, DsNames
<1>4. Len(Ds!DestroySteps) = 9
  BY DEF Ds!DestroySteps
<1> QED
  BY <1>1, <1>2, <1>3, <1>4

\* A step of Create or Destroy knows its place.
LEMMA DsCreating ==
  ASSUME NEW name, Ds!Creating(name), NEW i \in 1..11, DsOpeningAt(i)
  PROVE  /\ name = Ds!CreateSteps[i]
         /\ Ds!Advance => todo' = From(Ds!CreateSteps, i + 1) /\ phase' = "opening"
<1>1. i \in 1..Len(Ds!CreateSteps)
  BY DsLists
<1>2. todo = From(Ds!CreateSteps, i)
  BY DEF DsOpeningAt
<1>3. /\ Head(todo) = Ds!CreateSteps[i]
      /\ todo' = Tail(todo) => todo' = From(Ds!CreateSteps, i + 1)
  BY <1>1, <1>2, DsLists, FromFacts, Zenon
<1> QED
  BY <1>3 DEF Ds!Creating, Ds!Step, Ds!Advance

LEMMA DsDestroying ==
  ASSUME NEW name, Ds!Destroying(name), NEW i \in 1..9, DsClosingAt(i)
  PROVE  /\ name = Ds!DestroySteps[i]
         /\ Ds!Advance => todo' = From(Ds!DestroySteps, i + 1) /\ phase' = "closing"
<1>1. i \in 1..Len(Ds!DestroySteps)
  BY DsLists
<1>2. todo = From(Ds!DestroySteps, i)
  BY DEF DsClosingAt
<1>3. /\ Head(todo) = Ds!DestroySteps[i]
      /\ todo' = Tail(todo) => todo' = From(Ds!DestroySteps, i + 1)
  BY <1>1, <1>2, DsLists, FromFacts, Zenon
<1> QED
  BY <1>3 DEF Ds!Destroying, Ds!Step, Ds!Advance

-----------------------------------------------------------------------------
(* The counts of the loader's objects *)

\* The loader's objects, and the pins of its filters.
LEMMA DsShape ==
  /\ Ds!Ours = {"parentFilter", "parentPin", "srcFilter", "ourInput", "unusedPin", "ourOutput"}
  /\ Ds!InputSide = {"parentFilter", "parentPin", "srcFilter", "ourInput", "unusedPin"}
  /\ DOMAIN Ds!FilterOf = {"ourInput", "unusedPin", "parentPin"}
  /\ Ds!FilterOf["ourInput"] = "srcFilter" /\ Ds!FilterOf["unusedPin"] = "srcFilter"
  /\ Ds!FilterOf["parentPin"] = "parentFilter"
  /\ DOMAIN Ds!PinsOf = {"srcFilter", "parentFilter"}
  /\ Ds!PinsOf["srcFilter"] = <<"ourInput", "unusedPin">>
  /\ Ds!PinsOf["parentFilter"] = <<"parentPin">>
<1>1. Ds!Ours = {"parentFilter", "parentPin", "srcFilter", "ourInput", "unusedPin", "ourOutput"}
  BY DEF Ds!Ours
<1>2. Ds!InputSide = {"parentFilter", "parentPin", "srcFilter", "ourInput", "unusedPin"}
  BY DEF Ds!Ours, Ds!InputSide
<1>3. /\ DOMAIN Ds!FilterOf = {"ourInput", "unusedPin", "parentPin"}
      /\ Ds!FilterOf["ourInput"] = "srcFilter" /\ Ds!FilterOf["unusedPin"] = "srcFilter"
      /\ Ds!FilterOf["parentPin"] = "parentFilter"
  BY DEF Ds!FilterOf
<1>4. /\ DOMAIN Ds!PinsOf = {"srcFilter", "parentFilter"}
      /\ Ds!PinsOf["srcFilter"] = <<"ourInput", "unusedPin">>
      /\ Ds!PinsOf["parentFilter"] = <<"parentPin">>
  BY DEF Ds!PinsOf
<1> QED
  BY <1>1, <1>2, <1>3, <1>4

\* Counting the holders object by object is counting them.
LEMMA DsCountedIs ==
  ASSUME refs \in [Ds!Ours -> Int], taken \in [Ds!Ours -> 0..2]
  PROVE  DsCounted <=> Ds!RefsAreHolders
<1>1. /\ Ds!Holders("srcFilter") = taken["srcFilter"] + One("srcFilter" \in ours)
      /\ Ds!Holders("parentFilter") = taken["parentFilter"] + One("parentFilter" \in ours)
      /\ Ds!Holders("ourOutput") = taken["ourOutput"] + One("ourOutput" \in ours)
  BY DsShape DEF Ds!Holders, One
<1>2. /\ Ds!Holders("ourInput") = taken["ourInput"] + One("ourInput" \in ours) + One(refs["srcFilter"] > 0)
      /\ Ds!Holders("unusedPin") = taken["unusedPin"] + One("unusedPin" \in ours) + One(refs["srcFilter"] > 0)
      /\ Ds!Holders("parentPin") = taken["parentPin"] + One("parentPin" \in ours) + One(refs["parentFilter"] > 0)
  BY DsShape DEF Ds!Holders, One
<1> QED
  BY <1>1, <1>2, DsShape DEF DsCounted, Ds!RefsAreHolders

-----------------------------------------------------------------------------
(* What the codec does with them *)

\* A codec that has an object of a side is connected on it.
LEMMA DsTakenConnected ==
  ASSUME DsIInv
  PROVE  /\ \A o \in Ds!InputSide : taken[o] > 0 => "in" \in connected
         /\ taken["ourOutput"] > 0 => "out" \in connected
         /\ enum # None => "in" \in connected
BY DsShape DEF DsIInv, DsSides

\* Taking one more object of a side that is connected.
LEMMA DsTakes ==
  ASSUME DsIInv, NEW o \in Ds!Ours, taken[o] < 2, Ds!TakesPin(o),
         o \in Ds!InputSide => "in" \in connected,
         o = "ourOutput" => "out" \in connected,
         enum' \in {None} \cup [filter : DOMAIN Ds!PinsOf, counter : 0..2],
         enum' # None => "in" \in connected,
         UNCHANGED <<phase, todo, user, codecs, held, ours, connected, m_pAll, running,
                     caps, m_decoder, header, outType, pAllocator>>
  PROVE  DsIInv'
<1>1. /\ refs \in [Ds!Ours -> Int] /\ taken \in [Ds!Ours -> 0..2]
      /\ refs' = [refs EXCEPT ![o] = @ + 1] /\ taken' = [taken EXCEPT ![o] = @ + 1]
  BY DEF DsIInv, Ds!TypeOK, Ds!TakesPin
<1>2. Ds!TypeOK'
  BY <1>1 DEF DsIInv, Ds!TypeOK
<1>3. DsStage'
  BY DEF DsIInv, DsStage, DsOpeningAt, DsClosingAt
<1>4. DsSides'
  BY <1>1, DsShape DEF DsIInv, DsSides
<1>5. DsCounted'
  BY <1>1, DsShape DEF DsIInv, DsSides, DsCounted, One
<1> QED
  BY <1>2, <1>3, <1>4, <1>5 DEF DsIInv

\* Asking for a filter, another pin or interface.
LEMMA DsQueries ==
  ASSUME DsIInv,
         \/ Ds!QueryPinInfoInput \/ Ds!QueryPinInfoRemote \/ Ds!QueryPinInfoRemote2
         \/ Ds!ConnectedTo \/ Ds!QueryMemPin \/ Ds!QueryMemPinUnknown
  PROVE  DsIInv'
<1>1. ASSUME NEW o \in Ds!Ours, Ds!Takes(o), o \in Ds!InputSide => "in" \in connected,
             o = "ourOutput" => "out" \in connected
      PROVE  DsIInv'
  <2>1. /\ taken[o] < 2 /\ Ds!TakesPin(o) /\ enum' = enum
        /\ UNCHANGED <<phase, todo, user, codecs, held, ours, connected, m_pAll, running,
                       caps, m_decoder, header, outType, pAllocator>>
    BY <1>1 DEF Ds!Takes, Ds!wrapper, Ds!format
  <2>2. enum' \in {None} \cup [filter : DOMAIN Ds!PinsOf, counter : 0..2] /\ (enum' # None => "in" \in connected)
    BY <2>1, DsTakenConnected DEF DsIInv, Ds!TypeOK
  <2> QED
    BY <1>1, <2>1, <2>2, DsTakes
<1>2. CASE \/ Ds!QueryPinInfoInput \/ Ds!QueryPinInfoRemote \/ Ds!QueryPinInfoRemote2 \/ Ds!ConnectedTo
  <2>1. "in" \in connected
    BY <1>2, DsShape, DsTakenConnected
       DEF Ds!QueryPinInfoInput, Ds!QueryPinInfoRemote, Ds!QueryPinInfoRemote2, Ds!ConnectedTo
  <2>2. \E o \in {"srcFilter", "parentFilter", "parentPin"} : Ds!Takes(o)
    BY <1>2 DEF Ds!QueryPinInfoInput, Ds!QueryPinInfoRemote, Ds!QueryPinInfoRemote2, Ds!ConnectedTo
  <2> QED
    BY <1>1, <2>1, <2>2, DsShape
<1>3. CASE Ds!QueryMemPin \/ Ds!QueryMemPinUnknown
  <2>1. taken["ourOutput"] > 0 /\ Ds!Takes("ourOutput")
    BY <1>3 DEF Ds!QueryMemPin, Ds!QueryMemPinUnknown
  <2> QED
    BY <1>1, <2>1, DsShape, DsTakenConnected
<1> QED
  BY <1>2, <1>3

\* Enumerating the pins of a filter.
LEMMA DsEnumerates ==
  ASSUME DsIInv,
         (\E f \in DOMAIN Ds!PinsOf : Ds!EnumPins(f)) \/ Ds!EnumReset \/ Ds!EnumRelease
  PROVE  DsIInv'
<1>1. enum' = None \/ (enum' \in [filter : DOMAIN Ds!PinsOf, counter : 0..2] /\ "in" \in connected)
  BY DsShape, DsTakenConnected DEF DsIInv, Ds!TypeOK, Ds!EnumPins, Ds!EnumReset, Ds!EnumRelease
<1>2. UNCHANGED <<phase, todo, user, codecs, held, ours, connected, refs, taken, m_pAll, running,
                  caps, m_decoder, header, outType, pAllocator>>
  BY DEF Ds!EnumPins, Ds!EnumReset, Ds!EnumRelease, Ds!wrapper, Ds!format
<1>3. Ds!TypeOK'
  BY <1>1, <1>2 DEF DsIInv, Ds!TypeOK
<1>4. DsStage'
  BY <1>2 DEF DsIInv, DsStage, DsOpeningAt, DsClosingAt
<1>5. DsSides' /\ DsCounted'
  BY <1>1, <1>2 DEF DsIInv, DsSides, DsCounted
<1> QED
  BY <1>3, <1>4, <1>5 DEF DsIInv

\* An enumerator that gives out a pin counts it.
LEMMA DsEnumNext ==
  ASSUME DsIInv, Ds!EnumNext
  PROVE  DsIInv'
<1>1. enum \in [filter : DOMAIN Ds!PinsOf, counter : 0..2] /\ "in" \in connected
  BY DsTakenConnected DEF DsIInv, Ds!TypeOK, Ds!EnumNext
<1>2. PICK pin \in Ds!InputSide : taken[pin] < 2 /\ Ds!TakesPin(pin)
  <2>1. ASSUME NEW f \in DOMAIN Ds!PinsOf, NEW i \in Nat, i < Len(Ds!PinsOf[f])
        PROVE  Ds!PinsOf[f][i + 1] \in Ds!InputSide
    BY <2>1, DsShape
  <2> QED
    BY <1>1, <2>1 DEF Ds!EnumNext
<1>3. enum' \in [filter : DOMAIN Ds!PinsOf, counter : 0..2]
  <2>1. enum.counter < 2
    BY <1>1, DsShape DEF Ds!EnumNext
  <2> QED
    BY <1>1, <2>1 DEF Ds!EnumNext
<1>4. UNCHANGED <<phase, todo, user, codecs, held, ours, connected, m_pAll, running,
                  caps, m_decoder, header, outType, pAllocator>>
  BY DEF Ds!EnumNext, Ds!wrapper, Ds!format
<1> QED
  BY <1>1, <1>2, <1>3, <1>4, DsShape, DsTakes

\* A filter that the codec gives back is still held by the DS_Filter.
LEMMA DsGiveBack ==
  ASSUME DsIInv, NEW o \in Ds!Ours, Ds!GiveBack(o)
  PROVE  DsIInv'
<1>1. /\ refs \in [Ds!Ours -> Int] /\ taken \in [Ds!Ours -> 0..2]
      /\ refs' = Ds!Released(refs, o) /\ taken' = [taken EXCEPT ![o] = @ - 1]
      /\ taken[o] > 0
      /\ o = "ourInput" /\ "in" \in connected => taken[o] > 1
      /\ o = "ourOutput" /\ "out" \in connected => taken[o] > 1
  BY DEF DsIInv, Ds!TypeOK, Ds!GiveBack
<1>2. UNCHANGED <<phase, todo, user, codecs, held, ours, connected, enum, m_pAll, running,
                  caps, m_decoder, header, outType, pAllocator>>
  BY DEF Ds!GiveBack, Ds!wrapper, Ds!format
<1>3. o \in DOMAIN Ds!PinsOf => refs[o] > 1
  BY <1>1, DsShape, DsTakenConnected DEF DsIInv, DsSides, DsCounted, One
<1>4. refs' = [refs EXCEPT ![o] = @ - 1]
  <2>1. ~(refs[o] = 1 /\ o \in DOMAIN Ds!PinsOf)
    BY <1>3
  <2>2. refs' = [x \in Ds!Ours |-> IF x = o THEN refs[x] - 1 ELSE refs[x]]
    BY <1>1, <2>1, Zenon DEF Ds!Released
  <2> QED
    BY <1>1, <2>2
<1>5. Ds!TypeOK'
  BY <1>1, <1>2, <1>4 DEF DsIInv, Ds!TypeOK
<1>6. DsStage'
  BY <1>2 DEF DsIInv, DsStage, DsOpeningAt, DsClosingAt
<1>7. DsSides'
  BY <1>1, <1>2, DsShape DEF DsIInv, DsSides
<1>8. DsCounted'
  BY <1>1, <1>2, <1>3, <1>4, DsShape DEF DsIInv, DsSides, DsCounted, One
<1> QED
  BY <1>5, <1>6, <1>7, <1>8 DEF DsIInv

-----------------------------------------------------------------------------
(* Create *)

\* Each step has its place in its list.
LEMMA DsPlaces ==
  /\ \A i \in 1..11 :
       /\ (Ds!CreateSteps[i] = "library") <=> (i = 1)
       /\ (Ds!CreateSteps[i] = "entry") <=> (i = 2)
       /\ (Ds!CreateSteps[i] = "factory") <=> (i = 3)
       /\ (Ds!CreateSteps[i] = "object") <=> (i = 4)
       /\ (Ds!CreateSteps[i] = "filter") <=> (i = 5)
       /\ (Ds!CreateSteps[i] = "pins") <=> (i = 6)
       /\ (Ds!CreateSteps[i] = "memInput") <=> (i = 7)
       /\ (Ds!CreateSteps[i] = "accept") <=> (i = 8)
       /\ (Ds!CreateSteps[i] = "ours") <=> (i = 9)
       /\ (Ds!CreateSteps[i] = "connectIn") <=> (i = 10)
       /\ (Ds!CreateSteps[i] = "connectOut") <=> (i = 11)
  /\ \A i \in 1..9 :
       /\ (Ds!DestroySteps[i] = "stop") <=> (i = 1)
       /\ (Ds!DestroySteps[i] = "dropInput") <=> (i = 2)
       /\ (Ds!DestroySteps[i] = "disconnectIn") <=> (i = 3)
       /\ (Ds!DestroySteps[i] = "disconnectOut") <=> (i = 4)
       /\ (Ds!DestroySteps[i] = "dropCodec") <=> (i = 5)
       /\ (Ds!DestroySteps[i] = "dropOutput") <=> (i = 6)
       /\ (Ds!DestroySteps[i] = "dropParent") <=> (i = 7)
       /\ (Ds!DestroySteps[i] = "dropSource") <=> (i = 8)
       /\ (Ds!DestroySteps[i] = "freeLibrary") <=> (i = 9)
BY DEF Ds!CreateSteps, Ds!DestroySteps

\* Whatever was acquired, a failure leads to the first step of Destroy.
LEMMA DsAborts ==
  ASSUME DsIInv, Ds!Abort, "factory" \notin held', "object" \notin held', codecs' = codecs,
         phase = "opening"
  PROVE  DsStage'
<1>1. phase' = "closing" /\ todo' = From(Ds!DestroySteps, 1)
  BY DsLists, FromFirst DEF Ds!Abort
<1>2. DsClosingAt(1)'
  BY <1>1 DEF DsClosingAt
<1> QED
  BY <1>1, <1>2 DEF DsIInv, DsStage

\* A step that only asks the codec for something.
LEMMA DsAsks ==
  ASSUME DsIInv, NEW i \in 1..8, DsOpeningAt(i), Ds!Creating(Ds!CreateSteps[i]),
         \/ Ds!Advance /\ ("factory" \in held' => i = 3) /\ ("object" \in held' => i = 4)
         \/ Ds!Abort /\ "factory" \notin held' /\ "object" \notin held',
         held' \subseteq {"dll", "factory", "object", "filter", "pinEnum", "inPin", "outPin", "imp"},
         UNCHANGED <<user, codecs, ours, connected, refs, taken, enum, m_pAll, running,
                     caps, m_decoder, header, outType, pAllocator>>
  PROVE  DsIInv'
<1>1. phase = "opening"
  BY DEF Ds!Creating, Ds!Step
<1>2. DsSides' /\ DsCounted'
  BY DEF DsIInv, DsSides, DsCounted
<1>3. CASE Ds!Advance /\ ("factory" \in held' => i = 3) /\ ("object" \in held' => i = 4)
  <2>1. phase' = "opening" /\ todo' = From(Ds!CreateSteps, i + 1)
    BY <1>3, DsCreating
  <2>2. DsOpeningAt(i + 1)' /\ i + 1 \in 1..11
    BY <1>3, <2>1 DEF DsOpeningAt
  <2>3. DsStage'
    BY <1>1, <2>1, <2>2 DEF DsIInv, DsStage
  <2>4. Ds!TypeOK'
    BY <2>1 DEF DsIInv, Ds!TypeOK
  <2> QED
    BY <1>2, <2>3, <2>4 DEF DsIInv
<1>4. CASE Ds!Abort /\ "factory" \notin held' /\ "object" \notin held'
  <2>1. DsStage'
    BY <1>1, <1>4, DsAborts
  <2>2. Ds!TypeOK'
    BY <1>4 DEF DsIInv, Ds!TypeOK, Ds!Abort
  <2> QED
    BY <1>2, <2>1, <2>2 DEF DsIInv
<1> QED
  BY <1>3, <1>4

\* The steps of an open that only ask the codec for something.
LEMMA DsAskings ==
  ASSUME DsIInv,
         \/ Ds!LoadLibrary \/ Ds!FindEntry \/ Ds!GetFactory \/ Ds!CreateInstance
         \/ Ds!QueryBaseFilter \/ Ds!EnumPinsOfCodec \/ Ds!QueryMemInput \/ Ds!QueryAccept
  PROVE  DsIInv'
<1>1. phase = "opening"
  BY DEF Ds!LoadLibrary, Ds!FindEntry, Ds!GetFactory, Ds!CreateInstance, Ds!QueryBaseFilter,
         Ds!EnumPinsOfCodec, Ds!QueryMemInput, Ds!QueryAccept, Ds!Asks, Ds!Trades, Ds!Creating, Ds!Step
<1>2. PICK i \in 1..11 : DsOpeningAt(i)
  BY <1>1 DEF DsIInv, DsStage
<1>3. ASSUME NEW name, Ds!Creating(name), name # "ours", name # "connectIn", name # "connectOut"
      PROVE  i \in 1..8 /\ name = Ds!CreateSteps[i]
  BY <1>2, <1>3, DsCreating, DsPlaces
<1>4. held \subseteq {"dll", "factory", "object", "filter", "pinEnum", "inPin", "outPin", "imp"}
  BY DEF DsIInv, Ds!TypeOK
<1>5. ("factory" \in held => i = 4) /\ ("object" \in held => i = 5)
  BY <1>2 DEF DsOpeningAt
<1>6. ASSUME NEW name, NEW got, Ds!Asks(name, got),
             <<name, got>> \in {<<"library", {"dll"}>>, <<"entry", {}>>, <<"factory", {"factory"}>>,
                                <<"memInput", {"imp"}>>, <<"accept", {}>>}
      PROVE  DsIInv'
  <2>1. Ds!Creating(name) /\ i \in 1..8 /\ name = Ds!CreateSteps[i]
    BY <1>3, <1>6 DEF Ds!Asks
  <2>2. i \in {1, 2, 3, 7, 8}
    BY <1>6, <2>1, DsPlaces
  <2>3. i # 3 => "factory" \notin got
    BY <1>6, <2>1, DsPlaces
  <2>4. got \subseteq {"dll", "factory", "imp"}
    BY <1>6
  <2>5. UNCHANGED <<user, codecs, ours, connected, refs, taken, enum, m_pAll, running,
                    caps, m_decoder, header, outType, pAllocator>>
    BY <1>6 DEF Ds!Asks, Ds!counts, Ds!format
  <2>6. \/ Ds!Advance /\ ("factory" \in held' => i = 3) /\ ("object" \in held' => i = 4)
        \/ Ds!Abort /\ "factory" \notin held' /\ "object" \notin held'
    BY <1>5, <1>6, <2>2, <2>3, <2>4 DEF Ds!Asks
  <2>7. held' \subseteq {"dll", "factory", "object", "filter", "pinEnum", "inPin", "outPin", "imp"}
    BY <1>4, <1>6, <2>4 DEF Ds!Asks
  <2> QED
    BY <1>2, <2>1, <2>5, <2>6, <2>7, DsAsks
<1>7. CASE Ds!CreateInstance \/ Ds!QueryBaseFilter
  <2>1. PICK name, old, new : Ds!Trades(name, old, new) /\
             <<name, old, new>> \in {<<"object", "factory", "object">>, <<"filter", "object", "filter">>}
    BY <1>7 DEF Ds!CreateInstance, Ds!QueryBaseFilter
  <2>2. Ds!Creating(name) /\ i \in 1..8 /\ name = Ds!CreateSteps[i]
    BY <1>3, <2>1 DEF Ds!Trades
  <2>3. \/ i = 4 /\ old = "factory" /\ new = "object"
        \/ i = 5 /\ old = "object" /\ new = "filter"
    BY <2>1, <2>2, DsPlaces
  <2>4. UNCHANGED <<user, codecs, ours, connected, refs, taken, enum, m_pAll, running,
                    caps, m_decoder, header, outType, pAllocator>>
    BY <2>1 DEF Ds!Trades, Ds!counts, Ds!format
  <2>5. \/ Ds!Advance /\ ("factory" \in held' => i = 3) /\ ("object" \in held' => i = 4)
        \/ Ds!Abort /\ "factory" \notin held' /\ "object" \notin held'
    BY <1>5, <2>1, <2>3 DEF Ds!Trades
  <2>6. held' \subseteq {"dll", "factory", "object", "filter", "pinEnum", "inPin", "outPin", "imp"}
    BY <1>4, <2>1, <2>3 DEF Ds!Trades
  <2> QED
    BY <1>2, <2>2, <2>4, <2>5, <2>6, DsAsks
<1>8. CASE Ds!EnumPinsOfCodec
  <2>1. i \in 1..8 /\ i = 6 /\ Ds!Creating(Ds!CreateSteps[i])
    BY <1>3, <1>8, DsPlaces DEF Ds!EnumPinsOfCodec
  <2>2. UNCHANGED <<user, codecs, ours, connected, refs, taken, enum, m_pAll, running,
                    caps, m_decoder, header, outType, pAllocator>>
    BY <1>8 DEF Ds!EnumPinsOfCodec, Ds!counts, Ds!format
  <2>3. (Ds!Advance \/ Ds!Abort) /\ held' \subseteq held \cup {"pinEnum", "inPin", "outPin"}
    BY <1>8 DEF Ds!EnumPinsOfCodec
  <2>4. "factory" \notin held' /\ "object" \notin held'
    BY <1>5, <2>1, <2>3
  <2>5. held' \subseteq {"dll", "factory", "object", "filter", "pinEnum", "inPin", "outPin", "imp"}
    BY <1>4, <2>3
  <2> QED
    BY <1>2, <2>1, <2>2, <2>3, <2>4, <2>5, DsAsks
<1> QED
  BY <1>6, <1>7, <1>8
     DEF Ds!LoadLibrary, Ds!FindEntry, Ds!GetFactory, Ds!QueryMemInput, Ds!QueryAccept

\* The filters and their pins are made, and the codec connected to them.
LEMMA DsCreateFilters ==
  ASSUME DsIInv, Ds!CreateFilters
  PROVE  DsIInv'
<1>1. phase = "opening" /\ Ds!Creating("ours") /\ Ds!Advance
  BY DEF Ds!CreateFilters, Ds!Creating, Ds!Step
<1>2. PICK i \in 1..11 : DsOpeningAt(i)
  BY <1>1 DEF DsIInv, DsStage
<1>3. i = 9 /\ phase' = "opening" /\ todo' = From(Ds!CreateSteps, 10)
  BY <1>1, <1>2, DsCreating, DsPlaces
<1>4. /\ ours = {} /\ connected = {} /\ "factory" \notin held /\ "object" \notin held
      /\ header = m_decoder
  BY <1>2, <1>3 DEF DsOpeningAt
<1>5. /\ refs \in [Ds!Ours -> Int] /\ taken \in [Ds!Ours -> 0..2]
      /\ \A o \in Ds!Ours : taken[o] = 0
      /\ \A o \in Ds!Ours : refs[o] = 0
  BY <1>4, DsShape DEF DsIInv, Ds!TypeOK, DsSides, DsCounted, One
<1>6. /\ ours' = {"parentFilter", "srcFilter", "ourInput"}
      /\ UNCHANGED <<user, codecs, held, connected, taken, enum, m_pAll, running,
                     caps, m_decoder, header, outType, pAllocator>>
  BY DEF Ds!CreateFilters, Ds!format
<1>7. /\ refs' \in [Ds!Ours -> Int]
      /\ refs'["srcFilter"] = 1 /\ refs'["parentFilter"] = 1 /\ refs'["ourInput"] = 2
      /\ refs'["unusedPin"] = 1 /\ refs'["parentPin"] = 1 /\ refs'["ourOutput"] = 0
  BY <1>5, DsShape
     DEF Ds!CreateFilters, Ds!FilterCreated, Ds!Filter2Created, Ds!RemotePinCreated,
         Ds!RemotePin2Created, Ds!InputPinCreated
<1>8. Ds!TypeOK'
  BY <1>3, <1>6, <1>7, DsShape DEF DsIInv, Ds!TypeOK
<1>9. DsStage'
  <2>1. DsOpeningAt(10)'
    BY <1>3, <1>4, <1>6 DEF DsOpeningAt
  <2> QED
    BY <1>1, <1>3, <1>6, <2>1 DEF DsIInv, DsStage
<1>10. DsSides'
  BY <1>4, <1>5, <1>6, DsShape DEF DsIInv, DsSides
<1>11. DsCounted'
  BY <1>5, <1>6, <1>7, DsShape DEF DsCounted, One
<1> QED
  BY <1>8, <1>9, <1>10, <1>11 DEF DsIInv

\* The codec connects its input pin, taking what it likes.
LEMMA DsConnectInput ==
  ASSUME DsIInv, Ds!ConnectInput
  PROVE  DsIInv'
<1>1. phase = "opening" /\ Ds!Creating("connectIn")
  BY DEF Ds!ConnectInput, Ds!Creating, Ds!Step
<1>2. PICK i \in 1..11 : DsOpeningAt(i)
  BY <1>1 DEF DsIInv, DsStage
<1>3. i = 10 /\ (Ds!Advance => phase' = "opening" /\ todo' = From(Ds!CreateSteps, 11))
  BY <1>1, <1>2, DsCreating, DsPlaces
<1>4. /\ ours = {"parentFilter", "srcFilter", "ourInput"} /\ connected = {}
      /\ "factory" \notin held /\ "object" \notin held /\ header = m_decoder
  BY <1>2, <1>3 DEF DsOpeningAt
<1>5. /\ refs \in [Ds!Ours -> Int] /\ taken \in [Ds!Ours -> 0..2]
      /\ \A o \in Ds!Ours : taken[o] = 0
  BY <1>4, DsShape DEF DsIInv, Ds!TypeOK, DsSides
<1>6. UNCHANGED <<user, codecs, held, ours, enum, m_pAll, running,
                  caps, m_decoder, header, outType, pAllocator>>
  BY DEF Ds!ConnectInput, Ds!format
<1>7. CASE Ds!Advance /\ connected' = connected \cup {"in"} /\ Ds!TakesPin("ourInput")
  <2>1. /\ connected' = {"in"}
        /\ refs' = [refs EXCEPT !["ourInput"] = @ + 1]
        /\ taken' = [taken EXCEPT !["ourInput"] = @ + 1]
    BY <1>4, <1>7 DEF Ds!TakesPin
  <2>2. Ds!TypeOK'
    BY <1>3, <1>5, <1>6, <1>7, <2>1, DsShape DEF DsIInv, Ds!TypeOK
  <2>3. DsOpeningAt(11)'
    BY <1>3, <1>4, <1>6, <1>7, <2>1 DEF DsOpeningAt
  <2>4. DsStage'
    BY <1>1, <1>3, <1>6, <1>7, <2>3 DEF DsIInv, DsStage
  <2>5. DsSides'
    BY <1>4, <1>5, <1>6, <2>1, DsShape DEF DsIInv, DsSides
  <2>6. DsCounted'
    BY <1>4, <1>5, <1>6, <2>1, DsShape DEF DsIInv, DsCounted, One
  <2> QED
    BY <2>2, <2>4, <2>5, <2>6 DEF DsIInv
<1>8. CASE Ds!Abort /\ UNCHANGED <<connected, refs, taken>>
  <2>1. Ds!TypeOK'
    BY <1>6, <1>8 DEF DsIInv, Ds!TypeOK, Ds!Abort
  <2>2. DsStage'
    BY <1>1, <1>4, <1>6, <1>8, DsAborts
  <2>3. DsSides' /\ DsCounted'
    BY <1>6, <1>8 DEF DsIInv, DsSides, DsCounted
  <2> QED
    BY <2>1, <2>2, <2>3 DEF DsIInv
<1> QED
  BY <1>7, <1>8 DEF Ds!ConnectInput

\* It connects its output pin.
LEMMA DsConnectOutput ==
  ASSUME DsIInv, Ds!ConnectOutput
  PROVE  DsIInv'
<1>1. phase = "opening" /\ Ds!Creating("connectOut")
  BY DEF Ds!ConnectOutput, Ds!Creating, Ds!Step
<1>2. PICK i \in 1..11 : DsOpeningAt(i)
  BY <1>1 DEF DsIInv, DsStage
<1>3. i = 11
  BY <1>1, <1>2, DsCreating, DsPlaces
<1>4. /\ ours = {"parentFilter", "srcFilter", "ourInput"} /\ connected = {"in"}
      /\ "factory" \notin held /\ "object" \notin held /\ header = m_decoder
  BY <1>2, <1>3 DEF DsOpeningAt
<1>5. /\ refs \in [Ds!Ours -> Int] /\ taken \in [Ds!Ours -> 0..2]
      /\ taken["ourOutput"] = 0
  BY <1>4, DsShape DEF DsIInv, Ds!TypeOK, DsSides
<1>6. /\ ours' = {"parentFilter", "srcFilter", "ourInput", "ourOutput"}
      /\ UNCHANGED <<user, codecs, held, enum, m_pAll, running, m_decoder, header>>
  BY <1>4 DEF Ds!ConnectOutput
<1>7. CASE /\ phase' = "open" /\ todo' = <<>>
           /\ connected' = connected \cup {"out"} /\ outType' = header /\ Ds!Notified
           /\ refs' = [Ds!OutputPinCreated(refs) EXCEPT !["ourOutput"] = 2]
           /\ taken' = [taken EXCEPT !["ourOutput"] = 1]
           /\ caps' \in IF user = "video" THEN SUBSET Ds!Yuv ELSE {{}}
  <2>1. /\ connected' = {"in", "out"}
        /\ refs' = [refs EXCEPT !["ourOutput"] = 2]
        /\ taken' = [taken EXCEPT !["ourOutput"] = 1]
        /\ pAllocator' \in {"null", "live"} /\ caps' \subseteq Ds!Yuv
    BY <1>4, <1>5, <1>7, DsShape DEF Ds!OutputPinCreated, Ds!Notified
  <2>2. Ds!TypeOK'
    <3>1. refs' \in [Ds!Ours -> Int] /\ taken' \in [Ds!Ours -> 0..2]
      BY <1>5, <2>1, DsShape
    <3>2. ours' \subseteq Ds!Ours /\ connected' \subseteq {"in", "out"}
      BY <1>6, <2>1, DsShape
    <3>3. header \in Ds!Formats /\ outType' = header /\ phase' = "open"
      BY <1>7 DEF DsIInv, Ds!TypeOK
    <3> QED
      BY <1>6, <2>1, <3>1, <3>2, <3>3 DEF DsIInv, Ds!TypeOK
  <2>3. DsStage'
    BY <1>1, <1>4, <1>6, <1>7 DEF DsIInv, DsStage
  <2>4. DsSides'
    BY <1>4, <1>5, <1>6, <2>1, DsShape DEF DsIInv, DsSides
  <2>5. DsCounted'
    BY <1>4, <1>5, <1>6, <2>1, DsShape DEF DsIInv, DsCounted, One
  <2> QED
    BY <2>2, <2>3, <2>4, <2>5 DEF DsIInv
<1>8. CASE /\ Ds!Abort
           /\ refs' = Ds!OutputPinCreated(refs)
           /\ UNCHANGED <<taken, connected, caps, outType, pAllocator>>
  <2>1. refs' = [refs EXCEPT !["ourOutput"] = 1]
    BY <1>8 DEF Ds!OutputPinCreated
  <2>2. Ds!TypeOK'
    BY <1>5, <1>6, <1>8, <2>1, DsShape DEF DsIInv, Ds!TypeOK, Ds!Abort
  <2>3. DsStage'
    BY <1>1, <1>4, <1>6, <1>8, DsAborts
  <2>4. DsSides'
    BY <1>4, <1>5, <1>6, <1>8 DEF DsIInv, DsSides
  <2>5. DsCounted'
    BY <1>4, <1>5, <1>6, <1>8, <2>1, DsShape DEF DsIInv, DsCounted, One
  <2> QED
    BY <2>2, <2>3, <2>4, <2>5 DEF DsIInv
<1> QED
  BY <1>7, <1>8 DEF Ds!ConnectOutput

-----------------------------------------------------------------------------
(* Destroy *)

\* A step of Destroy that leaves the counts alone, or moves them with their holders.
LEMMA DsCloses ==
  ASSUME DsIInv, NEW i \in 1..8, DsClosingAt(i),
         phase = "closing", phase' = "closing", todo' = From(Ds!DestroySteps, i + 1),
         codecs' = codecs, held' \subseteq held, ours' \subseteq ours, connected' \subseteq connected,
         i = 2 => "ourInput" \notin ours', i = 3 => "in" \notin connected',
         i = 4 => "out" \notin connected', i = 5 => held' \subseteq {"dll", "pinEnum"},
         i = 6 => "ourOutput" \notin ours', i = 7 => "parentFilter" \notin ours',
         i = 8 => "srcFilter" \notin ours'
  PROVE  DsStage'
<1>1. i + 1 \in 1..9 /\ DsClosingAt(i + 1)'
  BY DEF DsClosingAt
<1> QED
  BY <1>1 DEF DsIInv, DsStage

\* Where Destroy is.
LEMMA DsAtDestroy ==
  ASSUME DsIInv, NEW name, Ds!Destroying(name)
  PROVE  \E i \in 1..9 :
           /\ DsClosingAt(i) /\ phase = "closing" /\ name = Ds!DestroySteps[i]
           /\ Ds!Advance => phase' = "closing" /\ todo' = From(Ds!DestroySteps, i + 1)
<1>1. phase = "closing"
  BY DEF Ds!Destroying, Ds!Step
<1>2. PICK i \in 1..9 : DsClosingAt(i)
  BY <1>1 DEF DsIInv, DsStage
<1> QED
  BY <1>1, <1>2, DsDestroying

\* The steps of a close that take nothing from the loader's objects.
LEMMA DsStops ==
  ASSUME DsIInv, Ds!Stop \/ Ds!ReleaseCodec
  PROVE  DsIInv'
<1>1. PICK i \in {1, 5} : /\ DsClosingAt(i) /\ phase = "closing"
                          /\ phase' = "closing" /\ todo' = From(Ds!DestroySteps, i + 1)
                          /\ i = 5 => held' = held \ {"filter", "inPin", "outPin", "imp"}
                          /\ i = 1 => held' = held
  <2>1. CASE Ds!Stop
    <3>1. Ds!Destroying("stop") /\ Ds!Advance /\ held' = held
      BY <2>1 DEF Ds!Stop, Ds!wrapper
    <3> QED
      BY <3>1, DsAtDestroy, DsPlaces
  <2>2. CASE Ds!ReleaseCodec
    <3>1. Ds!Destroying("dropCodec") /\ Ds!Advance /\ held' = held \ {"filter", "inPin", "outPin", "imp"}
      BY <2>2 DEF Ds!ReleaseCodec
    <3> QED
      BY <3>1, DsAtDestroy, DsPlaces
  <2> QED
    BY <2>1, <2>2
<1>2. /\ UNCHANGED <<user, codecs, ours, connected, refs, taken, enum, caps, m_decoder, header, outType, pAllocator>>
      /\ {m_pAll', running'} \subseteq BOOLEAN
  BY DEF DsIInv, Ds!TypeOK, Ds!Stop, Ds!ReleaseCodec, Ds!wrapper, Ds!counts, Ds!format
<1>3. /\ held \subseteq {"dll", "filter", "pinEnum", "inPin", "outPin", "imp"} /\ held' \subseteq held
      /\ i = 5 => held' \subseteq {"dll", "pinEnum"}
  BY <1>1 DEF DsIInv, Ds!TypeOK, DsClosingAt
<1>4. Ds!TypeOK'
  BY <1>1, <1>2, <1>3 DEF DsIInv, Ds!TypeOK
<1>5. DsStage'
  BY <1>1, <1>2, <1>3, DsCloses
<1>6. DsSides' /\ DsCounted'
  BY <1>2 DEF DsIInv, DsSides, DsCounted
<1> QED
  BY <1>4, <1>5, <1>6 DEF DsIInv

\* Disconnecting gives back all that the codec took on that side.
LEMMA DsDisconnectInput ==
  ASSUME DsIInv, Ds!DisconnectInput
  PROVE  DsIInv'
<1>1. DsClosingAt(3) /\ phase = "closing" /\ phase' = "closing" /\ todo' = From(Ds!DestroySteps, 3 + 1)
  BY DsAtDestroy, DsPlaces DEF Ds!DisconnectInput
<1>2. /\ connected' = connected \ {"in"} /\ enum' = None
      /\ refs' = [o \in Ds!Ours |-> IF o \in Ds!InputSide THEN refs[o] - taken[o] ELSE refs[o]]
      /\ taken' = [o \in Ds!Ours |-> IF o \in Ds!InputSide THEN 0 ELSE taken[o]]
      /\ UNCHANGED <<user, codecs, held, ours, m_pAll, running, caps, m_decoder, header, outType, pAllocator>>
  BY DEF Ds!DisconnectInput, Ds!GivesBack, Ds!format
<1>3. refs \in [Ds!Ours -> Int] /\ taken \in [Ds!Ours -> 0..2]
  BY DEF DsIInv, Ds!TypeOK
<1>4. Ds!TypeOK'
  <2>1. refs' \in [Ds!Ours -> Int] /\ taken' \in [Ds!Ours -> 0..2]
    BY <1>2, <1>3, DsShape
  <2> QED
    BY <1>1, <1>2, <2>1 DEF DsIInv, Ds!TypeOK
<1>5. DsStage'
  BY <1>1, <1>2, DsCloses
<1>6. DsSides'
  BY <1>2, <1>3, DsShape DEF DsIInv, DsSides
<1>7. DsCounted'
  <2>1. \A f \in {"srcFilter", "parentFilter"} : f \in ours \/ taken[f] = 0
    BY DsShape DEF DsIInv, DsSides
  <2>2. \A f \in {"srcFilter", "parentFilter"} :
          refs'[f] = One(f \in ours) /\ (refs'[f] > 0 <=> refs[f] > 0)
    BY <1>2, <1>3, <2>1, DsShape DEF DsIInv, DsCounted, One
  <2>3. \A o \in Ds!InputSide : refs'[o] = refs[o] - taken[o] /\ taken'[o] = 0
    BY <1>2, DsShape
  <2>4. refs'["ourOutput"] = refs["ourOutput"] /\ taken'["ourOutput"] = taken["ourOutput"]
    BY <1>2, DsShape
  <2>5. /\ One(refs'["srcFilter"] > 0) = One(refs["srcFilter"] > 0)
        /\ One(refs'["parentFilter"] > 0) = One(refs["parentFilter"] > 0)
    BY <2>2 DEF One
  <2>6. \A o \in Ds!InputSide : refs[o] \in Int /\ taken[o] \in Int
    BY <1>3, DsShape
  <2>7. \A b : One(b) \in Int
    BY DEF One
  <2>8. /\ refs'["ourInput"] = One("ourInput" \in ours) + One(refs["srcFilter"] > 0)
        /\ refs'["unusedPin"] = One("unusedPin" \in ours) + One(refs["srcFilter"] > 0)
        /\ refs'["parentPin"] = One("parentPin" \in ours) + One(refs["parentFilter"] > 0)
    BY <2>3, <2>6, <2>7, DsShape DEF DsIInv, DsCounted
  <2>9. \A o \in Ds!InputSide : taken'[o] = 0 /\ ours' = ours
    BY <1>2, <2>3
  <2>10. /\ refs'["ourInput"] = taken'["ourInput"] + One("ourInput" \in ours') + One(refs'["srcFilter"] > 0)
         /\ refs'["unusedPin"] = taken'["unusedPin"] + One("unusedPin" \in ours') + One(refs'["srcFilter"] > 0)
         /\ refs'["parentPin"] = taken'["parentPin"] + One("parentPin" \in ours') + One(refs'["parentFilter"] > 0)
    BY <2>5, <2>7, <2>8, <2>9, DsShape
  <2>11. /\ refs'["srcFilter"] = taken'["srcFilter"] + One("srcFilter" \in ours')
         /\ refs'["parentFilter"] = taken'["parentFilter"] + One("parentFilter" \in ours')
    BY <2>2, <2>7, <2>9, DsShape
  <2>12. refs'["ourOutput"] = taken'["ourOutput"] + One("ourOutput" \in ours')
    BY <1>2, <2>4 DEF DsIInv, DsCounted
  <2> QED
    BY <2>10, <2>11, <2>12 DEF DsCounted
<1> QED
  BY <1>4, <1>5, <1>6, <1>7 DEF DsIInv

LEMMA DsDisconnectOutput ==
  ASSUME DsIInv, Ds!DisconnectOutput
  PROVE  DsIInv'
<1>1. DsClosingAt(4) /\ phase = "closing" /\ phase' = "closing" /\ todo' = From(Ds!DestroySteps, 4 + 1)
  BY DsAtDestroy, DsPlaces DEF Ds!DisconnectOutput
<1>2. /\ connected' = connected \ {"out"} /\ outType' = None
      /\ pAllocator' = IF pAllocator = "live" THEN "freed" ELSE pAllocator
      /\ refs' = [o \in Ds!Ours |-> IF o \in {"ourOutput"} THEN refs[o] - taken[o] ELSE refs[o]]
      /\ taken' = [o \in Ds!Ours |-> IF o \in {"ourOutput"} THEN 0 ELSE taken[o]]
      /\ UNCHANGED <<user, codecs, held, ours, enum, m_pAll, running, caps, m_decoder, header>>
  BY DEF Ds!DisconnectOutput, Ds!GivesBack, Ds!AllocatorFreed
<1>3. refs \in [Ds!Ours -> Int] /\ taken \in [Ds!Ours -> 0..2]
  BY DEF DsIInv, Ds!TypeOK
<1>4. Ds!TypeOK'
  <2>1. refs' \in [Ds!Ours -> Int] /\ taken' \in [Ds!Ours -> 0..2]
    BY <1>2, <1>3, DsShape
  <2> QED
    BY <1>1, <1>2, <2>1 DEF DsIInv, Ds!TypeOK
<1>5. DsStage'
  BY <1>1, <1>2, DsCloses
<1>6. DsSides'
  BY <1>2, <1>3, DsShape DEF DsIInv, DsSides
<1>7. DsCounted'
  BY <1>2, <1>3, DsShape DEF DsIInv, DsSides, DsCounted, One
<1> QED
  BY <1>4, <1>5, <1>6, <1>7 DEF DsIInv

\* The DS_Filter drops one of its own references; a filter that is gone takes its pins
\* with it.
LEMMA DsDrops ==
  ASSUME DsIInv, NEW name, NEW o, Ds!Drops(name, o),
         <<name, o>> \in {<<"dropInput", "ourInput">>, <<"dropOutput", "ourOutput">>,
                          <<"dropParent", "parentFilter">>, <<"dropSource", "srcFilter">>}
  PROVE  DsIInv'
<1>1. PICK i \in {2, 6, 7, 8} :
         /\ DsClosingAt(i) /\ phase = "closing" /\ name = Ds!DestroySteps[i]
         /\ phase' = "closing" /\ todo' = From(Ds!DestroySteps, i + 1)
  <2>1. name \in {"dropInput", "dropOutput", "dropParent", "dropSource"}
    OBVIOUS
  <2>2. PICK i \in 1..9 : /\ DsClosingAt(i) /\ phase = "closing" /\ name = Ds!DestroySteps[i]
                          /\ phase' = "closing" /\ todo' = From(Ds!DestroySteps, i + 1)
    BY DsAtDestroy DEF Ds!Drops
  <2>3. i \in {2, 6, 7, 8}
    BY <2>1, <2>2, DsPlaces
  <2> QED
    BY <2>2, <2>3
<1>2. /\ i = 2 <=> o = "ourInput"
      /\ i = 6 <=> o = "ourOutput"
      /\ i = 7 <=> o = "parentFilter"
      /\ i = 8 <=> o = "srcFilter"
  BY <1>1, DsPlaces
<1>3. o \in {"ourInput", "ourOutput", "parentFilter", "srcFilter"}
  OBVIOUS
<1>4. /\ ours' = ours \ {o}
      /\ refs' = IF o \in ours THEN Ds!Released(refs, o) ELSE refs
      /\ pAllocator' = IF o = "ourOutput" THEN "null" ELSE pAllocator
      /\ UNCHANGED <<user, codecs, held, connected, taken, enum, m_pAll, running, caps, m_decoder, header, outType>>
  BY DEF Ds!Drops
<1>5. refs \in [Ds!Ours -> Int] /\ taken \in [Ds!Ours -> 0..2]
  BY DEF DsIInv, Ds!TypeOK
<1>6. /\ i > 3 => "in" \notin connected
      /\ i > 4 => "out" \notin connected
  BY <1>1 DEF DsClosingAt
<1>7. ASSUME o \in ours, o \in DOMAIN Ds!PinsOf
      PROVE  /\ refs[o] = 1
             /\ refs' = [x \in Ds!Ours |-> IF x = o \/ (x \in DOMAIN Ds!FilterOf /\ Ds!FilterOf[x] = o)
                                           THEN refs[x] - 1 ELSE refs[x]]
  <2>1. i > 3 /\ taken[o] = 0
    BY <1>2, <1>3, <1>6, <1>7, DsShape DEF DsIInv, DsSides
  <2>2. refs[o] = 1
    BY <1>7, <2>1, DsShape DEF DsIInv, DsCounted, One
  <2>3. \A x \in Ds!Ours : x \in {Ds!PinsOf[o][j] : j \in DOMAIN Ds!PinsOf[o]}
                             <=> x \in DOMAIN Ds!FilterOf /\ Ds!FilterOf[x] = o
    BY <1>7, DsShape
  <2>4. refs' = [x \in Ds!Ours |-> IF x = o \/ x \in {Ds!PinsOf[o][j] : j \in DOMAIN Ds!PinsOf[o]}
                                   THEN refs[x] - 1 ELSE refs[x]]
    BY <1>4, <1>7, <2>2 DEF Ds!Released
  <2> QED
    BY <2>2, <2>3, <2>4
<1>8. ASSUME o \in ours, o \notin DOMAIN Ds!PinsOf
      PROVE  refs' = [x \in Ds!Ours |-> IF x = o THEN refs[x] - 1 ELSE refs[x]]
  <2>1. ~(refs[o] = 1 /\ o \in DOMAIN Ds!PinsOf)
    BY <1>8
  <2>2. refs' = Ds!Released(refs, o)
    BY <1>4, <1>8
  <2> QED
    BY <2>1, <2>2, Zenon DEF Ds!Released
<1>9. Ds!TypeOK'
  <2>1. refs' \in [Ds!Ours -> Int]
    <3>1. CASE o \in ours /\ o \in DOMAIN Ds!PinsOf
      BY <1>5, <1>7, <3>1
    <3>2. CASE o \in ours /\ o \notin DOMAIN Ds!PinsOf
      BY <1>5, <1>8, <3>2
    <3> QED
      BY <1>4, <1>5, <3>1, <3>2
  <2> QED
    BY <1>1, <1>4, <2>1 DEF DsIInv, Ds!TypeOK
<1>10. DsStage'
  <2>1. i \in 1..8 /\ ours' \subseteq ours /\ o \notin ours'
    BY <1>4
  <2> QED
    BY <1>1, <1>2, <1>4, <2>1, DsCloses
<1>11. DsSides'
  <2>1. o = "srcFilter" \/ o = "parentFilter" => "in" \notin connected
    BY <1>2, <1>6
  <2>2. o = "ourOutput" => "out" \notin connected
    BY <1>2, <1>6
  <2> QED
    BY <1>3, <1>4, <2>1, <2>2 DEF DsIInv, DsSides
<1>12. DsCounted'
  <2>1. CASE o \notin ours
    BY <1>4, <2>1 DEF DsIInv, DsCounted, One
  <2>2. CASE o \in ours /\ o \in DOMAIN Ds!PinsOf
    BY <1>4, <1>5, <1>7, <2>2, DsShape DEF DsIInv, DsCounted, One
  <2>3. CASE o \in ours /\ o \notin DOMAIN Ds!PinsOf
    BY <1>3, <1>4, <1>5, <1>8, <2>3, DsShape DEF DsIInv, DsCounted, One
  <2> QED
    BY <2>1, <2>2, <2>3
<1> QED
  BY <1>9, <1>10, <1>11, <1>12 DEF DsIInv

\* The last step of a close.
LEMMA DsFreeLibrary ==
  ASSUME DsIInv, Ds!FreeLibrary
  PROVE  DsIInv'
<1>1. DsClosingAt(9) /\ phase = "closing"
  BY DsAtDestroy, DsPlaces DEF Ds!FreeLibrary
<1>2. /\ phase' = "closed" /\ held' = held \ {"dll"} /\ codecs' = codecs - 1
      /\ UNCHANGED <<user, ours, connected, refs, taken, enum, m_pAll, running, caps, m_decoder, header, outType, pAllocator>>
  BY DEF Ds!FreeLibrary, Ds!counts, Ds!format
<1>3. ours = {} /\ connected = {} /\ held \subseteq {"dll", "pinEnum"} /\ codecs = 1
  BY <1>1 DEF DsIInv, DsStage, DsSides, DsClosingAt, Ds!TypeOK
<1>4. Ds!TypeOK'
  BY <1>2, <1>3 DEF DsIInv, Ds!TypeOK
<1>5. DsStage'
  BY <1>2, <1>3 DEF DsStage
<1>6. DsSides' /\ DsCounted'
  BY <1>2 DEF DsIInv, DsSides, DsCounted
<1> QED
  BY <1>4, <1>5, <1>6 DEF DsIInv

-----------------------------------------------------------------------------
(* The users *)

\* An open begins with everything closed.
LEMMA DsOpen ==
  ASSUME DsIInv, NEW u \in {"video", "audio"}, Ds!Open(u)
  PROVE  DsIInv'
<1>1. /\ phase = "closed" /\ phase' = "opening" /\ user' = u /\ todo' = From(Ds!CreateSteps, 1)
      /\ codecs' = codecs + 1
      /\ running' = FALSE /\ m_decoder' = "RGB24" /\ header' = "RGB24" /\ caps' = {}
      /\ UNCHANGED <<held, ours, connected, refs, taken, enum, m_pAll, outType, pAllocator>>
  BY DsLists, FromFirst DEF Ds!Open, Ds!counts
<1>2. codecs = 0 /\ ours = {} /\ connected = {} /\ held \subseteq {"pinEnum"}
  BY <1>1 DEF DsIInv, DsStage
<1>3. Ds!TypeOK'
  <2>1. {m_decoder', header'} \subseteq Ds!Formats
    BY <1>1 DEF Ds!Formats
  <2>2. {m_pAll', running'} \subseteq BOOLEAN
    BY <1>1 DEF DsIInv, Ds!TypeOK
  <2>3. /\ held' \subseteq {"dll", "factory", "object", "filter", "pinEnum", "inPin", "outPin", "imp"}
        /\ ours' \subseteq Ds!Ours /\ connected' \subseteq {"in", "out"} /\ caps' \subseteq Ds!Yuv
        /\ codecs' \in 0..1
    BY <1>1, <1>2
  <2>4. /\ refs' \in [Ds!Ours -> Int] /\ taken' \in [Ds!Ours -> 0..2]
        /\ enum' \in {None} \cup [filter : DOMAIN Ds!PinsOf, counter : 0..2]
        /\ outType' \in {None} \cup Ds!Formats /\ pAllocator' \in {"null", "live", "freed"}
    BY <1>1 DEF DsIInv, Ds!TypeOK
  <2> QED
    BY <1>1, <2>1, <2>2, <2>3, <2>4 DEF Ds!TypeOK
<1>4. DsStage'
  <2>1. DsOpeningAt(1)'
    BY <1>1, <1>2 DEF DsOpeningAt
  <2> QED
    BY <1>1, <1>2, <2>1 DEF DsStage
<1>5. DsSides' /\ DsCounted'
  BY <1>1 DEF DsIInv, DsSides, DsCounted
<1> QED
  BY <1>3, <1>4, <1>5 DEF DsIInv

\* What leaves the connections and the counts alone.
LEMMA DsPlays ==
  ASSUME DsIInv,
         \/ Ds!StartVideo \/ Ds!StartAudio \/ Ds!RefuseDestFmt \/ Ds!DecodeCrashes
         \/ Ds!QueryMemPinItself
  PROVE  DsIInv'
<1>1. /\ UNCHANGED <<todo, user, codecs, ours, connected, refs, taken, enum, caps, m_decoder, outType, pAllocator>>
      /\ phase' = "crashed" \/ (phase = "open" /\ phase' = "open")
      /\ held' \in {held, held \ {"imp"}}
      /\ header' = header \/ (phase = "open" /\ header' = m_decoder)
      /\ {m_pAll', running'} \subseteq BOOLEAN
      /\ phase # "closed"
  <2>1. CASE Ds!StartVideo \/ Ds!StartAudio
    <3>1. Ds!Start
      BY <2>1 DEF Ds!StartVideo, Ds!StartAudio
    <3> QED
      BY <3>1 DEF DsIInv, Ds!TypeOK, Ds!Start, Ds!counts, Ds!format
  <2>2. CASE Ds!RefuseDestFmt
    BY <2>2 DEF DsIInv, Ds!TypeOK, Ds!RefuseDestFmt, Ds!wrapper, Ds!counts
  <2>3. CASE Ds!DecodeCrashes
    BY <2>3 DEF DsIInv, Ds!TypeOK, Ds!DecodeCrashes, Ds!wrapper, Ds!counts, Ds!format
  <2>4. CASE Ds!QueryMemPinItself
    <3>1. "out" \in connected
      BY <2>4, DsTakenConnected DEF Ds!QueryMemPinItself
    <3> QED
      BY <2>4, <3>1 DEF DsIInv, DsStage, Ds!TypeOK, Ds!QueryMemPinItself, Ds!wrapper, Ds!counts, Ds!format
  <2> QED
    BY <2>1, <2>2, <2>3, <2>4
<1>2. Ds!TypeOK'
  BY <1>1 DEF DsIInv, Ds!TypeOK
<1>3. DsStage'
  BY <1>1 DEF DsIInv, DsStage
<1>4. DsSides' /\ DsCounted'
  BY <1>1 DEF DsIInv, DsSides, DsCounted
<1> QED
  BY <1>2, <1>3, <1>4 DEF DsIInv

\* Both pins are connected anew, or the first only, or neither.
LEMMA DsSetDestFmt ==
  ASSUME DsIInv, NEW f \in Ds!Formats, Ds!SetDestFmt(f)
  PROVE  DsIInv'
<1> DEFINE Again(o, pins) == IF o \in (IF "in" \in pins THEN {"ourInput"} ELSE {})
                                   \cup (IF "out" \in pins THEN {"ourOutput"} ELSE {}) THEN 1 ELSE 0
<1>1. /\ phase = "open" /\ header' = f /\ m_decoder' = f /\ enum' = None
      /\ UNCHANGED <<user, codecs, ours, todo, caps>>
  BY DEF Ds!SetDestFmt
<1>2. PICK pins \in {{}, {"in"}, {"in", "out"}} :
         /\ connected' = pins
         /\ outType' = IF "out" \in pins THEN f ELSE None
         /\ IF "out" \in pins THEN Ds!Notified ELSE Ds!AllocatorFreed
         /\ refs' = [o \in Ds!Ours |-> refs[o] - taken[o] + Again(o, pins)]
         /\ taken' = [o \in Ds!Ours |-> Again(o, pins)]
         /\ \/ pins = {"in", "out"} /\ running /\ running' = TRUE /\ m_pAll' = TRUE /\ UNCHANGED <<phase, held>>
            \/ /\ pins = {"in", "out"} /\ running /\ running' = FALSE /\ m_pAll' = FALSE
               /\ phase' = "crashed" /\ held' = held \ {"imp"}
            \/ /\ ~(pins = {"in", "out"} /\ running) /\ running' = FALSE
               /\ m_pAll' = (m_pAll /\ ~running) /\ UNCHANGED <<phase, held>>
  BY DEF Ds!SetDestFmt
<1>3. /\ phase' \in {"open", "crashed"} /\ held' \in {held, held \ {"imp"}}
      /\ {m_pAll', running'} \subseteq BOOLEAN
  BY <1>1, <1>2 DEF DsIInv, Ds!TypeOK
<1>4. refs \in [Ds!Ours -> Int] /\ taken \in [Ds!Ours -> 0..2]
  BY DEF DsIInv, Ds!TypeOK
<1>5. pAllocator' \in {"null", "live", "freed"} /\ ("out" \in pins => pAllocator' # "freed")
  BY <1>2 DEF DsIInv, Ds!TypeOK, Ds!Notified, Ds!AllocatorFreed
<1>6. \A o \in Ds!Ours : Again(o, pins) \in 0..1
  OBVIOUS
<1>7. Ds!TypeOK'
  <2>1. refs' \in [Ds!Ours -> Int] /\ taken' \in [Ds!Ours -> 0..2]
    BY <1>2, <1>4, <1>6
  <2>2. outType' \in {None} \cup Ds!Formats /\ connected' \subseteq {"in", "out"}
    BY <1>2
  <2> QED
    BY <1>1, <1>3, <1>5, <2>1, <2>2 DEF DsIInv, Ds!TypeOK
<1>8. DsStage'
  BY <1>1, <1>2, <1>3 DEF DsIInv, DsStage
<1>9. ours = {"parentFilter", "srcFilter", "ourInput", "ourOutput"}
  BY <1>1 DEF DsIInv, DsStage
<1>10. /\ taken' = [o \in Ds!Ours |-> Again(o, pins)]
       /\ Again("ourInput", pins) = One("in" \in pins) /\ Again("ourOutput", pins) = One("out" \in pins)
       /\ \A o \in Ds!Ours \ {"ourInput", "ourOutput"} : Again(o, pins) = 0
  BY <1>2 DEF One
<1> HIDE DEF Again
<1>11. DsSides'
  BY <1>1, <1>2, <1>5, <1>9, <1>10, DsShape DEF DsSides, One
<1>12. DsCounted'
  <2>1. /\ refs["srcFilter"] = taken["srcFilter"] + 1 /\ refs["parentFilter"] = taken["parentFilter"] + 1
        /\ refs["ourOutput"] = taken["ourOutput"] + 1 /\ refs["ourInput"] = taken["ourInput"] + 2
        /\ refs["unusedPin"] = taken["unusedPin"] + 1 /\ refs["parentPin"] = taken["parentPin"] + 1
    BY <1>4, <1>9, DsShape DEF DsIInv, DsCounted, One
  <2>2. /\ refs'["srcFilter"] = 1 /\ refs'["parentFilter"] = 1
        /\ refs'["unusedPin"] = 1 /\ refs'["parentPin"] = 1
    <3>1. \A o \in Ds!Ours : refs'[o] = refs[o] - taken[o] + Again(o, pins)
      BY <1>2
    <3>2. \A o \in Ds!Ours : refs[o] \in Int /\ taken[o] \in Int
      BY <1>4
    <3> QED
      BY <1>10, <2>1, <3>1, <3>2, DsShape
  <2>3. /\ refs'["ourInput"] = 2 + Again("ourInput", pins)
        /\ refs'["ourOutput"] = 1 + Again("ourOutput", pins)
    BY <1>2, <1>4, <1>6, <2>1, DsShape
  <2>4. /\ \A o \in Ds!Ours : taken'[o] = Again(o, pins)
        /\ \A o \in Ds!Ours \ {"ourInput", "ourOutput"} : taken'[o] = 0
    BY <1>10
  <2>5. ours' = {"parentFilter", "srcFilter", "ourInput", "ourOutput"}
    BY <1>1, <1>9
  <2> QED
    BY <1>6, <2>2, <2>3, <2>4, <2>5, DsShape DEF DsCounted, One
<1> QED
  BY <1>7, <1>8, <1>11, <1>12 DEF DsIInv

\* A close begins with everything open.
LEMMA DsDestroy ==
  ASSUME DsIInv, Ds!Destroy
  PROVE  DsIInv'
<1>1. /\ phase = "open" /\ phase' = "closing" /\ todo' = From(Ds!DestroySteps, 1)
      /\ UNCHANGED <<user, codecs, held, ours, connected, refs, taken, enum, m_pAll, running,
                     caps, m_decoder, header, outType, pAllocator>>
  BY DsLists, FromFirst DEF Ds!Destroy, Ds!wrapper, Ds!counts, Ds!format
<1>2. Ds!TypeOK'
  BY <1>1 DEF DsIInv, Ds!TypeOK
<1>3. DsStage'
  <2>1. DsClosingAt(1)'
    BY <1>1 DEF DsIInv, DsStage, DsClosingAt
  <2> QED
    BY <1>1, <2>1 DEF DsIInv, DsStage
<1>4. DsSides' /\ DsCounted'
  BY <1>1 DEF DsIInv, DsSides, DsCounted
<1> QED
  BY <1>2, <1>3, <1>4 DEF DsIInv

-----------------------------------------------------------------------------
(* The filter as a whole *)

\* The invariant holds at first ...
LEMMA DsInit == Ds!Init => DsIInv
<1> SUFFICES ASSUME Ds!Init PROVE DsIInv
  OBVIOUS
<1>1. Ds!TypeOK
  <2>1. /\ refs \in [Ds!Ours -> Int] /\ taken \in [Ds!Ours -> 0..2]
        /\ held = {} /\ ours = {} /\ connected = {} /\ enum = None /\ caps = {}
        /\ phase = "closed" /\ user = "video" /\ codecs = 0 /\ outType = None /\ pAllocator = "null"
        /\ m_pAll = FALSE /\ running = FALSE
    BY DEF Ds!Init
  <2>2. {m_decoder, header} \subseteq Ds!Formats
    BY DEF Ds!Init, Ds!Formats
  <2>3. {m_pAll, running} \subseteq BOOLEAN
    <3>1. m_pAll \in BOOLEAN /\ running \in BOOLEAN
      BY <2>1
    <3> QED
      BY <3>1
  <2>4. codecs \in 0..1
    BY <2>1
  <2> QED
    BY <2>1, <2>2, <2>3, <2>4 DEF Ds!TypeOK
<1>2. DsStage
  BY DEF Ds!Init, DsStage
<1>3. DsSides /\ DsCounted
  BY DsShape DEF Ds!Init, DsSides, DsCounted, One
<1> QED
  BY <1>1, <1>2, <1>3 DEF DsIInv

\* ... and is kept by every step.
LEMMA DsStep == DsIInv /\ Ds!Next => DsIInv'
<1> SUFFICES ASSUME DsIInv, Ds!Next PROVE DsIInv'
  OBVIOUS
<1>1. CASE Ds!Create
  BY <1>1, DsAskings, DsCreateFilters, DsConnectInput, DsConnectOutput DEF Ds!Create
<1>2. CASE Ds!Closing
  <2>1. CASE Ds!DropInput \/ Ds!DropOutput \/ Ds!DropParent \/ Ds!DropSource
    BY <2>1, DsDrops DEF Ds!DropInput, Ds!DropOutput, Ds!DropParent, Ds!DropSource
  <2> QED
    BY <1>2, <2>1, DsStops, DsDisconnectInput, DsDisconnectOutput, DsFreeLibrary DEF Ds!Closing
<1>3. CASE Ds!Codec
  BY <1>3, DsQueries, DsEnumerates, DsEnumNext, DsGiveBack, DsPlays DEF Ds!Codec
<1>4. CASE Ds!User
  BY <1>4, DsOpen, DsPlays, DsSetDestFmt, DsDestroy DEF Ds!User
<1> QED
  BY <1>1, <1>2, <1>3, <1>4 DEF Ds!Next

\* What the invariant says of the filter.
LEMMA DsGood ==
  ASSUME DsIInv
  PROVE  Ds!RefsAreHolders /\ Ds!BorrowedLive /\ Ds!NothingLeft /\ Ds!HeaderAccepted
<1>1. refs \in [Ds!Ours -> Int] /\ taken \in [Ds!Ours -> 0..2]
  BY DEF DsIInv, Ds!TypeOK
<1>2. Ds!RefsAreHolders
  BY <1>1, DsCountedIs DEF DsIInv
<1>3. "in" \in connected => refs["srcFilter"] > 0 /\ refs["parentFilter"] > 0 /\ refs["ourInput"] > 0
  BY <1>1, DsShape DEF DsIInv, DsSides, DsCounted, One
<1>4. "out" \in connected => refs["ourOutput"] > 0 /\ pAllocator # "freed"
  BY <1>1, DsShape DEF DsIInv, DsSides, DsCounted, One
<1>5. Ds!BorrowedLive
  <2>1. \A o \in DOMAIN Ds!FilterOf : taken[o] > 0 => refs[Ds!FilterOf[o]] > 0
    BY <1>3, DsShape, DsTakenConnected
  <2>2. enum # None => enum.filter \in {"srcFilter", "parentFilter"} /\ "in" \in connected
    BY DsShape, DsTakenConnected DEF DsIInv, Ds!TypeOK
  <2> QED
    BY <1>3, <1>4, <2>1, <2>2 DEF Ds!BorrowedLive
<1>6. Ds!NothingLeft
  BY <1>1, DsShape DEF DsIInv, DsStage, DsSides, DsCounted, One, Ds!NothingLeft
<1>7. Ds!HeaderAccepted
  BY DEF DsIInv, DsStage, Ds!HeaderAccepted
<1> QED
  BY <1>2, <1>5, <1>6, <1>7

-----------------------------------------------------------------------------
(* The DMO filter *)

DmoNames == {"library", "entry", "factory", "instance", "query", "setInput", "setOutput", "outSize",
             "inSize", "setProperty", "lookup", "getProperty", "discontinuity", "setPartial"}

\* A list of calls in which the object is made of the factory and asked for its interfaces.
DmoOrdered(s) ==
  \A k \in 1..Len(s) :
    /\ s[k] = "factory" => k + 1 \in 1..Len(s) /\ s[k + 1] = "instance"
    /\ s[k] = "instance" => k + 1 \in 1..Len(s) /\ s[k + 1] = "query"

Has(s, call) == \E k \in 1..Len(s) : s[k] = call

DmoOpening ==
  /\ todo \in Seq(DmoNames) /\ todo # <<>> /\ DmoOrdered(todo)
  /\ Has(todo, "query") \/ "media" \in held
  /\ Has(todo, "setInput") \/ "in" \in types
  /\ Has(todo, "setOutput") \/ "out" \in types
  /\ "factory" \in held => Head(todo) = "instance"
  /\ "object" \in held => Head(todo) = "query"

DmoIInv ==
  /\ Dmo!TypeOK
  /\ phase = "opening" => DmoOpening
  /\ phase = "open" => {"in", "out"} \subseteq types /\ "media" \in held /\ held \subseteq Dmo!Interfaces
  /\ phase = "closed" => held = {} /\ types = {} /\ blocks \subseteq {"this", "data"}
  /\ codecs = IF phase = "closed" THEN 0 ELSE 1
  /\ phase \in {"opening", "open"} /\ codec.kind = "aenc" => "format" \notin blocks

-----------------------------------------------------------------------------
(* The lists of calls *)

\* What is left of a list after its first call.
LEMMA ListTail ==
  ASSUME NEW S, NEW s \in Seq(S), s # <<>>, NEW t, t = Tail(s)
  PROVE  /\ t \in Seq(S) /\ Len(s) \in Nat /\ Len(s) > 0 /\ Len(t) = Len(s) - 1
         /\ \A k \in 1..Len(t) : t[k] = s[k + 1]
         /\ Head(s) = s[1] /\ (t # <<>> => Head(t) = s[2] /\ Len(s) > 1)
<1>1. t \in Seq(S) /\ Len(t) = Len(s) - 1 /\ \A k \in 1..Len(t) : t[k] = s[k + 1]
  BY HeadTailProperties
<1>2. Len(s) \in Nat /\ Len(s) > 0 /\ Head(s) = s[1]
  BY EmptySeq
<1>3. t # <<>> => Len(t) > 0 /\ Head(t) = t[1]
  BY <1>1, EmptySeq
<1> QED
  BY <1>1, <1>2, <1>3

\* What a list asks for that does not begin with it is asked for by the rest.
LEMMA DmoRest ==
  ASSUME NEW s \in Seq(DmoNames), s # <<>>, DmoOrdered(s), NEW t, t = Tail(s)
  PROVE  /\ t \in Seq(DmoNames) /\ DmoOrdered(t)
         /\ Head(s) = "factory" => t # <<>> /\ Head(t) = "instance"
         /\ Head(s) = "instance" => t # <<>> /\ Head(t) = "query"
         /\ \A call : Has(s, call) /\ Head(s) # call => t # <<>> /\ Has(t, call)
<1>1. /\ t \in Seq(DmoNames) /\ Len(s) \in Nat /\ Len(s) > 0 /\ Len(t) = Len(s) - 1
      /\ \A k \in 1..Len(t) : t[k] = s[k + 1]
      /\ Head(s) = s[1] /\ (t # <<>> => Head(t) = s[2])
  BY ListTail
<1>2. DmoOrdered(t)
  BY <1>1 DEF DmoOrdered
<1>3. Len(t) > 0 => t # <<>>
  <2>1. Len(<<>>) = 0
    OBVIOUS
  <2>2. \A n \in Nat : n > 0 => n # 0
    OBVIOUS
  <2>3. Len(t) \in Nat
    BY <1>1
  <2> QED
    BY <2>1, <2>2, <2>3, Zenon
<1>4. ASSUME s[1] \in {"factory", "instance"}
      PROVE  t # <<>> /\ (s[1] = "factory" => Head(t) = "instance") /\ (s[1] = "instance" => Head(t) = "query")
  <2>1. Len(t) > 0
    BY <1>1, <1>4 DEF DmoOrdered
  <2> QED
    BY <1>1, <1>3, <1>4, <2>1 DEF DmoOrdered
<1>5. ASSUME NEW call, Has(s, call), s[1] # call
      PROVE  t # <<>> /\ Has(t, call)
  <2>1. PICK k \in 1..Len(s) : s[k] = call
    BY <1>5 DEF Has
  <2>2. k > 1 /\ k - 1 \in 1..Len(t) /\ t[k - 1] = call
    BY <1>1, <1>5, <2>1
  <2> QED
    BY <1>1, <1>3, <2>2 DEF Has
<1> QED
  BY <1>1, <1>2, <1>4, <1>5

\* Two lists one after the other.
LEMMA DmoConcat ==
  ASSUME NEW s \in Seq(DmoNames), NEW t \in Seq(DmoNames), NEW r, r = s \o t
  PROVE  /\ r \in Seq(DmoNames)
         /\ DmoOrdered(s) /\ DmoOrdered(t) => DmoOrdered(r)
         /\ \A call : Has(r, call) <=> Has(s, call) \/ Has(t, call)
<1>1. /\ r \in Seq(DmoNames) /\ Len(s) \in Nat /\ Len(t) \in Nat /\ Len(r) = Len(s) + Len(t)
      /\ \A k \in 1..Len(s) : r[k] = s[k]
      /\ \A k \in 1..Len(t) : r[k + Len(s)] = t[k]
      /\ \A k \in 1..Len(r) : k \in 1..Len(s) \/ (k - Len(s) \in 1..Len(t) /\ r[k] = t[k - Len(s)])
  BY ConcatProperties
<1>2. ASSUME DmoOrdered(s), DmoOrdered(t)
      PROVE  DmoOrdered(r)
  <2> SUFFICES ASSUME NEW k \in 1..Len(r)
               PROVE  /\ r[k] = "factory" => k + 1 \in 1..Len(r) /\ r[k + 1] = "instance"
                      /\ r[k] = "instance" => k + 1 \in 1..Len(r) /\ r[k + 1] = "query"
    BY DEF DmoOrdered
  <2>1. CASE k \in 1..Len(s)
    BY <1>1, <1>2, <2>1 DEF DmoOrdered
  <2>2. CASE k \notin 1..Len(s)
    <3>1. k - Len(s) \in 1..Len(t) /\ r[k] = t[k - Len(s)]
      BY <1>1, <2>2
    <3>2. /\ t[k - Len(s)] = "factory" => (k - Len(s)) + 1 \in 1..Len(t) /\ t[(k - Len(s)) + 1] = "instance"
          /\ t[k - Len(s)] = "instance" => (k - Len(s)) + 1 \in 1..Len(t) /\ t[(k - Len(s)) + 1] = "query"
      BY <1>2, <3>1 DEF DmoOrdered
    <3>3. ASSUME (k - Len(s)) + 1 \in 1..Len(t)
          PROVE  k + 1 \in 1..Len(r) /\ r[k + 1] = t[(k - Len(s)) + 1]
      <4>1. ((k - Len(s)) + 1) + Len(s) = k + 1
        BY <1>1
      <4>2. r[((k - Len(s)) + 1) + Len(s)] = t[(k - Len(s)) + 1]
        BY <1>1, <3>3
      <4> QED
        BY <1>1, <3>3, <4>1, <4>2
    <3> QED
      BY <3>1, <3>2, <3>3
  <2> QED
    BY <2>1, <2>2
<1>3. ASSUME NEW call
      PROVE  Has(r, call) <=> Has(s, call) \/ Has(t, call)
  <2>1. ASSUME NEW k \in 1..Len(t), t[k] = call PROVE Has(r, call)
    <3>1. k + Len(s) \in 1..Len(r) /\ r[k + Len(s)] = call
      BY <1>1, <2>1
    <3> QED
      BY <3>1 DEF Has
  <2>2. ASSUME NEW k \in 1..Len(s), s[k] = call PROVE Has(r, call)
    <3>1. k \in 1..Len(r) /\ r[k] = call
      BY <1>1, <2>2
    <3> QED
      BY <3>1 DEF Has
  <2>3. ASSUME NEW k \in 1..Len(r), r[k] = call PROVE Has(s, call) \/ Has(t, call)
    BY <1>1, <2>3 DEF Has
  <2> QED
    BY <2>1, <2>2, <2>3 DEF Has
<1> QED
  BY <1>1, <1>2, <1>3

\* The lists of the four Open functions are ordered, and ask for the interfaces and for
\* both types.
Complete(s) ==
  /\ s \in Seq(DmoNames) /\ s # <<>> /\ DmoOrdered(s)
  /\ Has(s, "query") /\ Has(s, "setInput") /\ Has(s, "setOutput")

DmoGood(s) == s \in Seq(DmoNames) /\ DmoOrdered(s)

\* Short lists of other calls.
LEMMA DmoShort ==
  ASSUME NEW a \in DmoNames \ {"factory", "instance"}, NEW b \in DmoNames \ {"factory", "instance"},
         NEW c \in DmoNames \ {"factory", "instance"}
  PROVE  /\ DmoGood(<<>>) /\ DmoGood(<<a>>) /\ DmoGood(<<a, b>>) /\ DmoGood(<<a, b, c>>)
         /\ Has(<<a, b>>, a) /\ Has(<<a, b>>, b)
         /\ Has(<<a, b, c>>, a) /\ Has(<<a, b, c>>, b) /\ Has(<<a, b, c>>, c)
<1>1. DmoGood(<<>>)
  BY DEF DmoGood, DmoOrdered
<1>2. DmoGood(<<a>>)
  BY DEF DmoGood, DmoOrdered
<1>3. DmoGood(<<a, b>>)
  BY DEF DmoGood, DmoOrdered
<1>4. DmoGood(<<a, b, c>>)
  BY DEF DmoGood, DmoOrdered
<1>5. /\ Has(<<a, b>>, a) /\ Has(<<a, b>>, b)
      /\ Has(<<a, b, c>>, a) /\ Has(<<a, b, c>>, b) /\ Has(<<a, b, c>>, c)
  BY DEF Has
<1> QED
  BY <1>1, <1>2, <1>3, <1>4, <1>5

LEMMA DmoJoin ==
  ASSUME NEW s, NEW t, DmoGood(s), DmoGood(t)
  PROVE  DmoGood(s \o t) /\ \A call : Has(s \o t, call) <=> Has(s, call) \/ Has(t, call)
BY DmoConcat DEF DmoGood

\* The list of each element sets up a whole codec.
LEMMA DmoLists ==
  /\ Complete(Dmo!DecoderCalls)
  /\ \A b \in BOOLEAN : Complete(Dmo!AudioEncoderCalls(b)) /\ Complete(Dmo!VideoEncoderCalls(b))
<1>2. DmoGood(Dmo!CreateCalls) /\ Has(Dmo!CreateCalls, "query")
  <2> DEFINE c == <<"library", "entry", "factory", "instance", "query">>
  <2>1. c \in Seq(DmoNames) /\ Len(c) = 5
    BY DEF DmoNames
  <2>2. c[1] = "library" /\ c[2] = "entry" /\ c[3] = "factory" /\ c[4] = "instance" /\ c[5] = "query"
    OBVIOUS
  <2>3. \A k \in 1..5 : k \in {1, 2, 3, 4, 5}
    OBVIOUS
  <2> HIDE DEF c
  <2>4. DmoOrdered(c) /\ Has(c, "query")
    BY <2>1, <2>2, <2>3 DEF DmoOrdered, Has
  <2> QED
    BY <2>1, <2>4 DEF c, Dmo!CreateCalls, DmoGood
<1>3. {"setInput", "setOutput", "outSize", "inSize", "setProperty", "lookup", "getProperty",
       "discontinuity", "setPartial"} \subseteq DmoNames \ {"factory", "instance"}
  BY DEF DmoNames
<1>4. /\ DmoGood(<<>>) /\ DmoGood(Dmo!SizeCalls) /\ DmoGood(<<"discontinuity">>) /\ DmoGood(<<"getProperty">>)
      /\ DmoGood(<<"setProperty", "setProperty">>) /\ DmoGood(<<"setProperty", "setProperty", "setProperty">>)
  <2>1. DmoGood(<<>>)
    BY DEF DmoGood, DmoOrdered
  <2>2. DmoGood(Dmo!SizeCalls)
    <3>1. DmoGood(<<"outSize", "inSize">>)
      BY <1>3, DmoShort
    <3> QED
      BY <3>1 DEF Dmo!SizeCalls
  <2>3. DmoGood(<<"discontinuity">>) /\ DmoGood(<<"getProperty">>)
    BY <1>3, DmoShort
  <2>4. DmoGood(<<"setProperty", "setProperty">>)
    BY <1>3, DmoShort
  <2>5. DmoGood(<<"setProperty", "setProperty", "setProperty">>)
    BY <1>3, DmoShort
  <2> QED
    BY <2>1, <2>2, <2>3, <2>4, <2>5
<1>5. DmoGood(<<"setInput", "setOutput">>) /\ Has(<<"setInput", "setOutput">>, "setInput")
      /\ Has(<<"setInput", "setOutput">>, "setOutput")
  BY <1>3, DmoShort
<1>6. /\ DmoGood(<<"lookup", "setOutput", "setInput">>)
      /\ Has(<<"lookup", "setOutput", "setInput">>, "setInput")
      /\ Has(<<"lookup", "setOutput", "setInput">>, "setOutput")
  BY <1>3, DmoShort
<1>7. /\ DmoGood(<<"setInput", "setPartial", "setOutput">>)
      /\ Has(<<"setInput", "setPartial", "setOutput">>, "setInput")
      /\ Has(<<"setInput", "setPartial", "setOutput">>, "setOutput")
  BY <1>3, DmoShort
<1>8. \A s : DmoGood(s) /\ Has(s, "query") => s # <<>>
  <2>1. Len(<<>>) = 0
    OBVIOUS
  <2> QED
    BY <2>1 DEF Has
<1>9. Complete(Dmo!DecoderCalls)
  <2> DEFINE u == Dmo!CreateCalls \o <<"setInput", "setOutput">>
  <2>1. DmoGood(u) /\ Has(u, "query") /\ Has(u, "setInput") /\ Has(u, "setOutput")
    BY <1>2, <1>5, DmoJoin
  <2> HIDE DEF u
  <2>2. /\ DmoGood(u \o Dmo!SizeCalls)
        /\ Has(u \o Dmo!SizeCalls, "query") /\ Has(u \o Dmo!SizeCalls, "setInput")
        /\ Has(u \o Dmo!SizeCalls, "setOutput")
    BY <1>4, <2>1, DmoJoin
  <2> QED
    BY <1>8, <2>2 DEF u, Dmo!DecoderCalls, Complete, DmoGood
<1>10. ASSUME NEW b \in BOOLEAN
       PROVE  Complete(Dmo!AudioEncoderCalls(b))
  <2> DEFINE p == Dmo!If(b, <<"setProperty", "setProperty">>)
             q == Dmo!If(b, <<"getProperty">>)
             u == Dmo!CreateCalls \o p
             v == u \o <<"lookup", "setOutput", "setInput">>
             w == v \o q
             x == w \o Dmo!SizeCalls
             y == x \o <<"discontinuity">>
  <2>1. DmoGood(p) /\ DmoGood(q)
    BY <1>4 DEF Dmo!If
  <2>2. Dmo!AudioEncoderCalls(b) = y
    BY DEF Dmo!AudioEncoderCalls
  <2> HIDE DEF p, q
  <2>3. DmoGood(u) /\ Has(u, "query")
    BY <1>2, <2>1, DmoJoin
  <2> HIDE DEF u
  <2>4. DmoGood(v) /\ Has(v, "query") /\ Has(v, "setInput") /\ Has(v, "setOutput")
    BY <1>6, <2>3, DmoJoin
  <2> HIDE DEF v
  <2>5. DmoGood(w) /\ Has(w, "query") /\ Has(w, "setInput") /\ Has(w, "setOutput")
    BY <2>1, <2>4, DmoJoin
  <2> HIDE DEF w
  <2>6. DmoGood(x) /\ Has(x, "query") /\ Has(x, "setInput") /\ Has(x, "setOutput")
    BY <1>4, <2>5, DmoJoin
  <2> HIDE DEF x
  <2>7. DmoGood(y) /\ Has(y, "query") /\ Has(y, "setInput") /\ Has(y, "setOutput")
    BY <1>4, <2>6, DmoJoin
  <2> HIDE DEF y
  <2> QED
    BY <1>8, <2>2, <2>7 DEF Complete, DmoGood
<1>11. ASSUME NEW b \in BOOLEAN
       PROVE  Complete(Dmo!VideoEncoderCalls(b))
  <2> DEFINE p == Dmo!If(b, <<"setProperty", "setProperty", "setProperty">>)
             u == Dmo!CreateCalls \o p
             v == u \o <<"setInput", "setPartial", "setOutput">>
             x == v \o Dmo!SizeCalls
             y == x \o <<"discontinuity">>
  <2>1. DmoGood(p)
    BY <1>4 DEF Dmo!If
  <2>2. Dmo!VideoEncoderCalls(b) = y
    BY DEF Dmo!VideoEncoderCalls
  <2> HIDE DEF p
  <2>3. DmoGood(u) /\ Has(u, "query")
    BY <1>2, <2>1, DmoJoin
  <2> HIDE DEF u
  <2>4. DmoGood(v) /\ Has(v, "query") /\ Has(v, "setInput") /\ Has(v, "setOutput")
    BY <1>7, <2>3, DmoJoin
  <2> HIDE DEF v
  <2>6. DmoGood(x) /\ Has(x, "query") /\ Has(x, "setInput") /\ Has(x, "setOutput")
    BY <1>4, <2>4, DmoJoin
  <2> HIDE DEF x
  <2>7. DmoGood(y) /\ Has(y, "query") /\ Has(y, "setInput") /\ Has(y, "setOutput")
    BY <1>4, <2>6, DmoJoin
  <2> HIDE DEF y
  <2> QED
    BY <1>8, <2>2, <2>7 DEF Complete, DmoGood
<1> QED
  BY <1>9, <1>10, <1>11

-----------------------------------------------------------------------------
(* The calls *)

\* A call that was answered.
LEMMA DmoDone ==
  ASSUME DmoIInv, NEW name, Dmo!Call(name), Dmo!Done, UNCHANGED <<codec, codecs>>,
         held' \subseteq {"factory", "object"} \cup Dmo!Interfaces,
         blocks' \subseteq {"this", "filter", "data"} \cup Dmo!Headers,
         types \subseteq types', types' \subseteq {"in", "out"},
         pbFormat' \in {"null", "format", "freed", "dmo", "other"},
         codec.kind = "aenc" => "format" \notin blocks',
         name = "query" \/ "media" \in held => "media" \in held',
         name = "setInput" => "in" \in types',
         name = "setOutput" => "out" \in types',
         "factory" \in held' => name = "factory",
         "object" \in held' => name = "instance"
  PROVE  DmoIInv'
<1>1. phase = "opening" /\ Head(todo) = name /\ DmoOpening
  BY DEF DmoIInv, Dmo!Call
<1> DEFINE t == Tail(todo)
<1>2. /\ t \in Seq(DmoNames) /\ DmoOrdered(t)
      /\ name = "factory" => t # <<>> /\ Head(t) = "instance"
      /\ name = "instance" => t # <<>> /\ Head(t) = "query"
      /\ \A call : Has(todo, call) /\ name # call => t # <<>> /\ Has(t, call)
  BY <1>1, DmoRest DEF DmoOpening
<1>3. todo' = t /\ phase' = IF t = <<>> THEN "open" ELSE "opening"
  BY DEF Dmo!Done
<1> HIDE DEF t
<1>4. /\ "media" \in held' \/ (t # <<>> /\ Has(t, "query"))
      /\ "in" \in types' \/ (t # <<>> /\ Has(t, "setInput"))
      /\ "out" \in types' \/ (t # <<>> /\ Has(t, "setOutput"))
  BY <1>1, <1>2 DEF DmoOpening
<1>5. phase' = "opening" => DmoOpening'
  BY <1>2, <1>3, <1>4 DEF DmoOpening
<1>6. Dmo!TypeOK'
  BY <1>3 DEF DmoIInv, Dmo!TypeOK
<1>7. phase' = "open" => {"in", "out"} \subseteq types' /\ "media" \in held' /\ held' \subseteq Dmo!Interfaces
  BY <1>2, <1>3, <1>4
<1> QED
  BY <1>1, <1>3, <1>5, <1>6, <1>7 DEF DmoIInv

\* A call that failed: all that was acquired is given back.
LEMMA DmoFail ==
  ASSUME DmoIInv, NEW name, Dmo!Call(name), NEW rest, Dmo!FilterDestroyed(rest),
         phase' = "closed", UNCHANGED <<codec, pbFormat>>,
         blocks' \subseteq (blocks \ ({"this", "filter"} \cup Dmo!Headers)) \cup {"data"},
         name = "instance" => rest = {"factory"},
         name = "query" => rest = {"object"}
  PROVE  DmoIInv'
<1>1. phase = "opening" /\ Head(todo) = name /\ DmoOpening
  BY DEF DmoIInv, Dmo!Call
<1>2. held' = held \ (rest \cup Dmo!Interfaces) /\ codecs' = codecs - 1 /\ types' = {}
  BY DEF Dmo!FilterDestroyed
<1>3. held' = {}
  <2>1. held \subseteq {"factory", "object"} \cup Dmo!Interfaces
    BY DEF DmoIInv, Dmo!TypeOK
  <2>2. ("factory" \in held => name = "instance") /\ ("object" \in held => name = "query")
    BY <1>1 DEF DmoOpening
  <2> QED
    BY <1>2, <2>1, <2>2
<1>4. codecs' = 0
  BY <1>1, <1>2 DEF DmoIInv
<1>5. blocks' \subseteq {"data"}
  BY DEF DmoIInv, Dmo!TypeOK
<1>6. Dmo!TypeOK'
  <2>1. codec' \in [kind : Dmo!Kinds, vbr : BOOLEAN] /\ pbFormat' \in {"null", "format", "freed", "dmo", "other"}
    BY DEF DmoIInv, Dmo!TypeOK
  <2>2. codecs' \in 0..1
    BY <1>4
  <2>3. held' \subseteq {"factory", "object"} \cup Dmo!Interfaces /\ types' \subseteq {"in", "out"}
    BY <1>2, <1>3
  <2>4. blocks' \subseteq {"this", "filter", "data"} \cup Dmo!Headers
    BY <1>5
  <2> QED
    BY <2>1, <2>2, <2>3, <2>4 DEF Dmo!TypeOK
<1> QED
  BY <1>2, <1>3, <1>4, <1>5, <1>6 DEF DmoIInv

\* The label beach.
LEMMA DmoBeach ==
  ASSUME DmoIInv, NEW name, Dmo!Call(name), NEW rest, Dmo!FailReleasing(rest),
         name = "instance" => rest = {"factory"},
         name = "query" => rest = {"object"}
  PROVE  DmoIInv'
<1>1. /\ Dmo!FilterDestroyed(rest) /\ phase' = "closed" /\ UNCHANGED <<codec, pbFormat>>
      /\ blocks' \subseteq (blocks \ ({"this", "filter"} \cup Dmo!Headers)) \cup {"data"}
  BY DEF Dmo!FailReleasing
<1> QED
  BY <1>1, DmoFail

\* What is known of the state when a call is made.
LEMMA DmoCalling ==
  ASSUME DmoIInv, NEW name, Dmo!Call(name)
  PROVE  /\ held \subseteq {"factory", "object"} \cup Dmo!Interfaces
         /\ blocks \subseteq {"this", "filter", "data"} \cup Dmo!Headers
         /\ types \subseteq {"in", "out"}
         /\ pbFormat \in {"null", "format", "freed", "dmo", "other"}
         /\ codec.kind = "aenc" => "format" \notin blocks
         /\ "factory" \in held => name = "instance"
         /\ "object" \in held => name = "query"
BY DEF DmoIInv, Dmo!TypeOK, Dmo!Call, DmoOpening

\* A call after the interfaces are there.
LEMMA DmoSetsUp ==
  ASSUME DmoIInv, NEW name, Dmo!Call(name), name \notin {"factory", "instance", "query"}, Dmo!Done,
         UNCHANGED <<codec, held, codecs>>,
         blocks' \subseteq blocks \cup {"data"},
         types \subseteq types', types' \subseteq {"in", "out"},
         pbFormat' \in {"null", "format", "freed", "dmo", "other"},
         name = "setInput" => "in" \in types',
         name = "setOutput" => "out" \in types'
  PROVE  DmoIInv'
<1>1. blocks' \subseteq {"this", "filter", "data"} \cup Dmo!Headers
  BY DmoCalling
<1>2. codec.kind = "aenc" => "format" \notin blocks'
  BY DmoCalling
<1>3. "factory" \notin held' /\ "object" \notin held'
  BY DmoCalling
<1>4. held' \subseteq {"factory", "object"} \cup Dmo!Interfaces
  BY DmoCalling
<1> QED
  BY <1>1, <1>2, <1>3, <1>4, DmoDone

\* A call that neither makes an object nor sets a type.
LEMMA DmoPlain ==
  ASSUME DmoIInv, NEW name, name \notin {"factory", "instance", "query", "setInput", "setOutput"}, Dmo!Plain(name)
  PROVE  DmoIInv'
<1>1. Dmo!Call(name)
  BY DEF Dmo!Plain
<1>2. CASE Dmo!Done /\ UNCHANGED <<codec, held, blocks, codecs, types, pbFormat>>
  BY <1>1, <1>2, DmoCalling, DmoSetsUp
<1>3. CASE Dmo!Fail
  BY <1>1, <1>3, DmoBeach DEF Dmo!Fail
<1> QED
  BY <1>2, <1>3 DEF Dmo!Plain

\* The calls that get at the codec.
LEMMA DmoCreate ==
  ASSUME DmoIInv, Dmo!Create
  PROVE  DmoIInv'
<1>1. CASE Dmo!LoadLibrary \/ Dmo!FindEntry
  BY <1>1, DmoPlain DEF Dmo!LoadLibrary, Dmo!FindEntry
<1>2. CASE Dmo!GetFactory
  <2>1. Dmo!Call("factory") /\ UNCHANGED <<codec, blocks, codecs, types, pbFormat>> /\ phase = "opening"
    BY <1>2 DEF Dmo!GetFactory, Dmo!Call
  <2>2. CASE Dmo!Done /\ held' = held \cup {"factory"}
    BY <2>1, <2>2, DmoCalling, DmoDone
  <2>3. CASE phase' = "crashed" /\ UNCHANGED <<todo, held>>
    BY <2>1, <2>3 DEF DmoIInv, Dmo!TypeOK
  <2> QED
    BY <1>2, <2>2, <2>3 DEF Dmo!GetFactory
<1>3. CASE Dmo!CreateInstance
  <2>1. Dmo!Call("instance")
    BY <1>3 DEF Dmo!CreateInstance
  <2>2. CASE /\ Dmo!Done
             /\ held' = (held \ {"factory"}) \cup {"object"}
             /\ UNCHANGED <<codec, blocks, codecs, types, pbFormat>>
    <3>1. /\ "factory" \notin held' /\ ("media" \in held => "media" \in held')
          /\ held' \subseteq {"factory", "object"} \cup Dmo!Interfaces
      BY <2>1, <2>2, DmoCalling
    <3> QED
      BY <2>1, <2>2, <3>1, DmoCalling, DmoDone
  <2>3. CASE Dmo!FailReleasing({"factory"})
    BY <2>1, <2>3, DmoBeach
  <2> QED
    BY <1>3, <2>2, <2>3 DEF Dmo!CreateInstance
<1>4. CASE Dmo!QueryInterfaces
  <2>1. Dmo!Call("query")
    BY <1>4 DEF Dmo!QueryInterfaces
  <2>2. ASSUME NEW found \in SUBSET Dmo!Optional, Dmo!Done,
               held' = (held \ {"object"}) \cup {"media"} \cup found,
               UNCHANGED <<codec, blocks, codecs, types, pbFormat>>
        PROVE  DmoIInv'
    <3>1. found \subseteq Dmo!Interfaces /\ "media" \in Dmo!Interfaces /\ "factory" \notin found /\ "object" \notin found
      BY DEF Dmo!Interfaces, Dmo!Optional
    <3>2. /\ "factory" \notin held' /\ "object" \notin held' /\ "media" \in held'
          /\ held' \subseteq {"factory", "object"} \cup Dmo!Interfaces
      BY <2>1, <2>2, <3>1, DmoCalling
    <3> QED
      BY <2>1, <2>2, <3>2, DmoCalling, DmoDone
  <2>3. CASE Dmo!FailReleasing({"object"})
    BY <2>1, <2>3, DmoBeach
  <2> QED
    BY <1>4, <2>2, <2>3 DEF Dmo!QueryInterfaces
<1> QED
  BY <1>1, <1>2, <1>3, <1>4 DEF Dmo!Create

\* The calls that set it up.
LEMMA DmoSetUp ==
  ASSUME DmoIInv, Dmo!SetUp
  PROVE  DmoIInv'
<1>1. CASE Dmo!SetInputType
  <2>1. Dmo!Call("setInput")
    BY <1>1 DEF Dmo!SetInputType
  <2>2. CASE Dmo!Done /\ types' = types \cup {"in"} /\ UNCHANGED <<codec, held, blocks, codecs, pbFormat>>
    BY <2>1, <2>2, DmoCalling, DmoSetsUp
  <2>3. CASE Dmo!Fail
    BY <2>1, <2>3, DmoBeach DEF Dmo!Fail
  <2> QED
    BY <1>1, <2>2, <2>3 DEF Dmo!SetInputType
<1>2. CASE Dmo!SetOutputType
  <2>1. Dmo!Call("setOutput")
    BY <1>2 DEF Dmo!SetOutputType
  <2>2. CASE Dmo!Done /\ types' = types \cup {"out"} /\ UNCHANGED <<codec, held, blocks, codecs, pbFormat>>
    BY <2>1, <2>2, DmoCalling, DmoSetsUp
  <2>3. CASE Dmo!Fail
    BY <2>1, <2>3, DmoBeach DEF Dmo!Fail
  <2> QED
    BY <1>2, <2>2, <2>3 DEF Dmo!SetOutputType
<1>3. CASE Dmo!GetOutputSizeInfo \/ Dmo!GetInputSizeInfo
  <2>1. Dmo!Plain("outSize") \/ Dmo!Plain("inSize")
    BY <1>3 DEF Dmo!GetOutputSizeInfo, Dmo!GetInputSizeInfo, Dmo!Sizes, Dmo!Plain
  <2> QED
    BY <2>1, DmoPlain
<1>4. CASE Dmo!LookupAudioEncoderType
  BY <1>4, DmoCalling, DmoSetsUp DEF Dmo!LookupAudioEncoderType
<1>5. CASE Dmo!SetProperty
  <2>1. Dmo!Plain("setProperty")
    BY <1>5 DEF Dmo!SetProperty, Dmo!Plain
  <2> QED
    BY <2>1, DmoPlain
<1>6. CASE Dmo!GetProperty
  <2>1. CASE phase' = "crashed" /\ UNCHANGED <<codec, todo, held, blocks, codecs, types, pbFormat>>
    <3>1. phase = "opening"
      BY <1>6 DEF Dmo!GetProperty, Dmo!Call
    <3> QED
      BY <2>1, <3>1 DEF DmoIInv, Dmo!TypeOK
  <2>2. CASE Dmo!Plain("getProperty")
    BY <2>2, DmoPlain
  <2> QED
    BY <1>6, <2>1, <2>2 DEF Dmo!GetProperty, Dmo!Plain
<1>7. CASE Dmo!SetPartialOutputType
  <2>1. Dmo!Call("setPartial")
    BY <1>7 DEF Dmo!SetPartialOutputType
  <2>2. CASE /\ Dmo!Done
             /\ \/ UNCHANGED <<blocks, pbFormat>>
                \/ /\ blocks' = blocks \cup {"data"}
                   /\ pbFormat' \in {"format", "freed"}
             /\ UNCHANGED <<codec, held, codecs, types>>
    BY <2>1, <2>2, DmoCalling, DmoSetsUp
  <2>3. CASE Dmo!Fail
    BY <2>1, <2>3, DmoBeach DEF Dmo!Fail
  <2>4. CASE /\ Dmo!FilterDestroyed({})
             /\ blocks' = (blocks \ ({"this", "filter"} \cup Dmo!Headers)) \cup {"data"}
             /\ phase' = "closed" /\ todo' = <<>>
             /\ UNCHANGED <<codec, pbFormat>>
    BY <2>1, <2>4, DmoFail
  <2> QED
    BY <1>7, <2>2, <2>3, <2>4 DEF Dmo!SetPartialOutputType
<1>8. CASE Dmo!Discontinuity
  BY <1>8, DmoPlain DEF Dmo!Discontinuity
<1> QED
  BY <1>1, <1>2, <1>3, <1>4, <1>5, <1>6, <1>7, <1>8 DEF Dmo!SetUp

\* Open and Destroy.
LEMMA DmoStarts ==
  ASSUME DmoIInv, NEW kind \in Dmo!Kinds, NEW b \in BOOLEAN, NEW headers \in SUBSET Dmo!Headers,
         kind = "aenc" => "format" \notin headers, NEW calls, Complete(calls),
         Dmo!Starts(kind, b, headers, calls)
  PROVE  DmoIInv'
<1>1. /\ phase = "closed" /\ phase' = "opening" /\ codec' = [kind |-> kind, vbr |-> b] /\ todo' = calls
      /\ blocks' = blocks \cup {"this", "filter"} \cup headers
      /\ codecs' = codecs + 1 /\ held' = held /\ types' = types
      /\ pbFormat' \in {"null", "format"}
  BY DEF Dmo!Starts
<1>2. held = {} /\ types = {} /\ codecs = 0 /\ blocks \subseteq {"this", "data"}
  BY <1>1 DEF DmoIInv
<1>3. Dmo!TypeOK'
  <2>1. codec' \in [kind : Dmo!Kinds, vbr : BOOLEAN]
    BY <1>1
  <2>2. blocks' \subseteq {"this", "filter", "data"} \cup Dmo!Headers
    BY <1>1, <1>2
  <2>3. codecs' \in 0..1 /\ held' = {} /\ types' = {}
    BY <1>1, <1>2
  <2> QED
    BY <1>1, <2>1, <2>2, <2>3 DEF Dmo!TypeOK
<1>4. DmoOpening'
  BY <1>1, <1>2 DEF DmoOpening, Complete
<1>5. codec'.kind = "aenc" => "format" \notin blocks'
  BY <1>1, <1>2
<1> QED
  BY <1>1, <1>2, <1>3, <1>4, <1>5 DEF DmoIInv

\* An open begins with nothing held.
LEMMA DmoOpen ==
  ASSUME DmoIInv, Dmo!Open
  PROVE  DmoIInv'
<1>1. {"adec", "vdec", "aenc", "venc"} \subseteq Dmo!Kinds /\ {"header"} \subseteq Dmo!Headers /\ "format" \notin {"header"}
  BY DEF Dmo!Kinds, Dmo!Headers
<1>2. CASE Dmo!OpenAudioDecoder \/ Dmo!OpenVideoDecoder
  BY <1>1, <1>2, DmoLists, DmoStarts DEF Dmo!OpenAudioDecoder, Dmo!OpenVideoDecoder
<1>3. CASE Dmo!OpenAudioEncoder
  BY <1>1, <1>3, DmoLists, DmoStarts DEF Dmo!OpenAudioEncoder
<1>4. CASE Dmo!OpenVideoEncoder
  BY <1>1, <1>4, DmoLists, DmoStarts DEF Dmo!OpenVideoEncoder
<1> QED
  BY <1>2, <1>3, <1>4 DEF Dmo!Open

\* A close, and the private data that is taken after it.
LEMMA DmoDestroy ==
  ASSUME DmoIInv, Dmo!Destroy \/ Dmo!TakeData
  PROVE  DmoIInv'
<1>1. CASE Dmo!TakeData
  BY <1>1 DEF DmoIInv, Dmo!TypeOK, Dmo!TakeData
<1>2. CASE Dmo!Destroy
  <2>1. PICK headers \in {Dmo!Headers, {"header"}} :
          Dmo!Closes(headers) /\ (headers # Dmo!Headers => codec.kind = "aenc")
    BY <1>2 DEF Dmo!Destroy, Dmo!DestroyAudioDecoder, Dmo!DestroyVideoDecoder,
               Dmo!DestroyAudioEncoder, Dmo!DestroyVideoEncoder
  <2>2. /\ phase = "open" /\ phase' = "closed"
        /\ held' = held \ Dmo!Interfaces /\ codecs' = codecs - 1 /\ types' = {}
        /\ blocks' = blocks \ ({"filter"} \cup headers) /\ UNCHANGED <<codec, pbFormat>>
    BY <2>1 DEF Dmo!Closes, Dmo!FilterDestroyed
  <2>3. held' = {} /\ codecs' = 0
    BY <2>2 DEF DmoIInv
  <2>4. blocks' \subseteq {"this", "data"}
    BY <2>1, <2>2 DEF DmoIInv, Dmo!TypeOK, Dmo!Headers
  <2>5. blocks' \subseteq {"this", "filter", "data"} \cup Dmo!Headers
    BY <2>4
  <2>6. Dmo!TypeOK'
    <3>1. codec' \in [kind : Dmo!Kinds, vbr : BOOLEAN]
      BY <2>2 DEF DmoIInv, Dmo!TypeOK
    <3>2. pbFormat' \in {"null", "format", "freed", "dmo", "other"}
      BY <2>2 DEF DmoIInv, Dmo!TypeOK
    <3>6. phase' \in {"closed", "opening", "open", "crashed"}
      BY <2>2
    <3>3. codecs' \in 0..1
      BY <2>3
    <3>4. held' \subseteq {"factory", "object"} \cup Dmo!Interfaces
      BY <2>3
    <3>5. types' \subseteq {"in", "out"}
      BY <2>2
    <3> QED
      BY <2>5, <3>1, <3>2, <3>3, <3>4, <3>5, <3>6 DEF Dmo!TypeOK, DmoIInv
  <2> QED
    BY <2>2, <2>3, <2>4, <2>6 DEF DmoIInv
<1> QED
  BY <1>1, <1>2

\* The invariant holds at first ...
LEMMA DmoInit == Dmo!Init => DmoIInv
BY DEF Dmo!Init, DmoIInv, Dmo!TypeOK, Dmo!Kinds

\* ... and is kept by every step.
LEMMA DmoStep == DmoIInv /\ Dmo!Next => DmoIInv'
BY DmoOpen, DmoCreate, DmoSetUp, DmoDestroy DEF Dmo!Next

\* What the invariant says of the filter.
LEMMA DmoHolds ==
  ASSUME DmoIInv
  PROVE  Dmo!AllOrNothing /\ Dmo!OpenIsComplete
BY DEF DmoIInv, Dmo!TypeOK, Dmo!AllOrNothing, Dmo!OpenIsComplete

-----------------------------------------------------------------------------
(* The settings of an encoder *)

\* A set of numbers has a least one.
LEMMA LeastOf ==
  ASSUME NEW T \in SUBSET Nat, T # {}
  PROVE  \E m \in T : \A k \in T : m <= k
<1>1. IsWellFoundedOn(OpToRel(<, Nat), Nat)
  BY NatLessThanWellFounded
<1> DEFINE R == OpToRel(<, Nat)
<1>2. \A x, y \in Nat : <<x, y>> \in R <=> x < y
  BY DEF OpToRel
<1>3. PICK m \in T : \A y \in T : ~(<<y, m>> \in R)
  <2> HIDE DEF R
  <2>1. IsWellFoundedOn(R, Nat)
    BY <1>1 DEF R
  <2> QED
    BY <2>1, WFMin, Zenon
<1> HIDE DEF R
<1>4. ASSUME NEW k \in T PROVE m <= k
  <2>1. k \in Nat /\ m \in Nat /\ ~(<<k, m>> \in R)
    BY <1>3
  <2>2. ~(k < m)
    BY <2>1, <1>2
  <2> QED
    BY <2>1, <2>2
<1> QED
  BY <1>4

\* What is looked up is offered, and matches if anything does.
LEMMA Looked ==
  ASSUME NEW s \in Settings!Sounds
  PROVE  \E i \in DOMAIN Offered : Settings!Lookup(s) = Offered[i]
<1>1. PICK j \in DOMAIN Offered : s = Offered[j].sound
  BY DEF Settings!Sounds
<1>2. Len(Offered) \in Nat /\ DOMAIN Offered = 1..Len(Offered)
  BY SettingsAssumption
<1> DEFINE T == {i \in 1..Len(Offered) : Settings!Matches(Offered[i], s)}
<1>3. CASE \E i \in DOMAIN Offered : Settings!Matches(Offered[i], s)
  <2>1. T \in SUBSET Nat /\ T # {}
    BY <1>2, <1>3
  <2>2. PICK m \in T : \A k \in T : m <= k
    <3> HIDE DEF T
    <3> QED
      BY <2>1, LeastOf
  <2>3. Settings!SelectInSeq(Offered, LAMBDA t : Settings!Matches(t, s)) \in T
    <3>1. Settings!SelectInSeq(Offered, LAMBDA t : Settings!Matches(t, s)) = CHOOSE x \in T : \A y \in T : x <= y
      BY <2>1 DEF Settings!SelectInSeq, Settings!Min
    <3> HIDE DEF T
    <3> QED
      BY <2>2, <3>1
  <2>4. Settings!Lookup(s) = Offered[Settings!SelectInSeq(Offered, LAMBDA t : Settings!Matches(t, s))]
    BY <1>3 DEF Settings!Lookup
  <2> QED
    BY <1>2, <2>3, <2>4
<1>4. CASE ~ \E i \in DOMAIN Offered : Settings!Matches(Offered[i], s)
  <2>1. Settings!Lookup(s) = Offered[Len(Offered)]
    BY <1>4 DEF Settings!Lookup, Settings!Last
  <2> QED
    BY <1>1, <1>2, <2>1
<1> QED
  BY <1>3, <1>4

SettingsIInv == Settings!ToldIsEncoded /\ bitrate \in Nat

\* The invariant holds at first ...
LEMMA SettingsInit == Settings!Init => SettingsIInv
BY SettingsAssumption DEF Settings!Init, SettingsIInv, Settings!ToldIsEncoded

\* Caps that are set on an audio encoder.
LEMMA SettingsCaps ==
  ASSUME SettingsIInv, NEW s \in Settings!Sounds, Settings!SetCapsAenc(s)
  PROVE  SettingsIInv'
<1>1. PICK i \in DOMAIN Offered : Settings!Lookup(s) = Offered[i]
  BY Looked
<1> DEFINE t == Offered[i]
<1>2. t = TypeOf(t.sound, t.bytes) /\ t.bytes \in Nat
  BY SettingsAssumption
<1>3. PICK average \in IF vbr THEN Averages ELSE {t.bytes} :
        /\ type' = [t EXCEPT !.bytes = average]
        /\ bitrate' = average * 8
        /\ refused' \/ told' = [sound |-> s, bitrate |-> bitrate']
  BY <1>1 DEF Settings!SetCapsAenc, Settings!Tell
<1>4. average \in Nat
  BY <1>2, <1>3, SettingsAssumption
<1>5. strayed' = (strayed \/ vbr \/ ~Settings!Matches(t, s)) /\ UNCHANGED <<encoder, vbr, quality, asked>>
  BY <1>1 DEF Settings!SetCapsAenc
<1>6. type' = TypeOf(t.sound, average)
  BY <1>2, <1>3 DEF TypeOf
<1>7. ASSUME ~strayed' PROVE t.sound = s /\ bitrate' \div 8 = asked' \div 8
  <2>1. ~strayed /\ ~vbr /\ t.sound = s /\ t.bytes = bitrate \div 8
    BY <1>5, <1>7 DEF Settings!Matches, Settings!Target
  <2>2. average = t.bytes /\ (average * 8) \div 8 = average
    BY <1>3, <1>4, <2>1
  <2> QED
    BY <1>3, <1>5, <2>1, <2>2 DEF SettingsIInv, Settings!ToldIsEncoded
<1> HIDE DEF t
<1>8. /\ refused' \/ (told'.sound = s /\ told'.bitrate = average * 8)
      /\ type'.sound = t.sound /\ type'.bytes = average
  BY <1>3, <1>6 DEF TypeOf
<1> QED
  BY <1>3, <1>4, <1>7, <1>8 DEF SettingsIInv, Settings!ToldIsEncoded

\* ... and is kept by every step.
LEMMA SettingsStep == SettingsIInv /\ Settings!Next => SettingsIInv'
<1> SUFFICES ASSUME SettingsIInv, Settings!Next PROVE SettingsIInv'
  OBVIOUS
<1>1. CASE Settings!SetProperty
  BY <1>1, SettingsAssumption DEF Settings!SetProperty, SettingsIInv, Settings!ToldIsEncoded
<1>2. CASE Settings!SetCapsFails
  BY <1>2 DEF Settings!SetCapsFails, SettingsIInv, Settings!ToldIsEncoded
<1>3. ASSUME NEW s \in Settings!Sounds, Settings!SetCapsVenc(s) PROVE SettingsIInv'
  BY <1>3 DEF Settings!SetCapsVenc, Settings!Tell, SettingsIInv, Settings!ToldIsEncoded
<1> QED
  BY <1>1, <1>2, <1>3, SettingsCaps DEF Settings!Next

-----------------------------------------------------------------------------
(* The formats of a pin *)

\* A header is a record of its two fields.
Whole(h) == h = Pins!Of(h.format, h.down) /\ h \in VideoHeaders

PinsIInv ==
  /\ Pins!TypesFit
  /\ Whole(obh) /\ Whole(decoder)
  /\ stage \in {"connect", "flip", "caps"} => pinType = "RGB24"
  /\ stage \in {"connect", "flip"} => tried = 0 /\ subtype = "RGB24" /\ obh.format = "RGB24"
  /\ stage = "caps" => tried \in 0..(Len(Check) - 1) /\ obh.format = "RGB24" /\ decoder.format = "RGB24"
  /\ stage \in {"open", "format"} => Pins!Fits(subtype, obh) /\ Pins!Fits(pinType, decoder)
  /\ stage = "format" => vhdr2 = obh
  /\ stage \in {"flip", "caps", "open", "format"} => Whole(vhdr2)
  /\ stale \in BOOLEAN /\ (enumType # None /\ ~stale => enumType = pinType)


\* A header of a known format is whole, and keeps its orientation when the format changes.
LEMMA HeaderFacts ==
  ASSUME NEW f \in Pins!Yuv \cup Rgb \cup {"RGB24"}, NEW d \in BOOLEAN
  PROVE  /\ Whole(Pins!Of(f, d)) /\ Pins!Of(f, d) # None
         /\ Pins!Of(f, d).format = f /\ Pins!Of(f, d).down = d
         /\ \A h : Whole(h) => [h EXCEPT !.format = f] = Pins!Of(f, h.down) /\ h.down \in BOOLEAN
BY FormatsAssumption DEF Pins!Of, Pins!Yuv, VideoHeaders, Whole

LEMMA HeaderIsThere == \A h : Whole(h) => h # None /\ h.format \in Pins!Yuv \cup Rgb \cup {"RGB24"} /\ h.down \in BOOLEAN
BY FormatsAssumption DEF Whole, VideoHeaders, Pins!Yuv, Pins!Of

LEMMA FirstFormat == Check[1] \in Pins!Yuv /\ Len(Check) \in Nat /\ 0 \in 0..(Len(Check) - 1)
BY FormatsAssumption DEF Pins!Yuv

LEMMA NotBoth == Noted \notin Rgb /\ Rgb \cap Pins!Yuv = {}
BY FormatsAssumption DEF Pins!Yuv

\* The invariant holds at first.
LEMMA PinsInit == Pins!Init => PinsIInv
<1>1. Whole(Pins!Of("RGB24", FALSE))
  BY HeaderFacts
<1> QED
  BY <1>1 DEF Pins!Init, PinsIInv, Pins!TypesFit, Pins!RGB24

\* It is kept up to the first format that is tried, and when the decoder goes ...
LEMMA PinsOpens ==
  ASSUME PinsIInv, Pins!Open \/ Pins!Connected \/ Pins!FlipAnswered \/ Pins!Destroy
  PROVE  PinsIInv'
<1>1. /\ \A d \in BOOLEAN : Whole(Pins!Of("RGB24", d)) /\ Pins!Of("RGB24", d).format = "RGB24"
  BY HeaderFacts
<1>2. CASE Pins!Open
  BY <1>1, <1>2 DEF Pins!Open, PinsIInv, Pins!TypesFit, Pins!RGB24, Pins!Unseen, Pins!looking
<1>3. ASSUME NEW o, Whole(o), o.format = "RGB24", Pins!Probe(o), Pins!Unseen, pinType = "RGB24",
             tried = 0, UNCHANGED <<tried, pinType, stale>>, stale \in BOOLEAN, enumType # None /\ ~stale => enumType = pinType
      PROVE  PinsIInv'
  <2>1. Whole([o EXCEPT !.format = Check[1]])
    <3>1. [o EXCEPT !.format = Check[1]] = Pins!Of(Check[1], o.down) /\ o.down \in BOOLEAN
      BY <1>3, HeaderFacts, FirstFormat
    <3> QED
      BY <3>1, HeaderFacts, FirstFormat
  <2> QED
    BY <1>3, <2>1, FirstFormat DEF Pins!Probe, PinsIInv, Pins!TypesFit, Pins!RGB24, Pins!Unseen, Pins!looking
<1>4. CASE Pins!Connected
  BY <1>1, <1>3, <1>4 DEF Pins!Connected, PinsIInv, Pins!TypesFit, Pins!RGB24, Pins!Unseen, Pins!looking
<1>5. CASE Pins!FlipAnswered
  BY <1>1, <1>3, <1>5 DEF Pins!FlipAnswered, PinsIInv, Pins!RGB24
<1>6. CASE Pins!Destroy
  BY <1>6 DEF Pins!Destroy, PinsIInv, Pins!TypesFit, Pins!Unseen, Pins!looking
<1> QED
  BY <1>2, <1>4, <1>5, <1>6

\* ... by each answer to one ...
LEMMA PinsCaps ==
  ASSUME PinsIInv, Pins!CapsAnswered
  PROVE  PinsIInv'
<1> DEFINE next == IF tried' = Len(Check) THEN "RGB24" ELSE Check[tried' + 1]
<1>1. /\ stage = "caps" /\ tried' = tried + 1 /\ tried \in 0..(Len(Check) - 1)
      /\ stage' = IF tried' = Len(Check) THEN "open" ELSE "caps"
      /\ subtype' = next /\ vhdr2' = [vhdr2 EXCEPT !.format = next]
      /\ copy' = None /\ UNCHANGED <<obh, decoder, pinType, stale, enumType>>
  BY DEF Pins!CapsAnswered, PinsIInv, Pins!RGB24, Pins!Unseen, Pins!looking
<1>2. tried' # Len(Check) => tried' \in 0..(Len(Check) - 1) /\ tried' + 1 \in DOMAIN Check
  BY <1>1, FormatsAssumption
<1>3. next \in Pins!Yuv \cup Rgb \cup {"RGB24"} /\ (tried' = Len(Check) => next = "RGB24")
  BY <1>2 DEF Pins!Yuv
<1> HIDE DEF next
<1>4. Whole(vhdr2) /\ Whole(vhdr2') /\ vhdr2'.format = next
  <2>1. Whole(vhdr2) /\ vhdr2.down \in BOOLEAN
    BY <1>1, HeaderIsThere DEF PinsIInv
  <2> QED
    BY <1>1, <1>3, <2>1, HeaderFacts
<1> QED
  BY <1>1, <1>2, <1>3, <1>4 DEF PinsIInv, Pins!TypesFit, Pins!Fits

\* ... by a request for another format ...
LEMMA PinsSetDestFmt ==
  ASSUME PinsIInv, NEW f \in Rgb \cup Pins!Yuv \cup {"other"}, Pins!SetDestFmt(f)
  PROVE  PinsIInv'
<1>1. /\ stage = "open" /\ Pins!Requested(f) /\ copy' = None
      /\ UNCHANGED <<tried, m_Caps, decoder, pinType, stale, enumType>>
      /\ \/ vhdr2' = decoder /\ stage' = "open"
         \/ stage' = "format" /\ vhdr2' = obh'
  BY DEF Pins!SetDestFmt, Pins!Restored, Pins!Unseen, Pins!looking
<1>2. Whole(obh) /\ obh.format \in Pins!Yuv \cup Rgb \cup {"RGB24"} /\ obh.down \in BOOLEAN /\ Pins!Fits(subtype, obh)
  BY <1>1, HeaderIsThere DEF PinsIInv
<1>3. Whole(obh') /\ Pins!Fits(subtype', obh')
  <2>1. CASE f \in Rgb
    <3>1. subtype' = f /\ obh' = [obh EXCEPT !.format = f]
      BY <1>1, <2>1, NotBoth DEF Pins!Requested
    <3> QED
      BY <1>2, <2>1, <3>1, HeaderFacts DEF Pins!Fits
  <2>2. CASE f \notin Rgb /\ f = Noted
    BY <1>1, <1>2, <2>2 DEF Pins!Requested, Pins!Fits
  <2>3. CASE f \notin Rgb /\ f # Noted /\ f \in Pins!Yuv
    <3>1. subtype' = f /\ obh' = Pins!Of(f, TRUE)
      BY <1>1, <2>3 DEF Pins!Requested
    <3> QED
      BY <2>3, <3>1, HeaderFacts DEF Pins!Fits
  <2>4. CASE f \notin Rgb /\ f # Noted /\ f \notin Pins!Yuv
    BY <1>1, <1>2, <2>4 DEF Pins!Requested, Pins!Fits
  <2> QED
    BY <2>1, <2>2, <2>3, <2>4
<1> QED
  BY <1>1, <1>3 DEF PinsIInv, Pins!TypesFit, Pins!Fits

\* ... by its answer ...
LEMMA PinsAnswer ==
  ASSUME PinsIInv, Pins!Refused \/ Pins!Accepted
  PROVE  PinsIInv'
<1>1. CASE Pins!Refused
  BY <1>1 DEF Pins!Refused, Pins!Restored, PinsIInv, Pins!TypesFit, Pins!Fits, Pins!Unseen, Pins!looking
<1>2. CASE Pins!Accepted
  BY <1>2 DEF Pins!Accepted, PinsIInv, Pins!TypesFit, Pins!Fits, Pins!Unseen, Pins!looking
<1> QED
  BY <1>1, <1>2

\* What the codec is given is the header in use.
LEMMA PinsGiven ==
  ASSUME PinsIInv, NEW sub, NEW old \in BOOLEAN, Pins!Alive, Pins!Given(sub, old), ~old => sub = pinType,
         UNCHANGED <<Pins!decoderVars, stale, enumType>>
  PROVE  PinsIInv'
<1>1. UNCHANGED <<stage, tried, subtype, vhdr2, obh, decoder, pinType, stale, enumType>>
  BY DEF Pins!decoderVars
<1>2. copy'.subtype = sub /\ copy'.header = vhdr2 /\ copy'.late = (old \/ stage # "open")
  BY DEF Pins!Given
<1>3. ~copy'.late => copy'.header # None /\ Pins!Fits(copy'.subtype, copy'.header)
  BY <1>2, HeaderIsThere DEF PinsIInv, Pins!TypesFit, Pins!Fits
<1> QED
  BY <1>1, <1>3 DEF PinsIInv, Pins!TypesFit, Pins!Fits

\* ... when the codec looks ...
LEMMA PinsLook ==
  ASSUME PinsIInv,
         \/ Pins!ConnectionMediaType \/ Pins!EnumMediaTypes \/ Pins!EnumNext \/ Pins!EnumRelease
         \/ Pins!SampleSetMediaType \/ Pins!SampleGetMediaType
  PROVE  PinsIInv'
<1>1. CASE Pins!ConnectionMediaType
  BY <1>1, PinsGiven DEF Pins!ConnectionMediaType
<1>2. CASE Pins!EnumMediaTypes
  BY <1>2 DEF Pins!EnumMediaTypes, Pins!decoderVars, PinsIInv, Pins!TypesFit, Pins!Fits
<1>3. CASE Pins!EnumNext
  BY <1>3, PinsGiven DEF Pins!EnumNext, PinsIInv
<1>4. CASE Pins!EnumRelease
  BY <1>4 DEF Pins!EnumRelease, Pins!decoderVars, PinsIInv, Pins!TypesFit, Pins!Fits
<1>5. CASE Pins!SampleSetMediaType
  BY <1>5 DEF Pins!SampleSetMediaType, Pins!decoderVars, PinsIInv, Pins!TypesFit, Pins!Fits
<1>6. CASE Pins!SampleGetMediaType
  <2>1. stage' \in {stage, "crashed"}
    BY <1>6 DEF Pins!SampleGetMediaType
  <2> QED
    BY <1>6, <2>1 DEF Pins!SampleGetMediaType, Pins!Unseen, Pins!looking, PinsIInv, Pins!TypesFit, Pins!Fits
<1> QED
  BY <1>1, <1>2, <1>3, <1>4, <1>5, <1>6

\* ... and so by every step.
LEMMA PinsStep == PinsIInv /\ Pins!FormatNext => PinsIInv'
BY PinsOpens, PinsCaps, PinsSetDestFmt, PinsAnswer, PinsLook DEF Pins!FormatNext, Pins!Question

-----------------------------------------------------------------------------
(* The sample of a frame *)

\* A sample: its memory is one of those that the frames so far could have moved it to.
Sound(s) ==
  s \in Samples /\ s.block <= frame.id + 1 /\ s.actual_size <= s.size

InputIInv ==
  /\ Input!SampleTells
  /\ frame.id \in 0..MaxFrames /\ DOMAIN content = Input!Blocks
  /\ sample # None => Sound(sample)
  /\ within => /\ sample # None /\ content[sample.block] = frame.id
               /\ ~marked => /\ sample.actual_size = frame.size
                             /\ sample.isSyncPoint = frame.key /\ sample.isPreroll = ~frame.shown


LEMMA LeastSize == Input!Least \in FrameSizes /\ FrameSizes \subseteq Nat
BY LeastOf, SampleAssumption DEF Input!Least

\* The invariant holds at first.
LEMMA InputInit == Input!Init => InputIInv
BY LeastSize, SampleAssumption DEF Input!Init, InputIInv, Input!SampleTells, Input!Blocks

\* It is kept by a new sample ...
LEMMA InputOpen ==
  ASSUME InputIInv, Input!Open
  PROVE  InputIInv'
<1>1. PICK sync \in BOOLEAN : sample' = Input!CMediaSampleCreate(Input!Least, sync)
  BY DEF Input!Open
<1>2. ~within /\ UNCHANGED <<frame, within, seen, marked>> /\ DOMAIN content' = Input!Blocks
  BY DEF Input!Open, InputIInv
<1>3. Sound(sample)'
  BY <1>1, <1>2, LeastSize, SampleAssumption DEF Input!CMediaSampleCreate, Sound, Samples, InputIInv
<1> QED
  BY <1>2, <1>3 DEF InputIInv, Input!SampleTells

\* ... by a frame, which may move the sample's memory ...
LEMMA InputDecode ==
  ASSUME InputIInv, Input!Decode
  PROVE  InputIInv'
<1>1. PICK n \in FrameSizes, key \in BOOLEAN, shown \in BOOLEAN, to \in {sample.block, sample.block + 1} :
        LET f == [id |-> frame.id + 1, size |-> n, key |-> key, shown |-> shown] IN
        Input!Filled(sample, f, to) /\ frame' = f
  BY DEF Input!Decode
<1> DEFINE f == [id |-> frame.id + 1, size |-> n, key |-> key, shown |-> shown]
           longer == Input!SetActualDataLength(sample, n, to)
<1>2. /\ sample # None /\ frame.id \in 0..MaxFrames /\ frame.id < MaxFrames
      /\ within' /\ seen' = None /\ marked' = FALSE /\ n \in Nat
      /\ Sound(sample) /\ DOMAIN content = Input!Blocks
  BY LeastSize DEF Input!Decode, InputIInv
<1>3. /\ content' = [content EXCEPT ![longer.block] = frame.id + 1]
      /\ sample' = [longer EXCEPT !.isSyncPoint = key, !.isPreroll = ~shown]
      /\ frame'.id = frame.id + 1 /\ frame'.size = n /\ frame'.key = key /\ frame'.shown = shown
  BY <1>1 DEF Input!Filled, Input!SetPreroll, Input!SetSyncPoint, Input!GetPointer
<1>4. longer = [block |-> IF n > sample.size THEN to ELSE sample.block,
                size |-> IF n > sample.size THEN n ELSE sample.size, actual_size |-> n,
                isSyncPoint |-> sample.isSyncPoint, isPreroll |-> sample.isPreroll,
                isDiscontinuity |-> sample.isDiscontinuity, time |-> sample.time]
  BY <1>2 DEF Sound, Samples, Input!SetActualDataLength
<1> HIDE DEF longer
<1>5. /\ sample.block \in 1..(frame.id + 1) /\ sample.size \in FrameSizes /\ sample.isDiscontinuity \in BOOLEAN
      /\ sample.time \in 0..MaxFrames /\ sample.size \in Nat
  <2>1. /\ sample.block \in 1..(MaxFrames + 1) /\ sample.size \in FrameSizes
        /\ sample.isDiscontinuity \in BOOLEAN /\ sample.time \in 0..MaxFrames
    BY <1>2 DEF Sound, Samples
  <2>2. sample.block <= frame.id + 1
    BY <1>2 DEF Sound
  <2>3. sample.size \in Nat
    BY <2>1, SampleAssumption
  <2>4. sample.block \in 1..(frame.id + 1)
    BY <1>2, <2>1, <2>2, SampleAssumption
  <2> QED
    BY <2>1, <2>3, <2>4
<1>6. /\ sample'.block = longer.block /\ sample'.size = longer.size /\ sample'.actual_size = n
      /\ sample'.isSyncPoint = key /\ sample'.isPreroll = ~shown
      /\ sample' = [block |-> longer.block, size |-> longer.size, actual_size |-> n, isSyncPoint |-> key,
                    isPreroll |-> ~shown, isDiscontinuity |-> sample.isDiscontinuity, time |-> sample.time]
  BY <1>3, <1>4
<1>7. longer.block \in 1..(frame.id + 2) /\ longer.size \in FrameSizes /\ n <= longer.size
  <2>1. longer.block = IF n > sample.size THEN to ELSE sample.block
    BY <1>4
  <2>2. longer.size = IF n > sample.size THEN n ELSE sample.size
    BY <1>4
  <2>3. longer.block \in {sample.block, sample.block + 1}
    BY <2>1
  <2> QED
    BY <1>2, <1>5, <2>2, <2>3
<1>8. longer.block \in 1..(MaxFrames + 1) /\ frame'.id \in 0..MaxFrames /\ longer.block <= frame'.id + 1
  BY <1>2, <1>3, <1>7, SampleAssumption
<1>9. sample' \in Samples
  BY <1>5, <1>6, <1>7, <1>8 DEF Samples
<1>10. sample' # None /\ Sound(sample)'
  BY <1>6, <1>7, <1>8, <1>9, SampleAssumption DEF Sound
<1>11. content'[sample'.block] = frame'.id /\ DOMAIN content' = Input!Blocks
  BY <1>2, <1>3, <1>6, <1>8 DEF Input!Blocks
<1> QED
  BY <1>2, <1>3, <1>6, <1>8, <1>10, <1>11 DEF InputIInv, Input!SampleTells

\* ... by whatever the codec reads or sets ...
LEMMA InputCodec ==
  ASSUME InputIInv, Input!CodecReads \/ Input!CodecSets
  PROVE  InputIInv'
<1>1. /\ within /\ sample # None /\ Sound(sample) /\ UNCHANGED <<references, content, frame, within>>
      /\ sample \in Samples
  BY DEF Input!CodecReads, Input!CodecSets, InputIInv, Sound
<1>2. CASE Input!CodecReads
  <2>1. /\ UNCHANGED <<sample, marked>>
        /\ seen'.content = content[sample.block] /\ seen'.length = sample.actual_size
        /\ seen'.key = sample.isSyncPoint /\ seen'.preroll = sample.isPreroll /\ seen'.size = sample.size
    BY <1>2 DEF Input!CodecReads, Input!GetPointer
  <2> QED
    BY <1>1, <2>1 DEF InputIInv, Input!SampleTells, Sound
<1>3. CASE Input!CodecSets
  <2>1. PICK b \in BOOLEAN :
          \/ sample' = [sample EXCEPT !.isDiscontinuity = b] \/ sample' = [sample EXCEPT !.isSyncPoint = b]
          \/ sample' = [sample EXCEPT !.isPreroll = b] \/ sample' = Input!SetActualDataLength(sample, 0, sample.block)
          \/ sample' = [sample EXCEPT !.time = frame.id]
    BY <1>3 DEF Input!CodecSets, Input!SetDiscontinuity, Input!SetSyncPoint, Input!SetPreroll, Input!SetMediaTime
  <2>2. Input!SetActualDataLength(sample, 0, sample.block) = [sample EXCEPT !.actual_size = 0]
    BY <1>1, SampleAssumption DEF Input!SetActualDataLength, Samples
  <2>3. frame.id \in 0..MaxFrames
    BY DEF InputIInv
  <2>4. /\ sample' \in Samples /\ sample'.block = sample.block
        /\ sample'.size = sample.size /\ sample'.actual_size \in {0, sample.actual_size}
    BY <1>1, <2>1, <2>2, <2>3 DEF Samples
  <2>5. sample' # None /\ Sound(sample)'
    <3>1. sample.size \in Nat
      BY <1>1, SampleAssumption DEF Samples
    <3> QED
      BY <1>1, <2>4, <3>1, SampleAssumption DEF Sound
  <2>6. marked' /\ seen' = seen
    BY <1>3 DEF Input!CodecSets
  <2> QED
    BY <1>1, <2>4, <2>5, <2>6 DEF InputIInv, Input!SampleTells
<1> QED
  BY <1>2, <1>3

\* ... and so by every step.
LEMMA InputStep == InputIInv /\ Input!SampleNext => InputIInv'
<1> SUFFICES ASSUME InputIInv, Input!SampleNext PROVE InputIInv'
  OBVIOUS
<1>1. CASE Input!QueryInterface \/ Input!Release
  BY <1>1 DEF Input!QueryInterface, Input!Release, InputIInv, Input!SampleTells, Sound
<1>2. CASE Input!Returned
  BY <1>2 DEF Input!Returned, InputIInv, Input!SampleTells, Sound
<1>3. CASE Input!Close
  BY <1>3 DEF Input!Close, InputIInv, Input!SampleTells, Sound
<1> QED
  BY <1>1, <1>2, <1>3, InputOpen, InputDecode, InputCodec DEF Input!SampleNext

-----------------------------------------------------------------------------
(* All parts *)

\* The invariant of the part that runs.
AnyIInv ==
  /\ part = "dshow" => DsIInv
  /\ part = "dmo" => DmoIInv
  /\ part = "settings" => SettingsIInv
  /\ part = "formats" => PinsIInv
  /\ part = "sample" => InputIInv

AnyNext == AllocatorNext \/ DmoNext \/ DsNext \/ SettingsNext \/ FormatsNext \/ SampleNext
AnyVars == <<part, vars, phase, todo, held, codecs, others>>

\* The invariant holds at first, whatever part runs ...
LEMMA AnyInitInv == AnyInit => AnyIInv
BY DsInit, DmoInit, SettingsInit, PinsInit, InputInit DEF AnyInit, AnyIInv

\* ... and is kept by every step of that part.
LEMMA AnyNextInv == AnyIInv /\ AnyNext => AnyIInv'
BY DsStep, DmoStep, SettingsStep, PinsStep, InputStep
   DEF AnyIInv, AnyNext, AllocatorNext, DmoNext, DsNext, SettingsNext, FormatsNext, SampleNext

\* A step of nobody.
LEMMA AnyStutters == AnyIInv /\ UNCHANGED AnyVars => AnyIInv'
<1> SUFFICES ASSUME AnyIInv, UNCHANGED AnyVars PROVE AnyIInv'
  OBVIOUS
<1>1. DsIInv => DsIInv'
  BY DEF AnyVars, others, dmoOnly, dsOnly, DsIInv, Ds!TypeOK, DsStage, DsSides, DsCounted, DsOpeningAt, DsClosingAt
<1>2. DmoIInv => DmoIInv'
  BY DEF AnyVars, others, dmoOnly, dsOnly, DmoIInv, Dmo!TypeOK, DmoOpening
<1>3. SettingsIInv => SettingsIInv'
  BY DEF AnyVars, others, setVars, SettingsIInv, Settings!ToldIsEncoded
<1>4. PinsIInv => PinsIInv'
  BY DEF AnyVars, others, pinVars, PinsIInv, Pins!TypesFit
<1>5. InputIInv => InputIInv'
  BY DEF AnyVars, others, sampleVars, InputIInv, Input!SampleTells, Sound
<1>6. part' = part
  BY DEF AnyVars
<1> QED
  BY <1>1, <1>2, <1>3, <1>4, <1>5, <1>6 DEF AnyIInv

\* The part that runs keeps its invariant.
LEMMA AnyAlways == AnySpec => []AnyIInv
<1>1. AnyInit => AnyIInv
  BY AnyInitInv
<1>2. AnyIInv /\ [AnyNext]_AnyVars => AnyIInv'
  BY AnyNextInv, AnyStutters
<1>3. AnySpec => AnyInit /\ [][AnyNext]_AnyVars
  BY DEF AnySpec, AnyNext, AnyVars
<1> QED
  BY <1>1, <1>2, <1>3, PTL

\* Whichever call of an open fails, and after a close, nothing is left of a filter:
\* no object of the codec, no codec count, no block; and an open DMO has its types.
THEOREM OpenedOrNothing == AnySpec => []AllOrNothing
<1>1. AnyIInv => AllOrNothing
  BY DsGood, DmoHolds DEF AnyIInv, AllOrNothing
<1> QED
  BY <1>1, AnyAlways, PTL

\* However the codec takes and drops references, at every step of an open and a close,
\* the loader's objects have as many references as holders, and what is pointed to
\* without a reference is there.
THEOREM CountsAreHolders == AnySpec => []CountedAndLive
<1>1. AnyIInv => CountedAndLive
  BY DsGood DEF AnyIInv, CountedAndLive
<1> QED
  BY <1>1, AnyAlways, PTL

\* What a codec is told describes what is in use: the header of a filter, the types of
\* a pin that changes its format, the caps of an encoder and the sample of a frame.
THEOREM ToldIsInUse == AnySpec => []HeaderAccepted
<1>1. AnyIInv => HeaderAccepted
  BY DsGood DEF AnyIInv, HeaderAccepted, SettingsIInv, PinsIInv, InputIInv
<1> QED
  BY <1>1, AnyAlways, PTL

\* The allocator runs as it would alone, so that its theorems hold here.
THEOREM AllocatorAlone == AnySpec => Spec
<1>1. AnyInit => Init
  BY DEF AnyInit
<1>2. [AnyNext]_AnyVars => [Next]_vars
  BY DEF AnyNext, AnyVars, AllocatorNext, DmoNext, DsNext, SettingsNext, FormatsNext, SampleNext
<1>3. AnySpec => AnyInit /\ [][AnyNext]_AnyVars
  BY DEF AnySpec, AnyNext, AnyVars
<1> QED
  BY <1>1, <1>2, <1>3, PTL DEF Spec
=============================================================================

---------------------------- MODULE MemAllocator ----------------------------
(***************************************************************************)
(* The DirectShow memory allocator (dshow/allocator.c) with its media      *)
(* samples (dshow/cmediasample.c), as the output side of a video decoder   *)
(* uses it (dshow/outputpin.c, dshow/DS_VideoDecoder.c).                   *)
(*                                                                         *)
(* The allocator keeps its samples on two rings of malloc'ed nodes.  A     *)
(* node is named by its sample and its ring.  avm_list_add_head does not   *)
(* store the next field of the former tail, so that a node added to a ring *)
(* with one node or more is not reached from the head: of the samples of a *)
(* commit only the first is ever lent, and the others are lost.            *)
(*                                                                         *)
(* All calls come from the streaming thread.  The codec (external) asks    *)
(* for samples while it decodes; for each picture the decoder redirects    *)
(* the next sample to the buffer that goes downstream.                     *)
(***************************************************************************)
EXTENDS Naturals, FiniteSets

CONSTANTS Sample,        \* addresses of media samples
          Image,         \* output buffers of the element
          None,
          MaxBuffers,    \* bound of the samples a codec asks for in one commit
          MaxRefs        \* bound of a codec's references to one sample

ASSUME NoneAssumption == None \notin Sample /\ None \notin Image
ASSUME MaxBuffersAssumption == MaxBuffers \in Nat \ {0}
ASSUME MaxRefsAssumption == MaxRefs \in Nat \ {0}

VARIABLES
  alive,              \* the allocator object exists
  cBuffers,           \* props.cBuffers
  free_list, used_list,
  samples,            \* CMediaSample objects that are allocated
  refcount, block,    \* fields of the samples; block None is own_block
  new_pointer, modified_sample,
  busy,               \* inside Commit or Decommit
  left,               \* samples the loop of Commit has still to make
  image,              \* the output buffer of the decode call in progress
  lent,               \* history: samples lent in that call
  lost,               \* history: samples that Commit added to a ring with a node
  careful             \* history: no sample was destroyed with a reference to it

rings == <<free_list, used_list>>
fields == <<refcount, block>>
redirect == <<new_pointer, modified_sample>>
decode == <<image, lent>>
history == <<lost, careful>>
vars == <<alive, cBuffers, rings, samples, fields, redirect, busy, left, decode, history>>

OptSample == Sample \cup {None}
OptImage == Image \cup {None}

-----------------------------------------------------------------------------
(* avm_list_t *)

Ring == [head : OptSample, next : [Sample -> OptSample], prev : [Sample -> OptSample]]

NoLinks == [s \in Sample |-> None]
EmptyRing == [head |-> None, next |-> NoLinks, prev |-> NoLinks]

AddHead(r, s) ==
  IF r.head = None
  THEN [head |-> s, next |-> [r.next EXCEPT ![s] = s], prev |-> [r.prev EXCEPT ![s] = s]]
  ELSE [head |-> s,
        next |-> [r.next EXCEPT ![s] = r.head],
        prev |-> [r.prev EXCEPT ![s] = r.prev[r.head], ![r.head] = s]]

AddTail(r, s) ==
  LET n == AddHead(r, s)
  IN  IF r.head = None THEN n ELSE [head |-> r.head, next |-> n.next, prev |-> n.prev]

\* The links of the node that is freed are forgotten.
DelHead(r) ==
  LET n == r.next[r.head]
      p == r.prev[r.head]
  IN  IF n = r.head
      THEN [head |-> None,
            next |-> [r.next EXCEPT ![r.head] = None],
            prev |-> [r.prev EXCEPT ![r.head] = None]]
      ELSE [head |-> n,
            next |-> [r.next EXCEPT ![p] = n, ![r.head] = None],
            prev |-> [r.prev EXCEPT ![n] = p, ![r.head] = None]]

\* What avm_list_find meets: the nodes reached from the head.
Members(r) ==
  IF r.head = None THEN {}
  ELSE {s \in Sample : \A C \in SUBSET Sample :
          r.head \in C /\ (\A x \in C : r.next[x] \in Sample => r.next[x] \in C) => s \in C}

-----------------------------------------------------------------------------
(* The allocator *)

Init ==
  /\ alive = FALSE /\ cBuffers = 1
  /\ free_list = EmptyRing /\ used_list = EmptyRing
  /\ samples = {}
  /\ refcount = [s \in Sample |-> 0] /\ block = [s \in Sample |-> None]
  /\ new_pointer = None /\ modified_sample = None
  /\ busy = "no" /\ left = 0
  /\ image = None /\ lent = {}
  /\ lost = {} /\ careful = TRUE

\* No call of the allocator is in progress.
Ready == alive /\ busy = "no"
NoNodes == free_list.head = None /\ used_list.head = None

\* COutputPin_GetAllocator: a new object with the default properties.
Create ==
  /\ ~alive
  /\ alive' = TRUE
  /\ cBuffers' = 1
  /\ free_list' = EmptyRing /\ used_list' = EmptyRing
  /\ new_pointer' = None /\ modified_sample' = None
  /\ UNCHANGED <<samples, fields, busy, left, decode, history>>

\* Refused while there are samples.
SetProperties ==
  /\ Ready /\ NoNodes
  /\ cBuffers' \in 1..MaxBuffers
  /\ UNCHANGED <<alive, rings, samples, fields, redirect, busy, left, decode, history>>

Commit ==
  /\ Ready /\ NoNodes
  /\ busy' = "commit" /\ left' = cBuffers
  /\ UNCHANGED <<alive, cBuffers, rings, samples, fields, redirect, decode, history>>

CommitSample ==
  /\ busy = "commit" /\ left > 0
  /\ \E s \in Sample \ samples :
       /\ samples' = samples \cup {s}
       /\ refcount' = [refcount EXCEPT ![s] = 0]
       /\ block' = [block EXCEPT ![s] = None]
       /\ free_list' = AddTail(free_list, s)
       /\ lost' = IF free_list.head = None THEN lost ELSE lost \cup {s}
  /\ left' = left - 1
  /\ UNCHANGED <<alive, cBuffers, used_list, redirect, busy, decode, careful>>

\* All are made, or CMediaSampleCreate failed: those made before stay.
CommitEnds ==
  /\ busy = "commit"
  /\ busy' = "no" /\ left' = 0
  /\ UNCHANGED <<alive, cBuffers, rings, samples, fields, redirect, decode, history>>

Decommit ==
  /\ Ready /\ image = None
  /\ busy' = "decommit"
  /\ UNCHANGED <<alive, cBuffers, rings, samples, fields, redirect, left, decode, history>>

\* The used samples go to the free ring ...
DecommitUsed ==
  /\ busy = "decommit" /\ used_list.head # None
  /\ free_list' = AddTail(free_list, used_list.head)
  /\ used_list' = DelHead(used_list)
  /\ UNCHANGED <<alive, cBuffers, samples, fields, redirect, busy, left, decode, history>>

\* ... and the free ones are destroyed, whatever references there are, and
\* modified_sample is left alone.
DecommitFree ==
  /\ busy = "decommit" /\ used_list.head = None /\ free_list.head # None
  /\ samples' = samples \ {free_list.head}
  /\ careful' = (careful /\ refcount[free_list.head] = 0)
  /\ free_list' = DelHead(free_list)
  /\ UNCHANGED <<alive, cBuffers, used_list, fields, redirect, busy, left, decode, lost>>

DecommitEnds ==
  /\ busy = "decommit" /\ NoNodes
  /\ busy' = "no"
  /\ UNCHANGED <<alive, cBuffers, rings, samples, fields, redirect, left, decode, history>>

\* The last Release of the allocator, by a codec that decommitted it before:
\* the samples are not looked at.
Destroy ==
  /\ Ready /\ image = None /\ NoNodes
  /\ alive' = FALSE
  /\ UNCHANGED <<cBuffers, rings, samples, fields, redirect, busy, left, decode, history>>

-----------------------------------------------------------------------------
(* Decoding *)

\* Mutant: a pointer that is still pending is kept.
DecodeKeepsPointer(i) ==
  /\ Ready /\ image = None
  /\ new_pointer' = IF new_pointer = None THEN i ELSE new_pointer
  /\ image' = i /\ lent' = {}
  /\ UNCHANGED <<alive, cBuffers, rings, samples, fields, modified_sample, busy, left, history>>

\* DS_VideoDecoder_DecodeInternal, up to the call of the codec: SetPointer2.
Decode(i) ==
  /\ Ready /\ image = None
  /\ new_pointer' = i
  /\ image' = i /\ lent' = {}
  /\ UNCHANGED <<alive, cBuffers, rings, samples, fields, modified_sample, busy, left, history>>

\* The codec returns, and the buffer goes downstream, filled or not.
DecodeEnds ==
  /\ image # None
  /\ image' = None /\ lent' = {}
  /\ UNCHANGED <<alive, cBuffers, rings, samples, fields, redirect, busy, left, history>>

\* The next sample is redirected once; the one redirected before is restored.
Redirect(s) ==
  IF new_pointer = None THEN UNCHANGED <<block, redirect>>
  ELSE /\ block' = [x \in Sample |-> IF x = s THEN new_pointer
                                     ELSE IF x = modified_sample THEN None ELSE block[x]]
       /\ modified_sample' = s
       /\ new_pointer' = None

\* The codec asks for a sample in the decode call; without a free one the
\* answer is E_FAIL.
GetBuffer ==
  /\ Ready /\ image # None
  /\ free_list.head # None
  /\ LET s == free_list.head IN
       /\ free_list' = DelHead(free_list)
       /\ used_list' = AddTail(used_list, s)
       /\ refcount' = [refcount EXCEPT ![s] = @ + 1]
       /\ lent' = lent \cup {s}
       /\ Redirect(s)
  /\ UNCHANGED <<alive, cBuffers, samples, busy, left, image, history>>

\* The codec keeps a sample, in this call or across calls.
AddRef(s) ==
  /\ Ready
  /\ s \in samples /\ refcount[s] \in 1..(MaxRefs - 1)
  /\ refcount' = [refcount EXCEPT ![s] = @ + 1]
  /\ UNCHANGED <<alive, cBuffers, rings, samples, block, redirect, busy, left, decode, history>>

Release(s) ==
  /\ Ready
  /\ s \in samples /\ refcount[s] > 1
  /\ refcount' = [refcount EXCEPT ![s] = @ - 1]
  /\ UNCHANGED <<alive, cBuffers, rings, samples, block, redirect, busy, left, decode, history>>

\* Mutant: the redirected sample is not restored.
ReleaseBufferKeepsPointer(s) ==
  /\ Ready
  /\ s \in samples /\ refcount[s] = 1 /\ s \in Members(used_list)
  /\ refcount' = [refcount EXCEPT ![s] = 0]
  /\ used_list' = DelHead(used_list)
  /\ free_list' = AddHead(free_list, s)
  /\ UNCHANGED <<alive, cBuffers, samples, block, redirect, busy, left, decode, history>>

\* Mutant: the sample is not put back on the free ring.
ReleaseBufferForgets(s) ==
  /\ Ready
  /\ s \in samples /\ refcount[s] = 1 /\ s \in Members(used_list)
  /\ refcount' = [refcount EXCEPT ![s] = 0]
  /\ used_list' = DelHead(used_list)
  /\ block' = IF modified_sample = s THEN [block EXCEPT ![s] = None] ELSE block
  /\ modified_sample' = IF modified_sample = s THEN None ELSE modified_sample
  /\ UNCHANGED <<alive, cBuffers, free_list, samples, new_pointer, busy, left, decode, history>>

\* The last Release of a sample: it is looked up on the used ring, and the head
\* of that ring is deleted.
ReleaseBuffer(s) ==
  /\ Ready
  /\ s \in samples /\ refcount[s] = 1 /\ s \in Members(used_list)
  /\ refcount' = [refcount EXCEPT ![s] = 0]
  /\ used_list' = DelHead(used_list)
  /\ free_list' = AddHead(free_list, s)
  /\ block' = IF modified_sample = s THEN [block EXCEPT ![s] = None] ELSE block
  /\ modified_sample' = IF modified_sample = s THEN None ELSE modified_sample
  /\ UNCHANGED <<alive, cBuffers, samples, new_pointer, busy, left, decode, history>>

-----------------------------------------------------------------------------
Committing == Commit \/ CommitSample \/ CommitEnds
Decommitting == Decommit \/ DecommitUsed \/ DecommitFree \/ DecommitEnds
Lending == GetBuffer \/ \E s \in Sample : AddRef(s) \/ Release(s) \/ ReleaseBuffer(s)
Decoding == DecodeEnds \/ \E i \in Image : Decode(i)

Next == Create \/ SetProperties \/ Committing \/ Decommitting \/ Destroy \/ Lending \/ Decoding

Spec == Init /\ [][Next]_vars

-----------------------------------------------------------------------------
(* Properties *)

\* Every variable has its type, and Commit makes no more samples than granted.
TypeOK ==
  /\ alive \in BOOLEAN /\ cBuffers \in 1..MaxBuffers
  /\ free_list \in Ring /\ used_list \in Ring
  /\ samples \subseteq Sample /\ lent \subseteq Sample /\ lost \subseteq Sample
  /\ refcount \in [Sample -> Nat] /\ block \in [Sample -> OptImage]
  /\ new_pointer \in OptImage /\ modified_sample \in OptSample
  /\ busy \in {"no", "commit", "decommit"}
  /\ left \in 0..MaxBuffers
  /\ image \in OptImage

\* Between calls the used ring has the samples someone refers to, so that they
\* are not lent again and their last Release finds them, and the free ring has all
\* others, except those that a commit of more than one lost; when the allocator
\* is gone, so are its samples.
LentOrFree ==
  IF alive
  THEN busy = "no" =>
         /\ Members(used_list) = {s \in samples : refcount[s] > 0}
         /\ Members(free_list) = {s \in samples \ lost : refcount[s] = 0}
  ELSE samples = lost

\* As long as the codec gives its samples back before it decommits, nothing
\* refers to a sample that was destroyed: no reference of the codec, no ring and
\* not the allocator's note of the sample it redirected.
NothingDangles ==
  careful =>
    /\ \A s \in Sample : refcount[s] > 0 => s \in samples
    /\ \A r \in {free_list, used_list} : alive /\ r.head # None => r.head \in samples
    /\ modified_sample # None => modified_sample \in samples

\* A sample lent in a decode call leads to that call's buffer or to its own
\* block, never to a buffer that was pushed before, and the free ones lead to
\* their own block.
RedirectCurrent ==
  /\ image # None => \A s \in lent \cap samples : block[s] \in {None, image}
  /\ Ready => \A s \in Members(free_list) : block[s] = None
=============================================================================

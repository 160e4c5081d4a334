------------------------------- MODULE PeLoad -------------------------------
(***************************************************************************)
(* The memory calls of wine/ext.c that a codec and the PE loader use: the  *)
(* list of allocations, vm, and the list of file mappings, fm, both the    *)
(* newest first, over the mmap of the kernel.  Then PE_LoadImage and       *)
(* PE_UnloadLibrary (wine/pe_image.c) over these, beside the calls of      *)
(* codecs that run: the file is mapped to look at it, the image's memory   *)
(* reserved, header and sections mapped into it and relocated, the view of *)
(* the file unmapped.                                                      *)
(*                                                                         *)
(* Addresses and sizes count in units; a page has Page of them, the unit   *)
(* of reservation (64 KB) Granule.  Address 0 is the null pointer.         *)
(*                                                                         *)
(* An image is [base, header, sections, relocs, valid]; a section is       *)
(* [at, size, raw, aligned], its raw data on whole pages of the file if    *)
(* "aligned".  What a unit of the loaded image holds is "zero" (from       *)
(* /dev/zero), "file" (the section's raw data) or "beyond" (what comes     *)
(* after them in the file).                                                *)
(***************************************************************************)
EXTENDS Naturals, Sequences, FiniteSets

CONSTANTS Page, Granule, Space,
          Foreign,     \* pages of the libraries and the stack: their first units
          MapName, None,
          MaxRegions   \* bound: allocations, and file mappings, at a time

ASSUME MemAssumption ==
  /\ Page \in Nat \ {0} /\ Granule \in Nat \ {0} /\ Granule % Page = 0 /\ Space \in Nat
  /\ Foreign \subseteq {a \in 1..Space : a % Page = 0} /\ None \notin Nat

VARIABLES
  vm,      \* [at, size, state]: state 1 is committed
  fm       \* [at, size, name]

-----------------------------------------------------------------------------
(* The kernel *)

Units(r) == r.at..(r.at + r.size - 1)
Overlap(r, q) == Units(r) \cap Units(q) # {}
RoundUp(n, m) == ((n + m - 1) \div m) * m
Pages(r) == [r EXCEPT !.size = RoundUp(@, Page)]

Listed == {vm[i] : i \in 1..Len(vm)} \cup {fm[i] : i \in 1..Len(fm)}
Mapped == UNION {Units(Pages(r)) : r \in Listed} \cup UNION {p..(p + Page - 1) : p \in Foreign}

\* Where mmap puts a mapping: at the hint if it is free, else as high as there is
\* room; nowhere if it is empty or there is no room.
Mmap(hint, size) ==
  LET fits(a) == a + RoundUp(size, Page) <= Space /\ Units([at |-> a, size |-> RoundUp(size, Page)]) \cap Mapped = {}
      free == {a \in 1..Space : a % Page = 0 /\ fits(a)} IN
  IF size = 0 THEN {} ELSE IF hint \in free THEN {hint} ELSE {a \in free : \A b \in free : b <= a}

-----------------------------------------------------------------------------
(* Allocations *)

\* A reservation starts on a granule and is one at least; commitment and size are
\* of whole pages.
Rounded(address, size, type) ==
  LET skip == IF "reserve" \in type THEN address % Granule ELSE 0
      a == address - skip
      over == IF "commit" \in type THEN a % Page ELSE 0
      s == size + skip + over
      least == IF "reserve" \in type /\ s < Granule THEN Granule ELSE s IN
  [at |-> a - over, size |-> RoundUp(least, Page)]

Inside(r, q) == r.at >= q.at /\ r.at + r.size <= q.at + q.size

\* The newest allocation that a given address runs into.
Hit(r) == {i \in 1..Len(vm) : Overlap(r, vm[i]) /\ \A j \in 1..(i - 1) : ~Overlap(r, vm[j])}

\* What VirtualAlloc may answer, None for a failure, and the list it leaves.  Memory
\* that was only reserved is handed out again by each commit in it.
VirtualAlloc(address, size, type) ==
  LET r == Rounded(address, size, type)
      made == [at |-> 0, size |-> r.size, state |-> IF type = {"reserve"} THEN 0 ELSE 1]
      failed == [answer |-> None, list |-> vm] IN
  IF type = {} THEN {failed}
  ELSE IF r.at # 0 /\ Hit(r) # {}
  THEN LET e == vm[CHOOSE i \in Hit(r) : TRUE] IN
       {IF e.state = 0 /\ Inside(r, e) /\ "commit" \in type
        THEN [answer |-> r.at, list |-> vm] ELSE failed}
  ELSE LET at == Mmap(r.at, r.size) IN
       IF at = {} \/ (r.at # 0 /\ at # {r.at}) THEN {failed}
       ELSE {[answer |-> a, list |-> <<[made EXCEPT !.at = a]>> \o vm] : a \in at}

\* The whole allocation goes, however much of it the caller names.
VirtualFree(address) ==
  LET at == {i \in 1..Len(vm) : vm[i].at = address} IN
  IF at = {} THEN vm
  ELSE LET i == CHOOSE i \in at : \A j \in at : i <= j IN
       SubSeq(vm, 1, i - 1) \o SubSeq(vm, i + 1, Len(vm))

-----------------------------------------------------------------------------
(* File mappings *)

\* A view is the mapping's handle.
CreateFileMappingA(len, name) ==
  LET at == Mmap(0, len) IN
  IF at = {} THEN {[answer |-> None, list |-> fm]}
  ELSE {[answer |-> a, list |-> <<[at |-> a, size |-> len, name |-> name]>> \o fm] : a \in at}

\* The search starts at the newest and goes towards newer ones: it finds only the
\* newest, and of the others none is unmapped.
UnmapViewOfFile(view) == IF fm # <<>> /\ Head(fm).at = view THEN Tail(fm) ELSE fm

\* The newest of the name.
OpenFileMappingA(name) ==
  LET at == {i \in 1..Len(fm) : fm[i].name = name} IN
  IF name = None \/ at = {} THEN None ELSE fm[CHOOSE i \in at : \A j \in at : i <= j].at

MapViewOfFile(handle, offset) == handle + offset

-----------------------------------------------------------------------------
(* Images *)

CONSTANTS Image,    \* the images there are to load
          Wanted,   \* the addresses a codec asks for; 0 is none
          FileSize  \* the size of a file, in units

\* The images that are accepted are as linkers make them: there is a section, each starts
\* on a page behind the one before it, the first behind the header.
ASSUME ImageAssumption ==
  /\ Wanted \subseteq Nat /\ FileSize \in Nat
  /\ \A i \in Image :
       /\ i.base \in Nat /\ i.header \in Nat /\ i.sections \in Seq([at : Nat, size : Nat, raw : Nat, aligned : BOOLEAN])
       /\ i.valid => /\ i.sections # <<>> /\ i.header <= i.sections[1].at
                     /\ \A k \in 1..Len(i.sections) : i.sections[k].at % Page = 0
                     /\ \A k \in 1..Len(i.sections) : \A l \in 1..(k - 1) :
                          i.sections[l].at + i.sections[l].size <= i.sections[k].at /\
                          i.sections[l].at + i.sections[l].raw <= i.sections[k].at

VARIABLES
  load,     \* the image being loaded and how far it is, or None
  images,   \* the modules: where they are
  codec,    \* where the codecs' allocations are
  left,     \* a load left its view behind though it was the newest
  hidden,   \* a mapping was made while an image was being loaded
  borrowed  \* an image was put into what a codec had reserved

vars == <<vm, fm, load, images, codec, left, hidden, borrowed>>

Init ==
  /\ vm = <<>> /\ fm = <<>> /\ load = None
  /\ images = {} /\ codec = {} /\ left = FALSE /\ hidden = FALSE /\ borrowed = FALSE

SectionsOf(i) == {i.sections[k] : k \in 1..Len(i.sections)}
-----------------------------------------------------------------------------
(* The calls of a codec *)

CodecAllocates ==
  /\ Len(vm) < MaxRegions
  /\ \E address \in Wanted, size \in {1, Granule} :
     \E type \in {{"reserve"}, {"commit"}, {"reserve", "commit"}} :
     \E r \in VirtualAlloc(address, size, type) :
       /\ vm' = r.list
       /\ codec' = IF r.list = vm THEN codec ELSE codec \cup {r.answer}
  /\ UNCHANGED <<fm, load, images, left, hidden, borrowed>>

CodecFrees ==
  /\ \E at \in codec : vm' = VirtualFree(at) /\ codec' = codec \ {at}
  /\ UNCHANGED <<fm, load, images, left, hidden, borrowed>>

\* Of memory only: MapViewOfFile and the UnmapViewOfFile a codec is given touch
\* nothing, so that the mapping stays.
CodecMaps ==
  /\ Len(fm) < MaxRegions
  /\ \E name \in MapName \cup {None} :
       \/ OpenFileMappingA(name) # None /\ UNCHANGED fm
       \/ OpenFileMappingA(name) = None /\ \E r \in CreateFileMappingA(Page, name) : fm' = r.list
  /\ hidden' = (hidden \/ (load # None /\ fm' # fm))
  /\ UNCHANGED <<vm, load, images, codec, left, borrowed>>

-----------------------------------------------------------------------------
(* PE_LoadImage *)

CalcVmaSize(i) ==
  LET ends == {0} \cup {s.at + s.raw : s \in SectionsOf(i)} \cup {s.at + s.size : s \in SectionsOf(i)} IN
  CHOOSE e \in ends : \A f \in ends : e >= f

\* The file is opened and mapped whole.
OpenImage ==
  /\ load = None /\ Len(fm) < MaxRegions
  /\ \E i \in Image, r \in CreateFileMappingA(FileSize, None) :
       /\ fm' = r.list
       /\ load' = IF r.answer = None THEN None
                  ELSE [image |-> i, step |-> "check", view |-> r.answer, at |-> 0, reloc |-> FALSE,
                        next |-> 0, holds |-> <<>>]
  /\ hidden' = FALSE
  /\ UNCHANGED <<vm, images, codec, left, borrowed>>

\* The view is unmapped, unless a newer mapping hides it.
DropView ==
  /\ fm' = UnmapViewOfFile(load.view)
  /\ left' = (left \/ (fm' = fm /\ ~hidden))

\* Mutant: the memory is kept.
ErrorKeeps(list) == vm' = list /\ DropView /\ load' = None

\* The error path: file, memory and view are given back.
Error(list) ==
  /\ vm' = IF load.at = 0 THEN list ELSE VirtualFree(load.at)
  /\ DropView
  /\ load' = None

\* Signatures, machine and file size.
CheckImage ==
  /\ load # None /\ load.step = "check"
  /\ IF load.image.valid
     THEN load' = [load EXCEPT !.step = "reserve"] /\ UNCHANGED <<vm, fm, left>>
     ELSE Error(vm)
  /\ UNCHANGED <<images, codec, hidden, borrowed>>

\* At its base; if that is not to be had, anywhere, when it can be relocated.  The
\* base may lie in what a codec reserved, and is had then.
Reserve ==
  /\ load # None /\ load.step = "reserve" /\ Len(vm) < MaxRegions
  /\ LET size == CalcVmaSize(load.image)
         type == {"reserve", "commit"}
         placed(r, reloc) ==
           /\ load' = [load EXCEPT !.step = "map", !.at = r.answer, !.reloc = reloc,
                                   !.holds = [u \in 0..(RoundUp(size, Page) - 1) |-> "zero"]]
           /\ borrowed' = (borrowed \/ r.list = vm)
           /\ vm' = r.list /\ UNCHANGED <<fm, left>> IN
     \E r \in VirtualAlloc(load.image.base, size, type) :
       IF r.answer # None THEN placed(r, FALSE)
       ELSE IF ~load.image.relocs THEN Error(r.list) /\ UNCHANGED borrowed
       ELSE \E q \in VirtualAlloc(0, size, type) :
              IF q.answer # None THEN placed(q, TRUE) ELSE Error(q.list) /\ UNCHANGED borrowed
  /\ UNCHANGED <<images, codec, hidden>>

\* FILE_dommap of n units at "to": whole pages of the file, or, of data that do not
\* start on a page of the file, just these over fresh pages.
Dommap(to, n, aligned) ==
  [u \in DOMAIN load.holds |->
     IF u \notin to..(to + RoundUp(n, Page) - 1) THEN load.holds[u]
     ELSE IF u < to + n THEN "file" ELSE IF aligned THEN "beyond" ELSE "zero"]

\* Mutant: the tail is kept.
KeepTail(s, holds) == holds

\* What the last page holds after the raw data is cleared, as far as the section goes.
ClearTail(s, holds) ==
  LET end == IF RoundUp(s.raw, Page) > s.size THEN s.size ELSE RoundUp(s.raw, Page) IN
  [u \in DOMAIN holds |->
     IF s.raw < s.size /\ s.raw % Page # 0 /\ u \in (s.at + s.raw)..(s.at + end - 1) THEN "zero" ELSE holds[u]]

\* The header first, then one section after the other; the kernel may refuse each.
MapSection ==
  /\ load # None /\ load.step = "map" /\ load.next <= Len(load.image.sections)
  /\ \/ /\ load' = [load EXCEPT !.next = @ + 1, !.holds =
             IF load.next = 0 THEN Dommap(0, load.image.header, TRUE)
             ELSE LET s == load.image.sections[load.next] IN
                  IF s.raw = 0 THEN @ ELSE ClearTail(s, Dommap(s.at, s.raw, s.aligned))]
        /\ UNCHANGED <<vm, fm, left>>
     \/ Error(vm)
  /\ UNCHANGED <<images, codec, hidden, borrowed>>

\* Relocated, if it is not at its base, and the view unmapped.
Loaded ==
  /\ load # None /\ load.step = "map" /\ load.next > Len(load.image.sections)
  /\ DropView
  /\ images' = images \cup {load.at}
  /\ load' = None
  /\ UNCHANGED <<vm, codec, hidden, borrowed>>

PE_UnloadLibrary ==
  /\ \E at \in images : vm' = VirtualFree(at) /\ images' = images \ {at}
  /\ UNCHANGED <<fm, load, codec, left, hidden, borrowed>>

Next ==
  \/ CodecAllocates \/ CodecFrees \/ CodecMaps
  \/ OpenImage \/ CheckImage \/ Reserve \/ MapSection \/ Loaded \/ PE_UnloadLibrary

Spec == Init /\ [][Next]_vars
-----------------------------------------------------------------------------

\* A load that goes on, which None is not.
Holds == {"zero", "file", "beyond"}
Load == [image : Image, step : {"check", "reserve", "map"}, view : Nat, at : Nat, reloc : BOOLEAN, next : Nat,
         holds : {<<>>} \cup UNION {[0..(RoundUp(CalcVmaSize(i), Page) - 1) -> Holds] : i \in Image}]
ASSUME LoadAssumption == None \notin Load

\* An image that is loaded holds its sections' data and zeros up to their sizes,
\* whatever pages and file offsets they have, and every mapping put at a fixed
\* place stays in the memory reserved for it.
ImageIsFile ==
  load # None /\ load.step = "map" =>
    /\ \A s \in SectionsOf(load.image) \cup {[at |-> 0, raw |-> load.image.header]} :
         s.raw > 0 => s.at..(s.at + RoundUp(s.raw, Page) - 1) \subseteq DOMAIN load.holds
    /\ load.next > Len(load.image.sections) =>
         \A s \in SectionsOf(load.image) : \A u \in 0..(s.size - 1) :
           load.holds[s.at + u] = IF u < s.raw THEN "file" ELSE "zero"

\* Whatever fails, a load leaves no view behind (unless another mapping was made
\* meanwhile) and no memory that is neither an image's nor a codec's; and until an
\* image is put into what a codec reserved, each has an allocation of its own.
LoadLeavesNothing ==
  /\ ~left
  /\ load = None => \A i \in 1..Len(vm) : vm[i].at \in images \cup codec
  /\ borrowed \/ \A at \in images : at \notin codec /\ \E i \in 1..Len(vm) : vm[i].at = at
=============================================================================

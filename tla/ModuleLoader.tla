---------------------------- MODULE ModuleLoader ----------------------------
(***************************************************************************)
(* The Win32 module loader (wine/module.c, with the image mapping of       *)
(* wine/pe_image.c) and the codec wrappers that open and close codec DLLs  *)
(* through it (dshow/DS_Filter.c, dmo/dmo.c, ext/pitfdll/qt_adec.c).       *)
(*                                                                         *)
(* The loader keeps one process-wide list of modules and one process-wide  *)
(* count of open codecs.  A codec is one thread here: its calls into the   *)
(* loader are a stack of frames, because the entry point of a DLL that is  *)
(* being attached may itself call LoadLibrary.                             *)
(***************************************************************************)
EXTENDS Naturals, Sequences

CONSTANTS Codec,        \* the codec instances of the process
          Dll,          \* the DLL files
          None,         \* the null handle
          Kind,         \* which wrapper a codec uses, see Kinds
          Needs,        \* the DLLs a codec's wrapper loads, in order
          AttachLoads,  \* the DLLs the entry point of a DLL may load
          Unsupported,  \* DLLs whose version the patching code rejects
          Entryless,    \* DLL files that are not flagged a DLL or have no entry point
          Serialized    \* the process critical section the comments assume is held

Kinds == {"dshow", "dmo", "qt"}

ASSUME NoneAssumption == None \notin Dll /\ None \notin Dll \X {1, 2}
ASSUME CodecAssumption ==
  /\ Kind \in [Codec -> Kinds]
  /\ Needs \in [Codec -> Seq(Dll)]
  /\ \A c \in Codec : Len(Needs[c]) = IF Kind[c] = "qt" THEN 2 ELSE 1
ASSUME DllAssumption ==
  AttachLoads \in [Dll -> SUBSET Dll] /\ Unsupported \subseteq Dll /\ Entryless \subseteq Dll
ASSUME SerializedAssumption == Serialized \in BOOLEAN

VARIABLES
  list,      \* local_wm: the module list, the newest node first
  image,     \* the DLL images that are mapped
  attached,  \* modules flagged PROCESS_ATTACHED, in the order attach returned
  heap,      \* modules with blocks of their own on the garbage heap
  acounter,  \* codecs between CodecAlloc and CodecRelease
  phase,     \* life cycle of each codec
  handles,   \* the module handles a codec holds
  stack      \* each codec's loader calls, the innermost frame first

vars == <<list, image, attached, heap, acounter, phase, handles, stack>>
modules == <<list, image, attached, heap>>

\* An image is mapped at the preferred base of its DLL, or relocated when that
\* is taken: a handle is the DLL and which of its two places it is at.
Module == Dll \X {1, 2}
Base(d) == IF <<d, 1>> \notin image THEN <<d, 1>> ELSE <<d, 2>>

Phases == {"closed", "opening", "open", "closing"}
Locations == {"find", "map", "push", "attach", "detach", "unload", "remove", "loop"}
Frame == [at : Locations, for : {"load", "free", "release"},
          dll : Dll \cup {None}, mod : Module \cup {None}]

Counted(c) == Kind[c] # "qt"              \* calls CodecAlloc and CodecRelease
FreesItsDll(c) == Kind[c] # "dmo"         \* calls FreeLibrary when it closes

Elements(s) == {s[i] : i \in 1..Len(s)}
Without(s, m) ==
  LET k == CHOOSE i \in 1..Len(s) : s[i] = m /\ \A j \in 1..(i - 1) : s[j] # m
  IN  IF m \in Elements(s) THEN [i \in 1..(Len(s) - 1) |-> IF i < k THEN s[i] ELSE s[i + 1]] ELSE s

Init ==
  /\ list = <<>> /\ image = {} /\ attached = <<>> /\ heap = {}
  /\ acounter = 0
  /\ phase = [c \in Codec |-> "closed"]
  /\ handles = [c \in Codec |-> <<>>]
  /\ stack = [c \in Codec |-> <<>>]

-----------------------------------------------------------------------------
(* Calls and returns *)

InLoader(c) == stack[c] # <<>>
\* A codec calls the loader when it is in no call; with the critical section
\* held around every call, when no codec is.
MayCall(c) ==
  ~InLoader(c) /\ (Serialized => \A d \in Codec : ~InLoader(d))

At(c, location) == InLoader(c) /\ Head(stack[c]).at = location
Top(c) == Head(stack[c])
Call(c, frame) == stack' = [stack EXCEPT ![c] = <<frame>> \o @]
Continue(c, location) == stack' = [stack EXCEPT ![c][1].at = location]
ContinueWith(c, location, m) ==
  stack' = [stack EXCEPT ![c][1].at = location, ![c][1].mod = m]

\* LoadLibrary returns h.  To a DLL's entry point the result changes nothing
\* here; a wrapper keeps the handle, or fails: CodecRelease if it is counted.
Return(c, h) ==
  /\ stack' = [stack EXCEPT ![c] = Tail(@)]
  /\ IF Len(stack[c]) > 1
     THEN UNCHANGED <<phase, handles>>
     ELSE IF h = None
     THEN /\ phase' = [phase EXCEPT ![c] = IF Counted(c) THEN "closing" ELSE "closed"]
          /\ handles' = [handles EXCEPT ![c] = <<>>]
     ELSE /\ handles' = [handles EXCEPT ![c] = Append(@, h)]
          /\ phase' = [phase EXCEPT ![c] =
                         IF Len(handles[c]) + 1 = Len(Needs[c]) THEN "open" ELSE "opening"]

\* The bottom call of a close is over.
ClosedTo(c, p) ==
  /\ phase' = [phase EXCEPT ![c] = p]
  /\ handles' = [handles EXCEPT ![c] = <<>>]
AfterFree(c) == IF Counted(c) THEN "closing" ELSE "closed"

-----------------------------------------------------------------------------
(* Opening: CodecAlloc, then LoadLibraryA *)

OpenCodec(c) ==
  /\ phase[c] = "closed"
  /\ phase' = [phase EXCEPT ![c] = "opening"]
  /\ acounter' = IF Counted(c) THEN acounter + 1 ELSE acounter
  /\ UNCHANGED <<modules, handles, stack>>

LoadLibrary(c) ==
  /\ phase[c] = "opening" /\ MayCall(c)
  /\ Call(c, [at |-> "find", for |-> "load",
              dll |-> Needs[c][Len(handles[c]) + 1], mod |-> None])
  /\ UNCHANGED <<modules, acounter, phase, handles>>

\* Indices of the list nodes of DLL d; node 1 is the newest.
NodesOf(d) == {i \in 1..Len(list) : list[i][1] = d}

\* MODULE_FindModule: a module that is on the list is returned as it is.  Its
\* reference count is not raised, and its version is not looked at again.
FindModule(c) ==
  /\ At(c, "find")
  /\ IF NodesOf(Top(c).dll) = {}
     THEN Continue(c, "map") /\ UNCHANGED <<phase, handles>>
     ELSE \E i \in NodesOf(Top(c).dll) :
            /\ \A j \in NodesOf(Top(c).dll) : i <= j
            /\ Return(c, list[i])
  /\ UNCHANGED <<modules, acounter>>

\* What PE_LoadLibraryExA leaves for a file: no module, or one that is mapped.
Loadable(d) == {None, Base(d)}

\* PE_LoadLibraryExA fails on every path, and nothing stays mapped.
MapFails(c) ==
  /\ At(c, "map")
  /\ None \in Loadable(Top(c).dll)
  /\ Return(c, None)
  /\ UNCHANGED <<modules, acounter>>

\* PE_LoadLibraryExA: the image is mapped (its modref is plain malloc memory).
MapImage(c) ==
  /\ At(c, "map")
  /\ \E m \in Loadable(Top(c).dll) \ {None} :
       /\ image' = image \cup {m}
       /\ ContinueWith(c, "push", m)
  /\ UNCHANGED <<list, attached, heap, acounter, phase, handles>>

\* MODULE_DllProcessAttach puts the module on the list and only then calls
\* its entry point, which allocates.
PushModule(c) ==
  /\ At(c, "push")
  /\ list' = <<Top(c).mod>> \o list
  /\ heap' = heap \cup {Top(c).mod}
  /\ Continue(c, "attach")
  /\ UNCHANGED <<image, attached, acounter, phase, handles>>

\* PE_InitDLL calls DllMain, exported or at the address the header gives.
HasEntry(d) == d \notin Entryless

\* MODULE_InitDll: what the entry point says, TRUE where there is none.
InitDll(d) == IF HasEntry(d) THEN BOOLEAN ELSE {TRUE}

\* The entry point loads another DLL (expLoadLibraryA calls LoadLibraryA).
AttachLoadsAnother(c) ==
  /\ At(c, "attach") /\ HasEntry(Top(c).mod[1])
  /\ \E d \in AttachLoads[Top(c).mod[1]] :
       Call(c, [at |-> "find", for |-> "load", dll |-> d, mod |-> None])
  /\ UNCHANGED <<modules, acounter, phase, handles>>

\* The entry point returns TRUE; a version the patching code does not know is
\* reported as a failure although the module stays loaded.
AttachReturns(c) ==
  /\ At(c, "attach") /\ TRUE \in InitDll(Top(c).mod[1])
  /\ attached' = Append(attached, Top(c).mod)
  /\ Return(c, IF Top(c).mod[1] \in Unsupported THEN None ELSE Top(c).mod)
  /\ UNCHANGED <<list, image, heap, acounter>>

\* Mutant: a failed attach only reports the failure.
AttachFailsReturn(c) ==
  /\ At(c, "attach") /\ FALSE \in InitDll(Top(c).mod[1])
  /\ Return(c, None)
  /\ UNCHANGED <<modules, acounter>>

\* The entry point returns FALSE: MODULE_FreeLibrary and RemoveFromList.
AttachFails(c) ==
  /\ At(c, "attach") /\ FALSE \in InitDll(Top(c).mod[1])
  /\ Continue(c, "detach")
  /\ UNCHANGED <<modules, acounter, phase, handles>>

-----------------------------------------------------------------------------
(* Unloading: MODULE_FreeLibrary and MODULE_RemoveFromList *)

\* MODULE_DllProcessDetach: the entry point is told, whatever refCount says.
Detach(c) ==
  /\ At(c, "detach")
  /\ attached' = Without(attached, Top(c).mod)
  /\ Continue(c, "unload")
  /\ UNCHANGED <<list, image, heap, acounter, phase, handles>>

\* PE_UnloadLibrary: the image is unmapped; the blocks the DLL allocated stay.
Unload(c) ==
  /\ At(c, "unload")
  /\ image' = image \ {Top(c).mod}
  /\ Continue(c, "remove")
  /\ UNCHANGED <<list, attached, heap, acounter, phase, handles>>

\* MODULE_RemoveFromList frees a node that is alone without looking at it.
ListWithout(m) == IF Len(list) = 1 THEN <<>> ELSE Without(list, m)

\* Where a removal continues: LoadLibrary fails, FreeLibrary returns to the
\* wrapper, CodecRelease takes the next module.
AfterRemove(c) ==
  CASE Top(c).for = "load" -> Return(c, None)
    [] Top(c).for = "free" -> /\ stack' = [stack EXCEPT ![c] = Tail(@)]
                              /\ ClosedTo(c, AfterFree(c))
    [] Top(c).for = "release" -> Continue(c, "loop") /\ UNCHANGED <<phase, handles>>

\* Mutant: the node stays on the list.
RemoveNothing(c) ==
  /\ At(c, "remove")
  /\ AfterRemove(c)
  /\ UNCHANGED <<modules, acounter>>

\* FreeLibrary and CodecRelease collect the garbage heap when the list is
\* empty; a failed attach does not.
Remove(c) ==
  /\ At(c, "remove")
  /\ list' = ListWithout(Top(c).mod)
  /\ heap' = IF list' = <<>> /\ Top(c).for # "load" THEN {} ELSE heap
  /\ AfterRemove(c)
  /\ UNCHANGED <<image, attached, acounter>>

-----------------------------------------------------------------------------
(* Closing *)

\* MODULE32_LookupHMODULE: is a handle that of a module on the list?
LookupHMODULE(h) == h \in Elements(list)

\* DS_Filter_Destroy and the QuickTime element free the DLL they loaded last.
\* FreeLibrary of a handle that is on the list no more does nothing.
FreeLibrary(c) ==
  /\ phase[c] = "open" /\ FreesItsDll(c) /\ MayCall(c)
  /\ LET h == handles[c][Len(handles[c])] IN
       IF LookupHMODULE(h)
       THEN /\ Call(c, [at |-> "detach", for |-> "free", dll |-> None, mod |-> h])
            /\ UNCHANGED <<phase, handles>>
       ELSE /\ ClosedTo(c, AfterFree(c))
            /\ UNCHANGED stack
  /\ UNCHANGED <<modules, acounter>>

\* DMO_Filter_Destroy leaves its DLL to CodecRelease.
CloseDmo(c) ==
  /\ phase[c] = "open" /\ ~FreesItsDll(c) /\ ~InLoader(c)
  /\ ClosedTo(c, "closing")
  /\ UNCHANGED <<modules, acounter, stack>>

\* Mutant: the modules go while one codec is still open.
CodecReleaseEarly(c) ==
  /\ phase[c] = "closing" /\ MayCall(c)
  /\ acounter' = acounter - 1
  /\ IF acounter' <= 1
     THEN /\ Call(c, [at |-> "loop", for |-> "release", dll |-> None, mod |-> None])
          /\ UNCHANGED phase
     ELSE /\ phase' = [phase EXCEPT ![c] = "closed"]
          /\ UNCHANGED stack
  /\ UNCHANGED <<modules, handles>>

CodecRelease(c) ==
  /\ phase[c] = "closing" /\ MayCall(c)
  /\ acounter' = acounter - 1
  /\ IF acounter' = 0
     THEN /\ Call(c, [at |-> "loop", for |-> "release", dll |-> None, mod |-> None])
          /\ UNCHANGED phase
     ELSE /\ phase' = [phase EXCEPT ![c] = "closed"]
          /\ UNCHANGED stack
  /\ UNCHANGED <<modules, handles>>

\* Mutant: only the newest module is unloaded.
ReleaseFirstOnly(c) ==
  /\ At(c, "loop")
  /\ IF list = <<>> \/ Top(c).mod # None
     THEN /\ stack' = [stack EXCEPT ![c] = Tail(@)]
          /\ phase' = [phase EXCEPT ![c] = "closed"]
     ELSE ContinueWith(c, "detach", Head(list)) /\ UNCHANGED phase
  /\ UNCHANGED <<modules, acounter, handles>>

\* The last codec's CodecRelease unloads whatever is on the list.
ReleaseNext(c) ==
  /\ At(c, "loop")
  /\ IF list = <<>>
     THEN /\ stack' = [stack EXCEPT ![c] = Tail(@)]
          /\ phase' = [phase EXCEPT ![c] = "closed"]
     ELSE ContinueWith(c, "detach", Head(list)) /\ UNCHANGED phase
  /\ UNCHANGED <<modules, acounter, handles>>

-----------------------------------------------------------------------------
LoaderStep(c) ==
  \/ FindModule(c) \/ MapFails(c) \/ MapImage(c) \/ PushModule(c)
  \/ AttachReturns(c) \/ AttachFails(c)
  \/ Detach(c) \/ Unload(c) \/ Remove(c) \/ ReleaseNext(c)

WrapperStep(c) ==
  \/ OpenCodec(c) \/ LoadLibrary(c) \/ FreeLibrary(c) \/ CloseDmo(c) \/ CodecRelease(c)

Next == \E c \in Codec : WrapperStep(c) \/ LoaderStep(c) \/ AttachLoadsAnother(c)

Spec == Init /\ [][Next]_vars

\* A loader call runs, and the entry point of a DLL, however often it calls
\* LoadLibrary itself, returns in the end.
EntryPointReturns(c, d) == At(c, "attach") /\ Top(c).mod[1] = d /\ (AttachReturns(c) \/ AttachFails(c))
Fairness ==
  \A c \in Codec : /\ WF_vars(LoaderStep(c))
                   /\ \A d \in Dll : SF_vars(EntryPointReturns(c, d))

FairSpec == Spec /\ Fairness

-----------------------------------------------------------------------------
(* Properties *)

\* Every variable has its type: the count of open codecs is never negative,
\* and what is on the list, attached or mapped is a module.
TypeOK ==
  /\ list \in Seq(Module) /\ attached \in Seq(Module)
  /\ image \subseteq Module /\ heap \subseteq Module
  /\ acounter \in Nat
  /\ phase \in [Codec -> Phases]
  /\ handles \in [Codec -> Seq(Module)]
  /\ stack \in [Codec -> Seq(Frame)]

NoCall == \A c \in Codec : ~InLoader(c)

\* Between loader calls the module list names exactly the mapped images, each
\* once, and each of them was attached: no failed load, partial unload or
\* nested load leaves a module behind or loses one.  And what is attached keeps
\* its heap: the garbage collection never runs while a DLL may use its blocks.
ListIsImage ==
  /\ Elements(attached) \subseteq heap
  /\ NoCall => /\ Elements(list) = image /\ Elements(attached) = image
               /\ \A i, j \in 1..Len(list) : list[i] = list[j] => i = j

\* A codec whose DLLs another codec may unmap: it is not counted, or another
\* one frees a DLL that this one loads.
Exposed(c) ==
  \/ ~Counted(c) /\ \E d \in Codec : Counted(d)
  \/ \E d \in Codec \ {c} :
       FreesItsDll(d) /\ Needs[d][Len(Needs[d])] \in Elements(Needs[c])

\* Every DLL of an open codec stays mapped until that codec closes, unless the
\* codec is exposed: no one else's failed load or last release takes it away.
OpenCodecKeepsDlls ==
  \A c \in Codec : phase[c] = "open" /\ ~InLoader(c) /\ ~Exposed(c) =>
    Elements(handles[c]) \subseteq image

\* The close of the last counted codec leaves nothing mapped, whatever other
\* codecs opened, failed to open or freed before, the uncounted QuickTime
\* element among them: acounter never loses count, and the loop over the list
\* ends only when every module is gone.
LastReleaseUnloads ==
  [][\A c \in Codec :
       Counted(c) /\ phase[c] = "closing" /\ phase'[c] = "closed"
         /\ (\A d \in Codec \ {c} : Counted(d) => phase[d] = "closed")
       => image' = {}]_vars

\* DllProcessAttach: "the detach notifications are called in the reverse of the
\* sequence the attach notifications *returned*" (where the last codec's release
\* sends them).  The code puts a node on the list before it calls the entry
\* point, so a DLL loaded by an entry point stands before the one that loaded it.
DetachOrder ==
  [][\A c \in Codec : At(c, "detach") /\ Top(c).for = "release" /\ Detach(c) =>
       attached # <<>> /\ Top(c).mod = attached[Len(attached)]]_vars

\* DllProcessDetach: "Unless the bForceDetach flag is set, only DLLs with zero
\* refcount are notified": a FreeLibrary does not detach a DLL another open
\* codec holds.
DetachOnlyUnreferenced ==
  [][\A c \in Codec : At(c, "detach") /\ Top(c).for = "free" /\ Detach(c) =>
       \A d \in Codec \ {c} : Top(c).mod \notin Elements(handles[d])]_vars

\* Every loader call returns, CodecRelease's loop over the list included.
CallsReturn == \A c \in Codec : InLoader(c) ~> ~InLoader(c)
=============================================================================

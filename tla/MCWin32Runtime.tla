---------------------------- MODULE MCWin32Runtime ----------------------------
(***************************************************************************)
(* What wine/win32.c keeps for the DLLs that run, one part at a time: the  *)
(* heap and the memory handed out from it, files and COM classes, the list *)
(* of events, what belongs to threads, and QuickTime's dispatcher          *)
(* (wine/module.c).  The part is chosen at the start; the others stay as   *)
(* they are.                                                               *)
(***************************************************************************)
EXTENDS GarbageHeap, Integers, Sequences

CONSTANTS
  Blocks,                                    \* a heap of so many addresses
  Any,                                       \* what nothing stored
  BlockOfDll, HeapPage, Word, Ask,                                                        \* DllMemory
  MaxFd, MaxHeld, FileLength, Directory, Plugins, Search, Present,                        \* FileApi
  Allocator, Foreign, MaxClasses, MaxAllocatorRefs,                                       \* ComClass
  EventThread, Sleeper, ObjectName, MaxNodes,                                             \* Win32Objects
  First, Slots, TlsValue, MaxRefs,                                                        \* Win32Threads
  Site, Length, Low, High                                                                 \* QtDispatcher

Addresses == 1..Blocks

FilNames == {Directory[i] : i \in DOMAIN Directory}
FilSlot == [file : {"qts", "apl", "vp3", "temp"} \cup Plugins, at : 0..FileLength, mode : {"r", "w"}]

ASSUME NullAssumption == None \notin Nat
ASSUME SleeperAssumption == Sleeper \subseteq EventThread
ASSUME SlotsAssumption == Slots \in Nat
ASSUME LengthAssumption == Length \in Nat
\* Nobody else registers a class with the GUID of the loader's allocators.
ASSUME ForeignAssumption == \A e \in Foreign : e[1] # "MemoryAllocator"
ASSUME FilesAssumption ==
  /\ FileLength \in Nat /\ MaxFd \in Nat /\ Directory \in Seq(FilNames)
  /\ None \notin FilSlot \cup Seq(FilNames)
ASSUME MemoryAssumption ==
  /\ {None, Any} \cap (BlockOfDll \cup Nat) = {} /\ None # Any
  /\ HeapPage \in Nat \ {0} /\ Word \in Nat \ {0} /\ Ask \subseteq Nat

VARIABLES
  part,
  room, buffers, types, short, blank, crashed,                                            \* DllMemory
  open, held, shared, qtx_dir, searching, wanted, overlapped,                             \* FileApi
  com_object_table, AllocatorKeeper, refcount,                                            \* ComClass
  mlist, nodes, at, handles, raced, stranded, down,                                       \* Win32Objects
  thread, tls_use_map, tls_minus_one, page, refs, lock, tls, counted, inside, torn,       \* Win32Threads
  caught, ret_array, ret_i, step, frames, order, crossed, pointers, allocated             \* QtDispatcher

memVars == <<room, buffers, types, short, blank, crashed>>
fileVars == <<open, held, shared, qtx_dir, searching, wanted, overlapped>>
comVars == <<com_object_table, AllocatorKeeper, refcount>>
qtdVars == <<caught, ret_array, ret_i, step, frames, order, crossed, pointers, allocated>>
dllVars == <<memVars, fileVars, comVars, qtdVars>>
objVars == <<mlist, nodes, at, handles, raced, stranded, down>>
thrVars == <<thread, tls_use_map, tls_minus_one, page, refs, lock, tls, counted, inside, torn>>

Memory == INSTANCE DllMemory WITH Block <- BlockOfDll
Files == INSTANCE FileApi
Classes == INSTANCE ComClass WITH Object <- Allocator, MaxRefs <- MaxAllocatorRefs
\* Some threads wait, the others create and set.
Events == INSTANCE Win32Objects WITH Thread <- EventThread
Threads == INSTANCE Win32Threads WITH owned <- tls
Dispatcher == INSTANCE QtDispatcher WITH pc <- step

Parts == {"dispatcher", "heap", "buffers", "types", "files", "searches", "classes", "events", "indices", "words"}
AnyInit ==
  /\ Init /\ Memory!Init /\ Files!Init /\ Classes!Init /\ Events!Init /\ Threads!Init /\ Dispatcher!Init
  /\ part \in Parts

HeapNext == part = "heap" /\ Next /\ UNCHANGED <<part, dllVars, objVars, thrVars>>
MemoryNext ==
  /\ \/ part = "buffers" /\ Memory!BufferNext
     \/ part = "types" /\ Memory!TypeNext
  /\ UNCHANGED <<part, vars, fileVars, comVars, qtdVars, objVars, thrVars>>
FilesNext ==
  /\ \/ part = "files" /\ Files!HandleNext
     \/ part = "searches" /\ Files!SearchNext
  /\ UNCHANGED <<part, vars, memVars, comVars, qtdVars, objVars, thrVars>>
ClassesNext == part = "classes" /\ Classes!Next /\ UNCHANGED <<part, vars, memVars, fileVars, qtdVars, objVars, thrVars>>
DispatcherNext ==
  part = "dispatcher" /\ Dispatcher!DispatchNext /\ UNCHANGED <<part, vars, memVars, fileVars, comVars, objVars, thrVars>>
EventsNext == part = "events" /\ Events!Next /\ UNCHANGED <<part, vars, dllVars, thrVars>>
\* The indices and the words have only the threads in common.
ThreadsNext ==
  /\ \/ part \in {"indices", "words"} /\ Threads!ThreadNext
     \/ part = "indices" /\ Threads!TlsNext
     \/ part = "words" /\ Threads!WordNext
  /\ UNCHANGED <<part, vars, dllVars, objVars>>

AnyNext == HeapNext \/ MemoryNext \/ FilesNext \/ ClassesNext \/ DispatcherNext \/ EventsNext \/ ThreadsNext
AnyVars == <<part, vars, dllVars, objVars, thrVars>>

\* A thread inside a call of the heap is scheduled, as in GarbageHeap.
HeapStep(t) == part = "heap" /\ Step(t) /\ UNCHANGED <<part, dllVars, objVars, thrVars>>
AnySpec == AnyInit /\ [][AnyNext]_AnyVars /\ \A t \in Thread : WF_AnyVars(HeapStep(t))
-----------------------------------------------------------------------------
(* A small instance: a directory of the codecs, and classes of a foreign program *)

SomeNames == <<"a.qtx", "readme", "b.qtx">>
SomeClasses == {<<"f", "g">>, <<"f", "h">>}
-----------------------------------------------------------------------------

\* As in Win32Objects: unless creations overlap, a thread sleeps at an event that is
\* set only while one that the set woke is on its way, or stranded by it.
EventsWake == part = "events" => Events!EventsWake

\* What is handed out has one owner: a block one buffer, type or format, a file handle
\* one file (unless it is duplicated), the class of allocators the allocators that are
\* there; and unless two calls overlap where nothing locks, a node, a name and a TLS
\* index one creation, a lock one holder, and the address of an open call of QuickTime
\* one call.
OwnUnlessRaced ==
  /\ part \in {"buffers", "types"} => Memory!BlocksOwned
  /\ part \in {"files", "searches"} => Files!HandlesKeepFile
  /\ part = "classes" => Classes!OfferedWhileAlive
  /\ part = "dispatcher" => Dispatcher!ReturnsToCaller
  /\ part = "events" => Events!ObjectsListed
  /\ part \in {"indices", "words"} => Threads!SlotsOwned
=============================================================================

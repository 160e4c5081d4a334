-------------------------------- MODULE ComClass --------------------------------
(***************************************************************************)
(* The table of COM classes of wine/win32.c, and the one class that is     *)
(* registered in it: the allocator of dshow/allocator.c offers itself      *)
(* while there are allocators, which AllocatorKeeper counts.  An entry is  *)
(* <<clsid, GetClassObject>>.                                              *)
(***************************************************************************)
EXTENDS Naturals, Sequences, FiniteSets, SequencesExt

CONSTANTS Object,     \* allocators
          Foreign,    \* entries a program that uses the loader registers
          MaxClasses, MaxRefs

VARIABLES
  com_object_table,
  AllocatorKeeper,
  refcount            \* allocator -> its references, 0 if there is no such allocator

comVars == <<com_object_table, AllocatorKeeper, refcount>>

Ours == <<"MemoryAllocator", "CreateAllocator">>

Init == com_object_table = <<>> /\ AllocatorKeeper = 0 /\ refcount = [o \in Object |-> 0]

Alive == {o \in Object : refcount[o] > 0}

Registered(entry, table) == Append(table, entry)

\* What is behind the first entry that is the same moves up; others that are the same stay.
Unregistered(entry, table) ==
  IF Contains(table, entry) THEN RemoveAt(table, SelectInSeq(table, LAMBDA e : e = entry)) ELSE table

\* CoCreateInstance takes the last entry of the class; 0 is REGDB_E_CLASSNOTREG.
Found(clsid) == SelectLastInSeq(com_object_table, LAMBDA e : e[1] = clsid)

RegisterComClass(entry) ==
  /\ Len(com_object_table) < MaxClasses
  /\ com_object_table' = Registered(entry, com_object_table)
  /\ UNCHANGED <<AllocatorKeeper, refcount>>

UnregisterComClass(entry) ==
  /\ com_object_table' = Unregistered(entry, com_object_table)
  /\ UNCHANGED <<AllocatorKeeper, refcount>>

\* The first allocator registers the class, the last one takes it back.
MemAllocatorCreate(o) ==
  /\ o \notin Alive
  /\ refcount' = [refcount EXCEPT ![o] = 1]
  /\ AllocatorKeeper' = AllocatorKeeper + 1
  /\ com_object_table' = IF AllocatorKeeper = 0 THEN Registered(Ours, com_object_table) ELSE com_object_table

Release(o) ==
  /\ o \in Alive
  /\ refcount' = [refcount EXCEPT ![o] = @ - 1]
  /\ IF refcount[o] > 1 THEN UNCHANGED <<AllocatorKeeper, com_object_table>>
     ELSE /\ AllocatorKeeper' = AllocatorKeeper - 1
          /\ com_object_table' = IF AllocatorKeeper = 1 THEN Unregistered(Ours, com_object_table) ELSE com_object_table

AddRef(o) ==
  /\ o \in Alive /\ refcount[o] < MaxRefs
  /\ refcount' = [refcount EXCEPT ![o] = @ + 1]
  /\ UNCHANGED <<AllocatorKeeper, com_object_table>>

\* A DLL asks for an allocator: MemAllocator_CreateAllocator makes one, which lives on
\* if it has the interface that is asked for.  The class is registered, so that the
\* count never starts here.
CoCreateInstance(o) ==
  /\ Found("MemoryAllocator") # 0 /\ com_object_table[Found("MemoryAllocator")] = Ours
  /\ o \notin Alive
  /\ refcount' \in {refcount, [refcount EXCEPT ![o] = 1]}
  /\ AllocatorKeeper' = AllocatorKeeper + (IF refcount' = refcount THEN 0 ELSE 1)
  /\ UNCHANGED com_object_table

Next ==
  \/ \E e \in Foreign : RegisterComClass(e) \/ UnregisterComClass(e)
  \/ \E o \in Object : MemAllocatorCreate(o) \/ AddRef(o) \/ Release(o) \/ CoCreateInstance(o)

Spec == Init /\ [][Next]_comVars
-----------------------------------------------------------------------------

\* A DLL finds the class of allocators exactly while there are allocators, once in the
\* table, whatever others register and take back around it.
OfferedWhileAlive ==
  /\ Found("MemoryAllocator") # 0 <=> Alive # {}
  /\ Cardinality({i \in DOMAIN com_object_table : com_object_table[i] = Ours}) <= 1
=============================================================================

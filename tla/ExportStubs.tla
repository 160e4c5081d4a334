---------------------------- MODULE ExportStubs ----------------------------
(***************************************************************************)
(* The imports of an image (fixup_imports in wine/pe_image.c) and what     *)
(* stands for the functions nobody wrote (add_stub and LookupExternal in   *)
(* wine/win32.c): a piece of code that prints the name of the function and *)
(* returns 0.  Names lie in slots of one width; a longer one runs into the *)
(* next slot.                                                              *)
(***************************************************************************)
EXTENDS Naturals, Sequences, FiniteSets

CONSTANTS Short, Long,   \* names of functions, by whether they fit their slot
          Ordinal,       \* names made of a library and an ordinal; they fit
          Known,         \* those of them with an implementation
          Refused,       \* AllocateAndInitializeSid, which QuickTime must not find
          Slots,         \* slots of export_names
          Images         \* the images to link: [borland, descriptors], a descriptor
                         \* [characteristics, names]

VARIABLES
  export_names,  \* what each slot holds: <<name, part, more>>
  pos,           \* the first free slot
  handed,        \* <<name, stub>> of every stub that was handed out
  linking        \* imports of the image being linked that are left

vars == <<export_names, pos, handed, linking>>

Name == Short \cup Ordinal \cup Long \cup {Refused}
TooMany == <<"too many unresolved exports", 1, FALSE>>
Empty == <<"", 1, FALSE>>

Init ==
  /\ export_names = [i \in 0..(Slots - 1) |-> Empty]
  /\ pos = 0 /\ handed = {} /\ linking = <<>>

-----------------------------------------------------------------------------

\* A name copied to slot i.
Copied(n, i) ==
  [k \in DOMAIN export_names |->
     IF k = i THEN <<n, 1, n \in Long>>
     ELSE IF n \in Long /\ k = i + 1 THEN <<n, 2, FALSE>> ELSE export_names[k]]

\* What is read from slot i of a table: its part, and the next slot's if it goes on.
ReadFrom(table, i) ==
  IF table[i][3] THEN <<table[i], IF i + 1 \in DOMAIN table THEN table[i + 1] ELSE Empty>> ELSE <<table[i]>>

\* Mutant: the slot's own name is among those it is compared with.
SameName(table) == {i \in 0..pos : ReadFrom(table, i) = ReadFrom(table, pos)}

\* The stubs before this one that are for the same name.
Existing(table) == {i \in 0..(pos - 1) : ReadFrom(table, i) = ReadFrom(table, pos)}

\* A stub for the name in slot pos, and the slot passed, if there is another one.
AddStub(n, table) ==
  LET old == Existing(table)
      full == pos + 1 >= Slots IN
  IF old # {}
  THEN /\ handed' = handed \cup {<<n, CHOOSE i \in old : \A j \in old : i <= j>>}
       /\ export_names' = table /\ UNCHANGED pos
  ELSE IF n = Refused THEN export_names' = table /\ UNCHANGED <<pos, handed>>
  ELSE /\ handed' = handed \cup {<<n, pos>>}
       /\ export_names' = IF full THEN [table EXCEPT ![pos] = TooMany] ELSE table
       /\ pos' = IF full THEN pos ELSE pos + 1

\* The library matters only for what is known.  What runs beyond the last slot is
\* not modelled.
LookupExternalByName(n) ==
  IF n \in Known THEN UNCHANGED <<export_names, pos, handed>> ELSE AddStub(n, Copied(n, pos))

\* A function known by its ordinal has no name of this kind.
LookupExternal(n) == AddStub(n, Copied(n, pos))

Lookup(n) == IF n \in Ordinal THEN LookupExternal(n) ELSE LookupExternalByName(n)

\* GetProcAddress on one of the libraries that are not files.
expGetProcAddress ==
  /\ linking = <<>>
  /\ \E n \in Name \ Ordinal : LookupExternalByName(n)
  /\ UNCHANGED linking

-----------------------------------------------------------------------------

\* The descriptors that count: up to the first without characteristics, or all if
\* the first is without.
Imports(image) ==
  LET d == image.descriptors
      stop == {i \in 1..Len(d) : ~d[i].characteristics}
      n == IF stop = {} \/ 1 \in stop THEN Len(d) ELSE (CHOOSE i \in stop : \A j \in stop : i <= j) - 1
      f[i \in 0..n] == IF i = 0 THEN <<>> ELSE f[i - 1] \o d[i].names IN
  f[n]

fixup_imports(image) ==
  /\ linking = <<>>
  /\ linking' = Imports(image)
  /\ UNCHANGED <<export_names, pos, handed>>

\* One thunk, by ordinal or by name.
FillThunk ==
  /\ linking # <<>>
  /\ Lookup(Head(linking))
  /\ linking' = Tail(linking)

Next == expGetProcAddress \/ FillThunk \/ \E i \in Images : fixup_imports(i)

Spec == Init /\ [][Next]_vars
-----------------------------------------------------------------------------

\* A stub that is called tells the function that was asked for, or that there were
\* too many; and a function has one stub.  Names that do not fit a slot are excepted:
\* the next name runs into them.
StubsTell ==
  \A h \in handed :
    h[1] \in Short \cup Ordinal =>
      /\ h[2] < Slots - 1 => ReadFrom(export_names, h[2]) = <<<<h[1], 1, FALSE>>>>
      /\ \A g \in handed : g[1] = h[1] => g = h \/ (Slots - 1) \in {g[2], h[2]}

\* Every import of an image is filled whose descriptors all have characteristics or
\* all have none.
ImportsAll ==
  \A i \in Images :
    LET d == i.descriptors IN
    (\A k \in 1..Len(d) : d[k].characteristics = d[1].characteristics) =>
      {Imports(i)[k] : k \in 1..Len(Imports(i))} = UNION {{d[k].names[j] : j \in 1..Len(d[k].names)} : k \in 1..Len(d)}
=============================================================================

------------------------------ MODULE Registry ------------------------------
(***************************************************************************)
(* The registry of the emulation (wine/registry.c): values in memory, open *)
(* keys, and the file that every change writes from its start, without     *)
(* truncating it, and that the next process reads.                         *)
(*                                                                         *)
(* A name is a sequence of components under "HKLM" or "HKCU".  In the file *)
(* a record takes as many cells as it is long, 1 and its data; a cell is   *)
(* <<record, k>>, and a record can be read where its cells are together.   *)
(***************************************************************************)
EXTENDS Naturals, Sequences, FiniteSets

CONSTANTS Key,         \* subkeys and value names a caller uses: sequences of components, and None
          Data,        \* data of values: sequences
          None,
          Profile,     \* "Software\IniFileMapping\app\key\file" of a profile entry
          MaxHandles, MaxValues  \* bounds: the last handle made, values

VARIABLES
  regs,     \* the values [name, type, value], or None before the registry is read
  head,     \* the open keys [handle, name], the newest first
  zz,       \* the last handle made
  file,     \* [size, cells], or None if there is no file
  saving,   \* the number of records written of a save that goes on, or None
  before,   \* what was in the file before that save, or <<>>
  damaged,  \* a record was read from cells of others
  cut       \* a process stopped in a save

\* Handles of the roots; those that are made are others.
HKEY_LOCAL_MACHINE == 1
HKEY_CURRENT_USER == 2
Root == {HKEY_LOCAL_MACHINE, HKEY_CURRENT_USER}

vars == <<regs, head, zz, file, saving, before, damaged, cut>>

Init == /\ regs = None /\ head = <<>> /\ zz = 2 /\ file = None
        /\ saving = None /\ before = <<>> /\ damaged = FALSE /\ cut = FALSE

Idle == saving = None
-----------------------------------------------------------------------------
(* The file *)

CellsOf(r) == [k \in 1..(1 + Len(r.value)) |-> <<r, k>>]
Cells(rs) == LET f[i \in 0..Len(rs)] == IF i = 0 THEN <<>> ELSE f[i - 1] \o CellsOf(rs[i]) IN f[Len(rs)]

\* Cells written over those of the file, from its start.
Over(new, old) == IF Len(new) >= Len(old) THEN new ELSE new \o SubSeq(old, Len(new) + 1, Len(old))

\* As many records as the file says, while they can be read.
ReadBack(f) ==
  LET at[i \in 0..f.size] ==     \* the records read, and the next cell; cell 0 if one is broken
        IF i = 0 THEN [got |-> <<>>, cell |-> 1]
        ELSE LET p == at[i - 1] IN
             IF p.cell = 0 \/ p.cell > Len(f.cells) THEN [p EXCEPT !.cell = 0]
             ELSE LET r == f.cells[p.cell][1]
                      end == p.cell + Len(r.value) IN
                  IF end <= Len(f.cells) /\ SubSeq(f.cells, p.cell, end) = CellsOf(r)
                  THEN [got |-> Append(p.got, r), cell |-> end + 1] ELSE [p EXCEPT !.cell = 0] IN
  at[f.size]

NewRegistry == <<[name |-> <<"HKLM">>, type |-> "dir", value |-> <<>>],
                 [name |-> <<"HKCU">>, type |-> "dir", value |-> <<>>]>>

\* Mutant: the file is emptied first.
BeginTruncated(rs) ==
  /\ before' = IF file = None THEN <<>> ELSE ReadBack(file).got
  /\ file' = [size |-> Len(rs), cells |-> <<>>]
  /\ saving' = 0

\* The count, then the records in turn; what follows the last stays.
Begin(rs) ==
  /\ before' = IF file = None THEN <<>> ELSE ReadBack(file).got
  /\ file' = [size |-> Len(rs), cells |-> IF file = None THEN <<>> ELSE file.cells]
  /\ saving' = 0

save_registry ==
  /\ saving # None
  /\ IF saving = Len(regs) THEN saving' = None /\ before' = <<>> /\ UNCHANGED file
     ELSE /\ file' = [file EXCEPT !.cells = Over(Cells(SubSeq(regs, 1, saving + 1)), @)]
          /\ saving' = saving + 1
          /\ UNCHANGED before
  /\ UNCHANGED <<regs, head, zz, damaged, cut>>

-----------------------------------------------------------------------------
(* Start and end *)

create_registry == regs' = NewRegistry /\ Begin(NewRegistry) /\ UNCHANGED damaged

\* Of a file that is broken the records up to there are as they were; of the rest,
\* and of what follows from it, nothing is known.
open_registry ==
  IF file = None THEN create_registry
  ELSE /\ regs' = ReadBack(file).got
       /\ damaged' = (ReadBack(file).cell = 0 /\ file.size > 0)
       /\ UNCHANGED <<file, saving, before>>

\* Before the first call of a process, and after free_registry.
init_registry ==
  /\ Idle /\ regs = None /\ ~damaged
  /\ open_registry
  /\ head' = <<[handle |-> HKEY_CURRENT_USER, name |-> <<"HKCU">>], [handle |-> HKEY_LOCAL_MACHINE, name |-> <<"HKLM">>]>>
  /\ UNCHANGED <<zz, cut>>

\* When the last codec goes; handles go on being counted.
free_registry ==
  /\ Idle /\ regs # None
  /\ regs' = None /\ head' = <<>>
  /\ UNCHANGED <<zz, file, saving, before, damaged, cut>>

\* The process ends, in the middle of a save perhaps.
Stop ==
  /\ regs' = None /\ head' = <<>> /\ zz' = 2 /\ saving' = None /\ before' = <<>>
  /\ cut' = (cut \/ ~Idle)
  /\ UNCHANGED <<file, damaged>>

-----------------------------------------------------------------------------
(* Keys and values *)

find_handle(h) ==
  LET at == {i \in 1..Len(head) : head[i].handle = h} IN
  IF at = {} THEN None ELSE head[CHOOSE i \in at : \A j \in at : i <= j]

find_value_by_name(name) ==
  LET at == {i \in 1..Len(regs) : regs[i].name = name} IN
  IF at = {} THEN 0 ELSE CHOOSE i \in at : \A j \in at : i <= j

\* The name of a subkey or value under an open key.
build_keyname(h, sub) == find_handle(h).name \o IF sub = None THEN <<"<default>">> ELSE sub

insert_handle(name) ==
  /\ zz < MaxHandles
  /\ zz' = zz + 1
  /\ head' = <<[handle |-> zz + 1, name |-> name]>> \o head

\* The value replaced or added, and everything saved.
insert_reg_value(name, type, value) ==
  LET i == find_value_by_name(name)
      v == [name |-> name, type |-> type, value |-> value] IN
  /\ i # 0 \/ Len(regs) < MaxValues
  /\ regs' = IF i = 0 THEN Append(regs, v) ELSE [regs EXCEPT ![i] = v]
  /\ Begin(regs')

Ready(h) == Idle /\ regs # None /\ ~damaged /\ find_handle(h) # None

\* Opened whether or not there is such a key.
RegOpenKeyExA(h, sub) ==
  /\ Ready(h)
  /\ insert_handle(build_keyname(h, sub))
  /\ UNCHANGED <<regs, file, saving, before, damaged, cut>>

\* A key is a value of type DIR.
RegCreateKeyExA(h, sub) ==
  /\ Ready(h)
  /\ LET name == build_keyname(h, sub) IN
     /\ insert_handle(name)
     /\ IF find_value_by_name(name) = 0 THEN insert_reg_value(name, "dir", <<0>>)
        ELSE UNCHANGED <<regs, file, saving, before>>
  /\ UNCHANGED <<damaged, cut>>

\* The two roots stay open.
RegCloseKey(h) ==
  /\ Ready(h) /\ h \notin Root
  /\ \E i \in 1..Len(head) : head[i].handle = h /\ head' = SubSeq(head, 1, i - 1) \o SubSeq(head, i + 1, Len(head))
  /\ UNCHANGED <<regs, zz, file, saving, before, damaged, cut>>

RegSetValueExA(h, sub, type, value) ==
  /\ Ready(h)
  /\ insert_reg_value(build_keyname(h, sub), type, value)
  /\ UNCHANGED <<head, zz, damaged, cut>>

\* What a query answers: as much of the value as there is room for.
RegQueryValueExA(h, sub, count) ==
  IF find_handle(h) = None THEN [answer |-> 1]
  ELSE LET i == find_value_by_name(build_keyname(h, sub)) IN
       IF i = 0 THEN [answer |-> 2]
       ELSE LET v == regs[i].value IN
            [answer |-> IF count < Len(v) THEN "more" ELSE 0, type |-> regs[i].type, count |-> Len(v),
             data |-> SubSeq(v, 1, IF Len(v) < count THEN Len(v) ELSE count)]

\* Any index below ten gives the value of the key itself.
RegEnumValueA(h, index) ==
  IF find_handle(h) = None \/ index >= 10 THEN None
  ELSE LET i == find_value_by_name(find_handle(h).name) IN IF i = 0 THEN None ELSE regs[i].value

RegEnumKeyExA(h, index) == None

\* What a codec calls.
expRegOpenKeyExA(h, sub) == RegOpenKeyExA(h, sub)
expRegOpenKeyA(h, sub) == RegOpenKeyExA(h, sub)
expRegCreateKeyExA(h, sub) == RegCreateKeyExA(h, sub)
expRegSetValueExA(h, sub, value) == RegSetValueExA(h, sub, "binary", value)
expRegCloseKey(h) == RegCloseKey(h)
expRegQueryValueExA(h, sub, count) == RegQueryValueExA(h, sub, count)
expRegEnumValueA(h, index) == RegEnumValueA(h, index)
expRegEnumKeyExA(h, index) == RegEnumKeyExA(h, index)

\* A profile string is a value under HKLM.
expWritePrivateProfileStringA(value) == RegSetValueExA(HKEY_LOCAL_MACHINE, Profile, "string", value)

expGetPrivateProfileIntA(default) ==
  LET q == RegQueryValueExA(HKEY_LOCAL_MACHINE, Profile, 255) IN IF q.answer = 0 THEN q.data ELSE default

\* How much of the caller's buffer is written.  A value that does not fit is replaced
\* by the default, which is padded to the length of the value.
expGetPrivateProfileStringA(len) ==
  LET q == RegQueryValueExA(HKEY_LOCAL_MACHINE, Profile, len) IN
  IF q.answer = 0 THEN Len(q.data) ELSE IF q.answer = "more" THEN q.count ELSE len

-----------------------------------------------------------------------------

Handles == {head[i].handle : i \in 1..Len(head)}

Next ==
  \/ init_registry \/ free_registry \/ save_registry \/ Stop
  \/ \E value \in Data : expWritePrivateProfileStringA(value)
  \/ \E h \in Handles :
       \/ expRegCloseKey(h)
       \/ \E sub \in Key :
            \/ expRegOpenKeyExA(h, sub) \/ expRegOpenKeyA(h, sub) \/ expRegCreateKeyExA(h, sub)
            \/ \E value \in Data : expRegSetValueExA(h, sub, value)

Spec == Init /\ [][Next]_vars
-----------------------------------------------------------------------------

\* Whenever the process stops, the next one reads what was saved last; if it stops
\* in the middle of a save that adds a value or replaces one by one of its length,
\* every value but that one.
SurvivesStop ==
  regs # None /\ ~damaged =>
    LET got == ReadBack(file).got
        same == \A i \in 1..Len(before) : Len(regs[i].value) = Len(before[i].value)
        changed == {i \in 1..Len(before) : regs[i] # before[i]} IN
    /\ Idle => got = regs
    /\ ~Idle /\ same => /\ Cardinality(changed) <= 1
                        /\ \A i \in 1..Len(before) \ changed : i <= Len(got) /\ got[i] = before[i]

\* A value is found by its name, through whatever open key and whether it was set as
\* a value or as a profile string, and a query that says there is room writes no
\* more than that.  No two values have one name, until a process stops in a save: the
\* next may read former records once more, behind those that are found.
ValuesFound ==
  regs # None /\ ~damaged =>
    \A i \in 1..Len(regs) :
      \/ cut /\ \E j \in 1..(i - 1) : regs[j].name = regs[i].name
      \/ LET value == regs[i].value IN
         /\ \A h \in Handles, sub \in Key : build_keyname(h, sub) = regs[i].name =>
              expRegQueryValueExA(h, sub, Len(value)) =
                [answer |-> 0, type |-> regs[i].type, count |-> Len(value), data |-> value]
         /\ regs[i].name = <<"HKLM">> \o Profile =>
              /\ Len(value) <= 255 => expGetPrivateProfileIntA(None) = value
              /\ \A len \in 0..4 : Len(value) <= len => expGetPrivateProfileStringA(len) <= len
=============================================================================

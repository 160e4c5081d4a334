----------------------------- MODULE LibraryNames -----------------------------
(***************************************************************************)
(* The names by which DLLs ask wine/win32.c for libraries, and the handles *)
(* they get: LoadLibraryA, GetModuleHandleA, GetModuleFileNameA and what   *)
(* GetProcAddress makes of a handle.  A library that is loaded already is  *)
(* any whose path contains the name; five libraries are not files, and     *)
(* have handles of their own.  ModuleLoader models what loading does.      *)
(*                                                                         *)
(* A name is a sequence of pieces, such that no name ends within a piece   *)
(* of a path.  The handle of a file is its path.                           *)
(***************************************************************************)
EXTENDS Integers, Sequences, FiniteSetsExt, Functions

CONSTANTS Files,      \* the paths of the DLL files there are
          Asked,      \* the names the DLLs load
          DefPath,    \* win32_def_path
          Width,      \* piece -> its characters
          None

VARIABLES
  loaded,   \* local_wm: paths, the newest first
  given     \* what LoadLibraryA returned so far: <<name, handle>>

nameVars == <<loaded, given>>

Init == loaded = <<>> /\ given = {}

-----------------------------------------------------------------------------
(* Names *)

\* What follows the last separator; everything if there is none.
AfterLast(name, separator) ==
  LET at == {0} \cup {i \in DOMAIN name : name[i] = separator} IN SubSeq(name, Max(at) + 1, Len(name))

Contains(path, name) == \E i \in 0..(Len(path) - Len(name)) : SubSeq(path, i + 1, i + Len(name)) = name

\* The newest module whose file name has the name in it.
MODULE_FindModule(list, name) ==
  LET at == {i \in DOMAIN list : Contains(list[i], name)} IN
  IF at = {} THEN None ELSE list[Min(at)]

\* The name as it is, then in each directory; one that is DefPath comes once.
Listed(dir) == IF dir = DefPath THEN <<>> ELSE <<dir>>
Directories == <<DefPath>> \o Listed(<<"/usr/lib/win32">>) \o Listed(<<"/usr/local/lib/win32">>)
Candidates(name) == <<name>> \o [i \in DOMAIN Directories |-> Directories[i] \o <<"/">> \o name]

LoadLibraryExA(name) ==
  LET there == {i \in DOMAIN Candidates(name) : Candidates(name)[i] \in Files}
      found == Candidates(name)[Min(there)] IN
  IF MODULE_FindModule(loaded, name) # None THEN [list |-> loaded, handle |-> MODULE_FindModule(loaded, name)]
  ELSE IF there = {} THEN [list |-> loaded, handle |-> None]
  ELSE [list |-> <<found>> \o loaded, handle |-> found]

-----------------------------------------------------------------------------
(* What the DLLs call *)

\* Libraries without a file, with the name's ending or without.
Emulated == {"kernel32", "user32", "wininet", "ddraw", "advapi32"}
EmulatedHandle(name) ==
  IF name # <<>> /\ name[1] \in Emulated /\ Tail(name) \in {<<>>, <<".dll">>} THEN <<"emulated", name[1]>> ELSE None

\* The path in front is cut off, in the caller's string.
expLoadLibraryA(name) ==
  LET bare == AfterLast(name, "\\")
      of == IF EmulatedHandle(bare) # None THEN [list |-> loaded, handle |-> EmulatedHandle(bare)]
            ELSE LoadLibraryExA(bare) IN
  /\ loaded' = of.list
  /\ given' = IF of.handle = None THEN given ELSE given \cup {<<bare, of.handle>>}

\* Nothing is unloaded: QuickTime would free what it still uses.
expFreeLibrary(handle) == UNCHANGED nameVars

\* The caller's own module has the handle 1.  Of the emulated ones two have a handle
\* here, and one of these by its short name only.
Program == <<"program">>
expGetModuleHandleA(name) ==
  IF name = None THEN Program
  ELSE IF MODULE_FindModule(loaded, name) # None THEN MODULE_FindModule(loaded, name)
  ELSE IF name \in {<<"kernel32">>, <<"kernel32", ".dll">>, <<"user32">>} THEN EmulatedHandle(name)
  ELSE None

\* A buffer with less than 12 characters for the program, or 35 for others, is refused.
expGetModuleFileNameA(module, len) ==
  IF module = None /\ len >= 12 THEN <<"aviplay", ".dll">>
  ELSE IF len < 35 THEN None
  ELSE <<"c:", "\\", "windows", "\\", "system", "\\">> \o
       IF module \in Range(loaded) THEN AfterLast(module, "/") ELSE <<"aviplay", ".dll">>

\* The library in which GetProcAddress looks, if there is one of the handle.
Library(handle) ==
  IF handle \in {<<"emulated", e>> : e \in Emulated} \cup Range(loaded) THEN handle ELSE None

Next ==
  \/ \E n \in Asked : expLoadLibraryA(n)
  \/ \E g \in given : expFreeLibrary(g[2])

Spec == Init /\ [][Next]_nameVars
-----------------------------------------------------------------------------

Characters(name) ==
  LET of[i \in 0..Len(name)] == IF i = 0 THEN 0 ELSE of[i - 1] + Width[name[i]] IN of[Len(name)]

\* The name of another file has this one in it.
Within(name) == \E p \in Range(loaded) : Contains(p, name) /\ AfterLast(p, "/") # AfterLast(name, "/")

\* A DLL can use what it loaded: functions are found in the handle, always, and its
\* file is the one of the name, unless the name is within the path of another file that
\* is loaded.  GetModuleHandleA of the name gives the same handle, with that exception
\* and but for four of the emulated libraries, one of them by its long name only.
\* The file name that is told is that of the module, and fits the buffer if the name
\* leaves room for the directory, which nobody looks at.
HandlesAgree ==
  /\ \A g \in given :
       /\ Library(g[2]) = g[2]
       /\ Within(g[1]) \/ g[2] \notin Files \/ AfterLast(g[2], "/") = AfterLast(g[1], "/")
       /\ \/ Within(g[1]) \/ expGetModuleHandleA(g[1]) = g[2]
          \/ g[1] = <<"user32", ".dll">> \/ g[1][1] \in Emulated \ {"kernel32", "user32"}
  /\ \A m \in Range(loaded), len \in 34..44 :
       LET told == expGetModuleFileNameA(m, len)  base == AfterLast(m, "/") IN
       told # None => /\ AfterLast(told, "\\") = base
                      /\ Characters(base) + 19 <= len => Characters(told) < len
  /\ \A len \in 11..12 : expGetModuleFileNameA(None, len) # None <=> Characters(<<"aviplay", ".dll">>) < len
=============================================================================

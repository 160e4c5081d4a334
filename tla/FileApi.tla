-------------------------------- MODULE FileApi --------------------------------
(***************************************************************************)
(* The files of wine/win32.c, as a DLL uses them.  A handle is a file      *)
(* descriptor of the process; CreateFileA looks at what a name contains,   *)
(* and only files of QuickTime, of AngelPotion and of VP3 are opened.  The *)
(* one search that can list more than a file keeps its DIR in the static   *)
(* qtx_dir.                                                                *)
(***************************************************************************)
EXTENDS Integers, Sequences, FiniteSets, SequencesExt

CONSTANTS None,
          MaxFd,      \* the descriptors of the process are 0..MaxFd
          MaxHeld,    \* handles a DLL has at a time
          FileLength, \* reads that a file lasts
          Directory,  \* what the directory of the codecs holds: the names, in order
          Plugins,    \* the names that end in .qtx
          Search,     \* searches a DLL has at a time
          Present     \* other files that are there: subset of {"qts", "apl", "vp3"}

VARIABLES
  open,           \* descriptor -> what is open: [file, at, mode], or None
  held,           \* handles of the DLL: [h, file, at], at as its own calls make it
  shared,         \* a handle was duplicated: two are one descriptor
  qtx_dir,        \* names readdir has still to return, or None
  searching,      \* searches the DLL began and has not ended
  wanted,         \* search -> the plugins it has still to return
  overlapped      \* a search began before another had ended

fileVars == <<open, held, shared, qtx_dir, searching, wanted, overlapped>>
searchVars == <<qtx_dir, searching, wanted, overlapped>>

Fds == 3..MaxFd       \* 0..2 are the standard ones
Contents == {"qts", "apl", "vp3"} \cup Plugins

Init ==
  /\ open = [d \in Fds |-> None] /\ held = {} /\ shared = FALSE
  /\ qtx_dir = None /\ searching = {} /\ wanted = [s \in Search |-> {}] /\ overlapped = FALSE

Exists(f) == f \in Present \cup {Directory[i] : i \in DOMAIN Directory}
Full == \A d \in Fds : open[d] # None
Lowest == CHOOSE d \in Fds : open[d] = None /\ \A e \in Fds : open[e] = None => d <= e

\* open() returns the lowest free descriptor, or -1.
Opened(f, how) == open' = [open EXCEPT ![Lowest] = [file |-> f, at |-> 0, mode |-> how]]

\* A name selects the file; vp3's is opened as GENERIC_READ or only GENERIC_WRITE ask
\* for, every other to be read.
CreateFileA(f, how) ==
  /\ f \in Contents /\ (how = "w" => f = "vp3") /\ Cardinality(held) < MaxHeld
  /\ IF Exists(f) /\ ~Full
     THEN Opened(f, how) /\ held' = held \cup {[h |-> Lowest, file |-> f, at |-> 0]}
     ELSE UNCHANGED <<open, held>>
  /\ UNCHANGED <<shared, searchVars>>

\* Any other name is a number from its third character on; of a path that is 0, the
\* standard input.
CreateOther ==
  /\ Cardinality(held) < MaxHeld
  /\ held' = held \cup {[h |-> 0, file |-> "stdin", at |-> 0]}
  /\ UNCHANGED <<open, shared, searchVars>>

\* mkstemp creates and opens a file whose descriptor becomes the name: nobody has it
\* as a handle, and CreateFileA of that name opens AngelPotion's file.
GetTempFileNameA ==
  /\ ~Full /\ Opened("temp", "w")
  /\ UNCHANGED <<held, shared, searchVars>>

\* The target handle is the source's number.
DuplicateHandle(x) ==
  /\ x \in held /\ ~shared
  /\ shared' = TRUE
  /\ UNCHANGED <<open, held, searchVars>>

\* A handle that was duplicated may be closed a second time, after the number was
\* given to another file.
CloseHandle(x) ==
  /\ x \in held
  /\ open' = IF x.h > 2 THEN [open EXCEPT ![x.h] = None] ELSE open
  /\ held' \in {held \ {x}} \cup IF shared THEN {held} ELSE {}
  /\ UNCHANGED <<shared, searchVars>>

IsOpen(x) == x.h \in Fds /\ open[x.h] # None
Advanced(n) == IF n < FileLength THEN n + 1 ELSE n

\* read() and write() return -1 where the mode does not allow them, which both report
\* as a success.
Transfer(x, how) ==
  /\ x \in held
  /\ IF IsOpen(x) /\ open[x.h].mode = how
     THEN /\ open' = [open EXCEPT ![x.h].at = Advanced(@)]
          /\ held' = (held \ {x}) \cup {[x EXCEPT !.at = Advanced(@)]}
     ELSE UNCHANGED <<open, held>>
  /\ UNCHANGED <<shared, searchVars>>

ReadFile(x) == Transfer(x, "r")
WriteFile(x) == Transfer(x, "w")

\* "val & *ext" of a val that is 0 is 0.
SetFilePointer(x, whence) ==
  /\ x \in held /\ IsOpen(x)
  /\ LET n == IF whence = "begin" THEN 0 ELSE IF whence = "end" THEN FileLength ELSE open[x.h].at IN
     /\ open' = [open EXCEPT ![x.h].at = n]
     /\ held' = (held \ {x}) \cup {[x EXCEPT !.at = IF whence = "current" THEN @ ELSE n]}
  /\ UNCHANGED <<shared, searchVars>>

FilesSame == UNCHANGED <<open, held, shared>>

\* Where the next plugin is among the names that readdir has still to return, or 0.
NextPlugin(rest) == SelectInSeq(rest, LAMBDA n : n \in Plugins)

\* Search s gets the next plugin, or ends, where the directory is closed.
ReadNext(s, rest, missing) ==
  IF NextPlugin(rest) = 0
  THEN qtx_dir' = None /\ searching' = searching \ {s} /\ wanted' = [wanted EXCEPT ![s] = missing]
  ELSE /\ qtx_dir' = SubSeq(rest, NextPlugin(rest) + 1, Len(rest))
       /\ searching' = searching \cup {s}
       /\ wanted' = [wanted EXCEPT ![s] = missing \ {rest[NextPlugin(rest)]}]

\* A search for *.QTX opens the directory, over one that is open.  (Searches for
\* QuickTime.qts and *.vwp are answered with one name each, and nothing is kept.)
FindFirstFileA(s) ==
  /\ s \notin searching
  /\ ReadNext(s, Directory, Plugins \cap Range(Directory))
  /\ overlapped' = (overlapped \/ searching # {})
  /\ FilesSame

\* Every search has the same handle.
FindNextFileA(s) ==
  /\ s \in searching
  /\ ReadNext(s, IF qtx_dir = None THEN <<>> ELSE qtx_dir, wanted[s])
  /\ UNCHANGED overlapped /\ FilesSame

\* Ends the search for the DLL; the directory stays open.
FindClose(s) ==
  /\ s \in searching
  /\ searching' = searching \ {s} /\ wanted' = [wanted EXCEPT ![s] = {}]
  /\ UNCHANGED <<qtx_dir, overlapped>> /\ FilesSame

HandleNext ==
  \/ \E f \in Contents, how \in {"r", "w"} : CreateFileA(f, how)
  \/ CreateOther \/ GetTempFileNameA
  \/ \E x \in held : \/ CloseHandle(x) \/ DuplicateHandle(x) \/ ReadFile(x) \/ WriteFile(x)
                     \/ \E whence \in {"begin", "end", "current"} : SetFilePointer(x, whence)

SearchNext == \E s \in Search : FindFirstFileA(s) \/ FindNextFileA(s) \/ FindClose(s)

Next == HandleNext \/ SearchNext

Spec == Init /\ [][Next]_fileVars
-----------------------------------------------------------------------------

\* Until a handle is duplicated, the DLL reads and writes through each of its handles
\* the file it opened, from where its own calls left it; and unless searches overlap,
\* one that reads to the end returns every plugin once.
HandlesKeepFile ==
  /\ \A x \in held : shared \/ x.h = 0 \/ (IsOpen(x) /\ open[x.h].file = x.file /\ open[x.h].at = x.at)
  /\ overlapped \/ \A s \in Search \ searching : wanted[s] = {}
=============================================================================

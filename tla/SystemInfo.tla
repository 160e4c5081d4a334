------------------------------ MODULE SystemInfo ------------------------------
(***************************************************************************)
(* What wine/win32.c tells the DLLs about the processor.  The first call   *)
(* of GetSystemInfo reads /proc/cpuinfo into two statics, the structure    *)
(* that it caches and the table PF of features; IsProcessorFeaturePresent  *)
(* reads the table, and fills it by such a call when nobody has.  Nothing  *)
(* locks the two: threads that call for the first time at once read the    *)
(* file together.                                                          *)
(***************************************************************************)
EXTENDS Naturals, Sequences, FiniteSetsExt

CONSTANTS Caller,      \* threads
          CpuInfos,    \* files, each as fgets returns it: pieces [key, value]
          Asked,       \* the features the DLLs ask for
          None

\* A piece without a colon, as the rest of a line of more than 199 characters is,
\* has the key None.  The values of the others: a digit for "cpu family" and "cpu", a
\* number for "stepping" and "processor", whether it is yes for "fdiv_bug" and "fpu",
\* and for "flags" the entries of PF whose name occurs somewhere in the piece.

VARIABLES
  cpuinfo,     \* the file
  cache,       \* the static flag: cachedsi is complete
  cachedsi,    \* processor type (the level follows from it), revision, number
  PF, pf_set,  \* the features, and whether somebody began to fill them in
  reads,       \* caller -> pieces it has read of the file
  wants,       \* caller in GetSystemInfo -> "info", or the feature it asks for; or None
  info,        \* caller -> the structure as its last GetSystemInfo left it, or None
  answer,      \* caller -> what it was last told: [feature, present], or None
  together,    \* history: two callers were at the statics at once
  unread       \* history: the file could not be opened

vars == <<cpuinfo, cache, cachedsi, PF, pf_set, reads, wants, info, answer, together, unread>>
statics == <<cache, cachedsi, PF, pf_set>>

PENTIUM == 586
TypeOf(digit) == IF digit \in {3, 4} THEN digit * 100 + 86 ELSE PENTIUM
Blank == [type |-> 386, revision |-> 257, number |-> 1]     \* the values to begin with

Init ==
  /\ cpuinfo \in CpuInfos
  /\ cache = FALSE /\ cachedsi = [type |-> 0, revision |-> 0, number |-> 0]
  /\ PF = {} /\ pf_set = FALSE
  /\ reads = [c \in Caller |-> 0] /\ wants = [c \in Caller |-> None]
  /\ info = [c \in Caller |-> None] /\ answer = [c \in Caller |-> None]
  /\ together = FALSE /\ unread = FALSE

Idle(c) == wants[c] = None
Meets(c) == together' = (together \/ \E d \in Caller \ {c} : ~Idle(d))

\* The statics are cleared, and PF counts as set from now on.
Begin(c, what) ==
  /\ PF' = {} /\ pf_set' = TRUE /\ cachedsi' = Blank
  /\ reads' = [reads EXCEPT ![c] = 0] /\ wants' = [wants EXCEPT ![c] = what]
  /\ UNCHANGED <<cache, info, answer>>

GetSystemInfo(c) ==
  /\ Idle(c) /\ Meets(c)
  /\ IF cache
     THEN info' = [info EXCEPT ![c] = cachedsi] /\ UNCHANGED <<statics, reads, wants, answer>>
     ELSE Begin(c, "info")
  /\ UNCHANGED <<cpuinfo, unread>>

Tell(c, f) == answer' = [answer EXCEPT ![c] = [feature |-> f, present |-> f \in PF]]

IsProcessorFeaturePresent(c, f) ==
  /\ Idle(c) /\ Meets(c)
  /\ IF pf_set
     THEN Tell(c, f) /\ UNCHANGED <<statics, reads, wants, info>>
     ELSE Begin(c, f)
  /\ UNCHANGED <<cpuinfo, unread>>

\* A call that read the file returns; the caller's structure is left alone when the
\* file could not be opened.
Return(c, filled) ==
  /\ wants' = [wants EXCEPT ![c] = None]
  /\ IF wants[c] = "info"
     THEN info' = [info EXCEPT ![c] = IF filled THEN cachedsi' ELSE None] /\ UNCHANGED answer
     ELSE Tell(c, wants[c]) /\ UNCHANGED info

OpenFails(c) ==
  /\ ~Idle(c) /\ reads[c] = 0
  /\ unread' = TRUE
  /\ Return(c, FALSE)
  /\ UNCHANGED <<cpuinfo, statics, reads, together>>

\* "cpu family", and the older "cpu" whose value is 386, 486 and so on.
CpuFamily(p) == cachedsi' = [cachedsi EXCEPT !.type = TypeOf(p.value)] /\ UNCHANGED PF

\* The number grows as processors are listed.
Processor(p) ==
  /\ cachedsi' = [cachedsi EXCEPT !.number = IF p.value + 1 > @ THEN p.value + 1 ELSE @]
  /\ UNCHANGED PF

Stepping(p) == cachedsi' = [cachedsi EXCEPT !.revision = p.value] /\ UNCHANGED PF

\* The features a piece shows.
Shows(p) ==
  CASE p.key = "fdiv_bug" -> IF p.value THEN {"precision errata"} ELSE {}
    [] p.key = "fpu" -> IF p.value THEN {} ELSE {"emulated"}
    [] p.key = "flags" -> p.value
    [] OTHER -> {}

Features(p) == PF' = PF \cup Shows(p) /\ UNCHANGED cachedsi

ReadPiece(c) ==
  /\ ~Idle(c) /\ reads[c] < Len(cpuinfo)
  /\ LET p == cpuinfo[reads[c] + 1] IN
       CASE p.key \in {"cpu family", "cpu"} -> CpuFamily(p)
         [] p.key = "processor" -> Processor(p)
         [] p.key = "stepping" -> Stepping(p)
         [] OTHER -> Features(p)
  /\ reads' = [reads EXCEPT ![c] = @ + 1]
  /\ UNCHANGED <<cpuinfo, cache, pf_set, wants, info, answer, together, unread>>

\* At the end of the file there is one processor, as far as the DLLs know.
Finish(c) ==
  /\ ~Idle(c) /\ reads[c] = Len(cpuinfo)
  /\ cachedsi' = [cachedsi EXCEPT !.number = 1]
  /\ cache' = TRUE
  /\ Return(c, TRUE)
  /\ UNCHANGED <<cpuinfo, PF, pf_set, reads, together, unread>>

Next ==
  \E c \in Caller :
    \/ GetSystemInfo(c) \/ OpenFails(c) \/ ReadPiece(c) \/ Finish(c)
    \/ \E f \in Asked : IsProcessorFeaturePresent(c, f)

-----------------------------------------------------------------------------
(* Properties *)

Pieces(keys) == {i \in DOMAIN cpuinfo : cpuinfo[i].key \in keys}
LastOf(keys, default) == IF Pieces(keys) = {} THEN default ELSE cpuinfo[Max(Pieces(keys))].value
Shown == UNION {Shows(cpuinfo[i]) : i \in DOMAIN cpuinfo}
InfoOfFile == [type |-> TypeOf(LastOf({"cpu family", "cpu"}, 3)),
               revision |-> LastOf({"stepping"}, 257), number |-> 1]

\* A DLL is never told of a feature that the file does not show, whatever calls overlap
\* and even when the file cannot be read.  Unless two callers are at the statics at once,
\* a structure that is filled says what the file says, with one processor however many
\* it lists; and unless the file could not be opened, no feature it shows is denied.
FeaturesTold ==
  /\ \A c \in Caller : answer[c] # None => (answer[c].present => answer[c].feature \in Shown)
  /\ ~together =>
       \A c \in Caller :
         /\ info[c] \in {None, InfoOfFile}
         /\ answer[c] # None /\ ~unread => (answer[c].feature \in Shown => answer[c].present)
=============================================================================

------------------------------ MODULE MCTables ------------------------------
(***************************************************************************)
(* The tables of the Win32 emulation, one at a time: memory and PE images, *)
(* the imports and stubs of an image and what is looked up in it, drivers, *)
(* the registry, the names of libraries, and what is known of the          *)
(* processor and its clock.  The part is chosen at the start; the others   *)
(* stay as they are.                                                       *)
(***************************************************************************)
EXTENDS PeLoad, Integers

CONSTANTS
  ShortNames, LongNames, OrdinalNames, KnownNames, RefusedName, SlotCount, ToLink,  \* of ExportStubs
  Records, Drivers, StreamHandles, WaveTags, HeaderBuffers,                         \* of AcmDrivers
  ComponentsUsed, KeysUsed, DataUsed, ProfileUsed, LastHandle, LastValue,           \* of Registry
  TablesUsed, TableOfModule, RootsUsed, RootOfModule, IdsAsked, StringsAsked, RoomUsed, ImagesUsed, ShortValues,  \* of PeLookup
  PiecesUsed, LibraryFiles, NamesAsked, Directory, PieceWidth,                      \* of LibraryNames
  Threads, CpuInfosUsed, FeaturesAsked,                                             \* of SystemInfo
  ClockRates, ClockListings, UnitsPerSecond, WordValues, LastTime                   \* of TimeCounter

\* A name fits its slot or does not, and there is a slot; a record and a stream are not None.
ImportName == ShortNames \cup OrdinalNames \cup LongNames \cup {RefusedName}
ASSUME StubAssumption ==
  /\ SlotCount \in Nat \ {0} /\ LongNames \cap (ShortNames \cup OrdinalNames) = {}
  /\ \A i \in ToLink : i.descriptors \in Seq([characteristics : BOOLEAN, names : Seq(ImportName)])
ASSUME DriverAssumption == None \notin Records \cup [driver : Drivers, own : BOOLEAN]

\* A name is a sequence of components and data one of bytes; none of them is None.
Component == {"HKLM", "HKCU", "<default>"} \cup ComponentsUsed
RegType == {"dir", "binary", "string"}
RegValue == [name : Seq(Component), type : RegType, value : Seq(Nat)]
ASSUME RegistryAssumption ==
  /\ KeysUsed \subseteq {None} \cup Seq(Component) /\ DataUsed \subseteq Seq(Nat) /\ ProfileUsed \in Seq(Component)
  /\ LastHandle \in Nat /\ LastValue \in Nat
  /\ None \notin Nat \cup Seq(Component) \cup [handle : Nat, name : Seq(Component)]
  /\ None \notin Seq(RegValue) \cup [size : Nat, cells : Seq(RegValue \X Nat)]

\* An export is code or a forward, or there is none; names are compared as numbers.
IsSequence(s) == s \in Seq({s[i] : i \in DOMAIN s})
ASSUME ExportAssumption ==
  \A t \in TablesUsed \cup {TableOfModule[m] : m \in DOMAIN TableOfModule} :
    /\ t.base \in Int /\ IsSequence(t.functions) /\ IsSequence(t.names)
    /\ \A i \in 1..Len(t.functions) : t.functions[i] = None \/ t.functions[i][1] \in {"code", "forward"}
    /\ \A i \in 1..Len(t.names) : t.names[i][1] \in Int /\ t.names[i][2] \in Int

\* A directory has an id once and something for it, down to the data of a language; a string
\* table has its sixteen strings.  A module is not None, nor is memory in it.
DirectoryOK(d) ==
  /\ d # None /\ IsSequence(d.named) /\ IsSequence(d.ids)
  /\ \A i \in 1..Len(d.ids) : d.ids[i][2] # None /\ \A j \in 1..Len(d.ids) : d.ids[i][1] = d.ids[j][1] => i = j
ASSUME ResourceAssumption ==
  /\ \A r \in RootsUsed \cup ({RootOfModule[m] : m \in DOMAIN RootOfModule} \ {None}) :
       /\ DirectoryOK(r)
       /\ \A i \in 1..Len(r.ids) :
            /\ DirectoryOK(r.ids[i][2])
            /\ \A j \in 1..Len(r.ids[i][2].ids) :
                 /\ DirectoryOK(r.ids[i][2].ids[j][2])
                 /\ \A l \in 1..Len(r.ids[i][2].ids[j][2].ids) :
                      LET data == r.ids[i][2].ids[j][2].ids[l][2] IN
                      IF r.ids[i][1] = 6 THEN data \in [1..16 -> Seq(Nat)] ELSE data.offset \in Nat
  /\ None \notin DOMAIN RootOfModule \cup ((DOMAIN RootOfModule) \X Nat) /\ 6 \notin IdsAsked
  /\ StringsAsked \subseteq Nat /\ RoomUsed \in Nat

\* What is fixed up is in the image, and no two fixups have a short in common.
Shorts(block, f) ==
  LET at == block.page + f[1] IN
  IF f[2] \in {"HIGH", "LOW"} THEN {at} ELSE IF f[2] = "HIGHLOW" THEN {at, at + 1} ELSE {}
ASSUME FixupAssumption ==
  /\ ShortValues \in Nat \ {0}
  /\ \A i \in ImagesUsed :
       /\ i.base \in Nat /\ i.memory \in Seq(0..(ShortValues - 1)) /\ IsSequence(i.blocks)
       /\ \A b \in 1..Len(i.blocks) :
            LET block == i.blocks[b] IN
            /\ block.page \in Nat /\ IsSequence(block.fixups)
            /\ \A k \in 1..Len(block.fixups) :
                 /\ block.fixups[k][1] \in Nat /\ Shorts(block, block.fixups[k]) \subseteq DOMAIN i.memory
                 /\ \A c \in 1..Len(i.blocks) : \A l \in 1..Len(i.blocks[c].fixups) :
                      <<c, l>> = <<b, k>> \/ Shorts(block, block.fixups[k]) \cap Shorts(i.blocks[c], i.blocks[c].fixups[l]) = {}

\* A time stamp counts up, and a second has units; a number is not None.
ASSUME ClockAssumption ==
  /\ ClockRates \subseteq Nat /\ UnitsPerSecond \in Nat \ {0} /\ WordValues \in Nat \ {0} /\ LastTime \in Nat
  /\ None \notin Int /\ \A l \in ClockListings : \A k \in DOMAIN l : l[k].value \in Nat \cup {None}
  /\ \A l \in ClockListings : DOMAIN l \subseteq Nat

\* A file is a sequence of pieces; a feature that is asked for is neither None nor "info".
ASSUME SystemAssumption ==
  /\ \A f \in CpuInfosUsed : Len(f) \in Nat /\ DOMAIN f = 1..Len(f)
  /\ None # "info" /\ {None, "info"} \cap FeaturesAsked = {}
  /\ \A f \in FeaturesAsked : None \notin [feature : {f}, present : BOOLEAN]

\* A DLL names libraries without directories of the system.  Files have no paths like
\* the handles of those that are none.
Piece == {"/", "\\", "c:", "windows", "system", "aviplay", ".dll", "kernel32", "user32", "/usr/lib/win32", "/usr/local/lib/win32"} \cup PiecesUsed
ASSUME NameAssumption ==
  /\ NamesAsked \subseteq Seq(Piece \ {"/"}) /\ LibraryFiles \subseteq Seq(Piece) /\ Directory \in Seq(Piece)
  /\ "emulated" \notin PiecesUsed /\ None \notin Seq(Piece \cup {"emulated"})
  /\ PieceWidth \in [Piece -> Nat]
  /\ PieceWidth["c:"] = 2 /\ PieceWidth["\\"] = 1 /\ PieceWidth["windows"] = 7 /\ PieceWidth["system"] = 6
  /\ PieceWidth["aviplay"] = 7 /\ PieceWidth[".dll"] = 4

VARIABLES
  part,
  export_names, pos, handed, linking,                                          \* ExportStubs
  ids, list, id, live, hics, streams, probe, header, told, codecs, crashed,    \* AcmDrivers
  regs, head, zz, file, saving, before, damaged, cut,                          \* Registry
  loaded, given,                                                               \* LibraryNames
  cpuinfo, cache, cachedsi, PF, pf_set, reads, wants, info, answer, together, unread,  \* SystemInfo
  now, tsc, rate, listing, source, ofreq, step, saw, early, freq, count, late               \* TimeCounter

stubVars == <<export_names, pos, handed, linking>>
acmVars == <<ids, list, id, live, hics, streams, probe, header, told, codecs, crashed>>
regVars == <<regs, head, zz, file, saving, before, damaged, cut>>
nameVars == <<loaded, given>>
cpuVars == <<cpuinfo, cache, cachedsi, PF, pf_set, reads, wants, info, answer, together, unread>>
timeVars == <<now, tsc, rate, listing, source, ofreq, step, saw, early, freq, count, late>>
-----------------------------------------------------------------------------
(* Images to load: two sections that end within a page, one of them not on *)
(* a page of the file; one that cannot be relocated; one that is refused.  *)

Section(at, size, raw, aligned) == [at |-> at, size |-> size, raw |-> raw, aligned |-> aligned]
ImageOf(base, relocs, valid, sections) ==
  [base |-> base, header |-> 1, relocs |-> relocs, valid |-> valid, sections |-> sections]
SmallImages == {
  ImageOf(4, TRUE, TRUE, <<Section(2, 4, 1, TRUE), Section(6, 1, 2, FALSE)>>),
  ImageOf(4, FALSE, TRUE, <<Section(2, 2, 3, TRUE)>>),
  ImageOf(8, TRUE, FALSE, <<>>)}

(* Images to link, tables and resources to look up in. *)

Descriptor(has, names) == [characteristics |-> has, names |-> names]
LinkImages == {
  [descriptors |-> <<Descriptor(TRUE, <<"a", "b">>), Descriptor(TRUE, <<"l1", "o:1">>)>>],
  [descriptors |-> <<Descriptor(FALSE, <<"c">>), Descriptor(FALSE, <<"l2", "a">>)>>],
  [descriptors |-> <<Descriptor(TRUE, <<"o:1">>), Descriptor(FALSE, <<"b">>)>>]}

Code(n) == <<"code", n>>
NameTables == {<<>>, <<<<1, 3>>, <<2, 0>>>>, <<<<1, 3>>, <<2, 0>>, <<4, 1>>>>, <<<<4, 3>>, <<2, 0>>, <<3, 4>>>>}
ExportTables ==
  {[base |-> 1, functions |-> <<Code(1), None, <<"forward", "B", 1>>, Code(4)>>, names |-> n] : n \in NameTables}
LoadedTables == [m \in {"A", "B"} |-> CHOOSE t \in ExportTables : Len(t.names) = 2]

Ids(s) == [named |-> <<>>, ids |-> s]
Strings == [k \in 1..16 |-> <<k, k, 0, k>>]
Entry(offset, size) == [offset |-> offset, size |-> size]
Roots == {
  [named |-> <<<<"T", Ids(<<>>)>>>>, ids |-> <<<<6, Ids(<<<<1, Ids(<<<<1033, Strings>>>>)>>>>)>>>>],
  Ids(<<<<2, [named |-> <<<<"x", Ids(<<<<0, Entry(3, 4)>>>>)>>>>,
              ids |-> <<<<5, Ids(<<<<1, Entry(1, 2)>>, <<0, Entry(7, 1)>>>>)>>, <<7, Ids(<<>>)>>>>]>>>>)}
LoadedRoots == [m \in {"A", "B"} |-> IF m = "A" THEN CHOOSE r \in Roots : r.ids[1][1] = 2 ELSE None]

(* Images to relocate: a whole pointer and one in halves, a block that pads, one that
   is behind the end. *)
Block(page, fixups) == [page |-> page, fixups |-> fixups]
MovedImages ==
  {[base |-> b, memory |-> m,
    blocks |-> <<Block(1, <<<<0, "HIGHLOW">>, <<0, "ABSOLUTE">>>>),
                 Block(3, <<<<0, "LOW">>, <<1, "HIGH">>>>), Block(0, <<>>), Block(5, <<<<0, "HIGH">>>>)>>] :
     b \in {0, 4, 6}, m \in {<<2, 3, 3, 1, 2, 0>>, <<0, 0, 1, 3, 3, 3>>}}

(* DLL files, one name within another, and the names they are asked for by; the longest *)
(* is as long as there is room for in the smallest buffer.                              *)

DefPath == <<"/w">>
InDefPath(name) == DefPath \o <<"/">> \o name
DllFiles == {InDefPath(<<"a", ".dll">>), InDefPath(<<"a", "a", ".dll">>), <<"/usr/lib/win32", "/", "b", ".dll">>}
AskedNames == {<<"a", ".dll">>, <<"c:", "\\", "a", "a", ".dll">>, <<"b", ".dll">>, <<"b">>, <<"c", ".dll">>,
               <<"user32", ".dll">>, <<"kernel32">>, <<"ddraw">>}
PiecesOfNames == {"/w", "a", "b", "c", "ddraw"}
Widths == {<<"aviplay", 7>>, <<".dll", 4>>, <<"c:", 2>>, <<"\\", 1>>, <<"windows", 7>>, <<"system", 6>>, <<"a", 12>>}
PieceWidths == [p \in Piece |-> IF \E x \in Widths : x[1] = p THEN (CHOOSE x \in Widths : x[1] = p)[2] ELSE 1]

(* Keys and values of the registry. *)

Keys == {<<"k">>}
ProfileKey == <<"k", "k">>
Values == {<<>>}
Buffers == {[at |-> 1, length |-> 1], [at |-> 1, length |-> 2]}

(* Two processors whose line of flags is longer than a piece; an old one. *)

CpuPiece(k, v) == [key |-> k, value |-> v]
CpuFiles == {
  <<CpuPiece("processor", 0), CpuPiece("cpu family", 1), CpuPiece("stepping", 3), CpuPiece("fpu", TRUE),
    CpuPiece("flags", {"mmx"}), CpuPiece(None, {"ssse3"}), CpuPiece("processor", 1)>>,
  <<CpuPiece("cpu", 4), CpuPiece("fdiv_bug", TRUE), CpuPiece("fpu", FALSE)>>}

(* Its frequency: listed after what is no number; listed as zero; not listed. *)

MHz(v) == CpuPiece("cpu MHz", v)
ClockFiles == {<<MHz(None), CpuPiece("bogomips", 7), MHz(5), MHz(6)>>, <<MHz(0), MHz(5)>>, <<>>}
-----------------------------------------------------------------------------

Stubs == INSTANCE ExportStubs WITH
  Short <- ShortNames, Long <- LongNames, Ordinal <- OrdinalNames, Known <- KnownNames,
  Refused <- RefusedName, Slots <- SlotCount, Images <- ToLink
Look == INSTANCE PeLookup WITH Half <- ShortValues
Acm == INSTANCE AcmDrivers WITH
  DriverID <- Records, Driver <- Drivers, Stream <- StreamHandles, Tag <- WaveTags, Buffer <- HeaderBuffers
Reg == INSTANCE Registry WITH
  Key <- KeysUsed, Data <- DataUsed, Profile <- ProfileUsed, MaxHandles <- LastHandle, MaxValues <- LastValue
System == INSTANCE SystemInfo WITH
  Caller <- Threads, CpuInfos <- CpuInfosUsed, Asked <- FeaturesAsked
Clock == INSTANCE TimeCounter WITH
  Caller <- Threads, Rates <- ClockRates, Listings <- ClockListings, Second <- UnitsPerSecond, Wrap <- WordValues,
  MaxTime <- LastTime, at <- step, i <- saw, x <- early
Names == INSTANCE LibraryNames WITH
  Files <- LibraryFiles, Asked <- NamesAsked, DefPath <- Directory, Width <- PieceWidth

Parts == {"memory", "imports", "drivers", "registry", "names", "system", "clock"}

AnyInit ==
  /\ Init /\ Stubs!Init /\ Acm!Init /\ Reg!Init /\ Names!Init /\ System!Init /\ Clock!Init /\ part \in Parts
  /\ part # "system" => cpuinfo = CHOOSE f \in CpuInfosUsed : TRUE
  /\ part # "clock" =>
       now = 0 /\ tsc = TRUE /\ rate = (CHOOSE r \in ClockRates : TRUE) /\ listing = CHOOSE l \in ClockListings : TRUE

MemoryNext == part = "memory" /\ Next /\ UNCHANGED <<part, stubVars, acmVars, regVars, nameVars, cpuVars, timeVars>>
ImportsNext == part = "imports" /\ Stubs!Next /\ UNCHANGED <<part, vars, acmVars, regVars, nameVars, cpuVars, timeVars>>
DriversNext == part = "drivers" /\ Acm!Next /\ UNCHANGED <<part, vars, stubVars, regVars, nameVars, cpuVars, timeVars>>
RegistryNext == part = "registry" /\ Reg!Next /\ UNCHANGED <<part, vars, stubVars, acmVars, nameVars, cpuVars, timeVars>>
NamesNext == part = "names" /\ Names!Next /\ UNCHANGED <<part, vars, stubVars, acmVars, regVars, cpuVars, timeVars>>
SystemNext == part = "system" /\ System!Next /\ UNCHANGED <<part, vars, stubVars, acmVars, regVars, nameVars, timeVars>>
ClockNext == part = "clock" /\ Clock!Next /\ UNCHANGED <<part, vars, stubVars, acmVars, regVars, nameVars, cpuVars>>

AnyNext == MemoryNext \/ ImportsNext \/ DriversNext \/ RegistryNext \/ NamesNext \/ SystemNext \/ ClockNext
AnySpec == AnyInit /\ [][AnyNext]_<<part, vars, stubVars, acmVars, regVars, nameVars, cpuVars, timeVars>>
-----------------------------------------------------------------------------

\* Nothing that is looked up in an image is confused: a name is found wherever it
\* stands in the table, a resource or string wherever it stands in its directory, every
\* import is filled and every pointer of an image that moves.  A library is found by its
\* name, as in LibraryNames; the features of a processor are those its file shows, as in
\* SystemInfo, and its counts and their frequency tell the time, as in TimeCounter.
LookupsAgree ==
  /\ part = "imports" /\ pos = 0 =>
       /\ Look!ExportsAgree(TablesUsed, TableOfModule)
       /\ Look!ResourcesAgree(RootsUsed)
       /\ Look!DataAgree(RootOfModule, IdsAsked, IdsAsked)
       /\ Look!StringsAgree(RootsUsed, StringsAsked, RoomUsed)
       /\ Look!RelocationsAgree(ImagesUsed)
       /\ Stubs!ImportsAll
  /\ part = "names" => Names!HandlesAgree
  /\ part = "system" => System!FeaturesTold
  /\ part = "clock" => Clock!ClockTells

\* As in ExportStubs: a stub tells the function that was asked for.
StubsTell == part = "imports" => Stubs!StubsTell

\* As in AcmDrivers: an open handle has its driver, and a driver converts only
\* memory it was told about.
DriversServe == part = "drivers" => Acm!DriversLive /\ Acm!ConvertsPrepared

\* As in Registry: a value is found through every open key, and what the next
\* process reads is what was saved.
RegistryKept == part = "registry" => Reg!SurvivesStop /\ Reg!ValuesFound
=============================================================================

------------------------------ MODULE DsFilter ------------------------------
(***************************************************************************)
(* A DirectShow codec between the pins that the loader makes for it        *)
(* (dshow/DS_Filter.c, inputpin.c, outputpin.c) and its two users          *)
(* (DS_VideoDecoder.c, DS_AudioDecoder.c).                                 *)
(*                                                                         *)
(* The loader's objects count their references: a parent filter with its   *)
(* pin, a source filter with the pin that the codec's input is connected   *)
(* to and one that is not used, and an output pin.  Some pointers between  *)
(* them are not counted: pins and enumerators point to their filter.  The  *)
(* codec takes references in every way the pins offer and gives them back  *)
(* when it likes, at the latest when a pin is disconnected (external).     *)
(*                                                                         *)
(* Left out: the fields of the formats, the contents of samples.           *)
(***************************************************************************)
EXTENDS Integers, Sequences, FiniteSets

CONSTANT None

VARIABLES
  phase,      \* "closed", "opening", "open", "closing" or "crashed"
  user,       \* "video" or "audio"
  todo,       \* the steps left of Create or Destroy
  codecs,     \* the codec count of the loader
  held,       \* references of the DS_Filter to the codec's objects and the DLL
  ours,       \* the loader's objects that the DS_Filter refers to
  refs,       \* their reference counts, zero when freed
  taken,      \* references of the codec to them
  enum,       \* the codec's pin enumerator: its filter and its counter
  connected,  \* pins of the codec that are connected, "in" and "out"
  m_pAll,     \* the DS_Filter has the allocator of the codec's input
  running,    \* iv.m_State = START
  caps,       \* the YUV formats of m_Caps
  m_decoder,  \* the last format accepted
  header,     \* the format in m_sVhdr2
  pAllocator, \* the allocator that the codec notified the output pin of: "null",
              \* "live" or "freed"
  outType     \* the type that the codec's output pin is connected with

counts == <<refs, taken, enum>>
wrapper == <<user, codecs, held, ours, connected>>
format == <<caps, m_decoder, header, outType, pAllocator>>
vars == <<phase, todo, wrapper, counts, m_pAll, running, format>>

Yuv == {"YUY2", "YV12"}
Formats == {"RGB24", "RGB32"} \cup Yuv

Ours == {"parentFilter", "parentPin", "srcFilter", "ourInput", "unusedPin", "ourOutput"}

\* The filter that a pin points to, and the pins of a filter in their order.
FilterOf == [ourInput |-> "srcFilter", unusedPin |-> "srcFilter", parentPin |-> "parentFilter"]
PinsOf == [srcFilter |-> <<"ourInput", "unusedPin">>, parentFilter |-> <<"parentPin">>]

Init ==
  /\ phase = "closed" /\ user = "video" /\ todo = <<>> /\ codecs = 0
  /\ held = {} /\ ours = {} /\ connected = {}
  /\ refs = [o \in Ours |-> 0] /\ taken = [o \in Ours |-> 0] /\ enum = None
  /\ m_pAll = FALSE /\ running = FALSE
  /\ caps = {} /\ m_decoder = "RGB24" /\ header = "RGB24" /\ outType = None /\ pAllocator = "null"

-----------------------------------------------------------------------------
(* The steps of DS_FilterCreate and DS_Filter_Destroy *)

CreateSteps == <<"library", "entry", "factory", "object", "filter", "pins", "memInput", "accept",
                 "ours", "connectIn", "connectOut">>

\* Mutant: the parent of the pins goes before the codec is disconnected.
DestroyStepsFiltersFirst ==
  <<"stop", "dropInput", "dropSource", "dropParent", "disconnectIn", "disconnectOut", "dropCodec",
    "dropOutput", "freeLibrary">>

DestroySteps ==
  <<"stop", "dropInput", "disconnectIn", "disconnectOut", "dropCodec", "dropOutput", "dropParent",
    "dropSource", "freeLibrary">>

Step(p, name) == phase = p /\ todo # <<>> /\ Head(todo) = name
Creating(name) == Step("opening", name)
Destroying(name) == Step("closing", name)

Advance == todo' = Tail(todo) /\ UNCHANGED phase

\* A failure in DS_FilterCreate destroys what there is.
Abort == phase' = "closing" /\ todo' = DestroySteps

\* A step that only asks the codec for something.
Asks(name, got) ==
  /\ Creating(name)
  /\ \/ Advance /\ held' = held \cup got
     \/ Abort /\ UNCHANGED held
  /\ UNCHANGED <<user, codecs, ours, connected, counts, m_pAll, running, format>>

Open(u) ==
  /\ phase = "closed"
  /\ phase' = "opening" /\ user' = u /\ todo' = CreateSteps
  /\ codecs' = codecs + 1
  /\ running' = FALSE /\ m_decoder' = "RGB24" /\ header' = "RGB24" /\ caps' = {}
  /\ UNCHANGED <<held, ours, connected, counts, m_pAll, outType, pAllocator>>

LoadLibrary == Asks("library", {"dll"})
FindEntry == Asks("entry", {})
GetFactory == Asks("factory", {"factory"})

\* The factory and then the object are released whether or not they gave what
\* they were asked for.
Trades(name, old, new) ==
  /\ Creating(name)
  /\ \/ Advance /\ held' = (held \ {old}) \cup {new}
     \/ Abort /\ held' = held \ {old}
  /\ UNCHANGED <<user, codecs, ours, connected, counts, m_pAll, running, format>>

CreateInstance == Trades("object", "factory", "object")
QueryBaseFilter == Trades("filter", "object", "filter")

\* The first pin of each direction is kept, the references to the others are
\* given back; the enumerator is never released.
EnumPinsOfCodec ==
  /\ Creating("pins")
  /\ \/ Abort /\ held' = held
     \/ Abort /\ held' \in {held \cup {"pinEnum"} \cup s : s \in SUBSET {"inPin", "outPin"}}
              /\ ~({"inPin", "outPin"} \subseteq held')
     \/ Advance /\ held' = held \cup {"pinEnum", "inPin", "outPin"}
  /\ UNCHANGED <<user, codecs, ours, connected, counts, m_pAll, running, format>>

QueryMemInput == Asks("memInput", {"imp"})
QueryAccept == Asks("accept", {})

\* Every object is made with one reference; a filter makes its pins.
InputPinCreated(r) == [r EXCEPT !["ourInput"] = 1]
RemotePinCreated(r) == [r EXCEPT !["unusedPin"] = 1]
RemotePin2Created(r) == [r EXCEPT !["parentPin"] = 1]
FilterCreated(r) == RemotePinCreated(InputPinCreated([r EXCEPT !["srcFilter"] = 1]))
Filter2Created(r) == RemotePin2Created([r EXCEPT !["parentFilter"] = 1])
OutputPinCreated(r) == [r EXCEPT !["ourOutput"] = 1]

\* The pin of the source filter gets a reference of the DS_Filter as well.
CreateFilters ==
  /\ Creating("ours")
  /\ Advance
  /\ ours' = {"parentFilter", "srcFilter", "ourInput"}
  /\ refs' = [FilterCreated(Filter2Created(refs)) EXCEPT !["ourInput"] = 2]
  /\ UNCHANGED <<user, codecs, held, connected, taken, enum, m_pAll, running, format>>

\* A codec that is connected refers to the pin at the other end.
TakesPin(o) == /\ refs' = [refs EXCEPT ![o] = @ + 1]
               /\ taken' = [taken EXCEPT ![o] = @ + 1]

ConnectInput ==
  /\ Creating("connectIn")
  /\ \/ Advance /\ connected' = connected \cup {"in"} /\ TakesPin("ourInput")
     \/ Abort /\ UNCHANGED <<connected, refs, taken>>
  /\ UNCHANGED <<user, codecs, held, ours, enum, m_pAll, running, format>>

\* While its output is connected the codec gets an allocator from the pin and
\* notifies the pin of it, or of none; the pin takes no reference.
Notified == pAllocator' \in {"null", "live"}
AllocatorFreed == pAllocator' = IF pAllocator = "live" THEN "freed" ELSE pAllocator

\* COutputPinCreate, and the connection that completes DS_FilterCreate.  The
\* video decoder then asks which formats the output pin would accept.
ConnectOutput ==
  /\ Creating("connectOut")
  /\ ours' = ours \cup {"ourOutput"}
  /\ \/ /\ phase' = "open" /\ todo' = <<>>
        /\ connected' = connected \cup {"out"} /\ outType' = header /\ Notified
        /\ refs' = [OutputPinCreated(refs) EXCEPT !["ourOutput"] = 2]
        /\ taken' = [taken EXCEPT !["ourOutput"] = 1]
        /\ caps' \in IF user = "video" THEN SUBSET Yuv ELSE {{}}
     \/ /\ Abort
        /\ refs' = OutputPinCreated(refs)
        /\ UNCHANGED <<taken, connected, caps, outType, pAllocator>>
  /\ UNCHANGED <<user, codecs, held, enum, m_pAll, running, m_decoder, header>>

-----------------------------------------------------------------------------
(* Destroy *)

Destroy ==
  /\ phase = "open"
  /\ phase' = "closing" /\ todo' = DestroySteps
  /\ UNCHANGED <<wrapper, counts, m_pAll, running, format>>

\* DS_Filter_Stop: the codec is stopped and its allocator given back.
Stop ==
  /\ Destroying("stop")
  /\ Advance
  /\ m_pAll' = FALSE /\ running' = FALSE
  /\ UNCHANGED <<wrapper, counts, format>>

\* Releasing a filter to zero releases its pins.
Released(r, o) ==
  LET gone == r[o] = 1 /\ o \in DOMAIN PinsOf
      pins == IF gone THEN {PinsOf[o][i] : i \in DOMAIN PinsOf[o]} ELSE {}
  IN [x \in Ours |-> IF x = o \/ x \in pins THEN r[x] - 1 ELSE r[x]]

Drops(name, o) ==
  /\ Destroying(name)
  /\ Advance
  /\ ours' = ours \ {o}
  /\ refs' = IF o \in ours THEN Released(refs, o) ELSE refs
  /\ pAllocator' = IF o = "ourOutput" THEN "null" ELSE pAllocator
  /\ UNCHANGED <<user, codecs, held, connected, taken, enum, m_pAll, running, caps, m_decoder, header, outType>>

DropInput == Drops("dropInput", "ourInput")
DropOutput == Drops("dropOutput", "ourOutput")
DropParent == Drops("dropParent", "parentFilter")
DropSource == Drops("dropSource", "srcFilter")

\* When its input is disconnected the codec gives back all it took on that side.
InputSide == Ours \ {"ourOutput"}
GivesBack(side) ==
  /\ refs' = [o \in Ours |-> IF o \in side THEN refs[o] - taken[o] ELSE refs[o]]
  /\ taken' = [o \in Ours |-> IF o \in side THEN 0 ELSE taken[o]]

DisconnectInput ==
  /\ Destroying("disconnectIn")
  /\ Advance
  /\ connected' = connected \ {"in"}
  /\ GivesBack(InputSide) /\ enum' = None
  /\ UNCHANGED <<user, codecs, held, ours, m_pAll, running, format>>

DisconnectOutput ==
  /\ Destroying("disconnectOut")
  /\ Advance
  /\ connected' = connected \ {"out"} /\ outType' = None /\ AllocatorFreed
  /\ GivesBack({"ourOutput"})
  /\ UNCHANGED <<user, codecs, held, ours, enum, m_pAll, running, caps, m_decoder, header>>

ReleaseCodec ==
  /\ Destroying("dropCodec")
  /\ Advance
  /\ held' = held \ {"filter", "inPin", "outPin", "imp"}
  /\ UNCHANGED <<user, codecs, ours, connected, counts, m_pAll, running, format>>

\* The library, the structure and the codec count.
FreeLibrary ==
  /\ Destroying("freeLibrary")
  /\ phase' = "closed" /\ todo' = <<>>
  /\ held' = held \ {"dll"}
  /\ codecs' = codecs - 1
  /\ UNCHANGED <<user, ours, connected, counts, m_pAll, running, format>>

-----------------------------------------------------------------------------
(* What the codec may ask of the loader's objects, from another one it has *)

Takes(o) == /\ phase # "crashed"
            /\ taken[o] < 2
            /\ TakesPin(o)
            /\ UNCHANGED <<phase, todo, wrapper, enum, m_pAll, running, format>>

\* QueryPinInfo of CInputPin, CRemotePin and CRemotePin2.
QueryPinInfoInput == taken["ourInput"] > 0 /\ taken["srcFilter"] = 0 /\ Takes("srcFilter")
QueryPinInfoRemote == taken["unusedPin"] > 0 /\ taken["srcFilter"] = 0 /\ Takes("srcFilter")
QueryPinInfoRemote2 == taken["parentPin"] > 0 /\ taken["parentFilter"] = 0 /\ Takes("parentFilter")

\* CRemotePin_ConnectedTo: the unused pin of the source filter leads to the parent's.
ConnectedTo == taken["unusedPin"] > 0 /\ taken["parentPin"] = 0 /\ Takes("parentPin")

\* COutputPin_QueryInterface: the pin has two interfaces and one count.
QueryMemPin == taken["ourOutput"] = 1 /\ Takes("ourOutput")

\* COutputPin_M_QueryInterface takes the memory pin for the pin itself: of IUnknown it
\* gives the memory pin, and of its own interface it makes an object of the pin's
\* frame_pointer.
QueryMemPinUnknown == taken["ourOutput"] > 0 /\ Takes("ourOutput")

QueryMemPinItself ==
  /\ phase # "crashed" /\ taken["ourOutput"] > 0
  /\ phase' = "crashed"
  /\ UNCHANGED <<todo, wrapper, counts, m_pAll, running, format>>

EnumPins(f) ==
  /\ phase # "crashed" /\ enum = None /\ taken[f] > 0
  /\ enum' = [filter |-> f, counter |-> 0]
  /\ UNCHANGED <<phase, todo, wrapper, refs, taken, m_pAll, running, format>>

\* CEnumPins_Next: one pin per call.
EnumNext ==
  /\ enum # None /\ enum.counter < Len(PinsOf[enum.filter])
  /\ enum' = [enum EXCEPT !.counter = @ + 1]
  /\ LET pin == PinsOf[enum.filter][enum.counter + 1]
     IN taken[pin] < 2 /\ TakesPin(pin)
  /\ UNCHANGED <<phase, todo, wrapper, m_pAll, running, format>>

EnumReset ==
  /\ enum # None /\ enum.counter > 0
  /\ enum' = [enum EXCEPT !.counter = 0]
  /\ UNCHANGED <<phase, todo, wrapper, refs, taken, m_pAll, running, format>>

EnumRelease ==
  /\ enum # None
  /\ enum' = None
  /\ UNCHANGED <<phase, todo, wrapper, refs, taken, m_pAll, running, format>>

\* The codec gives one reference back; the connection keeps the last one to a pin.
GiveBack(o) ==
  /\ taken[o] > (IF (o = "ourInput" /\ "in" \in connected) \/ (o = "ourOutput" /\ "out" \in connected)
                 THEN 1 ELSE 0)
  /\ refs' = Released(refs, o)
  /\ taken' = [taken EXCEPT ![o] = @ - 1]
  /\ UNCHANGED <<phase, todo, wrapper, enum, m_pAll, running, format>>

-----------------------------------------------------------------------------
(* The users *)

\* DS_Filter_Start, with the commit of the allocator that follows it in both
\* decoders.  A codec without an allocator is not noticed.
Start ==
  /\ phase = "open"
  /\ IF m_pAll THEN UNCHANGED <<phase, m_pAll, held>>
     ELSE \/ m_pAll' = TRUE /\ UNCHANGED <<phase, held>>
          \/ held' = held \ {"imp"} /\ phase' = "crashed" /\ UNCHANGED m_pAll
  /\ running' = (user = "video" /\ phase' # "crashed")
  /\ UNCHANGED <<user, codecs, ours, connected, todo, counts, format>>

StartVideo == user = "video" /\ Start
StartAudio == user = "audio" /\ Start

\* Mutant: the header of the refused format stays.
RefuseDestFmtKeepsHeader ==
  /\ phase = "open" /\ user = "video"
  /\ \E f \in Formats : header' = f
  /\ UNCHANGED <<phase, todo, wrapper, counts, m_pAll, running, caps, m_decoder, outType, pAllocator>>

\* A format that the table of capabilities or the codec refuses.
RefuseDestFmt ==
  /\ phase = "open" /\ user = "video"
  /\ header' = m_decoder
  /\ UNCHANGED <<phase, todo, wrapper, counts, m_pAll, running, caps, m_decoder, outType, pAllocator>>

Supported == {f \in Formats : f \in Yuv => f \in caps}

\* DS_VideoDecoder_SetDestFmt: both pins are connected anew.  When one refuses,
\* the decoder is left as it is then; the caller does not look at the result.
SetDestFmt(f) ==
  /\ phase = "open" /\ user = "video" /\ f \in Supported
  /\ header' = f /\ m_decoder' = f
  /\ enum' = None
  /\ \E pins \in {{}, {"in"}, {"in", "out"}} :
       LET again == (IF "in" \in pins THEN {"ourInput"} ELSE {})
                      \cup (IF "out" \in pins THEN {"ourOutput"} ELSE {})
           Again(o) == IF o \in again THEN 1 ELSE 0
       IN /\ connected' = pins
          /\ outType' = IF "out" \in pins THEN f ELSE None
          /\ IF "out" \in pins THEN Notified ELSE AllocatorFreed
          /\ refs' = [o \in Ours |-> refs[o] - taken[o] + Again(o)]
          /\ taken' = [o \in Ours |-> Again(o)]
          /\ \/ pins = {"in", "out"} /\ running /\ running' = TRUE /\ m_pAll' = TRUE /\ UNCHANGED <<phase, held>>
             \/ pins = {"in", "out"} /\ running /\ running' = FALSE /\ m_pAll' = FALSE
                  /\ phase' = "crashed" /\ held' = held \ {"imp"}
             \/ ~(pins = {"in", "out"} /\ running) /\ running' = FALSE
                  /\ m_pAll' = (m_pAll /\ ~running) /\ UNCHANGED <<phase, held>>
  /\ UNCHANGED <<user, codecs, ours, todo, caps>>

\* Decoding without an allocator is the end of the process; the video decoder also
\* writes to the allocator that the output pin was notified of.
DecodeCrashes ==
  /\ phase = "open"
  /\ ~m_pAll \/ (user = "video" /\ pAllocator = "freed")
  /\ phase' = "crashed"
  /\ UNCHANGED <<todo, wrapper, counts, m_pAll, running, format>>

-----------------------------------------------------------------------------
Create == \/ LoadLibrary \/ FindEntry \/ GetFactory \/ CreateInstance \/ QueryBaseFilter
          \/ EnumPinsOfCodec \/ QueryMemInput \/ QueryAccept
          \/ CreateFilters \/ ConnectInput \/ ConnectOutput
Closing == \/ Stop \/ DropInput \/ DisconnectInput \/ DisconnectOutput \/ ReleaseCodec
           \/ DropOutput \/ DropParent \/ DropSource \/ FreeLibrary
Codec == \/ QueryPinInfoInput \/ QueryPinInfoRemote \/ QueryPinInfoRemote2
         \/ ConnectedTo \/ QueryMemPin \/ QueryMemPinUnknown \/ QueryMemPinItself
         \/ \E f \in DOMAIN PinsOf : EnumPins(f)
         \/ EnumNext \/ EnumReset \/ EnumRelease
         \/ \E o \in Ours : GiveBack(o)
User == \/ \E u \in {"video", "audio"} : Open(u)
        \/ StartVideo \/ StartAudio
        \/ RefuseDestFmt \/ \E f \in Formats : SetDestFmt(f)
        \/ DecodeCrashes \/ Destroy

Next == Create \/ Closing \/ Codec \/ User

Spec == Init /\ [][Next]_vars

-----------------------------------------------------------------------------
(* Properties *)

\* Every variable has its type.
TypeOK ==
  /\ phase \in {"closed", "opening", "open", "closing", "crashed"} /\ user \in {"video", "audio"}
  /\ codecs \in 0..1 /\ ours \subseteq Ours /\ connected \subseteq {"in", "out"}
  /\ held \subseteq {"dll", "factory", "object", "filter", "pinEnum", "inPin", "outPin", "imp"}
  /\ refs \in [Ours -> Int] /\ taken \in [Ours -> 0..2]
  /\ enum \in {None} \cup [filter : DOMAIN PinsOf, counter : 0..2]
  /\ {m_pAll, running} \subseteq BOOLEAN
  /\ caps \subseteq Yuv /\ {m_decoder, header} \subseteq Formats /\ outType \in {None} \cup Formats
  /\ pAllocator \in {"null", "live", "freed"}

\* The reference count of each of the loader's objects is the number of those that
\* refer to it: the DS_Filter, the filter that a pin belongs to, and the codec.
Holders(o) ==
  taken[o] + (IF o \in ours THEN 1 ELSE 0)
           + (IF o \in DOMAIN FilterOf /\ refs[FilterOf[o]] > 0 THEN 1 ELSE 0)
RefsAreHolders == \A o \in Ours : refs[o] = Holders(o)

\* Whatever step of opening fails, and after Destroy, none of the loader's objects
\* is left, of the codec nothing but its pin enumerator is referred to, and the
\* codec count is given back.
NothingLeft ==
  phase = "closed" => (\A o \in Ours : refs[o] = 0) /\ held \subseteq {"pinEnum"} /\ codecs = 0

\* The pointers that are not counted lead to objects that are there: the filter of
\* a pin or of an enumerator that the codec has, and a codec that is connected has
\* pins that are there and an allocator that the output pin may write to.
BorrowedLive ==
  /\ \A o \in DOMAIN FilterOf : taken[o] > 0 => refs[FilterOf[o]] > 0
  /\ enum # None => refs[enum.filter] > 0
  /\ "in" \in connected => refs["ourInput"] > 0
  /\ "out" \in connected => refs["ourOutput"] > 0 /\ pAllocator # "freed"

\* After every call of SetDestFmt, refused or not, the header describes a format
\* that the codec accepted, and a connected output has that format.
HeaderAccepted ==
  phase = "open" => header = m_decoder /\ outType \in {None, header}
=============================================================================

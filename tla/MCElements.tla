----------------------------- MODULE MCElements -----------------------------
(***************************************************************************)
(* One element of any of the six kinds, with two formats: DmoVideoDec, one *)
(* of DmoCodecs, DshowVideoDec or QtAudioDec; or their registration, the   *)
(* times of an encoder, an audio decoder that no element uses, or the      *)
(* segment that several elements share.  What the elements have in common  *)
(* is one set of variables, so that a property of DmoVideoDec is checked   *)
(* of all that have what it is about.                                      *)
(***************************************************************************)
EXTENDS DmoVideoDec, LdtKeeper

CONSTANTS small, large
Formats == {small, large}

CONSTANTS
  Times, ClockMod,                                \* of DmoCodecs
  FrameSizes, MaxSize,                            \* of QtAudioDec
  Installs, MaxLate,                              \* of ElementRegistry
  Aligns, Lengths, Rooms, MaxBlocks, MaxDelivered, \* of DsAudioDec
  Clock, Unit, Stamps, Spans, MaxInputs           \* of EncoderTimes

VARIABLES
  kind,
  held, dangling, expected, discont, jump, last, end, lost, base,  \* of DmoCodecs
  started, deaf, pAllocator,                                       \* of DshowVideoDec
  dll, in_framesize, cache, ret, owed,                             \* of QtAudioDec
  refused,                                                         \* of both
  installed, cached, at, tmp, gtype, elements, class,              \* of ElementRegistry
  call, nBlockAlign, room, kept, sample, frame, acked, fed, refusals, produced, given, dropped, \* of DsAudioDec
  loop, outTimes, stamp, queue, since, again, pushed              \* of EncoderTimes

\* All DLLs, or all but two that have versions.
AllDlls == {"ir50_32", "ir41_32", "wmv9dmod", "wmvdmod", "wvc1dmod", "wmvdmoe2",
            "wmadmod", "wmspdmod", "wmadmoe", "wmspdmoe", "qtmlClient"}

SomeInstalls == {AllDlls, AllDlls \ {"wmvdmod", "wmadmoe"}}

Codec == INSTANCE DmoCodecs
Dshow == INSTANCE DshowVideoDec
Qt == INSTANCE QtAudioDec
Elements == INSTANCE ElementRegistry WITH type <- gtype
Audio == INSTANCE DsAudioDec WITH MaxFrames <- MaxDelivered
Pushed == INSTANCE EncoderTimes

\* What a class, a frame or a pair of times is, None is not.
ASSUME RegistryAssumption ==
  \A t \in DOMAIN Elements!Tables : \A c \in Elements!CodecsOf(t) :
    None # Elements!BaseInit(t, c, [u \in DOMAIN Elements!Tables |-> c])
ASSUME FramesAssumption ==
  /\ FrameSizes \subseteq Nat /\ MaxSize \in Nat
  /\ Lengths \subseteq Nat /\ MaxBlocks \in Nat /\ MaxDelivered \in Nat
  /\ None \notin [id : Nat, length : Nat]
ASSUME ClockAssumption ==
  /\ ClockMod \in Nat \ {0} /\ Times \subseteq 0..ClockMod - 1
  /\ Clock \in Nat \ {0, 1} /\ Unit \in Nat \ {0} /\ MaxInputs \in Nat
  /\ Stamps \cup Spans \subseteq 0..Clock - 1
  /\ None \notin [ts : Nat, dur : Nat] \cup [first : Nat, sum : Nat, n : Nat]

videoOnly == <<start, qos, timestamp, retry>>
codecOnly == <<held, dangling, expected, discont, jump, last, end, lost, base>>
dmoOnly == <<out, pending, collect, epoch, cut>>
dshowOnly == <<started, deaf, pAllocator>>
qtOnly == <<dll, in_framesize, cache, ret, owed>>
regOnly == <<installed, cached, at, tmp, gtype, elements, class>>
audioOnly == <<call, nBlockAlign, room, kept, sample, frame, acked, fed, refusals, produced, given, dropped>>
timeOnly == <<loop, outTimes, stamp, queue, since, again, pushed>>
loaderOnly == <<dshowOnly, qtOnly, refused, regOnly, audioOnly, timeOnly, ldtVars>>
allVars == <<vars, kind, codecOnly, loaderOnly>>

\* What an element of another kind does not have.
NoCodec == /\ held = <<>> /\ dangling = FALSE
           /\ expected = 0 /\ discont = FALSE /\ jump = 0
           /\ last = [epoch |-> None, jump |-> 0, flag |-> FALSE]
           /\ end = None /\ lost = FALSE /\ base = 0
NoVideo == start = 0 /\ earliest = None /\ seen = 0 /\ timestamp = None /\ retry = FALSE
NoDmo == out = None /\ pending = <<>> /\ collect = FALSE /\ epoch = 0 /\ cut = FALSE
NoDshow == started = FALSE /\ deaf = FALSE /\ pAllocator = "null"
NoQt == dll = FALSE /\ in_framesize = 0 /\ cache = 0 /\ ret = "ok" /\ owed = 0

NoRefused == refused = FALSE
NoRegistry == /\ installed = {} /\ cached = FALSE /\ at = <<1, 1>> /\ tmp = <<>>
              /\ gtype = <<>> /\ elements = {} /\ class = <<>>
NoElement == Init /\ NoCodec /\ NoDshow /\ NoQt /\ NoRefused

AnyInit ==
  /\ Audio!Init /\ Pushed!Init /\ LdtInit
  /\ \/ kind = "vdec" /\ NoElement /\ NoRegistry
     \/ Codec!Init /\ NoVideo /\ NoDshow /\ NoQt /\ NoRefused /\ NoRegistry
     \/ kind = "dshow" /\ Dshow!Init /\ size = None /\ NoVideo /\ NoCodec /\ NoDmo /\ NoQt /\ NoRegistry
     \/ kind = "qt" /\ Qt!Init /\ codecs = 0 /\ NoVideo /\ NoCodec /\ NoDmo /\ NoDshow /\ NoRegistry
     \/ kind = "registry" /\ NoElement /\ Elements!Init
     \/ kind \in {"audio", "times", "ldt"} /\ NoElement /\ NoRegistry

OfDmo == kind \notin {"dshow", "qt", "registry", "audio", "times", "ldt"}

VideoNext == kind = "vdec" /\ Next /\ UNCHANGED <<kind, codecOnly, loaderOnly>>
CodecNext == OfDmo /\ kind # "vdec" /\ Codec!Next /\ UNCHANGED <<videoOnly, loaderOnly>>
DshowNext == kind = "dshow" /\ Dshow!Next /\ UNCHANGED <<kind, size, videoOnly, codecOnly, dmoOnly, qtOnly, regOnly, audioOnly, timeOnly, ldtVars>>
QtNext == kind = "qt" /\ Qt!Next /\ UNCHANGED <<kind, codecs, videoOnly, codecOnly, dmoOnly, dshowOnly, regOnly, audioOnly, timeOnly, ldtVars>>
RegistryNext ==
  kind = "registry" /\ Elements!Next /\ UNCHANGED <<vars, kind, codecOnly, dshowOnly, qtOnly, refused, audioOnly, timeOnly, ldtVars>>
AudioNext ==
  kind = "audio" /\ Audio!AudioNext /\ UNCHANGED <<vars, kind, codecOnly, dshowOnly, qtOnly, refused, regOnly, timeOnly, ldtVars>>
TimesNext ==
  kind = "times" /\ Pushed!TimesNext /\ UNCHANGED <<vars, kind, codecOnly, dshowOnly, qtOnly, refused, regOnly, audioOnly, ldtVars>>

SegmentNext ==
  kind = "ldt" /\ LdtNext /\ UNCHANGED <<vars, kind, codecOnly, dshowOnly, qtOnly, refused, regOnly, audioOnly, timeOnly>>

VideoChain == kind = "vdec" /\ ChainStep /\ UNCHANGED <<kind, codecOnly, loaderOnly>>
CodecChain == OfDmo /\ kind # "vdec" /\ Codec!ChainStep /\ UNCHANGED <<videoOnly, loaderOnly>>

AnySpec ==
  /\ AnyInit
  /\ [][VideoNext \/ CodecNext \/ DshowNext \/ QtNext \/ RegistryNext \/ AudioNext \/ TimesNext \/ SegmentNext]_allVars
AnyFairSpec == AnySpec /\ WF_allVars(VideoChain) /\ WF_allVars(CodecChain)

\* As in DmoVideoDec and DmoCodecs: no frame of before a flush or a renegotiation is left
\* in a decoder's DMO, and none of before a renegotiation or a gap in an encoder's.
AllFramesCurrent ==
  /\ kind = "vdec" => FramesCurrent
  /\ OfDmo /\ kind # "vdec" => Codec!DmoFramesCurrent

\* As in DmoCodecs: every gap in what upstream sends reaches the DMO with its mark,
\* and only there are frames of the encoder flushed away.
GapsMarked == Codec!DiscontMarked /\ []Codec!FlushedOnlyAtGaps

\* Every installed codec has an element, of its own class (but for encoders made late);
\* every codec that an element opens is destroyed once, also after caps that failed,
\* and its library and segment outlive it; and without a check of its own, a chain
\* function ends the process only after caps that were refused, or that left the codec
\* without its output.
CodecsUsable ==
  CASE kind = "dshow" -> Dshow!CodecHeld /\ Dshow!UsableUnlessRefused
    [] kind = "qt" -> Qt!ConverterHeld /\ Dshow!UsableUnlessRefused
    [] kind = "registry" -> Elements!EveryCodecRegistered
    [] OTHER -> DmoCounted /\ Dshow!UsableUnlessRefused

\* As in QtAudioDec and DsAudioDec: no byte is lost or converted twice between cache and
\* buffers, and no block or frame between the caller and a DirectShow codec; and as in
\* EncoderTimes, the times an encoder pushes are those of its input.
BytesAccounted ==
  /\ kind = "qt" => Qt!BytesAccounted
  /\ kind = "audio" => Audio!BlocksAccounted
  /\ kind = "times" => Pushed!TimesExplained

\* A chain call of a DMO element returns, unless the DMO of a video decoder says
\* INCOMPLETE for ever when it is given no room for a frame that comes too late.
DmoChainReturns ==
  OfDmo => []<>(pc = "idle") \/ []<><<kind = "vdec" /\ SkipAgain>>_allVars
=============================================================================

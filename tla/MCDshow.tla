------------------------------ MODULE MCDshow ------------------------------
(***************************************************************************)
(* The parts below the elements that only the streaming thread uses, one   *)
(* at a time: the DirectShow allocator, the DMO filter, the DirectShow     *)
(* filter, the formats it is asked for, the sample it is given frames in,  *)
(* and the settings of an encoder.                                         *)
(* The part is chosen at the start; the others stay as they are.           *)
(***************************************************************************)
EXTENDS MemAllocator, Sequences

CONSTANTS
  Offered, Quality, Bitrates, Qualities, Averages,     \* of EncoderSettings
  Rgb, Check, Noted,                                   \* of PinFormats
  FrameSizes, MaxFrames, MaxReferences                      \* of InputSample

TypeOf(sound, bytes) == [sound |-> sound, bytes |-> bytes]

ASSUME SettingsAssumption ==
  /\ Len(Offered) \in Nat /\ DOMAIN Offered = 1..Len(Offered)
  /\ \A i \in DOMAIN Offered :
       Offered[i] = TypeOf(Offered[i].sound, Offered[i].bytes) /\ Offered[i].bytes \in Nat
  /\ Bitrates \subseteq Nat /\ Averages \subseteq Nat

VideoHeaders == [format : Rgb \cup {Check[i] : i \in DOMAIN Check} \cup {"RGB24"}, down : BOOLEAN]

ASSUME FormatsAssumption ==
  /\ Len(Check) \in Nat \ {0} /\ DOMAIN Check = 1..Len(Check)
  /\ Noted \in {Check[i] : i \in DOMAIN Check}
  /\ Rgb \cap {Check[i] : i \in DOMAIN Check} = {} /\ None \notin VideoHeaders

Samples ==
  [block : 1..(MaxFrames + 1), size : FrameSizes, actual_size : FrameSizes \cup {0}, isSyncPoint : BOOLEAN,
   isPreroll : BOOLEAN, isDiscontinuity : BOOLEAN, time : 0..MaxFrames]

ASSUME SampleAssumption ==
  FrameSizes \subseteq Nat /\ FrameSizes # {} /\ MaxFrames \in Nat /\ None \notin Samples

VARIABLES
  part,
  phase, todo, held, codecs,                      \* of either filter
  codec, blocks, types, pbFormat,                 \* of DmoFilter
  user, ours, refs, taken, enum, connected,       \* of DsFilter
  m_pAll, running, caps, m_decoder, header, outType, pAllocator,
  encoder, vbr, quality, bitrate, asked, type, told, strayed, refused,    \* of EncoderSettings
  stage, tried, m_Caps, subtype, vhdr2, obh, decoder, pinType, enumType, sampleType, copy, stale,   \* of PinFormats
  sample, references, content, frame, within, seen, marked            \* of InputSample

Dmo == INSTANCE DmoFilter
Ds == INSTANCE DsFilter
Settings == INSTANCE EncoderSettings WITH Types <- Offered
Pins == INSTANCE PinFormats
Input == INSTANCE InputSample

dmoOnly == <<codec, blocks, types, pbFormat>>
dsOnly == <<user, ours, refs, taken, enum, connected,
            m_pAll, running, caps, m_decoder, header, outType, pAllocator>>

setVars == <<encoder, vbr, quality, bitrate, asked, type, told, strayed, refused>>
pinVars == <<stage, tried, m_Caps, subtype, vhdr2, obh, decoder, pinType, enumType, sampleType, copy, stale>>
sampleVars == <<sample, references, content, frame, within, seen, marked>>
others == <<dmoOnly, dsOnly, setVars, pinVars, sampleVars>>

AnyInit ==
  /\ Init /\ Dmo!Init /\ Ds!Init /\ Settings!Init /\ Pins!Init /\ Input!Init
  /\ part \in {"allocator", "dmo", "dshow", "settings", "formats", "sample"}
  /\ part # "settings" => encoder = "aenc" /\ \A b \in Bitrates : bitrate <= b

AllocatorNext == part = "allocator" /\ Next /\ UNCHANGED <<part, phase, todo, held, codecs, others>>
DmoNext == part = "dmo" /\ Dmo!Next /\ UNCHANGED <<part, vars, dsOnly, setVars, pinVars, sampleVars>>
DsNext == part = "dshow" /\ Ds!Next /\ UNCHANGED <<part, vars, dmoOnly, setVars, pinVars, sampleVars>>
SettingsNext ==
  part = "settings" /\ Settings!Next /\ UNCHANGED <<part, vars, phase, todo, held, codecs, dmoOnly, dsOnly, pinVars, sampleVars>>
FormatsNext ==
  part = "formats" /\ Pins!FormatNext /\ UNCHANGED <<part, vars, phase, todo, held, codecs, dmoOnly, dsOnly, setVars, sampleVars>>
SampleNext ==
  part = "sample" /\ Input!SampleNext /\ UNCHANGED <<part, vars, phase, todo, held, codecs, dmoOnly, dsOnly, setVars, pinVars>>

AnySpec ==
  /\ AnyInit
  /\ [][AllocatorNext \/ DmoNext \/ DsNext \/ SettingsNext \/ FormatsNext \/ SampleNext]_<<part, vars, phase, todo, held, codecs, others>>

-----------------------------------------------------------------------------
(* A small instance: what a DMO offers and the YUV formats *)

SomeOffered == <<TypeOf("cd", 2), TypeOf("voice", 1), TypeOf("cd", 101), TypeOf("cd", 4), TypeOf("voice", 2)>>
TwoFormats == <<"YUY2", "YVU9">>
-----------------------------------------------------------------------------

\* Opening a codec is all or nothing: an open DMO has both its types, and of a DMO
\* or DirectShow filter that is closed nothing is left (but for a pin enumerator, a
\* wrapper's own block and private data nobody took).
AllOrNothing ==
  /\ part = "dmo" => Dmo!AllOrNothing /\ Dmo!OpenIsComplete
  /\ part = "dshow" => Ds!NothingLeft

\* The reference counts of the DirectShow objects are right, and the pointers among
\* them that are not counted lead to what is there.
CountedAndLive == part = "dshow" => Ds!RefsAreHolders /\ Ds!BorrowedLive

\* As in DsFilter, PinFormats, EncoderSettings and InputSample: the header, the types
\* that the codec sees, the caps of an encoder and the sample of a frame describe what
\* is in use.
HeaderAccepted ==
  /\ part = "dshow" => Ds!HeaderAccepted
  /\ part = "formats" => Pins!TypesFit
  /\ part = "settings" => Settings!ToldIsEncoded
  /\ part = "sample" => Input!SampleTells
=============================================================================

------------------------------ MODULE PinFormats ------------------------------
(***************************************************************************)
(* The formats of a DirectShow video decoder (dshow/DS_VideoDecoder.c), as *)
(* the codec sees them through our output pin (outputpin.c).  A media type *)
(* is a subtype and a pointer to a header; the decoder, the pin and the    *)
(* enumerators of the pin have each their subtype, and all of them point   *)
(* to the one header m_sVhdr2, which the decoder rewrites in place before  *)
(* it asks the codec whether it accepts a format.  The codec may look at   *)
(* the pin at any time, also while it is asked.                            *)
(*                                                                         *)
(* DsFilter has the connections and the reference counts of the same       *)
(* objects; the sizes in the header are left out.                          *)
(***************************************************************************)
EXTENDS Naturals, Sequences

CONSTANTS Rgb,       \* depths that SetDestFmt knows
          Check,     \* the YUV formats in the order they are tried
          Noted,     \* the one of them whose case falls through to the default
          None

Yuv == {Check[i] : i \in DOMAIN Check}

VARIABLES
  stage,       \* "closed", "connect", "flip", "caps", "open", "format" or "crashed":
               \* in "flip", "caps" and "format" the codec is being asked
  tried,       \* YUV formats that were tried
  m_Caps,      \* YUV formats that were accepted
  subtype,     \* m_sDestType.subtype
  vhdr2,       \* m_sVhdr2: [format, down], or None when freed; down: height is negative
  obh,         \* iv.m_obh
  decoder,     \* iv.m_decoder
  pinType,     \* the subtype in COutputPin.type
  enumType,    \* the subtype in the codec's enumerator of media types, or None
  sampleType,  \* type_valid of the sample that the codec has
  copy,        \* the type the codec was just given, [subtype, header, late], or None
  stale        \* history: the pin has another type than its enumerator

formatVars == <<stage, tried, m_Caps, subtype, vhdr2, obh, decoder, pinType, enumType, sampleType, copy, stale>>
looking == <<enumType, sampleType>>
Unseen == copy' = None /\ UNCHANGED looking

Of(f, d) == [format |-> f, down |-> d]
RGB24 == "RGB24"

Init ==
  /\ stage = "closed" /\ tried = 0 /\ m_Caps = {}
  /\ subtype = RGB24 /\ vhdr2 = None /\ obh = Of(RGB24, FALSE) /\ decoder = Of(RGB24, FALSE)
  /\ pinType = RGB24 /\ enumType = None /\ sampleType = FALSE
  /\ copy = None /\ stale = FALSE

-----------------------------------------------------------------------------
(* Opening *)

\* Both types are made, and the pins connected with them (DsFilter).
Open ==
  /\ stage = "closed"
  /\ stage' = "connect" /\ tried' = 0 /\ m_Caps' = {}
  /\ subtype' = RGB24 /\ pinType' = RGB24
  /\ vhdr2' = Of(RGB24, FALSE) /\ obh' = Of(RGB24, FALSE) /\ stale' = (enumType # None)
  /\ Unseen /\ UNCHANGED <<decoder>>

\* Probing begins with what is accepted so far.
Probe(o) == stage' = "caps" /\ decoder' = o /\ obh' = o /\ vhdr2' = [o EXCEPT !.format = Check[1]] /\ subtype' = Check[1]

\* Unless the frames may be upside down, the codec is asked for a negative height.
Connected ==
  /\ stage = "connect"
  /\ \/ Probe(obh)
     \/ /\ stage' = "flip" /\ obh' = Of(RGB24, TRUE) /\ vhdr2' = Of(RGB24, TRUE)
        /\ UNCHANGED <<subtype, decoder>>
  /\ Unseen /\ UNCHANGED <<tried, m_Caps, pinType, stale>>

FlipAnswered ==
  /\ stage = "flip"
  /\ \E accepted \in BOOLEAN : Probe(Of(RGB24, accepted))
  /\ Unseen /\ UNCHANGED <<tried, m_Caps, pinType, stale>>

\* Each YUV format in its turn; then everything is RGB again.
CapsAnswered ==
  /\ stage = "caps"
  /\ \E accepted \in BOOLEAN : m_Caps' = IF accepted THEN m_Caps \cup {Check[tried + 1]} ELSE m_Caps
  /\ tried' = tried + 1
  /\ LET next == IF tried' = Len(Check) THEN RGB24 ELSE Check[tried' + 1] IN
       /\ stage' = IF tried' = Len(Check) THEN "open" ELSE "caps"
       /\ subtype' = next /\ vhdr2' = [vhdr2 EXCEPT !.format = next]
  /\ Unseen /\ UNCHANGED <<obh, decoder, pinType, stale>>

\* The headers are freed before the filter that the pins belong to.
Destroy ==
  /\ stage = "open"
  /\ stage' = "closed" /\ vhdr2' = None
  /\ Unseen /\ UNCHANGED <<tried, m_Caps, subtype, obh, decoder, pinType, stale>>

-----------------------------------------------------------------------------
(* Another format *)

\* What a request makes of subtype and obh: a depth that is not known leaves both, and
\* so does the case that falls through, but for the subtype.
Requested(f) ==
  CASE f \in Rgb -> subtype' = f /\ obh' = [obh EXCEPT !.format = f]
    [] f = Noted -> subtype' = f /\ UNCHANGED obh
    [] f \in Yuv \ {Noted} -> subtype' = f /\ obh' = Of(f, TRUE)
    [] OTHER -> UNCHANGED <<subtype, obh>>

Restored == vhdr2' = decoder /\ stage' = "open"

\* The codec is asked, unless it refused this YUV format before.
SetDestFmt(f) ==
  /\ stage = "open"
  /\ Requested(f)
  /\ IF f \in Yuv \ m_Caps THEN Restored ELSE stage' = "format" /\ vhdr2' = obh'
  /\ Unseen /\ UNCHANGED <<tried, m_Caps, decoder, pinType, stale>>

\* The header is restored; subtype and obh are not.
Refused ==
  /\ stage = "format"
  /\ Restored
  /\ Unseen /\ UNCHANGED <<tried, m_Caps, subtype, obh, decoder, pinType, stale>>

\* The pin has the new type before the codec's pins are connected again.
Accepted ==
  /\ stage = "format"
  /\ stage' = "open"
  /\ decoder' = obh /\ pinType' = subtype
  /\ stale' = (stale \/ (enumType # None /\ subtype # pinType))
  /\ Unseen /\ UNCHANGED <<tried, m_Caps, subtype, vhdr2, obh>>

-----------------------------------------------------------------------------
(* The codec looks *)

Alive == stage \in {"flip", "caps", "open", "format"}
Given(sub, old) == copy' = [subtype |-> sub, header |-> vhdr2, late |-> (old \/ stage # "open")]
decoderVars == <<stage, tried, m_Caps, subtype, vhdr2, obh, decoder, pinType>>

\* The pin's type and a copy of the header it points to.
ConnectionMediaType ==
  /\ Alive /\ Given(pinType, FALSE)
  /\ UNCHANGED <<decoderVars, stale, enumType, sampleType>>

\* The enumerator has the pin's type, and points to the same header.
EnumMediaTypes ==
  /\ Alive /\ enumType = None
  /\ enumType' = pinType /\ stale' = FALSE
  /\ copy' = None /\ UNCHANGED <<decoderVars, sampleType>>

\* Next returns the same type every time it is called.
EnumNext ==
  /\ Alive /\ enumType # None /\ Given(enumType, stale)
  /\ UNCHANGED <<decoderVars, stale, enumType, sampleType>>

EnumRelease ==
  /\ enumType # None
  /\ enumType' = None /\ stale' = FALSE
  /\ copy' = None /\ UNCHANGED <<decoderVars, sampleType>>

\* SetMediaType of a sample gives the type it was called with a block of its own, filled
\* from that block; the sample only remembers that it has a type.
SampleSetMediaType ==
  /\ Alive /\ sampleType' = TRUE
  /\ copy' = None /\ UNCHANGED <<decoderVars, stale, enumType>>

\* GetMediaType says that there is none, or copies what the sample's memory held, of a
\* length that nobody set.
SampleGetMediaType ==
  /\ Alive
  /\ stage' \in IF sampleType THEN {stage, "crashed"} ELSE {stage}
  /\ Unseen /\ UNCHANGED <<tried, m_Caps, subtype, vhdr2, obh, decoder, pinType, stale>>

Question == FlipAnswered \/ CapsAnswered \/ Refused \/ Accepted
FormatNext ==
  \/ Open \/ Connected \/ Destroy \/ Question
  \/ \E f \in Rgb \cup Yuv \cup {"other"} : SetDestFmt(f)
  \/ ConnectionMediaType \/ EnumMediaTypes \/ EnumNext \/ EnumRelease
  \/ SampleSetMediaType \/ SampleGetMediaType

-----------------------------------------------------------------------------
(* Properties *)

Fits(sub, header) == sub \in {header.format, Noted}

\* While no question is open, a decoder's header describes the format that the codec
\* accepted last, and the type of the pin is that format (but for the case that falls
\* through).  A copy that the codec takes then, of the pin or of an enumerator as old as
\* the pin's type, is a subtype and a header that fit each other.
TypesFit ==
  /\ stage = "open" => vhdr2.format = decoder.format /\ Fits(pinType, vhdr2)
  /\ copy # None => copy.late \/ (copy.header # None /\ Fits(copy.subtype, copy.header))
=============================================================================

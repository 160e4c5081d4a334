---------------------------- MODULE EncoderSettings ----------------------------
(***************************************************************************)
(* The settings of an encoder element (ext/pitfdll/dmo_aenc.c, dmo_venc.c) *)
(* and what becomes of them when caps are set.  The DMO of an audio        *)
(* encoder offers a list of types: [sound, bytes]; sound stands for rate,  *)
(* channels and depth, and bytes for a second's, or from Quality on for a  *)
(* quality of variable bitrate.                                            *)
(***************************************************************************)
EXTENDS Naturals, Sequences, FiniteSets, SequencesExt

CONSTANTS None,
          Types,      \* what the DMO offers, in order
          Quality,    \* 0x7FFFFF00
          Bitrates, Qualities,   \* values the application may set
          Averages    \* what a DMO may tell of a variable bitrate

VARIABLES
  encoder,               \* "aenc" or "venc"
  vbr, quality, bitrate,     \* fields of the element
  asked,              \* the bitrate the application asked for last
  type,               \* the type the DMO was set to, None without a DMO
  told,               \* what the output caps tell: [sound, bitrate]
  strayed,            \* an average was taken over, or a type that does not match
  refused             \* downstream did not take the output caps of the last DMO opened

setVars == <<encoder, vbr, quality, bitrate, asked, type, told, strayed, refused>>

Sounds == {Types[i].sound : i \in DOMAIN Types}

\* dmo_audioenc_init and dmo_videoenc_init; the quality is not the 75 of its GParamSpec.
Init ==
  /\ encoder \in {"aenc", "venc"}
  /\ vbr = FALSE /\ quality = 0 /\ bitrate \in Bitrates /\ asked = bitrate
  /\ type = None /\ told = None /\ strayed = FALSE /\ refused = FALSE

\* Nothing is passed on to a DMO that is open.
SetProperty ==
  \/ \E b \in Bitrates : bitrate' = b /\ asked' = b /\ UNCHANGED <<encoder, vbr, quality, type, told, strayed, refused>>
  \/ \E q \in Qualities : quality' = q /\ UNCHANGED <<encoder, vbr, bitrate, asked, type, told, strayed, refused>>
  \/ \E v \in BOOLEAN : vbr' = v /\ UNCHANGED <<encoder, quality, bitrate, asked, type, told, strayed, refused>>

\* The bytes a second the element asks for; a quality is one of the low bits.
Target == IF vbr THEN quality ELSE bitrate \div 8
Matches(t, sound) ==
  /\ t.sound = sound
  /\ IF vbr /\ t.bytes >= Quality THEN t.bytes - Quality = Target ELSE t.bytes = Target

\* DMO_Filter_LookupAudioEncoderType: the first type that matches.  If none does the
\* list ends with nothing to say so, and the last type is still in place.
Lookup(sound) ==
  IF \E i \in DOMAIN Types : Matches(Types[i], sound)
  THEN Types[SelectInSeq(Types, LAMBDA t : Matches(t, sound))]
  ELSE Last(Types)

\* gst_pad_set_caps, after the DMO is open and the fields are set.  If downstream
\* refuses, the pad keeps the caps it had, and nobody closes the DMO.
Tell(sound, rate) ==
  \/ told' = [sound |-> sound, bitrate |-> rate] /\ refused' = FALSE
  \/ told' = told /\ refused' = TRUE

\* The video encoder's DMO is set to what was asked, and the field stays.
SetCapsVenc(sound) ==
  /\ encoder = "venc"
  /\ type' = [sound |-> sound, bytes |-> Target]
  /\ Tell(sound, bitrate)
  /\ UNCHANGED <<encoder, vbr, quality, bitrate, asked, strayed>>

\* The audio encoder's tells its average if the bitrate is variable, in the place of
\* the type's bytes; the element takes either over as the setting.
SetCapsAenc(sound) ==
  /\ encoder = "aenc"
  /\ \E average \in IF vbr THEN Averages ELSE {Lookup(sound).bytes} :
       /\ type' = [Lookup(sound) EXCEPT !.bytes = average]
       /\ bitrate' = average * 8
       /\ Tell(sound, bitrate')
  /\ strayed' = (strayed \/ vbr \/ ~Matches(Lookup(sound), sound))
  /\ UNCHANGED <<encoder, vbr, quality, asked>>

\* The DMO cannot be opened: the old one is gone.
SetCapsFails ==
  /\ type' = None
  /\ UNCHANGED <<encoder, vbr, quality, bitrate, asked, told, strayed, refused>>

Next == SetProperty \/ SetCapsFails \/ \E s \in Sounds : SetCapsVenc(s) \/ SetCapsAenc(s)

Spec == Init /\ [][Next]_setVars
-----------------------------------------------------------------------------

\* The output caps of an encoder tell what its DMO encodes, unless downstream refused
\* the caps of that DMO; and the audio encoder's bitrate stays what the application
\* asked for (but for the eighths) over opens that were refused too, until a type that
\* does not match or an average is taken over.
ToldIsEncoded ==
  /\ strayed \/ bitrate \div 8 = asked \div 8
  /\ type # None /\ ~refused /\ ~strayed => told.sound = type.sound
  /\ type # None /\ ~refused /\ encoder = "aenc" => told.bitrate = type.bytes * 8
=============================================================================

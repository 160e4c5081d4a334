----------------------------- MODULE DmoFilter -----------------------------
(***************************************************************************)
(* How a codec wrapper opens a DMO and sets it up (dmo/dmo.c and the Open  *)
(* and Destroy functions of DMO_AudioDecoder.c, DMO_VideoDecoder.c,        *)
(* DMO_AudioEncoder.c and DMO_VideoEncoder.c): a series of COM calls, each *)
(* of which may fail, after which all that was acquired is given back.     *)
(*                                                                         *)
(* Kept: the references to COM objects, the codec count, the heap blocks,  *)
(* the pins whose media type is set, and the block that the output type    *)
(* points to.  Left out: the fields of the formats, the error messages.    *)
(***************************************************************************)
EXTENDS Naturals, Sequences

VARIABLES
  phase,      \* "closed", "opening", "open" or "crashed"
  codec,      \* kind of wrapper, and whether it encodes with a variable bit rate
  todo,       \* the calls that Open has still to make
  held,       \* COM objects referred to
  blocks,     \* heap blocks of the wrapper and the filter
  codecs,     \* the codec count of the loader
  types,      \* pins of the DMO whose type is set
  pbFormat    \* what m_sDestType.pbFormat points to

vars == <<phase, codec, todo, held, blocks, codecs, types, pbFormat>>

Kinds == {"adec", "vdec", "aenc", "venc"}
Optional == {"inplace", "optim", "private", "bag"}
Interfaces == {"media"} \cup Optional
Headers == {"header", "format"}

Init ==
  /\ phase = "closed" /\ codec = [kind |-> "adec", vbr |-> FALSE] /\ todo = <<>>
  /\ held = {} /\ blocks = {} /\ codecs = 0 /\ types = {} /\ pbFormat = "null"

-----------------------------------------------------------------------------
(* The calls of the Open functions, in their order *)

CreateCalls == <<"library", "entry", "factory", "instance", "query">>
SizeCalls == <<"outSize", "inSize">>

If(condition, calls) == IF condition THEN calls ELSE <<>>

DecoderCalls == CreateCalls \o <<"setInput", "setOutput">> \o SizeCalls

AudioEncoderCalls(vbr) ==
  CreateCalls \o If(vbr, <<"setProperty", "setProperty">>)
    \o <<"lookup", "setOutput", "setInput">> \o If(vbr, <<"getProperty">>)
    \o SizeCalls \o <<"discontinuity">>

VideoEncoderCalls(vbr) ==
  CreateCalls \o If(vbr, <<"setProperty", "setProperty", "setProperty">>)
    \o <<"setInput", "setPartial", "setOutput">> \o SizeCalls \o <<"discontinuity">>

\* What Open allocates before the first call: the wrapper and its headers, and
\* the filter (CodecAlloc comes right after its malloc).
Starts(kind, vbr, headers, calls) ==
  /\ phase = "closed"
  /\ phase' = "opening" /\ codec' = [kind |-> kind, vbr |-> vbr] /\ todo' = calls
  /\ blocks' = blocks \cup {"this", "filter"} \cup headers
  /\ codecs' = codecs + 1
  /\ pbFormat' = IF "format" \in headers THEN "format" ELSE "null"
  /\ UNCHANGED <<held, types>>

OpenAudioDecoder == Starts("adec", FALSE, Headers, DecoderCalls)
OpenVideoDecoder == Starts("vdec", FALSE, Headers, DecoderCalls)
OpenAudioEncoder == \E vbr \in BOOLEAN : Starts("aenc", vbr, {"header"}, AudioEncoderCalls(vbr))
OpenVideoEncoder == \E vbr \in BOOLEAN : Starts("venc", vbr, Headers, VideoEncoderCalls(vbr))

-----------------------------------------------------------------------------
(* Success and failure of a call *)

Call(name) == phase = "opening" /\ Head(todo) = name

Done ==
  /\ todo' = Tail(todo)
  /\ phase' = IF Tail(todo) = <<>> THEN "open" ELSE "opening"

\* Mutant: the property bag is forgotten.
FilterDestroyedButBag(others) ==
  /\ held' = held \ (others \cup (Interfaces \ {"bag"}))
  /\ codecs' = codecs - 1
  /\ types' = {}

\* DMO_Filter_Destroy: the interfaces that were found are released; the library
\* is not.
FilterDestroyed(others) ==
  /\ held' = held \ (others \cup Interfaces)
  /\ codecs' = codecs - 1
  /\ types' = {}

\* The label beach of the Open functions, after the other objects were released.
FailReleasing(others) ==
  /\ FilterDestroyed(others)
  /\ blocks' = blocks \ ({"this", "filter"} \cup Headers)
  /\ phase' = "closed" /\ todo' = <<>>
  /\ UNCHANGED <<codec, pbFormat>>

Fail == FailReleasing({})

\* A call that only succeeds or fails.
Plain(name) ==
  /\ Call(name)
  /\ \/ Done /\ UNCHANGED <<codec, held, blocks, codecs, types, pbFormat>>
     \/ Fail

-----------------------------------------------------------------------------
(* DMO_Filter_Create *)

LoadLibrary == Plain("library")
FindEntry == Plain("entry")

\* The message of a failure is formatted to a null pointer.
GetFactory ==
  /\ Call("factory")
  /\ \/ Done /\ held' = held \cup {"factory"}
     \/ phase' = "crashed" /\ UNCHANGED <<todo, held>>
  /\ UNCHANGED <<codec, blocks, codecs, types, pbFormat>>

\* The factory is released whether it made an object or not.
CreateInstance ==
  /\ Call("instance")
  /\ \/ /\ Done
        /\ held' = (held \ {"factory"}) \cup {"object"}
        /\ UNCHANGED <<codec, blocks, codecs, types, pbFormat>>
     \/ FailReleasing({"factory"})

\* The interfaces of the object, of which only one is required; the optional
\* ones are asked for when that query did not fail, even if it found nothing.
QueryInterfaces ==
  /\ Call("query")
  /\ \/ \E found \in SUBSET Optional :
          /\ Done
          /\ held' = (held \ {"object"}) \cup {"media"} \cup found
          /\ UNCHANGED <<codec, blocks, codecs, types, pbFormat>>
     \/ FailReleasing({"object"})

-----------------------------------------------------------------------------
(* The set-up calls *)

SetInputType ==
  /\ Call("setInput")
  /\ \/ Done /\ types' = types \cup {"in"} /\ UNCHANGED <<codec, held, blocks, codecs, pbFormat>>
     \/ Fail

SetOutputType ==
  /\ Call("setOutput")
  /\ \/ Done /\ types' = types \cup {"out"} /\ UNCHANGED <<codec, held, blocks, codecs, pbFormat>>
     \/ Fail

\* A DMO that does not know its type does not know its sizes.
Sizes(name, pin) ==
  /\ Call(name)
  /\ \/ pin \in types /\ Done /\ UNCHANGED <<codec, held, blocks, codecs, types, pbFormat>>
     \/ Fail

GetOutputSizeInfo == Sizes("outSize", "out")
GetInputSizeInfo == Sizes("inSize", "in")

\* The types of the output pin are tried one by one; when none fits the last one
\* is taken, and when there is none the type stays empty.  Both are successes.
LookupAudioEncoderType ==
  /\ Call("lookup")
  /\ \E found \in {"dmo", "other", "null"} : pbFormat' = found
  /\ Done
  /\ UNCHANGED <<codec, held, blocks, codecs, types>>

\* A DMO without the interface for properties cannot encode with a variable rate.
SetProperty ==
  /\ Call("setProperty")
  /\ \/ /\ "bag" \in held
        /\ Done /\ UNCHANGED <<codec, held, blocks, codecs, types, pbFormat>>
     \/ Fail

\* The answer is stored in the output format.
GetProperty ==
  /\ Call("getProperty")
  /\ \/ /\ "bag" \in held /\ pbFormat # "null"
        /\ Done /\ UNCHANGED <<codec, held, blocks, codecs, types, pbFormat>>
     \/ /\ "bag" \in held /\ pbFormat = "null"
        /\ phase' = "crashed" /\ UNCHANGED <<codec, todo, held, blocks, codecs, types, pbFormat>>
     \/ Fail

\* The private data of the encoder is appended to the output format, whose block
\* may move; the output type keeps the old address.  A failure leaves the data
\* that was read with the caller, who does not look at it.
SetPartialOutputType ==
  /\ Call("setPartial")
  /\ \/ /\ "private" \in held /\ Done
        /\ \/ UNCHANGED <<blocks, pbFormat>>
           \/ /\ blocks' = blocks \cup {"data"}
              /\ pbFormat' \in {"format", "freed"}
        /\ UNCHANGED <<codec, held, codecs, types>>
     \/ Fail
     \/ /\ "private" \in held
        /\ FilterDestroyed({})
        /\ blocks' = (blocks \ ({"this", "filter"} \cup Headers)) \cup {"data"}
        /\ phase' = "closed" /\ todo' = <<>>
        /\ UNCHANGED <<codec, pbFormat>>

Discontinuity == Plain("discontinuity")

-----------------------------------------------------------------------------
(* An open wrapper *)

\* The element takes over the private data of the encoder.
TakeData ==
  /\ phase = "open" /\ "data" \in blocks
  /\ blocks' = blocks \ {"data"}
  /\ UNCHANGED <<phase, codec, todo, held, codecs, types, pbFormat>>

\* The headers are freed, but for the one that the DMO allocated; so is the
\* filter.  The wrapper itself is left.
Closes(headers) ==
  /\ phase = "open"
  /\ FilterDestroyed({})
  /\ blocks' = blocks \ ({"filter"} \cup headers)
  /\ phase' = "closed"
  /\ UNCHANGED <<codec, todo, pbFormat>>

DestroyAudioDecoder == codec.kind = "adec" /\ Closes(Headers)
DestroyVideoDecoder == codec.kind = "vdec" /\ Closes(Headers)
DestroyAudioEncoder == codec.kind = "aenc" /\ Closes({"header"})
DestroyVideoEncoder == codec.kind = "venc" /\ Closes(Headers)

-----------------------------------------------------------------------------
Open == OpenAudioDecoder \/ OpenVideoDecoder \/ OpenAudioEncoder \/ OpenVideoEncoder
Create == LoadLibrary \/ FindEntry \/ GetFactory \/ CreateInstance \/ QueryInterfaces
SetUp == \/ SetInputType \/ SetOutputType \/ GetOutputSizeInfo \/ GetInputSizeInfo
         \/ LookupAudioEncoderType \/ SetProperty \/ GetProperty
         \/ SetPartialOutputType \/ Discontinuity
Destroy == \/ DestroyAudioDecoder \/ DestroyVideoDecoder
           \/ DestroyAudioEncoder \/ DestroyVideoEncoder

Next == Open \/ Create \/ SetUp \/ TakeData \/ Destroy

Spec == Init /\ [][Next]_vars

-----------------------------------------------------------------------------
(* Properties *)

\* Every variable has its type.
TypeOK ==
  /\ phase \in {"closed", "opening", "open", "crashed"}
  /\ codec \in [kind : Kinds, vbr : BOOLEAN]
  /\ held \subseteq {"factory", "object"} \cup Interfaces
  /\ blocks \subseteq {"this", "filter", "data"} \cup Headers
  /\ codecs \in 0..1 /\ types \subseteq {"in", "out"}
  /\ pbFormat \in {"null", "format", "freed", "dmo", "other"}

\* Whichever call fails, and after Destroy, no COM object is referred to any more,
\* the codec count is given back, and neither the filter nor a header is left.
\* (The wrapper of a Destroy and the private data of an Open that fails are.)
AllOrNothing ==
  phase = "closed" => held = {} /\ codecs = 0 /\ blocks \subseteq {"this", "data"}

\* A DMO that is open has a type on both pins, and nothing refers to the objects
\* that only helped to make it.
OpenIsComplete ==
  phase = "open" => types = {"in", "out"} /\ codecs = 1 /\ "media" \in held /\ held \subseteq Interfaces

=============================================================================

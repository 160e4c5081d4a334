------------------------------ MODULE DmoCodecs ------------------------------
(***************************************************************************)
(* The DMO audio decoder, audio encoder and video encoder elements         *)
(* (ext/pitfdll/dmo_adec.c, dmo_aenc.c, dmo_venc.c) with their wrappers    *)
(* around the DMO (dmo/DMO_AudioDecoder.c, DMO_AudioEncoder.c,             *)
(* DMO_VideoEncoder.c, dmo.c).  One element of some kind is modelled; the  *)
(* variables it has in common with the DMO video decoder have the names of *)
(* DmoVideoDec.                                                            *)
(*                                                                         *)
(* Encoders look ahead: the DMO holds frames back until it has seen later  *)
(* inputs.  What is ready is collected by the chain function until the DMO *)
(* says that it has no more.  The video encoder also watches the           *)
(* timestamps: on a gap it flushes the DMO, skips an offset and marks the  *)
(* next buffer as discontinuous.                                           *)
(***************************************************************************)
EXTENDS Naturals, Sequences

CONSTANTS Caps,       \* formats; each has a buffer size of its own
          None,
          Times,      \* timestamps of the buffers
          ClockMod,   \* a GstClockTime is a number modulo this
          MaxFrames,  \* bound of the frames the DMO makes of one input
          MaxEpoch,   \* bound of the flushes and renegotiations
          MaxSetups   \* bound of the calls of Setup_LDT_Keeper

VARIABLES
  kind,        \* "adec", "aenc" or "venc"
  state, setups, ctx, codecs, size, out, padCaps, flushing, pc, collect, cut,
               \* as in DmoVideoDec
  pending,     \* the frames the DMO has ready
  held,        \* the frames it holds back for now
  dangling,    \* enc->out_buffer is a buffer that was given away
  expected,    \* enc->expected_ts
  discont,     \* enc->need_discont
  jump,        \* enc->offset less the OFFSET_END of the last buffer pushed
  last,        \* history: the last buffer pushed by the video encoder
  end,         \* history: where the last input ended
  lost,        \* history: frames were flushed although the input went on
  epoch,       \* history: flushes and successful renegotiations
  base         \* history: the epoch that began with the last of them that emptied the DMO

element == <<ctx, codecs, size, out, padCaps, dangling>>
dmo == <<pending, held>>
chain == <<pc, collect, cut>>
watch == <<expected, discont, jump, end, lost>>
app == <<kind, state, setups>>
eras == <<epoch, base>>
vars == <<app, element, dmo, flushing, chain, watch, last, eras>>

NoTime == ClockMod - 1        \* GST_CLOCK_TIME_NONE

\* A new element; g_object_new fills it with zeros, expected_ts too.
Init ==
  /\ kind \in {"adec", "aenc", "venc"}
  /\ state = "NULL" /\ setups = 0
  /\ ctx = None /\ codecs = 0 /\ size = None /\ out = None /\ padCaps = None
  /\ dangling = FALSE
  /\ pending = <<>> /\ held = <<>>
  /\ flushing = FALSE /\ pc = "idle" /\ collect = FALSE /\ cut = FALSE
  /\ expected = 0 /\ discont = FALSE /\ jump = 0
  /\ last = [epoch |-> None, jump |-> 0, flag |-> FALSE]
  /\ end = None /\ lost = FALSE /\ epoch = 0 /\ base = 0

-----------------------------------------------------------------------------
(* State changes *)

NullToReady ==
  /\ state = "NULL" /\ setups < MaxSetups
  /\ setups' = setups + 1
  /\ state' \in {"NULL", "READY"}
  /\ UNCHANGED <<kind, element, dmo, flushing, chain, watch, last, eras>>

ReadyToPaused ==
  /\ state = "READY"
  /\ state' = "PAUSED"
  /\ UNCHANGED <<kind, setups, element, dmo, flushing, chain, watch, last, eras>>

\* DMO_*_Destroy and DMO_Filter_Destroy.
Destroyed == /\ ctx' = None
             /\ codecs' = IF ctx = None THEN codecs ELSE codecs - 1
             /\ pending' = <<>> /\ held' = <<>> /\ cut' = FALSE

PausedToReady ==
  /\ state = "PAUSED" /\ pc = "idle"
  /\ state' = "READY"
  /\ padCaps' = None /\ flushing' = FALSE
  /\ Destroyed
  /\ UNCHANGED <<kind, setups, size, out, dangling, pc, collect, watch, last, eras>>

ReadyToNull ==
  /\ state = "READY"
  /\ state' = "NULL" /\ setups' = setups - 1
  /\ UNCHANGED <<kind, element, dmo, flushing, chain, watch, last, eras>>

-----------------------------------------------------------------------------
(* The sink pad: caps and events *)

Serialised == state = "PAUSED" /\ pc = "idle"

\* A new DMO in the place of the old one; the codec count of a DMO that cannot
\* be made is given back.
Opened(c) ==
  /\ ctx' = c /\ size' = c
  /\ codecs' = (IF ctx = None THEN codecs ELSE codecs - 1) + 1
  /\ pending' = <<>> /\ held' = <<>> /\ cut' = FALSE

\* The DMO begins anew.
NewEra == epoch' = epoch + 1 /\ base' = epoch'

\* A caps field is missing or the DMO cannot be opened; or downstream refuses
\* the output caps and the new DMO stays; or the caps are accepted.
Renegotiated(accepted) ==
  \/ ~accepted /\ Destroyed /\ UNCHANGED <<size, padCaps, eras>>
  \/ ~accepted /\ (\E c \in Caps : Opened(c)) /\ UNCHANGED <<padCaps, eras>>
  \/ /\ accepted /\ epoch < MaxEpoch
     /\ \E c \in Caps : Opened(c) /\ padCaps' = c
     /\ NewEra

SetCapsAdec ==
  /\ kind = "adec" /\ Serialised /\ ~flushing
  /\ \E accepted \in BOOLEAN : Renegotiated(accepted)
  /\ UNCHANGED <<app, out, dangling, flushing, pc, collect, watch, last>>

\* The old context is destroyed as if it were a decoder's, which frees the
\* second header: the encoder's is the DMO's own.  What free() then does is
\* undefined; the process may go on.
SetCapsAenc ==
  /\ kind = "aenc" /\ Serialised /\ ~flushing
  /\ state' \in IF ctx # None THEN {state, "crashed"} ELSE {state}
  /\ \E accepted \in BOOLEAN : Renegotiated(accepted)
  /\ UNCHANGED <<kind, setups, out, dangling, flushing, pc, collect, watch, last>>

\* Mutant: the first buffer of the new format is not marked.
SetCapsVencUnmarked ==
  /\ kind = "venc" /\ Serialised /\ ~flushing
  /\ \E accepted \in BOOLEAN : Renegotiated(accepted)
  /\ UNCHANGED <<app, out, dangling, flushing, pc, collect, watch, last>>

SetCapsVenc ==
  /\ kind = "venc" /\ Serialised /\ ~flushing
  /\ \E accepted \in BOOLEAN :
       /\ Renegotiated(accepted)
       /\ discont' = (discont \/ accepted)
  /\ UNCHANGED <<app, out, dangling, flushing, pc, collect, expected, jump, end, lost, last>>

FlushStart ==
  /\ state = "PAUSED" /\ ~flushing
  /\ flushing' = TRUE
  /\ UNCHANGED <<app, element, dmo, chain, watch, last, eras>>

\* DMO_Filter_Flush: the DMO forgets its input and what it made of it.
Flush == pending' = <<>> /\ held' = <<>>

\* The decoder flushes its DMO; with a null ctx the process is gone.
FlushStop ==
  /\ Serialised /\ flushing /\ kind = "adec"
  /\ \/ /\ ctx # None /\ epoch < MaxEpoch
        /\ Flush /\ cut' = FALSE
        /\ NewEra
        /\ flushing' = FALSE
        /\ UNCHANGED state
     \/ /\ ctx = None
        /\ state' = "crashed"
        /\ UNCHANGED <<dmo, cut, eras, flushing>>
  /\ UNCHANGED <<kind, setups, element, pc, collect, watch, last>>

\* The encoders only pass the event on: what is in the DMO stays there.
FlushStopEncoder ==
  /\ Serialised /\ flushing /\ kind # "adec" /\ epoch < MaxEpoch
  /\ flushing' = FALSE
  /\ epoch' = epoch + 1
  /\ UNCHANGED <<app, element, dmo, chain, watch, last, base>>

-----------------------------------------------------------------------------
(* The chain functions *)

Sum(ts, dur) == (ts + dur) % ClockMod
InputEnd(ts, dur) == IF NoTime \in {ts, dur} THEN None ELSE ts + dur

\* The discontinuity check of the video encoder.
Gap(ts) == expected # NoTime /\ ts # expected

\* A missing duration is all ones: the end comes out one before the start.
Watch(ts, dur) ==
  /\ expected' = Sum(ts, dur)
  /\ discont' = (discont \/ Gap(ts))
  /\ jump' = IF Gap(ts) THEN jump + 1 ELSE jump
  /\ end' = InputEnd(ts, dur)
  /\ lost' = (lost \/ (Gap(ts) /\ ts = end /\ held # <<>>))

\* The frames of this epoch that the DMO makes of one input.
Made(e) == {[i \in 1..n |-> [epoch |-> e, time |-> None]] : n \in 0..MaxFrames}

\* The DMO takes the input; S_OK lets chain collect what is ready, which may be
\* nothing.
Taken(back, e) ==
  \E new \in Made(e), ok \in BOOLEAN :
    LET all == back \o new IN
    \E n \in IF ok THEN 0..Len(all) ELSE {0} :
      /\ collect' = ok
      /\ pending' = SubSeq(all, 1, n)
      /\ held' = SubSeq(all, n + 1, Len(all))

\* The DMO has frames to give and does not take the input, which is lost.
Refused(ready, back) == collect' = TRUE /\ pending' = ready /\ held' = back

Offered(ready, back, e) == IF ready # <<>> THEN Refused(ready, back) ELSE Taken(back, e)

\* A buffer arrives at the element.
Arrives == /\ Serialised /\ ~flushing /\ ctx # None /\ padCaps # None
           /\ Len(held) < MaxFrames
           /\ pc' = "alloc"

ProcessInputAdec ==
  /\ kind = "adec" /\ Arrives
  /\ Offered(pending, held, epoch)
  /\ cut' = (cut /\ pending' # <<>>)
  /\ UNCHANGED <<app, element, flushing, watch, last, eras>>

\* The audio encoder asks for the input status first; an error of that call is
\* taken like a DMO that accepts nothing.
ProcessInputAenc ==
  /\ kind = "aenc" /\ Arrives
  /\ Offered(pending, held, epoch) \/ Refused(pending, held)
  /\ cut' = (cut /\ pending' # <<>>)
  /\ UNCHANGED <<app, element, flushing, watch, last, eras>>

ProcessInputVenc ==
  /\ kind = "venc" /\ Arrives
  /\ \E ts \in Times \cup {NoTime}, dur \in {1, NoTime} :
       /\ Watch(ts, dur)
       /\ \/ /\ Gap(ts) /\ epoch < MaxEpoch
             /\ NewEra /\ Offered(<<>>, <<>>, epoch + 1)
          \/ /\ ~Gap(ts)
             /\ UNCHANGED eras /\ Offered(pending, held, epoch)
  /\ cut' = (cut /\ pending' # <<>>)
  /\ UNCHANGED <<app, element, flushing, last>>

Finish == pc' = "idle" /\ collect' = FALSE

\* A buffer of an earlier call is used again, whatever it has become since.
AllocBuffer ==
  /\ pc = "alloc"
  /\ out' = IF out = None THEN size ELSE out
  /\ IF collect THEN pc' = "drain" /\ UNCHANGED collect ELSE Finish
  /\ state' \in IF dangling THEN {state, "crashed"} ELSE {state}
  /\ UNCHANGED <<kind, setups, ctx, codecs, size, padCaps, dangling, dmo, flushing, cut, watch, last, eras>>

AllocFails ==
  /\ pc = "alloc" /\ out = None
  /\ Finish
  /\ cut' = (pending # <<>>)
  /\ UNCHANGED <<app, element, dmo, flushing, watch, last, eras>>

\* DMO_*_ProcessOutput: the next frame, when there is one that fits, and whether
\* the DMO says that it has more.
Output(got, more) ==
  IF pending # <<>> /\ out = ctx
  THEN /\ got = 1
       /\ pending' = Tail(pending)
       /\ more = (pending' # <<>>)
  ELSE /\ got = 0
       /\ more => pending # <<>>
       /\ UNCHANGED pending

\* The audio elements push what they got, an empty buffer too.
PushAudio ==
  /\ \E got \in {0, 1}, more \in BOOLEAN :
       /\ Output(got, more)
       /\ IF more THEN out' = size /\ UNCHANGED <<pc, collect, cut>>
          ELSE out' = None /\ Finish /\ cut' = (pending' # <<>>)
  /\ UNCHANGED <<app, ctx, codecs, size, padCaps, dangling, held, flushing, watch, last, eras>>

PushAdec == pc = "drain" /\ kind = "adec" /\ PushAudio
PushAenc == pc = "drain" /\ kind = "aenc" /\ PushAudio

\* The video encoder pushes only what is not empty, with offset and marks.
Push(got) ==
  IF got = 1
  THEN /\ last' = [epoch |-> Head(pending).epoch, jump |-> jump, flag |-> discont]
       /\ jump' = 0 /\ discont' = FALSE
  ELSE UNCHANGED <<last, jump, discont>>

PushVenc ==
  /\ pc = "drain" /\ kind = "venc"
  /\ \E got \in {0, 1}, more \in BOOLEAN :
       /\ Output(got, more)
       /\ Push(got)
       /\ IF more THEN out' = size /\ UNCHANGED <<pc, collect, cut>>
          ELSE out' = None /\ Finish /\ cut' = (pending' # <<>>)
  /\ dangling' = FALSE
  /\ UNCHANGED <<app, ctx, codecs, size, padCaps, held, flushing, expected, end, lost, eras>>

\* Within the loop the allocation may fail: the element keeps the pointer to the
\* buffer it gave away, unless the allocation cleared it.
PushVencNoBuffer ==
  /\ pc = "drain" /\ kind = "venc"
  /\ \E got \in {0, 1} : Output(got, TRUE) /\ Push(got)
  /\ \/ out' = None /\ dangling' = FALSE
     \/ out' = out /\ dangling' = TRUE
  /\ Finish /\ cut' = (pending' # <<>>)
  /\ UNCHANGED <<app, ctx, codecs, size, padCaps, held, flushing, expected, end, lost, eras>>

-----------------------------------------------------------------------------
StateChange == NullToReady \/ ReadyToPaused \/ PausedToReady \/ ReadyToNull
Negotiate == SetCapsAdec \/ SetCapsAenc \/ SetCapsVenc
Event == FlushStart \/ FlushStop \/ FlushStopEncoder
ChainStep == AllocBuffer \/ AllocFails \/ PushAdec \/ PushAenc \/ PushVenc \/ PushVencNoBuffer

ProcessInput == ProcessInputAdec \/ ProcessInputAenc \/ ProcessInputVenc

Next == StateChange \/ Negotiate \/ Event \/ ProcessInput \/ ChainStep

Spec == Init /\ [][Next]_vars
FairSpec == Spec /\ WF_vars(ChainStep)

-----------------------------------------------------------------------------
(* Properties *)

\* Every variable has its type.
TypeOK ==
  /\ kind \in {"adec", "aenc", "venc"}
  /\ {dangling, discont, lost} \subseteq BOOLEAN
  /\ held \in Seq([epoch : 0..MaxEpoch, time : {None}])
  /\ expected \in 0..ClockMod - 1 /\ jump \in 0..MaxEpoch
  /\ end \in Nat \cup {None}

\* Across a renegotiation or a gap in the input the video encoder pushes no
\* buffer without the mark: the first buffer after the DMO began anew, and one whose
\* offset does not follow the last, is flagged as discontinuous, also when the
\* DMO held its frames back or the buffers before it could not be allocated.
DiscontMarked ==
  [][last' # last /\ (last.epoch = None \/ last.epoch < base \/ last'.jump > 0) => last'.flag]_last

\* No frame of before a flush or a renegotiation is left in the audio decoder's DMO
\* after it, ready or held back.  In an encoder's none is of before a renegotiation
\* or a gap; the frames of before a FLUSH_STOP stay, and follow it downstream.
DmoFramesCurrent ==
  \A frames \in {pending, held} : \A i \in DOMAIN frames :
    frames[i].epoch >= IF kind = "adec" THEN epoch ELSE base

\* Frames that the video encoder holds are not flushed away while each buffer
\* begins where the one before it, of a known duration, ended.
FlushedOnlyAtGaps == ~lost
=============================================================================

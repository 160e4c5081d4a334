---------------------------- MODULE DmoVideoDec ----------------------------
(***************************************************************************)
(* The DMO video decoder element (ext/pitfdll/dmo_vdec.c) with its wrapper *)
(* around the DMO (dmo/DMO_VideoDecoder.c, dmo.c, buffer.c).               *)
(*                                                                         *)
(* Three threads meet in the element.  The streaming thread brings caps,   *)
(* buffers and serialised events; it holds the stream lock of the sink pad *)
(* in each of these calls.  The application changes the state; leaving     *)
(* PAUSED deactivates the pads first, which waits for the stream lock.     *)
(* Downstream sends QoS events from wherever it notices that it is late.   *)
(*                                                                         *)
(* The DMO is external: a decoder that turns an input into some frames,    *)
(* takes no input while it has frames to give, and gives one frame per     *)
(* call.  Times are counted in thirtieths of a second, the lateness from   *)
(* which a frame is skipped.                                               *)
(***************************************************************************)
EXTENDS Naturals, Sequences

CONSTANTS Caps,       \* formats; each has a frame size of its own
          None,
          MaxTime,    \* bound of timestamps
          MaxFrames,  \* bound of the frames the DMO makes of one input
          MaxEpoch,   \* bound of flushes and renegotiations
          MaxSetups   \* bound of the calls of Setup_LDT_Keeper

ASSUME CapsAssumption == None \notin Caps /\ None \notin Nat
ASSUME BoundsAssumption == {MaxTime, MaxFrames, MaxEpoch, MaxSetups} \subseteq Nat

VARIABLES
  state,       \* "NULL", "READY", "PAUSED" (PLAYING is no different)
  setups,      \* Setup_LDT_Keeper calls less Restore_LDT_Keeper calls
  ctx,         \* dec->ctx: the format its DMO was opened for
  codecs,      \* CodecAlloc calls less CodecRelease calls
  size,        \* dec->out_buffer_size, as the format it belongs to
  out,         \* dec->out_buffer, as the format it was allocated for
  padCaps,     \* the last caps the sink pad accepted: those of its buffers
  start,       \* dec->segment
  earliest,    \* dec->earliest_time
  pending,     \* the frames in the DMO
  flushing,    \* between FLUSH_START and FLUSH_STOP
  pc,          \* of the streaming thread: "idle", "alloc", "drain"
  collect,     \* in chain: status == FALSE
  timestamp,   \* in chain: the local variable
  retry,       \* history: flips when the DMO keeps a frame that is to be skipped
  epoch,       \* history: flushes and successful renegotiations
  seen,        \* history: epoch in which earliest arrived
  cut          \* history: chain returned with frames left in the DMO

element == <<ctx, codecs, size, out, padCaps>>
chain == <<pc, collect, timestamp, retry>>
qos == <<earliest, seen>>
app == <<state, setups>>
vars == <<app, element, start, qos, pending, flushing, chain, epoch, cut>>

Time == 0..MaxTime
OptTime == Time \cup {None}
OptCaps == Caps \cup {None}

Init ==
  /\ state = "NULL" /\ setups = 0
  /\ ctx = None /\ codecs = 0 /\ size = None /\ out = None /\ padCaps = None
  /\ start = 0
  /\ earliest = 0               \* a new object is filled with zeros
  /\ seen = 0
  /\ pending = <<>> /\ flushing = FALSE
  /\ pc = "idle" /\ collect = FALSE /\ timestamp = None /\ retry = FALSE
  /\ epoch = 0 /\ cut = FALSE

-----------------------------------------------------------------------------
(* State changes *)

\* The LDT is set up before the parent class changes the state, and stays so
\* when that fails.
NullToReady ==
  /\ state = "NULL" /\ setups < MaxSetups
  /\ setups' = setups + 1
  /\ state' \in {"NULL", "READY"}
  /\ UNCHANGED <<element, start, qos, pending, flushing, chain, epoch, cut>>

\* The parent class activates the pads; a pad starts without caps.
ReadyToPaused ==
  /\ state = "READY"
  /\ state' = "PAUSED"
  /\ UNCHANGED <<setups, element, start, qos, pending, flushing, chain, epoch, cut>>

\* DMO_VideoDecoder_Destroy and DMO_Filter_Destroy.
Destroyed == /\ ctx' = None
             /\ codecs' = IF ctx = None THEN codecs ELSE codecs - 1
             /\ pending' = <<>> /\ cut' = FALSE

\* Mutant: the DMO is not destroyed.
PausedToReadyKeepsDmo ==
  /\ state = "PAUSED" /\ pc = "idle"
  /\ state' = "READY"
  /\ padCaps' = None /\ flushing' = FALSE
  /\ UNCHANGED <<setups, ctx, codecs, pending, cut, size, out, start, qos, chain, epoch>>

PausedToReady ==
  /\ state = "PAUSED" /\ pc = "idle"
  /\ state' = "READY"
  /\ padCaps' = None /\ flushing' = FALSE
  /\ Destroyed
  /\ UNCHANGED <<setups, size, out, start, qos, chain, epoch>>

ReadyToNull ==
  /\ state = "READY"
  /\ state' = "NULL" /\ setups' = setups - 1
  /\ UNCHANGED <<element, start, qos, pending, flushing, chain, epoch, cut>>

-----------------------------------------------------------------------------
(* The sink pad: caps and events *)

Serialised == state = "PAUSED" /\ pc = "idle"

\* No width, height or frame rate, or the DMO cannot be opened: what
\* DMO_VideoDecoder_Open had created is released again.
SetCapsFails ==
  /\ Serialised /\ ~flushing
  /\ Destroyed
  /\ UNCHANGED <<app, size, out, padCaps, start, qos, flushing, chain, epoch>>

\* The new DMO is opened in the place of the old one.
Opened(c) ==
  /\ ctx' = c /\ size' = c
  /\ codecs' = (IF ctx = None THEN codecs ELSE codecs - 1) + 1
  /\ pending' = <<>> /\ cut' = FALSE

\* Downstream refuses the output caps; the DMO stays open.
SetCapsRefused ==
  /\ Serialised /\ ~flushing
  /\ \E c \in Caps : Opened(c)
  /\ UNCHANGED <<app, out, padCaps, start, qos, flushing, chain, epoch>>

\* dmo_videodec_reset_qos
ResetQos == earliest' = None /\ seen' = epoch'

SetCaps ==
  /\ Serialised /\ ~flushing /\ epoch < MaxEpoch
  /\ \E c \in Caps : Opened(c) /\ padCaps' = c
  /\ epoch' = epoch + 1
  /\ ResetQos
  /\ UNCHANGED <<app, out, start, flushing, chain>>

\* FLUSH_START overtakes what the streaming thread is doing.
FlushStart ==
  /\ state = "PAUSED" /\ ~flushing
  /\ flushing' = TRUE
  /\ UNCHANGED <<app, element, start, qos, pending, chain, epoch, cut>>

\* Mutant: the DMO is not flushed.
FlushStopKeepsFrames ==
  /\ Serialised /\ flushing /\ ctx # None /\ epoch < MaxEpoch
  /\ epoch' = epoch + 1
  /\ ResetQos
  /\ start' = 0
  /\ flushing' = FALSE
  /\ UNCHANGED <<app, element, pending, cut, chain>>

\* Mutant: the QoS observation is not reset.
FlushStopKeepsQos ==
  /\ Serialised /\ flushing /\ ctx # None /\ epoch < MaxEpoch
  /\ epoch' = epoch + 1
  /\ pending' = <<>> /\ cut' = FALSE
  /\ start' = 0
  /\ flushing' = FALSE
  /\ UNCHANGED <<app, element, qos, chain>>

FlushStop ==
  /\ Serialised /\ flushing /\ ctx # None /\ epoch < MaxEpoch
  /\ epoch' = epoch + 1
  /\ pending' = <<>> /\ cut' = FALSE
  /\ ResetQos
  /\ start' = 0
  /\ flushing' = FALSE
  /\ UNCHANGED <<app, element, chain>>

\* DMO_VideoDecoder_Flush of a null ctx: the process is gone.
FlushWithoutDmo ==
  /\ Serialised /\ flushing /\ ctx = None
  /\ state' = "crashed"
  /\ UNCHANGED <<setups, element, start, qos, pending, flushing, chain, epoch, cut>>

\* A segment in another format than time is refused and changes nothing.
NewSegment ==
  /\ Serialised /\ ~flushing
  /\ start' \in Time
  /\ UNCHANGED <<app, element, qos, pending, flushing, chain, epoch, cut>>

\* A QoS event from downstream, in any thread.
QosEvent ==
  /\ state = "PAUSED"
  /\ earliest' \in Time
  /\ seen' = epoch
  /\ UNCHANGED <<app, element, start, pending, flushing, chain, epoch, cut>>

-----------------------------------------------------------------------------
(* dmo_videodec_chain *)

Frames == [epoch : 0..MaxEpoch, time : OptTime]
\* The frames the DMO may make of an input now.
Decoded == UNION {[1..n -> {f \in Frames : f.epoch = epoch}] : n \in 0..MaxFrames}

\* DMO_VideoDecoder_ProcessInput takes the input and says S_OK; or takes it and
\* wants more, or fails: then nothing is collected.  Without a ctx the chain
\* function returns WRONG_STATE, and a pad that flushes never calls it.
ProcessInput ==
  /\ Serialised /\ ~flushing /\ ctx # None /\ padCaps # None
  /\ pending = <<>>
  /\ timestamp' \in OptTime
  /\ collect' \in BOOLEAN
  /\ pending' \in IF collect' THEN Decoded ELSE {<<>>}
  /\ pc' = "alloc"
  /\ UNCHANGED <<app, element, start, qos, flushing, retry, epoch, cut>>

\* DMO_E_NOTACCEPTING: the input is lost, and the DMO's frames are collected.
InputRefused ==
  /\ Serialised /\ ~flushing /\ ctx # None /\ padCaps # None
  /\ pending # <<>>
  /\ timestamp' \in OptTime
  /\ collect' = TRUE
  /\ pc' = "alloc"
  /\ UNCHANGED <<app, element, start, qos, pending, flushing, retry, epoch, cut>>

\* beach: the call returns.
Finish == pc' = "idle" /\ collect' = FALSE /\ timestamp' = None /\ retry' = FALSE

\* gst_pad_alloc_buffer, when no buffer is left from an earlier call.
AllocBuffer ==
  /\ pc = "alloc"
  /\ out' = IF out = None THEN size ELSE out
  /\ IF collect THEN pc' = "drain" /\ UNCHANGED <<collect, timestamp, retry>> ELSE Finish
  /\ UNCHANGED <<app, ctx, codecs, size, padCaps, start, qos, pending, flushing, epoch, cut>>

\* Downstream has no buffer: chain returns, whatever is in the DMO.
AllocFails ==
  /\ pc = "alloc" /\ out = None
  /\ Finish
  /\ cut' = (pending # <<>>)
  /\ UNCHANGED <<app, element, start, qos, pending, flushing, epoch>>

\* dmo_videodec_do_qos: the proportion makes no difference, a frame that is
\* early is never skipped.
Late == /\ timestamp # None /\ earliest # None
        /\ timestamp >= start
        /\ earliest > timestamp - start

\* Mutant: one frame is collected, whatever the DMO says.
ContinueOnce(more, time) == Finish
\* Mutant: the DMO is asked again when it has no more.
ContinueInverted(more, time) ==
  IF ~more THEN timestamp' = time /\ UNCHANGED <<pc, collect, retry>> ELSE Finish

\* while (status)
Continue(more, time) ==
  IF more THEN timestamp' = time /\ UNCHANGED <<pc, collect, retry>> ELSE Finish

\* DMO_VideoDecoder_ProcessOutput gives a frame, which is pushed; a new buffer
\* is allocated when the DMO has more (INCOMPLETE).
PushFrame ==
  /\ pc = "drain" /\ ~Late
  /\ pending # <<>> /\ out = ctx
  /\ pending' = Tail(pending)
  /\ out' = IF pending' # <<>> THEN size ELSE None
  /\ Continue(pending' # <<>>, timestamp)
  /\ cut' = (cut /\ pending' # <<>>)
  /\ UNCHANGED <<app, ctx, codecs, size, padCaps, start, qos, flushing, epoch>>

\* There is no frame, or it does not fit into a buffer that was allocated for
\* another format: the DMO writes nothing and says INCOMPLETE or fails, and
\* the empty buffer is pushed.
PushEmpty ==
  /\ pc = "drain" /\ ~Late
  /\ pending = <<>> \/ out # ctx
  /\ \E more \in {FALSE, pending # <<>>} :
       /\ out' = IF more THEN size ELSE None
       /\ Continue(more, timestamp)
       /\ cut' = IF more THEN cut ELSE pending # <<>>
  /\ UNCHANGED <<app, ctx, codecs, size, padCaps, start, qos, pending, flushing, epoch>>

\* The time after the frame, when the DMO reports its time and its duration.
TimeAfter(f) == {f.time, IF f.time = None THEN None ELSE f.time + 1}

\* A late frame is skipped with a buffer of size 0: the DMO drops it ...
SkipFrame ==
  /\ pc = "drain" /\ Late
  /\ pending # <<>>
  /\ pending' = Tail(pending)
  /\ \E time \in TimeAfter(Head(pending)) : Continue(pending' # <<>>, time)
  /\ cut' = (cut /\ pending' # <<>>)
  /\ UNCHANGED <<app, element, start, qos, flushing, epoch>>

\* ... or has none, or fails ...
SkipNothing ==
  /\ pc = "drain" /\ Late
  /\ Continue(FALSE, None)
  /\ cut' = (pending # <<>>)
  /\ UNCHANGED <<app, element, start, qos, pending, flushing, epoch>>

\* ... or keeps it because it does not fit, and says INCOMPLETE.
SkipAgain ==
  /\ pc = "drain" /\ Late
  /\ pending # <<>>
  /\ timestamp' \in TimeAfter(Head(pending))
  /\ retry' = ~retry
  /\ UNCHANGED <<app, element, start, qos, pending, flushing, pc, collect, epoch, cut>>

-----------------------------------------------------------------------------
StateChange == NullToReady \/ ReadyToPaused \/ PausedToReady \/ ReadyToNull
Negotiate == SetCapsFails \/ SetCapsRefused \/ SetCaps
Event == FlushStart \/ FlushStop \/ FlushWithoutDmo \/ NewSegment \/ QosEvent
ChainStep == AllocBuffer \/ AllocFails \/ PushFrame \/ PushEmpty \/ SkipFrame \/ SkipNothing \/ SkipAgain

Next == StateChange \/ Negotiate \/ Event \/ ProcessInput \/ InputRefused \/ ChainStep

Spec == Init /\ [][Next]_vars
\* A chain call that began is scheduled.
FairSpec == Spec /\ WF_vars(ChainStep)

-----------------------------------------------------------------------------
(* Properties *)

\* The Boolean variables, and the others.
FlagsOK == flushing \in BOOLEAN /\ collect \in BOOLEAN /\ cut \in BOOLEAN /\ retry \in BOOLEAN
ValuesOK ==
  /\ state \in {"NULL", "READY", "PAUSED", "crashed"} /\ setups \in Nat
  /\ ctx \in OptCaps /\ size \in OptCaps /\ out \in OptCaps /\ padCaps \in OptCaps
  /\ codecs \in Nat
  /\ start \in Time /\ earliest \in OptTime /\ seen \in 0..MaxEpoch
  /\ pending \in Seq(Frames)
  /\ pc \in {"idle", "alloc", "drain"}
  /\ timestamp \in OptTime \cup {MaxTime + 1}
  /\ epoch \in 0..MaxEpoch

\* Every variable has its type; no LDT reference is given back twice.
TypeOK == FlagsOK /\ ValuesOK

\* A DMO lives only while its element holds the segment that its code needs
\* (dmo_videodec_change_state), on every path of set-caps and state changes.
DmoNeedsSegment == ctx # None => state \in {"PAUSED", "crashed"} /\ setups > 0

\* The element has exactly one codec count for its DMO and none without: every
\* DMO it opens, also one that downstream refuses, is destroyed once.
DmoCounted == codecs = IF ctx = None THEN 0 ELSE 1

\* No frame decoded before a flush or a renegotiation is left in the DMO after
\* it, also when a chain call gave up before it had collected them.
FramesCurrent == \A i \in 1..Len(pending) : pending[i].epoch = epoch

\* A buffer is never judged by a QoS observation that the element received
\* before the last flush or renegotiation, or in an earlier life.
QosCurrent == padCaps # None /\ earliest # None => seen = epoch

\* Between chain calls the DMO has no frames left, so that it takes the next
\* input, unless downstream had no buffer or the DMO refused the one it got.
BacklogExplained == pc = "idle" /\ pending # <<>> => cut

\* While frames are collected there are a DMO and an output buffer, through
\* pushes, skipped frames and buffers left over from earlier calls.
CollectsIntoBuffer == pc = "drain" => ctx # None /\ out # None

\* A chain call returns, also when a frame does not fit into a buffer of the former
\* format, unless the DMO says INCOMPLETE for ever when it is given no room for a
\* frame that comes too late: nothing but its answer ends the loop.
ChainReturns == []<>(pc = "idle") \/ []<><<SkipAgain>>_vars
=============================================================================

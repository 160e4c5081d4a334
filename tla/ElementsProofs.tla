--------------------------- MODULE ElementsProofs ---------------------------
(***************************************************************************)
(* The safety properties of the elements (MCElements) hold for any         *)
(* formats, times, sizes, frames per input, blocks and numbers of flushes, *)
(* and for any DLLs that are installed.                                    *)
(*                                                                         *)
(* The DMO video decoder comes first, with the theorems of its own         *)
(* specification.  Then each other element has an inductive invariant, and *)
(* AnyIInv is the one of the kind that the element is of.                  *)
(*                                                                         *)
(* Last comes the fs segment that the elements hold for their DLLs         *)
(* (LdtKeeper), for any number of users and pages.                         *)
(***************************************************************************)
EXTENDS MCElements, LdtKeeper, SequenceTheorems, FiniteSetTheorems, TLAPS

(* The DMO video decoder *)

\* Outside a flush without DMO, state changes and stream calls keep to the
\* order NULL, READY, PAUSED, and the LDT is held from READY on.
HeldFromReady == state \in {"READY", "PAUSED"} => setups > 0

\* A chain call runs in PAUSED and on the DMO it began with.
ChainRuns == pc # "idle" => state = "PAUSED" /\ ctx # None

\* The size of new buffers is that of the DMO's frames.
SizeOfDmo == ctx # None => size = ctx

\* An input that the DMO took without output left nothing to collect.
NothingToCollect == pc = "alloc" /\ ~collect => pending = <<>>

Core == /\ ValuesOK /\ DmoNeedsSegment /\ DmoCounted /\ FramesCurrent /\ QosCurrent
        /\ BacklogExplained /\ CollectsIntoBuffer
        /\ HeldFromReady /\ ChainRuns /\ SizeOfDmo /\ NothingToCollect

IInv == FlagsOK /\ Core

\* The bounds are natural numbers, and None is neither a format nor a time.
LEMMA Bounds == /\ MaxTime \in Nat /\ MaxFrames \in Nat /\ MaxEpoch \in Nat /\ MaxSetups \in Nat
                /\ None \notin Caps /\ None \notin Nat
BY BoundsAssumption, CapsAssumption

-----------------------------------------------------------------------------
(* Frames in the DMO *)

\* What the DMO makes of an input is a sequence of current frames.
LEMMA DecodedFrames ==
  ASSUME epoch \in 0..MaxEpoch, NEW p \in Decoded
  PROVE  p \in Seq(Frames) /\ \A i \in 1..Len(p) : p[i].epoch = epoch
<1>1. PICK n \in 0..MaxFrames : p \in [1..n -> {f \in Frames : f.epoch = epoch}]
  BY DEF Decoded
<1>2. n \in Nat
  BY <1>1, Bounds
<1>3. p \in Seq({f \in Frames : f.epoch = epoch}) /\ Len(p) = n
  BY <1>1, <1>2
<1> QED
  BY <1>1, <1>3

\* A destroyed, new or flushed DMO has no frames.
LEMMA NoFrames == <<>> \in Seq(Frames) /\ Len(<<>>) = 0
BY EmptySeq

\* Taking the first frame keeps the others.
LEMMA TailFrames ==
  ASSUME pending \in Seq(Frames), pending # <<>>, FramesCurrent
  PROVE  /\ Tail(pending) \in Seq(Frames) /\ Head(pending) \in Frames
         /\ \A i \in 1..Len(Tail(pending)) : Tail(pending)[i].epoch = epoch
<1>1. /\ Tail(pending) \in Seq(Frames) /\ Head(pending) \in Frames
      /\ Len(Tail(pending)) = Len(pending) - 1 /\ Len(pending) \in Nat
      /\ \A i \in 1..Len(Tail(pending)) : Tail(pending)[i] = pending[i + 1]
  BY HeadTailProperties
<1> QED
  BY <1>1 DEF FramesCurrent

\* The local timestamp after a skipped frame is one the type invariant allows.
LEMMA TimesAfter ==
  ASSUME NEW f \in Frames, NEW t \in TimeAfter(f)
  PROVE  t \in OptTime \cup {MaxTime + 1}
BY Bounds DEF Frames, TimeAfter, OptTime, Time

-----------------------------------------------------------------------------
(* The inductive invariant *)

\* A new element has it.
LEMMA InitInv == Init => IInv
<1> SUFFICES ASSUME Init PROVE FlagsOK /\ Core
  BY DEF IInv
<1>1. FlagsOK
  BY DEF Init, FlagsOK
<1>2. Core
  BY NoFrames, Bounds
  DEF Init, Core, ValuesOK, DmoNeedsSegment, DmoCounted, FramesCurrent, QosCurrent, BacklogExplained,
      CollectsIntoBuffer, HeldFromReady, ChainRuns, SizeOfDmo, NothingToCollect, Time, OptTime, OptCaps
<1> QED
  BY <1>1, <1>2

\* Flags stay flags.
LEMMA NextFlags == FlagsOK /\ [Next]_vars => FlagsOK'
BY DEF FlagsOK, Next, StateChange, Negotiate, Event, ChainStep, NullToReady, ReadyToPaused,
       PausedToReady, ReadyToNull, SetCapsFails, SetCapsRefused, SetCaps, FlushStart, FlushStop,
       FlushWithoutDmo, NewSegment, QosEvent, ProcessInput, InputRefused, AllocBuffer, AllocFails,
       PushFrame, PushEmpty, SkipFrame, SkipNothing, SkipAgain, Destroyed, Opened, Finish, Continue,
       vars, element, chain, qos, app

\* State changes.
LEMMA StateChangeInv == IInv /\ StateChange => Core'
<1> SUFFICES ASSUME IInv, StateChange PROVE Core'
  OBVIOUS
<1> USE Bounds
<1> USE DEF IInv, Core, FlagsOK, ValuesOK, DmoNeedsSegment, DmoCounted, FramesCurrent, QosCurrent, BacklogExplained,
            CollectsIntoBuffer, HeldFromReady, ChainRuns, SizeOfDmo, NothingToCollect,
            element, chain, qos, app, OptCaps, Destroyed
<1>1. CASE NullToReady
  BY <1>1 DEF NullToReady
<1>2. CASE ReadyToPaused
  BY <1>2 DEF ReadyToPaused
<1>3. CASE PausedToReady
  BY <1>3, NoFrames DEF PausedToReady
<1>4. CASE ReadyToNull
  BY <1>4 DEF ReadyToNull
<1> QED
  BY <1>1, <1>2, <1>3, <1>4 DEF StateChange

\* Caps: in each case the former DMO is counted out and the new one in.
LEMMA NegotiateInv == IInv /\ Negotiate => Core'
<1> SUFFICES ASSUME IInv, Negotiate PROVE Core'
  OBVIOUS
<1> USE Bounds
<1> USE DEF IInv, Core, FlagsOK, ValuesOK, DmoNeedsSegment, DmoCounted, FramesCurrent, QosCurrent, BacklogExplained,
            CollectsIntoBuffer, HeldFromReady, ChainRuns, SizeOfDmo, NothingToCollect,
            element, chain, qos, app, OptCaps, Destroyed, Opened, Serialised, ResetQos, Time, OptTime
<1>1. CASE SetCapsFails
  BY <1>1, NoFrames DEF SetCapsFails
<1>2. CASE SetCapsRefused
  BY <1>2, NoFrames DEF SetCapsRefused
<1>3. CASE SetCaps
  BY <1>3, NoFrames DEF SetCaps
<1> QED
  BY <1>1, <1>2, <1>3 DEF Negotiate

\* Events: a flush leaves neither a frame nor a QoS observation.
LEMMA EventInv == IInv /\ Event => Core'
<1> SUFFICES ASSUME IInv, Event PROVE Core'
  OBVIOUS
<1> USE Bounds
<1> USE DEF IInv, Core, FlagsOK, ValuesOK, DmoNeedsSegment, DmoCounted, FramesCurrent, QosCurrent, BacklogExplained,
            CollectsIntoBuffer, HeldFromReady, ChainRuns, SizeOfDmo, NothingToCollect,
            element, chain, qos, app, OptCaps, Serialised, ResetQos, Time, OptTime
<1>1. CASE FlushStart
  BY <1>1 DEF FlushStart
<1>2. CASE FlushStop
  BY <1>2, NoFrames DEF FlushStop
<1>3. CASE FlushWithoutDmo
  BY <1>3 DEF FlushWithoutDmo
<1>4. CASE NewSegment
  BY <1>4 DEF NewSegment
<1>5. CASE QosEvent
  BY <1>5 DEF QosEvent
<1> QED
  BY <1>1, <1>2, <1>3, <1>4, <1>5 DEF Event

\* The chain function: whoever leaves frames behind marks the cut.
LEMMA ChainInv == IInv /\ (ProcessInput \/ InputRefused \/ ChainStep) => Core'
<1> SUFFICES ASSUME IInv, ProcessInput \/ InputRefused \/ ChainStep PROVE Core'
  OBVIOUS
<1> USE Bounds
<1> USE DEF IInv, Core, FlagsOK, ValuesOK, DmoNeedsSegment, DmoCounted, FramesCurrent, QosCurrent, BacklogExplained,
            CollectsIntoBuffer, HeldFromReady, ChainRuns, SizeOfDmo, NothingToCollect,
            element, chain, qos, app, OptCaps, Serialised, Finish, Continue
<1>1. CASE ProcessInput
  <2>1. pending' \in Seq(Frames) /\ \A i \in 1..Len(pending') : pending'[i].epoch = epoch
    BY <1>1, DecodedFrames DEF ProcessInput
  <2> QED
    BY <1>1, <2>1 DEF ProcessInput
<1>2. CASE InputRefused
  BY <1>2 DEF InputRefused
<1>3. CASE AllocBuffer
  BY <1>3 DEF AllocBuffer, OptTime
<1>4. CASE AllocFails
  BY <1>4 DEF AllocFails, OptTime
<1>5. CASE PushFrame
  BY <1>5, TailFrames DEF PushFrame, OptTime
<1>6. CASE PushEmpty
  BY <1>6 DEF PushEmpty, OptTime
<1>7. CASE SkipFrame
  BY <1>7, TailFrames, TimesAfter DEF SkipFrame, OptTime
<1>8. CASE SkipNothing
  BY <1>8 DEF SkipNothing, OptTime
<1>9. CASE SkipAgain
  <2>1. Head(pending) \in Frames
    BY <1>9, TailFrames DEF SkipAgain
  <2> QED
    BY <1>9, <2>1, TimesAfter DEF SkipAgain
<1> QED
  BY <1>1, <1>2, <1>3, <1>4, <1>5, <1>6, <1>7, <1>8, <1>9 DEF ChainStep

\* Every step keeps it.
LEMMA NextInv == IInv /\ [Next]_vars => IInv'
<1>1. IInv /\ UNCHANGED vars => Core'
  BY DEF IInv, Core, ValuesOK, DmoNeedsSegment, DmoCounted, FramesCurrent, QosCurrent, BacklogExplained,
         CollectsIntoBuffer, HeldFromReady, ChainRuns, SizeOfDmo, NothingToCollect,
         vars, element, chain, qos, app, OptCaps
<1> QED
  BY <1>1, NextFlags, StateChangeInv, NegotiateInv, EventInv, ChainInv DEF Next, IInv

THEOREM Invariant == Spec => []IInv
BY InitInv, NextInv, PTL DEF Spec

-----------------------------------------------------------------------------
(* The properties *)

\* Every variable keeps its type; no LDT reference is given back twice.
THEOREM TypeCorrect == Spec => []TypeOK
BY Invariant, PTL DEF IInv, Core, TypeOK

\* A DMO lives only in an element that holds the segment.
THEOREM DmoHasSegment == Spec => []DmoNeedsSegment
BY Invariant, PTL DEF IInv, Core

\* Every DMO that is opened is destroyed once.
THEOREM DmosCounted == Spec => []DmoCounted
BY Invariant, PTL DEF IInv, Core

\* No frame survives a flush or a renegotiation in the DMO.
THEOREM NoFormerFrames == Spec => []FramesCurrent
BY Invariant, PTL DEF IInv, Core

\* No QoS observation received before a flush is used after it.
THEOREM NoFormerQos == Spec => []QosCurrent
BY Invariant, PTL DEF IInv, Core

\* A chain call leaves frames in the DMO only when downstream had no buffer or
\* the DMO refused the one it got.
THEOREM BacklogOnlyAfterCut == Spec => []BacklogExplained
BY Invariant, PTL DEF IInv, Core

\* The collecting loop never runs without a DMO or an output buffer.
THEOREM AlwaysABuffer == Spec => []CollectsIntoBuffer
BY Invariant, PTL DEF IInv, Core

-----------------------------------------------------------------------------
(* The other DMO elements *)

\* The frames of the epochs from b to e.
FramesOf(b, e) == [epoch : b..e, time : {None}]

\* The frames in the DMO, ready and held back, are of the epochs since it began anew,
\* which a decoder's does in each, and an input that the DMO took without output left
\* nothing to collect.
CodecFrames ==
  /\ epoch \in Nat /\ base \in 0..epoch
  /\ kind = "adec" => base = epoch
  /\ pending \in Seq(FramesOf(base, epoch)) /\ held \in Seq(FramesOf(base, epoch))
  /\ pc = "alloc" /\ ~collect => pending = <<>>
  /\ pc = "idle" /\ pending # <<>> => cut

\* The element holds the segment from READY on, and a codec count for its DMO, on which
\* a chain call runs.
CodecHolds ==
  /\ setups \in Nat /\ codecs \in Nat
  /\ state \in {"NULL", "READY", "PAUSED", "crashed"}
  /\ state \in {"READY", "PAUSED"} => setups > 0
  /\ ctx # None => state \in {"PAUSED", "crashed"} /\ setups > 0
  /\ codecs = IF ctx = None THEN 0 ELSE 1
  /\ pc \in {"idle", "alloc", "drain"}
  /\ pc # "idle" => ctx # None

CodecIInv == CodecFrames /\ CodecHolds

\* No sequence is empty and of another epoch.
LEMMA NoFramesOf == \A b, e : <<>> \in Seq(FramesOf(b, e))
BY EmptySeq

\* The frames of some epochs are frames of more epochs.
LEMMA MoreFrames ==
  ASSUME NEW b \in Nat, NEW e \in Nat, NEW frames \in Seq(FramesOf(b, e))
  PROVE  frames \in Seq(FramesOf(b, e + 1))
<1>1. FramesOf(b, e) \subseteq FramesOf(b, e + 1)
  BY DEF FramesOf
<1> QED
  BY <1>1

\* What one input makes of the frames that the DMO holds back.
LEMMA TakenFrames ==
  ASSUME NEW b \in Nat, NEW e \in Nat, b <= e, NEW back \in Seq(FramesOf(b, e)), MaxFrames \in Nat, Codec!Taken(back, e)
  PROVE  /\ pending' \in Seq(FramesOf(b, e)) /\ held' \in Seq(FramesOf(b, e))
         /\ ~collect' => pending' = <<>>
<1>1. PICK new \in Codec!Made(e), ok \in BOOLEAN :
        \E n \in IF ok THEN 0..Len(back \o new) ELSE {0} :
          /\ collect' = ok
          /\ pending' = SubSeq(back \o new, 1, n)
          /\ held' = SubSeq(back \o new, n + 1, Len(back \o new))
  BY DEF Codec!Taken
<1>2. new \in Seq(FramesOf(b, e))
  <2>1. PICK m \in 0..MaxFrames : new = [i \in 1..m |-> [epoch |-> e, time |-> None]]
    BY DEF Codec!Made
  <2>2. m \in Nat
    BY <2>1
  <2>3. \A i \in 1..m : new[i] \in FramesOf(b, e)
    BY <2>1 DEF FramesOf
  <2> QED
    BY <2>1, <2>2, <2>3
<1> DEFINE all == back \o new
<1>3. all \in Seq(FramesOf(b, e)) /\ Len(all) \in Nat
  BY <1>2, ConcatProperties, LenProperties
<1>4. PICK n \in IF ok THEN 0..Len(all) ELSE {0} :
        /\ collect' = ok
        /\ pending' = SubSeq(all, 1, n)
        /\ held' = SubSeq(all, n + 1, Len(all))
  BY <1>1
<1>5. n \in 0..Len(all)
  BY <1>3
<1> HIDE DEF all
<1>6. \A i \in 1..Len(all) : all[i] \in FramesOf(b, e)
  BY <1>3, ElementOfSeq
<1>7. pending' \in Seq(FramesOf(b, e))
  BY <1>3, <1>4, <1>5, <1>6, SubSeqProperties
<1>8. held' \in Seq(FramesOf(b, e))
  BY <1>3, <1>4, <1>5, <1>6, SubSeqProperties
<1>9. ~collect' => pending' = <<>>
  <2>1. SUFFICES ASSUME ~collect' PROVE pending' = <<>>
    OBVIOUS
  <2>2. n = 0
    BY <1>4, <2>1
  <2> QED
    BY <1>4, <2>2, SubSeqEmpty
<1> QED
  BY <1>7, <1>8, <1>9

\* The same whether or not the DMO takes the input.
LEMMA OfferedFrames ==
  ASSUME NEW b \in Nat, NEW e \in Nat, b <= e, NEW ready \in Seq(FramesOf(b, e)), NEW back \in Seq(FramesOf(b, e)), MaxFrames \in Nat,
         Codec!Offered(ready, back, e) \/ Codec!Refused(ready, back)
  PROVE  /\ pending' \in Seq(FramesOf(b, e)) /\ held' \in Seq(FramesOf(b, e))
         /\ ~collect' => pending' = <<>>
<1>1. CASE Codec!Refused(ready, back)
  BY <1>1 DEF Codec!Refused
<1>2. CASE Codec!Taken(back, e)
  BY <1>2, TakenFrames
<1> QED
  BY <1>1, <1>2 DEF Codec!Offered

\* One frame is taken out, or none.
LEMMA OutputFrames ==
  ASSUME NEW b, NEW e, pending \in Seq(FramesOf(b, e)), NEW got, NEW more, Codec!Output(got, more)
  PROVE  pending' \in Seq(FramesOf(b, e))
BY HeadTailProperties DEF Codec!Output

\* State changes and events.
LEMMA CodecLifeInv ==
  ASSUME CodecIInv, Codec!StateChange \/ Codec!Negotiate \/ Codec!Event
  PROVE  CodecIInv'
<1> USE CapsAssumption DEF CodecIInv, CodecHolds, CodecFrames
<1> USE DEF Codec!element, Codec!dmo, Codec!chain, Codec!watch, Codec!app, Codec!Serialised, Codec!eras
<1>0. \A b, e : <<>> \in Seq(FramesOf(b, e))
  BY NoFramesOf
<1>1. CASE Codec!NullToReady
  BY <1>1 DEF Codec!NullToReady
<1>2. CASE Codec!ReadyToPaused
  BY <1>2 DEF Codec!ReadyToPaused
<1>3. CASE Codec!PausedToReady
  BY <1>3, <1>0 DEF Codec!PausedToReady, Codec!Destroyed
<1>4. CASE Codec!ReadyToNull
  BY <1>4 DEF Codec!ReadyToNull
<1>5. ASSUME NEW accepted \in BOOLEAN, Codec!Renegotiated(accepted), Codec!Serialised,
             state' \in {state, "crashed"}, ctx # None \/ state' = state, UNCHANGED <<kind, setups, pc, collect>>
      PROVE  CodecIInv'
  <2>1. epoch' \in Nat /\ base' \in 0..epoch' /\ (kind' = "adec" => base' = epoch')
    BY <1>5 DEF Codec!Renegotiated, Codec!NewEra, Codec!eras
  <2>2. pending' = <<>> /\ held' = <<>> /\ codecs' = IF ctx' = None THEN 0 ELSE 1
    BY <1>5 DEF Codec!Renegotiated, Codec!Destroyed, Codec!Opened
  <2> QED
    BY <1>0, <1>5, <2>1, <2>2
<1>6. CASE Codec!SetCapsAdec
  BY <1>5, <1>6 DEF Codec!SetCapsAdec
<1>7. CASE Codec!SetCapsAenc
  BY <1>5, <1>7 DEF Codec!SetCapsAenc
<1>8. CASE Codec!SetCapsVenc
  BY <1>5, <1>8 DEF Codec!SetCapsVenc
<1>9. CASE Codec!FlushStart
  BY <1>9 DEF Codec!FlushStart
<1>10. CASE Codec!FlushStop
  <2>1. CASE ctx # None
    <3>1. /\ pending' = <<>> /\ held' = <<>> /\ epoch' = epoch + 1 /\ base' = epoch'
          /\ UNCHANGED <<state, setups, ctx, codecs, pc, collect>>
      BY <1>10, <2>1 DEF Codec!FlushStop, Codec!Flush, Codec!NewEra
    <3> QED
      BY <1>0, <1>10, <3>1 DEF Codec!FlushStop
  <2>2. CASE ctx = None
    <3>1. state' = "crashed" /\ UNCHANGED <<kind, setups, ctx, codecs, pc, collect, pending, held, cut, epoch, base>>
      BY <1>10, <2>2 DEF Codec!FlushStop, Codec!eras
    <3> QED
      BY <2>2, <3>1
  <2> QED
    BY <2>1, <2>2
<1>11. CASE Codec!FlushStopEncoder
  <2>1. /\ kind # "adec" /\ epoch' = epoch + 1
        /\ UNCHANGED <<kind, state, setups, ctx, codecs, pc, collect, cut, pending, held, base>>
    BY <1>11 DEF Codec!FlushStopEncoder
  <2>2. pending \in Seq(FramesOf(base, epoch + 1)) /\ held \in Seq(FramesOf(base, epoch + 1))
    BY MoreFrames
  <2> QED
    BY <2>1, <2>2
<1> QED
  BY <1>1, <1>2, <1>3, <1>4, <1>6, <1>7, <1>8, <1>9, <1>10, <1>11
  DEF Codec!StateChange, Codec!Negotiate, Codec!Event

\* An input.
LEMMA CodecInputInv ==
  ASSUME CodecIInv, Codec!ProcessInput
  PROVE  CodecIInv'
<1> USE DEF Codec!element, Codec!app, Codec!Serialised, Codec!eras, Codec!NewEra
<1>0. \A b, e : <<>> \in Seq(FramesOf(b, e))
  BY NoFramesOf
<1>1. MaxFrames \in Nat
  BY BoundsAssumption
<1>2. /\ pending \in Seq(FramesOf(base, epoch)) /\ held \in Seq(FramesOf(base, epoch))
      /\ epoch \in Nat /\ base \in 0..epoch /\ (kind = "adec" => base = epoch)
  BY DEF CodecIInv, CodecFrames
<1>3. /\ ctx # None /\ pc' = "alloc" /\ epoch' \in Nat /\ base' \in 0..epoch' /\ kind' = kind
      /\ kind = "adec" => base' = epoch'
      /\ UNCHANGED <<state, setups, ctx, codecs>>
  BY <1>2 DEF Codec!ProcessInput, Codec!ProcessInputAdec, Codec!ProcessInputAenc, Codec!ProcessInputVenc, Codec!Arrives
<1>4. /\ pending' \in Seq(FramesOf(base', epoch')) /\ held' \in Seq(FramesOf(base', epoch'))
      /\ ~collect' => pending' = <<>>
  <2>1. CASE Codec!ProcessInputAdec
    BY <1>1, <1>2, <2>1, OfferedFrames DEF Codec!ProcessInputAdec
  <2>2. CASE Codec!ProcessInputAenc
    BY <1>1, <1>2, <2>2, OfferedFrames DEF Codec!ProcessInputAenc
  <2>3. CASE Codec!ProcessInputVenc
    <3>1. \/ epoch' = epoch + 1 /\ base' = epoch + 1 /\ Codec!Offered(<<>>, <<>>, epoch + 1)
          \/ epoch' = epoch /\ base' = base /\ Codec!Offered(pending, held, epoch)
      BY <2>3 DEF Codec!ProcessInputVenc
    <3>2. CASE epoch' = epoch + 1 /\ base' = epoch + 1 /\ Codec!Offered(<<>>, <<>>, epoch + 1)
      <4>1. epoch + 1 \in Nat /\ epoch + 1 <= epoch + 1
        BY <1>2
      <4>2. <<>> \in Seq(FramesOf(epoch + 1, epoch + 1))
        BY <1>0
      <4>3. /\ pending' \in Seq(FramesOf(epoch + 1, epoch + 1)) /\ held' \in Seq(FramesOf(epoch + 1, epoch + 1))
            /\ ~collect' => pending' = <<>>
        BY <1>1, <3>2, <4>1, <4>2, OfferedFrames
      <4> QED
        BY <3>2, <4>3
    <3>3. CASE epoch' = epoch /\ base' = base /\ Codec!Offered(pending, held, epoch)
      BY <1>1, <1>2, <3>3, OfferedFrames
    <3> QED
      BY <3>1, <3>2, <3>3
  <2> QED
    BY <2>1, <2>2, <2>3 DEF Codec!ProcessInput
<1> QED
  BY <1>3, <1>4 DEF CodecIInv, CodecFrames, CodecHolds

\* The rest of the chain functions.
LEMMA CodecChainInv ==
  ASSUME CodecIInv, Codec!ChainStep
  PROVE  CodecIInv'
<1> USE DEF CodecIInv, CodecHolds, CodecFrames
<1> USE DEF Codec!element, Codec!dmo, Codec!watch, Codec!app, Codec!Finish, Codec!eras
<1>1. CASE Codec!AllocBuffer
  BY <1>1 DEF Codec!AllocBuffer
<1>2. CASE Codec!AllocFails
  BY <1>2 DEF Codec!AllocFails
<1>3. ASSUME NEW got, NEW more, Codec!Output(got, more), pc = "drain",
             pc' # "drain" => pc' = "idle" /\ cut' = (pending' # <<>>),
             UNCHANGED <<kind, state, setups, ctx, codecs, held, epoch, base>>
      PROVE  CodecIInv'
  <2>1. pending' \in Seq(FramesOf(base, epoch))
    BY <1>3, OutputFrames
  <2> QED
    BY <1>3, <2>1
<1>4. CASE Codec!PushAdec
  BY <1>3, <1>4 DEF Codec!PushAdec, Codec!PushAudio
<1>5. CASE Codec!PushAenc
  BY <1>3, <1>5 DEF Codec!PushAenc, Codec!PushAudio
<1>6. CASE Codec!PushVenc
  BY <1>3, <1>6 DEF Codec!PushVenc
<1>7. CASE Codec!PushVencNoBuffer
  BY <1>3, <1>7 DEF Codec!PushVencNoBuffer
<1> QED
  BY <1>1, <1>2, <1>4, <1>5, <1>6, <1>7 DEF Codec!ChainStep

\* An element stays of its kind.
LEMMA CodecKind == Codec!Next => kind' = kind
BY DEF Codec!Next, Codec!StateChange, Codec!Negotiate, Codec!Event, Codec!ProcessInput, Codec!ChainStep,
       Codec!NullToReady, Codec!ReadyToPaused, Codec!PausedToReady, Codec!ReadyToNull, Codec!SetCapsAdec,
       Codec!SetCapsAenc, Codec!SetCapsVenc, Codec!FlushStart, Codec!FlushStop, Codec!FlushStopEncoder,
       Codec!ProcessInputAdec, Codec!ProcessInputAenc, Codec!ProcessInputVenc, Codec!AllocBuffer,
       Codec!AllocFails, Codec!PushAdec, Codec!PushAenc, Codec!PushAudio, Codec!PushVenc,
       Codec!PushVencNoBuffer, Codec!app

\* Every step of these elements keeps their invariant.
LEMMA CodecNextInv == CodecIInv /\ Codec!Next => CodecIInv'
BY CodecLifeInv, CodecInputInv, CodecChainInv DEF Codec!Next

\* A new element of these kinds has it.
LEMMA CodecInitInv == Codec!Init => CodecIInv
BY NoFramesOf DEF Codec!Init, CodecIInv, CodecFrames, CodecHolds

-----------------------------------------------------------------------------
(* The marks of the video encoder *)

\* Until a buffer is pushed that the DMO made since it began anew, and while an offset is skipped, the mark is due.
MarkDue ==
  /\ jump > 0 => discont
  /\ pending # <<>> => padCaps # None
  /\ padCaps # None => last.epoch \in base..epoch \/ discont

\* What the element expects is where the last input ended.
EndExpected ==
  /\ ~lost
  /\ end # None => end \in Nat /\ expected = end % ClockMod

VencIInv == EndExpected /\ (kind = "venc" => MarkDue)

\* What DiscontMarked says of one step.
Marked ==
  last' # last /\ (last.epoch = None \/ last.epoch < base \/ last'.jump > 0) => last'.flag

\* A new video encoder owes no mark.
LEMMA VencInitInv == Codec!Init => VencIInv
BY DEF Codec!Init, VencIInv, MarkDue, EndExpected

\* Only a gap flushes, and an input that begins where the last one ended makes none.
LEMMA WatchedEnd ==
  ASSUME EndExpected, NEW ts \in Times \cup {Codec!NoTime}, NEW dur \in {1, Codec!NoTime}, Codec!Watch(ts, dur)
  PROVE  EndExpected'
<1> USE ClockAssumption
<1>1. ts \in 0..ClockMod - 1 /\ dur \in Nat
  BY DEF Codec!NoTime
<1>2. ~(Codec!Gap(ts) /\ ts = end)
  <2>1. SUFFICES ASSUME ts = end, ts # expected PROVE FALSE
    BY DEF Codec!Gap
  <2>2. end # None
    BY <1>1, <2>1, CapsAssumption
  <2>3. expected = ts % ClockMod
    BY <2>1, <2>2 DEF EndExpected
  <2>4. ts % ClockMod = ts
    BY <1>1
  <2> QED
    BY <2>1, <2>3, <2>4
<1>3. ~lost'
  BY <1>2 DEF EndExpected, Codec!Watch
<1>4. end' # None => end' = ts + dur /\ expected' = (ts + dur) % ClockMod
  BY DEF Codec!Watch, Codec!InputEnd, Codec!Sum
<1>5. ts + dur \in Nat
  BY <1>1
<1> QED
  BY <1>3, <1>4, <1>5 DEF EndExpected

\* An input makes a mark due when it makes a gap.
LEMMA MarksOnInput ==
  ASSUME MarkDue, CodecIInv, Codec!ProcessInputVenc
  PROVE  MarkDue'
<1>1. PICK ts \in Times \cup {Codec!NoTime}, dur \in {1, Codec!NoTime} :
        /\ Codec!Watch(ts, dur)
        /\ \/ Codec!Gap(ts)
           \/ ~Codec!Gap(ts) /\ UNCHANGED <<epoch, base>>
  BY DEF Codec!ProcessInputVenc, Codec!eras
<1>2. padCaps # None /\ UNCHANGED <<padCaps, last>>
  BY DEF Codec!ProcessInputVenc, Codec!Arrives, Codec!element
<1>3. CASE Codec!Gap(ts)
  <2>1. discont'
    BY <1>1, <1>3 DEF Codec!Watch
  <2> QED
    BY <1>2, <2>1 DEF MarkDue
<1>4. CASE ~Codec!Gap(ts)
  <2>1. jump' = jump /\ UNCHANGED <<epoch, base>> /\ (discont => discont')
    BY <1>1, <1>4 DEF Codec!Watch
  <2> QED
    BY <1>2, <2>1 DEF MarkDue
<1> QED
  BY <1>3, <1>4

\* A pushed buffer has the mark that was due.
LEMMA MarkOnPush ==
  ASSUME MarkDue, CodecIInv, NEW got \in {0, 1}, NEW more, Codec!Output(got, more), Codec!Push(got),
         UNCHANGED <<padCaps, epoch, base>>
  PROVE  MarkDue' /\ Marked
<1>1. CASE got = 1
  <2>1. pending # <<>> /\ last' = [epoch |-> Head(pending).epoch, jump |-> jump, flag |-> discont]
        /\ jump' = 0 /\ discont' = FALSE
    BY <1>1 DEF Codec!Output, Codec!Push
  <2>2. Head(pending) \in FramesOf(base, epoch)
    BY <2>1, HeadTailProperties DEF CodecIInv, CodecFrames
  <2>3. Head(pending).epoch \in base..epoch
    BY <2>2 DEF FramesOf
  <2>4. last'.epoch \in base..epoch /\ last'.jump = jump /\ last'.flag = discont
    BY <2>1, <2>3
  <2>5. padCaps # None /\ (last.epoch \in base..epoch \/ discont) /\ (jump > 0 => discont)
    BY <2>1 DEF MarkDue
  <2>6. MarkDue'
    BY <2>1, <2>4, <2>5 DEF MarkDue
  <2>7. Marked
    <3>1. base \in Nat /\ None \notin Nat
      BY CapsAssumption DEF CodecIInv, CodecFrames
    <3> QED
      BY <2>4, <2>5, <3>1 DEF Marked
  <2> QED
    BY <2>6, <2>7
<1>2. CASE got # 1
  <2>1. UNCHANGED <<last, jump, discont, pending>>
    BY <1>2 DEF Codec!Output, Codec!Push
  <2>2. MarkDue'
    BY <2>1 DEF MarkDue
  <2>3. Marked
    BY <2>1 DEF Marked
  <2> QED
    BY <2>2, <2>3
<1> QED
  BY <1>1, <1>2

\* Every step keeps what is due, and pushes no buffer without its mark.
LEMMA VencNextInv == CodecIInv /\ VencIInv /\ Codec!Next => VencIInv' /\ Marked
<1> SUFFICES ASSUME CodecIInv, VencIInv, Codec!Next PROVE VencIInv' /\ Marked
  OBVIOUS
<1> USE DEF VencIInv
<1>k. kind' = kind
  BY CodecKind
<1> USE DEF Codec!element, Codec!dmo, Codec!chain, Codec!watch, Codec!app, Codec!eras
\* Steps that are not the video encoder's change none of this.
<1>o. ASSUME UNCHANGED <<last, end, lost, expected>>,
             kind = "venc" => /\ discont => discont'
                              /\ jump' = jump
                              /\ pending' # <<>> => padCaps' # None
                              /\ padCaps' # None => (last.epoch \in base'..epoch' \/ discont')
      PROVE  VencIInv' /\ Marked
  BY <1>k, <1>o DEF MarkDue, EndExpected, Marked
<1>1. CASE Codec!NullToReady
  BY <1>1, <1>o DEF Codec!NullToReady, MarkDue
<1>2. CASE Codec!ReadyToPaused
  BY <1>2, <1>o DEF Codec!ReadyToPaused, MarkDue
<1>3. CASE Codec!PausedToReady
  BY <1>3, <1>o DEF Codec!PausedToReady, Codec!Destroyed, MarkDue
<1>4. CASE Codec!ReadyToNull
  BY <1>4, <1>o DEF Codec!ReadyToNull, MarkDue
<1>5. CASE Codec!SetCapsAdec
  BY <1>5, <1>o DEF Codec!SetCapsAdec
<1>6. CASE Codec!SetCapsAenc
  BY <1>6, <1>o DEF Codec!SetCapsAenc
<1>7. CASE Codec!SetCapsVenc
  <2>1. PICK accepted \in BOOLEAN : Codec!Renegotiated(accepted) /\ discont' = (discont \/ accepted)
    BY <1>7 DEF Codec!SetCapsVenc
  <2>2. pending' = <<>> /\ UNCHANGED <<last, end, lost, expected, jump>>
    BY <1>7, <2>1 DEF Codec!SetCapsVenc, Codec!Renegotiated, Codec!Destroyed, Codec!Opened
  <2>3. ~accepted => UNCHANGED <<padCaps, epoch, base>>
    BY <2>1 DEF Codec!Renegotiated
  <2>4. (discont => discont') /\ (accepted => discont')
    BY <2>1
  <2> QED
    BY <2>2, <2>3, <2>4, <1>o DEF MarkDue
<1>8. CASE Codec!FlushStart
  BY <1>8, <1>o DEF Codec!FlushStart, MarkDue
<1>9. CASE Codec!FlushStop
  BY <1>9, <1>o DEF Codec!FlushStop
<1>10. CASE Codec!FlushStopEncoder
  <2>1. epoch' = epoch + 1 /\ UNCHANGED <<padCaps, pending, discont, jump, last, end, lost, expected, base>>
    BY <1>10 DEF Codec!FlushStopEncoder
  <2>2. last.epoch \in base..epoch => last.epoch \in base..(epoch + 1)
    BY DEF CodecIInv, CodecFrames
  <2> QED
    BY <2>1, <2>2, <1>o DEF MarkDue
<1>11. CASE Codec!ProcessInputAdec
  BY <1>11, <1>o DEF Codec!ProcessInputAdec
<1>12. CASE Codec!ProcessInputAenc
  BY <1>12, <1>o DEF Codec!ProcessInputAenc
<1>13. CASE Codec!ProcessInputVenc
  <2>1. EndExpected'
    BY <1>13, WatchedEnd DEF Codec!ProcessInputVenc
  <2>2. MarkDue'
    BY <1>13, MarksOnInput DEF Codec!ProcessInputVenc
  <2>3. Marked
    BY <1>13 DEF Codec!ProcessInputVenc, Marked
  <2> QED
    BY <2>1, <2>2, <2>3
<1>14. CASE Codec!AllocBuffer
  BY <1>14, <1>o DEF Codec!AllocBuffer, MarkDue
<1>15. CASE Codec!AllocFails
  BY <1>15, <1>o DEF Codec!AllocFails, MarkDue
<1>16. CASE Codec!PushAdec
  BY <1>16, <1>o DEF Codec!PushAdec, Codec!PushAudio
<1>17. CASE Codec!PushAenc
  BY <1>17, <1>o DEF Codec!PushAenc, Codec!PushAudio
<1>18. CASE Codec!PushVenc
  <2>1. MarkDue' /\ Marked
    BY <1>18, MarkOnPush DEF Codec!PushVenc
  <2> QED
    BY <1>18, <2>1 DEF Codec!PushVenc, EndExpected
<1>19. CASE Codec!PushVencNoBuffer
  <2>1. MarkDue' /\ Marked
    BY <1>19, MarkOnPush DEF Codec!PushVencNoBuffer
  <2> QED
    BY <1>19, <2>1 DEF Codec!PushVencNoBuffer, EndExpected
<1> QED
  BY <1>1, <1>2, <1>3, <1>4, <1>5, <1>6, <1>7, <1>8, <1>9, <1>10, <1>11, <1>12, <1>13, <1>14, <1>15, <1>16,
     <1>17, <1>18, <1>19
  DEF Codec!Next, Codec!StateChange, Codec!Negotiate, Codec!Event, Codec!ProcessInput, Codec!ChainStep

-----------------------------------------------------------------------------
(* The DirectShow video decoder *)

\* The codec is held in PAUSED only, with one codec count.
DshowHolds ==
  /\ setups \in Nat /\ codecs \in Nat
  /\ state \in {"NULL", "READY", "PAUSED"}
  /\ state \in {"READY", "PAUSED"} => setups > 0
  /\ Dshow!CodecHeld

\* With the caps that were accepted last comes a codec that runs, if none were refused
\* since; and a chain call has such caps.
DshowServes ==
  /\ pc \in {"idle", "alloc", "crashed"}
  /\ padCaps # None /\ ~refused => ctx # None /\ started
  /\ pAllocator \in {"null", "live", "freed"}
  /\ pc = "alloc" => padCaps # None
  /\ pc # "idle" => state = "PAUSED"
  /\ Dshow!UsableUnlessRefused

DshowIInv == DshowHolds /\ DshowServes

\* A new DirectShow element has its invariant.
LEMMA DshowInitInv == Dshow!Init => DshowIInv
BY DEF Dshow!Init, DshowIInv, DshowHolds, DshowServes, Dshow!CodecHeld, Dshow!UsableUnlessRefused

\* Every step of it keeps that.
LEMMA DshowNextInv == DshowIInv /\ Dshow!Next => DshowIInv'
<1> SUFFICES ASSUME DshowIInv, Dshow!Next PROVE DshowIInv'
  OBVIOUS
<1> USE CapsAssumption
<1> USE DEF DshowIInv, DshowHolds, DshowServes, Dshow!CodecHeld, Dshow!UsableUnlessRefused
<1> USE DEF Dshow!app, Dshow!element, Dshow!Serialised
<1>1. CASE Dshow!NullToReady
  BY <1>1 DEF Dshow!NullToReady
<1>2. CASE Dshow!ReadyToPaused
  BY <1>2 DEF Dshow!ReadyToPaused
<1>3. CASE Dshow!PausedToReady
  BY <1>3 DEF Dshow!PausedToReady, Dshow!Destroyed
<1>4. CASE Dshow!ReadyToNull
  BY <1>4 DEF Dshow!ReadyToNull
<1>5. CASE Dshow!SetCapsFails
  BY <1>5 DEF Dshow!SetCapsFails, Dshow!Destroyed
<1>6. ASSUME NEW c \in Caps, Dshow!SetCapsNotNegotiated(c) PROVE DshowIInv'
  BY <1>6 DEF Dshow!SetCapsNotNegotiated, Dshow!Opened, Dshow!Notified
<1>7. ASSUME NEW c \in Caps, Dshow!SetCaps(c) PROVE DshowIInv'
  BY <1>7 DEF Dshow!SetCaps, Dshow!Opened, Dshow!AfterSetDestFmt, Dshow!Disconnected, Dshow!Notified
<1>8. CASE Dshow!Chain
  BY <1>8 DEF Dshow!Chain
<1>9. CASE Dshow!AllocFails
  BY <1>9 DEF Dshow!AllocFails
<1>10. CASE Dshow!DecodeAndPush
  BY <1>10 DEF Dshow!DecodeAndPush
<1>11. CASE Dshow!FlushStart
  BY <1>11 DEF Dshow!FlushStart
<1>12. CASE Dshow!FlushStop
  BY <1>12 DEF Dshow!FlushStop
<1> QED
  BY <1>1, <1>2, <1>3, <1>4, <1>5, <1>6, <1>7, <1>8, <1>9, <1>10, <1>11, <1>12 DEF Dshow!Next

-----------------------------------------------------------------------------
(* The QuickTime audio decoder *)

\* What divides what: all whole frames leave less than a frame.
LEMMA WholeFrames ==
  ASSUME NEW a \in Nat, NEW b \in Nat \ {0}
  PROVE  (a \div b) * b \in 0..a
OBVIOUS

\* The converter is held in PAUSED only, with the library and the segment.
QtHolds ==
  /\ setups \in Nat
  /\ state \in {"NULL", "READY", "PAUSED"}
  /\ state \in {"READY", "PAUSED"} => setups > 0 /\ dll
  /\ Qt!ConverterHeld

\* Between chain calls no buffer is at work, and in one the cache is empty.
QtBytes ==
  /\ size \in Nat /\ cache \in Nat /\ owed \in Nat /\ in_framesize \in Nat
  /\ pc \in {"idle", "loop", "convert", "keep", "crashed"}
  /\ pc = "idle" => size = 0
  /\ pc \in {"loop", "convert", "keep"} => cache = 0
  /\ Qt!BytesAccounted

\* The caps that were accepted last have a converter, if none were refused since.
QtServes ==
  /\ padCaps # None /\ ~refused => ctx = "begun" /\ in_framesize # 0
  /\ pc \in {"loop", "convert"} => padCaps # None
  /\ pc = "convert" => in_framesize # 0
  /\ pc # "idle" => state = "PAUSED"
  /\ Qt!UsableUnlessRefused

QtIInv == QtHolds /\ QtBytes /\ QtServes

\* A new QuickTime element has its invariant.
LEMMA QtInitInv == Qt!Init => QtIInv
BY DEF Qt!Init, QtIInv, QtHolds, QtBytes, QtServes, Qt!ConverterHeld, Qt!BytesAccounted, Qt!UsableUnlessRefused

\* Every step of it keeps that: what is converted leaves both the buffer and what is owed.
LEMMA QtNextInv == QtIInv /\ Qt!Next => QtIInv'
<1> SUFFICES ASSUME QtIInv, Qt!Next PROVE QtIInv'
  OBVIOUS
<1> USE DEF QtIInv, QtHolds, QtBytes, QtServes, Qt!ConverterHeld, Qt!BytesAccounted, Qt!UsableUnlessRefused
<1> USE DEF Qt!app, Qt!converter, Qt!chain, Qt!Serialised
<1>1. CASE Qt!NullToReadyFails
  BY <1>1 DEF Qt!NullToReadyFails
<1>2. CASE Qt!NullToReady
  BY <1>2 DEF Qt!NullToReady
<1>3. CASE Qt!ReadyToPaused
  BY <1>3 DEF Qt!ReadyToPaused
<1>4. CASE Qt!PausedToReady
  BY <1>4 DEF Qt!PausedToReady
<1>5. CASE Qt!ReadyToNull
  BY <1>5 DEF Qt!ReadyToNull
<1>6. CASE Qt!SetCapsFails
  BY <1>6 DEF Qt!SetCapsFails
<1>7. CASE Qt!SetCaps
  BY <1>7, FramesAssumption DEF Qt!SetCaps
<1>8. CASE Qt!Chain
  BY <1>8, FramesAssumption DEF Qt!Chain
<1>9. CASE Qt!Divide
  BY <1>9 DEF Qt!Divide
<1>10. CASE Qt!Beach
  BY <1>10 DEF Qt!Beach
<1>11. CASE Qt!ConvertAndPush
  <2>1. CASE ctx = "begun"
    <3> DEFINE whole == (size \div in_framesize) * in_framesize
    <3>1. whole \in 0..size
      BY <1>11, WholeFrames DEF Qt!ConvertAndPush
    <3>2. size' = size - whole /\ owed' = owed - whole /\ pc' = "loop"
      BY <1>11, <2>1 DEF Qt!ConvertAndPush
    <3>3. pc = "convert" /\ UNCHANGED <<state, setups, dll, ctx, in_framesize, padCaps, cache, refused>>
      BY <1>11 DEF Qt!ConvertAndPush
    <3> HIDE DEF whole
    <3> QED
      BY <3>1, <3>2, <3>3
  <2>2. CASE ctx # "begun"
    BY <1>11, <2>2 DEF Qt!ConvertAndPush
  <2> QED
    BY <2>1, <2>2
<1>12. CASE Qt!Keep
  BY <1>12 DEF Qt!Keep
<1>13. CASE Qt!Flush
  BY <1>13 DEF Qt!Flush
<1> QED
  BY <1>1, <1>2, <1>3, <1>4, <1>5, <1>6, <1>7, <1>8, <1>9, <1>10, <1>11, <1>12, <1>13 DEF Qt!Next

-----------------------------------------------------------------------------
(* The DirectShow audio decoder *)

Frame == [id : Nat, length : Nat]

AudioTypes ==
  /\ call \in {"closed", "idle", "receive", "crashed"}
  /\ acked \in 0..MaxBlocks /\ produced \in Nat
  /\ fed \in [1..MaxBlocks -> Nat] /\ refusals \in [1..MaxBlocks -> Nat]
  /\ frame \in Frame \cup {None}
  /\ sample \in [size : Nat, actual : Nat, block : Nat]

\* A frame and a block are in the codec's hands in a call only.
AudioCall ==
  /\ call = "receive" => acked < MaxBlocks
  /\ frame # None => call = "receive"

BlocksFed ==
  \A b \in 1..MaxBlocks :
    fed[b] = refusals[b] + (IF b <= acked \/ (b = acked + 1 /\ call = "receive") THEN 1 ELSE 0)

FrameIds == {f.id : f \in given}

FramesKept ==
  /\ 1..produced = FrameIds \cup dropped \cup Audio!Current
  /\ FrameIds \cap dropped = {} /\ Audio!Current \cap (FrameIds \cup dropped) = {}

\* What the codec set of the sample's length is within its size.
SampleFits ==
  /\ sample.size <= sample.block /\ sample.actual <= sample.size
  /\ frame # None => frame.length <= sample.block

AudioIInv == AudioTypes /\ AudioCall /\ BlocksFed /\ FramesKept /\ SampleFits

\* It says what BlocksAccounted says.
LEMMA AudioGoal == AudioIInv => Audio!BlocksAccounted
BY DEF AudioIInv, BlocksFed, FramesKept, FrameIds, SampleFits, Audio!BlocksAccounted

\* A decoder that was never opened has it.
LEMMA AudioInitInv == Audio!Init => AudioIInv
<1> SUFFICES ASSUME Audio!Init PROVE AudioIInv
  OBVIOUS
<1> USE FramesAssumption DEF Audio!Init
<1>1. AudioTypes
  BY DEF AudioTypes, Audio!Sample, Audio!None0
<1>2. AudioCall
  BY DEF AudioCall
<1>3. BlocksFed
  BY DEF BlocksFed, Audio!None0
<1>4. FramesKept
  BY DEF FramesKept, FrameIds, Audio!Current
<1>5. SampleFits
  BY DEF SampleFits, Audio!Sample
<1> QED
  BY <1>1, <1>2, <1>3, <1>4, <1>5 DEF AudioIInv

\* A step that neither feeds nor counts a block keeps what was fed.
LEMMA SameBlocks ==
  ASSUME BlocksFed, UNCHANGED <<fed, refusals, acked>>, call' = "receive" <=> call = "receive"
  PROVE  BlocksFed'
BY DEF BlocksFed

\* A step that delivers no frame keeps the frames.
LEMMA SameFrames ==
  ASSUME FramesKept, UNCHANGED <<produced, given, dropped, frame>>
  PROVE  FramesKept'
BY DEF FramesKept, FrameIds, Audio!Current

\* Every step keeps it: a block is fed where it will be counted or refused.
LEMMA AudioNextInv == AudioIInv /\ Audio!AudioNext => AudioIInv'
<1> SUFFICES ASSUME AudioIInv, Audio!AudioNext PROVE AudioIInv'
  OBVIOUS
<1> USE FramesAssumption
<1> USE DEF Audio!histories
<1>0. AudioTypes /\ AudioCall /\ BlocksFed /\ FramesKept /\ SampleFits
  BY DEF AudioIInv
<1>1. ASSUME NEW a \in Aligns, Audio!Open(a) PROVE AudioIInv'
  <2>1. /\ call = "closed" /\ call' = "idle" /\ frame' = None /\ frame = None
        /\ sample' = [size |-> 1, actual |-> 0, block |-> 1]
        /\ UNCHANGED <<acked, fed, refusals, produced, given, dropped>>
    BY <1>0, <1>1 DEF Audio!Open, Audio!Sample, AudioCall
  <2>2. AudioTypes' /\ AudioCall' /\ SampleFits'
    BY <1>0, <2>1 DEF AudioTypes, AudioCall, SampleFits
  <2> QED
    BY <1>0, <2>1, <2>2, SameBlocks, SameFrames DEF AudioIInv
<1>2. CASE Audio!Destroy
  <2>1. /\ call = "idle" /\ call' = "closed"
        /\ UNCHANGED <<sample, frame, acked, fed, refusals, produced, given, dropped>>
    BY <1>2 DEF Audio!Destroy
  <2>2. AudioTypes' /\ AudioCall' /\ SampleFits'
    BY <1>0, <2>1 DEF AudioTypes, AudioCall, SampleFits
  <2> QED
    BY <1>0, <2>1, <2>2, SameBlocks, SameFrames DEF AudioIInv
<1>3. ASSUME NEW bytes, NEW r, Audio!Convert(bytes, r) PROVE AudioIInv'
  <2>1. /\ call = "idle" /\ acked < MaxBlocks /\ frame' = None /\ frame = None
        /\ UNCHANGED <<sample, acked, refusals, produced, given, dropped>>
    BY <1>0, <1>3 DEF Audio!Convert, AudioCall
  <2>2. FramesKept' /\ SampleFits'
    BY <1>0, <2>1, SameFrames DEF SampleFits
  <2>3. CASE call' \in {"idle", "crashed"} /\ UNCHANGED fed
    <3>1. AudioTypes' /\ AudioCall'
      BY <1>0, <2>1, <2>3 DEF AudioTypes, AudioCall
    <3> QED
      BY <1>0, <2>1, <2>2, <2>3, <3>1, SameBlocks DEF AudioIInv
  <2>4. CASE call' = "receive" /\ fed' = [fed EXCEPT ![acked + 1] = @ + 1]
    <3>1. AudioTypes' /\ AudioCall'
      BY <1>0, <2>1, <2>4 DEF AudioTypes, AudioCall
    <3>2. BlocksFed'
      BY <1>0, <2>1, <2>4 DEF AudioTypes, BlocksFed
    <3> QED
      BY <2>2, <3>1, <3>2 DEF AudioIInv
  <2> QED
    BY <1>3, <2>1, <2>3, <2>4 DEF Audio!Convert
<1>4. CASE Audio!Receive
  <2>1. /\ call = "receive" /\ UNCHANGED <<call, acked, fed, refusals, given>>
        /\ produced' = produced + 1 /\ frame' = Audio!Noted(sample')
        /\ dropped' = dropped \cup (IF frame = None THEN {} ELSE {frame.id})
    BY <1>4 DEF Audio!Receive
  <2>2. /\ sample' \in [size : Nat, actual : Nat, block : Nat]
        /\ sample'.size <= sample'.block /\ sample'.actual <= sample'.size
    BY <1>0, <1>4 DEF Audio!Receive, Audio!SetActualDataLength, Audio!Sample, AudioTypes, SampleFits
  <2>3. /\ frame' \in Frame /\ frame'.id = produced + 1 /\ frame'.length <= sample'.block
        /\ frame' # None
    BY <1>0, <2>1, <2>2 DEF Audio!Noted, AudioTypes, Frame
  <2>4. AudioTypes' /\ AudioCall' /\ SampleFits'
    BY <1>0, <2>1, <2>2, <2>3 DEF AudioTypes, AudioCall, SampleFits
  <2>5. FramesKept'
    <3>1. Audio!Current' = {produced + 1} /\ FrameIds' = FrameIds /\ dropped' = dropped \cup Audio!Current
      BY <2>1, <2>3 DEF Audio!Current, FrameIds
    <3>2. 1..(produced + 1) = (1..produced) \cup {produced + 1} /\ produced + 1 \notin 1..produced
      BY <1>0 DEF AudioTypes
    <3> QED
      BY <1>0, <2>1, <3>1, <3>2 DEF FramesKept
  <2> QED
    BY <1>0, <2>1, <2>4, <2>5, SameBlocks DEF AudioIInv
<1>5. ASSUME NEW k \in BOOLEAN, Audio!Keep(k) PROVE AudioIInv'
  <2>1. UNCHANGED <<call, sample, frame, acked, fed, refusals, produced, given, dropped>>
    BY <1>5 DEF Audio!Keep
  <2>2. AudioTypes' /\ AudioCall' /\ SampleFits'
    BY <1>0, <2>1 DEF AudioTypes, AudioCall, SampleFits
  <2> QED
    BY <1>0, <2>1, <2>2, SameBlocks, SameFrames DEF AudioIInv
<1>6. CASE Audio!ReceiveLate
  <2>1. /\ call = "idle" /\ call' \in {"idle", "crashed"}
        /\ UNCHANGED <<sample, frame, acked, fed, refusals, produced, given, dropped>>
    BY <1>6 DEF Audio!ReceiveLate
  <2>2. AudioTypes' /\ AudioCall' /\ SampleFits'
    BY <1>0, <2>1 DEF AudioTypes, AudioCall, SampleFits
  <2> QED
    BY <1>0, <2>1, <2>2, SameBlocks, SameFrames DEF AudioIInv
<1>7. CASE Audio!Returned
  <2>1. /\ call = "receive" /\ call' = "idle" /\ frame' = None /\ acked < MaxBlocks
        /\ UNCHANGED <<sample, fed, produced>>
    BY <1>0, <1>7 DEF Audio!Returned, AudioCall
  <2>2. SampleFits'
    BY <1>0, <2>1 DEF SampleFits
  <2>3. CASE frame = None \/ frame.length <= room
    <3>1. /\ acked' = acked + 1 /\ UNCHANGED <<refusals, dropped>>
          /\ given' = IF frame = None THEN given ELSE given \cup {frame}
      BY <1>7, <2>3 DEF Audio!Returned
    <3>2. AudioTypes' /\ AudioCall'
      BY <1>0, <2>1, <3>1 DEF AudioTypes, AudioCall
    <3>3. BlocksFed'
      BY <1>0, <2>1, <3>1 DEF AudioTypes, BlocksFed
    <3>4. FrameIds' = FrameIds \cup Audio!Current /\ Audio!Current' = {}
      BY <2>1, <3>1 DEF FrameIds, Audio!Current
    <3>5. FramesKept'
      BY <1>0, <2>1, <3>1, <3>4 DEF FramesKept
    <3> QED
      BY <2>2, <3>2, <3>3, <3>5 DEF AudioIInv
  <2>4. CASE ~(frame = None \/ frame.length <= room)
    <3>1. /\ UNCHANGED <<acked, given>> /\ dropped' = dropped \cup {frame.id}
          /\ refusals' = [refusals EXCEPT ![acked + 1] = @ + 1]
      BY <1>7, <2>4 DEF Audio!Returned
    <3>2. AudioTypes' /\ AudioCall'
      BY <1>0, <2>1, <3>1 DEF AudioTypes, AudioCall
    <3>3. BlocksFed'
      BY <1>0, <2>1, <3>1 DEF AudioTypes, BlocksFed
    <3>4. FrameIds' = FrameIds /\ Audio!Current' = {} /\ Audio!Current = {frame.id}
      BY <2>1, <2>4, <3>1 DEF FrameIds, Audio!Current
    <3>5. FramesKept'
      BY <1>0, <2>1, <3>1, <3>4 DEF FramesKept
    <3> QED
      BY <2>2, <3>2, <3>3, <3>5 DEF AudioIInv
  <2> QED
    BY <2>3, <2>4
<1> QED
  BY <1>1, <1>2, <1>3, <1>4, <1>5, <1>6, <1>7 DEF Audio!AudioNext

-----------------------------------------------------------------------------
(* The times of an encoder *)

ClockTime == 0..Clock - 1

\* What fills whole units leaves less than a unit.
LEMMA WholeUnits ==
  ASSUME NEW a \in Nat, NEW b \in Nat \ {0}
  PROVE  /\ a \div b \in Nat /\ (a \div b) * b \in 0..a /\ a - (a \div b) * b \in 0..b - 1
         /\ a \div b # 0 => (a \div b) * b > 0
<1>1. a \div b \in Nat
  OBVIOUS
<1>2. (a \div b) * b \in 0..a /\ a - (a \div b) * b \in 0..b - 1
  OBVIOUS
<1>3. ASSUME NEW q \in Nat, q # 0 PROVE q * b > 0
  BY <1>3
<1> QED
  BY <1>1, <1>2, <1>3

\* The sum of two clock times wraps at most once.
LEMMA ClockSum ==
  ASSUME NEW a \in ClockTime, NEW b \in ClockTime
  PROVE  Pushed!Plus(a, b) = IF a + b < Clock THEN a + b ELSE a + b - Clock
<1> USE ClockAssumption DEF ClockTime
<1>1. CASE a + b < Clock
  BY <1>1 DEF Pushed!Plus
<1>2. CASE a + b >= Clock
  <2>1. a + b - Clock \in 0..Clock - 1
    BY <1>2
  <2> QED
    BY <1>2, <2>1 DEF Pushed!Plus
<1> QED
  BY <1>1, <1>2

\* A sum that is one short stays one short.
LEMMA OneShort ==
  ASSUME NEW x \in ClockTime, NEW d \in ClockTime
  PROVE  /\ Pushed!Plus(x, d) \in ClockTime
         /\ Pushed!Plus(Pushed!Plus(x, d), 1) = Pushed!Plus(Pushed!Plus(x, 1), d)
<1> USE ClockAssumption DEF ClockTime
<1>1. Pushed!Plus(x, d) \in ClockTime
  BY ClockSum
<1>2. 1 \in ClockTime
  OBVIOUS
<1>3. Pushed!Plus(x, 1) \in ClockTime
  BY <1>2, ClockSum
<1> DEFINE p == Pushed!Plus(x, d)  q == Pushed!Plus(x, 1)
<1>4. p = (IF x + d < Clock THEN x + d ELSE x + d - Clock) /\ p \in ClockTime
  BY <1>1, ClockSum
<1>5. q = (IF x + 1 < Clock THEN x + 1 ELSE x + 1 - Clock) /\ q \in ClockTime
  BY <1>2, <1>3, ClockSum
<1> HIDE DEF p, q
<1>6. Pushed!Plus(p, 1) = IF p + 1 < Clock THEN p + 1 ELSE p + 1 - Clock
  BY <1>2, <1>4, ClockSum
<1>7. Pushed!Plus(q, d) = IF q + d < Clock THEN q + d ELSE q + d - Clock
  BY <1>5, ClockSum
<1>8. Pushed!Plus(p, 1) = Pushed!Plus(q, d)
  BY <1>4, <1>5, <1>6, <1>7
<1> QED
  BY <1>4, <1>8 DEF p, q

\* A guess that begins with no duration is one short of the duration of the first input.
LEMMA FirstShort ==
  ASSUME NEW d \in ClockTime
  PROVE  /\ Pushed!Plus(Pushed!NoTime, d) \in ClockTime
         /\ Pushed!Plus(Pushed!Plus(Pushed!NoTime, d), 1) = d
<1> USE ClockAssumption DEF ClockTime
<1>1. Pushed!NoTime \in ClockTime /\ 1 \in ClockTime /\ 0 \in ClockTime /\ Pushed!NoTime + 1 = Clock
  BY DEF Pushed!NoTime
<1>2. Pushed!Plus(Pushed!NoTime, 1) = 0 /\ Pushed!Plus(0, d) = d
  BY <1>1, ClockSum
<1> QED
  BY <1>1, <1>2, OneShort

\* What the DMO knows of a frame; it says that it has the times only when there are whole
\* units of the duration.
KnownFrames == {f \in [told : BOOLEAN, ts : Nat, dur : Nat] : f.told => f.dur \div Unit # 0}

\* The buffer and the history of its inputs begin together; the guess is theirs, but for
\* later buffers of a call, which have no duration.
GuessTypes ==
  /\ loop \in {"idle", "drain"} /\ again \in BOOLEAN
  /\ queue \in Seq(KnownFrames)
  /\ outTimes = None <=> since = None
  /\ outTimes # None => /\ outTimes \in [ts : ClockTime, dur : ClockTime]
                        /\ since \in [first : ClockTime, sum : ClockTime, n : Nat]

GuessIsInputs ==
  outTimes # None =>
    /\ outTimes.ts = since.first
    /\ again => outTimes.dur = 0
    /\ ~again => Pushed!Plus(outTimes.dur, 1) = since.sum

GuessInCall ==
  /\ loop = "drain" => outTimes # None /\ stamp = since.first
  /\ again => loop = "drain"

TimesIInv == GuessTypes /\ GuessIsInputs /\ GuessInCall /\ Pushed!TimesExplained

\* An encoder that has no buffer has it.
LEMMA TimesInitInv == Pushed!Init => TimesIInv
<1> SUFFICES ASSUME Pushed!Init PROVE TimesIInv
  OBVIOUS
<1>1. FALSE \in BOOLEAN /\ <<>> \in Seq(KnownFrames)
  BY EmptySeq
<1>2. GuessTypes
  BY <1>1 DEF Pushed!Init, GuessTypes
<1> QED
  BY <1>2 DEF Pushed!Init, TimesIInv, GuessIsInputs, GuessInCall, Pushed!TimesExplained

\* What the DMO is told of an input is of a known frame.
LEMMA ToldFrames ==
  ASSUME NEW t \in ClockTime, NEW d \in ClockTime, queue \in Seq(KnownFrames),
         queue' \in {queue, Append(queue, Pushed!Told(t, d))}
  PROVE  queue' \in Seq(KnownFrames)
<1>1. t \in Nat /\ d \in Nat
  BY ClockAssumption DEF ClockTime
<1>2. (d \div Unit # 0) \in BOOLEAN
  OBVIOUS
<1>3. Pushed!Told(t, d) \in KnownFrames
  BY <1>1, <1>2 DEF Pushed!Told, KnownFrames
<1> QED
  BY <1>3, AppendProperties

\* An input keeps the guess that of the inputs.
LEMMA InputTimes ==
  ASSUME TimesIInv, NEW t \in ClockTime, NEW d \in ClockTime, Pushed!ProcessInput(t, d)
  PROVE  TimesIInv'
<1> USE ClockAssumption
<1>1. GuessTypes /\ GuessIsInputs /\ GuessInCall
  BY DEF TimesIInv
<1>2. /\ loop = "idle" /\ loop' \in {"idle", "drain"} /\ again' = FALSE /\ pushed' = None
      /\ outTimes' = Pushed!Guessed(t, d) /\ stamp' = outTimes'.ts
      /\ since' = IF outTimes = None THEN [first |-> t, sum |-> d, n |-> 1]
                  ELSE [since EXCEPT !.sum = Pushed!Plus(@, d), !.n = @ + 1]
  BY DEF Pushed!ProcessInput
<1>3. queue' \in Seq(KnownFrames)
  BY <1>1, ToldFrames DEF Pushed!ProcessInput, GuessTypes
<1>4. /\ outTimes' \in [ts : ClockTime, dur : ClockTime]
      /\ since' \in [first : ClockTime, sum : ClockTime, n : Nat]
      /\ outTimes'.ts = since'.first /\ Pushed!Plus(outTimes'.dur, 1) = since'.sum
  <2>1. CASE outTimes = None
    <3>1. outTimes' = [ts |-> t, dur |-> Pushed!Plus(Pushed!NoTime, d)] /\ since' = [first |-> t, sum |-> d, n |-> 1]
      BY <1>2, <2>1 DEF Pushed!Guessed, Pushed!TimesOf
    <3> QED
      BY <3>1, FirstShort
  <2>2. CASE outTimes # None
    <3>1. /\ outTimes' = [outTimes EXCEPT !.dur = Pushed!Plus(outTimes.dur, d)]
          /\ since' = [since EXCEPT !.sum = Pushed!Plus(since.sum, d), !.n = since.n + 1]
      BY <1>2, <2>2 DEF Pushed!Guessed
    <3>2. /\ outTimes.ts = since.first /\ Pushed!Plus(outTimes.dur, 1) = since.sum
          /\ outTimes \in [ts : ClockTime, dur : ClockTime]
          /\ since \in [first : ClockTime, sum : ClockTime, n : Nat]
      BY <1>1, <1>2, <2>2 DEF GuessTypes, GuessIsInputs, GuessInCall
    <3>3. /\ Pushed!Plus(outTimes.dur, d) \in ClockTime /\ Pushed!Plus(since.sum, d) \in ClockTime
          /\ Pushed!Plus(Pushed!Plus(outTimes.dur, d), 1) = Pushed!Plus(since.sum, d)
      BY <3>2, OneShort
    <3> DEFINE long == Pushed!Plus(outTimes.dur, d)
               total == Pushed!Plus(since.sum, d)
    <3>4. long \in ClockTime /\ total \in ClockTime /\ Pushed!Plus(long, 1) = total
      BY <3>3
    <3>5. outTimes' = [outTimes EXCEPT !.dur = long] /\ since' = [since EXCEPT !.sum = total, !.n = since.n + 1]
      BY <3>1
    <3> HIDE DEF long, total
    <3>6. /\ outTimes' \in [ts : ClockTime, dur : ClockTime] /\ outTimes'.ts = outTimes.ts /\ outTimes'.dur = long
      BY <3>2, <3>4, <3>5
    <3>7. /\ since' \in [first : ClockTime, sum : ClockTime, n : Nat]
          /\ since'.first = since.first /\ since'.sum = total
      <4>1. PICK s : s = [since EXCEPT !.sum = total]
        OBVIOUS
      <4>2. since' = [s EXCEPT !.n = since.n + 1]
        BY <3>5, <4>1
      <4>3. s \in [first : ClockTime, sum : ClockTime, n : Nat] /\ s.first = since.first /\ s.sum = total
        BY <3>2, <3>4, <4>1
      <4> QED
        BY <3>2, <4>2, <4>3
    <3> QED
      BY <3>2, <3>4, <3>6, <3>7
  <2> QED
    BY <2>1, <2>2
<1>5. outTimes' # None /\ since' # None
  <2>1. ClockTime \subseteq Nat
    BY DEF ClockTime
  <2> QED
    BY <1>4, <2>1
<1>6. FALSE \in BOOLEAN
  OBVIOUS
<1>7. GuessTypes'
  BY <1>2, <1>3, <1>4, <1>5, <1>6 DEF GuessTypes
<1>8. GuessIsInputs' /\ GuessInCall'
  BY <1>2, <1>4, <1>5 DEF GuessIsInputs, GuessInCall
<1>9. Pushed!TimesExplained'
  BY <1>2 DEF Pushed!TimesExplained
<1> QED
  BY <1>7, <1>8, <1>9 DEF TimesIInv

\* A push has the frame's times or the guess.
LEMMA PushTimes ==
  ASSUME TimesIInv, NEW more \in BOOLEAN, Pushed!Push(more)
  PROVE  TimesIInv'
<1> USE ClockAssumption
<1>1. GuessTypes /\ GuessIsInputs /\ GuessInCall /\ Pushed!TimesExplained
  BY DEF TimesIInv
<1>2. /\ loop = "drain" /\ stamp' = stamp /\ outTimes # None /\ stamp = since.first /\ since # None
      /\ outTimes \in [ts : ClockTime, dur : ClockTime]
      /\ since \in [first : ClockTime, sum : ClockTime, n : Nat]
  BY <1>1 DEF Pushed!Push, GuessTypes, GuessInCall
<1>3. queue' \in Seq(KnownFrames)
  <2>1. queue \in Seq(KnownFrames) /\ (queue # <<>> => Tail(queue) \in Seq(KnownFrames))
    BY <1>1, HeadTailProperties DEF GuessTypes
  <2>2. queue' # queue => queue # <<>> /\ queue' = Tail(queue)
    BY DEF Pushed!Push
  <2> QED
    BY <2>1, <2>2
<1>4. GuessTypes' /\ GuessIsInputs' /\ GuessInCall'
  <2>1. CASE more
    <3>1. outTimes' = [ts |-> stamp, dur |-> 0] /\ again' = TRUE /\ UNCHANGED <<loop, since>>
      BY <2>1 DEF Pushed!Push, Pushed!TimesOf
    <3>2. outTimes' \in [ts : ClockTime, dur : ClockTime] /\ TRUE \in BOOLEAN /\ 0 \in ClockTime
      BY <1>2, <3>1 DEF ClockTime
    <3>3. outTimes' # None
      BY <3>2 DEF ClockTime
    <3> QED
      BY <1>1, <1>2, <1>3, <3>1, <3>2, <3>3 DEF GuessTypes, GuessIsInputs, GuessInCall
  <2>2. CASE ~more
    <3>1. outTimes' = None /\ again' = FALSE /\ loop' = "idle" /\ since' = None
      BY <2>2 DEF Pushed!Push
    <3>2. FALSE \in BOOLEAN
      OBVIOUS
    <3> QED
      BY <1>3, <3>1, <3>2 DEF GuessTypes, GuessIsInputs, GuessInCall
  <2> QED
    BY <2>1, <2>2
<1>5. Pushed!TimesExplained'
  <2>1. CASE UNCHANGED pushed
    BY <1>1, <2>1 DEF Pushed!TimesExplained
  <2>2. CASE ~UNCHANGED pushed
    <3>1. queue # <<>>
      BY <2>2 DEF Pushed!Push
    <3>2. PICK set \in IF Head(queue).told THEN BOOLEAN ELSE {FALSE} :
            pushed' = [frame |-> Head(queue), set |-> set, again |-> again, since |-> since,
                       times |-> IF set THEN Pushed!Stamped(Head(queue)) ELSE outTimes]
      BY <2>2 DEF Pushed!Push
    <3>3. Head(queue) \in KnownFrames
      BY <1>1, <3>1, HeadTailProperties DEF GuessTypes
    <3> DEFINE f == Head(queue)
    <3>4. f.ts \in Nat /\ f.dur \in Nat /\ (set => f.dur \div Unit # 0)
      BY <3>2, <3>3 DEF KnownFrames
    <3> HIDE DEF f
    <3>5. CASE set
      <4>1. /\ pushed'.set /\ pushed'.frame = f /\ pushed'.times.ts = (f.ts \div Unit) * Unit
            /\ pushed'.times.dur = (f.dur \div Unit) * Unit
        BY <3>2, <3>5 DEF f, Pushed!Stamped, Pushed!TimesOf
      <4>2. /\ f.ts - pushed'.times.ts \in 0..Unit - 1
            /\ f.dur - pushed'.times.dur \in 0..Unit - 1 /\ pushed'.times.dur > 0
        BY <3>4, <3>5, <4>1, WholeUnits
      <4> QED
        BY <4>1, <4>2 DEF Pushed!TimesExplained
    <3>6. CASE ~set
      <4>1. ~pushed'.set /\ pushed'.times = outTimes /\ pushed'.since = since /\ pushed'.again = again
        BY <3>2, <3>6
      <4>2. /\ outTimes.ts = since.first
            /\ IF again THEN outTimes.dur = 0 ELSE Pushed!Plus(outTimes.dur, 1) = since.sum
        BY <1>1, <1>2 DEF GuessIsInputs
      <4> QED
        BY <4>1, <4>2 DEF Pushed!TimesExplained
    <3> QED
      BY <3>5, <3>6
  <2> QED
    BY <2>1, <2>2
<1> QED
  BY <1>4, <1>5 DEF TimesIInv

\* Every step keeps it.
LEMMA TimesNextInv == TimesIInv /\ Pushed!TimesNext => TimesIInv'
<1> SUFFICES ASSUME TimesIInv, Pushed!TimesNext PROVE TimesIInv'
  OBVIOUS
<1> USE DEF TimesIInv, GuessIsInputs, GuessInCall, Pushed!TimesExplained
<1>1. ASSUME NEW t \in Stamps, NEW d \in Spans, Pushed!ProcessInput(t, d) PROVE TimesIInv'
  <2>1. t \in ClockTime /\ d \in ClockTime
    BY ClockAssumption DEF ClockTime
  <2> QED
    BY <1>1, <2>1, InputTimes
<1>2. ASSUME NEW t \in Stamps, NEW d \in Spans, Pushed!AllocFails(t, d) PROVE TimesIInv'
  <2>1. t \in ClockTime /\ d \in ClockTime
    BY ClockAssumption DEF ClockTime
  <2>2. queue' \in Seq(KnownFrames) /\ UNCHANGED <<loop, outTimes, stamp, since, again, pushed>>
    BY <1>2, <2>1, ToldFrames DEF Pushed!AllocFails, GuessTypes
  <2> QED
    BY <2>2 DEF GuessTypes
<1>3. ASSUME NEW more \in BOOLEAN, Pushed!Push(more) PROVE TimesIInv'
  BY <1>3, PushTimes
<1>4. CASE Pushed!Restart
  <2>1. queue' = <<>> /\ <<>> \in Seq(KnownFrames) /\ UNCHANGED <<loop, outTimes, stamp, since, again, pushed>>
    BY <1>4, EmptySeq DEF Pushed!Restart
  <2> QED
    BY <2>1 DEF GuessTypes
<1> QED
  BY <1>1, <1>2, <1>3, <1>4 DEF Pushed!TimesNext

-----------------------------------------------------------------------------
(* The registration of the elements *)

Places == {p \in (1..6) \X (1..5) : p[2] <= Len(Elements!Tables[p[1]].codecs)}
CodecAt(p) == Elements!Tables[p[1]].codecs[p[2]]
NameAt(p) == Elements!Name(p[1], CodecAt(p))

\* The tables, by what makes a name.
LEMMA TablesListed ==
  /\ DOMAIN Elements!Tables = 1..6
  /\ Elements!Tables[1] = Elements!dshow_vdec /\ Elements!Tables[2] = Elements!dmo_vdec
  /\ Elements!Tables[3] = Elements!dmo_venc /\ Elements!Tables[4] = Elements!dmo_adec
  /\ Elements!Tables[5] = Elements!dmo_aenc /\ Elements!Tables[6] = Elements!qt_adec
BY DEF Elements!Tables

\* The table of the DirectShow video decoders.
LEMMA DshowVdecTable ==
  /\ Len(Elements!dshow_vdec.codecs) = 2 /\ DOMAIN Elements!dshow_vdec.codecs = 1..2
  /\ Elements!dshow_vdec.form = "dshowdec_%sv%d"
  /\ Elements!dshow_vdec.codecs[1].dll = "ir50_32" /\ Elements!dshow_vdec.codecs[1].version = 5
  /\ Elements!dshow_vdec.codecs[2].dll = "ir41_32" /\ Elements!dshow_vdec.codecs[2].version = 4
<1>1. Len(Elements!dshow_vdec.codecs) = 2 /\ DOMAIN Elements!dshow_vdec.codecs = 1..2
  BY DEF Elements!dshow_vdec
<1>2. Elements!dshow_vdec.form = "dshowdec_%sv%d"
  BY DEF Elements!dshow_vdec
<1>3. Elements!dshow_vdec.codecs[1].dll = "ir50_32" /\ Elements!dshow_vdec.codecs[1].version = 5
  BY DEF Elements!dshow_vdec, Elements!Codec
<1>4. Elements!dshow_vdec.codecs[2].dll = "ir41_32" /\ Elements!dshow_vdec.codecs[2].version = 4
  BY DEF Elements!dshow_vdec, Elements!Codec
<1> QED
  BY <1>1, <1>2, <1>3, <1>4

\* The table of the DMO video decoders.
LEMMA DmoVdecTable ==
  /\ Len(Elements!dmo_vdec.codecs) = 5 /\ DOMAIN Elements!dmo_vdec.codecs = 1..5
  /\ Elements!dmo_vdec.form = "dmodec_%sv%d"
  /\ Elements!dmo_vdec.codecs[1].dll = "wmv9dmod" /\ Elements!dmo_vdec.codecs[1].version = 3
  /\ Elements!dmo_vdec.codecs[2].dll = "wmvdmod" /\ Elements!dmo_vdec.codecs[2].version = 1
  /\ Elements!dmo_vdec.codecs[3].dll = "wmvdmod" /\ Elements!dmo_vdec.codecs[3].version = 2
  /\ Elements!dmo_vdec.codecs[4].dll = "wmvdmod" /\ Elements!dmo_vdec.codecs[4].version = 3
  /\ Elements!dmo_vdec.codecs[5].dll = "wvc1dmod" /\ Elements!dmo_vdec.codecs[5].version = 3
<1>1. Len(Elements!dmo_vdec.codecs) = 5 /\ DOMAIN Elements!dmo_vdec.codecs = 1..5
  BY DEF Elements!dmo_vdec
<1>2. Elements!dmo_vdec.form = "dmodec_%sv%d"
  BY DEF Elements!dmo_vdec
<1>3. Elements!dmo_vdec.codecs[1].dll = "wmv9dmod" /\ Elements!dmo_vdec.codecs[1].version = 3
  BY DEF Elements!dmo_vdec, Elements!Codec
<1>4. Elements!dmo_vdec.codecs[2].dll = "wmvdmod" /\ Elements!dmo_vdec.codecs[2].version = 1
  BY DEF Elements!dmo_vdec, Elements!Codec
<1>5. Elements!dmo_vdec.codecs[3].dll = "wmvdmod" /\ Elements!dmo_vdec.codecs[3].version = 2
  BY DEF Elements!dmo_vdec, Elements!Codec
<1>6. Elements!dmo_vdec.codecs[4].dll = "wmvdmod" /\ Elements!dmo_vdec.codecs[4].version = 3
  BY DEF Elements!dmo_vdec, Elements!Codec
<1>7. Elements!dmo_vdec.codecs[5].dll = "wvc1dmod" /\ Elements!dmo_vdec.codecs[5].version = 3
  BY DEF Elements!dmo_vdec, Elements!Codec
<1> QED
  BY <1>1, <1>2, <1>3, <1>4, <1>5, <1>6, <1>7

\* The table of the DMO video encoders.
LEMMA DmoVencTable ==
  /\ Len(Elements!dmo_venc.codecs) = 3 /\ DOMAIN Elements!dmo_venc.codecs = 1..3
  /\ Elements!dmo_venc.form = "dmoenc_%sv%d" /\ Elements!dmo_venc.encoder
  /\ Elements!dmo_venc.codecs[1].dll = "wmvdmoe2" /\ Elements!dmo_venc.codecs[1].version = 1
  /\ Elements!dmo_venc.codecs[2].dll = "wmvdmoe2" /\ Elements!dmo_venc.codecs[2].version = 2
  /\ Elements!dmo_venc.codecs[3].dll = "wmvdmoe2" /\ Elements!dmo_venc.codecs[3].version = 3
<1>1. Len(Elements!dmo_venc.codecs) = 3 /\ DOMAIN Elements!dmo_venc.codecs = 1..3
  BY DEF Elements!dmo_venc
<1>2. Elements!dmo_venc.form = "dmoenc_%sv%d" /\ Elements!dmo_venc.encoder
  BY DEF Elements!dmo_venc
<1>3. Elements!dmo_venc.codecs[1].dll = "wmvdmoe2" /\ Elements!dmo_venc.codecs[1].version = 1
  BY DEF Elements!dmo_venc, Elements!Codec
<1>4. Elements!dmo_venc.codecs[2].dll = "wmvdmoe2" /\ Elements!dmo_venc.codecs[2].version = 2
  BY DEF Elements!dmo_venc, Elements!Codec
<1>5. Elements!dmo_venc.codecs[3].dll = "wmvdmoe2" /\ Elements!dmo_venc.codecs[3].version = 3
  BY DEF Elements!dmo_venc, Elements!Codec
<1> QED
  BY <1>1, <1>2, <1>3, <1>4, <1>5

\* The table of the DMO audio decoders.
LEMMA DmoAdecTable ==
  /\ Len(Elements!dmo_adec.codecs) = 4 /\ DOMAIN Elements!dmo_adec.codecs = 1..4
  /\ Elements!dmo_adec.form = "dmodec_%sv%da"
  /\ Elements!dmo_adec.codecs[1].dll = "wmadmod" /\ Elements!dmo_adec.codecs[1].version = 1
  /\ Elements!dmo_adec.codecs[2].dll = "wmadmod" /\ Elements!dmo_adec.codecs[2].version = 2
  /\ Elements!dmo_adec.codecs[3].dll = "wmadmod" /\ Elements!dmo_adec.codecs[3].version = 3
  /\ Elements!dmo_adec.codecs[4].dll = "wmspdmod" /\ Elements!dmo_adec.codecs[4].version = 1
<1>1. Len(Elements!dmo_adec.codecs) = 4 /\ DOMAIN Elements!dmo_adec.codecs = 1..4
  BY DEF Elements!dmo_adec
<1>2. Elements!dmo_adec.form = "dmodec_%sv%da"
  BY DEF Elements!dmo_adec
<1>3. Elements!dmo_adec.codecs[1].dll = "wmadmod" /\ Elements!dmo_adec.codecs[1].version = 1
  BY DEF Elements!dmo_adec, Elements!Codec
<1>4. Elements!dmo_adec.codecs[2].dll = "wmadmod" /\ Elements!dmo_adec.codecs[2].version = 2
  BY DEF Elements!dmo_adec, Elements!Codec
<1>5. Elements!dmo_adec.codecs[3].dll = "wmadmod" /\ Elements!dmo_adec.codecs[3].version = 3
  BY DEF Elements!dmo_adec, Elements!Codec
<1>6. Elements!dmo_adec.codecs[4].dll = "wmspdmod" /\ Elements!dmo_adec.codecs[4].version = 1
  BY DEF Elements!dmo_adec, Elements!Codec
<1> QED
  BY <1>1, <1>2, <1>3, <1>4, <1>5, <1>6

\* The table of the DMO audio encoders.
LEMMA DmoAencTable ==
  /\ Len(Elements!dmo_aenc.codecs) = 4 /\ DOMAIN Elements!dmo_aenc.codecs = 1..4
  /\ Elements!dmo_aenc.form = "dmoenc_%sv%d" /\ Elements!dmo_aenc.encoder
  /\ Elements!dmo_aenc.codecs[1].dll = "wmadmoe" /\ Elements!dmo_aenc.codecs[1].version = 1
  /\ Elements!dmo_aenc.codecs[2].dll = "wmadmoe" /\ Elements!dmo_aenc.codecs[2].version = 2
  /\ Elements!dmo_aenc.codecs[3].dll = "wmadmoe" /\ Elements!dmo_aenc.codecs[3].version = 3
  /\ Elements!dmo_aenc.codecs[4].dll = "wmspdmoe" /\ Elements!dmo_aenc.codecs[4].version = 1
<1>1. Len(Elements!dmo_aenc.codecs) = 4 /\ DOMAIN Elements!dmo_aenc.codecs = 1..4
  BY DEF Elements!dmo_aenc
<1>2. Elements!dmo_aenc.form = "dmoenc_%sv%d" /\ Elements!dmo_aenc.encoder
  BY DEF Elements!dmo_aenc
<1>3. Elements!dmo_aenc.codecs[1].dll = "wmadmoe" /\ Elements!dmo_aenc.codecs[1].version = 1
  BY DEF Elements!dmo_aenc, Elements!Codec
<1>4. Elements!dmo_aenc.codecs[2].dll = "wmadmoe" /\ Elements!dmo_aenc.codecs[2].version = 2
  BY DEF Elements!dmo_aenc, Elements!Codec
<1>5. Elements!dmo_aenc.codecs[3].dll = "wmadmoe" /\ Elements!dmo_aenc.codecs[3].version = 3
  BY DEF Elements!dmo_aenc, Elements!Codec
<1>6. Elements!dmo_aenc.codecs[4].dll = "wmspdmoe" /\ Elements!dmo_aenc.codecs[4].version = 1
  BY DEF Elements!dmo_aenc, Elements!Codec
<1> QED
  BY <1>1, <1>2, <1>3, <1>4, <1>5, <1>6

\* The table of the QuickTime decoder.
LEMMA QtAdecTable ==
  /\ Len(Elements!qt_adec.codecs) = 1 /\ DOMAIN Elements!qt_adec.codecs = 1..1
  /\ Elements!qt_adec.form = "qtadec_bin"
  /\ Elements!qt_adec.codecs[1] = [dll |-> "qtmlClient", version |-> 0, raw |-> None]
BY DEF Elements!qt_adec, Elements!Codec

\* The codecs of a table are those of its places.
LEMMA PlacesAre ==
  /\ \A t \in 1..6 : Len(Elements!Tables[t].codecs) \in 1..5
                     /\ DOMAIN Elements!Tables[t].codecs = 1..Len(Elements!Tables[t].codecs)
  /\ \A p \in Places : p = <<p[1], p[2]>> /\ p[1] \in 1..6 /\ p[2] \in 1..Len(Elements!Tables[p[1]].codecs)
  /\ \A t \in 1..6 : \A n \in 1..Len(Elements!Tables[t].codecs) : <<t, n>> \in Places
<1>1. \A t \in 1..6 : /\ Len(Elements!Tables[t].codecs) \in 1..5
                     /\ DOMAIN Elements!Tables[t].codecs = 1..Len(Elements!Tables[t].codecs)
  <2>1. \A t \in 1..6 : t = 1 \/ t = 2 \/ t = 3 \/ t = 4 \/ t = 5 \/ t = 6
    OBVIOUS
  <2> QED
    BY <2>1, TablesListed, DshowVdecTable, DmoVdecTable, DmoVencTable, DmoAdecTable, DmoAencTable, QtAdecTable
<1>2. \A p \in Places : p = <<p[1], p[2]>> /\ p[1] \in 1..6 /\ p[2] \in 1..Len(Elements!Tables[p[1]].codecs)
  BY <1>1 DEF Places
<1>3. \A t \in 1..6 : \A n \in 1..Len(Elements!Tables[t].codecs) : <<t, n>> \in Places
  <2> SUFFICES ASSUME NEW t \in 1..6, NEW n, n \in 1..Len(Elements!Tables[t].codecs) PROVE <<t, n>> \in Places
    OBVIOUS
  <2>1. Len(Elements!Tables[t].codecs) \in 1..5
    BY <1>1
  <2>2. n \in 1..5
    <3>1. PICK l \in 1..5 : l = Len(Elements!Tables[t].codecs)
      BY <2>1
    <3>2. n \in 1..l
      BY <3>1, Zenon
    <3> QED
      BY <3>2
  <2>3. <<t, n>> \in (1..6) \X (1..5) /\ n <= Len(Elements!Tables[t].codecs)
    BY <2>1, <2>2
  <2> QED
    BY <2>3 DEF Places
<1> QED
  BY <1>1, <1>2, <1>3

\* Every codec has a place.
LEMMA CodecsArePlaced ==
  \A t \in DOMAIN Elements!Tables : \A c \in Elements!CodecsOf(t) :
    \E p \in Places : p[1] = t /\ c = CodecAt(p)
<1> SUFFICES ASSUME NEW t \in 1..6, NEW c \in Elements!CodecsOf(t)
             PROVE  \E p \in Places : p[1] = t /\ c = CodecAt(p)
  BY TablesListed
<1>1. PICK n \in 1..Len(Elements!Tables[t].codecs) : c = Elements!Tables[t].codecs[n]
  BY PlacesAre DEF Elements!CodecsOf
<1>2. <<t, n>> \in Places
  BY PlacesAre
<1> QED
  BY <1>1, <1>2 DEF CodecAt

\* Every place has a codec, and that a name.
LEMMA PlacesHaveCodecs ==
  \A p \in Places : /\ p[1] \in DOMAIN Elements!Tables /\ CodecAt(p) \in Elements!CodecsOf(p[1])
                    /\ NameAt(p) \in Elements!Names
<1> SUFFICES ASSUME NEW p \in Places
             PROVE  /\ p[1] \in DOMAIN Elements!Tables /\ CodecAt(p) \in Elements!CodecsOf(p[1])
                    /\ NameAt(p) \in Elements!Names
  OBVIOUS
<1>1. p[1] \in DOMAIN Elements!Tables /\ p[2] \in DOMAIN Elements!Tables[p[1]].codecs
  BY PlacesAre, TablesListed
<1>2. CodecAt(p) \in Elements!CodecsOf(p[1])
  BY <1>1 DEF CodecAt, Elements!CodecsOf
<1> QED
  BY <1>1, <1>2 DEF NameAt, Elements!Names

\* The two encoder tables, whose names have one form, have no DLL in common.
LEMMA EncodersApart ==
  /\ \A n \in 1..Len(Elements!dmo_venc.codecs) : Elements!dmo_venc.codecs[n].dll = "wmvdmoe2"
  /\ \A n \in 1..Len(Elements!dmo_aenc.codecs) : Elements!dmo_aenc.codecs[n].dll \in {"wmadmoe", "wmspdmoe"}
<1>1. \A n \in 1..3 : n = 1 \/ n = 2 \/ n = 3
  OBVIOUS
<1>2. \A n \in 1..4 : n = 1 \/ n = 2 \/ n = 3 \/ n = 4
  OBVIOUS
<1> QED
  BY <1>1, <1>2, DmoVencTable, DmoAencTable

\* No two codecs have one name.
LEMMA NamesDiffer ==
  ASSUME NEW p \in Places, NEW q \in Places, NameAt(p) = NameAt(q)
  PROVE  p = q
<1>1. /\ Elements!Tables[p[1]].form = Elements!Tables[q[1]].form
      /\ CodecAt(p).dll = CodecAt(q).dll /\ CodecAt(p).version = CodecAt(q).version
  BY DEF NameAt, Elements!Name
<1>2. /\ p = <<p[1], p[2]>> /\ p[1] \in 1..6 /\ p[2] \in 1..Len(Elements!Tables[p[1]].codecs)
      /\ q = <<q[1], q[2]>> /\ q[1] \in 1..6 /\ q[2] \in 1..Len(Elements!Tables[q[1]].codecs)
  BY PlacesAre
<1> DEFINE t == p[1]  n == p[2]  u == q[1]  m == q[2]
<1>3. t \in 1..6 /\ u \in 1..6 /\ p = <<t, n>> /\ q = <<u, m>>
  BY <1>2
<1>4. /\ Elements!Tables[t].form = Elements!Tables[u].form
      /\ Elements!Tables[t].codecs[n].dll = Elements!Tables[u].codecs[m].dll
      /\ Elements!Tables[t].codecs[n].version = Elements!Tables[u].codecs[m].version
      /\ n \in 1..Len(Elements!Tables[t].codecs) /\ m \in 1..Len(Elements!Tables[u].codecs)
  BY <1>1, <1>2 DEF CodecAt
<1> HIDE DEF t, n, u, m
<1>5. CASE t = 1
  <2>1. u = 1
    BY <1>3, <1>4, <1>5, TablesListed, DshowVdecTable, DmoVdecTable, DmoVencTable, DmoAdecTable, DmoAencTable, QtAdecTable
  <2> QED
    BY <1>3, <1>4, <1>5, <2>1, TablesListed, DshowVdecTable
<1>6. CASE t = 2
  <2>1. u = 2
    BY <1>3, <1>4, <1>6, TablesListed, DshowVdecTable, DmoVdecTable, DmoVencTable, DmoAdecTable, DmoAencTable, QtAdecTable
  <2> QED
    BY <1>3, <1>4, <1>6, <2>1, TablesListed, DmoVdecTable
<1>7. CASE t = 3
  <2>1. u = 3 \/ u = 5
    BY <1>3, <1>4, <1>7, TablesListed, DshowVdecTable, DmoVdecTable, DmoVencTable, DmoAdecTable, DmoAencTable, QtAdecTable
  <2>2. ASSUME u = 5 PROVE FALSE
    <3>1. n \in 1..Len(Elements!dmo_venc.codecs) /\ m \in 1..Len(Elements!dmo_aenc.codecs)
      BY <1>4, <1>7, <2>2, TablesListed
    <3>2. Elements!dmo_venc.codecs[n].dll = Elements!dmo_aenc.codecs[m].dll
      BY <1>4, <1>7, <2>2, TablesListed
    <3> QED
      BY <3>1, <3>2, EncodersApart
  <2> QED
    BY <1>3, <1>4, <1>7, <2>1, <2>2, TablesListed, DmoVencTable
<1>8. CASE t = 4
  <2>1. u = 4
    BY <1>3, <1>4, <1>8, TablesListed, DshowVdecTable, DmoVdecTable, DmoVencTable, DmoAdecTable, DmoAencTable, QtAdecTable
  <2> QED
    BY <1>3, <1>4, <1>8, <2>1, TablesListed, DmoAdecTable
<1>9. CASE t = 5
  <2>1. u = 3 \/ u = 5
    BY <1>3, <1>4, <1>9, TablesListed, DshowVdecTable, DmoVdecTable, DmoVencTable, DmoAdecTable, DmoAencTable, QtAdecTable
  <2>2. ASSUME u = 3 PROVE FALSE
    <3>1. n \in 1..Len(Elements!dmo_aenc.codecs) /\ m \in 1..Len(Elements!dmo_venc.codecs)
      BY <1>4, <1>9, <2>2, TablesListed
    <3>2. Elements!dmo_aenc.codecs[n].dll = Elements!dmo_venc.codecs[m].dll
      BY <1>4, <1>9, <2>2, TablesListed
    <3> QED
      BY <3>1, <3>2, EncodersApart
  <2> QED
    BY <1>3, <1>4, <1>9, <2>1, <2>2, TablesListed, DmoAencTable
<1>10. CASE t = 6
  <2>1. u = 6
    BY <1>3, <1>4, <1>10, TablesListed, DshowVdecTable, DmoVdecTable, DmoVencTable, DmoAdecTable, DmoAencTable, QtAdecTable
  <2> QED
    BY <1>3, <1>4, <1>10, <2>1, TablesListed, QtAdecTable
<1> QED
  BY <1>3, <1>5, <1>6, <1>7, <1>8, <1>9, <1>10

\* The class that a codec's own entry makes.
OwnClass(t, c) == Elements!BaseInit(t, c, [u \in DOMAIN Elements!Tables |-> c])

\* A class is its codec's own, if tmp has the codec or is not looked at.
LEMMA BaseInitOwn ==
  ASSUME NEW t \in DOMAIN Elements!Tables, NEW c, NEW tmps,
         Elements!Tables[t].encoder => tmps[t] = c
  PROVE  Elements!BaseInit(t, c, tmps) = OwnClass(t, c)
<1>1. [u \in DOMAIN Elements!Tables |-> c][t] = c
  OBVIOUS
<1>2. /\ Elements!Tables[t] = Elements!dmo_venc => tmps[t] = c
      /\ Elements!Tables[t] = Elements!dmo_aenc => tmps[t] = c
  BY DmoVencTable, DmoAencTable
<1> QED
  BY <1>1, <1>2 DEF OwnClass, Elements!BaseInit

\* A class of an entry, and the formats of that.
Serves(k, c) ==
  /\ k.compressed.dll = c.dll /\ k.compressed.version = c.version
  /\ k.entry \in {None, c} /\ c.raw \in {None, k.raw}

\* It has the entry, and the formats of the entry.
LEMMA OwnClassServes ==
  ASSUME NEW p \in Places
  PROVE  Serves(OwnClass(p[1], CodecAt(p)), CodecAt(p))
<1> DEFINE t == p[1]  c == CodecAt(p)  k == OwnClass(t, c)
<1>1. t \in 1..6 /\ p[2] \in 1..Len(Elements!Tables[t].codecs) /\ c = Elements!Tables[t].codecs[p[2]]
  BY PlacesAre DEF CodecAt
<1>2. Elements!Tables[t] = Elements!qt_adec => c = [dll |-> "qtmlClient", version |-> 0, raw |-> None]
  BY <1>1, QtAdecTable
<1>3. [u \in DOMAIN Elements!Tables |-> c][t] = c
  BY <1>1, TablesListed
<1>4. \/ Elements!Tables[t] = Elements!dshow_vdec /\ k = Elements!dshow_videodec(c)
      \/ Elements!Tables[t] = Elements!dmo_vdec /\ k = Elements!dmo_videodec(c)
      \/ Elements!Tables[t] = Elements!dmo_adec /\ k = Elements!dmo_audiodec(c)
      \/ Elements!Tables[t] = Elements!dmo_venc /\ k = Elements!dmo_videoenc(c)
      \/ Elements!Tables[t] = Elements!dmo_aenc /\ k = Elements!dmo_audioenc(c)
      \/ Elements!Tables[t] = Elements!qt_adec /\ k = Elements!qt_audiodec
  <2>1. t = 1 \/ t = 2 \/ t = 3 \/ t = 4 \/ t = 5 \/ t = 6
    BY <1>1
  <2> HIDE DEF t, c
  <2> QED
    BY <1>3, <2>1, TablesListed DEF OwnClass, Elements!BaseInit
<1> HIDE DEF t, c, k
<1>5. ASSUME \E fields, default : k = Elements!ClassOf(c, Elements!Compressed(c, fields), Elements!Raw(c, default))
      PROVE  Serves(k, c)
  <2>1. PICK fields, default : k = Elements!ClassOf(c, Elements!Compressed(c, fields), Elements!Raw(c, default))
    BY <1>5
  <2>2. /\ k.entry = c /\ k.compressed = Elements!Compressed(c, fields)
        /\ k.raw = IF c.raw = None THEN default ELSE c.raw
    BY <2>1 DEF Elements!ClassOf, Elements!Raw
  <2>3. k.compressed.dll = c.dll /\ k.compressed.version = c.version
    BY <2>2 DEF Elements!Compressed
  <2> QED
    BY <2>2, <2>3 DEF Serves
<1>6. ASSUME Elements!Tables[t] = Elements!qt_adec, k = Elements!qt_audiodec PROVE Serves(k, c)
  BY <1>2, <1>6 DEF Elements!qt_audiodec, Serves
<1>7. \/ \E fields, default : k = Elements!ClassOf(c, Elements!Compressed(c, fields), Elements!Raw(c, default))
      \/ Elements!Tables[t] = Elements!qt_adec /\ k = Elements!qt_audiodec
  <2>1. CASE k = Elements!dshow_videodec(c)
    BY <2>1, Zenon DEF Elements!dshow_videodec
  <2>2. CASE k = Elements!dmo_videodec(c)
    BY <2>2, Zenon DEF Elements!dmo_videodec
  <2>3. CASE k = Elements!dmo_audiodec(c)
    BY <2>3, Zenon DEF Elements!dmo_audiodec
  <2>4. CASE k = Elements!dmo_videoenc(c)
    BY <2>4, Zenon DEF Elements!dmo_videoenc
  <2>5. CASE k = Elements!dmo_audioenc(c)
    BY <2>5, Zenon DEF Elements!dmo_audioenc
  <2> QED
    BY <1>4, <2>1, <2>2, <2>3, <2>4, <2>5
<1>8. Serves(k, c)
  BY <1>5, <1>6, <1>7
<1> QED
  BY <1>8 DEF t, c, k

-----------------------------------------------------------------------------

\* The loop has passed a place.
Passed(p) == p[1] < at[1] \/ (p[1] = at[1] /\ p[2] < at[2])

RegTypes ==
  /\ at[1] \in 1..7 /\ at = <<at[1], at[2]>> /\ (at[1] <= 6 => at \in Places)
  /\ DOMAIN gtype = Elements!Names /\ DOMAIN class = Elements!Names
  /\ DOMAIN tmp = DOMAIN Elements!Tables

\* Where the loop has passed, there is an element if the DLL is installed, with a type of
\* its codec; a class is the codec's own but for encoders that are made late.
RegPlace(p) ==
  /\ NameAt(p) \in elements <=> Passed(p) /\ CodecAt(p).dll \in installed
  /\ gtype[NameAt(p)] = IF NameAt(p) \in elements THEN CodecAt(p) ELSE None
  /\ class[NameAt(p)] # None /\ ~(cached /\ Elements!Tables[p[1]].encoder) =>
       class[NameAt(p)] = OwnClass(p[1], CodecAt(p))
  /\ ~cached /\ NameAt(p) \in elements => class[NameAt(p)] # None

RegIInv == RegTypes /\ \A p \in Places : RegPlace(p)

\* It says what EveryCodecRegistered says.
LEMMA RegGoal == RegIInv => Elements!EveryCodecRegistered
<1> SUFFICES ASSUME RegIInv, NEW t \in DOMAIN Elements!Tables, NEW c \in Elements!CodecsOf(t)
             PROVE  /\ ~Elements!More => (Elements!Name(t, c) \in elements <=> c.dll \in installed)
                    /\ class[Elements!Name(t, c)] # None /\ ~(cached /\ Elements!Tables[t].encoder)
                         => Serves(class[Elements!Name(t, c)], c)
  BY DEF Elements!EveryCodecRegistered, Serves
<1>1. PICK p \in Places : p[1] = t /\ c = CodecAt(p)
  BY CodecsArePlaced
<1>2. RegPlace(p) /\ Elements!Name(t, c) = NameAt(p)
  BY <1>1 DEF RegIInv, NameAt
<1>3. ~Elements!More => Passed(p)
  BY <1>1, TablesListed, PlacesAre DEF Elements!More, Passed, RegIInv, RegTypes
<1> QED
  BY <1>1, <1>2, <1>3, OwnClassServes DEF RegPlace

\* The loop has not begun: nothing is passed.
LEMMA RegInitInv == Elements!Init => RegIInv
<1> SUFFICES ASSUME Elements!Init PROVE RegIInv
  OBVIOUS
<1>1. at = <<1, 1>> /\ <<1, 1>> \in Places
  <2>1. 1 \in 1..6 /\ Elements!Tables[1] = Elements!dshow_vdec /\ 1 \in 1..Len(Elements!dshow_vdec.codecs)
    BY TablesListed, DshowVdecTable
  <2>2. 1 \in 1..Len(Elements!Tables[1].codecs)
    BY <2>1
  <2> QED
    BY <2>1, <2>2, PlacesAre DEF Elements!Init
<1>2. RegTypes
  BY <1>1 DEF Elements!Init, RegTypes
<1>3. ASSUME NEW p \in Places PROVE RegPlace(p)
  <2>1. p[1] \in 1..6 /\ p[2] \in 1..Len(Elements!Tables[p[1]].codecs)
    BY PlacesAre
  <2>2. PICK l \in 1..5 : l = Len(Elements!Tables[p[1]].codecs)
    BY <2>1, PlacesAre
  <2>3. p[2] \in 1..l
    BY <2>1, <2>2, Zenon
  <2>4. at[1] = 1 /\ at[2] = 1
    BY <1>1
  <2>5. ~Passed(p)
    BY <2>1, <2>3, <2>4 DEF Passed
  <2> QED
    BY <2>5, PlacesHaveCodecs DEF Elements!Init, RegPlace
<1> QED
  BY <1>2, <1>3 DEF RegIInv

\* What comes next has passed one place more.
LEMMA NextPlace ==
  ASSUME RegTypes, Elements!More, at' = Elements!NextCodec
  PROVE  /\ at \in Places /\ at'[1] \in 1..7 /\ at' = <<at'[1], at'[2]>> /\ (at'[1] <= 6 => at' \in Places)
         /\ Elements!Here = CodecAt(at) /\ ~Passed(at)
         /\ \A p \in Places : Passed(p)' <=> Passed(p) \/ p = at
<1>1. at \in Places /\ Elements!Here = CodecAt(at)
  BY TablesListed DEF RegTypes, Elements!More, Elements!Here, CodecAt
<1>2. at = <<at[1], at[2]>> /\ at[1] \in 1..6 /\ at[2] \in 1..Len(Elements!Tables[at[1]].codecs)
  BY <1>1, PlacesAre
<1>3. PICK t \in 1..6, n \in Nat, l \in 1..5 :
        at = <<t, n>> /\ l = Len(Elements!Tables[t].codecs) /\ n \in 1..l
  <2>1. PICK l \in 1..5 : l = Len(Elements!Tables[at[1]].codecs)
    BY <1>2, PlacesAre
  <2>2. at[2] \in 1..l
    BY <1>2, <2>1, Zenon
  <2>3. at[2] \in Nat
    BY <2>2
  <2>4. at = <<at[1], at[2]>> /\ l = Len(Elements!Tables[at[1]].codecs) /\ at[2] \in 1..l
    BY <1>2, <2>1, <2>2
  <2> QED
    BY <1>2, <2>3, <2>4, Zenon
<1>4. at' = IF n < l THEN <<t, n + 1>> ELSE <<t + 1, 1>>
  BY <1>3 DEF Elements!NextCodec, Elements!NextTable
<1>5. /\ at'[1] \in 1..7 /\ at' = <<at'[1], at'[2]>>
      /\ at'[1] <= 6 => at' \in Places
  <2>1. CASE n < l
    <3>1. n + 1 \in 1..l
      BY <1>3, <2>1
    <3>2. n + 1 \in 1..Len(Elements!Tables[t].codecs)
      BY <1>3, <3>1, Zenon
    <3> QED
      BY <1>4, <2>1, <3>2, PlacesAre
  <2>2. CASE ~(n < l)
    <3>1. at' = <<t + 1, 1>>
      BY <1>4, <2>2
    <3>2. ASSUME t + 1 <= 6 PROVE <<t + 1, 1>> \in Places
      <4>1. t + 1 \in 1..6
        BY <3>2
      <4>2. PICK k \in 1..5 : k = Len(Elements!Tables[t + 1].codecs)
        BY <4>1, PlacesAre
      <4>3. 1 \in 1..k
        OBVIOUS
      <4>4. 1 \in 1..Len(Elements!Tables[t + 1].codecs)
        BY <4>2, <4>3, Zenon
      <4> QED
        BY <4>1, <4>4, PlacesAre
    <3> QED
      BY <3>1, <3>2
  <2> QED
    BY <2>1, <2>2
<1>6. ASSUME NEW p \in Places PROVE Passed(p)' <=> Passed(p) \/ p = at
  <2>1. PICK u \in 1..6, m \in Nat : p = <<u, m>> /\ m \in 1..Len(Elements!Tables[u].codecs)
    BY PlacesAre
  <2>2. u = t => m \in 1..l
    BY <1>3, <2>1, Zenon
  <2>3. Passed(p) <=> (u < t \/ (u = t /\ m < n))
    BY <1>3, <2>1 DEF Passed
  <2>4. p = at <=> u = t /\ m = n
    BY <1>3, <2>1
  <2>5. CASE n < l
    <3>1. Passed(p)' <=> (u < t \/ (u = t /\ m < n + 1))
      BY <1>4, <2>1, <2>5 DEF Passed
    <3> QED
      BY <2>3, <2>4, <3>1
  <2>6. CASE ~(n < l)
    <3>1. Passed(p)' <=> (u < t + 1 \/ (u = t + 1 /\ m < 1))
      BY <1>4, <2>1, <2>6 DEF Passed
    <3>2. u = t => m <= n
      BY <1>3, <2>2, <2>6
    <3>3. m >= 1
      <4>1. PICK k \in 1..5 : k = Len(Elements!Tables[u].codecs)
        BY PlacesAre
      <4>2. m \in 1..k
        BY <2>1, <4>1, Zenon
      <4> QED
        BY <4>2
    <3> QED
      BY <2>3, <2>4, <3>1, <3>2, <3>3
  <2> QED
    BY <2>5, <2>6
<1>7. ~Passed(at)
  BY <1>3 DEF Passed
<1> QED
  BY <1>1, <1>5, <1>6, <1>7

\* A codec that is not installed is passed without an element.
LEMMA SkipReg == RegIInv /\ Elements!Skip => RegIInv'
<1> SUFFICES ASSUME RegIInv, Elements!Skip PROVE RegIInv'
  OBVIOUS
<1>1. /\ Elements!More /\ Elements!Here.dll \notin installed /\ at' = Elements!NextCodec
      /\ UNCHANGED <<installed, cached, tmp, gtype, elements, class>>
  BY DEF Elements!Skip
<1>2. RegTypes
  BY DEF RegIInv
<1>3. /\ at \in Places /\ at'[1] \in 1..7 /\ at' = <<at'[1], at'[2]>> /\ (at'[1] <= 6 => at' \in Places)
      /\ Elements!Here = CodecAt(at) /\ ~Passed(at)
      /\ \A p \in Places : Passed(p)' <=> Passed(p) \/ p = at
  BY <1>1, <1>2, NextPlace
<1>4. RegTypes'
  BY <1>1, <1>2, <1>3 DEF RegTypes
<1>5. ASSUME NEW p \in Places PROVE RegPlace(p)'
  <2>1. RegPlace(p)
    BY DEF RegIInv
  <2>2. Passed(p)' /\ CodecAt(p).dll \in installed <=> Passed(p) /\ CodecAt(p).dll \in installed
    BY <1>1, <1>3
  <2> QED
    BY <1>1, <2>1, <2>2 DEF RegPlace
<1> QED
  BY <1>4, <1>5 DEF RegIInv

\* One that is gets its element; no other has the name.
LEMMA RegisterReg == RegIInv /\ Elements!Register => RegIInv'
<1> SUFFICES ASSUME RegIInv, Elements!Register PROVE RegIInv'
  OBVIOUS
<1> DEFINE c == CodecAt(at)  name == NameAt(at)
           tmps == IF Elements!Tables[at[1]].encoder THEN [tmp EXCEPT ![at[1]] = c] ELSE tmp
<1>1. RegTypes /\ at \in Places /\ Elements!Here = c /\ Elements!More
  BY TablesListed DEF RegIInv, RegTypes, Elements!Register, Elements!More, Elements!Here, CodecAt
<1>2. Elements!Name(at[1], c) = name
  BY DEF NameAt
<1>3. RegPlace(at) /\ ~Passed(at)
  BY <1>1, PlacesAre DEF RegIInv, Passed
<1>4. name \notin elements /\ gtype[name] = None
  BY <1>3 DEF RegPlace
<1>5. /\ c.dll \in installed /\ tmp' = tmps /\ at' = Elements!NextCodec
      /\ gtype' = [gtype EXCEPT ![name] = c] /\ elements' = elements \cup {name}
      /\ class' = IF cached THEN class ELSE [class EXCEPT ![name] = Elements!BaseInit(at[1], c, tmps)]
      /\ UNCHANGED <<installed, cached>>
  BY <1>1, <1>2, <1>4 DEF Elements!Register
<1>6. /\ at'[1] \in 1..7 /\ at' = <<at'[1], at'[2]>> /\ (at'[1] <= 6 => at' \in Places)
      /\ \A p \in Places : Passed(p)' <=> Passed(p) \/ p = at
  BY <1>1, <1>5, NextPlace
<1>7. name \in Elements!Names /\ at[1] \in DOMAIN Elements!Tables /\ c \in Elements!CodecsOf(at[1])
  BY <1>1, PlacesHaveCodecs
<1>8. Elements!BaseInit(at[1], c, tmps) = OwnClass(at[1], c)
  <2>1. Elements!Tables[at[1]].encoder => tmps[at[1]] = c
    BY <1>1, <1>7 DEF RegTypes
  <2> QED
    BY <1>7, <2>1, BaseInitOwn
<1>9. OwnClass(at[1], c) # None
  BY <1>7, RegistryAssumption DEF OwnClass
<1>10. RegTypes'
  <2>1. DOMAIN tmps = DOMAIN tmp
    OBVIOUS
  <2> HIDE DEF c, name, tmps
  <2> QED
    BY <1>1, <1>5, <1>6, <2>1 DEF RegTypes
<1>11. ASSUME NEW p \in Places PROVE RegPlace(p)'
  <2>1. RegPlace(p) /\ NameAt(p) \in Elements!Names
    BY PlacesHaveCodecs DEF RegIInv
  <2>2. DOMAIN gtype = Elements!Names /\ DOMAIN class = Elements!Names
    BY <1>1 DEF RegTypes
  <2>3. CASE p = at
    <3>1. NameAt(p) = name /\ CodecAt(p) = c
      BY <2>3
    <3>2. Passed(p)' /\ name \in elements'
      BY <1>5, <1>6, <2>3
    <3>3. gtype'[name] = c
      BY <1>5, <1>7, <2>2
    <3>4. ~cached => class'[name] = OwnClass(at[1], c)
      BY <1>5, <1>7, <1>8, <2>2
    <3>5. cached => class'[name] = class[name]
      BY <1>5
    <3> HIDE DEF c, name, tmps
    <3> QED
      BY <1>5, <1>9, <2>1, <2>3, <3>1, <3>2, <3>3, <3>4, <3>5 DEF RegPlace
  <2>4. CASE p # at
    <3>1. NameAt(p) # name
      BY <1>1, <2>4, NamesDiffer
    <3>2. Passed(p)' <=> Passed(p)
      BY <1>6, <2>4
    <3> HIDE DEF c, name, tmps
    <3>3. /\ NameAt(p) \in elements' <=> NameAt(p) \in elements
          /\ gtype'[NameAt(p)] = gtype[NameAt(p)] /\ class'[NameAt(p)] = class[NameAt(p)]
      BY <1>5, <2>1, <2>2, <3>1
    <3> QED
      BY <1>5, <2>1, <3>2, <3>3 DEF RegPlace
  <2> QED
    BY <2>3, <2>4
<1> QED
  BY <1>10, <1>11 DEF RegIInv

\* A class made late has the codec of its type, or is an encoder's.
LEMMA CreateReg ==
  ASSUME RegIInv, NEW t \in DOMAIN Elements!Tables, NEW c \in Elements!CodecsOf(t), Elements!Create(t, c)
  PROVE  RegIInv'
<1>1. PICK p \in Places : p[1] = t /\ c = CodecAt(p)
  BY CodecsArePlaced
<1>2. NameAt(p) = Elements!Name(t, c) /\ RegPlace(p)
  BY <1>1 DEF NameAt, RegIInv
<1>3. /\ NameAt(p) \in elements /\ class[NameAt(p)] = None
      /\ class' = [class EXCEPT ![NameAt(p)] = Elements!BaseInit(t, gtype[NameAt(p)], tmp)]
      /\ UNCHANGED <<installed, cached, at, tmp, gtype, elements>>
  BY <1>2 DEF Elements!Create
<1>4. cached /\ gtype[NameAt(p)] = c
  BY <1>1, <1>2, <1>3 DEF RegPlace
<1>5. ~Elements!Tables[t].encoder => Elements!BaseInit(t, c, tmp) = OwnClass(t, c)
  BY BaseInitOwn
<1>6. RegTypes /\ RegTypes'
  BY <1>3 DEF RegIInv, RegTypes
<1>7. ASSUME NEW q \in Places PROVE RegPlace(q)'
  <2>1. RegPlace(q) /\ NameAt(q) \in Elements!Names /\ DOMAIN class = Elements!Names
    BY <1>6, PlacesHaveCodecs DEF RegIInv, RegTypes
  <2>2. Passed(q)' <=> Passed(q)
    BY <1>3 DEF Passed
  <2>3. CASE q = p
    <3>1. class'[NameAt(q)] = Elements!BaseInit(t, c, tmp)
      BY <1>3, <1>4, <2>1, <2>3
    <3> QED
      BY <1>1, <1>3, <1>4, <1>5, <2>1, <2>2, <2>3, <3>1 DEF RegPlace
  <2>4. CASE q # p
    <3>1. NameAt(q) # NameAt(p)
      BY <2>4, NamesDiffer
    <3>2. class'[NameAt(q)] = class[NameAt(q)]
      BY <1>3, <2>1, <3>1
    <3> QED
      BY <1>3, <2>1, <2>2, <3>2 DEF RegPlace
  <2> QED
    BY <2>3, <2>4
<1> QED
  BY <1>6, <1>7 DEF RegIInv

\* Every step of the registration keeps its invariant.
LEMMA RegNextInv == RegIInv /\ Elements!Next => RegIInv'
BY SkipReg, RegisterReg, CreateReg DEF Elements!Next

-----------------------------------------------------------------------------
(* An element of any kind *)

Kinds == {"vdec", "adec", "aenc", "venc", "dshow", "qt", "registry", "audio", "times", "ldt"}

\* An element without a codec.
NoCodecYet == ctx = None /\ codecs = 0 /\ pending = <<>> /\ padCaps = None /\ pc = "idle"

\* What holds of the element of each kind.
OfKind(k) ==
  CASE k = "vdec" -> IInv /\ held = <<>>
    [] k \in {"adec", "aenc", "venc"} -> CodecIInv /\ earliest = None
    [] k = "dshow" -> DshowIInv /\ pending = <<>> /\ earliest = None
    [] k = "qt" -> QtIInv /\ pending = <<>> /\ earliest = None
    [] k = "registry" -> RegIInv /\ NoCodecYet
    [] k = "audio" -> AudioIInv /\ NoCodecYet
    [] k = "times" -> TimesIInv /\ NoCodecYet
    [] k = "ldt" -> NoCodecYet

AnyIInv == kind \in Kinds /\ OfKind(kind) /\ VencIInv

AnyNext == VideoNext \/ CodecNext \/ DshowNext \/ QtNext \/ RegistryNext \/ AudioNext \/ TimesNext \/ SegmentNext

\* The element goes on as one of its kind, whose own step this is.
LEMMA KindStep ==
  ASSUME kind \in Kinds, AnyNext
  PROVE  /\ kind' = kind
         /\ kind = "vdec" => Next /\ UNCHANGED <<held, last, end, lost, expected>>
         /\ kind \in {"adec", "aenc", "venc"} => Codec!Next /\ UNCHANGED earliest
         /\ kind = "dshow" => Dshow!Next /\ UNCHANGED <<pending, earliest, last, end, lost, expected>>
         /\ kind = "qt" => Qt!Next /\ UNCHANGED <<pending, earliest, last, end, lost, expected>>
         /\ kind \in {"registry", "audio", "times", "ldt"} =>
              UNCHANGED <<ctx, codecs, pending, padCaps, pc, last, end, lost, expected>>
         /\ kind = "registry" => Elements!Next
         /\ kind = "audio" => Audio!AudioNext
         /\ kind = "times" => Pushed!TimesNext
<1> USE DEF codecOnly, videoOnly, dmoOnly, qos, Kinds, OfDmo, vars, element, chain, app
<1>1. CASE VideoNext
  BY <1>1 DEF VideoNext
<1>2. CASE CodecNext
  <2>1. kind \in {"adec", "aenc", "venc"} /\ Codec!Next /\ UNCHANGED earliest
    BY <1>2 DEF CodecNext
  <2>2. kind' = kind
    BY <2>1, CodecKind
  <2> QED
    BY <2>1, <2>2
<1>3. CASE DshowNext
  BY <1>3 DEF DshowNext
<1>4. CASE QtNext
  BY <1>4 DEF QtNext
<1>5. CASE RegistryNext
  BY <1>5 DEF RegistryNext
<1>6. CASE AudioNext
  BY <1>6 DEF AudioNext
<1>7. CASE TimesNext
  BY <1>7 DEF TimesNext
<1>8. CASE SegmentNext
  BY <1>8 DEF SegmentNext
<1> QED
  BY <1>1, <1>2, <1>3, <1>4, <1>5, <1>6, <1>7, <1>8 DEF AnyNext

\* Nothing is pushed by an element that does not.
LEMMA NoVenc ==
  ASSUME VencIInv, kind # "venc", kind' = kind, UNCHANGED <<last, end, lost, expected>>
  PROVE  VencIInv' /\ Marked
BY DEF VencIInv, EndExpected, Marked

\* Every step keeps the invariant of the element's kind.
LEMMA AnyNextInv == AnyIInv /\ AnyNext => AnyIInv' /\ Marked
<1> SUFFICES ASSUME AnyIInv, AnyNext PROVE AnyIInv' /\ Marked
  OBVIOUS
<1>0. kind \in Kinds /\ kind' = kind /\ OfKind(kind) /\ VencIInv
  BY KindStep DEF AnyIInv
<1>1. CASE kind = "vdec"
  <2>1. Next /\ UNCHANGED <<held, last, end, lost, expected>>
    BY <1>0, <1>1, KindStep
  <2>2. IInv /\ held = <<>>
    BY <1>0, <1>1 DEF OfKind
  <2>3. IInv'
    BY <2>1, <2>2, NextInv
  <2> QED
    BY <1>0, <1>1, <2>1, <2>2, <2>3, NoVenc DEF AnyIInv, OfKind
<1>2. CASE kind \in {"adec", "aenc", "venc"}
  <2>1. Codec!Next /\ UNCHANGED earliest
    BY <1>0, <1>2, KindStep
  <2>2. CodecIInv /\ earliest = None
    BY <1>0, <1>2 DEF OfKind
  <2>3. CodecIInv' /\ VencIInv' /\ Marked
    BY <1>0, <2>1, <2>2, CodecNextInv, VencNextInv
  <2> QED
    BY <1>0, <1>2, <2>1, <2>2, <2>3 DEF AnyIInv, OfKind
<1>3. CASE kind = "dshow"
  <2>1. Dshow!Next /\ UNCHANGED <<pending, earliest, last, end, lost, expected>>
    BY <1>0, <1>3, KindStep
  <2>2. DshowIInv /\ pending = <<>> /\ earliest = None
    BY <1>0, <1>3 DEF OfKind
  <2>3. DshowIInv'
    BY <2>1, <2>2, DshowNextInv
  <2> QED
    BY <1>0, <1>3, <2>1, <2>2, <2>3, NoVenc DEF AnyIInv, OfKind
<1>4. CASE kind = "qt"
  <2>1. Qt!Next /\ UNCHANGED <<pending, earliest, last, end, lost, expected>>
    BY <1>0, <1>4, KindStep
  <2>2. QtIInv /\ pending = <<>> /\ earliest = None
    BY <1>0, <1>4 DEF OfKind
  <2>3. QtIInv'
    BY <2>1, <2>2, QtNextInv
  <2> QED
    BY <1>0, <1>4, <2>1, <2>2, <2>3, NoVenc DEF AnyIInv, OfKind
<1>5. CASE kind \in {"registry", "audio", "times", "ldt"}
  <2>1. /\ UNCHANGED <<ctx, codecs, pending, padCaps, pc, last, end, lost, expected>>
        /\ kind = "registry" => Elements!Next
        /\ kind = "audio" => Audio!AudioNext
        /\ kind = "times" => Pushed!TimesNext
    BY <1>0, <1>5, KindStep
  <2>2. /\ NoCodecYet
        /\ kind = "registry" => RegIInv
        /\ kind = "audio" => AudioIInv
        /\ kind = "times" => TimesIInv
    BY <1>0, <1>5 DEF OfKind
  <2>3. NoCodecYet'
    BY <2>1, <2>2 DEF NoCodecYet
  <2>4. /\ kind = "registry" => RegIInv'
        /\ kind = "audio" => AudioIInv'
        /\ kind = "times" => TimesIInv'
    BY <2>1, <2>2, RegNextInv, AudioNextInv, TimesNextInv
  <2> QED
    BY <1>0, <1>5, <2>1, <2>3, <2>4, NoVenc DEF AnyIInv, OfKind
<1> QED
  BY <1>0, <1>1, <1>2, <1>3, <1>4, <1>5 DEF Kinds

\* An element of any kind begins with it.
LEMMA AnyInitInv == AnyInit => AnyIInv
<1> SUFFICES ASSUME AnyInit PROVE AnyIInv
  OBVIOUS
<1> USE DEF NoElement, NoCodec, NoVideo
<1>0. NoElement => NoCodecYet
  BY DEF Init, NoCodecYet
<1>q. NoCodec => EndExpected
  BY DEF EndExpected
<1>1. CASE kind = "vdec" /\ NoElement
  BY <1>1, <1>q, InitInv DEF AnyIInv, OfKind, VencIInv, Kinds
<1>2. CASE Codec!Init /\ NoVideo
  <2>1. kind \in {"adec", "aenc", "venc"}
    BY <1>2 DEF Codec!Init
  <2>2. CodecIInv /\ VencIInv
    BY <1>2, CodecInitInv, VencInitInv
  <2> QED
    BY <1>2, <2>1, <2>2 DEF AnyIInv, OfKind, Kinds
<1>3. CASE kind = "dshow" /\ Dshow!Init /\ NoVideo /\ NoCodec /\ NoDmo
  BY <1>3, <1>q, DshowInitInv DEF AnyIInv, OfKind, VencIInv, Kinds, NoDmo
<1>4. CASE kind = "qt" /\ Qt!Init /\ NoVideo /\ NoCodec /\ NoDmo
  BY <1>4, <1>q, QtInitInv DEF AnyIInv, OfKind, VencIInv, Kinds, NoDmo
<1>5. CASE kind = "registry" /\ NoElement /\ Elements!Init
  BY <1>5, <1>0, <1>q, RegInitInv DEF AnyIInv, OfKind, VencIInv, Kinds
<1>6. CASE kind \in {"audio", "times", "ldt"} /\ NoElement
  <2>1. AudioIInv /\ TimesIInv
    BY AudioInitInv, TimesInitInv DEF AnyInit
  <2> QED
    BY <1>6, <2>1, <1>0, <1>q DEF AnyIInv, OfKind, VencIInv, Kinds
<1> QED
  BY <1>1, <1>2, <1>3, <1>4, <1>5, <1>6 DEF AnyInit

\* Nothing changes.
LEMMA AnyStutterInv == AnyIInv /\ UNCHANGED allVars => AnyIInv' /\ UNCHANGED last
<1> SUFFICES ASSUME AnyIInv, UNCHANGED allVars PROVE AnyIInv' /\ UNCHANGED last
  OBVIOUS
<1>1. /\ UNCHANGED <<vars, kind>> /\ UNCHANGED codecOnly /\ UNCHANGED dshowOnly /\ UNCHANGED qtOnly
      /\ UNCHANGED refused /\ UNCHANGED regOnly /\ UNCHANGED audioOnly /\ UNCHANGED timeOnly
  BY DEF allVars, loaderOnly
<1>2. /\ UNCHANGED <<state, setups, ctx, codecs, size, out, padCaps, pending, flushing, pc, collect, epoch, cut>>
      /\ UNCHANGED <<earliest, held, discont, expected, jump, last, end, lost, base, kind>>
  BY <1>1 DEF vars, app, element, chain, qos, codecOnly
<1>3. IInv => IInv'
  BY <1>1, NextInv
<1>4. CodecIInv => CodecIInv'
  BY <1>2 DEF CodecIInv, CodecFrames, CodecHolds
<1>5. VencIInv'
  BY <1>2 DEF AnyIInv, VencIInv, EndExpected, MarkDue
<1>6. DshowIInv => DshowIInv'
  BY <1>1, <1>2 DEF DshowIInv, DshowHolds, DshowServes, Dshow!CodecHeld, Dshow!UsableUnlessRefused, dshowOnly
<1>7. QtIInv => QtIInv'
  BY <1>1, <1>2
  DEF QtIInv, QtHolds, QtBytes, QtServes, Qt!ConverterHeld, Qt!BytesAccounted, Qt!UsableUnlessRefused, qtOnly
<1>8. RegIInv => RegIInv'
  BY <1>1 DEF RegIInv, RegTypes, RegPlace, Passed, regOnly
<1>9. AudioIInv => AudioIInv'
  BY <1>1
  DEF AudioIInv, AudioTypes, AudioCall, BlocksFed, FramesKept, FrameIds, SampleFits, Audio!Current, audioOnly
<1>10. TimesIInv => TimesIInv'
  BY <1>1 DEF TimesIInv, GuessTypes, GuessIsInputs, GuessInCall, Pushed!TimesExplained, timeOnly
<1>11. NoCodecYet => NoCodecYet'
  BY <1>2 DEF NoCodecYet
<1>12. OfKind(kind)'
  <2>1. OfKind(kind) /\ kind' = kind /\ kind \in Kinds
    BY <1>2 DEF AnyIInv
  <2> QED
    BY <1>2, <1>3, <1>4, <1>6, <1>7, <1>8, <1>9, <1>10, <1>11, <2>1 DEF OfKind, Kinds
<1> QED
  BY <1>2, <1>5, <1>12 DEF AnyIInv

\* Of every element, its kind's invariant.
THEOREM AnyInvariant == AnySpec => []AnyIInv
<1>1. AnyIInv /\ [AnyNext]_allVars => AnyIInv'
  BY AnyNextInv, AnyStutterInv
<1>2. AnySpec => AnyInit /\ [][AnyNext]_allVars
  BY PTL DEF AnySpec, AnyNext
<1> QED
  BY <1>1, <1>2, AnyInitInv, PTL

\* A codec of any element lives only while it holds the segment.
THEOREM CodecHasSegment == AnySpec => []DmoNeedsSegment
<1>1. AnyIInv => DmoNeedsSegment
  <2> SUFFICES ASSUME AnyIInv PROVE DmoNeedsSegment
    OBVIOUS
  <2> QED
    BY DEF AnyIInv, Kinds, OfKind, IInv, Core, CodecIInv, CodecHolds, DshowIInv, DshowHolds, Dshow!CodecHeld,
           QtIInv, QtHolds, Qt!ConverterHeld, NoCodecYet, DmoNeedsSegment
<1> QED
  BY <1>1, AnyInvariant, PTL

\* No frame of before a flush or a renegotiation is left in a decoder's DMO, and none of
\* before a renegotiation or a gap in an encoder's, ready or held back.
THEOREM FramesOfEpoch == AnySpec => []AllFramesCurrent
<1>1. AnyIInv => AllFramesCurrent
  <2> SUFFICES ASSUME AnyIInv PROVE AllFramesCurrent
    OBVIOUS
  <2>1. CASE kind = "vdec"
    BY <2>1 DEF AnyIInv, OfKind, IInv, Core, AllFramesCurrent
  <2>2. CASE kind \in {"adec", "aenc", "venc"}
    <3>1. /\ pending \in Seq(FramesOf(base, epoch)) /\ held \in Seq(FramesOf(base, epoch))
          /\ epoch \in Nat /\ base \in 0..epoch /\ (kind = "adec" => base = epoch)
      BY <2>2 DEF AnyIInv, OfKind, CodecIInv, CodecFrames
    <3>2. \A f \in FramesOf(base, epoch) : f.epoch >= IF kind = "adec" THEN epoch ELSE base
      BY <3>1 DEF FramesOf
    <3>3. \A frames \in {pending, held} : \A i \in DOMAIN frames : frames[i] \in FramesOf(base, epoch)
      BY <3>1, ElementOfSeq
    <3> QED
      BY <2>2, <3>2, <3>3 DEF AllFramesCurrent, Codec!DmoFramesCurrent
  <2> QED
    BY <2>1, <2>2 DEF AnyIInv, Kinds, OfDmo, AllFramesCurrent
<1> QED
  BY <1>1, AnyInvariant, PTL

\* No element judges a buffer by a QoS observation of before the last flush.
THEOREM QosOfEpoch == AnySpec => []QosCurrent
<1>1. AnyIInv => QosCurrent
  BY DEF AnyIInv, Kinds, OfKind, IInv, Core, NoCodecYet, QosCurrent
<1> QED
  BY <1>1, AnyInvariant, PTL

\* A chain call of any DMO element leaves frames behind only when it was cut short.
THEOREM BacklogOfCut == AnySpec => []BacklogExplained
<1>1. AnyIInv => BacklogExplained
  BY DEF AnyIInv, Kinds, OfKind, IInv, Core, CodecIInv, CodecFrames, NoCodecYet, BacklogExplained
<1> QED
  BY <1>1, AnyInvariant, PTL

\* Every codec that an element opens is destroyed once, and serves its chain function
\* unless the last caps were refused, or SetDestFmt left the codec without its output
\* and freed its allocator; and every installed codec has its element.
THEOREM EveryCodecUsable == AnySpec => []CodecsUsable
<1>1. AnyIInv => CodecsUsable
  <2> SUFFICES ASSUME AnyIInv PROVE CodecsUsable
    OBVIOUS
  <2>0. kind \in Kinds /\ OfKind(kind)
    BY DEF AnyIInv
  <2>1. CASE kind = "vdec"
    <3>1. DmoCounted /\ pc # "crashed"
      BY <2>0, <2>1 DEF OfKind, IInv, Core, ValuesOK
    <3> QED
      BY <2>1, <3>1 DEF CodecsUsable, Dshow!UsableUnlessRefused
  <2>2. CASE kind \in {"adec", "aenc", "venc"}
    <3>1. DmoCounted /\ pc # "crashed"
      BY <2>0, <2>2 DEF OfKind, CodecIInv, CodecHolds, DmoCounted
    <3> QED
      BY <2>2, <3>1 DEF CodecsUsable, Dshow!UsableUnlessRefused
  <2>3. CASE kind = "dshow"
    <3>1. Dshow!CodecHeld /\ Dshow!UsableUnlessRefused
      BY <2>0, <2>3 DEF OfKind, DshowIInv, DshowHolds, DshowServes
    <3> QED
      BY <2>3, <3>1 DEF CodecsUsable
  <2>4. CASE kind = "qt"
    <3>1. Qt!ConverterHeld /\ Dshow!UsableUnlessRefused
      BY <2>0, <2>4 DEF OfKind, QtIInv, QtHolds, QtServes, Qt!UsableUnlessRefused, Dshow!UsableUnlessRefused
    <3> QED
      BY <2>4, <3>1 DEF CodecsUsable
  <2>5. CASE kind = "registry"
    <3>1. Elements!EveryCodecRegistered
      BY <2>0, <2>5, RegGoal DEF OfKind
    <3> QED
      BY <2>5, <3>1 DEF CodecsUsable
  <2>6. CASE kind \in {"audio", "times", "ldt"}
    <3>1. DmoCounted /\ pc # "crashed"
      BY <2>0, <2>6 DEF OfKind, NoCodecYet, DmoCounted
    <3> QED
      BY <2>6, <3>1 DEF CodecsUsable, Dshow!UsableUnlessRefused
  <2> QED
    BY <2>0, <2>1, <2>2, <2>3, <2>4, <2>5, <2>6 DEF Kinds
<1> QED
  BY <1>1, AnyInvariant, PTL

\* No byte is lost or converted twice by the QuickTime element, no block or frame by a
\* DirectShow decoder, and what an encoder pushes has the times of its input.
THEOREM EveryByteAccounted == AnySpec => []BytesAccounted
<1>1. AnyIInv => BytesAccounted
  <2> SUFFICES ASSUME AnyIInv PROVE BytesAccounted
    OBVIOUS
  <2>1. kind = "qt" => Qt!BytesAccounted
    BY DEF AnyIInv, OfKind, QtIInv, QtBytes
  <2>2. kind = "audio" => Audio!BlocksAccounted
    BY AudioGoal DEF AnyIInv, OfKind
  <2>3. kind = "times" => Pushed!TimesExplained
    BY DEF AnyIInv, OfKind, TimesIInv
  <2> QED
    BY <2>1, <2>2, <2>3 DEF BytesAccounted
<1> QED
  BY <1>1, AnyInvariant, PTL

\* Every gap in what upstream sends reaches downstream with its mark, and only there are
\* frames flushed away.
THEOREM EveryGapMarked == AnySpec => GapsMarked
<1>1. AnyIInv /\ [AnyNext]_allVars => [Marked]_last
  BY AnyNextInv, AnyStutterInv
<1>2. AnyIInv => Codec!FlushedOnlyAtGaps
  BY DEF AnyIInv, VencIInv, EndExpected, Codec!FlushedOnlyAtGaps
<1>3. AnySpec => AnyInit /\ [][AnyNext]_allVars
  BY PTL DEF AnySpec, AnyNext
<1>4. AnySpec => [][Marked]_last /\ []Codec!FlushedOnlyAtGaps
  BY <1>1, <1>2, <1>3, AnyInvariant, PTL
<1> QED
  BY <1>4 DEF GapsMarked, Codec!DiscontMarked, Marked
-----------------------------------------------------------------------------
(* The fs segment: when the Setup and Restore calls of different users do not overlap, *)
(* it is installed for every user that holds it, and nothing of it is left after them.  *)

\* A set of users is finite, and its cardinality tells whether it is empty.
LEMMA UserSets ==
  ASSUME NEW S \in SUBSET User
  PROVE  IsFiniteSet(S) /\ Cardinality(S) \in Nat /\ (Cardinality(S) = 0 <=> S = {})
BY UserAssumption, FS_Subset, FS_CardinalityType, FS_EmptySet

\* How the users and their number change with one user's page.
LEMMA UserAdded ==
  ASSUME NEW u \in User, NEW S \in SUBSET User, u \notin S
  PROVE  Cardinality(S \cup {u}) = Cardinality(S) + 1
BY UserSets, FS_AddElement

LEMMA UserRemoved ==
  ASSUME NEW u \in User, NEW S \in SUBSET User, u \in S
  PROVE  Cardinality(S \ {u}) = Cardinality(S) - 1 /\ (S \ {u} = {} <=> Cardinality(S) = 1)
<1>1. Cardinality(S \ {u}) = Cardinality(S) - 1
  BY UserSets, FS_RemoveElement
<1> QED
  BY <1>1, UserSets

LEMMA InitSerial == LdtInit => SerialInv
<1> SUFFICES ASSUME LdtInit PROVE SerialInv
  OBVIOUS
<1>1. Users = {}
  BY DEF LdtInit, Users
<1> QED
  BY <1>1, PageAssumption
  DEF LdtInit, SerialInv, LdtTypeOK, OneCall, PageByLocation, CountIsUsers, OnePage, Between, Stages

-----------------------------------------------------------------------------
(* The segment: steps *)

\* Every step of a serialized behaviour keeps the invariant.
LEMMA StepSerial ==
  ASSUME Serialized, SerialInv, NEW u \in User, SetupStep(u) \/ RestoreStep(u)
  PROVE  SerialInv'
<1> USE PageAssumption
<1> USE DEF SerialInv, LdtTypeOK, OneCall, PageByLocation, OnePage, Between, Stages, Goto, MayCall, Users
<1>1. ASSUME TestEntry(u) PROVE SerialInv'
  BY <1>1 DEF TestEntry, CountIsUsers
<1>2. ASSUME MapFails(u) PROVE SerialInv'
  BY <1>2 DEF MapFails, CountIsUsers
<1>3. ASSUME MapPage(u) PROVE SerialInv'
  BY <1>3, UserAdded, UserSets DEF MapPage, CountIsUsers
<1>4. ASSUME Install(u) PROVE SerialInv'
  BY <1>4 DEF Install, CountIsUsers
<1>5. ASSUME Publish(u) PROVE SerialInv'
  BY <1>5 DEF Publish, CountIsUsers
<1>6. ASSUME Share(u) PROVE SerialInv'
  <2> USE <1>6 DEF Share
  <2>1. Users' = Users \cup {u} /\ u \notin Users /\ Users # {}
    OBVIOUS
  <2>2. CountIsUsers'
    <3>1. Cardinality(Users \cup {u}) = Cardinality(Users) + 1 /\ Cardinality(Users) \in Nat
      BY <2>1, UserAdded, UserSets
    <3>2. count = Cardinality(Users) - 1
      BY <2>1 DEF CountIsUsers
    <3> HIDE DEF Users
    <3> QED
      BY <2>1, <3>1, <3>2 DEF CountIsUsers
  <2>3. LdtTypeOK'
    OBVIOUS
  <2>4. OneCall'
    BY <2>1
  <2>5. PageByLocation'
    BY <2>1
  <2>6. global = ldt /\ \A v \in Users : ldt = seg[v]
    BY <2>1
  <2>7. OnePage'
    BY <2>1, <2>6
  <2> QED
    BY <2>2, <2>3, <2>4, <2>5, <2>7
<1>7. ASSUME RestoreNull(u) PROVE SerialInv'
  BY <1>7 DEF RestoreNull, CountIsUsers
<1>8. ASSUME TestCount(u) PROVE SerialInv'
  BY <1>8 DEF TestCount, CountIsUsers
<1>9. ASSUME Uncount(u) PROVE SerialInv'
  BY <1>9, UserRemoved, UserSets DEF Uncount, CountIsUsers
<1>10. ASSUME Unmap(u) PROVE SerialInv'
  <2> USE <1>10 DEF Unmap
  <2>1. Cardinality(Users) = 1 /\ u \in Users
    BY UserSets DEF CountIsUsers
  <2>2. Users \ {u} = {}
    BY <2>1, UserRemoved
  <2>3. Users' = {}
    BY <2>1, <2>2
  <2> QED
    BY <2>1, <2>2, <2>3 DEF CountIsUsers
<1>11. ASSUME ClearEntry(u) PROVE SerialInv'
  BY <1>11 DEF ClearEntry, CountIsUsers
<1> QED
  BY <1>1, <1>2, <1>3, <1>4, <1>5, <1>6, <1>7, <1>8, <1>9, <1>10, <1>11
  DEF SetupStep, RestoreStep

-----------------------------------------------------------------------------
(* The segment: theorems *)

LEMMA SerialInvariant == Serialized => (LdtSpec => []SerialInv)
<1> SUFFICES ASSUME Serialized PROVE LdtSpec => []SerialInv
  OBVIOUS
<1>1. SerialInv /\ [LdtNext]_ldtVars => SerialInv'
  <2> SUFFICES ASSUME SerialInv, [LdtNext]_ldtVars PROVE SerialInv'
    OBVIOUS
  <2>1. CASE LdtNext
    BY <2>1, StepSerial DEF LdtNext
  <2>2. CASE UNCHANGED ldtVars
    BY <2>2 DEF ldtVars, SerialInv, LdtTypeOK, OneCall, PageByLocation, CountIsUsers, OnePage, Users
  <2> QED
    BY <2>1, <2>2
<1> QED
  BY <1>1, InitSerial, PTL DEF LdtSpec

\* Every reachable state of a serialized behaviour is well typed.
THEOREM SegmentTyped == Serialized => (LdtSpec => []LdtTypeOK)
BY SerialInvariant, PTL DEF SerialInv

\* The entry is installed and mapped for every user that holds the segment.
THEOREM HoldersServed == Serialized => (LdtSpec => []HoldersHaveSegment)
<1>1. SerialInv => HoldersHaveSegment
  BY DEF SerialInv, OnePage, HoldersHaveSegment, Holders, Users
<1> QED
  BY <1>1, SerialInvariant, PTL

\* The page and the entry are given back when the last user has left.
THEOREM NothingLeaks == Serialized => (LdtSpec => []NothingLeft)
<1>1. SerialInv => NothingLeft
  BY DEF SerialInv, OnePage, PageByLocation, NothingLeft, Holders, Users, Between
<1> QED
  BY <1>1, SerialInvariant, PTL

\* Beside the elements of MCElements the segment goes on as it would alone, so that its
\* theorems hold there.
THEOREM SegmentAlone == AnySpec => LdtSpec
<1>1. AnyInit => LdtInit
  BY DEF AnyInit
<1>2. [AnyNext]_allVars => [LdtNext]_ldtVars
  BY DEF AnyNext, allVars, loaderOnly, VideoNext, CodecNext, DshowNext, QtNext, RegistryNext, AudioNext, TimesNext,
         SegmentNext
<1>3. AnySpec => AnyInit /\ [][AnyNext]_allVars
  BY PTL DEF AnySpec, AnyNext
<1> QED
  BY <1>1, <1>2, <1>3, PTL DEF LdtSpec
=============================================================================

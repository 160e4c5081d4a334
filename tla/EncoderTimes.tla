----------------------------- MODULE EncoderTimes -----------------------------
(***************************************************************************)
(* The times of what the encoder elements push (ext/pitfdll/dmo_aenc.c,    *)
(* dmo_venc.c).  A DMO counts in units of 100 ns; it may give a frame the  *)
(* times of its input, in whole units.  For a frame without them the       *)
(* element guesses: the timestamp of the input that the buffer was         *)
(* allocated for, and the sum of the durations since.  All is unsigned and *)
(* wraps; a time that is missing is all ones, as is the duration of a new  *)
(* buffer.                                                                 *)
(*                                                                         *)
(* DmoCodecs has the rest of the chain functions.  The DMO makes one frame *)
(* of each input it takes.                                                 *)
(***************************************************************************)
EXTENDS Integers, Sequences

CONSTANTS Clock,      \* a GstClockTime is a number modulo this: 2^64
          Unit,       \* nanoseconds of a REFERENCE_TIME: 100
          Stamps, Spans,    \* timestamps and durations of the input
          MaxInputs,  \* bound of the inputs between two pushes
          None

VARIABLES
  loop,        \* "idle" or "drain"
  outTimes,    \* the times of enc->out_buffer: [ts, dur], or None without one
  stamp,       \* the local timestamp of chain
  queue,       \* what the DMO knows of the frames it has: [told, ts, dur]
  since,       \* history: [first, sum, n] of the inputs since the buffer was allocated
  again,       \* history: the buffer is not the first of the call
  pushed       \* history: the last buffer pushed in the call, with what is known of it

timeVars == <<loop, outTimes, stamp, queue, since, again, pushed>>

NoTime == Clock - 1
Plus(t, d) == (t + d) % Clock
TimesOf(t, d) == [ts |-> t, dur |-> d]

Init ==
  /\ loop = "idle" /\ outTimes = None /\ stamp = 0 /\ queue = <<>>
  /\ since = None /\ again = FALSE /\ pushed = None

\* A duration shorter than a unit is as none; one that is missing is very long.
Told(t, d) == [told |-> d \div Unit # 0, ts |-> t, dur |-> d]

\* A new buffer has no duration, and the sum begins with that.
Guessed(t, d) ==
  IF outTimes = None THEN TimesOf(t, Plus(NoTime, d)) ELSE [outTimes EXCEPT !.dur = Plus(@, d)]

\* An input, taken or refused, and the guess.  The DMO may have frames to collect.
ProcessInput(t, d) ==
  /\ loop = "idle" /\ (since # None => since.n < MaxInputs)
  /\ queue' \in {queue, Append(queue, Told(t, d))}
  /\ outTimes' = Guessed(t, d)
  /\ stamp' = outTimes'.ts
  /\ since' = IF outTimes = None THEN [first |-> t, sum |-> d, n |-> 1]
              ELSE [since EXCEPT !.sum = Plus(@, d), !.n = @ + 1]
  /\ loop' \in {"idle", "drain"}
  /\ again' = FALSE /\ pushed' = None

\* No buffer could be allocated: the input counts for no guess.
AllocFails(t, d) ==
  /\ loop = "idle" /\ outTimes = None
  /\ queue' \in {queue, Append(queue, Told(t, d))}
  /\ UNCHANGED <<loop, outTimes, stamp, since, again, pushed>>

\* The DMO's times replace the guess when it says that it has both.
Stamped(f) == TimesOf((f.ts \div Unit) * Unit, (f.dur \div Unit) * Unit)

\* A frame, with its times or without, or nothing; every other buffer of the call
\* begins where the first did, without a duration.
Push(more) ==
  /\ loop = "drain"
  /\ \/ /\ queue # <<>>
        /\ queue' = Tail(queue)
        /\ \E set \in IF Head(queue).told THEN BOOLEAN ELSE {FALSE} :
             pushed' = [frame |-> Head(queue), set |-> set, again |-> again, since |-> since,
                        times |-> IF set THEN Stamped(Head(queue)) ELSE outTimes]
     \/ UNCHANGED <<queue, pushed>>
  /\ IF more THEN outTimes' = TimesOf(stamp, 0) /\ again' = TRUE /\ UNCHANGED <<loop, since>>
             ELSE outTimes' = None /\ again' = FALSE /\ loop' = "idle" /\ since' = None
  /\ UNCHANGED stamp

\* Back to READY the DMO goes; the buffer stays, with the times of the old stream.
Restart ==
  /\ loop = "idle" /\ queue # <<>>
  /\ queue' = <<>>
  /\ UNCHANGED <<loop, outTimes, stamp, since, again, pushed>>

TimesNext ==
  \/ \E t \in Stamps, d \in Spans : Len(queue) < 2 /\ (ProcessInput(t, d) \/ AllocFails(t, d))
  \/ \E more \in BOOLEAN : Push(more)
  \/ Restart

-----------------------------------------------------------------------------
(* Properties *)

\* The times of the DMO are those of the frame but for less than a unit, and also where
\* the input had none.  A guess begins with the first input since the buffer was
\* allocated; its duration is one short of theirs, or zero for later buffers of a call.
TimesExplained ==
  pushed # None =>
    IF pushed.set
    THEN /\ pushed.frame.ts - pushed.times.ts \in 0..Unit - 1
         /\ pushed.frame.dur - pushed.times.dur \in 0..Unit - 1 /\ pushed.times.dur > 0
    ELSE /\ pushed.times.ts = pushed.since.first
         /\ IF pushed.again THEN pushed.times.dur = 0
            ELSE Plus(pushed.times.dur, 1) = pushed.since.sum
=============================================================================

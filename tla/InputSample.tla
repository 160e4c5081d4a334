----------------------------- MODULE InputSample -----------------------------
(***************************************************************************)
(* What a sample tells a codec (dshow/cmediasample.c): its memory, length  *)
(* and flags, as the video decoder fills it for every frame                *)
(* (DS_VideoDecoder.c).  The one sample of the codec's input pin is used   *)
(* again and again; a frame longer than its memory moves it.  The codec    *)
(* (external) reads what it likes, and may set the same fields.            *)
(*                                                                         *)
(* MemAllocator models when samples are lent, and how those of the output  *)
(* side are redirected.                                                    *)
(***************************************************************************)
EXTENDS Naturals

CONSTANTS FrameSizes, \* sizes of frames; the smallest is lSampleSize
          MaxFrames,  \* bound of the frames decoded
          MaxReferences,    \* bound of the codec's references
          None

VARIABLES
  sample,      \* the sample, None when there is none
  references,  \* CMediaSample.refcount
  content,     \* memory -> the frame copied to it last, 0 when there is none
  frame,       \* the frame given last: [id, size, key, shown]
  within,      \* the codec is in Receive
  seen,        \* what the codec read last in this call, or None
  marked       \* history: the codec set fields of the sample in this call

sampleVars == <<sample, references, content, frame, within, seen, marked>>

Least == CHOOSE n \in FrameSizes : \A m \in FrameSizes : n <= m
Blocks == 1..(MaxFrames + 1)

-----------------------------------------------------------------------------
(* CMediaSample *)

\* Every field has its value but the sync point, which nobody sets here.
CMediaSampleCreate(size, sync) ==
  [block |-> 1, size |-> size, actual_size |-> 0, isSyncPoint |-> sync, isPreroll |-> FALSE,
   isDiscontinuity |-> TRUE, time |-> 0]

GetPointer(s) == s.block

\* Memory that is too short is allocated again, perhaps elsewhere.
SetActualDataLength(s, n, to) ==
  IF n > s.size THEN [s EXCEPT !.actual_size = n, !.size = n, !.block = to] ELSE [s EXCEPT !.actual_size = n]

SetSyncPoint(s, b) == [s EXCEPT !.isSyncPoint = b]
SetPreroll(s, b) == [s EXCEPT !.isPreroll = b]
SetDiscontinuity(s, b) == [s EXCEPT !.isDiscontinuity = b]
SetMediaTime(s, t) == [s EXCEPT !.time = t]

-----------------------------------------------------------------------------

Init ==
  /\ sample = None /\ references = 0 /\ content = [b \in Blocks |-> 0]
  /\ frame = [id |-> 0, size |-> Least, key |-> FALSE, shown |-> FALSE] /\ within = FALSE /\ seen = None /\ marked = FALSE

\* The commit of the one sample when the decoder starts.
Open ==
  /\ sample = None
  /\ \E sync \in BOOLEAN : sample' = CMediaSampleCreate(Least, sync)
  /\ references' = 0 /\ content' = [b \in Blocks |-> 0]
  /\ UNCHANGED <<frame, within, seen, marked>>

\* The address is asked for when the sample has its length.
Filled(s, f, to) ==
  LET longer == SetActualDataLength(s, f.size, to) IN
  /\ content' = [content EXCEPT ![GetPointer(longer)] = f.id]
  /\ sample' = SetPreroll(SetSyncPoint(longer, f.key), ~f.shown)

\* DecodeInternal up to Receive: a sample that the codec kept is not lent again, and
\* nothing is decoded.
Decode ==
  /\ sample # None /\ ~within /\ references = 0
  /\ frame.id < MaxFrames
  /\ \E n \in FrameSizes, key, shown \in BOOLEAN, to \in {sample.block, sample.block + 1} :
       LET f == [id |-> frame.id + 1, size |-> n, key |-> key, shown |-> shown] IN
       Filled(sample, f, to) /\ frame' = f
  /\ references' = 1
  /\ within' = TRUE /\ seen' = None /\ marked' = FALSE

\* The codec asks for everything the sample tells.
CodecReads ==
  /\ within
  /\ seen' = [content |-> content[GetPointer(sample)], length |-> sample.actual_size, key |-> sample.isSyncPoint,
              preroll |-> sample.isPreroll, discontinuity |-> sample.isDiscontinuity, size |-> sample.size]
  /\ UNCHANGED <<sample, references, content, frame, within, marked>>

\* The codec sets what it likes.
CodecSets ==
  /\ within
  /\ \E b \in BOOLEAN :
       \/ sample' = SetDiscontinuity(sample, b) \/ sample' = SetSyncPoint(sample, b)
       \/ sample' = SetPreroll(sample, b) \/ sample' = SetActualDataLength(sample, 0, sample.block)
       \/ sample' = SetMediaTime(sample, frame.id)
  /\ marked' = TRUE
  /\ UNCHANGED <<references, content, frame, within, seen>>

\* One object whichever interface is asked for.
QueryInterface ==
  /\ within /\ references <= MaxReferences
  /\ references' = references + 1
  /\ UNCHANGED <<sample, content, frame, within, seen, marked>>

Release ==
  /\ references > (IF within THEN 1 ELSE 0)
  /\ references' = references - 1
  /\ UNCHANGED <<sample, content, frame, within, seen, marked>>

\* The decoder gives its reference back.
Returned ==
  /\ within
  /\ within' = FALSE /\ seen' = None
  /\ references' = references - 1
  /\ UNCHANGED <<sample, content, frame, marked>>

\* Decommit: the memory goes, whoever refers to it; here nobody does.
Close ==
  /\ sample # None /\ ~within /\ references = 0
  /\ sample' = None
  /\ UNCHANGED <<references, content, frame, within, seen, marked>>

SampleNext == Open \/ Decode \/ CodecReads \/ CodecSets \/ QueryInterface \/ Release \/ Returned \/ Close
-----------------------------------------------------------------------------

\* However often the sample was used, moved and marked by the codec, what a codec reads
\* that did not mark it in this call is this frame: its bytes, length, whether it is a key
\* frame and whether it is shown; and the memory is as long as the sample says.
SampleTells ==
  seen # None =>
    /\ seen.content = frame.id /\ seen.length <= seen.size
    /\ ~marked => seen.length = frame.size /\ seen.key = frame.key /\ seen.preroll = ~frame.shown
=============================================================================

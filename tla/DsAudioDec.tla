------------------------------ MODULE DsAudioDec ------------------------------
(***************************************************************************)
(* The DirectShow audio decoder (dshow/DS_AudioDecoder.c): its caller      *)
(* offers blocks and room for their frames; the codec is given one block   *)
(* in the one sample of its input pin, and hands frames to our output pin  *)
(* while it has it.  The output pin keeps the addresses of two locals of   *)
(* the call, where only the last frame is noted.  The codec and the caller *)
(* (no element of the plugin uses this decoder) are external.              *)
(***************************************************************************)
EXTENDS Naturals

CONSTANTS Aligns,    \* what a file says of nBlockAlign
          Lengths,   \* lengths a codec gives to a frame
          Rooms,     \* bytes the caller has room for
          MaxBlocks, MaxFrames,     \* bounds: blocks read, frames delivered
          None

VARIABLES
  call,         \* "closed", "idle", "receive" (the codec has the block) or "crashed"
  nBlockAlign,  \* in_fmt.nBlockAlign
  room,         \* out_size of the call
  kept,         \* the codec keeps the sample of its input pin
  sample,       \* the sample of the output pin: [size, actual, block]: block is the memory it has
  frame,        \* frame_pointer and frame_size: [id, length], or None
  acked,        \* blocks that were counted as read
  fed,          \* history: how often the codec was given each block
  refusals,     \* history: how often no room was left for the frame of each block
  produced,     \* history: frames that the codec delivered
  given,        \* history: those that the caller has
  dropped       \* history: those that came before another in a call, or found no room

audioVars == <<call, nBlockAlign, room, kept, sample, frame, acked, fed, refusals, produced, given, dropped>>
histories == <<acked, fed, refusals, produced, given, dropped>>

None0 == [b \in 1..MaxBlocks |-> 0]
Sample(size, actual, block) == [size |-> size, actual |-> actual, block |-> block]

Init ==
  /\ call = "closed" /\ nBlockAlign = 0 /\ room = 0 /\ kept = FALSE
  /\ sample = Sample(1, 0, 1) /\ frame = None
  /\ acked = 0 /\ fed = None0 /\ refusals = None0
  /\ produced = 0 /\ given = {} /\ dropped = {}

\* The types of both pins, the filter, and one input sample of the size of a block; the
\* pool of the output pin is the codec's to commit, here with the size of its smallest frame.
Open(a) ==
  /\ call = "closed"
  /\ call' = "idle" /\ nBlockAlign' = a /\ kept' = FALSE
  /\ sample' = Sample(1, 0, 1) /\ frame' = None
  /\ UNCHANGED <<room, histories>>

Destroy ==
  /\ call = "idle"
  /\ call' = "closed" /\ kept' = FALSE
  /\ UNCHANGED <<nBlockAlign, room, sample, frame, histories>>

\* The bytes GetSrcSize asks for to fill a buffer of so many, of a codec that makes one
\* frame of two bytes for each block.
SrcSize(bytes) == (IF bytes < 2 THEN 1 ELSE bytes \div 2) * nBlockAlign

\* The rest of a block is left; without a block, or while the codec keeps the sample,
\* nothing is read.  However much was offered, one block is given.
Convert(bytes, r) ==
  /\ call = "idle" /\ acked < MaxBlocks
  /\ frame' = None
  /\ IF nBlockAlign = 0 THEN call' = "crashed" /\ UNCHANGED <<room, fed>>
     ELSE IF bytes < nBlockAlign \/ kept THEN UNCHANGED <<call, room, fed>>
     ELSE /\ call' = "receive" /\ room' = r
          /\ fed' = [fed EXCEPT ![acked + 1] = @ + 1]
  /\ UNCHANGED <<nBlockAlign, kept, sample, acked, refusals, produced, given, dropped>>

\* SetActualDataLength: a longer frame has the sample's block grow.
SetActualDataLength(n) ==
  sample' = IF n > sample.size THEN Sample(n, n, n) ELSE [sample EXCEPT !.actual = n]

\* COutputPin_Receive notes the frame where the call told it to; a sample whose length
\* the codec never set is taken to be full.  Its length stays when it is used again.
Noted(s) == [id |-> produced + 1, length |-> IF s.actual = 0 THEN s.size ELSE s.actual]

Receive ==
  /\ call = "receive" /\ produced < MaxFrames
  /\ \/ UNCHANGED sample
     \/ \E n \in Lengths : SetActualDataLength(n)
  /\ frame' = Noted(sample')
  /\ produced' = produced + 1
  /\ dropped' = dropped \cup (IF frame = None THEN {} ELSE {frame.id})
  /\ UNCHANGED <<call, nBlockAlign, room, kept, acked, fed, refusals, given>>

\* The codec takes or drops a reference to its input sample.
Keep(k) ==
  /\ k # kept /\ call \in (IF k THEN {"receive"} ELSE {"receive", "idle"})
  /\ kept' = k
  /\ UNCHANGED <<call, nBlockAlign, room, sample, frame, histories>>

\* A frame delivered after the call goes to where its locals were.
ReceiveLate ==
  /\ call = "idle"
  /\ call' \in {"idle", "crashed"}
  /\ UNCHANGED <<nBlockAlign, room, kept, sample, frame, histories>>

\* The last frame is copied, if there is one, and the block counted; but a frame that
\* finds no room is dropped, and its block not counted although the codec has it.
Returned ==
  /\ call = "receive"
  /\ call' = "idle" /\ frame' = None
  /\ IF frame = None \/ frame.length <= room
     THEN /\ acked' = acked + 1
          /\ given' = IF frame = None THEN given ELSE given \cup {frame}
          /\ UNCHANGED <<refusals, dropped>>
     ELSE /\ refusals' = [refusals EXCEPT ![acked + 1] = @ + 1]
          /\ dropped' = dropped \cup {frame.id}
          /\ UNCHANGED <<acked, given>>
  /\ UNCHANGED <<nBlockAlign, room, kept, sample, fed, produced>>

AudioNext ==
  \/ \E a \in Aligns : Open(a)
  \/ Destroy
  \/ \E r \in Rooms : \E bytes \in {SrcSize(r), SrcSize(r) + 1, nBlockAlign \div 2} : Convert(bytes, r)
  \/ Receive \/ ReceiveLate \/ Returned
  \/ \E k \in BOOLEAN : Keep(k)

-----------------------------------------------------------------------------
(* Properties *)

Current == IF frame = None THEN {} ELSE {frame.id}

\* A block that was counted as read was given to the codec once, and once more for each
\* time that its frame found no room; no block but the next one was given at all.  Every
\* frame that the codec delivered is the caller's, or the call's still, or was dropped,
\* and never two of these.  And no frame is longer than the memory it is copied from.
BlocksAccounted ==
  /\ \A b \in 1..MaxBlocks :
       fed[b] = refusals[b] + (IF b <= acked \/ (b = acked + 1 /\ call = "receive") THEN 1 ELSE 0)
  /\ LET ids == {f.id : f \in given} IN
       /\ 1..produced = ids \cup dropped \cup Current
       /\ ids \cap dropped = {} /\ Current \cap (ids \cup dropped) = {}
  /\ sample.size <= sample.block /\ (frame # None => frame.length <= sample.block)
=============================================================================

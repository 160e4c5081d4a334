--------------------------- MODULE DshowVideoDec ---------------------------
(***************************************************************************)
(* The DirectShow video decoder element (ext/pitfdll/dshow_vdec.c) on top  *)
(* of DS_VideoDecoder.c, whose own steps are in DsFilter.  The variables   *)
(* it has in common with the other elements have the names of DmoVideoDec. *)
(*                                                                         *)
(* The chain function has no check of its own: a buffer of the caps that   *)
(* were accepted last reaches whatever codec there is, also when later     *)
(* caps were refused.  It pushes a picture whether or not one was decoded. *)
(***************************************************************************)
EXTENDS Naturals

CONSTANTS Caps,       \* formats
          None,
          MaxSetups   \* bound of the calls of Setup_LDT_Keeper

VARIABLES
  state,       \* "NULL", "READY", "PAUSED"
  setups,      \* Setup_LDT_Keeper calls less Restore_LDT_Keeper calls
  ctx,         \* dec->ctx: the caps it was opened for
  codecs,      \* CodecAlloc calls less CodecRelease calls
  padCaps,     \* the last caps the sink pad accepted: those of its buffers
  flushing,    \* of the sink pad
  pc,          \* of the streaming thread: "idle", "alloc" or "crashed"
  started,     \* the codec runs and has given its allocator
  pAllocator,  \* the allocator that its output pin was notified of: "null",
               \* "live" or "freed"
  deaf,        \* downstream saw a FLUSH_START and no FLUSH_STOP
  refused      \* history: the last caps were refused, or its codec not startable

app == <<state, setups>>
element == <<ctx, codecs, padCaps, started, pAllocator>>
vars == <<app, element, flushing, pc, deaf, refused>>

Init ==
  /\ state = "NULL" /\ setups = 0
  /\ ctx = None /\ codecs = 0 /\ padCaps = None /\ started = FALSE /\ pAllocator = "null"
  /\ flushing = FALSE /\ pc = "idle" /\ deaf = FALSE /\ refused = FALSE

-----------------------------------------------------------------------------
(* State changes *)

\* The LDT stays set up when the parent class fails.
NullToReady ==
  /\ state = "NULL" /\ setups < MaxSetups
  /\ setups' = setups + 1
  /\ state' \in {"NULL", "READY"}
  /\ UNCHANGED <<element, flushing, pc, deaf, refused>>

\* The pads are activated, without caps and not flushing.
ReadyToPaused ==
  /\ state = "READY"
  /\ state' = "PAUSED"
  /\ deaf' = FALSE
  /\ UNCHANGED <<setups, element, flushing, pc, refused>>

\* DS_VideoDecoder_Destroy.
Destroyed == /\ ctx' = None /\ started' = FALSE /\ pAllocator' = "null"
             /\ codecs' = IF ctx = None THEN codecs ELSE codecs - 1

PausedToReady ==
  /\ state = "PAUSED" /\ pc = "idle"
  /\ state' = "READY"
  /\ padCaps' = None /\ flushing' = FALSE
  /\ Destroyed
  /\ UNCHANGED <<setups, pc, deaf, refused>>

ReadyToNull ==
  /\ state = "READY"
  /\ state' = "NULL" /\ setups' = setups - 1
  /\ UNCHANGED <<element, flushing, pc, deaf, refused>>

-----------------------------------------------------------------------------
(* Caps *)

Serialised == state = "PAUSED" /\ pc = "idle"

\* No size or frame rate, or the codec cannot be opened.
SetCapsFails ==
  /\ Serialised /\ ~flushing
  /\ Destroyed
  /\ refused' = TRUE
  /\ UNCHANGED <<app, padCaps, flushing, pc, deaf>>

\* Whether the codec notifies a pin that it is connected to of an allocator is its
\* own choice; the pin takes no reference, and disconnecting frees the allocator.
Notified == {"null", "live"}
Disconnected(p) == IF p = "live" THEN "freed" ELSE p

Opened(c) == /\ ctx' = c
             /\ codecs' = (IF ctx = None THEN codecs ELSE codecs - 1) + 1

\* Downstream refuses: the codec is kept, but not started.
SetCapsNotNegotiated(c) ==
  /\ Serialised /\ ~flushing
  /\ Opened(c) /\ started' = FALSE /\ pAllocator' \in Notified
  /\ refused' = TRUE
  /\ UNCHANGED <<app, padCaps, flushing, pc, deaf>>

\* DS_VideoDecoder_SetDestFmt: a format that is refused changes nothing; for one
\* that is accepted both pins are disconnected and connected anew, which either
\* may refuse: then the output stays disconnected.
AfterSetDestFmt(p) == {p, Disconnected(p)} \cup Notified

\* Mutant: the codec is not started.
SetCapsNotStarted(c) ==
  /\ Serialised /\ ~flushing
  /\ Opened(c) /\ started' = FALSE /\ padCaps' = c /\ refused' = FALSE
  /\ \E p \in Notified : pAllocator' \in AfterSetDestFmt(p)
  /\ UNCHANGED <<app, flushing, pc, deaf>>

\* The result of SetDestFmt is ignored, and StartInternal uses the allocator of the
\* codec without a look.
SetCaps(c) ==
  /\ Serialised /\ ~flushing
  /\ Opened(c)
  /\ \E p \in Notified : pAllocator' \in AfterSetDestFmt(p)
  /\ \/ started' = TRUE /\ padCaps' = c /\ refused' = FALSE /\ UNCHANGED pc
     \/ pc' = "crashed" /\ refused' = TRUE /\ started' = FALSE /\ UNCHANGED padCaps
  /\ UNCHANGED <<app, flushing, deaf>>

-----------------------------------------------------------------------------
(* Buffers and events *)

Chain ==
  /\ Serialised /\ ~flushing /\ padCaps # None
  /\ pc' = "alloc"
  /\ UNCHANGED <<app, element, flushing, deaf, refused>>

\* Without a buffer from downstream the input is dropped.
AllocFails ==
  /\ pc = "alloc"
  /\ pc' = "idle"
  /\ UNCHANGED <<app, element, flushing, deaf, refused>>

\* The buffer is stamped, the input decoded into it and the result pushed.  The pointer
\* to the buffer is written to the allocator of the output pin: when that has been
\* freed, what follows is undefined.
DecodeAndPush ==
  /\ pc = "alloc" /\ ~deaf
  /\ pc' \in IF ctx = None \/ ~started THEN {"crashed"}
            ELSE IF pAllocator = "freed" THEN {"idle", "crashed"} ELSE {"idle"}
  /\ UNCHANGED <<app, element, flushing, deaf, refused>>

\* Both the pad and what is downstream flush ...
FlushStart ==
  /\ state = "PAUSED" /\ ~flushing
  /\ flushing' = TRUE /\ deaf' = TRUE
  /\ UNCHANGED <<app, element, pc, refused>>

\* ... and only the pad stops: the event is not forwarded.
FlushStop ==
  /\ Serialised /\ flushing
  /\ flushing' = FALSE
  /\ UNCHANGED <<app, element, pc, deaf, refused>>

-----------------------------------------------------------------------------
Next == \/ NullToReady \/ ReadyToPaused \/ PausedToReady \/ ReadyToNull
        \/ SetCapsFails
        \/ \E c \in Caps : SetCapsNotNegotiated(c) \/ SetCaps(c)
        \/ Chain \/ AllocFails \/ DecodeAndPush \/ FlushStart \/ FlushStop

Spec == Init /\ [][Next]_vars

-----------------------------------------------------------------------------
(* Properties *)

\* Every variable has its type.
TypeOK ==
  /\ state \in {"NULL", "READY", "PAUSED"} /\ setups \in 0..MaxSetups
  /\ {ctx, padCaps} \subseteq Caps \cup {None} /\ codecs \in 0..1
  /\ {started, flushing, deaf, refused} \subseteq BOOLEAN
  /\ pc \in {"idle", "alloc", "crashed"} /\ pAllocator \in {"null", "live", "freed"}

\* A codec is open only outside NULL and on an LDT that is set up, and the codec
\* count is that of the codecs of the element.
CodecHeld ==
  /\ ctx # None => state = "PAUSED" /\ setups > 0
  /\ codecs = IF ctx = None THEN 0 ELSE 1

\* The process ends only when the last caps were refused or their codec has no
\* allocator to give, and then with a buffer of the caps before, or when a codec
\* that accepted them was left disconnected by SetDestFmt.
UsableUnlessRefused == pc = "crashed" => refused \/ pAllocator = "freed"
=============================================================================

---------------------------- MODULE QtAudioDec ----------------------------
(***************************************************************************)
(* The QuickTime audio decoder element (ext/pitfdll/qt_adec.c).  The       *)
(* variables it has in common with the other elements have the names of    *)
(* DmoVideoDec.                                                            *)
(*                                                                         *)
(* The sound converter takes whole frames.  The rest of a buffer is kept   *)
(* in a cache and joined with the next one, across flushes and new caps as *)
(* well.  Sizes are counted in small units; what a frame is depends on the *)
(* caps.  A mutex is held through each function; chain and set-caps have   *)
(* the stream lock besides, so that only state changes wait for it.        *)
(***************************************************************************)
EXTENDS Naturals

CONSTANTS None,
          FrameSizes, \* of an input frame; a converter may also answer zero
          MaxSize,    \* bound of the size of a buffer
          MaxSetups   \* bound of the calls of Setup_LDT_Keeper

VARIABLES
  state,       \* "NULL", "READY", "PAUSED"
  setups,      \* Setup_LDT_Keeper calls less Restore_LDT_Keeper calls
  ctx,         \* dec->ctx: "opened", "begun" or None
  padCaps,     \* TRUE when the sink pad accepted caps
  flushing,    \* of the sink pad
  pc,          \* of the streaming thread: "idle", "loop", "convert", "keep", "crashed"
  dll,         \* dec->dll
  in_framesize,
  cache,       \* size of dec->cache
  size,        \* in chain: the bytes left
  ret,         \* what chain returned: "ok" or "error"
  owed,        \* history: bytes taken that were not converted, nor dropped with an error
  refused      \* history: the last caps were refused, or came with a frame size of zero

app == <<state, setups, dll>>
converter == <<ctx, in_framesize>>
chain == <<size, ret>>
vars == <<app, converter, padCaps, flushing, pc, cache, chain, owed, refused>>

Init ==
  /\ state = "NULL" /\ setups = 0 /\ dll = FALSE
  /\ ctx = None /\ in_framesize = 0 /\ padCaps = None
  /\ flushing = FALSE /\ pc = "idle" /\ cache = 0 /\ size = 0 /\ ret = "ok"
  /\ owed = 0 /\ refused = FALSE

-----------------------------------------------------------------------------
(* State changes *)

\* The library cannot be loaded or lacks a symbol: all is given back.
NullToReadyFails ==
  /\ state = "NULL"
  /\ dll' = FALSE
  /\ UNCHANGED <<state, setups, converter, padCaps, flushing, pc, cache, chain, owed, refused>>

\* The parent class may fail afterwards, which leaves library and LDT as they are.
NullToReady ==
  /\ state = "NULL" /\ setups < MaxSetups
  /\ setups' = setups + 1 /\ dll' = TRUE
  /\ state' \in {"NULL", "READY"}
  /\ UNCHANGED <<converter, padCaps, flushing, pc, cache, chain, owed, refused>>

ReadyToPaused ==
  /\ state = "READY"
  /\ state' = "PAUSED"
  /\ UNCHANGED <<setups, dll, converter, padCaps, flushing, pc, cache, chain, owed, refused>>

\* Mutant: the cache is kept for the next stream.
PausedToReadyKeepsCache ==
  /\ state = "PAUSED" /\ pc = "idle"
  /\ state' = "READY"
  /\ padCaps' = None /\ flushing' = FALSE
  /\ ctx' = None /\ owed' = 0
  /\ UNCHANGED <<setups, dll, in_framesize, pc, cache, chain, refused>>

PausedToReady ==
  /\ state = "PAUSED" /\ pc = "idle"
  /\ state' = "READY"
  /\ padCaps' = None /\ flushing' = FALSE
  /\ ctx' = None /\ cache' = 0 /\ owed' = 0
  /\ UNCHANGED <<setups, dll, in_framesize, pc, chain, refused>>

ReadyToNull ==
  /\ state = "READY"
  /\ state' = "NULL" /\ setups' = setups - 1 /\ dll' = FALSE
  /\ UNCHANGED <<converter, padCaps, flushing, pc, cache, chain, owed, refused>>

-----------------------------------------------------------------------------
(* Caps *)

Serialised == state = "PAUSED" /\ pc = "idle" /\ ~flushing

\* The former converter is closed first.  A failure leaves the new one unopened,
\* or open and never begun when a later step failed.
SetCapsFails ==
  /\ Serialised /\ dll
  /\ ctx' \in {None, "opened"}
  /\ refused' = TRUE
  /\ UNCHANGED <<app, in_framesize, padCaps, flushing, pc, cache, chain, owed>>

\* The cache of the former format stays.
SetCaps ==
  /\ Serialised /\ dll
  /\ ctx' = "begun" /\ padCaps' = "caps"
  /\ in_framesize' \in FrameSizes \cup {0}
  /\ refused' = (in_framesize' = 0)
  /\ UNCHANGED <<app, flushing, pc, cache, chain, owed>>

-----------------------------------------------------------------------------
(* The chain function *)

\* The buffer is joined with the cache.
Chain ==
  /\ Serialised /\ padCaps # None
  /\ \E n \in 1..MaxSize : size' = cache + n /\ owed' = owed + n
  /\ cache' = 0
  /\ pc' = "loop"
  /\ UNCHANGED <<app, converter, padCaps, flushing, ret, refused>>

\* A frame size of zero ends the process.
Divide ==
  /\ pc = "loop"
  /\ pc' = IF in_framesize = 0 THEN "crashed" ELSE IF size >= in_framesize THEN "convert" ELSE "keep"
  /\ UNCHANGED <<app, converter, padCaps, flushing, cache, chain, owed, refused>>

\* No buffer from downstream, or the converter fails: the input is dropped with
\* the bytes that came from the cache.
Beach ==
  /\ pc = "convert"
  /\ pc' = "idle" /\ size' = 0 /\ owed' = 0
  /\ ret' \in {"ok", "error"}
  /\ UNCHANGED <<app, converter, padCaps, flushing, cache, refused>>

\* All frames there are go to the converter in one call, and its output is pushed.
ConvertAndPush ==
  /\ pc = "convert"
  /\ IF ctx = "begun"
     THEN LET frames == size \div in_framesize IN
          /\ size' = size - frames * in_framesize
          /\ owed' = owed - frames * in_framesize
          /\ pc' = "loop" /\ ret' \in {"ok", "error"}
     ELSE pc' = "crashed" /\ UNCHANGED <<chain, owed>>
  /\ UNCHANGED <<app, converter, padCaps, flushing, cache, refused>>

\* When nothing was converted the value returned was never set.
Keep ==
  /\ pc = "keep"
  /\ cache' = size /\ size' = 0
  /\ pc' = "idle" /\ ret' \in {"ok", "error"}
  /\ UNCHANGED <<app, converter, padCaps, flushing, owed, refused>>

\* Flushes are forwarded; neither drops the cache nor tells the converter.
Flush ==
  /\ state = "PAUSED"
  /\ flushing => pc = "idle"
  /\ flushing' = ~flushing
  /\ UNCHANGED <<app, converter, padCaps, pc, cache, chain, owed, refused>>

-----------------------------------------------------------------------------
Next == \/ NullToReadyFails \/ NullToReady \/ ReadyToPaused \/ PausedToReady \/ ReadyToNull
        \/ SetCapsFails \/ SetCaps
        \/ Chain \/ Divide \/ Beach \/ ConvertAndPush \/ Keep \/ Flush

Spec == Init /\ [][Next]_vars

-----------------------------------------------------------------------------
(* Properties *)

\* Every variable has its type.
TypeOK ==
  /\ state \in {"NULL", "READY", "PAUSED"} /\ setups \in 0..MaxSetups
  /\ ctx \in {None, "opened", "begun"} /\ padCaps \in {None, "caps"}
  /\ {flushing, dll, refused} \subseteq BOOLEAN
  /\ pc \in {"idle", "loop", "convert", "keep", "crashed"}
  /\ in_framesize \in FrameSizes \cup {0} /\ {cache, size, owed} \subseteq Nat
  /\ ret \in {"ok", "error"}

\* A converter is open only while its library is loaded and the LDT set up.
ConverterHeld == ctx # None => dll /\ setups > 0 /\ state = "PAUSED"

\* Every byte that comes in is converted, cached or dropped with an error, once.
BytesAccounted == pc # "crashed" => owed = cache + size

\* A buffer finds a converter that was begun, and a frame size to divide by,
\* unless the last caps were refused.
UsableUnlessRefused == pc = "crashed" => refused
=============================================================================

------------------------------- MODULE DllMemory -------------------------------
(***************************************************************************)
(* The calls of wine/win32.c that hand out memory, as a DLL sees them:     *)
(* HeapXxx, GlobalXxx, LocalXxx, CoTaskMemXxx, malloc and its kin, and the *)
(* media types of MSDMO.  How a block is taken and released is in          *)
(* GarbageHeap; here a block has a size, which calls round, overflow or    *)
(* leave as it was.  A media type is [cbFormat, pbFormat]; a field that    *)
(* nothing stored is Any.                                                  *)
(***************************************************************************)
EXTENDS Naturals, FiniteSets

CONSTANTS Block,      \* addresses malloc can return
          None, Any,
          HeapPage,   \* what HeapAlloc rounds to
          Word,       \* sizes are modulo this
          Ask         \* sizes that are asked for

VARIABLES
  room,      \* the size of each block in use, None for a free one
  buffers,   \* buffers of the DLL: the block, and the size it believes in
  types,     \* its media types: the block of each, and what it holds
  short,     \* a buffer is smaller than what was asked for: an overflow, or LMEM_MODIFY
  blank,     \* a media type was made without a format
  crashed    \* the process ended: a null pointer, or a block that is none

memVars == <<room, buffers, types, short, blank, crashed>>

Init == /\ room = [b \in Block |-> None]
        /\ buffers = {} /\ types = {}
        /\ short = FALSE /\ blank = FALSE /\ crashed = FALSE

Used == {b \in Block : room[b] # None}

\* What my_mreq can return: a free block, or the null pointer.
Taken == (Block \ Used) \cup {None}
With(b, n) == IF b = None THEN room ELSE [room EXCEPT ![b] = n]
Release(b, rooms) == [rooms EXCEPT ![b] = None]
Rounded(n) == ((n + HeapPage - 1) \div HeapPage) * HeapPage

\* A buffer for the DLL, that asked for "want" and gets n.
Request(want, n) ==
  /\ ~crashed
  /\ \E b \in Taken :
       /\ room' = With(b, n)
       /\ buffers' = IF b = None THEN buffers ELSE buffers \cup {[block |-> b, want |-> want]}
       /\ short' = (short \/ (b # None /\ n < want))
  /\ UNCHANGED <<types, blank, crashed>>

HeapAlloc(n) == Request(n, Rounded(n))
GlobalAlloc(n) == Request(n, n)
LocalAlloc(n) == Request(n, n)
CoTaskMemAlloc(n) == Request(n, n)
malloc(n) == Request(n, n)
new(n) == Request(n, n)
calloc(num, n) == Request(num * n, (num * n) % Word)

\* GlobalFree, LocalFree, CoTaskMemFree, free and delete are the same.  HeapFree's
\* memory of its last block is in GarbageHeap.
GlobalFree(u) ==
  /\ ~crashed /\ u \in buffers
  /\ room' = Release(u.block, room)
  /\ buffers' = buffers \ {u}
  /\ UNCHANGED <<types, short, blank, crashed>>

\* Mutant: a block that is large enough is replaced all the same, and not released.
ReallocAlways(u, want) ==
  /\ ~crashed /\ u \in buffers
  /\ \E b \in Taken :
       /\ crashed' = (b = None)
       /\ room' = IF b = None THEN room ELSE With(b, want)
       /\ buffers' = IF b = None THEN buffers ELSE (buffers \ {u}) \cup {[block |-> b, want |-> want]}
  /\ UNCHANGED <<types, short, blank>>

\* A block that is large enough is given back as it is; else its bytes are copied to
\* another, through the null pointer if there is none.
my_realloc(u, want) ==
  /\ ~crashed /\ u \in buffers
  /\ IF room[u.block] >= want
     THEN buffers' = (buffers \ {u}) \cup {[u EXCEPT !.want = want]} /\ UNCHANGED <<room, crashed>>
     ELSE \E b \in Taken :
            /\ crashed' = (b = None /\ room[u.block] > 0)
            /\ room' = Release(u.block, With(b, want))
            /\ buffers' = (buffers \ {u}) \cup (IF b = None THEN {} ELSE {[block |-> b, want |-> want]})
  /\ UNCHANGED <<types, short, blank>>

\* With LMEM_MODIFY the handle is returned as it is, whatever size is asked for.
LocalReAllocModify(u, want) ==
  /\ ~crashed /\ u \in buffers
  /\ buffers' = (buffers \ {u}) \cup {[u EXCEPT !.want = want]}
  /\ short' = (short \/ room[u.block] < want)
  /\ UNCHANGED <<room, types, blank, crashed>>

LocalReAlloc(u, want) == my_realloc(u, want) \/ LocalReAllocModify(u, want)
-----------------------------------------------------------------------------
(* Media types *)

\* MoInitMediaType of a type that nothing stored to: without a format it stores
\* nothing either, and without memory for the format no size.
Initialised(cb, b) == [cbFormat |-> IF cb = 0 \/ b = None THEN Any ELSE cb,
                       pbFormat |-> IF cb = 0 THEN Any ELSE b]

MoCreateMediaType(cb) ==
  /\ ~crashed
  /\ \E t \in Taken :
       IF t = None THEN UNCHANGED <<room, types, blank>>
       ELSE \E b \in IF cb = 0 THEN {None} ELSE Taken \ {t} :
              /\ room' = [With(b, cb) EXCEPT ![t] = 1]
              /\ types' = types \cup {[at |-> t, holds |-> Initialised(cb, b)]}
              /\ blank' = (blank \/ cb = 0)
  /\ UNCHANGED <<buffers, short, crashed>>

\* MoCopyMediaType to the block t, with "kept" the types that stay: every field, and of
\* the format a copy, through a null pointer if the source has a size and no format.
CopyTo(t, src, rooms, free, kept) ==
  \E b \in IF src.holds.cbFormat = 0 THEN {src.holds.pbFormat} ELSE free :
    /\ room' = IF src.holds.cbFormat = 0 \/ b = None THEN rooms ELSE [rooms EXCEPT ![b] = src.holds.cbFormat]
    /\ types' = kept \cup {[at |-> t, holds |-> [src.holds EXCEPT !.pbFormat = b]]}
    /\ crashed' = (b # None /\ src.holds.pbFormat = None)

\* A type that nothing was stored to is not copied.
MoDuplicateMediaType(src) ==
  /\ ~crashed /\ src \in types /\ src.holds.cbFormat # Any
  /\ \E t \in Taken :
       IF t = None THEN UNCHANGED <<room, types, crashed>>
       ELSE CopyTo(t, src, [room EXCEPT ![t] = 1], Taken \ {t}, types)
  /\ UNCHANGED <<buffers, short, blank>>

\* To a type that has no format, or that loses it.
MoCopyMediaType(dest, src) ==
  /\ ~crashed /\ {dest, src} \subseteq types /\ dest # src
  /\ dest.holds.pbFormat = None /\ src.holds.cbFormat # Any
  /\ CopyTo(dest.at, src, room, Taken, types \ {dest})
  /\ UNCHANGED <<buffers, short, blank>>

\* A format that is no block of the heap ends the process, or not.
Freed(pb) == IF pb \in Used THEN Release(pb, room) ELSE room
MayCrash(pb) == IF pb \in Used \cup {None} THEN {FALSE} ELSE BOOLEAN

MoFreeMediaType(t) ==
  /\ ~crashed /\ t \in types
  /\ t.holds.pbFormat # None
  /\ room' = Freed(t.holds.pbFormat)
  /\ types' = (types \ {t}) \cup {[t EXCEPT !.holds = [cbFormat |-> 0, pbFormat |-> None]]}
  /\ crashed' \in MayCrash(t.holds.pbFormat)
  /\ UNCHANGED <<buffers, short, blank>>

\* The format, and then the type itself.
MoDeleteMediaType(t) ==
  /\ ~crashed /\ t \in types
  /\ room' = Release(t.at, Freed(t.holds.pbFormat))
  /\ types' = types \ {t}
  /\ crashed' \in MayCrash(t.holds.pbFormat)
  /\ UNCHANGED <<buffers, short, blank>>
-----------------------------------------------------------------------------

BufferNext ==
  \/ \E n \in Ask : HeapAlloc(n) \/ GlobalAlloc(n) \/ LocalAlloc(n) \/ CoTaskMemAlloc(n) \/ malloc(n) \/ new(n)
  \/ \E num, n \in Ask : calloc(num, n)
  \/ \E u \in buffers : GlobalFree(u) \/ \E n \in Ask : my_realloc(u, n) \/ LocalReAlloc(u, n)

TypeNext ==
  \/ \E cb \in {0} \cup Ask : MoCreateMediaType(cb)
  \/ \E t \in types : \/ MoFreeMediaType(t) \/ MoDeleteMediaType(t) \/ MoDuplicateMediaType(t)
                      \/ \E d \in types : MoCopyMediaType(d, t)

Next == BufferNext \/ TypeNext

Spec == Init /\ [][Next]_memVars
-----------------------------------------------------------------------------

Formatted == {t \in types : t.holds.pbFormat # None}

\* The buffers, types and formats that a block belongs to.
Owners(b) == ({"buffer"} \X {u \in buffers : u.block = b})
             \cup ({"type"} \X {t \in types : t.at = b})
             \cup ({"format"} \X {t \in Formatted : t.holds.pbFormat = b})

\* Until a size overflows or LMEM_MODIFY asks for more, a buffer has the room that was
\* asked for; and until a media type is made without a format, every block in use
\* belongs to one buffer, type or format, and a format has the size its type tells.
BlocksOwned ==
  /\ short \/ \A u \in buffers : room[u.block] >= u.want
  /\ blank \/ crashed \/
       /\ Used = {u.block : u \in buffers} \cup {t.at : t \in types} \cup {t.holds.pbFormat : t \in Formatted}
       /\ \A b \in Used : \E o \in Owners(b) : Owners(b) = {o}
       /\ \A t \in Formatted : room[t.holds.pbFormat] = t.holds.cbFormat
=============================================================================

----------------------------- MODULE AcmDrivers -----------------------------
(***************************************************************************)
(* Installable drivers: the DRVR objects of wine/driver.c, which the ACM   *)
(* interface (wine/afl.c) opens through driver ids, driver handles and     *)
(* streams, and the VfW interface (wine/vfl.c) directly.                   *)
(*                                                                         *)
(* A handle of ACM and the DRVR it opened have one identity: the handle is *)
(* there while "id" is not None, the DRVR while it is in "live".  The same *)
(* holds of a VfW handle and "hics".  The instance handle of a driver id   *)
(* is zero, so that every open makes a DRVR of its own.                    *)
(***************************************************************************)
EXTENDS Naturals, Sequences, FiniteSets

CONSTANTS DriverID,  \* the records a registration may make
          Driver,    \* the handles an open may make
          Stream,    \* the streams
          Tag,       \* the wave formats
          Buffer,    \* what a stream header may point to: [at, length]
          None

VARIABLES
  ids,      \* MSACM_pFirstACMDriverID and on: <<record, format>>
  list,     \* pACMDriverList of each record, the newest first
  id,       \* pACMDriverID of each driver handle
  live,     \* the DRVR objects
  hics,     \* the VfW handles
  streams,  \* the driver of each open stream, and whether the stream opened it
  probe,    \* acmStreamOpen that looks for a driver: the places in ids left to try
  header,   \* the stream header of each stream
  told,     \* external: the memory a driver was told about by PREPARE
  codecs,   \* CodecAlloc less CodecRelease
  crashed

drivers == <<ids, list, id>>
vars == <<drivers, live, hics, streams, probe, header, told, codecs, crashed>>

Registered == {ids[i][1] : i \in 1..Len(ids)}
On(d) == {list[d][i] : i \in 1..Len(list[d])}
Unprepared(b) == [status |-> {}, now |-> b, prepared |-> None]
Idle == ~crashed /\ probe = None

Init ==
  /\ ids = <<>> /\ list = [d \in DriverID |-> <<>>]
  /\ id = [d \in Driver |-> None]
  /\ live = {} /\ hics = {}
  /\ streams = [s \in Stream |-> None] /\ probe = None
  /\ header = [s \in Stream |-> None] /\ told = [s \in Stream |-> None]
  /\ codecs = 0 /\ crashed = FALSE

-----------------------------------------------------------------------------
(* DRVR objects *)

Unused(d) == d \notin live /\ id[d] = None /\ d \notin hics

\* The library is loaded, DriverProc found and the driver told DRV_OPEN, whose
\* answer is not looked at.
DrvOpen(d) == Unused(d) /\ live' = live \cup {d} /\ codecs' = codecs + 1

\* No memory, no library or no DriverProc: what was taken is given back.
DrvOpenFails == UNCHANGED <<live, codecs>>

DrvClose(d) == live' = live \ {d} /\ codecs' = codecs - 1

\* Any message, to a DRVR that must be there.
SendDriverMessage(d) == crashed' \in IF d \in live THEN {FALSE} ELSE BOOLEAN

-----------------------------------------------------------------------------
(* VfW *)

ICOpen(d) ==
  /\ Idle /\ DrvOpen(d)
  /\ hics' = hics \cup {d}
  /\ UNCHANGED <<drivers, streams, probe, header, told, crashed>>

ICSendMessage(d) ==
  /\ Idle /\ d \in hics
  /\ SendDriverMessage(d)
  /\ UNCHANGED <<drivers, live, hics, streams, probe, header, told, codecs>>

\* The requests differ in what they fill in for the driver.
ICGetInfo(d) == ICSendMessage(d)
ICCompress(d) == ICSendMessage(d)
ICDecompress(d) == ICSendMessage(d)
ICDecompressEx(d) == ICSendMessage(d)
ICUniversalEx(d) == ICSendMessage(d)

ICClose(d) ==
  /\ Idle /\ d \in hics
  /\ DrvClose(d)
  /\ hics' = hics \ {d}
  /\ UNCHANGED <<drivers, streams, probe, header, told, crashed>>

-----------------------------------------------------------------------------
(* ACM driver ids *)

\* acmDriverAddA registers a null file name, whose length is taken.
acmDriverAddA ==
  /\ Idle
  /\ crashed' = TRUE
  /\ UNCHANGED <<drivers, live, hics, streams, probe, header, told, codecs>>

MSACM_RegisterDriver(d, tag) ==
  /\ Idle /\ d \notin Registered
  /\ ids' = Append(ids, <<d, tag>>)
  /\ list' = [list EXCEPT ![d] = <<>>]
  /\ UNCHANGED <<id, live, hics, streams, probe, header, told, codecs, crashed>>

\* Every driver on the list is closed, the newest first; only the last one
\* finds the list empty and closes its DRVR.  The application keeps a driver
\* that a stream uses.
MSACM_UnregisterDriver(d) ==
  /\ Idle /\ d \in Registered
  /\ \A s \in Stream : streams[s] # None => id[streams[s].driver] # d
  /\ ids' = LET k == CHOOSE k \in 1..Len(ids) : ids[k][1] = d IN
            SubSeq(ids, 1, k - 1) \o SubSeq(ids, k + 1, Len(ids))
  /\ list' = [list EXCEPT ![d] = <<>>]
  /\ id' = [e \in Driver |-> IF e \in On(d) THEN None ELSE id[e]]
  /\ IF list[d] = <<>> THEN UNCHANGED <<live, codecs>> ELSE DrvClose(list[d][Len(list[d])])
  /\ UNCHANGED <<hics, streams, probe, header, told, crashed>>

acmDriverRemove(d) == MSACM_UnregisterDriver(d)

\* The records, the oldest first: all are enabled, and any flag is refused (a logical
\* "and" stands where the flags are looked at).
acmDriverEnum(flags) == IF flags = {} THEN [i \in 1..Len(ids) |-> ids[i][1]] ELSE <<>>

\* The record a driver handle was opened on.
acmDriverID(d) == id[d]

-----------------------------------------------------------------------------
(* ACM driver handles *)

acmDriverOpen(d, i) ==
  /\ Idle /\ i \in Registered
  /\ DrvOpen(d)
  /\ id' = [id EXCEPT ![d] = i]
  /\ list' = [list EXCEPT ![i] = <<d>> \o @]
  /\ UNCHANGED <<ids, hics, streams, probe, header, told, crashed>>

\* The loop takes nodes off the head of the list up to and with d: the drivers
\* opened after d fall off.  A d that fell off before takes the whole list.
Older(d) ==
  LET l == list[id[d]] IN
  IF \E k \in 1..Len(l) : l[k] = d
  THEN SubSeq(l, (CHOOSE k \in 1..Len(l) : l[k] = d) + 1, Len(l)) ELSE <<>>

\* Mutant: the list is left as it is, and its DRVR closed.
Unlisted(d) ==
  /\ id' = [id EXCEPT ![d] = None]
  /\ DrvClose(d)
  /\ UNCHANGED <<ids, list>>

\* The DRVR goes only if the list is empty then: of a driver closed before an
\* older one it is never closed.
Closed(d) ==
  /\ id' = [id EXCEPT ![d] = None]
  /\ list' = [list EXCEPT ![id[d]] = Older(d)]
  /\ IF Older(d) = <<>> THEN DrvClose(d) ELSE UNCHANGED <<live, codecs>>
  /\ UNCHANGED ids

UsedBy(d) == {s \in Stream : streams[s] # None /\ streams[s].driver = d}

\* The record may be gone if the driver fell off its list before it was
\* unregistered.
acmDriverClose(d) ==
  /\ Idle /\ id[d] # None /\ UsedBy(d) = {}
  /\ Closed(d)
  /\ crashed' \in IF id[d] \in Registered THEN {FALSE} ELSE BOOLEAN
  /\ UNCHANGED <<hics, streams, probe, header, told>>

acmDriverMessage(d) ==
  /\ Idle /\ id[d] # None
  /\ SendDriverMessage(d)
  /\ UNCHANGED <<drivers, live, hics, streams, probe, header, told, codecs>>

-----------------------------------------------------------------------------
(* ACM streams *)

\* ACMDM_STREAM_OPEN succeeded: the stream is counted, unless it was a query.
Opened(s, d, own) ==
  \E b \in Buffer : /\ streams' = [streams EXCEPT ![s] = [driver |-> d, own |-> own]]
                    /\ header' = [header EXCEPT ![s] = Unprepared(b)]
                    /\ told' = [told EXCEPT ![s] = None]

\* On a driver of the caller's: it has no handle of one that a stream opened.
acmStreamOpen(s, d) ==
  /\ Idle /\ streams[s] = None /\ id[d] # None /\ \A t \in UsedBy(d) : ~streams[t].own
  /\ SendDriverMessage(d)
  /\ \/ Opened(s, d, FALSE) /\ codecs' = codecs + 1
     \/ UNCHANGED <<streams, header, told, codecs>>
  /\ UNCHANGED <<drivers, live, hics, probe>>

\* Without one every record of the source's format is tried in turn.
StreamProbe(s, tag) ==
  /\ Idle /\ streams[s] = None
  /\ \E query \in BOOLEAN :
       probe' = [for |-> s, query |-> query, rest |-> {k \in 1..Len(ids) : ids[k][2] = tag}]
  /\ UNCHANGED <<drivers, live, hics, streams, header, told, codecs, crashed>>

Place == CHOOSE k \in probe.rest : \A j \in probe.rest : k <= j
Candidate == ids[Place][1]
Tried == [probe EXCEPT !.rest = @ \ {Place}]

ProbeOpenFails ==
  /\ probe # None /\ probe.rest # {}
  /\ DrvOpenFails
  /\ probe' = Tried
  /\ UNCHANGED <<drivers, hics, streams, header, told, crashed>>

\* Opened and closed again, after a refusal or for a query: on a list that is
\* not empty the DRVR stays.
OpenedAndClosed(d) ==
  IF list[Candidate] = <<>> THEN Unused(d) /\ UNCHANGED <<live, codecs>> ELSE DrvOpen(d)

ProbeRefused(d) ==
  /\ probe # None /\ probe.rest # {}
  /\ OpenedAndClosed(d)
  /\ probe' = Tried
  /\ UNCHANGED <<drivers, hics, streams, header, told, crashed>>

ProbeAnswered(d) ==
  /\ probe # None /\ probe.rest # {} /\ probe.query
  /\ OpenedAndClosed(d)
  /\ probe' = None
  /\ UNCHANGED <<drivers, hics, streams, header, told, crashed>>

\* The stream is counted beside its driver.
ProbeTaken(d) ==
  /\ probe # None /\ probe.rest # {} /\ ~probe.query
  /\ Unused(d)
  /\ live' = live \cup {d} /\ codecs' = codecs + 2
  /\ id' = [id EXCEPT ![d] = Candidate]
  /\ list' = [list EXCEPT ![Candidate] = <<d>> \o @]
  /\ Opened(probe.for, d, TRUE)
  /\ probe' = None
  /\ UNCHANGED <<ids, hics, crashed>>

ProbeEnds ==
  /\ probe # None /\ probe.rest = {}
  /\ probe' = None
  /\ UNCHANGED <<drivers, live, hics, streams, header, told, codecs, crashed>>

Gone(s) == /\ streams' = [streams EXCEPT ![s] = None]
           /\ header' = [header EXCEPT ![s] = None] /\ told' = [told EXCEPT ![s] = None]

\* A driver that refuses ACMDM_STREAM_CLOSE keeps the stream open.
acmStreamClose(s) ==
  /\ Idle /\ streams[s] # None
  /\ LET d == streams[s].driver IN
     /\ SendDriverMessage(d)
     /\ \/ /\ ~streams[s].own
           /\ codecs' = codecs - 1 /\ Gone(s)
           /\ UNCHANGED <<drivers, live>>
        \/ /\ streams[s].own
           /\ id' = [id EXCEPT ![d] = None]
           /\ list' = [list EXCEPT ![id[d]] = Older(d)]
           /\ IF Older(d) = <<>> THEN live' = live \ {d} /\ codecs' = codecs - 2
              ELSE UNCHANGED live /\ codecs' = codecs - 1
           /\ Gone(s)
           /\ UNCHANGED ids
        \/ UNCHANGED <<drivers, live, streams, header, told, codecs>>
  /\ UNCHANGED <<hics, probe>>

-----------------------------------------------------------------------------
(* Stream headers *)

OfStream(s) == Idle /\ streams[s] # None /\ SendDriverMessage(streams[s].driver)
headerOnly == <<drivers, live, hics, streams, probe, codecs>>

\* The application points the header elsewhere.
SetHeader(s, b) ==
  /\ Idle /\ streams[s] # None
  /\ header' = [header EXCEPT ![s].now = b]
  /\ UNCHANGED <<headerOnly, told, crashed>>

\* A header that is done counts as prepared, whatever it points to now; one that
\* a driver refuses keeps its mark and loses what was prepared.
acmStreamPrepareHeader(s) ==
  /\ OfStream(s)
  /\ "done" \notin header[s].status
  /\ \/ /\ header' = [header EXCEPT ![s].status = {"prepared"}, ![s].prepared = header[s].now]
        /\ told' = [told EXCEPT ![s] = header[s].now]
     \/ header' = [header EXCEPT ![s].prepared = None] /\ UNCHANGED told
  /\ UNCHANGED headerOnly

\* What the header points to lies in what was prepared.
Unmodified(h) ==
  h.prepared # None /\ h.now.at = h.prepared.at /\ h.now.length <= h.prepared.length

acmStreamConvert(s) ==
  /\ OfStream(s)
  /\ "prepared" \in header[s].status /\ Unmodified(header[s])
  /\ header' \in {header, [header EXCEPT ![s].status = @ \cup {"done"}]}
  /\ UNCHANGED <<headerOnly, told>>

acmStreamUnprepareHeader(s) ==
  /\ OfStream(s)
  /\ "prepared" \in header[s].status /\ Unmodified(header[s])
  /\ \/ header' = [header EXCEPT ![s].status = {}] /\ told' = [told EXCEPT ![s] = None]
     \/ UNCHANGED <<header, told>>
  /\ UNCHANGED headerOnly

\* Asks the driver; nothing is kept.
acmStreamSize(s) == OfStream(s) /\ UNCHANGED <<headerOnly, header, told>>
acmStreamReset(s) == OfStream(s) /\ UNCHANGED <<headerOnly, header, told>>

-----------------------------------------------------------------------------

Next ==
  \/ acmDriverAddA \/ ProbeOpenFails \/ ProbeEnds
  \/ \E i \in DriverID : \/ acmDriverRemove(i)
                         \/ \E tag \in Tag : MSACM_RegisterDriver(i, tag)
                         \/ \E d \in Driver : acmDriverOpen(d, i)
  \/ \E d \in Driver :
       \/ ICOpen(d) \/ ICGetInfo(d) \/ ICCompress(d) \/ ICDecompress(d) \/ ICDecompressEx(d) \/ ICUniversalEx(d)
       \/ ICClose(d) \/ acmDriverClose(d) \/ acmDriverMessage(d)
       \/ ProbeRefused(d) \/ ProbeAnswered(d) \/ ProbeTaken(d)
       \/ \E s \in Stream : acmStreamOpen(s, d)
  \/ \E s \in Stream :
       \/ \E tag \in Tag : StreamProbe(s, tag)
       \/ \E b \in Buffer : SetHeader(s, b)
       \/ acmStreamClose(s) \/ acmStreamPrepareHeader(s) \/ acmStreamConvert(s)
       \/ acmStreamUnprepareHeader(s) \/ acmStreamSize(s) \/ acmStreamReset(s)

Spec == Init /\ [][Next]_vars
-----------------------------------------------------------------------------

\* Whatever falls off its list, a handle or stream that is open has its DRVR, and
\* the codec count is that of the DRVR objects and the streams.  A driver on the list of
\* a record tells that record, and the record is found among the others, once.
DriversLive ==
  ~crashed => /\ \A d \in Driver : id[d] # None \/ d \in hics => d \in live
              /\ \A s \in Stream : streams[s] # None => id[streams[s].driver] # None
              /\ \A i \in DriverID : \A d \in On(i) :
                   acmDriverID(d) = i /\ \E k \in DOMAIN acmDriverEnum({}) : acmDriverEnum({})[k] = i
              /\ \A j, k \in DOMAIN acmDriverEnum({}) : acmDriverEnum({})[j] = acmDriverEnum({})[k] => j = k
              /\ codecs = Cardinality(live) + Cardinality({s \in Stream : streams[s] # None})

\* A driver converts only in memory it was told about: of a header that may be
\* converted, what it points to lies in what the driver last accepted.
ConvertsPrepared ==
  \A s \in Stream :
    streams[s] # None /\ "prepared" \in header[s].status /\ Unmodified(header[s])
      => /\ told[s] # None
         /\ header[s].now.at = told[s].at /\ header[s].now.length <= told[s].length
=============================================================================

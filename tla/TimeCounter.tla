----------------------------- MODULE TimeCounter -----------------------------
(***************************************************************************)
(* QueryPerformanceCounter and QueryPerformanceFrequency of wine/win32.c.  *)
(* The count is the processor's time stamp, or one made of the time of day *)
(* when it has none.  The frequency is what /proc/cpuinfo says, read again *)
(* by every call, or else what one thread measures over a second and all   *)
(* are told from then on.                                                  *)
(*                                                                         *)
(* Time passes in units, a few to a second; a frequency here is counts per *)
(* second (the DLLs are told a thousandth of it).                          *)
(***************************************************************************)
EXTENDS Integers, Sequences, FiniteSetsExt

CONSTANTS Caller,     \* threads
          Rates,      \* counts of the time stamp per unit
          Listings,   \* files: sequences of [key, value], a value None is no number
          Second,     \* units per second
          Wrap,       \* 2^32
          MaxTime,    \* bound of the time
          None

VARIABLES
  now,        \* the time
  tsc, rate,  \* the processor: whether it has a time stamp, and its rate
  listing,    \* /proc/cpuinfo
  source,     \* localcount and longcount: "stub", "tsc" or "notsc"
  ofreq,      \* the static of tsc_freq
  at, i, x,   \* caller -> where it is in tsc_freq, the second it saw, the first count
  freq,       \* caller -> the frequency it was told last, or None
  count,      \* the count told last, 0 before the first
  late        \* history: a measuring thread missed the begin of a second

vars == <<now, tsc, rate, listing, source, ofreq, at, i, x, freq, count, late>>
processor == <<tsc, rate, listing>>
measuring == <<ofreq, at, i, x, freq>>

Init ==
  /\ now \in 0..(Second - 1) /\ tsc \in BOOLEAN /\ rate \in Rates /\ listing \in Listings
  /\ source = "stub" /\ ofreq = 0
  /\ at = [c \in Caller |-> "out"] /\ i = [c \in Caller |-> 0] /\ x = [c \in Caller |-> 0]
  /\ freq = [c \in Caller |-> None]
  /\ count = 0 /\ late = FALSE

Time == now \div Second
Limit == (Wrap - 1) \div Second     \* counts per unit without a time stamp

\* The stub chooses for both functions, and calls the one it has chosen.
Chosen == IF source # "stub" THEN source ELSE IF tsc THEN "tsc" ELSE "notsc"

LongCount(t) == IF Chosen = "tsc" THEN t * rate ELSE (t \div Second) * Wrap + Limit * (t % Second)

Signed(n) == LET m == n % Wrap IN IF m >= Wrap \div 2 THEN m - Wrap ELSE m
LocalCount == Signed(LongCount(now))

Pass ==
  /\ now < MaxTime
  /\ now' = now + 1
  /\ late' = (late \/ \E c \in Caller : at[c] # "out" /\ Time # i[c])
  /\ UNCHANGED <<processor, source, measuring, count>>

QueryPerformanceCounter(c) ==
  /\ at[c] = "out"
  /\ count' = LongCount(now)
  /\ source' = Chosen
  /\ UNCHANGED <<now, processor, measuring, late>>

\* The first entry that is a number, or none.
Listed ==
  LET rows == {n \in DOMAIN listing : listing[n].key = "cpu MHz" /\ listing[n].value # None} IN
  IF rows = {} THEN -1 ELSE listing[Min(rows)].value

Tell(c, f) == freq' = [freq EXCEPT ![c] = f]

\* A measurement of zero is made again.
QueryPerformanceFrequency(c) ==
  /\ at[c] = "out"
  /\ IF Listed > 0 THEN Tell(c, Listed) /\ UNCHANGED <<at, i>>
     ELSE IF ofreq # 0 THEN Tell(c, ofreq) /\ UNCHANGED <<at, i>>
     ELSE at' = [at EXCEPT ![c] = "first"] /\ i' = [i EXCEPT ![c] = Time] /\ UNCHANGED freq
  /\ UNCHANGED <<now, processor, source, ofreq, x, count, late>>

\* The next second has begun; the one after it is waited for.
FirstCount(c) ==
  /\ at[c] = "first" /\ Time # i[c]
  /\ x' = [x EXCEPT ![c] = LocalCount] /\ i' = [i EXCEPT ![c] = @ + 1]
  /\ at' = [at EXCEPT ![c] = "second"]
  /\ source' = Chosen
  /\ UNCHANGED <<now, processor, ofreq, freq, count, late>>

SecondCount(c) ==
  /\ at[c] = "second" /\ Time # i[c]
  /\ ofreq' = Signed(LocalCount - x[c]) /\ Tell(c, ofreq')
  /\ at' = [at EXCEPT ![c] = "out"]
  /\ UNCHANGED <<now, processor, source, i, x, count, late>>

Next ==
  \/ Pass
  \/ \E c \in Caller :
       \/ QueryPerformanceCounter(c) \/ QueryPerformanceFrequency(c)
       \/ FirstCount(c) \/ SecondCount(c)

-----------------------------------------------------------------------------
(* Properties *)

\* A count never goes back, over seconds and over the wrap of the low half, and never
\* falls short of the time that passed.  With a time stamp and no listed frequency, every
\* thread is told the counts of a second as far as they fit in a signed word, whoever
\* measured them, as long as no measuring thread slept over the begin of a second.
ClockTells ==
  /\ LongCount(now + 1) - LongCount(now) >= (IF tsc THEN rate ELSE Limit) /\ count <= LongCount(now)
  /\ \A c \in Caller :
       freq[c] # None =>
         IF Listed > 0 THEN freq[c] = Listed
         ELSE tsc /\ ~late => (freq[c] - rate * Second) % Wrap = 0
=============================================================================

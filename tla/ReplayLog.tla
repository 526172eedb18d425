----------------------------- MODULE ReplayLog -----------------------------
(***************************************************************************)
(* The log of a replay recording (src/replay/log.ts): events are appended  *)
(* without waiting for the disk, buffered, flushed in chunks that are      *)
(* written one after the other, refused for good once a cap is reached,    *)
(* and dropped while the disk is behind.                                   *)
(*                                                                         *)
(* An event is its size and its number among the events offered.  The disk *)
(* is external: a write ends well, with an error, or well after part of    *)
(* the chunk, as write(2) may.                                             *)
(***************************************************************************)
EXTENDS Integers, Sequences

CONSTANTS
  Sizes,        \* sizes of lines
  MaxEvents,    \* maxEvents: the event cap
  MaxBytes,     \* maxBytes: the size cap
  FlushBytes,   \* flushBytes: a buffer of this size is flushed
  MaxPending,   \* maxPendingBytes: the window of bytes not yet written
  Offers        \* bound: events offered to an open log

ASSUME LimitsAssumption ==
  /\ Sizes \subseteq Nat \ {0}
  /\ MaxEvents \in Nat /\ MaxBytes \in Nat
  /\ FlushBytes \in Nat /\ MaxPending \in Nat /\ Offers \in Nat

VARIABLES
  pending, pendingBytes,    \* lines not flushed yet
  inflight, inFlightBytes,  \* chunks whose write has not ended, in order
  byteCount, eventCount,    \* of everything accepted
  drops,                    \* counts[BACKPRESSURE_DROP_KEY]
  truncation,               \* why the log is short, and how much it lost by it
  phase,                    \* "open", "closing" (close awaits the writes), "closed"
  writeError,               \* some write failed
  file,                     \* the lines in the file
  outcome,                  \* what close told its caller
  offered,                  \* history: events offered while the log was open
  short                     \* history: some write was cut short

buffer == <<pending, pendingBytes, inflight, inFlightBytes>>
totals == <<byteCount, eventCount, drops, truncation>>
disk   == <<file, writeError, short>>
vars   == <<buffer, totals, disk, phase, outcome, offered>>

Line  == [n : Nat, size : Sizes]
Chunk == [lines : Seq(Line), bytes : Nat]
Caps  == {"event-cap", "size-cap"}

TypeOK ==
  /\ pending \in Seq(Line) /\ pendingBytes \in Nat
  /\ inflight \in Seq(Chunk) /\ inFlightBytes \in Int
  /\ byteCount \in Nat /\ eventCount \in Nat /\ drops \in Nat
  /\ truncation \in [reason : Caps \cup {"none", "backpressure"}, dropped : Nat]
  /\ phase \in {"open", "closing", "closed"}
  /\ writeError \in BOOLEAN
  /\ file \in Seq(Line)
  /\ outcome \in {"none", "stats", "threw"}
  /\ offered \in Nat
  /\ short \in BOOLEAN

Init ==
  /\ pending = << >> /\ pendingBytes = 0
  /\ inflight = << >> /\ inFlightBytes = 0
  /\ byteCount = 0 /\ eventCount = 0 /\ drops = 0
  /\ truncation = [reason |-> "none", dropped |-> 0]
  /\ phase = "open"
  /\ writeError = FALSE
  /\ file = << >>
  /\ outcome = "none"
  /\ offered = 0
  /\ short = FALSE

-----------------------------------------------------------------------------
(* append: five outcomes, in the order the code tries them.  A closed log   *)
(* refuses and changes nothing.                                             *)

Offer ==
  /\ phase = "open"
  /\ offered < Offers
  /\ offered' = offered + 1
  /\ UNCHANGED <<disk, phase, outcome>>

Capped == truncation.reason \in Caps

TooManyEvents   == eventCount + 1 > MaxEvents
TooManyBytes(s) == byteCount + s > MaxBytes

\* Broken variant: what is in flight is forgotten.
BehindUnflushed(s) == pendingBytes + s > MaxPending
Behind(s) == pendingBytes + inFlightBytes + s > MaxPending

\* The cap is reached already: only the number of lost events changes.
AfterCap ==
  /\ Offer
  /\ Capped
  /\ truncation' = [truncation EXCEPT !.dropped = @ + 1]
  /\ UNCHANGED <<buffer, byteCount, eventCount, drops>>

\* This event reaches a cap.  What backpressure noted is overwritten.
Trip(s) ==
  /\ Offer
  /\ ~ Capped
  /\ TooManyEvents \/ TooManyBytes(s)
  /\ truncation' = [reason |-> IF TooManyEvents THEN "event-cap" ELSE "size-cap",
                    dropped |-> 1]
  /\ UNCHANGED <<buffer, byteCount, eventCount, drops>>

\* Broken variant: a drop is not noted.
NotNoted == truncation

\* What a drop notes: the first one the reason, the next ones their number.
Noted == IF truncation.reason = "none"
         THEN [reason |-> "backpressure", dropped |-> 1]
         ELSE [truncation EXCEPT !.dropped = @ + 1]

Drop(s) ==
  /\ Offer
  /\ ~ Capped /\ ~ TooManyEvents /\ ~ TooManyBytes(s)
  /\ Behind(s)
  /\ drops' = drops + 1
  /\ truncation' = Noted
  /\ UNCHANGED <<buffer, byteCount, eventCount>>

\* flush: the lines and bytes given become one chunk; none makes no chunk.
Flush(lines, bytes) ==
  /\ pending' = << >>
  /\ pendingBytes' = 0
  /\ inflight' = IF lines = << >> THEN inflight
                 ELSE Append(inflight, [lines |-> lines, bytes |-> bytes])
  /\ inFlightBytes' = inFlightBytes + bytes

Accept(s) ==
  /\ Offer
  /\ ~ Capped /\ ~ TooManyEvents /\ ~ TooManyBytes(s)
  /\ ~ Behind(s)
  /\ byteCount' = byteCount + s
  /\ eventCount' = eventCount + 1
  /\ LET lines == Append(pending, [n |-> offered + 1, size |-> s])
         bytes == pendingBytes + s
     IN  IF bytes >= FlushBytes THEN Flush(lines, bytes)
         ELSE /\ pending' = lines
              /\ pendingBytes' = bytes
              /\ UNCHANGED <<inflight, inFlightBytes>>
  /\ UNCHANGED <<drops, truncation>>

-----------------------------------------------------------------------------
(* The disk, one chunk at a time: every chunk waits for the one before it,  *)
(* and is written even when that one failed.                                *)

Written ==
  /\ inflight # << >>
  /\ inflight' = Tail(inflight)
  /\ inFlightBytes' = inFlightBytes - Head(inflight).bytes
  /\ UNCHANGED <<pending, pendingBytes, totals, phase, outcome, offered>>

WriteOK ==
  /\ Written
  /\ file' = file \o Head(inflight).lines
  /\ UNCHANGED <<writeError, short>>

\* Broken variant: a failure is forgotten.
WriteFailsQuietly == Written /\ UNCHANGED disk

WriteFails ==
  /\ Written
  /\ writeError' = TRUE
  /\ UNCHANGED <<file, short>>

\* Part of the chunk; the number of bytes written is not looked at.
WriteShort ==
  /\ Written
  /\ short' = TRUE
  /\ \E k \in 0 .. Len(Head(inflight).lines) - 1 :
       file' = file \o SubSeq(Head(inflight).lines, 1, k)
  /\ UNCHANGED writeError

-----------------------------------------------------------------------------
(* close, as its first caller sees it; ReplaySession has the second.        *)

Close ==
  /\ phase = "open"
  /\ phase' = "closing"
  /\ Flush(pending, pendingBytes)
  /\ UNCHANGED <<totals, disk, outcome, offered>>

\* Broken variant: it does not wait for the writes.
CloseFileEarly ==
  /\ phase = "closing"
  /\ phase' = "closed"
  /\ outcome' = IF writeError THEN "threw" ELSE "stats"
  /\ UNCHANGED <<buffer, totals, disk, offered>>

CloseFile ==
  /\ phase = "closing"
  /\ inflight = << >>
  /\ phase' = "closed"
  /\ outcome' = IF writeError THEN "threw" ELSE "stats"
  /\ UNCHANGED <<buffer, totals, disk, offered>>

Next ==
  \/ AfterCap
  \/ \E s \in Sizes : Trip(s) \/ Drop(s) \/ Accept(s)
  \/ WriteOK \/ WriteFails \/ WriteShort
  \/ Close \/ CloseFile

Spec == Init /\ [][Next]_vars

-----------------------------------------------------------------------------
(* Properties.                                                              *)

\* The lines of a sequence of chunks, in order; the bytes of lines.
LinesOf(chunks) ==
  LET upTo[i \in 0 .. Len(chunks)] ==
        IF i = 0 THEN << >> ELSE upTo[i - 1] \o chunks[i].lines
  IN  upTo[Len(chunks)]

BytesOf(lines) ==
  LET upTo[i \in 0 .. Len(lines)] ==
        IF i = 0 THEN 0 ELSE upTo[i - 1] + lines[i].size
  IN  upTo[Len(lines)]

Held == LinesOf(inflight) \o pending

\* What the log holds in memory stays within the window, however the disk
\* stalls, as the two counters that guard it are what is really held (append's
\* backpressure test and flush's bookkeeping).
WithinWindow  == pendingBytes + inFlightBytes <= MaxPending
CountersExact == /\ pendingBytes = BytesOf(pending)
                 /\ inFlightBytes = BytesOf(LinesOf(inflight))
WindowBounded == WithinWindow /\ CountersExact

\* Both caps hold for everything ever accepted.
WithinCaps == eventCount <= MaxEvents /\ byteCount <= MaxBytes

\* Every event offered was accepted or is counted as lost exactly once: by the
\* drop count, and from the cap on by the truncation (append, trip).
EveryEventCounted ==
  /\ offered = eventCount + drops +
               (IF truncation.reason \in Caps THEN truncation.dropped ELSE 0)
  /\ truncation.reason = "backpressure" => truncation.dropped = drops
  /\ truncation.reason = "none" => drops = 0

\* A cap once reached stays the reason, and nothing is accepted after it, a
\* smaller event neither; backpressure does not stop the recording.
CapIsFinal ==
  [][truncation.reason \in Caps =>
       /\ eventCount' = eventCount /\ byteCount' = byteCount
       /\ truncation'.reason = truncation.reason]_vars

\* Whatever the disk did, the file holds events in the order they came; and if
\* close returns stats and no write was cut short, every event they count.
StatsTrue ==
  /\ \A i, j \in DOMAIN file : i < j => file[i].n < file[j].n
  /\ outcome = "stats" /\ ~ short =>
       Len(file) = eventCount /\ BytesOf(file) = byteCount

\* Documented: once the writes have ended without an error, every chunk is in
\* the file (flush, drained).  The number of bytes a write wrote is not read.
DrainedMeansWritten ==
  outcome = "stats" => Len(file) = eventCount

\* The log as the stream it stands for.
Stream == INSTANCE CaptureStream
            WITH held <- Held, written <- file, lost <- writeError
StreamSpec == Stream!Spec
=============================================================================

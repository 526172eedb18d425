---------------------------- MODULE ReplayProofs ----------------------------
(***************************************************************************)
(* The log of a replay and the recording that writes it.                   *)
(*                                                                         *)
(* ReplayLog, for any sizes, caps and window, whatever the disk does: its  *)
(* types, both caps and that a cap is final, the accounts of what was      *)
(* offered, the window and the counters that guard it, what a close        *)
(* reports of the file, and that the log is a CaptureStream.               *)
(*                                                                         *)
(* ReplaySession, for any number of starts and ends: its types, whichever  *)
(* calls overlap; that what listens goes before the log and that artifacts *)
(* are whole, when at most a close overlaps a start; and that no plaintext *)
(* is left, when nothing does.                                             *)
(***************************************************************************)
EXTENDS ReplayLog, ReplaySession, SequenceTheorems, WellFoundedInduction, TLAPS

-----------------------------------------------------------------------------
(* Types.                                                                    *)

LEMMA TypeInit == Init => TypeOK
<1> SUFFICES ASSUME Init PROVE TypeOK
  OBVIOUS
<1>1. pending \in Seq(Line) /\ inflight \in Seq(Chunk) /\ file \in Seq(Line)
  BY DEF Init
<1>2. /\ pendingBytes \in Nat /\ inFlightBytes \in Int
      /\ byteCount \in Nat /\ eventCount \in Nat /\ drops \in Nat /\ offered \in Nat
      /\ truncation \in [reason : Caps \cup {"none", "backpressure"}, dropped : Nat]
  BY DEF Init
<1>3. writeError \in BOOLEAN /\ short \in BOOLEAN
  BY Zenon DEF Init
<1>4. phase = "open" /\ outcome = "none"
  BY DEF Init
<1> QED
  BY <1>1, <1>2, <1>3, <1>4 DEF TypeOK

\* What flush leaves behind, of well-typed lines and bytes.
LEMMA FlushTypes ==
  ASSUME TypeOK, NEW lines \in Seq(Line), NEW bytes \in Nat, Flush(lines, bytes)
  PROVE  /\ pending' \in Seq(Line) /\ pendingBytes' \in Nat
         /\ inflight' \in Seq(Chunk) /\ inFlightBytes' \in Int
<1>1. [lines |-> lines, bytes |-> bytes] \in Chunk
  BY DEF Chunk
<1>2. inflight' \in Seq(Chunk)
  BY <1>1 DEF Flush, TypeOK
<1>3. pending' \in Seq(Line)
  BY DEF Flush
<1> QED
  BY <1>2, <1>3 DEF Flush, TypeOK

\* The head of the queue of chunks is a chunk.
LEMMA HeadTypes ==
  ASSUME TypeOK, inflight # << >>
  PROVE  /\ Head(inflight) \in Chunk /\ Tail(inflight) \in Seq(Chunk)
         /\ Head(inflight).lines \in Seq(Line) /\ Head(inflight).bytes \in Nat
<1>1. Head(inflight) \in Chunk /\ Tail(inflight) \in Seq(Chunk)
  BY DEF TypeOK
<1> QED
  BY <1>1 DEF Chunk

\* One more lost event is still a record of lost events.
LEMMA OneMoreLost ==
  ASSUME NEW R, NEW t \in [reason : R, dropped : Nat]
  PROVE  [t EXCEPT !.dropped = @ + 1] \in [reason : R, dropped : Nat]
OBVIOUS

\* What no event disturbs is still well-typed.
LEMMA TypeSame ==
  ASSUME TypeOK, UNCHANGED <<disk, phase, outcome, buffer, byteCount, eventCount>>,
         drops' \in Nat, offered' \in Nat,
         truncation' \in [reason : Caps \cup {"none", "backpressure"}, dropped : Nat]
  PROVE  TypeOK'
<1>1. /\ UNCHANGED <<pending, pendingBytes, inflight, inFlightBytes>>
      /\ UNCHANGED <<byteCount, eventCount, file, writeError, short, phase, outcome>>
  BY DEF disk, buffer
<1> QED
  BY <1>1, Zenon DEF TypeOK

LEMMA TypeAppend ==
  ASSUME TypeOK, NEW s \in Sizes, Trip(s) \/ Drop(s) \/ Accept(s)
  PROVE  TypeOK'
<1>1. CASE Trip(s)
  <2>1. truncation' \in [reason : Caps \cup {"none", "backpressure"}, dropped : Nat]
    BY <1>1 DEF Trip, Caps
  <2>2. /\ offered' \in Nat /\ drops' \in Nat
        /\ UNCHANGED <<disk, phase, outcome, buffer, byteCount, eventCount>>
    BY <1>1 DEF TypeOK, Trip, Offer
  <2> QED
    BY <2>1, <2>2, TypeSame
<1>2. CASE Drop(s)
  <2>1. truncation \in [reason : Caps \cup {"none", "backpressure"}, dropped : Nat]
    BY Zenon DEF TypeOK
  <2>2. truncation' \in [reason : Caps \cup {"none", "backpressure"}, dropped : Nat]
    <3>1. [truncation EXCEPT !.dropped = @ + 1]
             \in [reason : Caps \cup {"none", "backpressure"}, dropped : Nat]
      BY <2>1, OneMoreLost, Zenon
    <3>2. [reason |-> "backpressure", dropped |-> 1]
             \in [reason : Caps \cup {"none", "backpressure"}, dropped : Nat]
      OBVIOUS
    <3> QED
      BY <1>2, <3>1, <3>2, Zenon DEF Drop, Noted
  <2>3. /\ offered' \in Nat /\ drops' \in Nat
        /\ UNCHANGED <<disk, phase, outcome, buffer, byteCount, eventCount>>
    BY <1>2 DEF TypeOK, Drop, Offer
  <2> QED
    BY <2>2, <2>3, TypeSame
<1>3. CASE Accept(s)
  <2> DEFINE lines == Append(pending, [n |-> offered + 1, size |-> s])
             bytes == pendingBytes + s
  <2>1. s \in Nat
    BY LimitsAssumption
  <2>2. [n |-> offered + 1, size |-> s] \in Line
    BY DEF TypeOK, Line
  <2>3. lines \in Seq(Line) /\ bytes \in Nat
    BY <2>1, <2>2 DEF TypeOK
  <2>4. \/ Flush(lines, bytes)
        \/ pending' = lines /\ pendingBytes' = bytes /\ UNCHANGED <<inflight, inFlightBytes>>
    BY <1>3 DEF Accept
  <2>5. /\ pending' \in Seq(Line) /\ pendingBytes' \in Nat
        /\ inflight' \in Seq(Chunk) /\ inFlightBytes' \in Int
    <3> HIDE DEF lines, bytes
    <3>1. CASE Flush(lines, bytes)
      BY <2>3, <3>1, FlushTypes
    <3>2. CASE pending' = lines /\ pendingBytes' = bytes /\ UNCHANGED <<inflight, inFlightBytes>>
      BY <2>3, <3>2 DEF TypeOK
    <3> QED
      BY <2>4, <3>1, <3>2
  <2> QED
    BY <1>3, <2>1, <2>5 DEF TypeOK, Accept, Offer, Caps, disk
<1> QED
  BY <1>1, <1>2, <1>3

LEMMA TypeDisk ==
  ASSUME TypeOK, WriteOK \/ WriteFails \/ WriteShort
  PROVE  TypeOK'
<1> USE HeadTypes
<1>1. Written /\ inflight # << >>
  BY DEF WriteOK, WriteFails, WriteShort, Written
<1>2. inflight' \in Seq(Chunk) /\ inFlightBytes' \in Int
  BY <1>1 DEF TypeOK, Written
<1>3. file' \in Seq(Line) /\ writeError' \in BOOLEAN /\ short' \in BOOLEAN
  <2>1. CASE WriteOK
    BY <1>1, <2>1 DEF TypeOK, WriteOK
  <2>2. CASE WriteFails
    BY <1>1, <2>2 DEF TypeOK, WriteFails
  <2>3. CASE WriteShort
    <3>1. PICK k \in 0 .. Len(Head(inflight).lines) - 1 :
            file' = file \o SubSeq(Head(inflight).lines, 1, k)
      BY <2>3 DEF WriteShort
    <3>2. SubSeq(Head(inflight).lines, 1, k) \in Seq(Line)
      BY <1>1
    <3> QED
      BY <2>3, <3>1, <3>2 DEF TypeOK, WriteShort
  <2> QED
    BY <2>1, <2>2, <2>3
<1> QED
  BY <1>1, <1>2, <1>3 DEF TypeOK, Written, totals

LEMMA TypeClose ==
  ASSUME TypeOK, Close \/ CloseFile
  PROVE  TypeOK'
<1>1. CASE Close
  <2>1. /\ pending' \in Seq(Line) /\ pendingBytes' \in Nat
        /\ inflight' \in Seq(Chunk) /\ inFlightBytes' \in Int
    BY <1>1, FlushTypes DEF TypeOK, Close
  <2> QED
    BY <1>1, <2>1 DEF TypeOK, Close, totals, disk
<1>2. CASE CloseFile
  BY <1>2 DEF TypeOK, CloseFile, buffer, totals, disk
<1> QED
  BY <1>1, <1>2

LEMMA TypeStep == TypeOK /\ [Next]_vars => TypeOK'
<1> SUFFICES ASSUME TypeOK, [Next]_vars PROVE TypeOK'
  OBVIOUS
<1>1. CASE AfterCap
  <2>1. truncation \in [reason : Caps \cup {"none", "backpressure"}, dropped : Nat]
    BY Zenon DEF TypeOK
  <2>2. truncation' \in [reason : Caps \cup {"none", "backpressure"}, dropped : Nat]
    BY <1>1, <2>1, OneMoreLost, Zenon DEF AfterCap
  <2>3. /\ offered' \in Nat /\ drops' \in Nat
        /\ UNCHANGED <<disk, phase, outcome, buffer, byteCount, eventCount>>
    BY <1>1 DEF TypeOK, AfterCap, Offer
  <2> QED
    BY <2>2, <2>3, TypeSame
<1>2. ASSUME NEW s \in Sizes, Trip(s) \/ Drop(s) \/ Accept(s) PROVE TypeOK'
  BY <1>2, TypeAppend
<1>3. CASE WriteOK \/ WriteFails \/ WriteShort
  BY <1>3, TypeDisk
<1>4. CASE Close \/ CloseFile
  BY <1>4, TypeClose
<1>5. CASE UNCHANGED vars
  BY <1>5 DEF TypeOK, vars, buffer, totals, disk
<1> QED
  BY <1>1, <1>2, <1>3, <1>4, <1>5 DEF Next

\* The log keeps its types, for any sizes, caps and window.
THEOREM LogTypeOK == Spec => []TypeOK
<1>1. Init => TypeOK
  BY TypeInit
<1>2. TypeOK /\ [Next]_vars => TypeOK'
  BY TypeStep
<1> QED
  BY <1>1, <1>2, PTL DEF Spec

-----------------------------------------------------------------------------
(* The limits.  A chunk written takes off the counter what it put on it: at  *)
(* least nothing, by its type.                                               *)

Limits == WithinWindow /\ WithinCaps

LEMMA LimitsInit == Init => Limits
BY LimitsAssumption DEF Init, Limits, WithinWindow, WithinCaps

LEMMA NoMore ==
  ASSUME NEW a \in Nat, NEW b \in Int, NEW c \in Nat, NEW d \in Int, NEW m \in Nat,
         a + b <= m, c + d <= a + b
  PROVE  c + d <= m
OBVIOUS

LEMMA LimitsStep == TypeOK /\ Limits /\ [Next]_vars => Limits'
<1> SUFFICES ASSUME TypeOK, Limits, [Next]_vars PROVE Limits'
  OBVIOUS
<1> USE DEF Limits, WithinWindow, WithinCaps
<1>1. CASE AfterCap
  BY <1>1 DEF AfterCap, buffer
<1>2. ASSUME NEW s \in Sizes, Trip(s) PROVE Limits'
  BY <1>2 DEF Trip, buffer
<1>3. ASSUME NEW s \in Sizes, Drop(s) PROVE Limits'
  BY <1>3 DEF Drop, buffer
<1>4. ASSUME NEW s \in Sizes, Accept(s) PROVE Limits'
  <2>1. s \in Nat
    BY LimitsAssumption
  <2>2. /\ eventCount + 1 <= MaxEvents /\ byteCount + s <= MaxBytes
        /\ pendingBytes + inFlightBytes + s <= MaxPending
    BY <1>4, <2>1, LimitsAssumption DEF TypeOK, Accept, TooManyEvents, TooManyBytes, Behind
  <2>3. pendingBytes' + inFlightBytes' = pendingBytes + inFlightBytes + s
    BY <1>4, <2>1 DEF TypeOK, Accept, Flush
  <2> QED
    BY <1>4, <2>2, <2>3 DEF Accept
<1>5. CASE WriteOK \/ WriteFails \/ WriteShort
  <2>1. Written /\ inflight # << >>
    BY <1>5 DEF WriteOK, WriteFails, WriteShort, Written
  <2>2. Head(inflight).bytes \in Nat
    BY <2>1, HeadTypes
  <2>3. pendingBytes' + inFlightBytes' <= pendingBytes + inFlightBytes
    <3>1. pendingBytes' = pendingBytes /\ inFlightBytes' = inFlightBytes - Head(inflight).bytes
      BY <2>1 DEF Written
    <3>2. pendingBytes \in Nat /\ inFlightBytes \in Int
      BY Zenon DEF TypeOK
    <3> HIDE DEF Limits, WithinWindow, WithinCaps
    <3> QED
      BY <2>2, <3>1, <3>2
  <2>4. UNCHANGED <<byteCount, eventCount>>
    BY <2>1 DEF Written, totals
  <2>5. pendingBytes \in Nat /\ inFlightBytes \in Int /\ inFlightBytes' \in Int /\ pendingBytes' \in Nat
    BY <2>1, <2>2 DEF TypeOK, Written
  <2>6. MaxPending \in Nat /\ MaxEvents \in Nat /\ MaxBytes \in Nat
    BY LimitsAssumption
  <2>7. pendingBytes + inFlightBytes <= MaxPending
    BY DEF Limits
  <2>8. pendingBytes' + inFlightBytes' <= MaxPending
    BY <2>3, <2>5, <2>6, <2>7, NoMore
  <2> QED
    BY <2>4, <2>8
<1>6. CASE Close
  BY <1>6, LimitsAssumption DEF TypeOK, Close, Flush, totals
<1>7. CASE CloseFile
  BY <1>7 DEF CloseFile, buffer, totals
<1>8. CASE UNCHANGED vars
  BY <1>8 DEF vars, buffer, totals
<1> QED
  BY <1>1, <1>2, <1>3, <1>4, <1>5, <1>6, <1>7, <1>8 DEF Next

\* What the log counts as held never exceeds the window, nor what it accepted
\* the caps, whatever the disk does (append's tests, flush's bookkeeping).
THEOREM LimitsHold == Spec => [](WithinWindow /\ WithinCaps)
<1>1. Init => TypeOK /\ Limits
  BY TypeInit, LimitsInit
<1>2. (TypeOK /\ Limits) /\ [Next]_vars => (TypeOK /\ Limits)'
  BY TypeStep, LimitsStep
<1>3. TypeOK /\ Limits => WithinWindow /\ WithinCaps
  BY DEF Limits
<1> QED
  BY <1>1, <1>2, <1>3, PTL DEF Spec

-----------------------------------------------------------------------------
(* The accounts.                                                             *)

LEMMA AccountsInit == Init => EveryEventCounted
BY DEF Init, EveryEventCounted, Caps

LEMMA AccountsStep == TypeOK /\ EveryEventCounted /\ [Next]_vars => EveryEventCounted'
<1> SUFFICES ASSUME TypeOK, EveryEventCounted, [Next]_vars PROVE EveryEventCounted'
  OBVIOUS
<1> USE DEF EveryEventCounted, Caps
<1> /\ offered \in Nat /\ eventCount \in Nat /\ drops \in Nat
    /\ truncation.dropped \in Nat
    /\ truncation.reason \in {"event-cap", "size-cap", "none", "backpressure"}
  BY Zenon DEF TypeOK
<1>1. CASE AfterCap
  <2>1. /\ truncation.reason \in {"event-cap", "size-cap"}
        /\ truncation'.reason = truncation.reason
        /\ truncation'.dropped = truncation.dropped + 1
        /\ offered' = offered + 1 /\ eventCount' = eventCount /\ drops' = drops
    BY <1>1 DEF TypeOK, AfterCap, Offer, Capped
  <2> QED
    BY <2>1
<1>2. ASSUME NEW s \in Sizes, Trip(s) PROVE EveryEventCounted'
  <2>1. /\ truncation.reason \notin {"event-cap", "size-cap"}
        /\ truncation'.reason \in {"event-cap", "size-cap"} /\ truncation'.dropped = 1
        /\ offered' = offered + 1 /\ eventCount' = eventCount /\ drops' = drops
    BY <1>2 DEF Trip, Offer, Capped
  <2> QED
    BY <2>1
<1>3. ASSUME NEW s \in Sizes, Drop(s) PROVE EveryEventCounted'
  <2>1. /\ truncation.reason \notin {"event-cap", "size-cap"}
        /\ truncation' = Noted
        /\ offered' = offered + 1 /\ eventCount' = eventCount /\ drops' = drops + 1
    BY <1>3 DEF Drop, Offer, Capped
  <2>2. CASE truncation.reason = "none"
    BY <2>1, <2>2 DEF Noted
  <2>3. CASE truncation.reason = "backpressure"
    <3>1. truncation'.reason = "backpressure" /\ truncation'.dropped = truncation.dropped + 1
      BY <2>1, <2>3 DEF Noted, TypeOK
    <3> QED
      BY <2>1, <2>3, <3>1
  <2> QED
    BY <2>1, <2>2, <2>3
<1>4. ASSUME NEW s \in Sizes, Accept(s) PROVE EveryEventCounted'
  <2>1. /\ truncation.reason \notin {"event-cap", "size-cap"} /\ truncation' = truncation
        /\ offered' = offered + 1 /\ eventCount' = eventCount + 1 /\ drops' = drops
    BY <1>4 DEF Accept, Offer, Capped
  <2> QED
    BY <2>1
<1>5. CASE WriteOK \/ WriteFails \/ WriteShort
  BY <1>5 DEF WriteOK, WriteFails, WriteShort, Written, totals
<1>6. CASE Close \/ CloseFile
  BY <1>6 DEF Close, CloseFile, totals
<1>7. CASE UNCHANGED vars
  BY <1>7 DEF vars, totals
<1> QED
  BY <1>1, <1>2, <1>3, <1>4, <1>5, <1>6, <1>7 DEF Next

\* Every event offered is accepted or counted as lost exactly once, although
\* the record of drops is overwritten when a cap is reached (append, trip).
THEOREM AllCounted == Spec => []EveryEventCounted
<1>1. Init => TypeOK /\ EveryEventCounted
  BY TypeInit, AccountsInit
<1>2. (TypeOK /\ EveryEventCounted) /\ [Next]_vars => (TypeOK /\ EveryEventCounted)'
  BY TypeStep, AccountsStep
<1> QED
  BY <1>1, <1>2, PTL DEF Spec

\* A cap once reached stays the reason, and nothing is accepted after it, not
\* even an event small enough (append's first test).
THEOREM CapsAreFinal == Spec => CapIsFinal
<1>1. TypeOK /\ [Next]_vars =>
        (truncation.reason \in Caps =>
           /\ eventCount' = eventCount /\ byteCount' = byteCount
           /\ truncation'.reason = truncation.reason)
  <2> SUFFICES ASSUME TypeOK, [Next]_vars, truncation.reason \in Caps
               PROVE  /\ eventCount' = eventCount /\ byteCount' = byteCount
                      /\ truncation'.reason = truncation.reason
    OBVIOUS
  <2>1. CASE AfterCap
    BY <2>1 DEF TypeOK, AfterCap
  <2>2. ASSUME NEW s \in Sizes PROVE ~ (Trip(s) \/ Drop(s) \/ Accept(s))
    BY DEF Trip, Drop, Accept, Capped
  <2>3. CASE WriteOK \/ WriteFails \/ WriteShort \/ Close \/ CloseFile
    BY <2>3 DEF WriteOK, WriteFails, WriteShort, Written, Close, CloseFile, totals
  <2>4. CASE UNCHANGED vars
    BY <2>4 DEF vars, totals
  <2> QED
    BY <2>1, <2>2, <2>3, <2>4 DEF Next
<1> QED
  BY <1>1, LogTypeOK, PTL DEF Spec, CapIsFinal
-----------------------------------------------------------------------------
(* Induction.  The library's induction theorems are about operators, its      *)
(* theorem WFMin about sets: from it come, for sets, induction over the       *)
(* naturals and over sequences, and what a function defined by recursion is.  *)

Less == {ss \in Nat \X Nat : ss[1] < ss[2]}

\* A set of naturals with a member has a least one.
LEMMA LeastNatural ==
  ASSUME NEW T \in SUBSET Nat, T # {}
  PROVE  \E n \in T : \A m \in T : n <= m
<1>1. IsWellFoundedOn(Less, Nat)
  BY NatLessThanWellFounded DEF OpToRel, Less
<1>2. PICK n \in T : \A m \in T : <<m, n>> \notin Less
  BY <1>1, WFMin
<1>3. ASSUME NEW m \in T PROVE n <= m
  <2>1. m \in Nat /\ n \in Nat /\ <<m, n>> \notin Less
    BY <1>2
  <2> QED
    BY <2>1 DEF Less
<1> QED
  BY <1>3

\* A set of naturals with 0 and the successor of each of its members has all.
LEMMA NaturalsBySteps ==
  ASSUME NEW T \in SUBSET Nat, 0 \in T, \A n \in T : n + 1 \in T
  PROVE  T = Nat
<1> SUFFICES ASSUME Nat \ T # {} PROVE FALSE
  OBVIOUS
<1>1. PICK n \in Nat \ T : \A m \in Nat \ T : n <= m
  BY LeastNatural
<1>2. n # 0 /\ n - 1 \in T
  BY <1>1
<1> QED
  BY <1>1, <1>2

\* A sequence is its front and its last element.
LEMMA FrontAndLast ==
  ASSUME NEW S, NEW n \in Nat, NEW s \in Seq(S), Len(s) = n + 1
  PROVE  /\ SubSeq(s, 1, n) \in Seq(S) /\ Len(SubSeq(s, 1, n)) = n /\ s[n + 1] \in S
         /\ Append(SubSeq(s, 1, n), s[n + 1]) = s
<1> DEFINE u == SubSeq(s, 1, n)
           t == Append(u, s[n + 1])
<1>1. u \in Seq(S) /\ Len(u) = n /\ s[n + 1] \in S
  OBVIOUS
<1>2. ASSUME NEW i \in 1 .. n PROVE u[i] = s[i]
  OBVIOUS
<1> HIDE DEF u
<1>3. /\ t \in Seq(S) /\ Len(t) = n + 1
      /\ \A i \in 1 .. n : t[i] = u[i]
      /\ t[n + 1] = s[n + 1]
  BY <1>1, AppendProperties
<1> HIDE DEF t
<1>4. ASSUME NEW i \in 1 .. n + 1 PROVE t[i] = s[i]
  BY <1>2, <1>3
<1>5. t = s
  BY <1>3, <1>4, SeqEqual
<1> QED
  BY <1>1, <1>5 DEF t, u

\* Likewise a set of sequences with << >> and each of its members' extensions.
LEMMA SequencesBySteps ==
  ASSUME NEW S, NEW T \in SUBSET Seq(S), << >> \in T,
         \A s \in T : \A x \in S : Append(s, x) \in T
  PROVE  T = Seq(S)
<1> DEFINE N == {n \in Nat : \A s \in Seq(S) : Len(s) = n => s \in T}
<1>1. 0 \in N
  BY EmptySeq
<1>2. ASSUME NEW n \in N PROVE n + 1 \in N
  <2> SUFFICES ASSUME NEW s \in Seq(S), Len(s) = n + 1 PROVE s \in T
    OBVIOUS
  <2>1. SubSeq(s, 1, n) \in Seq(S) /\ Len(SubSeq(s, 1, n)) = n /\ s[n + 1] \in S
    BY FrontAndLast
  <2>2. Append(SubSeq(s, 1, n), s[n + 1]) = s
    BY FrontAndLast
  <2>3. SubSeq(s, 1, n) \in T
    BY <2>1
  <2> QED
    BY <2>1, <2>2, <2>3
<1>3. N = Nat
  <2>1. N \in SUBSET Nat
    OBVIOUS
  <2> HIDE DEF N
  <2> QED
    BY <1>1, <1>2, <2>1, NaturalsBySteps
<1>4. ASSUME NEW s \in Seq(S) PROVE s \in T
  <2>1. Len(s) \in N
    BY <1>3, LenProperties
  <2> QED
    BY <2>1
<1> QED
  BY <1>4

\* Two functions that start alike and go on alike are alike.
GoAlike(f, g, n) == f[0] = g[0] /\ \A i \in 1 .. n : f[i - 1] = g[i - 1] => f[i] = g[i]
Alike(f, g, n)   == \A i \in 0 .. n : f[i] = g[i]

LEMMA AlikeBySteps ==
  ASSUME NEW n \in Nat, NEW f, NEW g, GoAlike(f, g, n)
  PROVE  Alike(f, g, n)
<1> DEFINE T == {i \in Nat : i <= n => f[i] = g[i]}
<1>1. 0 \in T
  BY DEF GoAlike
<1>2. ASSUME NEW i \in T PROVE i + 1 \in T
  BY DEF GoAlike
<1>3. T \in SUBSET Nat
  OBVIOUS
<1>4. T = Nat
  <2> HIDE DEF T
  <2> QED
    BY <1>1, <1>2, <1>3, NaturalsBySteps
<1> QED
  BY <1>4 DEF Alike

\* From any start, a function that says how to go on can be followed.
Follows(f, v, F, n) == f[0] = v /\ \A i \in 1 .. n : f[i] = F[<<i, f[i - 1]>>]

LEMMA FollowedBySteps ==
  ASSUME NEW S, NEW v \in S, NEW n \in Nat, NEW F \in [(1 .. n) \X S -> S]
  PROVE  \E f \in [0 .. n -> S] : Follows(f, v, F, n)
<1> USE DEF Follows
<1> DEFINE T == {k \in Nat : k <= n => \E f \in [0 .. k -> S] : Follows(f, v, F, k)}
<1>1. 0 \in T
  <2>1. [i \in 0 .. 0 |-> v] \in [0 .. 0 -> S] /\ Follows([i \in 0 .. 0 |-> v], v, F, 0)
    OBVIOUS
  <2> QED
    BY <2>1
<1>2. ASSUME NEW k \in T PROVE k + 1 \in T
  <2> SUFFICES ASSUME k + 1 <= n PROVE \E f \in [0 .. k + 1 -> S] : Follows(f, v, F, k + 1)
    OBVIOUS
  <2>1. PICK f \in [0 .. k -> S] : Follows(f, v, F, k)
    BY <1>2
  <2> DEFINE w == F[<<k + 1, f[k]>>]
             g == [i \in 0 .. k + 1 |-> IF i = k + 1 THEN w ELSE f[i]]
  <2>2. w \in S
    OBVIOUS
  <2>3. g \in [0 .. k + 1 -> S]
    BY <2>2
  <2>4. g[0] = v
    BY <2>1
  <2>5. ASSUME NEW i \in 1 .. k + 1 PROVE g[i] = F[<<i, g[i - 1]>>]
    <3>1. g[i - 1] = f[i - 1]
      OBVIOUS
    <3>2. CASE i = k + 1
      <4>1. g[i] = w /\ g[i - 1] = f[k]
        BY <3>1, <3>2
      <4> QED
        BY <3>2, <4>1
    <3>3. CASE i \in 1 .. k
      BY <2>1, <3>1, <3>3
    <3> QED
      BY <3>2, <3>3
  <2> QED
    BY <2>3, <2>4, <2>5
<1>3. T \in SUBSET Nat
  OBVIOUS
<1>4. T = Nat
  <2> HIDE DEF T
  <2> QED
    BY <1>1, <1>2, <1>3, NaturalsBySteps
<1> QED
  BY <1>4
-----------------------------------------------------------------------------
(* The bytes of lines and the lines of chunks.                               *)

\* The partial sums of sizes that BytesOf takes, and the partial concatenations
\* that LinesOf takes.
IsSum(f, lines) ==
  f[0] = 0 /\ \A i \in 1 .. Len(lines) : f[i] = f[i - 1] + lines[i].size
Joined(lines, chunk) == lines \o chunk.lines
IsJoin(f, chunks) ==
  f[0] = << >> /\ \A i \in 1 .. Len(chunks) : f[i] = Joined(f[i - 1], chunks[i])

LEMMA LineSize ==
  ASSUME NEW lines \in Seq(Line), NEW i \in 1 .. Len(lines)
  PROVE  lines[i] \in Line /\ lines[i].size \in Nat
<1>1. lines[i] \in Line
  OBVIOUS
<1> QED
  BY <1>1, LimitsAssumption DEF Line

LEMMA LineNumber ==
  ASSUME NEW lines \in Seq(Line), NEW i \in DOMAIN lines
  PROVE  lines[i].n \in Nat
<1>1. lines[i] \in Line
  OBVIOUS
<1> QED
  BY <1>1 DEF Line

LEMMA ChunkLines ==
  ASSUME NEW chunks \in Seq(Chunk), NEW i \in 1 .. Len(chunks)
  PROVE  chunks[i] \in Chunk /\ chunks[i].lines \in Seq(Line)
<1>1. chunks[i] \in Chunk
  OBVIOUS
<1> QED
  BY <1>1 DEF Chunk

LEMMA BytesAreSums ==
  ASSUME NEW lines \in Seq(Line)
  PROVE  \E f \in [0 .. Len(lines) -> Nat] : IsSum(f, lines) /\ BytesOf(lines) = f[Len(lines)]
<1> DEFINE n == Len(lines)
           F == [ix \in (1 .. n) \X Nat |-> ix[2] + lines[ix[1]].size]
<1>1. n \in Nat /\ 0 \in Nat /\ F \in [(1 .. n) \X Nat -> Nat]
  BY LineSize
<1>2. PICK g \in [0 .. n -> Nat] : Follows(g, 0, F, n)
  <2> HIDE DEF n, F
  <2> QED
    BY <1>1, FollowedBySteps
<1>3. ASSUME NEW i \in 1 .. n PROVE g[i] = g[i - 1] + lines[i].size
  <2>1. i - 1 \in 0 .. n /\ g[i - 1] \in Nat
    BY <1>1
  <2>2. g[i] = F[<<i, g[i - 1]>>]
    BY <1>2 DEF Follows
  <2> QED
    BY <2>1, <2>2
<1>4. g[0] = 0 /\ IsSum(g, lines)
  BY <1>2, <1>3 DEF IsSum, Follows
<1> HIDE DEF F
<1> DEFINE Def(h) == h = [i \in 0 .. Len(lines) |-> IF i = 0 THEN 0 ELSE h[i - 1] + lines[i].size]
           f[i \in 0 .. Len(lines)] == IF i = 0 THEN 0 ELSE f[i - 1] + lines[i].size
<1>5. Def(g)
  BY <1>3, <1>4
<1>6. BytesOf(lines) = f[n]
  BY DEF BytesOf
<1>7. f = CHOOSE h : Def(h)
  OBVIOUS
<1> HIDE DEF f
<1>8. Def(f)
  <2> HIDE DEF Def
  <2> QED
    BY <1>5, <1>7
<1>9. f[n] = g[n]
  <2>1. f[0] = 0 /\ \A i \in 1 .. n : f[i] = f[i - 1] + lines[i].size
    BY <1>8
  <2>2. GoAlike(f, g, n)
    BY <1>3, <1>4, <2>1 DEF GoAlike
  <2>3. Alike(f, g, n)
    BY <1>1, <2>2, AlikeBySteps
  <2> QED
    BY <1>1, <2>3 DEF Alike
<1> QED
  BY <1>4, <1>6, <1>9

LEMMA LinesAreJoined ==
  ASSUME NEW chunks \in Seq(Chunk)
  PROVE  \E f \in [0 .. Len(chunks) -> Seq(Line)] : IsJoin(f, chunks) /\ LinesOf(chunks) = f[Len(chunks)]
<1> DEFINE n == Len(chunks)
           F == [ix \in (1 .. n) \X Seq(Line) |-> Joined(ix[2], chunks[ix[1]])]
<1>1. n \in Nat /\ << >> \in Seq(Line) /\ F \in [(1 .. n) \X Seq(Line) -> Seq(Line)]
  <2>1. ASSUME NEW i \in 1 .. n, NEW v \in Seq(Line) PROVE Joined(v, chunks[i]) \in Seq(Line)
    BY ChunkLines DEF Joined
  <2> QED
    BY <2>1, EmptySeq
<1>2. PICK g \in [0 .. n -> Seq(Line)] : Follows(g, << >>, F, n)
  <2> HIDE DEF n, F
  <2> QED
    BY <1>1, FollowedBySteps
<1>3. ASSUME NEW i \in 1 .. n PROVE g[i] = Joined(g[i - 1], chunks[i])
  <2>0. i - 1 \in 0 .. n
    BY <1>1
  <2>1. g[i - 1] \in Seq(Line)
    BY <2>0
  <2>2. g[i] = F[<<i, g[i - 1]>>]
    BY <1>2 DEF Follows
  <2> QED
    BY <2>1, <2>2
<1>4. g[0] = << >> /\ IsJoin(g, chunks)
  BY <1>2, <1>3 DEF IsJoin, Follows
<1> HIDE DEF F
<1> DEFINE Def(h) == h = [i \in 0 .. Len(chunks) |-> IF i = 0 THEN << >> ELSE Joined(h[i - 1], chunks[i])]
           f[i \in 0 .. Len(chunks)] == IF i = 0 THEN << >> ELSE f[i - 1] \o chunks[i].lines
<1>5. Def(g)
  BY <1>3, <1>4
<1>6. LinesOf(chunks) = f[n]
  BY DEF LinesOf
<1>7. f = CHOOSE h : Def(h)
  BY DEF Joined
<1> HIDE DEF f
<1>8. Def(f)
  <2> HIDE DEF Def
  <2> QED
    BY <1>5, <1>7
<1>9. f[n] = g[n]
  <2>1. f[0] = << >> /\ \A i \in 1 .. n : f[i] = Joined(f[i - 1], chunks[i])
    BY <1>8
  <2>2. GoAlike(f, g, n)
    BY <1>3, <1>4, <2>1 DEF GoAlike
  <2>3. Alike(f, g, n)
    BY <1>1, <2>2, AlikeBySteps
  <2> QED
    BY <1>1, <2>3 DEF Alike
<1> QED
  BY <1>4, <1>6, <1>9

LEMMA BytesOfNat == \A s \in Seq(Line) : BytesOf(s) \in Nat
<1> SUFFICES ASSUME NEW s \in Seq(Line) PROVE BytesOf(s) \in Nat
  OBVIOUS
<1>1. PICK f \in [0 .. Len(s) -> Nat] : BytesOf(s) = f[Len(s)]
  BY BytesAreSums
<1>2. Len(s) \in 0 .. Len(s)
  OBVIOUS
<1> QED
  BY <1>1, <1>2

LEMMA LinesOfSeq == \A s \in Seq(Chunk) : LinesOf(s) \in Seq(Line)
<1> SUFFICES ASSUME NEW s \in Seq(Chunk) PROVE LinesOf(s) \in Seq(Line)
  OBVIOUS
<1>1. PICK f \in [0 .. Len(s) -> Seq(Line)] : LinesOf(s) = f[Len(s)]
  BY LinesAreJoined
<1>2. Len(s) \in 0 .. Len(s)
  OBVIOUS
<1> QED
  BY <1>1, <1>2

LEMMA BytesOfNone == BytesOf(<< >>) = 0
<1>1. << >> \in Seq(Line) /\ Len(<< >>) = 0
  OBVIOUS
<1> QED
  BY <1>1, BytesAreSums DEF IsSum

LEMMA LinesOfNone == LinesOf(<< >>) = << >>
<1>1. << >> \in Seq(Chunk) /\ Len(<< >>) = 0
  OBVIOUS
<1> QED
  BY <1>1, LinesAreJoined DEF IsJoin

LEMMA BytesOfMore ==
  ASSUME NEW s \in Seq(Line), NEW x \in Line
  PROVE  BytesOf(s) \in Nat /\ BytesOf(Append(s, x)) = BytesOf(s) + x.size
<1> DEFINE n == Len(s)
           t == Append(s, x)
<1>1. PICK f \in [0 .. n -> Nat] : IsSum(f, s) /\ BytesOf(s) = f[n]
  BY BytesAreSums
<1>2. t \in Seq(Line) /\ Len(t) = n + 1 /\ t[n + 1] = x /\ \A i \in 1 .. n : t[i] = s[i]
  BY AppendProperties
<1> HIDE DEF t
<1>3. PICK g \in [0 .. n + 1 -> Nat] : IsSum(g, t) /\ BytesOf(t) = g[n + 1]
  BY <1>2, BytesAreSums
<1>4. n \in Nat
  OBVIOUS
<1>5. GoAlike(f, g, n)
  BY <1>1, <1>2, <1>3 DEF GoAlike, IsSum
<1>6. f[n] = g[n]
  <2>1. Alike(f, g, n)
    BY <1>4, <1>5, AlikeBySteps
  <2> QED
    BY <1>4, <2>1 DEF Alike
<1>7. g[n + 1] = g[n] + x.size
  <2>1. n + 1 \in 1 .. Len(t) /\ (n + 1) - 1 = n
    BY <1>2, <1>4
  <2> QED
    BY <1>2, <1>3, <2>1 DEF IsSum
<1> QED
  BY <1>1, <1>3, <1>4, <1>6, <1>7 DEF t

LEMMA LinesOfMore ==
  ASSUME NEW s \in Seq(Chunk), NEW x \in Chunk
  PROVE  LinesOf(s) \in Seq(Line) /\ LinesOf(Append(s, x)) = LinesOf(s) \o x.lines
<1> DEFINE n == Len(s)
           t == Append(s, x)
<1>1. PICK f \in [0 .. n -> Seq(Line)] : IsJoin(f, s) /\ LinesOf(s) = f[n]
  BY LinesAreJoined
<1>2. t \in Seq(Chunk) /\ Len(t) = n + 1 /\ t[n + 1] = x /\ \A i \in 1 .. n : t[i] = s[i]
  BY AppendProperties
<1> HIDE DEF t
<1>3. PICK g \in [0 .. n + 1 -> Seq(Line)] : IsJoin(g, t) /\ LinesOf(t) = g[n + 1]
  BY <1>2, LinesAreJoined
<1>4. n \in Nat
  OBVIOUS
<1>5. GoAlike(f, g, n)
  BY <1>1, <1>2, <1>3 DEF GoAlike, IsJoin
<1>6. f[n] = g[n]
  <2>1. Alike(f, g, n)
    BY <1>4, <1>5, AlikeBySteps
  <2> QED
    BY <1>4, <2>1 DEF Alike
<1>7. g[n + 1] = Joined(g[n], x)
  <2>1. n + 1 \in 1 .. Len(t) /\ (n + 1) - 1 = n
    BY <1>2, <1>4
  <2> QED
    BY <1>2, <1>3, <2>1 DEF IsJoin
<1> QED
  BY <1>1, <1>3, <1>4, <1>6, <1>7 DEF t, Joined

\* Bytes add up.
LEMMA BytesOfBoth ==
  ASSUME NEW s \in Seq(Line), NEW t \in Seq(Line)
  PROVE  BytesOf(s \o t) = BytesOf(s) + BytesOf(t)
<1> DEFINE T == {u \in Seq(Line) : BytesOf(s \o u) = BytesOf(s) + BytesOf(u)}
<1>0. \A u \in Seq(Line) : BytesOf(u) \in Nat
  BY BytesOfNat
<1>1. << >> \in T
  <2>1. s \o << >> = s /\ << >> \in Seq(Line)
    BY ConcatEmptySeq
  <2> QED
    BY <1>0, <2>1, BytesOfNone
<1>2. ASSUME NEW u \in T, NEW x \in Line PROVE Append(u, x) \in T
  <2>1. s \o Append(u, x) = Append(s \o u, x) /\ s \o u \in Seq(Line) /\ Append(u, x) \in Seq(Line)
    OBVIOUS
  <2>2. /\ BytesOf(Append(s \o u, x)) = BytesOf(s \o u) + x.size
        /\ BytesOf(Append(u, x)) = BytesOf(u) + x.size
    BY <2>1, BytesOfMore
  <2>3. x.size \in Nat
    BY LimitsAssumption DEF Line
  <2>4. BytesOf(s \o u) = BytesOf(s) + BytesOf(u) /\ u \in Seq(Line)
    OBVIOUS
  <2>5. BytesOf(s) \in Nat /\ BytesOf(u) \in Nat
    BY <1>0, <2>4
  <2>6. BytesOf(s \o Append(u, x)) = BytesOf(s) + BytesOf(Append(u, x))
    BY <2>1, <2>2, <2>3, <2>4, <2>5
  <2> QED
    BY <2>1, <2>6
<1>3. T \in SUBSET Seq(Line)
  OBVIOUS
<1>4. T = Seq(Line)
  <2> HIDE DEF T
  <2> QED
    BY <1>1, <1>2, <1>3, SequencesBySteps
<1> QED
  BY <1>4

LEMMA ThreeInOrder ==
  \A a, b, c \in Seq(Line) : (a \o b) \o c = a \o (b \o c)
BY ConcatAssociative

\* The lines of the first chunk come first.
LEMMA LinesOfFirst ==
  ASSUME NEW s \in Seq(Chunk), s # << >>
  PROVE  LinesOf(s) = Head(s).lines \o LinesOf(Tail(s))
<1> DEFINE T == {u \in Seq(Chunk) : u # << >> => LinesOf(u) = Head(u).lines \o LinesOf(Tail(u))}
<1>0. \A u \in Seq(Chunk) : LinesOf(u) \in Seq(Line)
  BY LinesOfSeq
<1>1. << >> \in T
  OBVIOUS
<1>2. ASSUME NEW u \in T, NEW x \in Chunk PROVE Append(u, x) \in T
  <2>0. x.lines \in Seq(Line) /\ u \in Seq(Chunk)
    BY DEF Chunk
  <2>1. LinesOf(Append(u, x)) = LinesOf(u) \o x.lines
    BY LinesOfMore
  <2>2. CASE u = << >>
    <3>1. Head(Append(u, x)) = x /\ Tail(Append(u, x)) = << >>
      BY <2>2
    <3> QED
      BY <2>0, <2>1, <2>2, <3>1, LinesOfNone
  <2>3. CASE u # << >>
    <3>1. Head(u) \in Chunk /\ Tail(u) \in Seq(Chunk)
      BY <2>0, <2>3
    <3>2. Head(Append(u, x)) = Head(u) /\ Tail(Append(u, x)) = Append(Tail(u), x)
      BY <2>0, <2>3
    <3>3. LinesOf(Append(Tail(u), x)) = LinesOf(Tail(u)) \o x.lines
      BY <3>1, LinesOfMore
    <3>4. Head(u).lines \in Seq(Line) /\ LinesOf(Tail(u)) \in Seq(Line)
      BY <1>0, <3>1 DEF Chunk
    <3>5. LinesOf(u) \o x.lines = Head(u).lines \o (LinesOf(Tail(u)) \o x.lines)
      <4>1. LinesOf(u) = Head(u).lines \o LinesOf(Tail(u))
        BY <2>3
      <4>2. (Head(u).lines \o LinesOf(Tail(u))) \o x.lines
              = Head(u).lines \o (LinesOf(Tail(u)) \o x.lines)
        BY <2>0, <3>4, ThreeInOrder
      <4> QED
        BY <4>1, <4>2, Zenon
    <3>6. LinesOf(Append(u, x)) = Head(Append(u, x)).lines \o LinesOf(Tail(Append(u, x)))
      BY <2>1, <3>2, <3>3, <3>5, Zenon
    <3>7. Append(u, x) \in Seq(Chunk)
      BY <2>0
    <3> QED
      BY <3>6, <3>7, Zenon
  <2> QED
    BY <2>2, <2>3
<1>3. T \in SUBSET Seq(Chunk)
  OBVIOUS
<1>4. T = Seq(Chunk)
  <2> HIDE DEF T
  <2> QED
    BY <1>1, <1>2, <1>3, SequencesBySteps
<1> QED
  BY <1>4
-----------------------------------------------------------------------------
(* What each step does to the lines held in memory.                          *)

LEMMA HeldTypes == TypeOK => Held \in Seq(Line)
<1> SUFFICES ASSUME TypeOK PROVE Held \in Seq(Line)
  OBVIOUS
<1>1. LinesOf(inflight) \in Seq(Line) /\ pending \in Seq(Line)
  BY LinesOfSeq DEF TypeOK
<1> QED
  BY <1>1 DEF Held

\* flush moves lines and keeps their order.
LEMMA HeldFlush ==
  ASSUME TypeOK, NEW lines \in Seq(Line), NEW bytes \in Nat, Flush(lines, bytes)
  PROVE  Held' = LinesOf(inflight) \o lines
<1>1. LinesOf(inflight) \in Seq(Line) /\ inflight \in Seq(Chunk)
  BY LinesOfSeq DEF TypeOK
<1>2. pending' = << >> /\ Held' = LinesOf(inflight') \o pending'
  BY DEF Flush, Held
<1>3. CASE lines = << >>
  BY <1>1, <1>2, <1>3 DEF Flush
<1>4. CASE lines # << >>
  <2> DEFINE c == [lines |-> lines, bytes |-> bytes]
  <2>1. c \in Chunk /\ c.lines = lines /\ inflight' = Append(inflight, c)
    BY <1>4 DEF Flush, Chunk
  <2>2. LinesOf(inflight') = LinesOf(inflight) \o lines
    BY <1>1, <2>1, LinesOfMore
  <2>3. LinesOf(inflight) \o lines \in Seq(Line)
    BY <1>1
  <2> QED
    BY <1>2, <2>2, <2>3, ConcatEmptySeq
<1> QED
  BY <1>3, <1>4

\* An accepted event is the last line held.
LEMMA HeldAccept ==
  ASSUME TypeOK, NEW s \in Sizes, Accept(s)
  PROVE  /\ [n |-> offered + 1, size |-> s] \in Line
         /\ Held' = Append(Held, [n |-> offered + 1, size |-> s])
<1> DEFINE x     == [n |-> offered + 1, size |-> s]
           lines == Append(pending, x)
           bytes == pendingBytes + s
<1>1. x \in Line /\ s \in Nat
  BY LimitsAssumption DEF TypeOK, Line
<1>2. LinesOf(inflight) \in Seq(Line) /\ pending \in Seq(Line)
  BY LinesOfSeq DEF TypeOK
<1>3. lines \in Seq(Line) /\ bytes \in Nat
  BY <1>1, <1>2 DEF TypeOK
<1>4. LinesOf(inflight) \o lines = Append(LinesOf(inflight) \o pending, x)
  BY <1>1, <1>2
<1>5. \/ Flush(lines, bytes)
      \/ pending' = lines /\ UNCHANGED inflight
  BY DEF Accept
<1>6. Held' = LinesOf(inflight) \o lines
  <2> HIDE DEF lines, bytes
  <2>1. CASE Flush(lines, bytes)
    BY <1>3, <2>1, HeldFlush
  <2>2. CASE pending' = lines /\ UNCHANGED inflight
    BY <2>2 DEF Held
  <2> QED
    BY <1>5, <2>1, <2>2
<1> QED
  BY <1>1, <1>4, <1>6 DEF Held

\* A write takes the first chunk's lines off the front.
LEMMA HeldWritten ==
  ASSUME TypeOK, Written
  PROVE  /\ Head(inflight).lines \in Seq(Line) /\ Held' \in Seq(Line)
         /\ Held = Head(inflight).lines \o Held'
<1>1. /\ inflight # << >> /\ inflight \in Seq(Chunk) /\ pending \in Seq(Line)
      /\ inflight' = Tail(inflight) /\ pending' = pending
  BY DEF TypeOK, Written
<1>2. /\ Head(inflight).lines \in Seq(Line) /\ Tail(inflight) \in Seq(Chunk)
      /\ LinesOf(Tail(inflight)) \in Seq(Line)
  BY <1>1, HeadTypes, LinesOfSeq
<1>3. LinesOf(inflight) = Head(inflight).lines \o LinesOf(Tail(inflight))
  BY <1>1, LinesOfFirst
<1>4. Held' = LinesOf(Tail(inflight)) \o pending
  BY <1>1 DEF Held
<1>5. Held' \in Seq(Line)
  BY <1>1, <1>2, <1>4
<1>6. (Head(inflight).lines \o LinesOf(Tail(inflight))) \o pending
        = Head(inflight).lines \o (LinesOf(Tail(inflight)) \o pending)
  BY <1>1, <1>2, ThreeInOrder
<1>7. Held = Head(inflight).lines \o Held'
  BY <1>3, <1>4, <1>6, Zenon DEF Held
<1> QED
  BY <1>2, <1>5, <1>7

\* close flushes: what is held stays held.
LEMMA HeldClose ==
  ASSUME TypeOK, Close \/ CloseFile \/ AfterCap \/ (\E s \in Sizes : Trip(s) \/ Drop(s))
  PROVE  Held' = Held
<1>1. CASE Close
  <2>1. Flush(pending, pendingBytes) /\ pending \in Seq(Line) /\ pendingBytes \in Nat
    BY <1>1 DEF Close, TypeOK
  <2> QED
    BY <2>1, HeldFlush DEF Held
<1>2. CASE CloseFile \/ AfterCap \/ (\E s \in Sizes : Trip(s) \/ Drop(s))
  BY <1>2 DEF CloseFile, AfterCap, Trip, Drop, buffer, Held
<1> QED
  BY <1>1, <1>2
-----------------------------------------------------------------------------
(* The counters are what is held: each chunk carries the bytes of its lines,  *)
(* and has some.                                                             *)

ChunksSound == \A i \in DOMAIN inflight :
                 inflight[i].lines # << >> /\ inflight[i].bytes = BytesOf(inflight[i].lines)

Exact == CountersExact /\ ChunksSound

LEMMA ExactInit == Init => Exact
<1> SUFFICES ASSUME Init PROVE Exact
  OBVIOUS
<1>1. pending = << >> /\ inflight = << >> /\ pendingBytes = 0 /\ inFlightBytes = 0
  BY DEF Init
<1>2. DOMAIN inflight = {}
  BY <1>1
<1> QED
  BY <1>1, <1>2, BytesOfNone, LinesOfNone DEF Exact, CountersExact, ChunksSound

LEMMA ExactFlush ==
  ASSUME TypeOK, Exact, NEW lines \in Seq(Line), NEW bytes \in Nat,
         bytes = BytesOf(lines), Flush(lines, bytes)
  PROVE  Exact'
<1>1. inflight \in Seq(Chunk) /\ LinesOf(inflight) \in Seq(Line) /\ inFlightBytes \in Int
  BY LinesOfSeq DEF TypeOK
<1>2. /\ pending' = << >> /\ pendingBytes' = 0 /\ inFlightBytes' = inFlightBytes + bytes
      /\ inFlightBytes = BytesOf(LinesOf(inflight))
  BY DEF Flush, Exact, CountersExact
<1>3. CASE lines = << >>
  <2>1. inflight' = inflight /\ inFlightBytes' = inFlightBytes
    BY <1>1, <1>2, <1>3, BytesOfNone DEF Flush
  <2> QED
    BY <1>2, <2>1, BytesOfNone DEF Exact, CountersExact, ChunksSound
<1>4. CASE lines # << >>
  <2> DEFINE c == [lines |-> lines, bytes |-> bytes]
  <2>1. c \in Chunk /\ c.lines = lines /\ c.bytes = bytes /\ inflight' = Append(inflight, c)
    BY <1>4 DEF Flush, Chunk
  <2> HIDE DEF c
  <2>2. LinesOf(inflight') = LinesOf(inflight) \o lines
    BY <1>1, <2>1, LinesOfMore
  <2>3. BytesOf(LinesOf(inflight')) = BytesOf(LinesOf(inflight)) + bytes
    BY <1>1, <2>2, BytesOfBoth
  <2>4. CountersExact'
    BY <1>2, <2>3, BytesOfNone DEF CountersExact
  <2>5. ASSUME NEW i \in DOMAIN inflight'
        PROVE  inflight'[i].lines # << >> /\ inflight'[i].bytes = BytesOf(inflight'[i].lines)
    <3>1. CASE i = Len(inflight) + 1
      <4>1. inflight'[i] = c
        BY <1>1, <2>1, <3>1
      <4> QED
        BY <1>4, <2>1, <4>1
    <3>2. CASE i \in DOMAIN inflight
      <4>1. inflight'[i] = inflight[i]
        BY <1>1, <2>1, <3>2
      <4> QED
        BY <3>2, <4>1 DEF Exact, ChunksSound
    <3>3. i = Len(inflight) + 1 \/ i \in DOMAIN inflight
      BY <1>1, <2>1
    <3> QED
      BY <3>1, <3>2, <3>3
  <2> QED
    BY <2>4, <2>5 DEF Exact, ChunksSound
<1> QED
  BY <1>3, <1>4

LEMMA ExactWritten == ASSUME TypeOK, Exact, Written PROVE Exact'
<1>1. /\ inflight # << >> /\ inflight \in Seq(Chunk)
      /\ inflight' = Tail(inflight) /\ inFlightBytes' = inFlightBytes - Head(inflight).bytes
      /\ pending' = pending /\ pendingBytes' = pendingBytes
  BY DEF TypeOK, Written
<1>2. /\ Head(inflight).lines \in Seq(Line) /\ Tail(inflight) \in Seq(Chunk)
      /\ LinesOf(Tail(inflight)) \in Seq(Line)
  BY <1>1, HeadTypes, LinesOfSeq
<1>3. Head(inflight).bytes = BytesOf(Head(inflight).lines)
  <2>1. 1 \in DOMAIN inflight /\ Head(inflight) = inflight[1]
    BY <1>1
  <2> QED
    BY <2>1 DEF Exact, ChunksSound
<1>4. BytesOf(LinesOf(inflight)) = BytesOf(Head(inflight).lines) + BytesOf(LinesOf(Tail(inflight)))
  BY <1>1, <1>2, LinesOfFirst, BytesOfBoth
<1>5. CountersExact'
  <2>1. inFlightBytes = BytesOf(LinesOf(inflight)) /\ pendingBytes = BytesOf(pending)
    BY DEF Exact, CountersExact
  <2>2. BytesOf(Head(inflight).lines) \in Nat /\ BytesOf(LinesOf(Tail(inflight))) \in Nat
    BY <1>2, BytesOfNat
  <2>3. inFlightBytes' = BytesOf(LinesOf(Tail(inflight)))
    BY <1>1, <1>3, <1>4, <2>1, <2>2
  <2> QED
    BY <1>1, <2>1, <2>3 DEF CountersExact
<1>6. ASSUME NEW i \in DOMAIN Tail(inflight)
      PROVE  i + 1 \in DOMAIN inflight /\ Tail(inflight)[i] = inflight[i + 1]
  BY <1>1
<1>7. ChunksSound'
  BY <1>1, <1>6 DEF Exact, ChunksSound
<1> QED
  BY <1>5, <1>7 DEF Exact

LEMMA ExactAccept == ASSUME TypeOK, Exact, NEW s \in Sizes, Accept(s) PROVE Exact'
<1> DEFINE x     == [n |-> offered + 1, size |-> s]
           lines == Append(pending, x)
           bytes == pendingBytes + s
<1>1. x \in Line /\ x.size = s /\ pending \in Seq(Line)
  BY HeldAccept DEF TypeOK
<1>2. bytes = BytesOf(lines)
  <2>1. pendingBytes = BytesOf(pending)
    BY DEF Exact, CountersExact
  <2> HIDE DEF x
  <2>2. BytesOf(lines) = BytesOf(pending) + x.size
    BY <1>1, BytesOfMore
  <2> QED
    BY <1>1, <2>1, <2>2
<1>3. lines \in Seq(Line) /\ bytes \in Nat
  <2> HIDE DEF x, bytes
  <2>1. lines \in Seq(Line)
    BY <1>1
  <2> QED
    BY <1>2, <2>1, BytesOfNat
<1>4. \/ Flush(lines, bytes)
      \/ pending' = lines /\ pendingBytes' = bytes /\ UNCHANGED <<inflight, inFlightBytes>>
  BY DEF Accept
<1> HIDE DEF lines, bytes
<1>5. CASE Flush(lines, bytes)
  BY <1>2, <1>3, <1>5, ExactFlush
<1>6. CASE pending' = lines /\ pendingBytes' = bytes /\ UNCHANGED <<inflight, inFlightBytes>>
  BY <1>2, <1>6 DEF Exact, CountersExact, ChunksSound
<1> QED
  BY <1>4, <1>5, <1>6

LEMMA ExactStep == TypeOK /\ Exact /\ [Next]_vars => Exact'
<1> SUFFICES ASSUME TypeOK, Exact, [Next]_vars PROVE Exact'
  OBVIOUS
<1>1. CASE UNCHANGED buffer
  BY <1>1 DEF buffer, Exact, CountersExact, ChunksSound
<1>2. ASSUME NEW s \in Sizes, Accept(s) PROVE Exact'
  BY <1>2, ExactAccept
<1>3. CASE Written
  BY <1>3, ExactWritten
<1>4. CASE Close
  <2>1. /\ Flush(pending, pendingBytes) /\ pending \in Seq(Line) /\ pendingBytes \in Nat
        /\ pendingBytes = BytesOf(pending)
    BY <1>4 DEF Close, TypeOK, Exact, CountersExact
  <2> QED
    BY <2>1, ExactFlush
<1> QED
  BY <1>1, <1>2, <1>3, <1>4
     DEF Next, vars, AfterCap, Trip, Drop, WriteOK, WriteFails, WriteShort, CloseFile

\* What the log holds in memory stays within the window, however the disk
\* stalls: the counters that guard it are the bytes of the lines held.
THEOREM WindowHolds == Spec => []WindowBounded
<1>1. Init => TypeOK /\ Limits /\ Exact
  BY TypeInit, LimitsInit, ExactInit
<1>2. (TypeOK /\ Limits /\ Exact) /\ [Next]_vars => (TypeOK /\ Limits /\ Exact)'
  BY TypeStep, LimitsStep, ExactStep
<1>3. TypeOK /\ Limits /\ Exact => WindowBounded
  BY DEF Limits, Exact, WindowBounded
<1> QED
  BY <1>1, <1>2, <1>3, PTL DEF Spec
-----------------------------------------------------------------------------
(* What is in the file.  Without a failed or shortened write, the file and    *)
(* what is held have all that was accepted; with one, still in order.         *)

InOrder(lines) == \A i, j \in DOMAIN lines : i < j => lines[i].n < lines[j].n

\* In order, and none numbered above m.
Upto(lines, m) == InOrder(lines) /\ \A i \in DOMAIN lines : lines[i].n <= m

OrderSound == Upto(file \o Held, offered)

NothingLost == ~ writeError /\ ~ short =>
                 /\ Len(file) + Len(Held) = eventCount
                 /\ BytesOf(file) + BytesOf(Held) = byteCount

EndSound == /\ phase # "open" => pending = << >>
            /\ phase = "closed" => inflight = << >>
            /\ phase # "closed" => outcome = "none"
            /\ outcome = "stats" => ~ writeError

FileSound == OrderSound /\ NothingLost /\ EndSound

LEMMA BothTypes ==
  \A s, t \in Seq(Line) : s \o t \in Seq(Line) /\ Len(s \o t) = Len(s) + Len(t)
BY ConcatProperties

\* A line of two pieces is one of the first or one of the second.
LEMMA OneOfBoth ==
  ASSUME NEW a \in Seq(Line), NEW b \in Seq(Line), NEW i \in 1 .. Len(a) + Len(b)
  PROVE  (a \o b)[i] = IF i <= Len(a) THEN a[i] ELSE b[i - Len(a)]
BY ConcatProperties

\* Leaving out lines in the middle leaves the others in order.
LEMMA StillInOrder ==
  ASSUME NEW a \in Seq(Line), NEW b \in Seq(Line), NEW c \in Seq(Line), NEW m \in Nat,
         NEW k \in 0 .. Len(b), Upto(a \o (b \o c), m)
  PROVE  Upto((a \o SubSeq(b, 1, k)) \o c, m)
<1> DEFINE d == (a \o SubSeq(b, 1, k)) \o c
           e == a \o (b \o c)
           Place(i) == IF i <= Len(a) + k THEN i ELSE i + (Len(b) - k)
<1>1. SubSeq(b, 1, k) \in Seq(Line) /\ Len(SubSeq(b, 1, k)) = k
  OBVIOUS
<1> DEFINE p == a \o SubSeq(b, 1, k)
           q == b \o c
<1>2. p \in Seq(Line) /\ Len(p) = Len(a) + k /\ q \in Seq(Line) /\ Len(q) = Len(b) + Len(c)
  <2>1. q \in Seq(Line) /\ Len(q) = Len(b) + Len(c)
    BY BothTypes
  <2>2. p \in Seq(Line) /\ Len(p) = Len(a) + k
    BY <1>1, BothTypes
  <2> QED
    BY <2>1, <2>2
<1>3. /\ e \in Seq(Line) /\ Len(e) = Len(a) + Len(b) + Len(c)
      /\ d \in Seq(Line) /\ Len(d) = Len(a) + k + Len(c)
  <2>1. e = a \o q /\ d = p \o c
    OBVIOUS
  <2> HIDE DEF p, q, d, e
  <2>2. e \in Seq(Line) /\ Len(e) = Len(a) + Len(q)
    BY <1>2, <2>1, BothTypes
  <2>3. d \in Seq(Line) /\ Len(d) = Len(p) + Len(c)
    BY <1>2, <2>1, BothTypes
  <2> QED
    BY <1>2, <2>2, <2>3
<1>4. ASSUME NEW i \in DOMAIN d PROVE Place(i) \in DOMAIN e /\ d[i] = e[Place(i)]
  <2>1. i \in 1 .. Len(a) + k + Len(c)
    BY <1>3
  <2>2. CASE i <= Len(a)
    BY <1>1, <1>3, <2>1, <2>2
  <2>3. CASE i > Len(a) /\ i <= Len(a) + k
    <3>1. d[i] = SubSeq(b, 1, k)[i - Len(a)]
      <4>1. d = p \o c
        OBVIOUS
      <4>2. i \in 1 .. Len(p) + Len(c) /\ i <= Len(p)
        BY <1>2, <2>1, <2>3
      <4>3. d[i] = p[i]
        <5> HIDE DEF p, d
        <5> QED
          BY <1>2, <4>1, <4>2, OneOfBoth
      <4>4. i \in 1 .. Len(a) + Len(SubSeq(b, 1, k)) /\ ~ (i <= Len(a))
        BY <1>1, <2>1, <2>3
      <4>5. p[i] = SubSeq(b, 1, k)[i - Len(a)]
        BY <1>1, <4>4, OneOfBoth
      <4> QED
        BY <4>3, <4>5
    <3>2. SubSeq(b, 1, k)[i - Len(a)] = b[i - Len(a)]
      BY <1>1, <2>1, <2>3
    <3>3. e[i] = b[i - Len(a)]
      BY <1>3, <2>1, <2>3
    <3> QED
      BY <1>3, <2>1, <2>3, <3>1, <3>2, <3>3
  <2>4. CASE i > Len(a) + k
    <3> DEFINE r == i - (Len(a) + k)
    <3>1. p \in Seq(Line) /\ Len(p) = Len(a) + k /\ q \in Seq(Line) /\ Len(q) = Len(b) + Len(c)
      BY <1>2
    <3>2. r \in 1 .. Len(c) /\ Place(i) = Len(a) + (Len(b) + r)
      BY <2>1, <2>4
    <3>3. d[i] = c[r]
      <4>1. d = p \o c
        OBVIOUS
      <4>2. i \in 1 .. Len(p) + Len(c) /\ ~ (i <= Len(p)) /\ r = i - Len(p)
        BY <2>1, <2>4, <3>1
      <4> HIDE DEF d, p, q, e, r, Place
      <4>3. d[i] = IF i <= Len(p) THEN p[i] ELSE c[i - Len(p)]
        BY <3>1, <4>1, <4>2, OneOfBoth
      <4> QED
        BY <4>2, <4>3
    <3>4. e[Place(i)] = q[Len(b) + r]
      <4>0. e = a \o q
        OBVIOUS
      <4> HIDE DEF e, q, r, Place
      <4>1. Len(b) + r \in 1 .. Len(q)
        BY <3>1, <3>2
      <4>2. Len(a) + (Len(b) + r) \in 1 .. Len(a) + Len(q) /\ Len(a) + (Len(b) + r) > Len(a)
        BY <3>1, <3>2, <4>1
      <4>3. (a \o q)[Len(a) + (Len(b) + r)] = q[(Len(a) + (Len(b) + r)) - Len(a)]
        BY <3>1, <4>2, OneOfBoth
      <4>4. (Len(a) + (Len(b) + r)) - Len(a) = Len(b) + r
        BY <3>2, <4>1
      <4> QED
        BY <3>2, <4>0, <4>3, <4>4
    <3>5. q[Len(b) + r] = c[r]
      <4> HIDE DEF r, Place
      <4> QED
        BY <3>2
    <3>6. Place(i) \in DOMAIN e
      <4> HIDE DEF r, Place
      <4> QED
        BY <1>3, <3>2
    <3> QED
      BY <3>3, <3>4, <3>5, <3>6
  <2>5. i <= Len(a) \/ (i > Len(a) /\ i <= Len(a) + k) \/ i > Len(a) + k
    BY <2>1
  <2> QED
    BY <2>2, <2>3, <2>4, <2>5
<1>5. ASSUME NEW i \in DOMAIN d, NEW j \in DOMAIN d, i < j PROVE d[i].n < d[j].n
  <2>1. Place(i) < Place(j)
    BY <1>3, <1>5
  <2>2. Place(i) \in DOMAIN e /\ Place(j) \in DOMAIN e /\ d[i] = e[Place(i)] /\ d[j] = e[Place(j)]
    BY <1>4
  <2> HIDE DEF Place, d, e
  <2>3. e[Place(i)].n < e[Place(j)].n
    BY <2>1, <2>2 DEF Upto, InOrder, e
  <2> QED
    BY <2>2, <2>3
<1>6. ASSUME NEW i \in DOMAIN d PROVE d[i].n <= m
  <2>1. Place(i) \in DOMAIN e /\ d[i] = e[Place(i)]
    BY <1>4
  <2>2. e[Place(i)].n <= m
    <3> HIDE DEF Place
    <3> QED
      BY <2>1 DEF Upto
  <2> QED
    BY <2>1, <2>2
<1> QED
  BY <1>5, <1>6 DEF Upto, InOrder
LEMMA OrderWritten ==
  ASSUME TypeOK, OrderSound, Written, NEW k \in 0 .. Len(Head(inflight).lines),
         file' = file \o SubSeq(Head(inflight).lines, 1, k)
  PROVE  OrderSound'
<1> DEFINE b == Head(inflight).lines
<1>1. b \in Seq(Line) /\ Held' \in Seq(Line) /\ Held = b \o Held' /\ file \in Seq(Line)
  BY HeldWritten DEF TypeOK
<1>2. Upto(file \o (b \o Held'), offered) /\ offered \in Nat
  BY <1>1, Zenon DEF OrderSound, TypeOK
<1>3. ASSUME NEW h \in Seq(Line), Upto(file \o (b \o h), offered)
      PROVE  Upto((file \o SubSeq(b, 1, k)) \o h, offered)
  <2>1. k \in 0 .. Len(b)
    OBVIOUS
  <2> HIDE DEF b
  <2> QED
    BY <1>1, <1>2, <1>3, <2>1, StillInOrder
<1>4. Upto((file \o SubSeq(b, 1, k)) \o Held', offered)
  BY <1>1, <1>2, <1>3
<1>5. offered' = offered
  BY DEF Written
<1> QED
  BY <1>4, <1>5 DEF OrderSound

LEMMA OrderStep == TypeOK /\ OrderSound /\ [Next]_vars => OrderSound'
<1> SUFFICES ASSUME TypeOK, OrderSound, [Next]_vars PROVE OrderSound'
  OBVIOUS
<1>0. file \in Seq(Line) /\ Held \in Seq(Line) /\ offered \in Nat
  BY HeldTypes DEF TypeOK
<1>1. CASE AfterCap \/ (\E s \in Sizes : Trip(s) \/ Drop(s))
  <2>1. Held' = Held /\ file' = file /\ offered' = offered + 1
    BY <1>1, HeldClose DEF AfterCap, Trip, Drop, Offer, disk
  <2> DEFINE d == file \o Held
  <2>2. d \in Seq(Line)
    BY <1>0, BothTypes
  <2>3. file' \o Held' = d
    BY <2>1
  <2> HIDE DEF d
  <2>4. \A i \in DOMAIN d : d[i].n \in Nat
    BY <2>2, LineNumber
  <2>5. Upto(d, offered)
    BY DEF OrderSound, d
  <2> QED
    BY <1>0, <2>1, <2>3, <2>4, <2>5 DEF OrderSound, Upto
<1>2. ASSUME NEW s \in Sizes, Accept(s) PROVE OrderSound'
  <2> DEFINE x == [n |-> offered + 1, size |-> s]
             d == file \o Held
  <2>1. x \in Line /\ x.n = offered + 1 /\ Held' = Append(Held, x)
    BY <1>2, HeldAccept
  <2>2. file' = file /\ offered' = offered + 1
    BY <1>2 DEF Accept, Offer, disk
  <2>3. d \in Seq(Line)
    BY <1>0
  <2>4. file' \o Held' = Append(d, x)
    BY <1>0, <2>1, <2>2
  <2> HIDE DEF x, d
  <2>5. \A i \in DOMAIN d : d[i].n <= offered /\ d[i].n \in Nat
    BY <2>3, LineNumber DEF OrderSound, Upto, d
  <2>6. /\ DOMAIN Append(d, x) = 1 .. Len(d) + 1 /\ DOMAIN d = 1 .. Len(d)
        /\ Append(d, x)[Len(d) + 1] = x /\ \A i \in 1 .. Len(d) : Append(d, x)[i] = d[i]
    BY <2>1, <2>3
  <2>7. ASSUME NEW i \in DOMAIN Append(d, x) PROVE Append(d, x)[i].n <= offered + 1
    BY <1>0, <2>1, <2>5, <2>6
  <2>8. ASSUME NEW i \in DOMAIN Append(d, x), NEW j \in DOMAIN Append(d, x), i < j
        PROVE  Append(d, x)[i].n < Append(d, x)[j].n
    <3>1. Len(d) \in Nat /\ i \in 1 .. Len(d)
      BY <2>3, <2>6, <2>8
    <3>2. CASE j = Len(d) + 1
      BY <1>0, <2>1, <2>5, <2>6, <3>1, <3>2
    <3>3. CASE j \in 1 .. Len(d)
      BY <2>6, <2>8, <3>1, <3>3 DEF OrderSound, Upto, InOrder, d
    <3> QED
      BY <2>6, <3>1, <3>2, <3>3
  <2> QED
    BY <2>2, <2>4, <2>7, <2>8 DEF OrderSound, Upto, InOrder
<1>3. CASE WriteOK \/ WriteFails \/ WriteShort
  <2> DEFINE b == Head(inflight).lines
  <2>1. Written
    BY <1>3 DEF WriteOK, WriteFails, WriteShort
  <2>2. b \in Seq(Line)
    BY <2>1, HeldWritten
  <2>3. SubSeq(b, 1, Len(b)) = b /\ SubSeq(b, 1, 0) = << >> /\ Len(b) \in Nat
    BY <2>2
  <2>4. PICK k \in 0 .. Len(b) : file' = file \o SubSeq(b, 1, k)
    <3>1. CASE WriteOK
      <4>1. file' = file \o SubSeq(b, 1, Len(b)) /\ Len(b) \in 0 .. Len(b)
        BY <2>3, <3>1 DEF WriteOK
      <4> HIDE DEF b
      <4> QED
        BY <4>1
    <3>2. CASE WriteFails
      <4>1. file' = file \o << >>
        BY <1>0, <3>2 DEF WriteFails
      <4> HIDE DEF b
      <4>2. file' = file \o SubSeq(b, 1, 0)
        BY <2>3, <4>1, Zenon
      <4>3. 0 \in 0 .. Len(b)
        BY <2>3
      <4> QED
        BY <4>2, <4>3
    <3>3. CASE WriteShort
      <4>1. PICK k \in 0 .. Len(b) - 1 : file' = file \o SubSeq(b, 1, k)
        BY <3>3 DEF WriteShort
      <4> HIDE DEF b
      <4>2. k \in 0 .. Len(b)
        BY <2>3
      <4> QED
        BY <4>1, <4>2
    <3> QED
      BY <1>3, <3>1, <3>2, <3>3
  <2> QED
    BY <2>1, <2>4, OrderWritten
<1>4. CASE Close \/ CloseFile
  <2>1. Held' = Held /\ file' = file /\ offered' = offered
    BY <1>4, HeldClose DEF Close, CloseFile, disk
  <2> QED
    BY <2>1 DEF OrderSound
<1>5. CASE UNCHANGED vars
  BY <1>5 DEF vars, buffer, disk, Held, OrderSound
<1> QED
  BY <1>1, <1>2, <1>3, <1>4, <1>5 DEF Next

LEMMA LostStep == TypeOK /\ NothingLost /\ [Next]_vars => NothingLost'
<1> SUFFICES ASSUME TypeOK, NothingLost, [Next]_vars PROVE NothingLost'
  OBVIOUS
<1>0. file \in Seq(Line) /\ Held \in Seq(Line) /\ eventCount \in Nat /\ byteCount \in Nat
  BY HeldTypes DEF TypeOK
<1>1. CASE AfterCap \/ (\E s \in Sizes : Trip(s) \/ Drop(s))
  <2>1. Held' = Held /\ UNCHANGED <<file, writeError, short, eventCount, byteCount>>
    BY <1>1, HeldClose DEF AfterCap, Trip, Drop, Offer, disk
  <2> QED
    BY <2>1 DEF NothingLost
<1>2. ASSUME NEW s \in Sizes, Accept(s) PROVE NothingLost'
  <2> DEFINE x == [n |-> offered + 1, size |-> s]
  <2>1. x \in Line /\ x.size = s /\ Held' = Append(Held, x)
    BY <1>2, HeldAccept
  <2>2. /\ UNCHANGED <<file, writeError, short>>
        /\ eventCount' = eventCount + 1 /\ byteCount' = byteCount + s
    BY <1>2 DEF Accept, Offer, disk
  <2> HIDE DEF x
  <2>3. Len(Held') = Len(Held) + 1 /\ BytesOf(Held') = BytesOf(Held) + s
    BY <1>0, <2>1, BytesOfMore
  <2>4. BytesOf(Held) \in Nat /\ BytesOf(file) \in Nat /\ s \in Nat
    BY <1>0, BytesOfNat, LimitsAssumption
  <2>5. Len(file) \in Nat /\ Len(Held) \in Nat
    BY <1>0
  <2> QED
    BY <2>2, <2>3, <2>4, <2>5 DEF NothingLost
<1>3. CASE WriteOK
  <2> DEFINE b == Head(inflight).lines
  <2>1. b \in Seq(Line) /\ Held' \in Seq(Line) /\ Held = b \o Held' /\ file' = file \o b
    BY <1>3, HeldWritten DEF WriteOK
  <2>2. UNCHANGED <<writeError, short, eventCount, byteCount>>
    BY <1>3 DEF WriteOK, Written, totals
  <2> HIDE DEF b
  <2>3. Len(Held) = Len(b) + Len(Held') /\ Len(file') = Len(file) + Len(b)
    BY <1>0, <2>1, BothTypes
  <2>4. BytesOf(Held) = BytesOf(b) + BytesOf(Held') /\ BytesOf(file') = BytesOf(file) + BytesOf(b)
    BY <1>0, <2>1, BytesOfBoth
  <2>5. /\ BytesOf(b) \in Nat /\ BytesOf(Held') \in Nat /\ BytesOf(file) \in Nat
        /\ Len(b) \in Nat /\ Len(Held') \in Nat /\ Len(file) \in Nat
    BY <1>0, <2>1, BytesOfNat
  <2> QED
    BY <2>2, <2>3, <2>4, <2>5 DEF NothingLost
<1>4. CASE WriteFails \/ WriteShort
  BY <1>4 DEF WriteFails, WriteShort, NothingLost
<1>5. CASE Close \/ CloseFile
  <2>1. Held' = Held /\ UNCHANGED <<file, writeError, short, eventCount, byteCount>>
    BY <1>5, HeldClose DEF Close, CloseFile, disk, totals
  <2> QED
    BY <2>1 DEF NothingLost
<1>6. CASE UNCHANGED vars
  BY <1>6 DEF vars, buffer, disk, totals, Held, NothingLost
<1> QED
  BY <1>1, <1>2, <1>3, <1>4, <1>5, <1>6 DEF Next

LEMMA EndStep == TypeOK /\ EndSound /\ [Next]_vars => EndSound'
<1> SUFFICES ASSUME TypeOK, EndSound, [Next]_vars PROVE EndSound'
  OBVIOUS
<1> USE DEF EndSound
<1>1. ASSUME NEW s \in Sizes, Trip(s) \/ Drop(s) \/ Accept(s) PROVE EndSound'
  BY <1>1 DEF Trip, Drop, Accept, Offer, buffer, disk
<1>2. CASE AfterCap
  BY <1>2 DEF AfterCap, Offer, buffer, disk
<1>3. CASE WriteOK \/ WriteFails \/ WriteShort
  BY <1>3 DEF WriteOK, WriteFails, WriteShort, Written
<1>4. CASE Close
  BY <1>4 DEF Close, Flush, disk
<1>5. CASE CloseFile
  BY <1>5 DEF CloseFile, buffer, disk
<1>6. CASE UNCHANGED vars
  BY <1>6 DEF vars, buffer, disk
<1> QED
  BY <1>1, <1>2, <1>3, <1>4, <1>5, <1>6 DEF Next

LEMMA FileInit == Init => FileSound
<1> SUFFICES ASSUME Init PROVE FileSound
  OBVIOUS
<1>1. /\ pending = << >> /\ inflight = << >> /\ file = << >> /\ phase = "open"
      /\ outcome = "none" /\ eventCount = 0 /\ byteCount = 0
  BY DEF Init
<1>2. Held = << >> /\ file \o Held = << >> /\ Len(<< >>) = 0 /\ DOMAIN << >> = {}
  BY <1>1, LinesOfNone DEF Held
<1>3. OrderSound
  BY <1>2 DEF OrderSound, Upto, InOrder
<1>4. NothingLost
  BY <1>1, <1>2, BytesOfNone DEF NothingLost
<1> QED
  BY <1>1, <1>3, <1>4 DEF FileSound, EndSound

LEMMA FileHolds == Spec => [](TypeOK /\ FileSound)
<1>1. Init => TypeOK /\ FileSound
  BY TypeInit, FileInit
<1>2. (TypeOK /\ FileSound) /\ [Next]_vars => (TypeOK /\ FileSound)'
  BY TypeStep, OrderStep, LostStep, EndStep DEF FileSound
<1> QED
  BY <1>1, <1>2, PTL DEF Spec

\* Whatever the disk did, the file holds events in the order they came; and if
\* close returns statistics and no write was cut short, every event they count.
THEOREM StatsHold == Spec => []StatsTrue
<1>1. TypeOK /\ FileSound => StatsTrue
  <2> SUFFICES ASSUME TypeOK, FileSound PROVE StatsTrue
    OBVIOUS
  <2>0. file \in Seq(Line) /\ Held \in Seq(Line)
    BY HeldTypes DEF TypeOK
  <2>1. ASSUME NEW i \in DOMAIN file, NEW j \in DOMAIN file, i < j PROVE file[i].n < file[j].n
    <3>1. ASSUME NEW k \in DOMAIN file
          PROVE  k \in DOMAIN (file \o Held) /\ (file \o Held)[k] = file[k]
      BY <2>0
    <3> QED
      BY <2>1, <3>1 DEF FileSound, OrderSound, Upto, InOrder
  <2>2. ASSUME outcome = "stats", ~ short
        PROVE  Len(file) = eventCount /\ BytesOf(file) = byteCount
    <3>1. pending = << >> /\ inflight = << >> /\ ~ writeError
      BY <2>2 DEF FileSound, EndSound
    <3>2. Held = << >>
      BY <3>1, LinesOfNone DEF Held
    <3>3. Len(file) \in Nat /\ BytesOf(file) \in Nat
      BY <2>0, BytesOfNat
    <3> QED
      BY <2>2, <3>1, <3>2, <3>3, BytesOfNone DEF FileSound, NothingLost
  <2> QED
    BY <2>1, <2>2 DEF StatsTrue
<1> QED
  BY <1>1, FileHolds, PTL
-----------------------------------------------------------------------------
(* The log implements CaptureStream.                                         *)

\* The front and the back of two sequences of lines.
LEMMA FrontAndBack ==
  ASSUME NEW b \in Seq(Line), NEW c \in Seq(Line), NEW j \in 0 .. Len(b)
  PROVE  /\ SubSeq(b \o c, 1, j) = SubSeq(b, 1, j)
         /\ SubSeq(b \o c, Len(b) + 1, Len(b \o c)) = c
<1> DEFINE h == b \o c
<1>1. h \in Seq(Line) /\ Len(h) = Len(b) + Len(c) /\ Len(b) \in Nat /\ Len(c) \in Nat
  BY BothTypes
<1>2. \A i \in 1 .. Len(b) : h[i] = b[i]
  OBVIOUS
<1>3. \A i \in 1 .. Len(c) : h[Len(b) + i] = c[i]
  OBVIOUS
<1> HIDE DEF h
<1>4. SubSeq(h, 1, j) = SubSeq(b, 1, j)
  BY <1>1, <1>2
<1>5. SubSeq(h, Len(b) + 1, Len(h)) = c
  <2> DEFINE d == SubSeq(h, Len(b) + 1, Len(h))
  <2>1. d \in Seq(Line) /\ Len(d) = Len(c) /\ \A i \in 1 .. Len(c) : d[i] = h[Len(b) + i]
    BY <1>1
  <2> HIDE DEF d
  <2>2. d = c
    BY <1>3, <2>1, SeqEqual
  <2> QED
    BY <2>2 DEF d
<1> QED
  BY <1>4, <1>5 DEF h

LEMMA StreamInit == Init => Stream!Init
<1> SUFFICES ASSUME Init PROVE Stream!Init
  OBVIOUS
<1>1. Held = << >>
  BY LinesOfNone DEF Init, Held
<1> QED
  BY <1>1 DEF Init, Stream!Init

LEMMA StreamStep ==
  TypeOK /\ EndSound /\ ChunksSound /\ [Next]_vars => [Stream!Next]_(Stream!vars)
<1> SUFFICES ASSUME TypeOK, EndSound, ChunksSound, [Next]_vars
             PROVE  Stream!Next \/ UNCHANGED Stream!vars
  OBVIOUS
<1>0. file \in Seq(Line) /\ Held \in Seq(Line)
  BY HeldTypes DEF TypeOK
<1>1. CASE Close \/ AfterCap \/ (\E s \in Sizes : Trip(s) \/ Drop(s))
  <2>1. Held' = Held
    BY <1>1, HeldClose
  <2>2. UNCHANGED <<file, writeError, outcome>>
    BY <1>1 DEF Close, AfterCap, Trip, Drop, Offer, disk
  <2> QED
    BY <2>1, <2>2 DEF Stream!vars
<1>2. ASSUME NEW s \in Sizes, Accept(s) PROVE Stream!Take
  <2>1. PICK x \in Line : Held' = Append(Held, x)
    BY <1>2, HeldAccept
  <2>2. Len(Held') = Len(Held) + 1 /\ SubSeq(Held', 1, Len(Held)) = Held
    BY <1>0, <2>1
  <2>3. UNCHANGED <<file, writeError, outcome>> /\ outcome = "none"
    BY <1>2 DEF Accept, Offer, disk, EndSound
  <2> QED
    BY <2>2, <2>3 DEF Stream!Take
<1>3. CASE WriteOK \/ WriteFails \/ WriteShort
  <2> DEFINE b == Head(inflight).lines
             k == Len(b)
  <2>1. Written
    BY <1>3 DEF WriteOK, WriteFails, WriteShort
  <2>2. b \in Seq(Line) /\ Held' \in Seq(Line) /\ Held = b \o Held' /\ UNCHANGED outcome
    BY <2>1, HeldWritten DEF Written
  <2>3. b # << >>
    <3>1. 1 \in DOMAIN inflight /\ Head(inflight) = inflight[1]
      BY <2>1 DEF Written, TypeOK
    <3> QED
      BY <3>1 DEF ChunksSound
  <2>4. /\ WriteOK => file' = file \o b /\ UNCHANGED writeError
        /\ WriteFails => UNCHANGED file /\ writeError' = TRUE
        /\ WriteShort => /\ \E j \in 0 .. k - 1 : file' = file \o SubSeq(b, 1, j)
                         /\ UNCHANGED writeError
    BY DEF WriteOK, WriteFails, WriteShort
  <2> HIDE DEF b
  <2>5. k \in 1 .. Len(Held)
    BY <2>2, <2>3, BothTypes
  <2>6. /\ Held' = SubSeq(Held, k + 1, Len(Held))
        /\ \A j \in 0 .. k : SubSeq(Held, 1, j) = SubSeq(b, 1, j)
    <3>1. 0 \in 0 .. k
      BY <2>2
    <3>2. \A h \in Seq(Line) : \A j \in 0 .. k :
            /\ SubSeq(b \o h, 1, j) = SubSeq(b, 1, j)
            /\ SubSeq(b \o h, k + 1, Len(b \o h)) = h
      BY <2>2, FrontAndBack
    <3> QED
      BY <2>2, <3>1, <3>2
  <2>7. CASE WriteFails
    BY <2>2, <2>4, <2>5, <2>6, <2>7 DEF Stream!Next, Stream!Lose
  <2>8. ASSUME NEW j \in 0 .. k, file' = file \o SubSeq(b, 1, j), UNCHANGED writeError
        PROVE  Stream!Next
    <3>1. Stream!Write(j, k)
      BY <2>2, <2>6, <2>8 DEF Stream!Write
    <3> QED
      BY <2>5, <3>1 DEF Stream!Next
  <2>9. CASE WriteOK
    <3>1. k \in 0 .. k /\ SubSeq(b, 1, k) = b
      BY <2>2
    <3> QED
      BY <2>4, <2>8, <2>9, <3>1
  <2>10. CASE WriteShort
    <3>1. PICK j \in 0 .. k - 1 : file' = file \o SubSeq(b, 1, j) /\ UNCHANGED writeError
      BY <2>4, <2>10
    <3>2. j \in 0 .. k
      BY <2>2
    <3> QED
      BY <2>8, <3>1, <3>2
  <2> QED
    BY <1>3, <2>7, <2>9, <2>10
<1>4. CASE CloseFile
  <2>1. Held' = Held /\ UNCHANGED <<file, writeError>>
    BY <1>4, HeldClose DEF CloseFile, disk
  <2>2. /\ inflight = << >> /\ pending = << >> /\ outcome = "none"
        /\ outcome' = IF writeError THEN "threw" ELSE "stats"
    BY <1>4 DEF CloseFile, EndSound
  <2>3. Held = << >>
    BY <2>2, LinesOfNone DEF Held
  <2> QED
    BY <2>1, <2>2, <2>3 DEF Stream!Next, Stream!End
<1>5. CASE UNCHANGED vars
  BY <1>5 DEF vars, buffer, disk, Held, Stream!vars
<1> QED
  BY <1>1, <1>2, <1>3, <1>4, <1>5 DEF Next, Stream!Next

\* The log is a CaptureStream: lines are taken in order and reach the file in
\* that order, a failed write is never forgotten, and the end is told once
\* nothing is left to write.
THEOREM ImplementsStream == Spec => StreamSpec
<1>1. Init => TypeOK /\ FileSound /\ Exact
  BY TypeInit, FileInit, ExactInit
<1>2. (TypeOK /\ FileSound /\ Exact) /\ [Next]_vars => (TypeOK /\ FileSound /\ Exact)'
  BY TypeStep, OrderStep, LostStep, EndStep, ExactStep DEF FileSound
<1>3. (TypeOK /\ FileSound /\ Exact) /\ [Next]_vars => [Stream!Next]_(Stream!vars)
  BY StreamStep DEF FileSound, Exact
<1> QED
  BY <1>1, <1>2, <1>3, StreamInit, PTL DEF Spec, StreamSpec, Stream!Spec

(***************************************************************************)
(* The recording.                                                          *)
(***************************************************************************)

-----------------------------------------------------------------------------
(* The inductive invariant.                                                  *)

\* What a start that waits for the network saw current is a recording.
HeldSound == \A r \in Starts : At(r, "net") => held[r] \in Starts

\* One start at a time is unanswered.
OneStart == \A r, s \in Starts : ~ Answered(r) /\ ~ Answered(s) => r = s

\* The log of a recording is opened by its start and by nothing else, and a
\* recording without a log has left no trace.
New(r) == /\ pc[r] \in {"idle", "opening", "refused"} => log[r] = "none"
          /\ log[r] = "none" => pc[r] \in {"idle", "opening", "refused", "failed"}
Traceless(r) ==
  /\ r # current /\ r # dom /\ r # tracked
  /\ r \notin subs /\ r \notin taps /\ r \notin doms /\ r \notin fetching
  /\ r \notin missed /\ r \notin failed /\ r \notin jsonl
  /\ \A c \in Calls : held[c] # r
  /\ \A a \in artifacts : a.of # r
NewSound == \A r \in Starts : New(r) /\ (log[r] = "none" => Traceless(r))

\* A start that waits has its own recording, or the teardown has reset it.
OwnSound == \A r \in Starts : /\ At(r, "dom") => current = r \/ current = None
                              /\ At(r, "net") => held[r] = r

\* While the session is open: an end runs alone, on the recording it closed,
Ending(e) == pc[e] \in {"end dom", "end log", "end past", "pack"}
OneEnd == \A e \in Ends : Ending(e) => /\ closed /\ current # None
                                       /\ \A r \in Starts : Answered(r)
                                       /\ \A f \in Ends : Ending(f) => e = f
\* only the recording of now is listened to, and not once it is being closed,
TapsSound == /\ taps = subs /\ subs \subseteq {current}
             /\ doms \subseteq {dom} /\ doms \subseteq {current}
             /\ closed => taps = {} /\ doms = {}
\* bodies are fetched for a log that is open, so none is missed,
FetchSound == /\ fetching \subseteq {tracked} /\ missed = {}
              /\ \A r \in fetching : log[r] = "open"
\* the log that is open or being closed is that of now,
LogsSound == /\ \A r \in Starts : log[r] \in {"open", "closing"} => r = current
             /\ current # None /\ ~ closed => log[current] = "open"
             /\ current = None => ~ closed
\* and so far have the start and the end come that run.
StartAt(r) == /\ At(r, "opening") => current = None
              /\ pc[r] \in {"dom", "net", "abort"} => current = r /\ ~ closed
              /\ pc[r] \in {"abort", "abort dom"} => taps = {} /\ fetching = {}
              /\ At(r, "abort dom") => current = r /\ closed /\ log[r] = "open"
              /\ At(r, "abort log") => current = r /\ closed /\ held[r] = r /\ log[r] # "open"
              /\ ~ At(r, "abort past")
EndAt(e) == /\ At(e, "end dom") => log[current] = "open"
            /\ At(e, "end log") => held[e] = current /\ log[current] # "open" /\ fetching = {}
            /\ ~ At(e, "end past")
            /\ At(e, "pack") => /\ held[e] = current /\ log[current] = "closed"
                                /\ fetching = {} /\ current \notin failed
StepsSound == (\A r \in Starts : StartAt(r)) /\ (\A e \in Ends : EndAt(e))
WhileOpen == OneEnd /\ TapsSound /\ FetchSound /\ LogsSound /\ StepsSound
OpenSound == SessionIsOpen => WhileOpen

\* What was packed while the session was open stays what it was.
Whole(a) == /\ a.whole /\ Answered(a.of) /\ log[a.of] = "closed"
            /\ a.of \notin failed /\ a.of \notin missed /\ a.of \notin taps /\ a.of \notin fetching
PackedSound == \A a \in artifacts : a.open => Whole(a)

RecordInv == RecordTypeOK /\ HeldSound /\ OneStart /\ NewSound /\ OwnSound /\ OpenSound /\ PackedSound

-----------------------------------------------------------------------------
(* Vocabulary of the steps.                                                  *)

\* The kinds of calls are apart.
LEMMA Kinds ==
  /\ Starts \subseteq Calls /\ Ends \subseteq Calls /\ Teardown \in Calls
  /\ Starts \cap Ends = {} /\ Teardown \notin Starts /\ Teardown \notin Ends
  /\ None \notin Starts /\ None \notin Ends
BY CallsAssumption DEF Calls

\* Of the calls c alone moves, to s; alone it holds something else, r; of the
\* logs that of r alone is s now.
Moves(c, s) == /\ pc' \in [Calls -> Steps] /\ pc'[c] = s
               /\ \A d \in Calls : d # c => pc'[d] = pc[d]
Holds(c, r) == /\ held' \in [Calls -> Starts \cup {None}] /\ held'[c] = r
               /\ \A d \in Calls : d # c => held'[d] = held[d]
Turns(r, s) == /\ log' \in [Starts -> {"none", "open", "closing", "closed"}] /\ log'[r] = s
               /\ \A q \in Starts : q # r => log'[q] = log[q]

LEMMA GotoMoves ==
  ASSUME RecordTypeOK, NEW c \in Calls, NEW s \in Steps, Goto(c, s)
  PROVE  Moves(c, s)
BY DEF RecordTypeOK, Goto, Moves

LEMMA HoldHolds ==
  ASSUME RecordTypeOK, NEW c \in Calls, NEW r \in Starts \cup {None}, Hold(c, r)
  PROVE  Holds(c, r)
BY DEF RecordTypeOK, Hold, Holds

LEMMA LogTurns ==
  ASSUME RecordTypeOK, NEW r \in Starts, NEW s \in {"open", "closing", "closed"},
         log' = [log EXCEPT ![r] = s]
  PROVE  Turns(r, s)
BY DEF RecordTypeOK, Turns

-----------------------------------------------------------------------------
(* What each step does.                                                      *)

LEMMA StartDoes ==
  ASSUME RecordTypeOK, NEW r \in Starts, Start(r)
  PROVE  /\ SessionIsOpen /\ At(r, "idle") /\ ("start" \in Overlaps \/ ~ Starting)
         /\ \/ current # None /\ Moves(r, "refused")
            \/ current = None /\ Moves(r, "opening")
         /\ UNCHANGED <<current, path, closed, subs, dom, tracked, taps, doms, fetching, missed,
                        gone, log, failed, jsonl, artifacts, held>>
<1>1. "refused" \in Steps /\ "opening" \in Steps /\ r \in Calls
  BY Kinds DEF Steps
<1>2. Goto(r, IF current # None THEN "refused" ELSE "opening")
  BY DEF Start
<1>3. \/ current # None /\ Goto(r, "refused")
      \/ current = None /\ Goto(r, "opening")
  BY <1>2, Zenon
<1>4. \/ current # None /\ Moves(r, "refused")
      \/ current = None /\ Moves(r, "opening")
  BY <1>1, <1>3, GotoMoves
<1> QED
  BY <1>4, Zenon DEF Start, object, browser, files

LEMMA OpenFailsDoes ==
  ASSUME RecordTypeOK, NEW r \in Starts, OpenFails(r)
  PROVE  /\ At(r, "opening") /\ Moves(r, "failed")
         /\ UNCHANGED <<current, path, closed, subs, dom, tracked, yaml, taps, doms, fetching,
                        missed, gone, log, failed, jsonl, artifacts, held>>
<1>1. "failed" \in Steps /\ r \in Calls
  BY Kinds DEF Steps
<1> QED
  BY <1>1, GotoMoves, Zenon DEF OpenFails, object, browser, files

LEMMA PublishDoes ==
  ASSUME RecordTypeOK, NEW r \in Starts, Publish(r)
  PROVE  /\ At(r, "opening") /\ Turns(r, "open")
         /\ current' = r /\ path' = r /\ jsonl' = jsonl \cup {r}
         /\ UNCHANGED <<closed, dom, tracked, yaml, doms, fetching, missed, gone, failed,
                        artifacts, held>>
BY LogTurns, Zenon DEF Publish

LEMMA OpenedDoes ==
  ASSUME RecordTypeOK, NEW r \in Starts, Opened(r)
  PROVE  /\ Publish(r)
         /\ \/ /\ taps' = taps \cup {r} /\ subs' = subs \cup {r}
               /\ Moves(r, "ok") \/ Moves(r, "dom")
            \/ Moves(r, "ok") /\ UNCHANGED <<taps, subs>>
<1>1. "ok" \in Steps /\ "dom" \in Steps /\ r \in Calls
  BY Kinds DEF Steps
<1>2. \/ taps' = taps \cup {r} /\ subs' = subs \cup {r} /\ (Goto(r, "ok") \/ Goto(r, "dom"))
      \/ Goto(r, "ok") /\ UNCHANGED <<taps, subs>>
  BY DEF Opened, Goto
<1> QED
  BY <1>1, <1>2, GotoMoves, Zenon DEF Opened

LEMMA AttachFailsDoes ==
  ASSUME RecordTypeOK, NEW r \in Starts, AttachFails(r)
  PROVE  Publish(r) /\ Moves(r, "abort") /\ UNCHANGED <<taps, subs>>
<1>1. "abort" \in Steps /\ r \in Calls
  BY Kinds DEF Steps
<1> QED
  BY <1>1, GotoMoves, Zenon DEF AttachFails

LEMMA DomAnswersDoes ==
  ASSUME RecordTypeOK, NEW r \in Starts, DomAnswers(r)
  PROVE  /\ At(r, "dom")
         /\ \/ dom' = r /\ doms' = doms \cup {r}
            \/ UNCHANGED <<dom, doms>>
         /\ \/ Moves(r, "ok") /\ UNCHANGED held
            \/ current # None /\ Moves(r, "net") /\ Holds(r, current)
         /\ UNCHANGED <<current, path, closed, subs, tracked, yaml, taps, fetching, missed,
                        gone, log, failed, jsonl, artifacts>>
<1>1. "ok" \in Steps /\ "net" \in Steps /\ r \in Calls /\ current \in Starts \cup {None}
  BY Kinds DEF Steps, RecordTypeOK
<1>2. \/ Goto(r, "ok") /\ UNCHANGED held
      \/ current # None /\ Goto(r, "net") /\ Hold(r, current)
  BY Zenon DEF DomAnswers
<1>3. \/ Moves(r, "ok") /\ UNCHANGED held
      \/ current # None /\ Moves(r, "net") /\ Holds(r, current)
  BY <1>1, <1>2, GotoMoves, HoldHolds
<1> QED
  BY <1>3, Zenon DEF DomAnswers, files

LEMMA NetAnswersDoes ==
  ASSUME RecordTypeOK, NEW r \in Starts, NetAnswers(r)
  PROVE  /\ At(r, "net") /\ Moves(r, "ok")
         /\ \/ taps' = taps \cup {held[r]} /\ subs' = subs \cup {held[r]} /\ tracked' = held[r]
            \/ UNCHANGED <<taps, subs, tracked>>
         /\ UNCHANGED <<current, path, closed, dom, yaml, doms, fetching, missed, gone,
                        log, failed, jsonl, artifacts, held>>
<1>1. "ok" \in Steps /\ r \in Calls
  BY Kinds DEF Steps
<1> QED
  BY <1>1, GotoMoves, Zenon DEF NetAnswers, files

LEMMA AbortEndsDoes ==
  ASSUME RecordTypeOK, NEW c \in Starts \cup {Teardown}, AbortEnds(c)
  PROVE  \/ c = Teardown /\ Moves(c, "aborted") /\ gone'
         \/ c # Teardown /\ Moves(c, "failed") /\ gone' = gone
<1>1. "aborted" \in Steps /\ "failed" \in Steps /\ c \in Calls
  BY Kinds DEF Steps
<1>2. CASE c = Teardown
  <2>1. Goto(c, "aborted") /\ gone'
    BY <1>2, Zenon DEF AbortEnds
  <2> QED
    BY <1>1, <1>2, <2>1, GotoMoves
<1>3. CASE c # Teardown
  <2>1. Goto(c, "failed")
    BY <1>3, Zenon DEF AbortEnds
  <2>2. gone' = gone
    BY <1>3 DEF AbortEnds, RecordTypeOK
  <2> QED
    BY <1>1, <1>3, <2>1, <2>2, GotoMoves
<1> QED
  BY <1>2, <1>3

LEMMA AbortIdleDoes ==
  ASSUME RecordTypeOK, NEW c \in Starts \cup {Teardown}, AbortIdle(c)
  PROVE  /\ At(c, "abort") /\ current = None /\ AbortEnds(c)
         /\ UNCHANGED <<current, path, closed, subs, dom, tracked, yaml, taps, doms, fetching,
                        missed, log, failed, jsonl, artifacts, held>>
BY Zenon DEF AbortIdle, object, files

LEMMA AbortDoes ==
  ASSUME RecordTypeOK, NEW c \in Starts \cup {Teardown}, Abort(c)
  PROVE  /\ At(c, "abort") /\ Moves(c, "abort dom")
         /\ current # None
         /\ closed' /\ taps' = taps \ subs /\ subs' = {} /\ doms' = doms \ {dom}
         /\ UNCHANGED <<current, path, dom, tracked, yaml, fetching, missed, gone, log, failed,
                        jsonl, artifacts, held>>
<1>1. "abort dom" \in Steps /\ c \in Calls
  BY Kinds DEF Steps
<1> QED
  BY <1>1, GotoMoves, Zenon DEF Abort, DetachAll, files

LEMMA ShutDoes ==
  ASSUME RecordTypeOK, NEW c \in Calls, NEW waits \in Steps, NEW past \in Steps,
         Shut(c, waits, past)
  PROVE  \/ /\ current # None /\ log[current] = "open"
            /\ Moves(c, waits) /\ Turns(current, "closing")
         \/ /\ current = None \/ log[current] # "open"
            /\ Moves(c, past) /\ UNCHANGED log
<1>1. CASE current # None /\ log[current] = "open"
  <2>1. Goto(c, waits) /\ log' = [log EXCEPT ![current] = "closing"]
    BY <1>1, Zenon DEF Shut
  <2>2. current \in Starts
    BY <1>1 DEF RecordTypeOK
  <2> QED
    BY <1>1, <2>1, <2>2, GotoMoves, LogTurns
<1>2. CASE ~ (current # None /\ log[current] = "open")
  <2>1. Goto(c, past) /\ UNCHANGED log
    BY <1>2, Zenon DEF Shut
  <2> QED
    BY <1>2, <2>1, GotoMoves
<1> QED
  BY <1>1, <1>2

LEMMA AbortLogDoes ==
  ASSUME RecordTypeOK, NEW c \in Starts \cup {Teardown}, AbortLog(c)
  PROVE  /\ At(c, "abort dom") /\ dom' = None /\ Holds(c, current)
         /\ \/ /\ current # None /\ log[current] = "open"
               /\ Moves(c, "abort log") /\ Turns(current, "closing")
            \/ /\ current = None \/ log[current] # "open"
               /\ Moves(c, "abort past") /\ UNCHANGED log
         /\ UNCHANGED <<current, path, closed, subs, tracked, yaml, taps, doms, fetching, missed,
                        gone, failed, jsonl, artifacts>>
<1>1. "abort log" \in Steps /\ "abort past" \in Steps /\ c \in Calls
  BY Kinds DEF Steps
<1>2. path = current /\ current \in Starts \cup {None}
  BY DEF RecordTypeOK
<1>3. Shut(c, "abort log", "abort past") /\ Hold(c, path)
  BY DEF AbortLog
<1>4. Holds(c, current)
  BY <1>1, <1>2, <1>3, HoldHolds
<1> QED
  BY <1>1, <1>3, <1>4, ShutDoes, Zenon DEF AbortLog, browser

LEMMA AbortUnlinkDoes ==
  ASSUME RecordTypeOK, NEW c \in Starts \cup {Teardown}, AbortUnlink(c)
  PROVE  /\ (At(c, "abort log") /\ log[held[c]] = "closed") \/ At(c, "abort past")
         /\ jsonl' = jsonl \ {held[c]} /\ current' = None /\ path' = None /\ ~ closed'
         /\ AbortEnds(c)
         /\ UNCHANGED <<subs, dom, tracked, yaml, taps, doms, fetching, missed, log, failed,
                        artifacts, held>>
BY Zenon DEF AbortUnlink, LogSettled, Reset

LEMMA EndRefusedDoes ==
  ASSUME RecordTypeOK, NEW e \in Ends, EndRefused(e)
  PROVE  /\ At(e, "idle") /\ Moves(e, "refused")
         /\ UNCHANGED <<current, path, closed, subs, dom, tracked, yaml, taps, doms, fetching,
                        missed, gone, log, failed, jsonl, artifacts, held>>
<1>1. "refused" \in Steps /\ e \in Calls
  BY Kinds DEF Steps
<1> QED
  BY <1>1, GotoMoves, Zenon DEF EndRefused, object, browser, files

LEMMA EndDoes ==
  ASSUME RecordTypeOK, NEW e \in Ends, End(e)
  PROVE  /\ At(e, "idle") /\ SessionIsOpen /\ ("end" \in Overlaps \/ ~ Starting)
         /\ \/ /\ current # None /\ ~ closed
               /\ closed' /\ taps' = taps \ subs /\ subs' = {} /\ doms' = doms \ {dom}
               /\ Moves(e, "end dom")
            \/ Moves(e, "ok") /\ UNCHANGED <<closed, taps, subs, doms>>
         /\ UNCHANGED <<current, path, dom, tracked, fetching, missed, gone, log, failed, jsonl,
                        artifacts, held>>
<1>1. "end dom" \in Steps /\ "ok" \in Steps /\ e \in Calls
  BY Kinds DEF Steps
<1> QED
  BY <1>1, GotoMoves, Zenon DEF End, DetachAll, files

LEMMA EndLogDoes ==
  ASSUME RecordTypeOK, NEW e \in Ends, EndLog(e)
  PROVE  /\ At(e, "end dom") /\ tracked \notin fetching /\ dom' = None /\ Holds(e, current)
         /\ \/ /\ current # None /\ log[current] = "open"
               /\ Moves(e, "end log") /\ Turns(current, "closing")
            \/ /\ current # None /\ log[current] # "open"
               /\ Moves(e, "end past") /\ UNCHANGED log
            \/ current = None /\ Moves(e, "failed") /\ UNCHANGED log
         /\ UNCHANGED <<current, path, closed, subs, tracked, yaml, taps, doms, fetching, missed,
                        gone, failed, jsonl, artifacts>>
<1>1. /\ "end log" \in Steps /\ "end past" \in Steps /\ "failed" \in Steps
      /\ e \in Calls /\ current \in Starts \cup {None}
  BY Kinds DEF Steps, RecordTypeOK
<1>2. \/ current = None /\ Goto(e, "failed") /\ UNCHANGED log
      \/ current # None /\ Shut(e, "end log", "end past")
  BY Zenon DEF EndLog
<1>3. \/ /\ current # None /\ log[current] = "open"
         /\ Moves(e, "end log") /\ Turns(current, "closing")
      \/ /\ current # None /\ log[current] # "open"
         /\ Moves(e, "end past") /\ UNCHANGED log
      \/ current = None /\ Moves(e, "failed") /\ UNCHANGED log
  BY <1>1, <1>2, GotoMoves, ShutDoes
<1>4. Holds(e, current)
  BY <1>1, HoldHolds DEF EndLog
<1> QED
  BY <1>3, <1>4, Zenon DEF EndLog, FetchesSettled, browser

LEMMA EndStatsDoes ==
  ASSUME RecordTypeOK, NEW e \in Ends, EndStats(e)
  PROVE  /\ (At(e, "end log") /\ log[held[e]] = "closed") \/ At(e, "end past")
         /\ \/ held[e] \in failed /\ Moves(e, "failed") /\ Holds(e, held[e])
            \/ held[e] \notin failed /\ Moves(e, "pack") /\ Holds(e, current)
         /\ UNCHANGED <<current, path, closed, subs, dom, tracked, yaml, taps, doms, fetching,
                        missed, gone, log, failed, jsonl, artifacts>>
<1>1. /\ "pack" \in Steps /\ "failed" \in Steps /\ e \in Calls
      /\ held[e] \in Starts \cup {None} /\ path \in Starts \cup {None} /\ path = current
  BY Kinds DEF Steps, RecordTypeOK
<1>2. \/ held[e] \in failed /\ Goto(e, "failed") /\ Hold(e, held[e])
      \/ held[e] \notin failed /\ Goto(e, "pack") /\ Hold(e, path)
  BY Zenon DEF EndStats
<1>3. \/ held[e] \in failed /\ Moves(e, "failed") /\ Holds(e, held[e])
      \/ held[e] \notin failed /\ Moves(e, "pack") /\ Holds(e, current)
  BY <1>1, <1>2, GotoMoves, HoldHolds
<1> QED
  BY <1>3, Zenon DEF EndStats, LogSettled, object, browser, files

LEMMA PackDoes ==
  ASSUME RecordTypeOK, NEW e \in Ends, Pack(e)
  PROVE  /\ At(e, "pack")
         /\ \/ /\ held[e] \in jsonl /\ Moves(e, "ok")
               /\ artifacts' = artifacts \cup
                    {[of |-> held[e], whole |-> log[held[e]] = "closed", open |-> SessionIsOpen]}
            \/ Moves(e, "failed") /\ UNCHANGED artifacts
         /\ jsonl' = jsonl \ {held[e]} /\ current' = None /\ path' = None /\ ~ closed'
         /\ UNCHANGED <<subs, dom, tracked, yaml, taps, doms, fetching, missed, gone, log, failed,
                        held>>
<1>1. "ok" \in Steps /\ "failed" \in Steps /\ e \in Calls
  BY Kinds DEF Steps
<1> QED
  BY <1>1, GotoMoves, Zenon DEF Pack, Reset, browser

LEMMA TeardownDoes ==
  ASSUME RecordTypeOK, BeginTeardown
  PROVE  /\ SessionIsOpen /\ ("close" \in Overlaps \/ \A r \in Starts : ~ At(r, "opening"))
         /\ Moves(Teardown, "abort")
         /\ UNCHANGED <<current, path, closed, subs, dom, tracked, yaml, taps, doms, fetching,
                        missed, gone, log, failed, jsonl, artifacts, held>>
<1>1. "abort" \in Steps /\ Teardown \in Calls
  BY Kinds DEF Steps
<1> QED
  BY <1>1, GotoMoves, Zenon DEF BeginTeardown, object, browser, files

\* Those steps that move no call.
LEMMA FetchBeginsDoes ==
  ASSUME NEW r \in Starts, FetchBegins(r)
  PROVE  /\ r \in taps /\ r = tracked /\ ~ gone /\ fetching' = fetching \cup {r}
         /\ UNCHANGED <<current, path, closed, subs, dom, tracked, yaml, taps, doms, missed,
                        gone, log, failed, jsonl, artifacts, pc, held>>
BY Zenon DEF FetchBegins, object, files

LEMMA FetchEndsDoes ==
  ASSUME NEW r \in Starts, FetchEnds(r)
  PROVE  /\ r \in fetching /\ fetching' = fetching \ {r}
         /\ missed' = IF log[r] = "open" THEN missed ELSE missed \cup {r}
         /\ UNCHANGED <<current, path, closed, subs, dom, tracked, yaml, taps, doms,
                        gone, log, failed, jsonl, artifacts, pc, held>>
BY Zenon DEF FetchEnds, object, files

LEMMA LogWriteFailsDoes ==
  ASSUME NEW r \in Starts, LogWriteFails(r)
  PROVE  /\ log[r] \in {"open", "closing"} /\ failed' = failed \cup {r}
         /\ UNCHANGED <<current, path, closed, subs, dom, tracked, yaml, taps, doms, fetching,
                        missed, gone, log, jsonl, artifacts, pc, held>>
BY Zenon DEF LogWriteFails, object, browser

LEMMA LogClosedDoes ==
  ASSUME RecordTypeOK, NEW r \in Starts, LogClosed(r)
  PROVE  /\ log[r] = "closing" /\ Turns(r, "closed")
         /\ UNCHANGED <<current, path, closed, subs, dom, tracked, yaml, taps, doms, fetching,
                        missed, gone, failed, jsonl, artifacts, pc, held>>
BY LogTurns, Zenon DEF LogClosed, object, browser

LEMMA StutterDoes ==
  ASSUME UNCHANGED recordVars
  PROVE  UNCHANGED <<current, path, closed, subs, dom, tracked, yaml, taps, doms, fetching,
                     missed, gone, log, failed, jsonl, artifacts, pc, held>>
BY Zenon DEF recordVars, object, browser, files

-----------------------------------------------------------------------------
(* While the session is open.                                                *)

\* No step reopens a session, and the teardown takes none while it is open.
LEMMA OpenSteps ==
  ASSUME RecordTypeOK, [RecordNext]_recordVars, SessionIsOpen'
  PROVE  /\ SessionIsOpen
         /\ \/ \E r \in Starts :
                 \/ Start(r) \/ OpenFails(r) \/ Opened(r) \/ AttachFails(r)
                 \/ DomAnswers(r) \/ NetAnswers(r)
                 \/ FetchBegins(r) \/ FetchEnds(r) \/ LogWriteFails(r) \/ LogClosed(r)
                 \/ AbortIdle(r) \/ Abort(r) \/ AbortLog(r) \/ AbortUnlink(r)
            \/ \E e \in Ends : EndRefused(e) \/ End(e) \/ EndLog(e) \/ EndStats(e) \/ Pack(e)
            \/ UNCHANGED recordVars
<1> USE DEF SessionIsOpen, At
<1>1. ~ BeginTeardown
  BY TeardownDoes DEF Moves
<1>2. ~ AbortIdle(Teardown) /\ ~ AbortUnlink(Teardown)
  BY AbortIdleDoes, AbortUnlinkDoes, AbortEndsDoes DEF Moves
<1>3. ~ Abort(Teardown) /\ ~ AbortLog(Teardown)
  BY AbortDoes, AbortLogDoes DEF Moves
<1>4. pc[Teardown] = "idle"
  <2>1. ASSUME NEW c \in Starts \cup Ends, NEW s, Moves(c, s) PROVE pc[Teardown] = "idle"
    BY <2>1, Kinds DEF Moves
  <2>2. ASSUME NEW r \in Starts, Start(r) \/ OpenFails(r) \/ Opened(r) \/ AttachFails(r)
                                 \/ DomAnswers(r) \/ NetAnswers(r)
        PROVE  pc[Teardown] = "idle"
    BY <2>1, <2>2, StartDoes, OpenFailsDoes, OpenedDoes, AttachFailsDoes, DomAnswersDoes,
       NetAnswersDoes
  <2>3. ASSUME NEW r \in Starts, FetchBegins(r) \/ FetchEnds(r) \/ LogWriteFails(r) \/ LogClosed(r)
        PROVE  pc[Teardown] = "idle"
    BY <2>3, FetchBeginsDoes, FetchEndsDoes, LogWriteFailsDoes, LogClosedDoes
  <2>4. ASSUME NEW r \in Starts, AbortIdle(r) \/ Abort(r) \/ AbortLog(r) \/ AbortUnlink(r)
        PROVE  pc[Teardown] = "idle"
    <3>1. r # Teardown
      BY Kinds
    <3> QED
      BY <2>1, <2>4, <3>1, AbortIdleDoes, AbortDoes, AbortLogDoes, AbortUnlinkDoes, AbortEndsDoes
  <2>5. ASSUME NEW e \in Ends, EndRefused(e) \/ End(e) \/ EndLog(e) \/ EndStats(e) \/ Pack(e)
        PROVE  pc[Teardown] = "idle"
    BY <2>1, <2>5, EndRefusedDoes, EndDoes, EndLogDoes, EndStatsDoes, PackDoes
  <2>6. CASE UNCHANGED recordVars
    BY <2>6, StutterDoes
  <2> QED
    BY <1>1, <1>2, <1>3, <2>2, <2>3, <2>4, <2>5, <2>6, Zenon DEF RecordNext
<1> QED
  BY <1>1, <1>2, <1>3, <1>4, Zenon DEF RecordNext

\* No end runs, or none but e.
NoEnd     == \A f \in Ends : ~ Ending(f)
NoOther(e) == \A f \in Ends : Ending(f) => f = e
Silent    == taps = {} /\ subs = {} /\ doms = {}

\* Where a start is tells what the object is like.
LEMMA Opening ==
  ASSUME RecordTypeOK, WhileOpen, NEW r \in Starts, At(r, "opening")
  PROVE  /\ current = None /\ ~ closed /\ Silent /\ fetching = {} /\ missed = {} /\ NoEnd
         /\ \A q \in Starts : log[q] \notin {"open", "closing"}
<1>1. current = None
  BY DEF WhileOpen, StepsSound, StartAt
<1>2. ~ closed /\ \A q \in Starts : log[q] \notin {"open", "closing"}
  BY <1>1, Kinds DEF WhileOpen, LogsSound
<1>3. Silent
  BY <1>1, Kinds DEF WhileOpen, TapsSound, Silent, RecordTypeOK
<1>4. fetching = {} /\ missed = {}
  BY <1>2 DEF WhileOpen, FetchSound, RecordTypeOK
<1>5. NoEnd
  BY <1>1 DEF WhileOpen, OneEnd, NoEnd
<1> QED
  BY <1>1, <1>2, <1>3, <1>4, <1>5

LEMMA Going ==
  ASSUME RecordTypeOK, WhileOpen, NEW r \in Starts, pc[r] \in {"dom", "net", "abort"}
  PROVE  current = r /\ ~ closed /\ log[r] = "open" /\ NoEnd
<1>1. current = r /\ ~ closed
  BY DEF WhileOpen, StepsSound, StartAt
<1>2. log[r] = "open"
  BY <1>1, Kinds DEF WhileOpen, LogsSound
<1>3. NoEnd
  BY <1>1 DEF WhileOpen, OneEnd, NoEnd
<1> QED
  BY <1>1, <1>2, <1>3

LEMMA Rolling ==
  ASSUME RecordTypeOK, WhileOpen, NEW r \in Starts, At(r, "abort dom") \/ At(r, "abort log")
  PROVE  /\ current = r /\ closed /\ Silent /\ NoEnd
         /\ At(r, "abort dom") => log[r] = "open" /\ fetching = {}
         /\ At(r, "abort log") => held[r] = r /\ log[r] # "open"
<1>1. /\ current = r /\ closed
      /\ At(r, "abort dom") => log[r] = "open" /\ fetching = {}
      /\ At(r, "abort log") => held[r] = r /\ log[r] # "open"
  BY DEF WhileOpen, StepsSound, StartAt, At
<1>2. Silent
  BY <1>1 DEF WhileOpen, TapsSound, Silent
<1>3. ~ Answered(r)
  BY DEF Answered, At
<1>4. NoEnd
  BY <1>3 DEF WhileOpen, OneEnd, NoEnd
<1> QED
  BY <1>1, <1>2, <1>4

\* So does where an end is.
LEMMA EndRuns ==
  ASSUME RecordTypeOK, WhileOpen, NEW e \in Ends, Ending(e)
  PROVE  /\ current \in Starts /\ closed /\ Silent /\ NoOther(e)
         /\ \A r \in Starts : Answered(r)
         /\ EndAt(e)
<1>1. current # None /\ closed /\ (\A r \in Starts : Answered(r)) /\ NoOther(e)
  BY DEF WhileOpen, OneEnd, NoOther
<1>2. Silent
  BY <1>1 DEF WhileOpen, TapsSound, Silent
<1>3. current \in Starts
  BY <1>1 DEF RecordTypeOK
<1>4. EndAt(e)
  BY DEF WhileOpen, StepsSound
<1> QED
  BY <1>1, <1>2, <1>3, <1>4

\* While the session is open each of these keeps what it says.
LEMMA TapsStep ==
  ASSUME RecordTypeOK, WhileOpen, OwnSound, [RecordNext]_recordVars, SessionIsOpen'
  PROVE  TapsSound'
<1> USE DEF TapsSound, Silent
<1>1. TapsSound
  BY DEF WhileOpen
<1>2. ASSUME UNCHANGED <<taps, subs, current, doms, dom, closed>> PROVE TapsSound'
  BY <1>1, <1>2
<1>3. ASSUME NEW r \in Starts, Opened(r) \/ AttachFails(r) PROVE TapsSound'
  <2>1. At(r, "opening") /\ current' = r /\ UNCHANGED <<closed, dom, doms>>
    BY <1>3, OpenedDoes, AttachFailsDoes, PublishDoes
  <2>2. (taps' = taps \cup {r} /\ subs' = subs \cup {r}) \/ UNCHANGED <<taps, subs>>
    BY <1>3, OpenedDoes, AttachFailsDoes
  <2> QED
    BY <2>1, <2>2, Opening
<1>4. ASSUME NEW r \in Starts, DomAnswers(r) PROVE TapsSound'
  <2>1. current = r /\ ~ closed
    BY <1>4, DomAnswersDoes, Going DEF At
  <2>2. /\ (dom' = r /\ doms' = doms \cup {r}) \/ UNCHANGED <<dom, doms>>
        /\ UNCHANGED <<taps, subs, current, closed>>
    BY <1>4, DomAnswersDoes
  <2> QED
    BY <1>1, <2>1, <2>2
<1>5. ASSUME NEW r \in Starts, NetAnswers(r) PROVE TapsSound'
  <2>1. current = r /\ ~ closed /\ held[r] = r
    BY <1>5, NetAnswersDoes, Going DEF At, OwnSound
  <2>2. /\ (taps' = taps \cup {r} /\ subs' = subs \cup {r}) \/ UNCHANGED <<taps, subs>>
        /\ UNCHANGED <<dom, doms, current, closed>>
    BY <1>5, <2>1, NetAnswersDoes
  <2> QED
    BY <1>1, <2>1, <2>2
<1>6. ASSUME NEW r \in Starts, Abort(r) PROVE TapsSound'
  <2>1. /\ closed' /\ taps' = taps \ subs /\ subs' = {} /\ doms' = doms \ {dom}
        /\ UNCHANGED <<current, dom>>
    BY <1>6, AbortDoes
  <2> QED
    BY <1>1, <2>1
<1>7. ASSUME NEW r \in Starts, AbortLog(r) \/ AbortUnlink(r) PROVE TapsSound'
  <2>1. At(r, "abort dom") \/ At(r, "abort log") \/ At(r, "abort past")
    BY <1>7, AbortLogDoes, AbortUnlinkDoes
  <2>2. ~ At(r, "abort past")
    BY DEF WhileOpen, StepsSound, StartAt
  <2>3. Silent
    BY <2>1, <2>2, Rolling
  <2>4. UNCHANGED <<taps, subs, doms>>
    BY <1>7, AbortLogDoes, AbortUnlinkDoes
  <2> QED
    BY <2>3, <2>4
<1>8. ASSUME NEW e \in Ends, End(e) PROVE TapsSound'
  <2>1. /\ \/ closed' /\ taps' = taps \ subs /\ subs' = {} /\ doms' = doms \ {dom}
           \/ UNCHANGED <<closed, taps, subs, doms>>
        /\ UNCHANGED <<current, dom>>
    BY <1>8, EndDoes
  <2> QED
    BY <1>1, <2>1
<1>9. ASSUME NEW e \in Ends, EndLog(e) \/ Pack(e) PROVE TapsSound'
  <2>1. Ending(e) /\ UNCHANGED <<taps, subs, doms>>
    BY <1>9, EndLogDoes, PackDoes DEF Ending, At
  <2> QED
    BY <2>1, EndRuns
<1>10. ASSUME NEW r \in Starts,
              Start(r) \/ OpenFails(r) \/ FetchBegins(r) \/ FetchEnds(r) \/ LogWriteFails(r)
              \/ LogClosed(r) \/ AbortIdle(r)
       PROVE  TapsSound'
  BY <1>2, <1>10, StartDoes, OpenFailsDoes, FetchBeginsDoes, FetchEndsDoes, LogWriteFailsDoes,
     LogClosedDoes, AbortIdleDoes
<1>11. ASSUME NEW e \in Ends, EndRefused(e) \/ EndStats(e) PROVE TapsSound'
  BY <1>2, <1>11, EndRefusedDoes, EndStatsDoes
<1>12. CASE UNCHANGED recordVars
  BY <1>2, <1>12, StutterDoes
<1> QED
  BY OpenSteps, <1>3, <1>4, <1>5, <1>6, <1>7, <1>8, <1>9, <1>10, <1>11, <1>12

LEMMA FetchStep ==
  ASSUME RecordTypeOK, WhileOpen, OwnSound, [RecordNext]_recordVars, SessionIsOpen'
  PROVE  FetchSound'
<1> USE DEF FetchSound
<1>1. FetchSound
  BY DEF WhileOpen
<1>2. ASSUME UNCHANGED <<fetching, tracked, missed, log>> PROVE FetchSound'
  BY <1>1, <1>2
<1>3. ASSUME NEW r \in Starts, Opened(r) \/ AttachFails(r) PROVE FetchSound'
  <2>1. At(r, "opening") /\ UNCHANGED <<fetching, missed>>
    BY <1>3, OpenedDoes, AttachFailsDoes, PublishDoes
  <2> QED
    BY <2>1, Opening
<1>4. ASSUME NEW r \in Starts, NetAnswers(r) PROVE FetchSound'
  <2>1. current = r /\ log[r] = "open" /\ held[r] = r
    BY <1>4, NetAnswersDoes, Going DEF At, OwnSound
  <2>2. fetching \subseteq {r}
    BY <1>1, <2>1, Kinds DEF WhileOpen, LogsSound, RecordTypeOK
  <2>3. /\ tracked' = r \/ UNCHANGED tracked
        /\ UNCHANGED <<fetching, missed, log>>
    BY <1>4, <2>1, NetAnswersDoes
  <2> QED
    BY <1>1, <2>2, <2>3
<1>5. ASSUME NEW r \in Starts, FetchBegins(r) PROVE FetchSound'
  <2>1. /\ r \in taps /\ r = tracked /\ fetching' = fetching \cup {r}
        /\ UNCHANGED <<tracked, missed, log>>
    BY <1>5, FetchBeginsDoes
  <2>2. log[r] = "open"
    BY <2>1, Kinds DEF WhileOpen, TapsSound, LogsSound
  <2> QED
    BY <1>1, <2>1, <2>2
<1>6. ASSUME NEW r \in Starts, FetchEnds(r) PROVE FetchSound'
  <2>1. /\ r \in fetching /\ fetching' = fetching \ {r}
        /\ missed' = IF log[r] = "open" THEN missed ELSE missed \cup {r}
        /\ UNCHANGED <<tracked, log>>
    BY <1>6, FetchEndsDoes
  <2> QED
    BY <1>1, <2>1
<1>7. ASSUME NEW r \in Starts, LogClosed(r) PROVE FetchSound'
  <2>1. log[r] = "closing" /\ Turns(r, "closed") /\ UNCHANGED <<fetching, tracked, missed>>
    BY <1>7, LogClosedDoes
  <2> QED
    BY <1>1, <2>1 DEF Turns, RecordTypeOK
<1>8. ASSUME NEW r \in Starts, AbortLog(r) PROVE FetchSound'
  <2>1. fetching = {} /\ UNCHANGED <<fetching, missed>>
    BY <1>8, AbortLogDoes, Rolling
  <2> QED
    BY <1>1, <2>1
<1>9. ASSUME NEW e \in Ends, EndLog(e) PROVE FetchSound'
  <2>1. fetching = {} /\ UNCHANGED <<fetching, missed>>
    BY <1>1, <1>9, EndLogDoes
  <2> QED
    BY <1>1, <2>1
<1>10. ASSUME NEW r \in Starts,
              Start(r) \/ OpenFails(r) \/ DomAnswers(r) \/ LogWriteFails(r)
              \/ AbortIdle(r) \/ Abort(r) \/ AbortUnlink(r)
       PROVE  FetchSound'
  BY <1>2, <1>10, StartDoes, OpenFailsDoes, DomAnswersDoes, LogWriteFailsDoes,
     AbortIdleDoes, AbortDoes, AbortUnlinkDoes
<1>11. ASSUME NEW e \in Ends, EndRefused(e) \/ End(e) \/ EndStats(e) \/ Pack(e) PROVE FetchSound'
  BY <1>2, <1>11, EndRefusedDoes, EndDoes, EndStatsDoes, PackDoes
<1>12. CASE UNCHANGED recordVars
  BY <1>2, <1>12, StutterDoes
<1> QED
  BY OpenSteps, <1>3, <1>4, <1>5, <1>6, <1>7, <1>8, <1>9, <1>10, <1>11, <1>12

LEMMA LogsStep ==
  ASSUME RecordTypeOK, WhileOpen, [RecordNext]_recordVars, SessionIsOpen'
  PROVE  LogsSound'
<1> USE DEF LogsSound
<1>1. LogsSound
  BY DEF WhileOpen
<1>2. ASSUME UNCHANGED <<current, closed, log>> PROVE LogsSound'
  BY <1>1, <1>2
<1>3. ASSUME NEW r \in Starts, Opened(r) \/ AttachFails(r) PROVE LogsSound'
  <2>1. At(r, "opening") /\ Turns(r, "open") /\ current' = r /\ UNCHANGED closed
    BY <1>3, OpenedDoes, AttachFailsDoes, PublishDoes
  <2>2. \A q \in Starts : log[q] \notin {"open", "closing"}
    BY <2>1, Opening
  <2> QED
    BY <2>1, <2>2, Kinds DEF Turns
<1>4. ASSUME NEW r \in Starts, LogClosed(r) PROVE LogsSound'
  <2>1. log[r] = "closing" /\ Turns(r, "closed") /\ UNCHANGED <<current, closed>>
    BY <1>4, LogClosedDoes
  <2>2. current = None \/ closed
    BY <1>1, <2>1
  <2> QED
    BY <1>1, <2>1, <2>2 DEF Turns
<1>5. ASSUME NEW r \in Starts, Abort(r) PROVE LogsSound'
  <2>1. closed' /\ current # None /\ UNCHANGED <<current, log>>
    BY <1>5, AbortDoes
  <2> QED
    BY <1>1, <2>1
<1>6. ASSUME NEW r \in Starts, AbortLog(r) PROVE LogsSound'
  <2>1. current = r /\ closed /\ log[r] = "open"
    BY <1>6, AbortLogDoes, Rolling
  <2>2. Turns(r, "closing") /\ UNCHANGED <<current, closed>>
    BY <1>6, <2>1, AbortLogDoes, Kinds
  <2> QED
    BY <1>1, <2>1, <2>2 DEF Turns
<1>7. ASSUME NEW r \in Starts, AbortUnlink(r) PROVE LogsSound'
  <2>1. At(r, "abort log") /\ log[held[r]] = "closed"
    BY <1>7, AbortUnlinkDoes DEF WhileOpen, StepsSound, StartAt
  <2>2. current = r /\ log[r] = "closed"
    BY <2>1, Rolling
  <2>3. current' = None /\ ~ closed' /\ UNCHANGED log
    BY <1>7, AbortUnlinkDoes
  <2> QED
    BY <1>1, <2>2, <2>3
<1>8. ASSUME NEW e \in Ends, End(e) PROVE LogsSound'
  <2>1. ((closed' /\ current # None) \/ UNCHANGED closed) /\ UNCHANGED <<current, log>>
    BY <1>8, EndDoes
  <2> QED
    BY <1>1, <2>1
<1>9. ASSUME NEW e \in Ends, EndLog(e) PROVE LogsSound'
  <2>1. Ending(e) /\ At(e, "end dom")
    BY <1>9, EndLogDoes DEF Ending, At
  <2>2. current \in Starts /\ closed /\ log[current] = "open"
    BY <2>1, EndRuns DEF EndAt
  <2>3. Turns(current, "closing") /\ UNCHANGED <<current, closed>>
    BY <1>9, <2>2, EndLogDoes, Kinds
  <2> QED
    BY <1>1, <2>2, <2>3 DEF Turns
<1>10. ASSUME NEW e \in Ends, Pack(e) PROVE LogsSound'
  <2>1. Ending(e) /\ At(e, "pack")
    BY <1>10, PackDoes DEF Ending, At
  <2>2. log[current] = "closed"
    BY <2>1, EndRuns DEF EndAt
  <2>3. current' = None /\ ~ closed' /\ UNCHANGED log
    BY <1>10, PackDoes
  <2> QED
    BY <1>1, <2>2, <2>3
<1>11. ASSUME NEW r \in Starts,
              Start(r) \/ OpenFails(r) \/ DomAnswers(r) \/ NetAnswers(r)
              \/ FetchBegins(r) \/ FetchEnds(r) \/ LogWriteFails(r) \/ AbortIdle(r)
       PROVE  LogsSound'
  BY <1>2, <1>11, StartDoes, OpenFailsDoes, DomAnswersDoes, NetAnswersDoes, FetchBeginsDoes,
     FetchEndsDoes, LogWriteFailsDoes, AbortIdleDoes
<1>12. ASSUME NEW e \in Ends, EndRefused(e) \/ EndStats(e) PROVE LogsSound'
  BY <1>2, <1>12, EndRefusedDoes, EndStatsDoes
<1>13. CASE UNCHANGED recordVars
  BY <1>2, <1>13, StutterDoes
<1> QED
  BY OpenSteps, <1>3, <1>4, <1>5, <1>6, <1>7, <1>8, <1>9, <1>10, <1>11, <1>12, <1>13

LEMMA OneEndStep ==
  ASSUME Overlaps \subseteq {"close"}, RecordTypeOK, OneStart, WhileOpen,
         [RecordNext]_recordVars, SessionIsOpen'
  PROVE  OneEnd'
<1> USE DEF OneEnd
<1>1. OneEnd
  BY DEF WhileOpen
\* Whoever ends now did so before, and nothing he relies on has changed.
<1>2. ASSUME \A f \in Ends : Ending(f)' => Ending(f), UNCHANGED <<current, closed>>,
             NoEnd \/ \A r \in Starts : Answered(r) => Answered(r)'
      PROVE  OneEnd'
  BY <1>1, <1>2 DEF NoEnd
<1>3. ASSUME NoEnd, \A f \in Ends : Ending(f)' => Ending(f) PROVE OneEnd'
  BY <1>3 DEF NoEnd
<1>4. ASSUME NEW c \in Calls, NEW s, Moves(c, s), c \in Starts
      PROVE  \A f \in Ends : Ending(f)' => Ending(f)
  BY <1>4, Kinds DEF Moves, Ending
<1>5. ASSUME NEW r \in Starts, Start(r) PROVE OneEnd'
  <2>1. CASE current = None
    <3>1. NoEnd
      BY <2>1, <1>1 DEF NoEnd
    <3> QED
      BY <1>3, <1>4, <1>5, <3>1, Kinds, StartDoes
  <2>2. CASE current # None
    <3>1. Moves(r, "refused") /\ UNCHANGED <<current, closed>>
      BY <1>5, <2>2, StartDoes
    <3>2. \A q \in Starts : Answered(q) => Answered(q)'
      BY <3>1, Kinds DEF Moves, Answered
    <3> QED
      BY <1>2, <1>4, <3>1, <3>2, Kinds
  <2> QED
    BY <2>1, <2>2
<1>6. ASSUME NEW r \in Starts, OpenFails(r) \/ Opened(r) \/ AttachFails(r) PROVE OneEnd'
  <2>1. NoEnd
    BY <1>6, OpenFailsDoes, OpenedDoes, AttachFailsDoes, PublishDoes, Opening
  <2>2. Moves(r, "failed") \/ Moves(r, "ok") \/ Moves(r, "dom") \/ Moves(r, "abort")
    BY <1>6, OpenFailsDoes, OpenedDoes, AttachFailsDoes
  <2> QED
    BY <1>3, <1>4, <2>1, <2>2, Kinds
<1>7. ASSUME NEW r \in Starts, DomAnswers(r) \/ NetAnswers(r) \/ AbortIdle(r) \/ Abort(r)
      PROVE  OneEnd'
  <2>1. pc[r] \in {"dom", "net", "abort"}
    BY <1>7, DomAnswersDoes, NetAnswersDoes, AbortIdleDoes, AbortDoes DEF At
  <2>2. NoEnd
    BY <2>1, Going
  <2>3. r # Teardown
    BY Kinds
  <2>4. Moves(r, "ok") \/ Moves(r, "net") \/ Moves(r, "failed") \/ Moves(r, "abort dom")
    BY <1>7, <2>3, DomAnswersDoes, NetAnswersDoes, AbortIdleDoes, AbortEndsDoes, AbortDoes
  <2> QED
    BY <1>3, <1>4, <2>2, <2>4, Kinds
<1>8. ASSUME NEW r \in Starts, AbortLog(r) \/ AbortUnlink(r) PROVE OneEnd'
  <2>1. At(r, "abort dom") \/ At(r, "abort log") \/ At(r, "abort past")
    BY <1>8, AbortLogDoes, AbortUnlinkDoes
  <2>2. ~ At(r, "abort past")
    BY DEF WhileOpen, StepsSound, StartAt
  <2>3. NoEnd
    BY <2>1, <2>2, Rolling
  <2>4. r # Teardown
    BY Kinds
  <2>5. Moves(r, "abort log") \/ Moves(r, "abort past") \/ Moves(r, "failed")
    BY <1>8, <2>4, AbortLogDoes, AbortUnlinkDoes, AbortEndsDoes
  <2> QED
    BY <1>3, <1>4, <2>3, <2>5, Kinds
<1>9. ASSUME NEW r \in Starts, FetchBegins(r) \/ FetchEnds(r) \/ LogWriteFails(r) \/ LogClosed(r)
      PROVE  OneEnd'
  <2>1. UNCHANGED <<pc, current, closed>>
    BY <1>9, FetchBeginsDoes, FetchEndsDoes, LogWriteFailsDoes, LogClosedDoes
  <2> QED
    BY <1>2, <2>1 DEF Ending, Answered
<1>10. ASSUME NEW e \in Ends, End(e) PROVE OneEnd'
  <2>1. CASE closed' /\ current # None /\ ~ closed /\ Moves(e, "end dom")
    <3>1. NoEnd
      BY <1>1, <2>1 DEF NoEnd
    <3>2. \A f \in Ends : Ending(f)' => f = e
      BY <2>1, <3>1, Kinds DEF Moves, Ending, NoEnd
    <3>3. \A r \in Starts : Answered(r)
      BY <1>10, EndDoes DEF Starting
    <3>4. \A r \in Starts : Answered(r)'
      BY <2>1, <3>3, Kinds DEF Moves, Answered
    <3>5. UNCHANGED current
      BY <1>10, EndDoes
    <3> QED
      BY <2>1, <3>2, <3>4, <3>5
  <2>2. CASE Moves(e, "ok") /\ UNCHANGED closed
    <3>1. UNCHANGED current
      BY <1>10, EndDoes
    <3>2. /\ \A f \in Ends : Ending(f)' => Ending(f)
          /\ \A r \in Starts : Answered(r) => Answered(r)'
      BY <2>2, Kinds DEF Moves, Ending, Answered
    <3> QED
      BY <1>2, <2>2, <3>1, <3>2
  <2> QED
    BY <1>10, <2>1, <2>2, EndDoes
<1>11. ASSUME NEW e \in Ends, EndRefused(e) \/ EndLog(e) \/ EndStats(e) PROVE OneEnd'
  <2>1. UNCHANGED <<current, closed>>
    BY <1>11, EndRefusedDoes, EndLogDoes, EndStatsDoes
  <2>2. CASE Moves(e, "refused") \/ Moves(e, "failed")
    <3>1. /\ \A f \in Ends : Ending(f)' => Ending(f)
          /\ \A r \in Starts : Answered(r) => Answered(r)'
      BY <2>2, Kinds DEF Moves, Ending, Answered
    <3> QED
      BY <1>2, <2>1, <3>1
  <2>3. CASE Ending(e) /\ (Moves(e, "end log") \/ Moves(e, "end past") \/ Moves(e, "pack"))
    <3>1. /\ \A f \in Ends : Ending(f)' => Ending(f)
          /\ \A r \in Starts : Answered(r) => Answered(r)'
      BY <2>3, Kinds DEF Moves, Ending, Answered
    <3> QED
      BY <1>2, <2>1, <3>1
  <2> QED
    BY <1>11, <2>2, <2>3, EndRefusedDoes, EndLogDoes, EndStatsDoes DEF Ending, At
<1>12. ASSUME NEW e \in Ends, Pack(e) PROVE OneEnd'
  <2>1. Ending(e) /\ (Moves(e, "ok") \/ Moves(e, "failed"))
    BY <1>12, PackDoes DEF Ending, At
  <2>2. NoOther(e)
    BY <2>1, EndRuns
  <2>3. \A f \in Ends : ~ Ending(f)'
    BY <2>1, <2>2, Kinds DEF Moves, Ending, NoOther
  <2> QED
    BY <2>3
<1>13. CASE UNCHANGED recordVars
  BY <1>2, <1>13, StutterDoes DEF Ending, Answered
<1> QED
  BY OpenSteps, <1>5, <1>6, <1>7, <1>8, <1>9, <1>10, <1>11, <1>12, <1>13

LEMMA StartAtStep ==
  ASSUME Overlaps \subseteq {"close"}, RecordTypeOK, OneStart, WhileOpen, OwnSound,
         [RecordNext]_recordVars, SessionIsOpen', NEW r \in Starts
  PROVE  StartAt(r)'
<1>1. StartAt(r) /\ r \in Calls /\ r # Teardown
  BY Kinds DEF WhileOpen, StepsSound
<1>2. ASSUME Answered(r)' PROVE StartAt(r)'
  BY <1>2 DEF StartAt, Answered, At
<1>3. ASSUME UNCHANGED <<current, closed, taps, fetching>>, log'[r] = log[r], pc'[r] = pc[r],
             held'[r] = held[r]
      PROVE  StartAt(r)'
  BY <1>1, <1>3 DEF StartAt, At
\* The other starts are answered and stay so.
<1>4. ASSUME NEW q \in Starts, NEW s, Moves(q, s), ~ Answered(q), q # r PROVE StartAt(r)'
  <2>1. Answered(r)
    BY <1>4 DEF OneStart
  <2>2. pc'[r] = pc[r]
    BY <1>1, <1>4 DEF Moves
  <2> QED
    BY <1>2, <2>1, <2>2 DEF Answered
<1>5. ASSUME NEW e \in Ends, NEW s, Moves(e, s), Answered(r) PROVE StartAt(r)'
  <2>1. pc'[r] = pc[r]
    BY <1>1, <1>5, Kinds DEF Moves
  <2> QED
    BY <1>2, <1>5, <2>1 DEF Answered
<1>6. ASSUME NEW q \in Starts, Start(q) PROVE StartAt(r)'
  <2>1. Answered(r)
    BY <1>6, StartDoes DEF Starting
  <2>2. CASE q # r
    <3>1. pc'[r] = pc[r]
      BY <1>1, <1>6, <2>2, StartDoes DEF Moves
    <3> QED
      BY <1>2, <2>1, <3>1 DEF Answered
  <2>3. CASE q = r
    <3>1. Moves(q, "refused") \/ (Moves(q, "opening") /\ current' = None)
      BY <1>6, StartDoes
    <3>2. pc'[r] = "refused" \/ (pc'[r] = "opening" /\ current' = None)
      BY <2>3, <3>1 DEF Moves
    <3> QED
      BY <3>2 DEF StartAt, At
  <2> QED
    BY <2>2, <2>3
<1>7. ASSUME NEW q \in Starts, OpenFails(q) \/ Opened(q) \/ AttachFails(q) PROVE StartAt(r)'
  <2>1. ~ Answered(q) /\ At(q, "opening")
    BY <1>7, OpenFailsDoes, OpenedDoes, AttachFailsDoes, PublishDoes DEF Answered, At
  <2>2. CASE q # r
    BY <1>4, <1>7, <2>1, <2>2, OpenFailsDoes, OpenedDoes, AttachFailsDoes
  <2>3. CASE q = r
    <3>1. ~ closed /\ Silent /\ fetching = {}
      BY <2>1, Opening
    <3>2. CASE OpenFails(q)
      BY <1>2, <2>3, <3>2, OpenFailsDoes DEF Moves, Answered
    <3>3. CASE Opened(q)
      <4>1. current' = r /\ ~ closed' /\ (pc'[r] = "ok" \/ pc'[r] = "dom")
        BY <2>3, <3>1, <3>3, OpenedDoes, PublishDoes DEF Moves
      <4> QED
        BY <4>1 DEF StartAt, At
    <3>4. CASE AttachFails(q)
      <4>1. current' = r /\ ~ closed' /\ pc'[r] = "abort" /\ taps' = {} /\ fetching' = {}
        BY <2>3, <3>1, <3>4, AttachFailsDoes, PublishDoes DEF Moves, Silent
      <4> QED
        BY <4>1 DEF StartAt, At
    <3> QED
      BY <1>7, <3>2, <3>3, <3>4
  <2> QED
    BY <2>2, <2>3
<1>8. ASSUME NEW q \in Starts, DomAnswers(q) \/ NetAnswers(q) PROVE StartAt(r)'
  <2>1. ~ Answered(q) /\ pc[q] \in {"dom", "net", "abort"}
    BY <1>8, DomAnswersDoes, NetAnswersDoes DEF Answered, At
  <2>2. CASE q # r
    BY <1>4, <1>8, <2>1, <2>2, DomAnswersDoes, NetAnswersDoes
  <2>3. CASE q = r
    <3>1. current = r /\ ~ closed
      BY <2>1, <2>3, Going
    <3>2. UNCHANGED <<current, closed>> /\ (pc'[r] = "ok" \/ pc'[r] = "net")
      BY <1>8, <2>3, DomAnswersDoes, NetAnswersDoes DEF Moves
    <3> QED
      BY <3>1, <3>2 DEF StartAt, At
  <2> QED
    BY <2>2, <2>3
<1>9. ASSUME NEW q \in Starts, AbortIdle(q) \/ AbortUnlink(q) PROVE StartAt(r)'
  <2>1. ~ Answered(q) /\ Moves(q, "failed")
    <3>1. q # Teardown
      BY Kinds
    <3> QED
      BY <1>9, <3>1, AbortIdleDoes, AbortUnlinkDoes, AbortEndsDoes DEF Answered, At
  <2>2. CASE q # r
    BY <1>4, <2>1, <2>2
  <2>3. CASE q = r
    BY <1>2, <2>1, <2>3 DEF Moves, Answered
  <2> QED
    BY <2>2, <2>3
<1>10. ASSUME NEW q \in Starts, Abort(q) PROVE StartAt(r)'
  <2>1. At(q, "abort") /\ Moves(q, "abort dom")
    BY <1>10, AbortDoes
  <2>2. CASE q # r
    BY <1>4, <2>1, <2>2 DEF Answered, At
  <2>3. CASE q = r
    <3>1. current = r /\ log[r] = "open" /\ taps = {} /\ fetching = {}
      BY <1>1, <2>1, <2>3, Going DEF StartAt, At
    <3>2. closed' /\ taps' = taps \ subs /\ UNCHANGED <<current, fetching, log>>
      BY <1>10, AbortDoes
    <3>3. pc'[r] = "abort dom"
      BY <2>1, <2>3 DEF Moves
    <3> QED
      BY <3>1, <3>2, <3>3 DEF StartAt, At
  <2> QED
    BY <2>2, <2>3
<1>11. ASSUME NEW q \in Starts, AbortLog(q) PROVE StartAt(r)'
  <2>1. At(q, "abort dom") /\ (Moves(q, "abort log") \/ Moves(q, "abort past"))
    BY <1>11, AbortLogDoes
  <2>2. CASE q # r
    BY <1>4, <2>1, <2>2 DEF Answered, At
  <2>3. CASE q = r
    <3>1. current = r /\ closed /\ log[r] = "open" /\ current # None
      BY <2>1, <2>3, Rolling, Kinds
    <3>2. Moves(r, "abort log") /\ Turns(r, "closing") /\ Holds(r, r)
      BY <1>11, <2>3, <3>1, AbortLogDoes
    <3>3. UNCHANGED <<current, closed>>
      BY <1>11, AbortLogDoes
    <3>4. pc'[r] = "abort log" /\ held'[r] = r /\ log'[r] = "closing"
      BY <3>2 DEF Moves, Turns, Holds
    <3> QED
      BY <3>1, <3>3, <3>4 DEF StartAt, At
  <2> QED
    BY <2>2, <2>3
<1>12. ASSUME NEW q \in Starts, FetchBegins(q) PROVE StartAt(r)'
  <2>1. q \in taps /\ UNCHANGED <<current, closed, taps, log, pc, held>>
    BY <1>12, FetchBeginsDoes
  <2> QED
    BY <1>1, <2>1 DEF StartAt, At
<1>13. ASSUME NEW q \in Starts, FetchEnds(q) PROVE StartAt(r)'
  <2>1. fetching' = fetching \ {q} /\ UNCHANGED <<current, closed, taps, log, pc, held>>
    BY <1>13, FetchEndsDoes
  <2> QED
    BY <1>1, <2>1 DEF StartAt, At
<1>14. ASSUME NEW q \in Starts, LogWriteFails(q) PROVE StartAt(r)'
  BY <1>3, <1>14, LogWriteFailsDoes
<1>15. ASSUME NEW q \in Starts, LogClosed(q) PROVE StartAt(r)'
  <2>1. /\ log[q] = "closing" /\ Turns(q, "closed")
        /\ UNCHANGED <<current, closed, taps, fetching, pc, held>>
    BY <1>15, LogClosedDoes
  <2>2. CASE q # r
    BY <1>3, <2>1, <2>2 DEF Turns
  <2>3. CASE q = r
    <3>1. log[r] = "closing" /\ log'[r] = "closed"
      BY <2>1, <2>3 DEF Turns
    <3> QED
      BY <1>1, <2>1, <3>1 DEF StartAt, At
  <2> QED
    BY <2>2, <2>3
<1>16. ASSUME NEW e \in Ends, End(e) PROVE StartAt(r)'
  <2>1. Answered(r)
    BY <1>16, EndDoes DEF Starting
  <2> QED
    BY <1>5, <1>16, <2>1, EndDoes
<1>17. ASSUME NEW e \in Ends, EndLog(e) \/ EndStats(e) \/ Pack(e) PROVE StartAt(r)'
  <2>1. Ending(e)
    BY <1>17, EndLogDoes, EndStatsDoes, PackDoes DEF Ending, At
  <2>2. Answered(r)
    BY <2>1, EndRuns
  <2> QED
    BY <1>5, <1>17, <2>2, EndLogDoes, EndStatsDoes, PackDoes
<1>18. ASSUME NEW e \in Ends, EndRefused(e) PROVE StartAt(r)'
  <2>1. Moves(e, "refused") /\ UNCHANGED <<current, closed, taps, fetching, log, held>>
    BY <1>18, EndRefusedDoes
  <2>2. pc'[r] = pc[r]
    BY <1>1, <2>1, Kinds DEF Moves
  <2> QED
    BY <1>3, <2>1, <2>2
<1>19. CASE UNCHANGED recordVars
  BY <1>3, <1>19, StutterDoes
<1> QED
  BY OpenSteps, <1>6, <1>7, <1>8, <1>9, <1>10, <1>11, <1>12, <1>13, <1>14, <1>15, <1>16,
     <1>17, <1>18, <1>19

LEMMA EndAtStep ==
  ASSUME RecordTypeOK, OneStart, WhileOpen, OwnSound,
         [RecordNext]_recordVars, SessionIsOpen', NEW e \in Ends
  PROVE  EndAt(e)'
<1>1. EndAt(e) /\ e \in Calls /\ e \notin Starts
  BY Kinds DEF WhileOpen, StepsSound
<1>2. ASSUME ~ Ending(e)' PROVE EndAt(e)'
  BY <1>2 DEF EndAt, Ending, At
<1>3. ASSUME ~ Ending(e), pc'[e] = pc[e] PROVE EndAt(e)'
  BY <1>2, <1>3 DEF Ending
<1>4. ASSUME UNCHANGED <<current, log, failed, fetching>>, pc'[e] = pc[e], held'[e] = held[e]
      PROVE  EndAt(e)'
  BY <1>1, <1>4 DEF EndAt, At
\* While a start is unanswered no end runs.
<1>5. ASSUME NEW q \in Starts, ~ Answered(q), NEW s, Moves(q, s) PROVE EndAt(e)'
  <2>1. ~ Ending(e)
    BY <1>5, EndRuns
  <2>2. pc'[e] = pc[e]
    BY <1>1, <1>5 DEF Moves
  <2> QED
    BY <1>3, <2>1, <2>2
<1>6. ASSUME NEW q \in Starts, Start(q) PROVE EndAt(e)'
  <2>1. pc'[e] = pc[e]
    BY <1>1, <1>6, StartDoes DEF Moves
  <2> QED
    BY <1>4, <1>6, <2>1, StartDoes
<1>7. ASSUME NEW q \in Starts, OpenFails(q) \/ Opened(q) \/ AttachFails(q) PROVE EndAt(e)'
  <2>1. ~ Answered(q)
    BY <1>7, OpenFailsDoes, OpenedDoes, AttachFailsDoes, PublishDoes DEF Answered, At
  <2> QED
    BY <1>5, <1>7, <2>1, OpenFailsDoes, OpenedDoes, AttachFailsDoes
<1>8. ASSUME NEW q \in Starts, DomAnswers(q) \/ NetAnswers(q) PROVE EndAt(e)'
  <2>1. ~ Answered(q)
    BY <1>8, DomAnswersDoes, NetAnswersDoes DEF Answered, At
  <2> QED
    BY <1>5, <1>8, <2>1, DomAnswersDoes, NetAnswersDoes
<1>9. ASSUME NEW q \in Starts, AbortIdle(q) \/ Abort(q) \/ AbortLog(q) \/ AbortUnlink(q)
      PROVE  EndAt(e)'
  <2>1. ~ Answered(q)
    BY <1>9, AbortIdleDoes, AbortDoes, AbortLogDoes, AbortUnlinkDoes DEF Answered, At
  <2>2. q # Teardown /\ q \in Starts \cup {Teardown}
    BY Kinds
  <2>3. \E s : Moves(q, s)
    BY <1>9, <2>2, AbortIdleDoes, AbortDoes, AbortLogDoes, AbortUnlinkDoes, AbortEndsDoes
  <2> QED
    BY <1>5, <2>1, <2>3
<1>10. ASSUME NEW q \in Starts, FetchBegins(q) PROVE EndAt(e)'
  <2>1. q \in taps /\ UNCHANGED pc
    BY <1>10, FetchBeginsDoes
  <2>2. ~ Ending(e)
    BY <2>1, EndRuns DEF Silent
  <2> QED
    BY <1>3, <2>1, <2>2
<1>11. ASSUME NEW q \in Starts, FetchEnds(q) PROVE EndAt(e)'
  <2>1. fetching' = fetching \ {q} /\ UNCHANGED <<current, log, failed, pc, held>>
    BY <1>11, FetchEndsDoes
  <2> QED
    BY <1>1, <2>1 DEF EndAt, At
<1>12. ASSUME NEW q \in Starts, LogWriteFails(q) PROVE EndAt(e)'
  <2>1. /\ log[q] \in {"open", "closing"} /\ failed' = failed \cup {q}
        /\ UNCHANGED <<current, log, fetching, pc, held>>
    BY <1>12, LogWriteFailsDoes
  <2>2. q = current
    BY <2>1 DEF WhileOpen, LogsSound
  <2> QED
    BY <1>1, <2>1, <2>2 DEF EndAt, At
<1>13. ASSUME NEW q \in Starts, LogClosed(q) PROVE EndAt(e)'
  <2>1. /\ log[q] = "closing" /\ Turns(q, "closed")
        /\ UNCHANGED <<current, failed, fetching, pc, held>>
    BY <1>13, LogClosedDoes
  <2>2. q = current
    BY <2>1 DEF WhileOpen, LogsSound
  <2>3. log'[current] = "closed"
    BY <2>1, <2>2 DEF Turns
  <2> QED
    BY <1>1, <2>1, <2>2, <2>3 DEF EndAt, At
<1>14. ASSUME NEW f \in Ends, EndRefused(f) PROVE EndAt(e)'
  <2>1. /\ At(f, "idle") /\ Moves(f, "refused")
        /\ UNCHANGED <<current, log, failed, fetching, held>>
    BY <1>14, EndRefusedDoes
  <2>2. CASE f = e
    BY <1>2, <2>1, <2>2 DEF Moves, Ending
  <2>3. CASE f # e
    BY <1>1, <1>4, <2>1, <2>3 DEF Moves
  <2> QED
    BY <2>2, <2>3
<1>15. ASSUME NEW f \in Ends, End(f) PROVE EndAt(e)'
  <2>1. UNCHANGED <<current, log, failed, fetching, held>>
    BY <1>15, EndDoes
  <2>2. CASE f # e
    BY <1>1, <1>4, <1>15, <2>1, <2>2, EndDoes DEF Moves
  <2>3. CASE f = e
    <3>1. Moves(e, "ok") \/ (Moves(e, "end dom") /\ current # None /\ ~ closed)
      BY <1>15, <2>3, EndDoes
    <3>2. CASE Moves(e, "ok")
      BY <1>2, <3>2 DEF Moves, Ending
    <3>3. CASE Moves(e, "end dom") /\ current # None /\ ~ closed
      <4>1. log[current] = "open"
        BY <3>3 DEF WhileOpen, LogsSound
      <4>2. pc'[e] = "end dom"
        BY <3>3 DEF Moves
      <4> QED
        BY <2>1, <4>1, <4>2 DEF EndAt, At
    <3> QED
      BY <3>1, <3>2, <3>3
  <2> QED
    BY <2>2, <2>3
<1>16. ASSUME NEW f \in Ends, EndLog(f) \/ EndStats(f) \/ Pack(f), f # e PROVE EndAt(e)'
  <2>1. Ending(f) /\ \E s : Moves(f, s)
    BY <1>16, EndLogDoes, EndStatsDoes, PackDoes DEF Ending, At
  <2>2. ~ Ending(e)
    BY <1>16, <2>1, EndRuns DEF NoOther
  <2>3. pc'[e] = pc[e]
    BY <1>1, <1>16, <2>1 DEF Moves
  <2> QED
    BY <1>3, <2>2, <2>3
<1>17. ASSUME EndLog(e) PROVE EndAt(e)'
  <2>1. At(e, "end dom") /\ tracked \notin fetching /\ Holds(e, current)
    BY <1>17, EndLogDoes
  <2>2. current \in Starts /\ log[current] = "open"
    BY <2>1, EndRuns DEF EndAt, Ending, At
  <2>3. Moves(e, "end log") /\ Turns(current, "closing") /\ UNCHANGED <<current, fetching>>
    BY <1>17, <2>2, EndLogDoes, Kinds
  <2>4. fetching = {}
    BY <2>1 DEF WhileOpen, FetchSound
  <2>5. pc'[e] = "end log" /\ held'[e] = current /\ log'[current] = "closing"
    BY <2>1, <2>3 DEF Moves, Holds, Turns
  <2> QED
    BY <2>3, <2>4, <2>5 DEF EndAt, At
<1>18. ASSUME EndStats(e) PROVE EndAt(e)'
  <2>1. At(e, "end log") /\ log[held[e]] = "closed"
    BY <1>1, <1>18, EndStatsDoes DEF EndAt
  <2>2. held[e] = current /\ fetching = {}
    BY <1>1, <2>1 DEF EndAt
  <2>3. /\ \/ Moves(e, "failed")
           \/ held[e] \notin failed /\ Moves(e, "pack") /\ Holds(e, current)
        /\ UNCHANGED <<current, log, failed, fetching>>
    BY <1>18, EndStatsDoes
  <2>4. CASE Moves(e, "failed")
    BY <1>2, <2>4 DEF Moves, Ending
  <2>5. CASE held[e] \notin failed /\ Moves(e, "pack") /\ Holds(e, current)
    <3>1. pc'[e] = "pack" /\ held'[e] = current
      BY <2>5 DEF Moves, Holds
    <3> QED
      BY <2>1, <2>2, <2>3, <2>5, <3>1 DEF EndAt, At
  <2> QED
    BY <2>3, <2>4, <2>5
<1>19. ASSUME Pack(e) PROVE EndAt(e)'
  BY <1>2, <1>19, PackDoes DEF Moves, Ending
<1>20. CASE UNCHANGED recordVars
  BY <1>4, <1>20, StutterDoes
<1> QED
  BY OpenSteps, <1>6, <1>7, <1>8, <1>9, <1>10, <1>11, <1>12, <1>13, <1>14, <1>15, <1>16,
     <1>17, <1>18, <1>19, <1>20

-----------------------------------------------------------------------------
(* At every time.                                                            *)

LEMMA TypesInit == RecordInit => RecordTypeOK
BY DEF RecordInit, RecordTypeOK, Steps

\* Only the beginning of a teardown writes down whom it races.
LEMMA RacedSteps ==
  ASSUME [RecordNext]_recordVars
  PROVE  BeginTeardown \/ UNCHANGED raced
<1>1. ASSUME NEW r \in Starts, Start(r) \/ OpenFails(r) \/ Opened(r) \/ AttachFails(r)
                               \/ DomAnswers(r) \/ NetAnswers(r)
      PROVE  UNCHANGED raced
  BY <1>1, Zenon DEF Start, OpenFails, Opened, AttachFails, Publish, DomAnswers, NetAnswers
<1>2. ASSUME NEW r \in Starts, FetchBegins(r) \/ FetchEnds(r) \/ LogWriteFails(r) \/ LogClosed(r)
      PROVE  UNCHANGED raced
  BY <1>2, Zenon DEF FetchBegins, FetchEnds, LogWriteFails, LogClosed
<1>3. ASSUME NEW c \in Starts \cup {Teardown},
             AbortIdle(c) \/ Abort(c) \/ AbortLog(c) \/ AbortUnlink(c)
      PROVE  UNCHANGED raced
  BY <1>3, Zenon DEF AbortIdle, Abort, AbortLog, AbortUnlink
<1>4. ASSUME NEW e \in Ends, EndRefused(e) \/ End(e) \/ EndLog(e) \/ EndStats(e) \/ Pack(e)
      PROVE  UNCHANGED raced
  BY <1>4, Zenon DEF EndRefused, End, EndLog, EndStats, Pack
<1> QED
  BY <1>1, <1>2, <1>3, <1>4, Zenon DEF RecordNext, recordVars

LEMMA TypesStep ==
  ASSUME RecordTypeOK, HeldSound, [RecordNext]_recordVars
  PROVE  RecordTypeOK'
<1> USE DEF RecordTypeOK
<1>0. raced' \subseteq Starts
  BY RacedSteps DEF BeginTeardown
<1> USE <1>0
<1>1. ASSUME NEW r \in Starts, Start(r) \/ OpenFails(r) PROVE RecordTypeOK'
  <2>1. /\ pc' \in [Calls -> Steps]
        /\ UNCHANGED <<current, path, closed, subs, dom, tracked, taps, doms, fetching, missed,
                       gone, log, failed, jsonl, artifacts, held>>
    BY <1>1, StartDoes, OpenFailsDoes DEF Moves
  <2>2. yaml' \in BOOLEAN
    BY <1>1, OpenFailsDoes DEF Start
  <2> QED
    BY <2>1, <2>2
<1>2. ASSUME NEW r \in Starts, Opened(r) \/ AttachFails(r) PROVE RecordTypeOK'
  <2>1. /\ current' = r /\ path' = r /\ jsonl' = jsonl \cup {r}
        /\ log' \in [Starts -> {"none", "open", "closing", "closed"}]
        /\ UNCHANGED <<closed, dom, tracked, yaml, doms, fetching, missed, gone, failed,
                       artifacts, held>>
    BY <1>2, OpenedDoes, AttachFailsDoes, PublishDoes DEF Turns
  <2>2. /\ pc' \in [Calls -> Steps]
        /\ taps' \subseteq taps \cup {r} /\ subs' \subseteq subs \cup {r}
    BY <1>2, OpenedDoes, AttachFailsDoes DEF Moves
  <2> QED
    BY <2>1, <2>2
<1>3. ASSUME NEW r \in Starts, DomAnswers(r) PROVE RecordTypeOK'
  <2>1. /\ dom' \in {r, dom} /\ doms' \subseteq doms \cup {r}
        /\ UNCHANGED <<current, path, closed, subs, tracked, yaml, taps, fetching, missed,
                       gone, log, failed, jsonl, artifacts>>
    BY <1>3, DomAnswersDoes
  <2>2. pc' \in [Calls -> Steps] /\ held' \in [Calls -> Starts \cup {None}]
    BY <1>3, DomAnswersDoes DEF Moves, Holds
  <2> QED
    BY <2>1, <2>2
<1>4. ASSUME NEW r \in Starts, NetAnswers(r) PROVE RecordTypeOK'
  <2>1. /\ At(r, "net") /\ pc' \in [Calls -> Steps]
        /\ \/ taps' = taps \cup {held[r]} /\ subs' = subs \cup {held[r]} /\ tracked' = held[r]
           \/ UNCHANGED <<taps, subs, tracked>>
        /\ UNCHANGED <<current, path, closed, dom, yaml, doms, fetching, missed, gone,
                        log, failed, jsonl, artifacts, held>>
    BY <1>4, NetAnswersDoes DEF Moves
  <2>2. held[r] \in Starts
    BY <2>1 DEF HeldSound
  <2> QED
    BY <2>1, <2>2
<1>5. ASSUME NEW r \in Starts, FetchBegins(r) \/ FetchEnds(r) \/ LogWriteFails(r)
      PROVE  RecordTypeOK'
  <2>1. /\ fetching' \subseteq fetching \cup {r} /\ missed' \subseteq missed \cup {r}
        /\ failed' \subseteq failed \cup {r}
        /\ UNCHANGED <<current, path, closed, subs, dom, tracked, yaml, taps, doms,
                       gone, log, jsonl, artifacts, pc, held>>
    BY <1>5, FetchBeginsDoes, FetchEndsDoes, LogWriteFailsDoes
  <2> QED
    BY <2>1
<1>6. ASSUME NEW r \in Starts, LogClosed(r) PROVE RecordTypeOK'
  BY <1>6, LogClosedDoes DEF Turns
<1>7. ASSUME NEW c \in Starts \cup {Teardown}, AbortIdle(c) \/ AbortUnlink(c)
      PROVE  RecordTypeOK'
  <2>1. pc' \in [Calls -> Steps] /\ gone' \in BOOLEAN
    BY <1>7, AbortIdleDoes, AbortUnlinkDoes, AbortEndsDoes DEF Moves, AbortEnds
  <2>2. /\ jsonl' \subseteq jsonl
        /\ current' \in {current, None} /\ path' = current' /\ closed' \in BOOLEAN
        /\ UNCHANGED <<subs, dom, tracked, yaml, taps, doms, fetching, missed, log, failed,
                       artifacts, held>>
    BY <1>7, AbortIdleDoes, AbortUnlinkDoes DEF AbortUnlink, Reset
  <2> QED
    BY <2>1, <2>2
<1>8. ASSUME NEW c \in Starts \cup {Teardown}, Abort(c) PROVE RecordTypeOK'
  BY <1>8, AbortDoes DEF Moves, Abort, DetachAll
<1>9. ASSUME NEW c \in Starts \cup {Teardown}, AbortLog(c) PROVE RecordTypeOK'
  <2>1. pc' \in [Calls -> Steps] /\ log' \in [Starts -> {"none", "open", "closing", "closed"}]
    BY <1>9, AbortLogDoes DEF Moves, Turns
  <2>2. held' \in [Calls -> Starts \cup {None}] /\ dom' = None
    BY <1>9, AbortLogDoes DEF Holds
  <2> QED
    BY <1>9, <2>1, <2>2, AbortLogDoes
<1>10. ASSUME NEW e \in Ends, EndRefused(e) \/ EndStats(e) PROVE RecordTypeOK'
  <2>1. pc' \in [Calls -> Steps] /\ held' \in [Calls -> Starts \cup {None}]
    BY <1>10, EndRefusedDoes, EndStatsDoes DEF Moves, Holds
  <2>2. UNCHANGED <<current, path, closed, subs, dom, tracked, yaml, taps, doms, fetching,
                    missed, gone, log, failed, jsonl, artifacts>>
    BY <1>10, EndRefusedDoes, EndStatsDoes
  <2> QED
    BY <2>1, <2>2
<1>11. ASSUME NEW e \in Ends, End(e) PROVE RecordTypeOK'
  <2>1. pc' \in [Calls -> Steps]
    BY <1>11, EndDoes DEF Moves
  <2>2. /\ closed' \in BOOLEAN /\ yaml' \in BOOLEAN
        /\ taps' \subseteq taps /\ subs' \subseteq subs /\ doms' \subseteq doms
    BY <1>11 DEF End, DetachAll
  <2> QED
    BY <1>11, <2>1, <2>2, EndDoes
<1>12. ASSUME NEW e \in Ends, EndLog(e) PROVE RecordTypeOK'
  <2>1. pc' \in [Calls -> Steps] /\ log' \in [Starts -> {"none", "open", "closing", "closed"}]
    BY <1>12, EndLogDoes DEF Moves, Turns
  <2>2. held' \in [Calls -> Starts \cup {None}] /\ dom' = None
    BY <1>12, EndLogDoes DEF Holds
  <2> QED
    BY <1>12, <2>1, <2>2, EndLogDoes
<1>13. ASSUME NEW e \in Ends, Pack(e) PROVE RecordTypeOK'
  <2>1. pc' \in [Calls -> Steps] /\ jsonl' \subseteq jsonl
    BY <1>13, PackDoes DEF Moves
  <2>2. artifacts' \subseteq [of : Starts, whole : BOOLEAN, open : BOOLEAN]
    <3>1. CASE UNCHANGED artifacts
      BY <3>1
    <3>2. CASE /\ held[e] \in jsonl
               /\ artifacts' = artifacts \cup
                    {[of |-> held[e], whole |-> log[held[e]] = "closed", open |-> SessionIsOpen]}
      <4>1. (log[held[e]] = "closed") \in BOOLEAN /\ SessionIsOpen \in BOOLEAN
        BY DEF SessionIsOpen, At
      <4>2. held[e] \in Starts
        BY <3>2
      <4>3. [of |-> held[e], whole |-> log[held[e]] = "closed", open |-> SessionIsOpen]
              \in [of : Starts, whole : BOOLEAN, open : BOOLEAN]
        BY <4>1, <4>2, Zenon
      <4> QED
        BY <3>2, <4>3, Zenon
    <3> QED
      BY <1>13, <3>1, <3>2, PackDoes
  <2>3. /\ current' = None /\ path' = None /\ closed' \in BOOLEAN
        /\ UNCHANGED <<subs, dom, tracked, yaml, taps, doms, fetching, missed, gone, log, failed,
                       held>>
    BY <1>13, PackDoes DEF Pack, Reset
  <2> QED
    BY <2>1, <2>2, <2>3
<1>14. CASE BeginTeardown
  BY <1>14, TeardownDoes DEF Moves
<1>15. CASE UNCHANGED recordVars
  BY <1>15, StutterDoes
<1> QED
  BY <1>1, <1>2, <1>3, <1>4, <1>5, <1>6, <1>7, <1>8, <1>9, <1>10, <1>11, <1>12, <1>13, <1>14,
     <1>15 DEF RecordNext

LEMMA HeldStep ==
  ASSUME RecordTypeOK, HeldSound, [RecordNext]_recordVars
  PROVE  HeldSound'
<1> USE DEF HeldSound, At
<1>1. ASSUME UNCHANGED held, \A r \in Starts : pc'[r] = "net" => pc[r] = "net" PROVE HeldSound'
  BY <1>1
<1>2. ASSUME NEW r \in Starts, DomAnswers(r) PROVE HeldSound'
  <2>1. \/ Moves(r, "ok") /\ UNCHANGED held
        \/ current # None /\ Moves(r, "net") /\ Holds(r, current)
    BY <1>2, DomAnswersDoes
  <2>2. current # None => current \in Starts
    BY DEF RecordTypeOK
  <2> QED
    BY <2>1, <2>2, Kinds DEF Moves, Holds
<1>3. ASSUME NEW c \in Starts \cup {Teardown}, AbortLog(c) PROVE HeldSound'
  <2>1. (Moves(c, "abort log") \/ Moves(c, "abort past")) /\ Holds(c, current)
    BY <1>3, AbortLogDoes
  <2> QED
    BY <2>1, Kinds DEF Moves, Holds
<1>4. ASSUME NEW e \in Ends, EndLog(e) \/ EndStats(e) PROVE HeldSound'
  <2>1. (\E s : Moves(e, s)) /\ (\E r : Holds(e, r))
    BY <1>4, EndLogDoes, EndStatsDoes
  <2> QED
    BY <2>1, Kinds DEF Moves, Holds
<1>5. ASSUME NEW e \in Ends, EndRefused(e) \/ End(e) \/ Pack(e) PROVE HeldSound'
  <2>1. (\E s : Moves(e, s)) /\ UNCHANGED held
    BY <1>5, EndRefusedDoes, EndDoes, PackDoes
  <2> QED
    BY <2>1, Kinds DEF Moves, Holds
<1>6. ASSUME NEW r \in Starts, Start(r) \/ OpenFails(r) \/ Opened(r) \/ AttachFails(r)
                               \/ NetAnswers(r)
      PROVE  HeldSound'
  <2>1. UNCHANGED held /\ \E s : s # "net" /\ Moves(r, s)
    BY <1>6, StartDoes, OpenFailsDoes, OpenedDoes, AttachFailsDoes, PublishDoes, NetAnswersDoes
  <2> QED
    BY <1>1, <2>1, Kinds DEF Moves
<1>7. ASSUME NEW c \in Starts \cup {Teardown}, AbortIdle(c) \/ Abort(c) \/ AbortUnlink(c)
      PROVE  HeldSound'
  <2>1. UNCHANGED held /\ \E s : s # "net" /\ Moves(c, s)
    BY <1>7, AbortIdleDoes, AbortDoes, AbortUnlinkDoes, AbortEndsDoes
  <2> QED
    BY <1>1, <2>1, Kinds DEF Moves
<1>8. ASSUME NEW r \in Starts, FetchBegins(r) \/ FetchEnds(r) \/ LogWriteFails(r) \/ LogClosed(r)
      PROVE  HeldSound'
  BY <1>8, FetchBeginsDoes, FetchEndsDoes, LogWriteFailsDoes, LogClosedDoes
<1>9. CASE BeginTeardown
  BY <1>1, <1>9, TeardownDoes, Kinds DEF Moves
<1>10. CASE UNCHANGED recordVars
  BY <1>10, StutterDoes
<1> QED
  BY <1>2, <1>3, <1>4, <1>5, <1>6, <1>7, <1>8, <1>9, <1>10 DEF RecordNext

\* A step moves one call or none, a start only until it is answered.
LEMMA CallMoves ==
  ASSUME RecordTypeOK, [RecordNext]_recordVars
  PROVE  \/ UNCHANGED pc
         \/ \E c \in Calls : /\ \E s : Moves(c, s)
                             /\ c \in Starts => ~ Answered(c) \/ Start(c)
<1> DEFINE One(c) == /\ \E s : Moves(c, s)
                     /\ c \in Starts => ~ Answered(c) \/ Start(c)
<1>1. ASSUME NEW r \in Starts, Start(r) \/ OpenFails(r) \/ Opened(r) \/ AttachFails(r)
                               \/ DomAnswers(r) \/ NetAnswers(r)
      PROVE  One(r)
  BY <1>1, StartDoes, OpenFailsDoes, OpenedDoes, AttachFailsDoes, PublishDoes, DomAnswersDoes,
     NetAnswersDoes DEF Answered, At
<1>2. ASSUME NEW r \in Starts, FetchBegins(r) \/ FetchEnds(r) \/ LogWriteFails(r) \/ LogClosed(r)
      PROVE  UNCHANGED pc
  BY <1>2, FetchBeginsDoes, FetchEndsDoes, LogWriteFailsDoes, LogClosedDoes
<1>3. ASSUME NEW c \in Starts \cup {Teardown},
             AbortIdle(c) \/ Abort(c) \/ AbortLog(c) \/ AbortUnlink(c)
      PROVE  One(c)
  BY <1>3, AbortIdleDoes, AbortDoes, AbortLogDoes, AbortUnlinkDoes, AbortEndsDoes
     DEF Answered, At
<1>4. ASSUME NEW e \in Ends, EndRefused(e) \/ End(e) \/ EndLog(e) \/ EndStats(e) \/ Pack(e)
      PROVE  One(e)
  BY <1>4, EndRefusedDoes, EndDoes, EndLogDoes, EndStatsDoes, PackDoes, Kinds
<1>5. CASE BeginTeardown
  <2>1. One(Teardown)
    BY <1>5, TeardownDoes, Kinds
  <2> QED
    BY <2>1, Kinds
<1>6. CASE UNCHANGED recordVars
  BY <1>6, StutterDoes
<1> QED
  BY <1>1, <1>2, <1>3, <1>4, <1>5, <1>6, Kinds DEF RecordNext

LEMMA OneStartStep ==
  ASSUME Overlaps \subseteq {"close"}, RecordTypeOK, OneStart, [RecordNext]_recordVars
  PROVE  OneStart'
<1>1. CASE UNCHANGED pc
  BY <1>1 DEF OneStart, Answered
<1>2. ASSUME NEW c \in Calls, \E s : Moves(c, s), c \in Starts => ~ Answered(c) \/ Start(c)
      PROVE  OneStart'
  <2>1. \A r \in Starts : r # c /\ ~ Answered(r)' => ~ Answered(r)
    BY <1>2, Kinds DEF Moves, Answered
  <2>2. c \in Starts => ~ Answered(c) \/ \A r \in Starts : Answered(r)
    BY <1>2, StartDoes DEF Starting
  <2> QED
    BY <2>1, <2>2 DEF OneStart
<1> QED
  BY <1>1, <1>2, CallMoves

LEMMA OwnStep ==
  ASSUME RecordTypeOK, OneStart, OwnSound, [RecordNext]_recordVars, NEW r \in Starts
  PROVE  (At(r, "dom") => current = r \/ current = None)' /\ (At(r, "net") => held[r] = r)'
<1> DEFINE Own == (At(r, "dom") => current = r \/ current = None) /\ (At(r, "net") => held[r] = r)
<1> USE DEF At
<1>1. Own /\ r \in Calls /\ r # Teardown /\ r \notin Ends
  BY Kinds DEF OwnSound
<1>2. ASSUME ~ (pc'[r] \in {"dom", "net"}) PROVE Own'
  BY <1>2
<1>3. ASSUME UNCHANGED <<current, pc, held>> PROVE Own'
  BY <1>1, <1>3
<1>4. ASSUME current' \in {current, None}, pc'[r] = pc[r], held'[r] = held[r] PROVE Own'
  BY <1>1, <1>4
<1>5. ASSUME NEW q \in Starts, Start(q) \/ OpenFails(q) PROVE Own'
  <2>1. /\ Moves(q, "opening") \/ Moves(q, "refused") \/ Moves(q, "failed")
        /\ UNCHANGED <<current, held>>
    BY <1>5, StartDoes, OpenFailsDoes
  <2> QED
    BY <1>1, <1>2, <1>4, <2>1 DEF Moves
<1>6. ASSUME NEW q \in Starts, Opened(q) \/ AttachFails(q) PROVE Own'
  <2>1. At(q, "opening") /\ current' = q /\ UNCHANGED held
    BY <1>6, OpenedDoes, AttachFailsDoes, PublishDoes
  <2>2. Moves(q, "ok") \/ Moves(q, "dom") \/ Moves(q, "abort")
    BY <1>6, OpenedDoes, AttachFailsDoes
  <2>3. CASE q = r
    BY <2>1, <2>2, <2>3 DEF Moves
  <2>4. CASE q # r
    <3>1. Answered(r)
      BY <2>1, <2>4 DEF OneStart, Answered
    <3>2. pc'[r] = pc[r]
      BY <1>1, <2>2, <2>4 DEF Moves
    <3> QED
      BY <1>2, <3>1, <3>2 DEF Answered
  <2> QED
    BY <2>3, <2>4
<1>7. ASSUME NEW q \in Starts, DomAnswers(q) PROVE Own'
  <2>1. /\ At(q, "dom") /\ UNCHANGED current
        /\ \/ Moves(q, "ok") /\ UNCHANGED held
           \/ current # None /\ Moves(q, "net") /\ Holds(q, current)
    BY <1>7, DomAnswersDoes
  <2>2. current = q \/ current = None
    BY <2>1 DEF OwnSound
  <2>3. CASE q = r
    BY <2>1, <2>2, <2>3 DEF Moves, Holds
  <2>4. CASE q # r
    <3>1. pc'[r] = pc[r] /\ held'[r] = held[r]
      BY <1>1, <2>1, <2>4 DEF Moves, Holds
    <3> QED
      BY <1>4, <2>1, <3>1
  <2> QED
    BY <2>3, <2>4
<1>8. ASSUME NEW q \in Starts, NetAnswers(q) PROVE Own'
  <2>1. Moves(q, "ok") /\ UNCHANGED <<current, held>>
    BY <1>8, NetAnswersDoes
  <2> QED
    BY <1>1, <1>2, <1>4, <2>1 DEF Moves
<1>9. ASSUME NEW q \in Starts, FetchBegins(q) \/ FetchEnds(q) \/ LogWriteFails(q) \/ LogClosed(q)
      PROVE  Own'
  BY <1>3, <1>9, FetchBeginsDoes, FetchEndsDoes, LogWriteFailsDoes, LogClosedDoes
<1>10. ASSUME NEW c \in Starts \cup {Teardown}, AbortIdle(c) \/ Abort(c) \/ AbortUnlink(c)
       PROVE  Own'
  <2>1. /\ Moves(c, "failed") \/ Moves(c, "aborted") \/ Moves(c, "abort dom")
        /\ current' \in {current, None} /\ UNCHANGED held
    BY <1>10, AbortIdleDoes, AbortDoes, AbortUnlinkDoes, AbortEndsDoes
  <2> QED
    BY <1>1, <1>2, <1>4, <2>1 DEF Moves
<1>11. ASSUME NEW c \in Starts \cup {Teardown}, AbortLog(c) PROVE Own'
  <2>1. /\ Moves(c, "abort log") \/ Moves(c, "abort past")
        /\ Holds(c, current) /\ UNCHANGED current
    BY <1>11, AbortLogDoes
  <2> QED
    BY <1>1, <1>2, <1>4, <2>1 DEF Moves, Holds
<1>12. ASSUME NEW e \in Ends, EndRefused(e) \/ End(e) \/ Pack(e) PROVE Own'
  <2>1. (\E s : Moves(e, s)) /\ current' \in {current, None} /\ UNCHANGED held
    BY <1>12, EndRefusedDoes, EndDoes, PackDoes
  <2> QED
    BY <1>1, <1>4, <2>1 DEF Moves
<1>13. ASSUME NEW e \in Ends, EndLog(e) \/ EndStats(e) PROVE Own'
  <2>1. (\E s : Moves(e, s)) /\ (\E q : Holds(e, q)) /\ UNCHANGED current
    BY <1>13, EndLogDoes, EndStatsDoes
  <2> QED
    BY <1>1, <1>4, <2>1 DEF Moves, Holds
<1>14. CASE BeginTeardown
  <2>1. Moves(Teardown, "abort") /\ UNCHANGED <<current, held>>
    BY <1>14, TeardownDoes
  <2> QED
    BY <1>1, <1>4, <2>1 DEF Moves
<1>15. CASE UNCHANGED recordVars
  BY <1>3, <1>15, StutterDoes
<1> QED
  BY <1>5, <1>6, <1>7, <1>8, <1>9, <1>10, <1>11, <1>12, <1>13, <1>14, <1>15 DEF RecordNext

LEMMA NewStep ==
  ASSUME RecordTypeOK, NewSound, [RecordNext]_recordVars, NEW r \in Starts
  PROVE  New(r)'
<1> USE DEF New, At
<1>1. New(r) /\ r \in Calls /\ r # Teardown /\ r \notin Ends
  BY Kinds DEF NewSound
<1>2. ASSUME pc'[r] = pc[r], log'[r] = "none" <=> log[r] = "none" PROVE New(r)'
  BY <1>1, <1>2
<1>3. ASSUME NEW c \in Calls, NEW s, Moves(c, s), c # r, UNCHANGED log PROVE New(r)'
  BY <1>1, <1>2, <1>3 DEF Moves
\* A log that is shut has been open.
<1>4. ASSUME log[current] = "open", Turns(current, "closing") PROVE log'[r] = "none" <=> log[r] = "none"
  BY <1>4 DEF Turns
<1>5. ASSUME NEW q \in Starts, Start(q) \/ OpenFails(q) PROVE New(r)'
  <2>1. /\ At(q, "idle") \/ At(q, "opening")
        /\ Moves(q, "opening") \/ Moves(q, "refused") \/ Moves(q, "failed")
        /\ UNCHANGED log
    BY <1>5, StartDoes, OpenFailsDoes
  <2>2. CASE q = r
    <3>1. log[r] = "none" /\ pc'[r] \in {"opening", "refused", "failed"}
      BY <1>1, <2>1, <2>2 DEF Moves
    <3> QED
      BY <2>1, <3>1
  <2>3. CASE q # r
    BY <1>3, <2>1, <2>3, Kinds
  <2> QED
    BY <2>2, <2>3
<1>6. ASSUME NEW q \in Starts, Opened(q) \/ AttachFails(q) PROVE New(r)'
  <2>1. Turns(q, "open")
    BY <1>6, OpenedDoes, AttachFailsDoes, PublishDoes
  <2>2. Moves(q, "ok") \/ Moves(q, "dom") \/ Moves(q, "abort")
    BY <1>6, OpenedDoes, AttachFailsDoes
  <2>3. CASE q = r
    BY <2>1, <2>2, <2>3 DEF Moves, Turns
  <2>4. CASE q # r
    <3>1. pc'[r] = pc[r] /\ log'[r] = log[r]
      BY <1>1, <2>1, <2>2, <2>4 DEF Moves, Turns
    <3> QED
      BY <1>2, <3>1
  <2> QED
    BY <2>3, <2>4
\* Past its opening a call leaves nobody without a log.
<1>7. ASSUME NEW c \in Calls, NEW s, Moves(c, s),
             c \in Starts => pc[c] \notin {"idle", "opening", "refused", "failed"},
             s \notin {"idle", "opening", "refused"},
             log'[r] = "none" <=> log[r] = "none"
      PROVE  New(r)'
  <2>1. CASE c = r
    <3>1. log[r] # "none" /\ pc'[r] = s
      BY <1>1, <1>7, <2>1 DEF Moves
    <3> QED
      BY <1>7, <3>1
  <2>2. CASE c # r
    BY <1>1, <1>2, <1>7, <2>2 DEF Moves
  <2> QED
    BY <2>1, <2>2
<1>8. ASSUME NEW q \in Starts, DomAnswers(q) \/ NetAnswers(q) PROVE New(r)'
  <2>1. (At(q, "dom") \/ At(q, "net")) /\ (Moves(q, "ok") \/ Moves(q, "net")) /\ UNCHANGED log
    BY <1>8, DomAnswersDoes, NetAnswersDoes
  <2> QED
    BY <1>7, <2>1, Kinds
<1>9. ASSUME NEW q \in Starts, FetchBegins(q) \/ FetchEnds(q) \/ LogWriteFails(q) PROVE New(r)'
  BY <1>2, <1>9, FetchBeginsDoes, FetchEndsDoes, LogWriteFailsDoes
<1>10. ASSUME NEW q \in Starts, LogClosed(q) PROVE New(r)'
  BY <1>2, <1>10, LogClosedDoes DEF Turns
<1>11. ASSUME NEW c \in Starts \cup {Teardown}, AbortIdle(c) \/ Abort(c) \/ AbortUnlink(c)
       PROVE  New(r)'
  <2>1. /\ pc[c] \in {"abort", "abort log", "abort past"} /\ UNCHANGED log
        /\ Moves(c, "failed") \/ Moves(c, "aborted") \/ Moves(c, "abort dom")
    BY <1>11, AbortIdleDoes, AbortDoes, AbortUnlinkDoes, AbortEndsDoes
  <2> QED
    BY <1>7, <2>1, Kinds
<1>12. ASSUME NEW c \in Starts \cup {Teardown}, AbortLog(c) PROVE New(r)'
  <2>1. /\ At(c, "abort dom")
        /\ Moves(c, "abort log") \/ Moves(c, "abort past")
        /\ UNCHANGED log \/ (log[current] = "open" /\ Turns(current, "closing"))
    BY <1>12, AbortLogDoes
  <2>2. log'[r] = "none" <=> log[r] = "none"
    BY <1>4, <2>1
  <2> QED
    BY <1>7, <2>1, <2>2, Kinds
<1>13. ASSUME NEW e \in Ends, EndRefused(e) \/ End(e) \/ EndStats(e) \/ Pack(e) PROVE New(r)'
  <2>1. (\E s : Moves(e, s)) /\ UNCHANGED log
    BY <1>13, EndRefusedDoes, EndDoes, EndStatsDoes, PackDoes
  <2> QED
    BY <1>1, <1>3, <2>1, Kinds
<1>14. ASSUME NEW e \in Ends, EndLog(e) PROVE New(r)'
  <2>1. /\ \E s : Moves(e, s)
        /\ UNCHANGED log \/ (log[current] = "open" /\ Turns(current, "closing"))
    BY <1>14, EndLogDoes
  <2>2. log'[r] = "none" <=> log[r] = "none"
    BY <1>4, <2>1
  <2>3. pc'[r] = pc[r]
    BY <1>1, <2>1 DEF Moves
  <2> QED
    BY <1>2, <2>2, <2>3
<1>15. CASE BeginTeardown
  BY <1>1, <1>3, <1>15, TeardownDoes, Kinds
<1>16. CASE UNCHANGED recordVars
  BY <1>2, <1>16, StutterDoes
<1> QED
  BY <1>5, <1>6, <1>8, <1>9, <1>10, <1>11, <1>12, <1>13, <1>14, <1>15, <1>16 DEF RecordNext

LEMMA TracelessStep ==
  ASSUME RecordTypeOK, NewSound, OwnSound, [RecordNext]_recordVars, NEW r \in Starts,
         log'[r] = "none"
  PROVE  Traceless(r)'
<1> USE DEF Traceless
\* What a step may use instead is another recording, or none.
<1>1. ASSUME Traceless(r),
             current' \in {current, None} \cup (Starts \ {r}), dom' \in {dom, None} \cup (Starts \ {r}),
             tracked' \in {tracked} \cup (Starts \ {r}),
             subs' \subseteq subs \cup (Starts \ {r}), taps' \subseteq taps \cup (Starts \ {r}),
             doms' \subseteq doms \cup (Starts \ {r}),
             fetching' \subseteq fetching \cup (Starts \ {r}),
             missed' \subseteq missed \cup (Starts \ {r}), failed' \subseteq failed \cup (Starts \ {r}),
             jsonl' \subseteq jsonl \cup (Starts \ {r}),
             \A c \in Calls : held'[c] # r, \A a \in artifacts' : a.of # r
      PROVE  Traceless(r)'
  BY <1>1, Kinds
<1>2. ASSUME UNCHANGED <<current, dom, tracked, subs, taps, doms, fetching, missed, failed, jsonl,
                         held, artifacts>>, Traceless(r)
      PROVE  Traceless(r)'
  BY <1>2
<1>3. ASSUME log[r] = "none" PROVE Traceless(r)
  BY <1>3 DEF NewSound
<1>4. ASSUME UNCHANGED log PROVE Traceless(r)
  BY <1>3, <1>4
<1>5. ASSUME NEW q, NEW c \in Calls, Traceless(r), q # r, Holds(c, q)
      PROVE  \A d \in Calls : held'[d] # r
  BY <1>5 DEF Holds
<1>6. ASSUME NEW q \in Starts, Start(q) \/ OpenFails(q) PROVE Traceless(r)'
  BY <1>2, <1>4, <1>6, StartDoes, OpenFailsDoes
<1>7. ASSUME NEW q \in Starts, Opened(q) \/ AttachFails(q) PROVE Traceless(r)'
  <2>1. /\ Turns(q, "open") /\ current' = q /\ jsonl' = jsonl \cup {q}
        /\ UNCHANGED <<dom, tracked, doms, fetching, missed, failed, artifacts, held>>
    BY <1>7, OpenedDoes, AttachFailsDoes, PublishDoes
  <2>2. taps' \subseteq taps \cup {q} /\ subs' \subseteq subs \cup {q}
    BY <1>7, OpenedDoes, AttachFailsDoes
  <2>3. q # r /\ log[r] = "none"
    BY <2>1 DEF Turns
  <2>4. Traceless(r)
    BY <1>3, <2>3
  <2> QED
    BY <2>1, <2>2, <2>3, <2>4, Kinds
<1>8. ASSUME NEW q \in Starts, DomAnswers(q) PROVE Traceless(r)'
  <2>1. /\ At(q, "dom")
        /\ dom' \in {q, dom} /\ doms' \subseteq doms \cup {q}
        /\ UNCHANGED <<current, tracked, subs, taps, fetching, missed, failed, jsonl, log, artifacts>>
    BY <1>8, DomAnswersDoes
  <2>2. Traceless(r) /\ q # r
    BY <1>3, <2>1 DEF NewSound, New, At
  <2>3. UNCHANGED held \/ Holds(q, current)
    BY <1>8, DomAnswersDoes
  <2>4. \A d \in Calls : held'[d] # r
    BY <1>5, <2>2, <2>3, Kinds
  <2> QED
    BY <2>1, <2>2, <2>4
<1>9. ASSUME NEW q \in Starts, NetAnswers(q) PROVE Traceless(r)'
  <2>1. /\ At(q, "net")
        /\ taps' \subseteq taps \cup {held[q]} /\ subs' \subseteq subs \cup {held[q]}
        /\ tracked' \in {tracked, held[q]}
        /\ UNCHANGED <<current, dom, doms, fetching, missed, failed, jsonl, log, held, artifacts>>
    BY <1>9, NetAnswersDoes
  <2>2. Traceless(r)
    BY <1>4, <2>1
  <2>3. held[q] # r
    BY <2>2, Kinds
  <2> QED
    BY <2>1, <2>2, <2>3
<1>10. ASSUME NEW q \in Starts, FetchBegins(q) \/ FetchEnds(q) PROVE Traceless(r)'
  <2>1. /\ q \in taps \cup fetching
        /\ fetching' \subseteq fetching \cup {q} /\ missed' \subseteq missed \cup {q}
        /\ UNCHANGED <<current, dom, tracked, subs, taps, doms, failed, jsonl, log, held, artifacts>>
    BY <1>10, FetchBeginsDoes, FetchEndsDoes
  <2>2. Traceless(r)
    BY <1>4, <2>1
  <2>3. q # r
    BY <2>1, <2>2
  <2> QED
    BY <2>1, <2>2, <2>3
<1>11. ASSUME NEW q \in Starts, LogWriteFails(q) PROVE Traceless(r)'
  <2>1. /\ log[q] \in {"open", "closing"} /\ failed' = failed \cup {q}
        /\ UNCHANGED <<current, dom, tracked, subs, taps, doms, fetching, missed, jsonl, log, held,
                       artifacts>>
    BY <1>11, LogWriteFailsDoes
  <2>2. Traceless(r) /\ q # r
    BY <1>4, <2>1
  <2> QED
    BY <2>1, <2>2
<1>12. ASSUME NEW q \in Starts, LogClosed(q) PROVE Traceless(r)'
  <2>1. /\ log[q] = "closing" /\ Turns(q, "closed")
        /\ UNCHANGED <<current, dom, tracked, subs, taps, doms, fetching, missed, failed, jsonl,
                       held, artifacts>>
    BY <1>12, LogClosedDoes
  <2>2. log[r] = "none"
    BY <2>1 DEF Turns
  <2> QED
    BY <1>2, <1>3, <2>1, <2>2
<1>13. ASSUME NEW c \in Starts \cup {Teardown}, AbortIdle(c) \/ Abort(c) \/ AbortUnlink(c)
       PROVE  Traceless(r)'
  <2>1. /\ current' \in {current, None} /\ jsonl' \subseteq jsonl
        /\ subs' \subseteq subs /\ taps' \subseteq taps /\ doms' \subseteq doms
        /\ UNCHANGED <<dom, tracked, fetching, missed, failed, log, held, artifacts>>
    BY <1>13, AbortIdleDoes, AbortDoes, AbortUnlinkDoes
  <2>2. Traceless(r)
    BY <1>4, <2>1
  <2> QED
    BY <2>1, <2>2, Kinds
\* A log that is shut has been open.
<1>14. ASSUME UNCHANGED log \/ (log[current] = "open" /\ Turns(current, "closing"))
       PROVE  Traceless(r)
  <2>1. log[r] = "none"
    BY <1>14 DEF Turns
  <2> QED
    BY <1>3, <2>1
<1>15. ASSUME NEW c \in Calls, dom' \in {dom, None}, Holds(c, current),
              UNCHANGED <<current, tracked, subs, taps, doms, fetching, missed, failed, jsonl,
                          artifacts>>,
              UNCHANGED log \/ (log[current] = "open" /\ Turns(current, "closing"))
       PROVE  Traceless(r)'
  <2>1. Traceless(r)
    BY <1>14, <1>15
  <2>2. \A d \in Calls : held'[d] # r
    BY <1>5, <1>15, <2>1
  <2> QED
    BY <1>15, <2>1, <2>2, Kinds
<1>16. ASSUME NEW c \in Starts \cup {Teardown}, AbortLog(c) PROVE Traceless(r)'
  BY <1>15, <1>16, AbortLogDoes, Kinds
<1>17. ASSUME NEW e \in Ends, EndLog(e) PROVE Traceless(r)'
  BY <1>15, <1>17, EndLogDoes, Kinds
<1>18. ASSUME NEW e \in Ends, EndStats(e) PROVE Traceless(r)'
  <2>1. /\ Holds(e, held[e]) \/ Holds(e, current)
        /\ UNCHANGED <<current, dom, tracked, subs, taps, doms, fetching, missed, failed, jsonl,
                       log, artifacts>>
    BY <1>18, EndStatsDoes
  <2>2. Traceless(r)
    BY <1>4, <2>1
  <2>3. \A d \in Calls : held'[d] # r
    BY <1>5, <2>1, <2>2, Kinds
  <2> QED
    BY <2>1, <2>2, <2>3
<1>19. ASSUME NEW e \in Ends, EndRefused(e) \/ End(e) PROVE Traceless(r)'
  <2>1. /\ subs' \subseteq subs /\ taps' \subseteq taps /\ doms' \subseteq doms
        /\ UNCHANGED <<current, dom, tracked, fetching, missed, failed, jsonl, log, held, artifacts>>
    BY <1>19, EndRefusedDoes, EndDoes
  <2> QED
    BY <1>4, <2>1
<1>20. ASSUME NEW e \in Ends, Pack(e) PROVE Traceless(r)'
  <2>1. /\ current' = None /\ jsonl' \subseteq jsonl
        /\ UNCHANGED <<dom, tracked, subs, taps, doms, fetching, missed, failed, log, held>>
    BY <1>20, PackDoes
  <2>2. Traceless(r) /\ held[e] # r
    BY <1>4, <2>1, Kinds
  <2>3. \A a \in artifacts' : a.of # r
    BY <1>20, <2>2, PackDoes
  <2> QED
    BY <2>1, <2>2, <2>3, Kinds
<1>21. CASE BeginTeardown
  BY <1>2, <1>4, <1>21, TeardownDoes
<1>22. CASE UNCHANGED recordVars
  BY <1>2, <1>4, <1>22, StutterDoes
<1> QED
  BY <1>6, <1>7, <1>8, <1>9, <1>10, <1>11, <1>12, <1>13, <1>16, <1>17, <1>18, <1>19, <1>20,
     <1>21, <1>22 DEF RecordNext

\* A log that is closed stays so.
LEMMA ClosedStays ==
  ASSUME RecordTypeOK, NewSound, [RecordNext]_recordVars, NEW r \in Starts, log[r] = "closed"
  PROVE  log'[r] = "closed"
<1>1. ASSUME NEW q \in Starts, Opened(q) \/ AttachFails(q) PROVE log'[r] = "closed"
  <2>1. At(q, "opening") /\ Turns(q, "open")
    BY <1>1, OpenedDoes, AttachFailsDoes, PublishDoes
  <2>2. q # r
    BY <2>1 DEF NewSound, New, At
  <2> QED
    BY <2>1, <2>2 DEF Turns
<1>2. ASSUME NEW q \in Starts, LogClosed(q) PROVE log'[r] = "closed"
  BY <1>2, LogClosedDoes DEF Turns
<1>3. ASSUME NEW c \in Starts \cup {Teardown}, AbortLog(c) PROVE log'[r] = "closed"
  <2>1. UNCHANGED log \/ (log[current] = "open" /\ Turns(current, "closing"))
    BY <1>3, AbortLogDoes
  <2> QED
    BY <2>1 DEF Turns
<1>4. ASSUME NEW e \in Ends, EndLog(e) PROVE log'[r] = "closed"
  <2>1. UNCHANGED log \/ (log[current] = "open" /\ Turns(current, "closing"))
    BY <1>4, EndLogDoes
  <2> QED
    BY <2>1 DEF Turns
<1>5. ASSUME NEW q \in Starts, Start(q) \/ OpenFails(q) \/ DomAnswers(q) \/ NetAnswers(q)
                               \/ FetchBegins(q) \/ FetchEnds(q) \/ LogWriteFails(q)
      PROVE  UNCHANGED log
  BY <1>5, StartDoes, OpenFailsDoes, DomAnswersDoes, NetAnswersDoes, FetchBeginsDoes, FetchEndsDoes,
     LogWriteFailsDoes
<1>6. ASSUME NEW c \in Starts \cup {Teardown}, AbortIdle(c) \/ Abort(c) \/ AbortUnlink(c)
      PROVE  UNCHANGED log
  BY <1>6, AbortIdleDoes, AbortDoes, AbortUnlinkDoes
<1>7. ASSUME NEW e \in Ends, EndRefused(e) \/ End(e) \/ EndStats(e) \/ Pack(e) PROVE UNCHANGED log
  BY <1>7, EndRefusedDoes, EndDoes, EndStatsDoes, PackDoes
<1>8. CASE BeginTeardown
  BY <1>8, TeardownDoes
<1>9. CASE UNCHANGED recordVars
  BY <1>9, StutterDoes
<1> QED
  BY <1>1, <1>2, <1>3, <1>4, <1>5, <1>6, <1>7, <1>8, <1>9 DEF RecordNext

\* The log of what was packed is closed: nothing of it is touched any more.
LEMMA WholeStays ==
  ASSUME RecordTypeOK, OneStart, NewSound, OwnSound, [RecordNext]_recordVars,
         NEW a \in artifacts, Whole(a)
  PROVE  Whole(a)'
<1> DEFINE r == a.of
<1>1. r \in Starts /\ r \in Calls
  <2>1. a \in [of : Starts, whole : BOOLEAN, open : BOOLEAN]
    BY DEF RecordTypeOK
  <2> QED
    BY <2>1, Kinds
<1>2. /\ a.whole /\ Answered(r) /\ log[r] = "closed"
      /\ r \notin failed /\ r \notin missed /\ r \notin taps /\ r \notin fetching
  BY DEF Whole
<1> HIDE DEF r
<1>3. log'[r] = "closed"
  BY <1>1, <1>2, ClosedStays
<1>4. Answered(r)'
  <2>1. CASE UNCHANGED pc
    BY <1>2, <2>1 DEF Answered
  <2>2. ASSUME NEW c \in Calls, \E s : Moves(c, s), c \in Starts => ~ Answered(c) \/ Start(c)
        PROVE  Answered(r)'
    <3>1. c # r
      BY <1>1, <1>2, <2>2, StartDoes DEF NewSound, New, At
    <3> QED
      BY <1>1, <1>2, <2>2, <3>1 DEF Moves, Answered
  <2> QED
    BY <2>1, <2>2, CallMoves
<1>5. r \notin failed'
  <2>1. ASSUME NEW q \in Starts, LogWriteFails(q) PROVE r \notin failed'
    BY <1>2, <2>1, LogWriteFailsDoes
  <2>2. ASSUME NEW q \in Starts, Start(q) \/ OpenFails(q) \/ Opened(q) \/ AttachFails(q)
                                 \/ DomAnswers(q) \/ NetAnswers(q)
        PROVE  UNCHANGED failed
    BY <2>2, StartDoes, OpenFailsDoes, OpenedDoes, AttachFailsDoes, PublishDoes, DomAnswersDoes,
       NetAnswersDoes
  <2>3. ASSUME NEW q \in Starts, FetchBegins(q) \/ FetchEnds(q) \/ LogClosed(q)
        PROVE  UNCHANGED failed
    BY <2>3, FetchBeginsDoes, FetchEndsDoes, LogClosedDoes
  <2>4. ASSUME NEW c \in Starts \cup {Teardown},
               AbortIdle(c) \/ Abort(c) \/ AbortLog(c) \/ AbortUnlink(c)
        PROVE  UNCHANGED failed
    BY <2>4, AbortIdleDoes, AbortDoes, AbortLogDoes, AbortUnlinkDoes
  <2>5. ASSUME NEW e \in Ends, EndRefused(e) \/ End(e) \/ EndLog(e) \/ EndStats(e) \/ Pack(e)
        PROVE  UNCHANGED failed
    BY <2>5, EndRefusedDoes, EndDoes, EndLogDoes, EndStatsDoes, PackDoes
  <2>6. CASE BeginTeardown
    BY <1>2, <2>6, TeardownDoes
  <2>7. CASE UNCHANGED recordVars
    BY <1>2, <2>7, StutterDoes
  <2> QED
    BY <1>2, <2>1, <2>2, <2>3, <2>4, <2>5, <2>6, <2>7 DEF RecordNext
<1>6. r \notin missed' /\ r \notin taps' /\ r \notin fetching'
  <2> DEFINE Apart == r \notin missed' /\ r \notin taps' /\ r \notin fetching'
  <2>1. ASSUME NEW q \in Starts, Opened(q) \/ AttachFails(q) PROVE Apart
    <3>1. /\ At(q, "opening") /\ taps' \subseteq taps \cup {q} /\ UNCHANGED <<fetching, missed>>
      BY <2>1, OpenedDoes, AttachFailsDoes, PublishDoes
    <3>2. q # r
      BY <1>2, <3>1 DEF Answered, At
    <3> QED
      BY <1>2, <3>1, <3>2
  <2>2. ASSUME NEW q \in Starts, NetAnswers(q) PROVE Apart
    <3>1. /\ At(q, "net") /\ taps' \subseteq taps \cup {held[q]} /\ UNCHANGED <<fetching, missed>>
      BY <2>2, NetAnswersDoes
    <3>2. q # r /\ held[q] = q
      BY <1>2, <3>1 DEF Answered, At, OwnSound
    <3> QED
      BY <1>2, <3>1, <3>2
  <2>3. ASSUME NEW q \in Starts, FetchBegins(q) \/ FetchEnds(q) PROVE Apart
    <3>1. /\ q \in taps \cup fetching /\ UNCHANGED taps
          /\ fetching' \subseteq fetching \cup {q} /\ missed' \subseteq missed \cup {q}
      BY <2>3, FetchBeginsDoes, FetchEndsDoes
    <3>2. q # r
      BY <1>2, <3>1
    <3> QED
      BY <1>2, <3>1, <3>2
  <2>4. ASSUME taps' \subseteq taps, UNCHANGED <<fetching, missed>> PROVE Apart
    BY <1>2, <2>4
  <2>5. ASSUME NEW q \in Starts, Start(q) \/ OpenFails(q) \/ DomAnswers(q) \/ LogWriteFails(q)
                                 \/ LogClosed(q)
        PROVE  Apart
    BY <2>4, <2>5, StartDoes, OpenFailsDoes, DomAnswersDoes, LogWriteFailsDoes, LogClosedDoes
  <2>6. ASSUME NEW c \in Starts \cup {Teardown},
               AbortIdle(c) \/ Abort(c) \/ AbortLog(c) \/ AbortUnlink(c)
        PROVE  Apart
    BY <2>4, <2>6, AbortIdleDoes, AbortDoes, AbortLogDoes, AbortUnlinkDoes
  <2>7. ASSUME NEW e \in Ends, EndRefused(e) \/ End(e) \/ EndLog(e) \/ EndStats(e) \/ Pack(e)
        PROVE  Apart
    BY <2>4, <2>7, EndRefusedDoes, EndDoes, EndLogDoes, EndStatsDoes, PackDoes
  <2>8. CASE BeginTeardown
    BY <2>4, <2>8, TeardownDoes
  <2>9. CASE UNCHANGED recordVars
    BY <2>4, <2>9, StutterDoes
  <2> QED
    BY <2>1, <2>2, <2>3, <2>5, <2>6, <2>7, <2>8, <2>9 DEF RecordNext
<1> QED
  BY <1>2, <1>3, <1>4, <1>5, <1>6 DEF Whole, r

\* What is packed while the session is open is whole.
LEMMA PackedWhole ==
  ASSUME RecordTypeOK, OneStart, OpenSound, NEW e \in Ends, Pack(e), SessionIsOpen,
         NEW a, a = [of |-> held[e], whole |-> log[held[e]] = "closed", open |-> SessionIsOpen]
  PROVE  Whole(a)'
<1>1. WhileOpen /\ Ending(e) /\ At(e, "pack")
  BY PackDoes DEF OpenSound, Ending, At
<1>2. /\ current \in Starts /\ Silent /\ \A r \in Starts : Answered(r)
      /\ held[e] = current /\ log[current] = "closed" /\ fetching = {} /\ current \notin failed
  BY <1>1, EndRuns DEF EndAt
<1>3. missed = {}
  BY <1>1 DEF WhileOpen, FetchSound
<1>4. UNCHANGED <<taps, fetching, missed, log, failed>>
  BY PackDoes
<1>5. a.of = current /\ a.whole
  BY <1>2
<1>6. Answered(a.of)'
  <2>1. Moves(e, "ok") \/ Moves(e, "failed")
    BY PackDoes
  <2>2. pc'[a.of] = pc[a.of]
    BY <1>2, <1>5, <2>1, Kinds DEF Moves
  <2>3. Answered(a.of)
    BY <1>2, <1>5
  <2> QED
    BY <2>2, <2>3 DEF Answered
<1>7. /\ a.whole /\ log'[a.of] = "closed" /\ a.of \notin failed' /\ a.of \notin missed'
      /\ a.of \notin taps' /\ a.of \notin fetching'
  BY <1>2, <1>3, <1>4, <1>5 DEF Silent
<1> QED
  BY <1>6, <1>7 DEF Whole

LEMMA PackedStep ==
  ASSUME RecordInv, [RecordNext]_recordVars
  PROVE  PackedSound'
<1> SUFFICES ASSUME NEW a \in artifacts', a.open PROVE Whole(a)'
  BY DEF PackedSound
<1>1. CASE a \in artifacts
  BY <1>1, WholeStays DEF RecordInv, PackedSound
<1>2. CASE a \notin artifacts
  <2>1. PICK e \in Ends : Pack(e)
    <3>1. ~ UNCHANGED artifacts
      BY <1>2
    <3>2. ASSUME NEW q \in Starts, Start(q) \/ OpenFails(q) \/ Opened(q) \/ AttachFails(q)
                                   \/ DomAnswers(q) \/ NetAnswers(q)
          PROVE  UNCHANGED artifacts
      BY <3>2, StartDoes, OpenFailsDoes, OpenedDoes, AttachFailsDoes, PublishDoes, DomAnswersDoes,
         NetAnswersDoes DEF RecordInv
    <3>3. ASSUME NEW q \in Starts,
                 FetchBegins(q) \/ FetchEnds(q) \/ LogWriteFails(q) \/ LogClosed(q)
          PROVE  UNCHANGED artifacts
      BY <3>3, FetchBeginsDoes, FetchEndsDoes, LogWriteFailsDoes, LogClosedDoes DEF RecordInv
    <3>4. ASSUME NEW c \in Starts \cup {Teardown},
                 AbortIdle(c) \/ Abort(c) \/ AbortLog(c) \/ AbortUnlink(c)
          PROVE  UNCHANGED artifacts
      BY <3>4, AbortIdleDoes, AbortDoes, AbortLogDoes, AbortUnlinkDoes DEF RecordInv
    <3>5. ASSUME NEW e \in Ends, EndRefused(e) \/ End(e) \/ EndLog(e) \/ EndStats(e)
          PROVE  UNCHANGED artifacts
      BY <3>5, EndRefusedDoes, EndDoes, EndLogDoes, EndStatsDoes DEF RecordInv
    <3>6. BeginTeardown \/ UNCHANGED recordVars => UNCHANGED artifacts
      BY TeardownDoes, StutterDoes DEF RecordInv
    <3> QED
      BY <3>1, <3>2, <3>3, <3>4, <3>5, <3>6 DEF RecordNext
  <2>2. a = [of |-> held[e], whole |-> log[held[e]] = "closed", open |-> SessionIsOpen]
    BY <1>2, <2>1, PackDoes DEF RecordInv
  <2>3. SessionIsOpen
    BY <2>2
  <2> QED
    BY <2>1, <2>2, <2>3, PackedWhole DEF RecordInv
<1> QED
  BY <1>1, <1>2

LEMMA OpenStep ==
  ASSUME Overlaps \subseteq {"close"}, RecordInv, [RecordNext]_recordVars
  PROVE  OpenSound'
<1> SUFFICES ASSUME SessionIsOpen' PROVE WhileOpen'
  BY DEF OpenSound
<1> USE DEF RecordInv
<1>1. WhileOpen
  BY OpenSteps DEF OpenSound
<1>2. OneEnd' /\ TapsSound' /\ FetchSound' /\ LogsSound'
  BY <1>1, OneEndStep, TapsStep, FetchStep, LogsStep
<1>3. \A r \in Starts : StartAt(r)'
  BY <1>1, StartAtStep
<1>4. \A e \in Ends : EndAt(e)'
  BY <1>1, EndAtStep
<1> QED
  BY <1>2, <1>3, <1>4 DEF WhileOpen, StepsSound

LEMMA RecordInvInit == RecordInit => RecordInv
<1> SUFFICES ASSUME RecordInit PROVE RecordInv
  OBVIOUS
<1>1. RecordTypeOK
  BY TypesInit
<1>2. \A c \in Calls : pc[c] = "idle" /\ held[c] = None
  BY DEF RecordInit
<1>3. \A r \in Starts : pc[r] = "idle" /\ log[r] = "none" /\ r # None /\ r \in Calls
  BY <1>2, Kinds DEF RecordInit
<1>4. /\ current = None /\ dom = None /\ tracked = None /\ ~ closed
      /\ subs = {} /\ taps = {} /\ doms = {} /\ fetching = {} /\ missed = {}
      /\ failed = {} /\ jsonl = {} /\ artifacts = {}
  BY DEF RecordInit
<1>5. HeldSound /\ OneStart /\ OwnSound /\ PackedSound
  BY <1>3, <1>4 DEF HeldSound, OneStart, OwnSound, PackedSound, At, Answered
<1>6. NewSound
  BY <1>2, <1>3, <1>4, Kinds DEF NewSound, New, Traceless
<1>7. TapsSound /\ FetchSound /\ LogsSound
  BY <1>3, <1>4 DEF TapsSound, FetchSound, LogsSound
<1>8. StepsSound /\ OneEnd
  BY <1>2, <1>3, Kinds DEF StepsSound, StartAt, EndAt, At, OneEnd, Ending
<1> QED
  BY <1>1, <1>5, <1>6, <1>7, <1>8 DEF RecordInv, OpenSound, WhileOpen

LEMMA RecordInvStep ==
  ASSUME Overlaps \subseteq {"close"}, RecordInv, [RecordNext]_recordVars
  PROVE  RecordInv'
<1> USE DEF RecordInv
<1>1. RecordTypeOK' /\ HeldSound' /\ OneStart'
  BY TypesStep, HeldStep, OneStartStep
<1>2. NewSound'
  <2>1. \A r \in Starts : New(r)'
    BY NewStep
  <2>2. \A r \in Starts : log'[r] = "none" => Traceless(r)'
    BY TracelessStep
  <2> QED
    BY <2>1, <2>2 DEF NewSound
<1>3. OwnSound'
  BY OwnStep DEF OwnSound
<1>4. OpenSound' /\ PackedSound'
  BY OpenStep, PackedStep
<1> QED
  BY <1>1, <1>2, <1>3, <1>4

-----------------------------------------------------------------------------
(* Once the session is being closed.                                         *)

\* A start whose sources are still being attached then is one the teardown saw.
Attaching(r) == pc[r] \in {"opening", "dom", "net"}
RacedSound == ~ SessionIsOpen => \A r \in Starts : Attaching(r) => r \in raced

\* No recording is current while a log is being opened.
OpeningSound == \A r \in Starts : At(r, "opening") => current = None

\* A recording the teardown did not race is heard only while it is current and
\* its log open, by sources that the next to detach finds, and while nobody is
\* on the way to shut a log.
RollsBack(c) == pc[c] \in {"abort dom", "abort log", "abort past"}
NobodyShuts  == /\ \A c \in Starts \cup {Teardown} : ~ RollsBack(c)
                /\ \A e \in Ends : ~ Ending(e)
Heard(r)  == r \in taps \cup doms
LateAt(r) == /\ r \in taps => r \in subs
             /\ r \in doms => dom = r
             /\ Heard(r) => current = r /\ log[r] = "open" /\ NobodyShuts
LateSound == \A r \in Starts \ raced : LateAt(r)
LateInv == RacedSound /\ OpeningSound /\ LateSound

\* While the session is open that much holds of every recording.
LEMMA OpenIsLate ==
  ASSUME RecordTypeOK, OpenSound, SessionIsOpen, NEW r \in Starts
  PROVE  LateAt(r)
<1>1. OneEnd /\ TapsSound /\ LogsSound /\ \A q \in Starts : StartAt(q)
  BY DEF OpenSound, WhileOpen, StepsSound
<1>2. /\ r \in taps => r \in subs
      /\ r \in doms => dom = r
      /\ Heard(r) => current = r /\ ~ closed
  BY <1>1 DEF TapsSound, Heard
<1>3. ASSUME Heard(r) PROVE log[r] = "open"
  BY <1>1, <1>2, <1>3, Kinds DEF LogsSound
<1>4. ASSUME Heard(r) PROVE NobodyShuts
  <2>1. ~ closed
    BY <1>2, <1>4
  <2>2. \A e \in Ends : ~ Ending(e)
    BY <1>1, <2>1 DEF OneEnd
  <2>3. \A c \in Starts : ~ RollsBack(c)
    BY <1>1, <2>1 DEF StartAt, At, RollsBack
  <2>4. ~ RollsBack(Teardown)
    BY DEF SessionIsOpen, At, RollsBack
  <2> QED
    BY <2>2, <2>3, <2>4 DEF NobodyShuts
<1> QED
  BY <1>2, <1>3, <1>4 DEF LateAt

LEMMA OpeningStep ==
  ASSUME RecordTypeOK, OneStart, OpeningSound, [RecordNext]_recordVars
  PROVE  OpeningSound'
<1> USE DEF At
<1> SUFFICES ASSUME NEW r \in Starts, pc'[r] = "opening" PROVE current' = None
  BY DEF OpeningSound
<1>0. r \in Calls /\ r # Teardown /\ r \notin Ends
  BY Kinds
<1>1. ASSUME pc'[r] = pc[r], current' \in {current, None} PROVE current' = None
  BY <1>1 DEF OpeningSound
<1>2. ASSUME NEW q \in Starts, Start(q) PROVE current' = None
  <2>1. /\ Moves(q, "refused") \/ (current = None /\ Moves(q, "opening"))
        /\ UNCHANGED current
    BY <1>2, StartDoes
  <2> QED
    BY <1>0, <1>1, <2>1 DEF Moves
<1>3. ASSUME NEW q \in Starts, Opened(q) \/ AttachFails(q) PROVE current' = None
  <2>1. /\ pc[q] = "opening"
        /\ Moves(q, "ok") \/ Moves(q, "dom") \/ Moves(q, "abort")
    BY <1>3, OpenedDoes, AttachFailsDoes, PublishDoes
  <2>2. q # r
    BY <2>1 DEF Moves
  <2>3. pc[r] = "opening"
    BY <1>0, <2>1, <2>2 DEF Moves
  <2> QED
    BY <2>1, <2>2, <2>3 DEF OneStart, Answered
<1>4. ASSUME NEW q \in Starts, OpenFails(q) \/ DomAnswers(q) \/ NetAnswers(q)
      PROVE  current' = None
  <2>1. /\ Moves(q, "failed") \/ Moves(q, "ok") \/ Moves(q, "net")
        /\ UNCHANGED current
    BY <1>4, OpenFailsDoes, DomAnswersDoes, NetAnswersDoes
  <2> QED
    BY <1>0, <1>1, <2>1 DEF Moves
<1>5. ASSUME NEW q \in Starts, FetchBegins(q) \/ FetchEnds(q) \/ LogWriteFails(q) \/ LogClosed(q)
      PROVE  current' = None
  BY <1>1, <1>5, FetchBeginsDoes, FetchEndsDoes, LogWriteFailsDoes, LogClosedDoes
<1>6. ASSUME NEW c \in Starts \cup {Teardown},
             AbortIdle(c) \/ Abort(c) \/ AbortLog(c) \/ AbortUnlink(c)
      PROVE  current' = None
  <2>1. /\ current' \in {current, None}
        /\ \/ Moves(c, "failed") \/ Moves(c, "aborted") \/ Moves(c, "abort dom")
           \/ Moves(c, "abort log") \/ Moves(c, "abort past")
    BY <1>6, AbortIdleDoes, AbortDoes, AbortLogDoes, AbortUnlinkDoes, AbortEndsDoes
  <2> QED
    BY <1>0, <1>1, <2>1 DEF Moves
<1>7. ASSUME NEW e \in Ends, EndRefused(e) \/ End(e) \/ EndLog(e) \/ EndStats(e) \/ Pack(e)
      PROVE  current' = None
  <2>1. current' \in {current, None} /\ \E s : Moves(e, s)
    BY <1>7, EndRefusedDoes, EndDoes, EndLogDoes, EndStatsDoes, PackDoes
  <2> QED
    BY <1>0, <1>1, <2>1 DEF Moves
<1>8. CASE BeginTeardown
  BY <1>0, <1>1, <1>8, TeardownDoes DEF Moves
<1>9. CASE UNCHANGED recordVars
  BY <1>1, <1>9, StutterDoes
<1> QED
  BY <1>2, <1>3, <1>4, <1>5, <1>6, <1>7, <1>8, <1>9 DEF RecordNext

\* Only the beginning of the teardown closes an open session.
LEMMA OnlyTeardown ==
  ASSUME RecordTypeOK, [RecordNext]_recordVars, SessionIsOpen, ~ SessionIsOpen'
  PROVE  BeginTeardown
<1> USE DEF SessionIsOpen, At
<1>1. ASSUME NEW c \in Starts \cup Ends, NEW s, Moves(c, s) PROVE FALSE
  BY <1>1, Kinds DEF Moves
<1>2. ASSUME NEW r \in Starts, Start(r) \/ OpenFails(r) \/ Opened(r) \/ AttachFails(r)
                               \/ DomAnswers(r) \/ NetAnswers(r)
      PROVE  FALSE
  BY <1>1, <1>2, StartDoes, OpenFailsDoes, OpenedDoes, AttachFailsDoes, DomAnswersDoes,
     NetAnswersDoes
<1>3. ASSUME NEW r \in Starts, FetchBegins(r) \/ FetchEnds(r) \/ LogWriteFails(r) \/ LogClosed(r)
      PROVE  FALSE
  BY <1>3, FetchBeginsDoes, FetchEndsDoes, LogWriteFailsDoes, LogClosedDoes
<1>4. ASSUME NEW c \in Starts \cup {Teardown},
             AbortIdle(c) \/ Abort(c) \/ AbortLog(c) \/ AbortUnlink(c)
      PROVE  FALSE
  <2>1. pc[c] # "idle" /\ \E s : Moves(c, s)
    BY <1>4, AbortIdleDoes, AbortDoes, AbortLogDoes, AbortUnlinkDoes, AbortEndsDoes
  <2> QED
    BY <1>1, <2>1
<1>5. ASSUME NEW e \in Ends, EndRefused(e) \/ End(e) \/ EndLog(e) \/ EndStats(e) \/ Pack(e)
      PROVE  FALSE
  BY <1>1, <1>5, EndRefusedDoes, EndDoes, EndLogDoes, EndStatsDoes, PackDoes
<1>6. CASE UNCHANGED recordVars
  BY <1>6, StutterDoes
<1> QED
  BY <1>2, <1>3, <1>4, <1>5, <1>6 DEF RecordNext

LEMMA RacedStep ==
  ASSUME RecordTypeOK, RacedSound, [RecordNext]_recordVars
  PROVE  RacedSound'
<1> SUFFICES ASSUME ~ SessionIsOpen', NEW r \in Starts, Attaching(r)' PROVE r \in raced'
  BY DEF RacedSound
<1>0. r \in Calls /\ r # Teardown /\ r \notin Ends
  BY Kinds
<1>1. CASE BeginTeardown
  <2>1. Attaching(r)
    BY <1>0, <1>1, TeardownDoes DEF Moves, Attaching
  <2> QED
    BY <1>1, <2>1 DEF BeginTeardown, Attaching
<1>2. CASE ~ BeginTeardown
  <2>1. raced' = raced /\ ~ SessionIsOpen
    BY <1>2, RacedSteps, OnlyTeardown
  <2>2. ASSUME NEW c \in Calls, NEW s, Moves(c, s), c = r => Attaching(c) \/ s \notin {"opening", "dom", "net"}
        PROVE  Attaching(r)
    BY <1>0, <2>2 DEF Moves, Attaching
  <2>3. ASSUME NEW q \in Starts, Start(q) \/ OpenFails(q) \/ Opened(q) \/ AttachFails(q)
                                 \/ DomAnswers(q) \/ NetAnswers(q)
        PROVE  Attaching(r)
    <3>1. Attaching(q) /\ \E s : Moves(q, s)
      BY <2>1, <2>3, StartDoes, OpenFailsDoes, OpenedDoes, AttachFailsDoes, PublishDoes,
         DomAnswersDoes, NetAnswersDoes DEF Attaching, At
    <3> QED
      BY <2>2, <3>1, Kinds
  <2>4. ASSUME UNCHANGED pc PROVE Attaching(r)
    BY <2>4 DEF Attaching
  <2>5. ASSUME NEW q \in Starts,
               FetchBegins(q) \/ FetchEnds(q) \/ LogWriteFails(q) \/ LogClosed(q)
        PROVE  Attaching(r)
    BY <2>4, <2>5, FetchBeginsDoes, FetchEndsDoes, LogWriteFailsDoes, LogClosedDoes
  <2>6. ASSUME NEW c \in Starts \cup {Teardown},
               AbortIdle(c) \/ Abort(c) \/ AbortLog(c) \/ AbortUnlink(c)
        PROVE  Attaching(r)
    <3>1. \/ Moves(c, "failed") \/ Moves(c, "aborted") \/ Moves(c, "abort dom")
          \/ Moves(c, "abort log") \/ Moves(c, "abort past")
      BY <2>6, AbortIdleDoes, AbortDoes, AbortLogDoes, AbortUnlinkDoes, AbortEndsDoes
    <3>2. c \in Calls
      BY Kinds
    <3> QED
      BY <2>2, <3>1, <3>2
  <2>7. ASSUME NEW e \in Ends, EndRefused(e) \/ End(e) \/ EndLog(e) \/ EndStats(e) \/ Pack(e)
        PROVE  Attaching(r)
    <3>1. \E s : Moves(e, s)
      BY <2>7, EndRefusedDoes, EndDoes, EndLogDoes, EndStatsDoes, PackDoes
    <3> QED
      BY <1>0, <2>2, <3>1, Kinds
  <2>8. UNCHANGED recordVars => Attaching(r)
    BY <2>4, StutterDoes
  <2>9. Attaching(r)
    BY <1>2, <2>3, <2>5, <2>6, <2>7, <2>8 DEF RecordNext
  <2> QED
    BY <2>1, <2>9 DEF RacedSound
<1> QED
  BY <1>1, <1>2

\* After the close began nobody new is heard but those it raced, and whoever is
\* on the way to shut a log has silenced the others.
LEMMA LateStep ==
  ASSUME Overlaps \subseteq {"close"}, RecordInv, LateInv, [RecordNext]_recordVars,
         NEW r \in Starts, r \notin raced, ~ SessionIsOpen
  PROVE  LateAt(r)'
<1>0. RecordTypeOK /\ r \in Calls /\ r # None /\ r # Teardown /\ r \notin Ends /\ LateAt(r)
  BY Kinds DEF RecordInv, LateInv, LateSound
<1> USE DEF At
<1>1. ASSUME ~ Heard(r)' PROVE LateAt(r)'
  BY <1>1 DEF LateAt, Heard
<1>2. ASSUME taps' = taps, subs' = subs, doms' = doms, dom' = dom, current' = current,
             log'[r] = log[r] \/ log[r] # "open",
             \A c \in Starts \cup {Teardown} : RollsBack(c)' => RollsBack(c),
             \A e \in Ends : Ending(e)' => Ending(e)
      PROVE  LateAt(r)'
  BY <1>0, <1>2 DEF LateAt, Heard, NobodyShuts
<1>3. ASSUME NEW c \in Starts \cup {Teardown}, NEW s, Moves(c, s),
             s \notin {"abort dom", "abort log", "abort past"}
      PROVE  /\ \A d \in Starts \cup {Teardown} : RollsBack(d)' => RollsBack(d)
             /\ \A e \in Ends : Ending(e)' => Ending(e)
  BY <1>3, Kinds DEF Moves, RollsBack, Ending
<1>4. ASSUME NEW q \in Starts, OpenFails(q) PROVE LateAt(r)'
  BY <1>0, <1>2, <1>3, <1>4, OpenFailsDoes
<1>5. ASSUME NEW q \in Starts, Opened(q) \/ AttachFails(q) PROVE LateAt(r)'
  <2>1. /\ pc[q] = "opening" /\ UNCHANGED doms /\ taps' \subseteq taps \cup {q}
    BY <1>0, <1>5, OpenedDoes, AttachFailsDoes, PublishDoes
  <2>2. current = None /\ q \in raced
    BY <2>1 DEF LateInv, OpeningSound, RacedSound, Attaching
  <2>3. ~ Heard(r)
    BY <1>0, <2>2 DEF LateAt
  <2> QED
    BY <1>1, <2>1, <2>2, <2>3 DEF Heard
<1>6. ASSUME NEW q \in Starts, DomAnswers(q) PROVE LateAt(r)'
  <2>1. /\ pc[q] = "dom" /\ UNCHANGED taps /\ doms' \subseteq doms \cup {q}
    BY <1>0, <1>6, DomAnswersDoes
  <2>2. (current = None \/ current = q) /\ q \in raced
    BY <2>1 DEF LateInv, RacedSound, Attaching, RecordInv, OwnSound
  <2>3. ~ Heard(r)
    BY <1>0, <2>2 DEF LateAt
  <2> QED
    BY <1>1, <2>1, <2>2, <2>3 DEF Heard
<1>7. ASSUME NEW q \in Starts, NetAnswers(q) PROVE LateAt(r)'
  <2>1. /\ pc[q] = "net" /\ Moves(q, "ok")
        /\ \/ taps' = taps \cup {held[q]} /\ subs' = subs \cup {held[q]}
           \/ UNCHANGED <<taps, subs>>
        /\ UNCHANGED <<doms, dom, current, log>>
    BY <1>0, <1>7, NetAnswersDoes
  <2>2. held[q] = q /\ q \in raced
    BY <2>1 DEF LateInv, RacedSound, Attaching, RecordInv, OwnSound
  <2>3. (r \in taps' <=> r \in taps) /\ (r \in subs' <=> r \in subs)
    BY <2>1, <2>2
  <2>4. NobodyShuts => NobodyShuts'
    BY <1>3, <2>1 DEF NobodyShuts
  <2> QED
    BY <1>0, <2>1, <2>3, <2>4 DEF LateAt, Heard
<1>8. ASSUME NEW q \in Starts, FetchBegins(q) \/ FetchEnds(q) \/ LogWriteFails(q)
      PROVE  LateAt(r)'
  <2>1. UNCHANGED <<taps, subs, doms, dom, current, log, pc>>
    BY <1>8, FetchBeginsDoes, FetchEndsDoes, LogWriteFailsDoes
  <2> QED
    BY <1>2, <2>1 DEF RollsBack, Ending
<1>9. ASSUME NEW q \in Starts, LogClosed(q) PROVE LateAt(r)'
  <2>1. UNCHANGED <<taps, subs, doms, dom, current, pc>> /\ log[q] = "closing" /\ Turns(q, "closed")
    BY <1>0, <1>9, LogClosedDoes
  <2>2. log'[r] = log[r] \/ log[r] # "open"
    BY <2>1 DEF Turns
  <2> QED
    BY <1>2, <2>1, <2>2 DEF RollsBack, Ending
<1>10. ASSUME NEW c \in Starts \cup {Teardown}, AbortIdle(c) PROVE LateAt(r)'
  <2>1. /\ Moves(c, "failed") \/ Moves(c, "aborted")
        /\ UNCHANGED <<taps, subs, doms, dom, current, log>>
    BY <1>0, <1>10, AbortIdleDoes, AbortEndsDoes
  <2> QED
    BY <1>2, <1>3, <2>1
<1>11. ASSUME NEW c \in Starts \cup {Teardown}, Abort(c) PROVE LateAt(r)'
  <2>1. taps' = taps \ subs /\ doms' = doms \ {dom}
    BY <1>0, <1>11, AbortDoes
  <2> QED
    BY <1>0, <1>1, <2>1 DEF LateAt, Heard
<1>12. ASSUME NEW c \in Starts \cup {Teardown}, AbortLog(c) \/ AbortUnlink(c) PROVE LateAt(r)'
  <2>1. RollsBack(c) /\ UNCHANGED <<taps, doms>>
    BY <1>0, <1>12, AbortLogDoes, AbortUnlinkDoes DEF RollsBack
  <2> QED
    BY <1>0, <1>1, <2>1 DEF LateAt, Heard, NobodyShuts
<1>13. ASSUME NEW e \in Ends, EndLog(e) \/ EndStats(e) \/ Pack(e) PROVE LateAt(r)'
  <2>1. Ending(e) /\ UNCHANGED <<taps, doms>>
    BY <1>0, <1>13, EndLogDoes, EndStatsDoes, PackDoes DEF Ending
  <2> QED
    BY <1>0, <1>1, <2>1 DEF LateAt, Heard, NobodyShuts
<1>14. CASE UNCHANGED recordVars
  BY <1>2, <1>14, StutterDoes DEF RollsBack, Ending
<1>15. (\A q \in Starts : ~ Start(q)) /\ (\A e \in Ends : ~ EndRefused(e) /\ ~ End(e)) /\ ~ BeginTeardown
  BY <1>0, StartDoes, EndDoes, TeardownDoes DEF EndRefused
<1> QED
  BY <1>4, <1>5, <1>6, <1>7, <1>8, <1>9, <1>10, <1>11, <1>12, <1>13, <1>14, <1>15 DEF RecordNext

LEMMA LateInvInit == RecordInit => LateInv
BY Kinds DEF RecordInit, LateInv, RacedSound, OpeningSound, SessionIsOpen, At, LateSound, LateAt,
   Heard

LEMMA LateInvStep ==
  ASSUME Overlaps \subseteq {"close"}, RecordInv, LateInv, [RecordNext]_recordVars
  PROVE  LateInv'
<1>1. RecordInv'
  BY RecordInvStep
<1>2. RacedSound' /\ OpeningSound'
  BY RacedStep, OpeningStep DEF RecordInv, LateInv
<1>3. ASSUME NEW r \in Starts, r \notin raced' PROVE LateAt(r)'
  <2>1. CASE SessionIsOpen'
    BY <1>1, <2>1, OpenIsLate, PTL DEF RecordInv
  <2>2. CASE BeginTeardown
    <3>1. LateAt(r)
      BY <2>2, TeardownDoes, OpenIsLate DEF RecordInv
    <3>2. /\ Moves(Teardown, "abort")
          /\ UNCHANGED <<taps, subs, doms, dom, current, log>>
      BY <2>2, TeardownDoes DEF RecordInv
    <3>3. NobodyShuts => NobodyShuts'
      BY <3>2, Kinds DEF NobodyShuts, Moves, RollsBack, Ending
    <3> QED
      BY <3>1, <3>2, <3>3 DEF LateAt, Heard
  <2>3. CASE ~ SessionIsOpen' /\ ~ BeginTeardown
    <3>1. raced' = raced
      BY <2>3, RacedSteps
    <3>2. ~ SessionIsOpen
      BY <2>3, OnlyTeardown DEF RecordInv
    <3> QED
      BY <1>3, <3>1, <3>2, LateStep
  <2> QED
    BY <2>1, <2>2, <2>3
<1> QED
  BY <1>2, <1>3 DEF LateInv, LateSound

-----------------------------------------------------------------------------
(* The theorems.                                                             *)

\* Whichever calls overlap, the session and its recordings keep their types: in
\* particular what attachNetwork looked up before its await is a recording when
\* it is answered.
THEOREM RecordTypesHold == RecordSpec => []RecordTypeOK
<1> DEFINE I == RecordTypeOK /\ HeldSound
<1>1. RecordInit => I
  BY TypesInit DEF RecordInit, HeldSound, At, Calls
<1>2. I /\ [RecordNext]_recordVars => I'
  BY TypesStep, HeldStep
<1>3. I => RecordTypeOK
  OBVIOUS
<1> QED
  BY <1>1, <1>2, <1>3, PTL DEF RecordSpec

\* However starts, ends and one close of the session interleave, and on until the
\* session is gone: nothing that listens for a recording outlives its log, unless
\* its sources were still being attached when that close began.  What shuts a log
\* has detached first, and only while the session is open, or for such a start, is
\* anything attached anew.
THEOREM SourcesHold ==
  ASSUME Overlaps \subseteq {"close"}
  PROVE  RecordSpec => []SourcesFirst
<1>1. LateInv => SourcesFirst
  BY DEF LateInv, LateSound, LateAt, Heard, SourcesFirst
<1>2. RecordInit => RecordInv /\ LateInv
  BY RecordInvInit, LateInvInit
<1>3. RecordInv /\ LateInv /\ [RecordNext]_recordVars => (RecordInv /\ LateInv)'
  BY RecordInvStep, LateInvStep
<1> QED
  BY <1>1, <1>2, <1>3, PTL DEF RecordSpec

\* An artifact packed while the session is open is of a log that is closed, no
\* write of which failed, and lacks no response that was being fetched.
THEOREM ArtifactsHold ==
  ASSUME Overlaps \subseteq {"close"}
  PROVE  RecordSpec => []ArtifactsWhole
<1>1. RecordInv => ArtifactsWhole
  BY DEF RecordInv, PackedSound, Whole, ArtifactsWhole
<1> QED
  BY <1>1, RecordInvInit, RecordInvStep, PTL DEF RecordSpec

-----------------------------------------------------------------------------
(* What is left on disk.                                                     *)

\* Unless a session can be closed while a start opens its log: what is on disk
\* belongs to the recording of now, or to the one a call that got past the
\* closing of the log is about to remove; a log that is being closed is awaited.
Past(c)   == pc[c] \in {"abort log", "abort past", "end log", "end past", "pack"}
EndsSound == \A e \in Ends : pc[e] \notin {"abort log", "abort past"}
DiskSound == /\ jsonl \subseteq {current}
             /\ \A c \in Calls : pc[c] \in {"abort log", "abort past", "pack"} =>
                  jsonl \subseteq {held[c]}
OpenLogs  == \A r \in Starts : log[r] = "open" =>
               /\ r = current
               /\ \A c \in Calls : ~ Past(c)
Awaited   == \A r \in Starts : log[r] = "closing" =>
               \E c \in Calls : pc[c] \in {"abort log", "end log"} /\ held[c] = r
Opens     == \A r \in Starts : At(r, "opening") =>
               /\ current = None /\ SessionIsOpen
               /\ \A c \in Calls : ~ Past(c)
GoneSound == /\ gone => current = None /\ ~ SessionIsOpen
             /\ At(Teardown, "aborted") => gone
PlainSound == EndsSound /\ DiskSound /\ OpenLogs /\ Awaited /\ Opens /\ GoneSound

LEMMA PlainInit == RecordInit => PlainSound
<1> SUFFICES ASSUME RecordInit PROVE PlainSound
  OBVIOUS
<1>1. \A c \in Calls : pc[c] = "idle" /\ held[c] = None
  BY DEF RecordInit
<1>2. \A r \in Starts : pc[r] = "idle" /\ log[r] = "none"
  BY <1>1, Kinds DEF RecordInit
<1>3. EndsSound /\ DiskSound /\ OpenLogs /\ Awaited
  BY <1>1, <1>2, Kinds DEF RecordInit, EndsSound, DiskSound, OpenLogs, Awaited
<1>4. Opens /\ GoneSound
  BY <1>1, <1>2, Kinds DEF RecordInit, Opens, GoneSound, At
<1> QED
  BY <1>3, <1>4 DEF PlainSound

\* A recording in the way of a start: nobody is past the closing of a log then,
\* nothing is on disk and no log is open or being closed.
LEMMA Clear ==
  ASSUME RecordInv, PlainSound, NEW r \in Starts, At(r, "opening")
  PROVE  /\ current = None /\ SessionIsOpen /\ jsonl = {} /\ ~ gone
         /\ \A c \in Calls : ~ Past(c)
         /\ \A q \in Starts : log[q] \notin {"open", "closing"}
<1>1. current = None /\ SessionIsOpen /\ \A c \in Calls : ~ Past(c)
  BY DEF PlainSound, Opens
<1>2. jsonl = {}
  BY <1>1, Kinds DEF PlainSound, DiskSound, RecordInv, RecordTypeOK
<1>3. \A q \in Starts : log[q] # "open"
  BY <1>1, Kinds DEF PlainSound, OpenLogs
<1>4. \A q \in Starts : log[q] # "closing"
  BY <1>1 DEF PlainSound, Awaited, Past
<1>5. ~ gone
  BY <1>1 DEF PlainSound, GoneSound
<1> QED
  BY <1>1, <1>2, <1>3, <1>4, <1>5

\* A start finds its way only when nobody is past the closing of a log.
LEMMA StartClear ==
  ASSUME Overlaps = {}, RecordInv, PlainSound, NEW r \in Starts, Start(r), current = None, NEW c \in Calls
  PROVE  ~ Past(c)
<1>1. SessionIsOpen /\ At(r, "idle") /\ ~ Starting
  BY StartDoes DEF RecordInv
<1>2. CASE c \in Starts
  BY <1>1, <1>2 DEF Starting, Answered, Past
<1>3. CASE c \in Ends
  BY <1>1, <1>3 DEF RecordInv, OpenSound, WhileOpen, OneEnd, Past, Ending, PlainSound, EndsSound
<1>4. CASE c = Teardown
  BY <1>1, <1>4 DEF SessionIsOpen, At, Past
<1> QED
  BY <1>2, <1>3, <1>4 DEF Calls

LEMMA DiskStep ==
  ASSUME RecordInv, PlainSound, [RecordNext]_recordVars
  PROVE  DiskSound'
<1> USE DEF DiskSound
<1>1. RecordTypeOK /\ DiskSound
  BY DEF RecordInv, PlainSound
<1> DEFINE Holder(c) == pc[c] \in {"abort log", "abort past", "pack"}
\* Nothing joins what is on disk.
<1>2. ASSUME jsonl' \subseteq jsonl, UNCHANGED current, NEW c \in Calls, NEW s, Moves(c, s),
             UNCHANGED held \/ \E q : Holds(c, q),
             Holder(c)' => jsonl' \subseteq {held'[c]}
      PROVE  DiskSound'
  <2>1. ASSUME NEW d \in Calls, Holder(d)' PROVE jsonl' \subseteq {held'[d]}
    <3>1. CASE d = c
      BY <1>2, <2>1, <3>1
    <3>2. CASE d # c
      <4>1. Holder(d) /\ held'[d] = held[d]
        BY <1>2, <2>1, <3>2 DEF Moves, Holds
      <4> QED
        BY <1>1, <1>2, <4>1
    <3> QED
      BY <3>1, <3>2
  <2> QED
    BY <1>1, <1>2, <2>1
<1>3. ASSUME jsonl' = {}, current' = None PROVE DiskSound'
  BY <1>3
<1>4. ASSUME UNCHANGED <<jsonl, current, pc, held>> PROVE DiskSound'
  BY <1>1, <1>4
<1>5. ASSUME NEW r \in Starts, Start(r) \/ OpenFails(r) \/ NetAnswers(r) PROVE DiskSound'
  <2>1. /\ Moves(r, "opening") \/ Moves(r, "refused") \/ Moves(r, "failed") \/ Moves(r, "ok")
        /\ UNCHANGED <<jsonl, current, held>>
    BY <1>1, <1>5, StartDoes, OpenFailsDoes, NetAnswersDoes
  <2>2. ~ Holder(r)'
    BY <2>1 DEF Moves
  <2> QED
    BY <1>2, <2>1, <2>2, Kinds
<1>6. ASSUME NEW r \in Starts, Opened(r) \/ AttachFails(r) PROVE DiskSound'
  <2>1. At(r, "opening") /\ current' = r /\ jsonl' = jsonl \cup {r}
    BY <1>1, <1>6, OpenedDoes, AttachFailsDoes, PublishDoes
  <2>2. jsonl' = {r} /\ \A c \in Calls : ~ Past(c)
    BY <2>1, Clear
  <2>3. Moves(r, "ok") \/ Moves(r, "dom") \/ Moves(r, "abort")
    BY <1>1, <1>6, OpenedDoes, AttachFailsDoes
  <2>4. \A c \in Calls : ~ Holder(c)'
    BY <2>2, <2>3 DEF Moves, Past
  <2> QED
    BY <2>1, <2>2, <2>4
<1>7. ASSUME NEW r \in Starts, DomAnswers(r) PROVE DiskSound'
  <2>1. /\ Moves(r, "ok") \/ Moves(r, "net")
        /\ UNCHANGED held \/ Holds(r, current)
        /\ UNCHANGED <<jsonl, current>>
    BY <1>1, <1>7, DomAnswersDoes
  <2>2. ~ Holder(r)'
    BY <2>1 DEF Moves
  <2> QED
    BY <1>2, <2>1, <2>2, Kinds
<1>8. ASSUME NEW r \in Starts, FetchBegins(r) \/ FetchEnds(r) \/ LogWriteFails(r) \/ LogClosed(r)
      PROVE  DiskSound'
  BY <1>1, <1>4, <1>8, FetchBeginsDoes, FetchEndsDoes, LogWriteFailsDoes, LogClosedDoes
<1>9. ASSUME NEW c \in Starts \cup {Teardown}, AbortIdle(c) \/ Abort(c) PROVE DiskSound'
  <2>1. /\ Moves(c, "failed") \/ Moves(c, "aborted") \/ Moves(c, "abort dom")
        /\ UNCHANGED <<jsonl, current, held>>
    BY <1>1, <1>9, AbortIdleDoes, AbortDoes, AbortEndsDoes
  <2>2. ~ Holder(c)'
    BY <2>1, Kinds DEF Moves
  <2> QED
    BY <1>2, <2>1, <2>2, Kinds
<1>10. ASSUME NEW c \in Starts \cup {Teardown}, AbortLog(c) PROVE DiskSound'
  <2>1. /\ Moves(c, "abort log") \/ Moves(c, "abort past")
        /\ Holds(c, current) /\ UNCHANGED <<jsonl, current>>
    BY <1>1, <1>10, AbortLogDoes
  <2>2. jsonl' \subseteq {held'[c]}
    BY <1>1, <2>1 DEF Holds
  <2> QED
    BY <1>2, <2>1, <2>2, Kinds
<1>11. ASSUME NEW c \in Starts \cup {Teardown}, AbortUnlink(c) PROVE DiskSound'
  <2>1. /\ Holder(c) /\ c \in Calls
        /\ jsonl' = jsonl \ {held[c]} /\ current' = None
    BY <1>1, <1>11, AbortUnlinkDoes, Kinds DEF At
  <2> QED
    BY <1>1, <1>3, <2>1
<1>12. ASSUME NEW e \in Ends, EndRefused(e) \/ End(e) PROVE DiskSound'
  <2>1. /\ Moves(e, "refused") \/ Moves(e, "end dom") \/ Moves(e, "ok")
        /\ UNCHANGED <<jsonl, current, held>>
    BY <1>1, <1>12, EndRefusedDoes, EndDoes
  <2>2. ~ Holder(e)'
    BY <2>1 DEF Moves
  <2> QED
    BY <1>2, <2>1, <2>2, Kinds
<1>13. ASSUME NEW e \in Ends, EndLog(e) PROVE DiskSound'
  <2>1. /\ Moves(e, "end log") \/ Moves(e, "end past") \/ Moves(e, "failed")
        /\ Holds(e, current) /\ UNCHANGED <<jsonl, current>>
    BY <1>1, <1>13, EndLogDoes
  <2>2. ~ Holder(e)'
    BY <2>1 DEF Moves
  <2> QED
    BY <1>2, <2>1, <2>2, Kinds
<1>14. ASSUME NEW e \in Ends, EndStats(e) PROVE DiskSound'
  <2>1. UNCHANGED <<jsonl, current>>
    BY <1>1, <1>14, EndStatsDoes
  <2>2. \/ Moves(e, "failed") /\ Holds(e, held[e])
        \/ Moves(e, "pack") /\ Holds(e, current)
    BY <1>1, <1>14, EndStatsDoes
  <2>3. Holder(e)' => jsonl' \subseteq {held'[e]}
    BY <1>1, <2>1, <2>2 DEF Moves, Holds
  <2> QED
    BY <1>2, <2>1, <2>2, <2>3, Kinds
<1>15. ASSUME NEW e \in Ends, Pack(e) PROVE DiskSound'
  <2>1. /\ Holder(e) /\ e \in Calls
        /\ jsonl' = jsonl \ {held[e]} /\ current' = None
    BY <1>1, <1>15, PackDoes, Kinds DEF At
  <2> QED
    BY <1>1, <1>3, <2>1
<1>16. CASE BeginTeardown
  <2>1. Moves(Teardown, "abort") /\ UNCHANGED <<jsonl, current, held>>
    BY <1>1, <1>16, TeardownDoes
  <2>2. ~ Holder(Teardown)'
    BY <2>1 DEF Moves
  <2> QED
    BY <1>2, <2>1, <2>2, Kinds
<1>17. CASE UNCHANGED recordVars
  BY <1>4, <1>17, StutterDoes
<1> QED
  BY <1>5, <1>6, <1>7, <1>8, <1>9, <1>10, <1>11, <1>12, <1>13, <1>14, <1>15, <1>16, <1>17
     DEF RecordNext

LEMMA EndsStep ==
  ASSUME RecordInv, PlainSound, [RecordNext]_recordVars, NEW e \in Ends
  PROVE  pc'[e] \notin {"abort log", "abort past"}
<1>1. RecordTypeOK /\ pc[e] \notin {"abort log", "abort past"} /\ e \in Calls
  BY Kinds DEF RecordInv, PlainSound, EndsSound
<1>2. ASSUME NEW c \in Starts \cup {Teardown}, NEW s, Moves(c, s)
      PROVE  pc'[e] \notin {"abort log", "abort past"}
  BY <1>1, <1>2, Kinds DEF Moves
<1>3. ASSUME NEW r \in Starts, Start(r) \/ OpenFails(r) \/ Opened(r) \/ AttachFails(r)
                               \/ DomAnswers(r) \/ NetAnswers(r)
      PROVE  \E s : Moves(r, s)
  BY <1>1, <1>3, StartDoes, OpenFailsDoes, OpenedDoes, AttachFailsDoes, DomAnswersDoes,
     NetAnswersDoes
<1>4. ASSUME NEW c \in Starts \cup {Teardown},
             AbortIdle(c) \/ Abort(c) \/ AbortLog(c) \/ AbortUnlink(c)
      PROVE  \E s : Moves(c, s)
  BY <1>1, <1>4, AbortIdleDoes, AbortDoes, AbortLogDoes, AbortUnlinkDoes, AbortEndsDoes
<1>5. BeginTeardown => \E s : Moves(Teardown, s)
  BY <1>1, TeardownDoes
<1>6. ASSUME NEW f \in Ends, EndRefused(f) \/ End(f) \/ EndLog(f) \/ EndStats(f) \/ Pack(f)
      PROVE  pc'[e] \notin {"abort log", "abort past"}
  <2>1. \/ Moves(f, "refused") \/ Moves(f, "end dom") \/ Moves(f, "ok") \/ Moves(f, "end log")
        \/ Moves(f, "end past") \/ Moves(f, "failed") \/ Moves(f, "pack")
    BY <1>1, <1>6, EndRefusedDoes, EndDoes, EndLogDoes, EndStatsDoes, PackDoes
  <2> QED
    BY <1>1, <2>1 DEF Moves
<1>7. ASSUME NEW r \in Starts, FetchBegins(r) \/ FetchEnds(r) \/ LogWriteFails(r) \/ LogClosed(r)
      PROVE  UNCHANGED pc
  BY <1>1, <1>7, FetchBeginsDoes, FetchEndsDoes, LogWriteFailsDoes, LogClosedDoes
<1>8. CASE UNCHANGED recordVars
  BY <1>1, <1>8, StutterDoes
<1> QED
  BY <1>1, <1>2, <1>3, <1>4, <1>5, <1>6, <1>7, <1>8 DEF RecordNext

\* A call that closes the log finds all starts answered, itself apart, or none
\* of them opening.
LEMMA NoneOpens ==
  ASSUME RecordInv, PlainSound, NEW c \in Calls,
         \/ c \in Starts /\ ~ Answered(c) /\ ~ At(c, "opening")
         \/ c \in Ends /\ Ending(c)
         \/ c = Teardown /\ ~ SessionIsOpen,
         NEW r \in Starts
  PROVE  ~ At(r, "opening")
<1>1. CASE c \in Starts /\ ~ Answered(c) /\ ~ At(c, "opening")
  BY <1>1 DEF RecordInv, OneStart, Answered, At
<1>2. CASE c \in Ends /\ Ending(c)
  <2>1. CASE SessionIsOpen
    BY <1>2, <2>1 DEF RecordInv, OpenSound, WhileOpen, OneEnd, Answered, At
  <2>2. CASE ~ SessionIsOpen
    BY <2>2 DEF PlainSound, Opens
  <2> QED
    BY <2>1, <2>2
<1>3. CASE c = Teardown /\ ~ SessionIsOpen
  BY <1>3 DEF PlainSound, Opens
<1> QED
  BY <1>1, <1>2, <1>3

LEMMA OpensStep ==
  ASSUME Overlaps = {}, RecordInv, PlainSound, [RecordNext]_recordVars,
         NEW r \in Starts, At(r, "opening")'
  PROVE  current' = None /\ SessionIsOpen' /\ \A c \in Calls : ~ Past(c)'
<1>1. RecordTypeOK /\ r \in Calls /\ r # Teardown /\ r \notin Ends
  BY Kinds DEF RecordInv
<1> USE DEF At
<1> DEFINE Way == current' = None /\ SessionIsOpen' /\ \A c \in Calls : ~ Past(c)'
\* Nobody gets past the closing of a log but one who closes it.
<1>2. ASSUME NEW q \in Starts, Start(q) PROVE Way
  <2>1. /\ SessionIsOpen /\ q \in Calls /\ q # Teardown
        /\ \/ current # None /\ Moves(q, "refused")
           \/ current = None /\ Moves(q, "opening")
        /\ UNCHANGED current
    BY <1>1, <1>2, StartDoes, Kinds
  <2>2. CASE current # None /\ Moves(q, "refused")
    <3>1. pc[r] = "opening"
      BY <1>1, <2>2 DEF Moves
    <3> QED
      BY <2>2, <3>1, Clear
  <2>3. CASE current = None /\ Moves(q, "opening")
    <3>1. \A c \in Calls : ~ Past(c)
      BY <1>2, <2>3, StartClear
    <3>2. \A c \in Calls : ~ Past(c)'
      BY <2>3, <3>1 DEF Moves, Past
    <3>3. SessionIsOpen'
      BY <2>1, <2>3, Kinds DEF Moves, SessionIsOpen
    <3> QED
      BY <2>1, <2>3, <3>2, <3>3
  <2> QED
    BY <2>1, <2>2, <2>3
<1>3. ASSUME pc[r] = "opening", UNCHANGED <<current, pc>> PROVE Way
  BY <1>3, Clear DEF SessionIsOpen, Past
<1>4. ASSUME pc[r] = "opening", UNCHANGED current, NEW c \in Calls, c # Teardown, NEW s, Moves(c, s),
             s \notin {"abort log", "abort past", "end log", "end past", "pack"}
      PROVE  Way
  <2>1. current = None /\ SessionIsOpen /\ \A d \in Calls : ~ Past(d)
    BY <1>4, Clear
  <2>2. \A d \in Calls : ~ Past(d)'
    BY <1>4, <2>1 DEF Moves, Past
  <2>3. SessionIsOpen'
    BY <1>4, <2>1, Kinds DEF Moves, SessionIsOpen
  <2> QED
    BY <1>4, <2>1, <2>2, <2>3
\* The start that opens is the only one that is not answered.
<1>5. ASSUME NEW q \in Starts, OpenFails(q) \/ Opened(q) \/ AttachFails(q) \/ DomAnswers(q)
                               \/ NetAnswers(q)
      PROVE  FALSE
  <2>1. /\ ~ Answered(q)
        /\ \/ Moves(q, "failed") \/ Moves(q, "ok") \/ Moves(q, "dom") \/ Moves(q, "abort")
           \/ Moves(q, "net")
    BY <1>1, <1>5, OpenFailsDoes, OpenedDoes, AttachFailsDoes, PublishDoes, DomAnswersDoes,
       NetAnswersDoes DEF Answered
  <2>2. q # r
    BY <2>1 DEF Moves
  <2>3. ~ Answered(r)
    BY <1>1, <2>1, <2>2 DEF Moves, Answered
  <2> QED
    BY <2>1, <2>2, <2>3 DEF RecordInv, OneStart
<1>6. ASSUME NEW c \in Starts \cup {Teardown},
             AbortIdle(c) \/ Abort(c) \/ AbortLog(c) \/ AbortUnlink(c)
      PROVE  FALSE
  <2>1. /\ pc[c] \in {"abort", "abort dom", "abort log", "abort past"}
        /\ \/ Moves(c, "failed") \/ Moves(c, "aborted") \/ Moves(c, "abort dom")
           \/ Moves(c, "abort log") \/ Moves(c, "abort past")
    BY <1>1, <1>6, AbortIdleDoes, AbortDoes, AbortLogDoes, AbortUnlinkDoes, AbortEndsDoes
  <2>2. c # r /\ pc[r] = "opening"
    BY <1>1, <2>1 DEF Moves
  <2> QED
    BY <2>1, <2>2, NoneOpens, Kinds DEF Answered, SessionIsOpen
<1>7. ASSUME NEW e \in Ends, EndLog(e) \/ EndStats(e) \/ Pack(e) PROVE FALSE
  <2>1. Ending(e) /\ \E s : Moves(e, s)
    BY <1>1, <1>7, EndLogDoes, EndStatsDoes, PackDoes DEF Ending
  <2>2. pc[r] = "opening"
    BY <1>1, <2>1 DEF Moves
  <2> QED
    BY <2>1, <2>2, NoneOpens, Kinds
<1>8. ASSUME NEW e \in Ends, EndRefused(e) \/ End(e) PROVE Way
  <2>1. /\ Moves(e, "refused") \/ Moves(e, "end dom") \/ Moves(e, "ok")
        /\ UNCHANGED current
    BY <1>1, <1>8, EndRefusedDoes, EndDoes
  <2>2. pc[r] = "opening"
    BY <1>1, <2>1 DEF Moves
  <2> QED
    BY <1>4, <2>1, <2>2, Kinds
<1>9. ASSUME NEW q \in Starts, FetchBegins(q) \/ FetchEnds(q) \/ LogWriteFails(q) \/ LogClosed(q)
      PROVE  Way
  BY <1>1, <1>3, <1>9, FetchBeginsDoes, FetchEndsDoes, LogWriteFailsDoes, LogClosedDoes
<1>10. CASE BeginTeardown
  <2>1. (\A q \in Starts : pc[q] # "opening") /\ Moves(Teardown, "abort")
    BY <1>1, <1>10, TeardownDoes
  <2> QED
    BY <1>1, <2>1 DEF Moves
<1>11. CASE UNCHANGED recordVars
  BY <1>3, <1>11, StutterDoes
<1> QED
  BY <1>2, <1>5, <1>6, <1>7, <1>8, <1>9, <1>10, <1>11 DEF RecordNext

LEMMA GoneStep ==
  ASSUME RecordInv, PlainSound, [RecordNext]_recordVars
  PROVE  GoneSound'
<1> USE DEF GoneSound, SessionIsOpen, At
<1>1. RecordTypeOK /\ GoneSound /\ Teardown \in Calls
  BY Kinds DEF RecordInv, PlainSound
<1>2. ASSUME NEW c \in Starts \cup Ends, NEW s, Moves(c, s), current' \in {current, None},
             UNCHANGED gone
      PROVE  GoneSound'
  BY <1>1, <1>2, Kinds DEF Moves
<1>3. ASSUME NEW r \in Starts, Opened(r) \/ AttachFails(r) PROVE GoneSound'
  <2>1. pc[r] = "opening" /\ UNCHANGED gone /\ \E s : Moves(r, s)
    BY <1>1, <1>3, OpenedDoes, AttachFailsDoes, PublishDoes
  <2>2. ~ gone /\ pc'[Teardown] = pc[Teardown]
    BY <2>1, Clear, Kinds DEF Moves
  <2> QED
    BY <1>1, <2>1, <2>2
<1>4. ASSUME NEW r \in Starts, Start(r) \/ OpenFails(r) \/ DomAnswers(r) \/ NetAnswers(r)
      PROVE  GoneSound'
  <2>1. UNCHANGED <<gone, current>> /\ \E s : Moves(r, s)
    BY <1>1, <1>4, StartDoes, OpenFailsDoes, DomAnswersDoes, NetAnswersDoes
  <2> QED
    BY <1>2, <2>1
<1>5. ASSUME NEW r \in Starts, FetchBegins(r) \/ FetchEnds(r) \/ LogWriteFails(r) \/ LogClosed(r)
      PROVE  GoneSound'
  BY <1>1, <1>5, FetchBeginsDoes, FetchEndsDoes, LogWriteFailsDoes, LogClosedDoes
<1>6. ASSUME NEW c \in Starts \cup {Teardown}, AbortIdle(c) \/ AbortUnlink(c) PROVE GoneSound'
  <2>1. current' = None
    BY <1>1, <1>6, AbortIdleDoes, AbortUnlinkDoes
  <2>2. \/ c = Teardown /\ Moves(c, "aborted") /\ gone'
        \/ c # Teardown /\ Moves(c, "failed") /\ gone' = gone
    BY <1>1, <1>6, AbortIdleDoes, AbortUnlinkDoes, AbortEndsDoes
  <2> QED
    BY <1>1, <2>1, <2>2, Kinds DEF Moves
<1>7. ASSUME NEW c \in Starts \cup {Teardown}, Abort(c) \/ AbortLog(c) PROVE GoneSound'
  <2>1. /\ pc[c] \in {"abort", "abort dom"}
        /\ Moves(c, "abort dom") \/ Moves(c, "abort log") \/ Moves(c, "abort past")
        /\ UNCHANGED <<gone, current>>
    BY <1>1, <1>7, AbortDoes, AbortLogDoes
  <2>2. CASE c = Teardown
    BY <1>1, <2>1, <2>2 DEF Moves
  <2>3. CASE c # Teardown
    BY <1>2, <2>1, <2>3
  <2> QED
    BY <2>2, <2>3
<1>8. ASSUME NEW e \in Ends, EndRefused(e) \/ End(e) \/ EndLog(e) \/ EndStats(e) \/ Pack(e)
      PROVE  GoneSound'
  <2>1. UNCHANGED gone /\ current' \in {current, None} /\ \E s : Moves(e, s)
    BY <1>1, <1>8, EndRefusedDoes, EndDoes, EndLogDoes, EndStatsDoes, PackDoes
  <2> QED
    BY <1>2, <2>1
<1>9. CASE BeginTeardown
  BY <1>1, <1>9, TeardownDoes DEF Moves
<1>10. CASE UNCHANGED recordVars
  BY <1>1, <1>10, StutterDoes
<1> QED
  BY <1>3, <1>4, <1>5, <1>6, <1>7, <1>8, <1>9, <1>10 DEF RecordNext

LEMMA OpenLogsStep ==
  ASSUME RecordInv, PlainSound, [RecordNext]_recordVars, NEW r \in Starts, log'[r] = "open"
  PROVE  r = current' /\ \A c \in Calls : ~ Past(c)'
<1> DEFINE Clean == r = current' /\ \A c \in Calls : ~ Past(c)'
<1> USE DEF At
<1>1. RecordTypeOK /\ r # None
  BY Kinds DEF RecordInv
<1>2. log[r] = "open" => r = current /\ \A c \in Calls : ~ Past(c)
  BY DEF PlainSound, OpenLogs
<1>3. ASSUME log[r] = "open", UNCHANGED current, NEW c \in Calls, NEW s, Moves(c, s),
             s \notin {"abort log", "abort past", "end log", "end past", "pack"}
      PROVE  Clean
  BY <1>2, <1>3 DEF Moves, Past
<1>4. ASSUME NEW q \in Starts, Opened(q) \/ AttachFails(q) PROVE Clean
  <2>1. pc[q] = "opening" /\ Turns(q, "open") /\ current' = q
    BY <1>1, <1>4, OpenedDoes, AttachFailsDoes, PublishDoes
  <2>2. (\A p \in Starts : log[p] # "open") /\ \A c \in Calls : ~ Past(c)
    BY <2>1, Clear
  <2>3. r = q
    BY <2>1, <2>2 DEF Turns
  <2>4. Moves(q, "ok") \/ Moves(q, "dom") \/ Moves(q, "abort")
    BY <1>1, <1>4, OpenedDoes, AttachFailsDoes
  <2>5. \A c \in Calls : ~ Past(c)'
    BY <2>2, <2>4 DEF Moves, Past
  <2> QED
    BY <2>1, <2>3, <2>5
<1>5. ASSUME NEW q \in Starts, Start(q) \/ OpenFails(q) \/ DomAnswers(q) \/ NetAnswers(q) PROVE Clean
  <2>1. /\ UNCHANGED <<current, log>>
        /\ \/ Moves(q, "opening") \/ Moves(q, "refused") \/ Moves(q, "failed") \/ Moves(q, "ok")
           \/ Moves(q, "net")
    BY <1>1, <1>5, StartDoes, OpenFailsDoes, DomAnswersDoes, NetAnswersDoes
  <2> QED
    BY <1>3, <2>1, Kinds
<1>6. ASSUME NEW q \in Starts, FetchBegins(q) \/ FetchEnds(q) \/ LogWriteFails(q) PROVE Clean
  <2>1. UNCHANGED <<current, log, pc>>
    BY <1>1, <1>6, FetchBeginsDoes, FetchEndsDoes, LogWriteFailsDoes
  <2> QED
    BY <1>2, <2>1 DEF Past
<1>7. ASSUME NEW q \in Starts, LogClosed(q) PROVE Clean
  <2>1. Turns(q, "closed") /\ UNCHANGED <<current, pc>>
    BY <1>1, <1>7, LogClosedDoes
  <2>2. log[r] = "open"
    BY <2>1 DEF Turns
  <2> QED
    BY <1>2, <2>1, <2>2 DEF Past
<1>8. ASSUME NEW c \in Starts \cup {Teardown}, AbortIdle(c) \/ AbortUnlink(c) PROVE Clean
  <2>1. UNCHANGED log /\ (current = None \/ Past(c)) /\ c \in Calls
    BY <1>1, <1>8, AbortIdleDoes, AbortUnlinkDoes, Kinds DEF Past
  <2> QED
    BY <1>1, <1>2, <2>1
<1>9. ASSUME NEW c \in Starts \cup {Teardown}, Abort(c) PROVE Clean
  <2>1. UNCHANGED <<current, log>> /\ Moves(c, "abort dom")
    BY <1>1, <1>9, AbortDoes
  <2> QED
    BY <1>3, <2>1, Kinds
\* The log that is open is the one that is shut.
<1>10. ASSUME log[current] = "open", Turns(current, "closing") PROVE FALSE
  BY <1>1, <1>2, <1>10 DEF Turns
<1>11. ASSUME NEW c \in Starts \cup {Teardown}, AbortLog(c) PROVE Clean
  <2>1. \/ log[current] = "open" /\ Turns(current, "closing")
        \/ (current = None \/ log[current] # "open") /\ UNCHANGED log
    BY <1>1, <1>11, AbortLogDoes
  <2> QED
    BY <1>1, <1>2, <1>10, <2>1
<1>12. ASSUME NEW e \in Ends, EndLog(e) PROVE Clean
  <2>1. \/ log[current] = "open" /\ Turns(current, "closing")
        \/ (current = None \/ log[current] # "open") /\ UNCHANGED log
    BY <1>1, <1>12, EndLogDoes
  <2> QED
    BY <1>1, <1>2, <1>10, <2>1
<1>13. ASSUME NEW e \in Ends, EndStats(e) \/ Pack(e) PROVE Clean
  <2>1. UNCHANGED log /\ Past(e) /\ e \in Calls
    BY <1>1, <1>13, EndStatsDoes, PackDoes, Kinds DEF Past
  <2> QED
    BY <1>2, <2>1
<1>14. ASSUME NEW e \in Ends, EndRefused(e) \/ End(e) PROVE Clean
  <2>1. /\ UNCHANGED <<current, log>>
        /\ Moves(e, "refused") \/ Moves(e, "end dom") \/ Moves(e, "ok")
    BY <1>1, <1>14, EndRefusedDoes, EndDoes
  <2> QED
    BY <1>3, <2>1, Kinds
<1>15. CASE BeginTeardown
  <2>1. UNCHANGED <<current, log>> /\ Moves(Teardown, "abort")
    BY <1>1, <1>15, TeardownDoes
  <2> QED
    BY <1>3, <2>1, Kinds
<1>16. CASE UNCHANGED recordVars
  <2>1. UNCHANGED <<current, log, pc>>
    BY <1>16, StutterDoes
  <2> QED
    BY <1>2, <2>1 DEF Past
<1> QED
  BY <1>4, <1>5, <1>6, <1>7, <1>8, <1>9, <1>11, <1>12, <1>13, <1>14, <1>15, <1>16 DEF RecordNext

LEMMA AwaitedStep ==
  ASSUME RecordInv, PlainSound, [RecordNext]_recordVars, NEW r \in Starts, log'[r] = "closing"
  PROVE  \E c \in Calls : pc'[c] \in {"abort log", "end log"} /\ held'[c] = r
<1> DEFINE Waits(c) == pc[c] \in {"abort log", "end log"} /\ held[c] = r
<1> SUFFICES \E c \in Calls : Waits(c)'
  OBVIOUS
<1> USE DEF At
<1>1. RecordTypeOK
  BY DEF RecordInv
<1>2. log[r] = "closing" => \E c \in Calls : Waits(c)
  BY DEF PlainSound, Awaited
\* Who awaits a log leaves when it is closed.
<1>3. ASSUME log[r] = "closing", NEW c \in Calls, NEW s, Moves(c, s),
             UNCHANGED held \/ \E q : Holds(c, q),
             pc[c] \in {"abort log", "end log"} => log[held[c]] = "closed"
      PROVE  \E d \in Calls : Waits(d)'
  <2>1. PICK d \in Calls : Waits(d)
    BY <1>2, <1>3
  <2>2. d # c
    BY <1>3, <2>1
  <2>3. pc'[d] = pc[d] /\ held'[d] = held[d]
    BY <1>3, <2>2 DEF Moves, Holds
  <2> QED
    BY <2>1, <2>3
<1>4. ASSUME log[r] = "closing", UNCHANGED <<pc, held>> PROVE \E d \in Calls : Waits(d)'
  BY <1>2, <1>4
\* Who shuts it awaits it.
<1>5. ASSUME Turns(current, "closing"), NEW c \in Calls, Holds(c, current),
             Moves(c, "abort log") \/ Moves(c, "end log"), pc[c] \notin {"abort log", "end log"}
      PROVE  \E d \in Calls : Waits(d)'
  <2>1. CASE r = current
    BY <1>5, <2>1 DEF Moves, Holds
  <2>2. CASE r # current
    <3>1. log[r] = "closing"
      BY <1>5, <2>2 DEF Turns
    <3> QED
      BY <1>3, <1>5, <3>1
  <2> QED
    BY <2>1, <2>2
<1>6. ASSUME NEW q \in Starts, Opened(q) \/ AttachFails(q) PROVE \E d \in Calls : Waits(d)'
  <2>1. pc[q] = "opening" /\ Turns(q, "open") /\ UNCHANGED held /\ \E s : Moves(q, s)
    BY <1>1, <1>6, OpenedDoes, AttachFailsDoes, PublishDoes
  <2>2. log[r] = "closing"
    BY <2>1 DEF Turns
  <2> QED
    BY <1>3, <2>1, <2>2, Kinds
<1>7. ASSUME NEW q \in Starts, Start(q) \/ OpenFails(q) \/ DomAnswers(q) \/ NetAnswers(q)
      PROVE  \E d \in Calls : Waits(d)'
  <2>1. /\ pc[q] \in {"idle", "opening", "dom", "net"} /\ UNCHANGED log /\ \E s : Moves(q, s)
        /\ UNCHANGED held \/ Holds(q, current)
    BY <1>1, <1>7, StartDoes, OpenFailsDoes, DomAnswersDoes, NetAnswersDoes
  <2> QED
    BY <1>3, <2>1, Kinds
<1>8. ASSUME NEW q \in Starts, FetchBegins(q) \/ FetchEnds(q) \/ LogWriteFails(q)
      PROVE  \E d \in Calls : Waits(d)'
  BY <1>1, <1>4, <1>8, FetchBeginsDoes, FetchEndsDoes, LogWriteFailsDoes
<1>9. ASSUME NEW q \in Starts, LogClosed(q) PROVE \E d \in Calls : Waits(d)'
  <2>1. Turns(q, "closed") /\ UNCHANGED <<pc, held>>
    BY <1>1, <1>9, LogClosedDoes
  <2>2. log[r] = "closing"
    BY <2>1 DEF Turns
  <2> QED
    BY <1>4, <2>1, <2>2
<1>10. ASSUME NEW c \in Starts \cup {Teardown}, AbortIdle(c) \/ Abort(c) \/ AbortUnlink(c)
       PROVE  \E d \in Calls : Waits(d)'
  <2>1. /\ \/ pc[c] \in {"abort", "abort past"}
           \/ pc[c] = "abort log" /\ log[held[c]] = "closed"
        /\ UNCHANGED <<log, held>> /\ \E s : Moves(c, s)
    BY <1>1, <1>10, AbortIdleDoes, AbortDoes, AbortUnlinkDoes, AbortEndsDoes
  <2> QED
    BY <1>3, <2>1, Kinds
<1>11. ASSUME NEW c \in Starts \cup {Teardown}, AbortLog(c) PROVE \E d \in Calls : Waits(d)'
  <2>1. pc[c] = "abort dom" /\ Holds(c, current)
    BY <1>1, <1>11, AbortLogDoes
  <2>2. \/ Turns(current, "closing") /\ Moves(c, "abort log")
        \/ UNCHANGED log /\ Moves(c, "abort past")
    BY <1>1, <1>11, AbortLogDoes
  <2> QED
    BY <1>3, <1>5, <2>1, <2>2, Kinds
<1>12. ASSUME NEW e \in Ends, EndLog(e) PROVE \E d \in Calls : Waits(d)'
  <2>1. pc[e] = "end dom" /\ Holds(e, current)
    BY <1>1, <1>12, EndLogDoes
  <2>2. \/ Turns(current, "closing") /\ Moves(e, "end log")
        \/ UNCHANGED log /\ \E s : Moves(e, s)
    BY <1>1, <1>12, EndLogDoes
  <2> QED
    BY <1>3, <1>5, <2>1, <2>2, Kinds
<1>13. ASSUME NEW e \in Ends, EndStats(e) PROVE \E d \in Calls : Waits(d)'
  <2>1. /\ (pc[e] = "end log" /\ log[held[e]] = "closed") \/ pc[e] = "end past"
        /\ UNCHANGED log /\ (\E s : Moves(e, s)) /\ \E q : Holds(e, q)
    BY <1>1, <1>13, EndStatsDoes
  <2> QED
    BY <1>3, <2>1, Kinds
<1>14. ASSUME NEW e \in Ends, EndRefused(e) \/ End(e) \/ Pack(e) PROVE \E d \in Calls : Waits(d)'
  <2>1. /\ pc[e] \in {"idle", "pack"} /\ UNCHANGED <<log, held>> /\ \E s : Moves(e, s)
    BY <1>1, <1>14, EndRefusedDoes, EndDoes, PackDoes
  <2> QED
    BY <1>3, <2>1, Kinds
<1>15. CASE BeginTeardown
  <2>1. /\ pc[Teardown] = "idle" /\ UNCHANGED <<log, held>> /\ \E s : Moves(Teardown, s)
    BY <1>1, <1>15, TeardownDoes DEF SessionIsOpen
  <2> QED
    BY <1>3, <2>1, Kinds
<1>16. CASE UNCHANGED recordVars
  BY <1>4, <1>16, StutterDoes
<1> QED
  BY <1>6, <1>7, <1>8, <1>9, <1>10, <1>11, <1>12, <1>13, <1>14, <1>15, <1>16 DEF RecordNext

LEMMA PlainStep ==
  ASSUME Overlaps = {}, RecordInv, PlainSound, [RecordNext]_recordVars
  PROVE  PlainSound'
<1>1. EndsSound' /\ DiskSound' /\ GoneSound'
  BY EndsStep, DiskStep, GoneStep DEF EndsSound
<1>2. OpenLogs'
  BY OpenLogsStep DEF OpenLogs
<1>3. Awaited'
  BY AwaitedStep DEF Awaited
<1>4. Opens'
  BY OpensStep DEF Opens
<1> QED
  BY <1>1, <1>2, <1>3, <1>4 DEF PlainSound

\* Once every call is answered, the only plaintext log on disk and the only one
\* open are those of the recording the session still names, and a closed session
\* has none, as long as no call runs into a start that is not answered.
THEOREM NoTraceHolds ==
  ASSUME Overlaps = {}
  PROVE  RecordSpec => []NoPlaintextTrace
<1> DEFINE I == RecordInv /\ PlainSound
<1>1. RecordInit => I
  BY RecordInvInit, PlainInit
<1>2. I /\ [RecordNext]_recordVars => I'
  BY RecordInvStep, PlainStep
<1>3. I => NoPlaintextTrace
  <2> SUFFICES ASSUME RecordInv, PlainSound, Quiet
               PROVE  /\ jsonl \subseteq (IF gone THEN {} ELSE {current})
                      /\ \A r \in Starts : log[r] \in {"open", "closing"} => ~ gone /\ r = current
    BY DEF NoPlaintextTrace
  <2>1. jsonl \subseteq Starts /\ jsonl \subseteq {current} /\ (gone => current = None)
    BY DEF RecordInv, RecordTypeOK, PlainSound, DiskSound, GoneSound
  <2>2. \A c \in Calls : pc[c] \notin {"abort log", "end log"}
    BY DEF Quiet, Answered
  <2>3. \A r \in Starts : log[r] # "closing"
    BY <2>2 DEF PlainSound, Awaited
  <2>4. \A r \in Starts : log[r] = "open" => r = current
    BY DEF PlainSound, OpenLogs
  <2> QED
    BY <2>1, <2>3, <2>4, Kinds
<1> QED
  BY <1>1, <1>2, <1>3, PTL DEF RecordSpec
=============================================================================

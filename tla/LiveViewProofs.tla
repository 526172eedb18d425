--------------------------- MODULE LiveViewProofs ---------------------------
(***************************************************************************)
(* Theorems about the live-view hub: for any sessions, streams at once,    *)
(* browsers, starts, queues and width changes.                             *)
(***************************************************************************)
EXTENDS LiveView, TLAPS

(***************************************************************************)
(* Queues.                                                                 *)
(***************************************************************************)

Elements(q) == {q[k] : k \in DOMAIN q}

\* Of the commands of one stream, those not sent by end(), at most one waits.
OneOfEach(q) ==
  \A j, k \in DOMAIN q :
    q[j].n = q[k].n /\ q[j].why # "end" /\ q[k].why # "end" => j = k

LEMMA TailElements ==
  ASSUME NEW S, NEW q \in Seq(S), q # <<>>
  PROVE  /\ Tail(q) \in Seq(S) /\ Head(q) \in S
         /\ Elements(q) = {Head(q)} \cup Elements(Tail(q))
<1>1. /\ DOMAIN q = 1..Len(q) /\ DOMAIN Tail(q) = 1..Len(q) - 1 /\ Len(q) \in Nat /\ Len(q) > 0
      /\ \A k \in 1..Len(q) - 1 : Tail(q)[k] = q[k + 1]
      /\ Head(q) = q[1]
  OBVIOUS
<1>2. Tail(q) \in Seq(S)
  OBVIOUS
<1>3. \A k \in DOMAIN q : k = 1 \/ (k - 1 \in DOMAIN Tail(q) /\ Tail(q)[k - 1] = q[k])
  BY <1>1, <1>2
<1>4. \A k \in DOMAIN Tail(q) : k + 1 \in DOMAIN q /\ Tail(q)[k] = q[k + 1]
  BY <1>1, <1>2
<1>5. 1 \in DOMAIN q
  BY <1>1, <1>2
<1>6. QED
  BY <1>1, <1>2, <1>3, <1>4, <1>5 DEF Elements

LEMMA AppendElements ==
  ASSUME NEW S, NEW q \in Seq(S), NEW c \in S
  PROVE  /\ Append(q, c) \in Seq(S) /\ Append(q, c) # <<>>
         /\ Elements(Append(q, c)) = Elements(q) \cup {c}
         /\ q # <<>> => Head(Append(q, c)) = Head(q)
<1>1. /\ Append(q, c) \in Seq(S) /\ Len(Append(q, c)) = Len(q) + 1 /\ Len(q) \in Nat
      /\ \A k \in 1..Len(q) : Append(q, c)[k] = q[k]
      /\ Append(q, c)[Len(q) + 1] = c
  OBVIOUS
<1>2. DOMAIN q = 1..Len(q) /\ DOMAIN Append(q, c) = 1..Len(q) + 1
  BY <1>1
<1>3. Elements(Append(q, c)) = Elements(q) \cup {c}
  <2>1. \A k \in DOMAIN Append(q, c) :
          \/ k \in DOMAIN q /\ Append(q, c)[k] = q[k]
          \/ Append(q, c)[k] = c
    BY <1>1, <1>2
  <2>2. \A k \in DOMAIN q : k \in DOMAIN Append(q, c) /\ Append(q, c)[k] = q[k]
    BY <1>1, <1>2
  <2>3. Len(q) + 1 \in DOMAIN Append(q, c)
    BY <1>1, <1>2
  <2>4. QED
    BY <1>1, <2>1, <2>2, <2>3 DEF Elements
<1>4. Append(q, c) # <<>>
  BY <1>1
<1>5. q # <<>> => Head(Append(q, c)) = Head(q)
  BY <1>1
<1>6. QED
  BY <1>1, <1>3, <1>4, <1>5

LEMMA TailOneOfEach ==
  ASSUME NEW q \in Seq(Commands), q # <<>>, OneOfEach(q)
  PROVE  /\ OneOfEach(Tail(q))
         /\ Head(q).why # "end" =>
              \A c \in Elements(Tail(q)) : c.why # "end" => c.n # Head(q).n
<1>1. /\ DOMAIN q = 1..Len(q) /\ DOMAIN Tail(q) = 1..Len(q) - 1 /\ Len(q) \in Nat /\ Len(q) > 0
      /\ \A k \in 1..Len(q) - 1 : Tail(q)[k] = q[k + 1]
      /\ Head(q) = q[1]
  OBVIOUS
<1>2. \A k \in DOMAIN Tail(q) :
        k \in Nat /\ k > 0 /\ k + 1 \in DOMAIN q /\ Tail(q)[k] = q[k + 1]
  BY <1>1
<1>3. 1 \in DOMAIN q
  BY <1>1
<1>4. OneOfEach(Tail(q))
  BY <1>2 DEF OneOfEach
<1>5. ASSUME Head(q).why # "end", NEW k \in DOMAIN Tail(q), Tail(q)[k].why # "end"
      PROVE  Tail(q)[k].n # Head(q).n
  BY <1>1, <1>2, <1>3, <1>5 DEF OneOfEach
<1>6. QED
  BY <1>4, <1>5 DEF Elements

LEMMA AppendOneOfEach ==
  ASSUME NEW q \in Seq(Commands), NEW c \in Commands, OneOfEach(q),
         c.why = "end" \/ \A d \in Elements(q) : d.why # "end" => d.n # c.n
  PROVE  OneOfEach(Append(q, c))
<1>1. /\ DOMAIN q = 1..Len(q) /\ DOMAIN Append(q, c) = 1..Len(q) + 1 /\ Len(q) \in Nat
      /\ \A k \in 1..Len(q) : Append(q, c)[k] = q[k]
      /\ Append(q, c)[Len(q) + 1] = c
  OBVIOUS
<1>2. \A k \in DOMAIN Append(q, c) :
        \/ k \in DOMAIN q /\ Append(q, c)[k] = q[k]
        \/ k = Len(q) + 1 /\ Append(q, c)[k] = c
  BY <1>1
<1>3. \A k \in DOMAIN q : q[k] \in Elements(q)
  BY DEF Elements
<1>4. QED
  BY <1>2, <1>3 DEF OneOfEach

LEMMA FunctionIsSeq ==
  ASSUME NEW S, NEW n \in Nat, NEW f \in [1..n -> S]
  PROVE  f \in Seq(S)
OBVIOUS

\* What stopAll leaves of a chain.
LEMMA StaleOps ==
  ASSUME NEW q \in Seq(Ops)
  PROVE  /\ Stale(q) \in Seq(Ops) /\ "start" \notin Elements(Stale(q))
         /\ "unregister" \in Elements(q) => "unregister" \in Elements(Stale(q))
         /\ q # <<>> => /\ Stale(q) # <<>>
                        /\ Head(Stale(q)) = IF Head(q) = "start" THEN "stale" ELSE Head(q)
<1>1. DOMAIN q = 1..Len(q) /\ Len(q) \in Nat /\ \A k \in 1..Len(q) : q[k] \in Ops
  OBVIOUS
<1>2. /\ DOMAIN Stale(q) = DOMAIN q
      /\ \A k \in DOMAIN q : Stale(q)[k] = IF q[k] = "start" THEN "stale" ELSE q[k]
  BY <1>1 DEF Stale
<1>3. Stale(q) \in [1..Len(q) -> Ops]
  <2>1. \A k \in DOMAIN q : Stale(q)[k] \in Ops
    BY <1>1, <1>2 DEF Ops
  <2>2. Stale(q) = [k \in 1..Len(q) |-> Stale(q)[k]]
    BY <1>1 DEF Stale
  <2>3. QED
    BY <1>1, <2>1, <2>2
<1>4. Stale(q) \in Seq(Ops)
  BY <1>1, <1>3, FunctionIsSeq
<1>5. /\ "start" \notin Elements(Stale(q))
      /\ "unregister" \in Elements(q) => "unregister" \in Elements(Stale(q))
  BY <1>2 DEF Elements
<1>6. ASSUME q # <<>>
      PROVE  /\ Stale(q) # <<>>
             /\ Head(Stale(q)) = IF Head(q) = "start" THEN "stale" ELSE Head(q)
  <2>1. 1 \in DOMAIN q /\ Head(q) = q[1]
    BY <1>6
  <2>2. Stale(q) # <<>>
    BY <1>2, <2>1
  <2>3. Head(Stale(q)) = Stale(q)[1]
    BY <1>4, <2>2
  <2>4. QED
    BY <1>2, <2>1, <2>2, <2>3
<1>7. QED
  BY <1>4, <1>5, <1>6

-----------------------------------------------------------------------------
(***************************************************************************)
(* The inductive invariant.                                                *)
(***************************************************************************)

\* Streams and sources are numbered as they are made; what is not made is not
\* used, and a source is one session's.
Numbered ==
  /\ \A n \in Ids : n > made.streams => st[n] = Unused
  /\ \A n \in 1..made.streams : st[n].session \in Sessions /\ st[n].src \in 1..made.sources
  /\ \A s \in Sessions :
       /\ stream[s] <= made.streams /\ running[s].n <= made.streams
       /\ source[s] <= made.sources
       /\ \A t \in Sessions : source[s] # None /\ source[s] = source[t] => s = t
       /\ \A n \in 1..made.streams : st[n].src = source[s] => st[n].session = s
  /\ \A n, m \in 1..made.streams : st[n].src = st[m].src => st[n].session = st[m].session

\* A stream that was not ended is its session's in #streams, and has its handle
\* unless begin() waits; what is in #streams was not ended.
StreamsSound ==
  /\ \A n \in Ids : ~st[n].stopped => stream[st[n].session] = n
  /\ \A n \in Ids : ~st[n].stopped /\ st[n].retune # "no" => st[n].handle
  /\ \A s \in Sessions : stream[s] # None =>
       /\ st[stream[s]].session = s /\ ~st[stream[s]].stopped
       /\ st[stream[s]].handle \/ Awaits(s, "beginning", stream[s])

\* What the head of a chain waits for, it waits for at the head of a chain; a
\* stop, or a start that replaces, has taken the stream out of #streams.
ChainsSound ==
  \A s \in Sessions :
    /\ running[s].doing = "idle" => running[s] = NothingRuns
    /\ running[s].doing # "idle" => chain[s] # <<>>
    /\ running[s].doing \in {"beginning", "replacing"} => Head(chain[s]) \in {"start", "stale"}
    /\ running[s].doing \in {"replacing", "ending"} => stream[s] = None
    /\ running[s].doing = "replacing" => running[s].src # None

\* Why a command is in a queue, and what its stream is then.
CommandSound(x, c) ==
  /\ c.n <= made.streams /\ st[c.n].src = x
  /\ c.why = "begin"   => /\ c.op = "start" /\ st[c.n].retune = "no" /\ ~st[c.n].handle
                          /\ Awaits(st[c.n].session, "beginning", c.n)
  /\ c.why = "retune"  => st[c.n].retune = IF c.op = "stop" THEN "stopping" ELSE "opening"
  /\ c.why \in {"discard", "end"} => c.op = "stop" /\ st[c.n].stopped

\* ... and it is the only one of its stream but for those of end().
QueuesSound ==
  \A x \in Sources :
    /\ \A c \in Elements(cdp[x]) : CommandSound(x, c)
    /\ OneOfEach(cdp[x])

\* A screencast is its source's, and its stream's start is behind it; once the
\* stream was ended, a stop is before it.
CastsSound ==
  \A x \in Sources : casting[x] # None =>
    /\ casting[x] <= made.streams /\ st[casting[x]].src = x
    /\ st[casting[x]].handle \/ st[casting[x]].stopped
    /\ \A c \in Elements(cdp[x]) : c.op = "start" => c.n # casting[x]
    /\ st[casting[x]].stopped => \E c \in Elements(cdp[x]) : c.op = "stop"

\* Without a connection nothing is shown and nothing starts.
DownSound ==
  ~up => \A s \in Sessions : /\ ~shows[s] /\ stream[s] = None
                             /\ "start" \notin Elements(chain[s])

\* A shown stream that is no more has its stop on the way, which tells.
TellsSound ==
  \A s \in Sessions : shows[s] /\ stream[s] = None =>
    \E x \in Sources : \E c \in Elements(cdp[x]) : c.why = "end" /\ st[c.n].session = s

\* A closed session that still streams has its unregister queued.
ClosesSound ==
  \A s \in Sessions : source[s] = None /\ stream[s] # None =>
    "unregister" \in Elements(chain[s])

IInv ==
  /\ TypeOK /\ Numbered /\ StreamsSound /\ ChainsSound /\ QueuesSound /\ CastsSound
  /\ DownSound /\ TellsSound /\ ClosesSound

-----------------------------------------------------------------------------
LEMMA InitTypeOK == Init => TypeOK
BY ViewBounds
DEF Init, TypeOK, Sources, Ids, None, NothingRuns, Unused, Streams, Waits, Counts

LEMMA Bounds == TypeOK => /\ made.sources \in 0..MaxSources /\ made.starts \in 0..MaxStarts
                          /\ made.streams \in 0..MaxStarts
                          /\ 1..made.streams \subseteq Ids /\ 1..made.sources \subseteq Sources
BY ViewBounds DEF TypeOK, Counts, Ids, Sources

\* end() of the streams E stops them, and sends the browser of each that has its
\* handle a stop.
EndStop(n) == [op |-> "stop", n |-> n, why |-> "end"]

LEMMA EndSends ==
  ASSUME TypeOK, NEW E \in SUBSET Ids, End(E)
  PROVE  /\ st' \in [Ids -> Streams] /\ cdp' \in [Sources -> Seq(Commands)]
         /\ \A n \in Ids \ E : st'[n] = st[n]
         /\ \A n \in E : /\ st'[n].stopped /\ ~st'[n].handle /\ st'[n].retune = st[n].retune
                         /\ st'[n].session = st[n].session /\ st'[n].src = st[n].src
         /\ \A x \in Sources :
              \/ /\ cdp'[x] = cdp[x]
                 /\ \A n \in E : st[n].src = x => ~st[n].handle
              \/ \E n \in E : /\ st[n].src = x /\ st[n].handle
                              /\ cdp'[x] = Append(cdp[x], EndStop(n))
<1> DEFINE mine(x) == {n \in E : st[n].src = x /\ st[n].handle}
<1>1. ASSUME NEW x \in Sources, mine(x) = {}
      PROVE  cdp'[x] = cdp[x] /\ \A n \in E : st[n].src = x => ~st[n].handle
  BY <1>1 DEF End, StopsSent
<1>2. ASSUME NEW x \in Sources, mine(x) # {}
      PROVE  \E n \in E : /\ st[n].src = x /\ st[n].handle
                          /\ cdp'[x] = Append(cdp[x], EndStop(n))
  <2>1. (CHOOSE n \in mine(x) : TRUE) \in mine(x)
    BY <1>2
  <2>2. cdp'[x] = Append(cdp[x], EndStop(CHOOSE n \in mine(x) : TRUE))
    BY <1>2 DEF End, StopsSent, EndStop
  <2>3. QED
    BY <2>1, <2>2
<1>3. \A x \in Sources : cdp[x] \in Seq(Commands)
  BY DEF TypeOK
<1>4. \A n \in E : EndStop(n) \in Commands
  BY DEF EndStop, Commands, Whys
<1>5. \A x \in Sources : cdp'[x] \in Seq(Commands)
  BY <1>1, <1>2, <1>3, <1>4, AppendElements
<1>6. \A n \in E : [st[n] EXCEPT !.stopped = TRUE, !.handle = FALSE] \in Streams
  BY DEF TypeOK, Streams
<1>7. /\ st' \in [Ids -> Streams]
      /\ \A n \in Ids \ E : st'[n] = st[n]
      /\ \A n \in E : st'[n] = [st[n] EXCEPT !.stopped = TRUE, !.handle = FALSE]
  BY <1>6 DEF End, Ended, TypeOK
<1>8. cdp' = StopsSent(E)
  BY DEF End
<1>9. cdp' \in [Sources -> Seq(Commands)]
  BY <1>5, <1>8 DEF StopsSent
<1>10. \A n \in E : /\ st'[n].stopped /\ ~st'[n].handle /\ st'[n].retune = st[n].retune
                    /\ st'[n].session = st[n].session /\ st'[n].src = st[n].src
  <2>1. \A n \in E : st[n] \in Streams /\ st'[n] = [st[n] EXCEPT !.stopped = TRUE, !.handle = FALSE]
    BY <1>7 DEF TypeOK
  <2>2. QED
    BY <2>1 DEF Streams
<1>11. QED
  BY <1>1, <1>2, <1>7, <1>9, <1>10

\* One stream's state changes, and no other's.
Becomes(n, stopped, handle, retune) ==
  /\ \A m \in Ids \ {n} : st'[m] = st[m]
  /\ st'[n].session = st[n].session /\ st'[n].src = st[n].src
  /\ st'[n].stopped = stopped /\ st'[n].handle = handle /\ st'[n].retune = retune

LEMMA Stops ==
  ASSUME TypeOK, NEW n \in Ids, st' = [st EXCEPT ![n].stopped = TRUE]
  PROVE  Becomes(n, TRUE, st[n].handle, st[n].retune)
BY DEF TypeOK, Becomes, Streams

LEMMA GetsHandle ==
  ASSUME TypeOK, NEW n \in Ids, st' = [st EXCEPT ![n].handle = TRUE]
  PROVE  Becomes(n, st[n].stopped, TRUE, st[n].retune)
BY DEF TypeOK, Becomes, Streams

LEMMA Retunes ==
  ASSUME TypeOK, NEW n \in Ids, NEW r \in {"no", "stopping", "opening"},
         st' = [st EXCEPT ![n].retune = r]
  PROVE  Becomes(n, st[n].stopped, st[n].handle, r)
BY DEF TypeOK, Becomes, Streams

LEMMA Fails ==
  ASSUME TypeOK, NEW n \in Ids,
         st' = [st EXCEPT ![n] = [@ EXCEPT !.stopped = TRUE, !.handle = FALSE, !.retune = "no"]]
  PROVE  Becomes(n, TRUE, FALSE, "no")
<1>1. st'[n] = [st[n] EXCEPT !.stopped = TRUE, !.handle = FALSE, !.retune = "no"]
  BY DEF TypeOK
<1>2. \A m \in Ids \ {n} : st'[m] = st[m]
  BY DEF TypeOK
<1>3. st[n] \in Streams
  BY DEF TypeOK
<1>4. ASSUME NEW e \in Streams, NEW f, f = [e EXCEPT !.stopped = TRUE, !.handle = FALSE, !.retune = "no"]
      PROVE  /\ f.session = e.session /\ f.src = e.src
             /\ f.stopped = TRUE /\ f.handle = FALSE /\ f.retune = "no"
  BY <1>4 DEF Streams
<1>5. QED
  BY <1>1, <1>2, <1>3, <1>4 DEF Becomes

\* The new stream of Create, and what is sent for it.
BeginStart(n) == [op |-> "start", n |-> n, why |-> "begin"]

LEMMA Creates ==
  ASSUME TypeOK, NEW s \in Sessions, NEW x \in Sources,
         NEW queues \in [Sources -> Seq(Commands)], Create(s, x, queues)
  PROVE  LET n == made.streams + 1 IN
         /\ n \in Ids /\ made' \in Counts
         /\ made'.streams = n /\ made'.sources = made.sources /\ made'.starts = made.starts
         /\ stream' \in [Sessions -> Ids \cup {None}] /\ stream' = [stream EXCEPT ![s] = n]
         /\ st' \in [Ids -> Streams]
         /\ st' = [st EXCEPT ![n] = [session |-> s, src |-> x, stopped |-> FALSE,
                                     handle |-> FALSE, retune |-> "no"]]
         /\ cdp' \in [Sources -> Seq(Commands)]
         /\ cdp' = [queues EXCEPT ![x] = Append(@, BeginStart(n))]
         /\ running' \in [Sessions -> Waits]
         /\ running' = [running EXCEPT ![s] = [doing |-> "beginning", n |-> n, src |-> x]]
<1> DEFINE n == made.streams + 1
<1>1. n \in Ids /\ made' \in Counts
  <2>1. n \in Ids /\ made' = [made EXCEPT !.streams = n] /\ made \in Counts
    BY DEF Create, TypeOK
  <2>2. n \in 0..MaxStarts
    BY <2>1, ViewBounds DEF Ids
  <2>3. QED
    BY <2>1, <2>2 DEF Counts
<1>2. made'.streams = n /\ made'.sources = made.sources /\ made'.starts = made.starts
  BY DEF Create, TypeOK, Counts
<1>3. /\ BeginStart(n) \in Commands
      /\ [session |-> s, src |-> x, stopped |-> FALSE, handle |-> FALSE, retune |-> "no"] \in Streams
      /\ [doing |-> "beginning", n |-> n, src |-> x] \in Waits
  BY <1>1 DEF BeginStart, Commands, Whys, Streams, Waits
<1>4. queues[x] \in Seq(Commands) /\ Append(queues[x], BeginStart(n)) \in Seq(Commands)
  BY <1>3, AppendElements
<1>5. /\ stream' = [stream EXCEPT ![s] = n]
      /\ st' = [st EXCEPT ![n] = [session |-> s, src |-> x, stopped |-> FALSE,
                                  handle |-> FALSE, retune |-> "no"]]
      /\ cdp' = [queues EXCEPT ![x] = Append(@, BeginStart(n))]
      /\ running' = [running EXCEPT ![s] = [doing |-> "beginning", n |-> n, src |-> x]]
  BY DEF Create, Await, BeginStart
<1>6. stream' \in [Sessions -> Ids \cup {None}]
  BY <1>1, <1>5 DEF TypeOK
<1>7. st' \in [Ids -> Streams]
  BY <1>1, <1>3, <1>5 DEF TypeOK
<1>8. cdp' \in [Sources -> Seq(Commands)]
  BY <1>4, <1>5
<1>9. running' \in [Sessions -> Waits]
  BY <1>3, <1>5 DEF TypeOK
<1>10. QED
  BY <1>1, <1>2, <1>5, <1>6, <1>7, <1>8, <1>9

\* The head of a chain is done.
LEMMA Pops ==
  ASSUME TypeOK, NEW s \in Sessions, chain[s] # <<>>, Pop(s)
  PROVE  /\ chain' \in [Sessions -> Seq(Ops)] /\ chain' = [chain EXCEPT ![s] = Tail(@)]
         /\ Elements(chain[s]) = {Head(chain[s])} \cup Elements(chain'[s])
         /\ running' \in [Sessions -> Waits]
         /\ running' = [running EXCEPT ![s] = NothingRuns]
<1>1. chain[s] \in Seq(Ops) /\ NothingRuns \in Waits
  BY DEF TypeOK, NothingRuns, Waits
<1>2. Tail(chain[s]) \in Seq(Ops) /\ Elements(chain[s]) = {Head(chain[s])} \cup Elements(Tail(chain[s]))
  BY <1>1, TailElements
<1>3. QED
  BY <1>1, <1>2 DEF TypeOK, Pop

\* The command a browser answers, and what its queue holds then.
LEMMA Answers ==
  ASSUME IInv, NEW x \in Sources, cdp[x] # <<>>
  PROVE  LET c == Head(cdp[x]) IN
         /\ c \in Commands /\ c.n \in 1..made.streams /\ c.n \in Ids /\ c.n # None
         /\ st[c.n].session \in Sessions /\ st[c.n].src = x
         /\ CommandSound(x, c)
         /\ Tail(cdp[x]) \in Seq(Commands) /\ OneOfEach(Tail(cdp[x]))
         /\ Elements(cdp[x]) = {c} \cup Elements(Tail(cdp[x]))
         /\ c.why # "end" => \A d \in Elements(Tail(cdp[x])) : d.why # "end" => d.n # c.n
         /\ c.why = "begin" => chain[st[c.n].session] # <<>>
<1> DEFINE c == Head(cdp[x])
<1>1. cdp[x] \in Seq(Commands)
  BY DEF IInv, TypeOK
<1>2. /\ c \in Commands /\ Tail(cdp[x]) \in Seq(Commands)
      /\ Elements(cdp[x]) = {c} \cup Elements(Tail(cdp[x]))
  BY <1>1, TailElements
<1>3. CommandSound(x, c) /\ OneOfEach(cdp[x])
  BY <1>2 DEF IInv, QueuesSound
<1>4. OneOfEach(Tail(cdp[x])) /\ (c.why # "end" =>
        \A d \in Elements(Tail(cdp[x])) : d.why # "end" => d.n # c.n)
  BY <1>1, <1>3, TailOneOfEach
<1>5. c.n \in Ids /\ c.n <= made.streams /\ made.streams \in Nat
  BY <1>2, <1>3, Bounds DEF CommandSound, Commands, IInv
<1>6. c.n \in 1..made.streams /\ c.n # None
  BY <1>5, ViewBounds DEF Ids, None
<1>7. st[c.n].session \in Sessions
  BY <1>6 DEF IInv, Numbered
<1>8. st[c.n].src = x
  BY <1>3 DEF CommandSound
<1>9. c.why = "begin" => chain[st[c.n].session] # <<>>
  BY <1>3, <1>7 DEF CommandSound, IInv, ChainsSound, Awaits
<1> HIDE DEF c
<1>10. QED
  BY <1>2, <1>3, <1>4, <1>5, <1>6, <1>7, <1>8, <1>9 DEF c

LEMMA Answering ==
  ASSUME NEW x \in Sources, Respond(x)
  PROVE  cdp[x] # <<>>
BY DEF Respond, Oldest, BeganStopped, Began, BeganLate, BeginFails, Discarded, Retuned,
       Reopened, ReopenFails, Stopped

\* It leaves its queue; what is sent because of it goes to the end.
LEMMA Answer ==
  ASSUME IInv, NEW x \in Sources, cdp[x] # <<>>, cdp' = Answered(x)
  PROVE  /\ cdp' \in [Sources -> Seq(Commands)]
         /\ cdp' = [cdp EXCEPT ![x] = Tail(@)]
BY Answers DEF Answered, IInv, TypeOK

LEMMA AnswerAndSend ==
  ASSUME IInv, NEW x \in Sources, cdp[x] # <<>>, NEW op \in {"start", "stop"}, NEW why \in Whys,
         cdp' = Next2(x, op, Head(cdp[x]).n, why)
  PROVE  LET c == [op |-> op, n |-> Head(cdp[x]).n, why |-> why] IN
         /\ c \in Commands /\ cdp' \in [Sources -> Seq(Commands)]
         /\ cdp' = [cdp EXCEPT ![x] = Append(Tail(@), c)]
         /\ Elements(cdp'[x]) = Elements(Tail(cdp[x])) \cup {c}
         /\ Head(cdp[x]).why # "end" => OneOfEach(cdp'[x])
<1> DEFINE c == [op |-> op, n |-> Head(cdp[x]).n, why |-> why]
<1>1. /\ Head(cdp[x]).n \in Ids /\ Tail(cdp[x]) \in Seq(Commands) /\ OneOfEach(Tail(cdp[x]))
      /\ Head(cdp[x]).why # "end" =>
           \A d \in Elements(Tail(cdp[x])) : d.why # "end" => d.n # c.n
  BY Answers
<1>2. c \in Commands
  BY <1>1 DEF Commands
<1>n. c.n = Head(cdp[x]).n
  OBVIOUS
<1> HIDE DEF c
<1>3. /\ Append(Tail(cdp[x]), c) \in Seq(Commands)
      /\ Elements(Append(Tail(cdp[x]), c)) = Elements(Tail(cdp[x])) \cup {c}
  <2>1. \A q \in Seq(Commands), d \in Commands :
          Append(q, d) \in Seq(Commands) /\ Elements(Append(q, d)) = Elements(q) \cup {d}
    BY AppendElements
  <2>2. QED
    BY <1>1, <1>2, <2>1
<1>4. Head(cdp[x]).why # "end" => OneOfEach(Append(Tail(cdp[x]), c))
  BY <1>1, <1>2, <1>n, AppendOneOfEach
<1>5. cdp' = [cdp EXCEPT ![x] = Append(Tail(@), c)]
  BY DEF Next2, c
<1>6. cdp'[x] = Append(Tail(cdp[x]), c) /\ cdp' \in [Sources -> Seq(Commands)]
  BY <1>3, <1>5 DEF IInv, TypeOK
<1>7. QED
  BY <1>2, <1>3, <1>4, <1>5, <1>6 DEF c

\* A start that replaces goes on with a source its session has.
LEMMA Replaces ==
  ASSUME IInv, NEW x \in Sources, cdp[x] # <<>>, NEW s \in Sessions,
         running[s].doing = "replacing", source[s] = running[s].src
  PROVE  source[s] \in Sources /\ Answered(x) \in [Sources -> Seq(Commands)]
<1>1. source[s] # None
  BY DEF IInv, ChainsSound
<1>2. QED
  BY <1>1, Answers DEF Answered, IInv, TypeOK

-----------------------------------------------------------------------------
(***************************************************************************)
(* Types.                                                                  *)
(***************************************************************************)

LEMMA StepTypeOK == IInv /\ [Next]_vars => TypeOK'
<1> SUFFICES ASSUME IInv, [Next]_vars PROVE TypeOK'
  OBVIOUS
<1>0. TypeOK
  BY DEF IInv
<1>1. ASSUME NEW s \in Sessions, Register(s) PROVE TypeOK'
  <2>1. made.sources + 1 \in Sources /\ made' \in Counts
    <3>1. made \in Counts /\ made' = [made EXCEPT !.sources = @ + 1] /\ made.sources < MaxSources
      BY <1>0, <1>1 DEF Register, TypeOK
    <3>2. QED
      BY <3>1, ViewBounds DEF Counts, Sources
  <2>2. QED
    BY <1>0, <1>1, <2>1 DEF Register, TypeOK, browser
<1>2. ASSUME NEW s \in Sessions, Unregister(s) PROVE TypeOK'
  <2>1. Append(chain[s], "unregister") \in Seq(Ops)
    BY <1>0, AppendElements DEF TypeOK, Ops
  <2>2. QED
    BY <1>0, <1>2, <2>1 DEF Unregister, TypeOK, browser
<1>3. ASSUME NEW s \in Sessions, NEW op \in {"start", "stop"}, Frame(s, op) PROVE TypeOK'
  <2>1. Append(chain[s], op) \in Seq(Ops)
    BY <1>0, AppendElements DEF TypeOK, Ops
  <2>2. made' \in Counts
    <3>1. /\ made \in Counts
          /\ op = "start" => made.starts < MaxStarts
          /\ made' = [made EXCEPT !.starts = IF op = "start" THEN @ + 1 ELSE @]
      BY <1>0, <1>3 DEF Frame, TypeOK
    <3>2. made.starts' \in 0..MaxStarts
      <4>1. made.starts \in 0..MaxStarts /\ (op = "start" => made.starts + 1 \in 0..MaxStarts)
        BY <3>1, ViewBounds DEF Counts
      <4>2. QED
        BY <3>1, <4>1 DEF Counts
    <3>3. QED
      BY <3>1, <3>2 DEF Counts
  <2>3. QED
    BY <1>0, <1>3, <2>1, <2>2 DEF Frame, TypeOK, browser
<1>4. CASE Drop
  <2>1. \A s \in Sessions : Stale(chain[s]) \in Seq(Ops)
    BY <1>0, StaleOps DEF TypeOK
  <2>2. st' \in [Ids -> Streams] /\ cdp' \in [Sources -> Seq(Commands)]
    BY <1>0, <1>4, EndSends DEF Drop
  <2>3. QED
    BY <1>0, <1>4, <2>1, <2>2 DEF Drop, TypeOK
<1>5. CASE Reconnect
  BY <1>0, <1>5 DEF Reconnect, TypeOK, hub, browser
<1>6. ASSUME NEW s \in Sessions,
             SkipStale(s) \/ RefuseStart(s) \/ \E op \in {"stop", "unregister"} : StopNothing(s, op)
      PROVE  TypeOK'
  <2>1. chain[s] # <<>> /\ Pop(s)
    BY <1>6 DEF SkipStale, RefuseStart, StopNothing, Idle
  <2>2. chain' \in [Sessions -> Seq(Ops)] /\ running' \in [Sessions -> Waits]
    BY <1>0, <2>1, Pops
  <2>3. QED
    BY <1>0, <1>6, <2>2 DEF SkipStale, RefuseStart, StopNothing, TellStopped, TypeOK, browser
<1>7. ASSUME NEW s \in Sessions, StartNew(s) PROVE TypeOK'
  <2>1. source[s] \in Sources /\ Create(s, source[s], cdp) /\ cdp \in [Sources -> Seq(Commands)]
    BY <1>0, <1>7 DEF StartNew, TypeOK
  <2>2. /\ made' \in Counts /\ stream' \in [Sessions -> Ids \cup {None}]
        /\ st' \in [Ids -> Streams] /\ cdp' \in [Sources -> Seq(Commands)]
        /\ running' \in [Sessions -> Waits]
    BY <1>0, <2>1, Creates
  <2>3. QED
    BY <1>0, <1>7, <2>2 DEF StartNew, TypeOK
<1>8. ASSUME NEW s \in Sessions,
             Replace(s) \/ \E op \in {"stop", "unregister"} : StopRunning(s, op)
      PROVE  TypeOK'
  <2>1. stream[s] \in Ids /\ End({stream[s]})
    BY <1>0, <1>8 DEF Replace, StopRunning, TypeOK
  <2>2. st' \in [Ids -> Streams] /\ cdp' \in [Sources -> Seq(Commands)]
    BY <1>0, <2>1, EndSends
  <2>3. \A what \in {"replacing", "ending"} :
          [doing |-> what, n |-> stream[s], src |-> source[s]] \in Waits
    BY <1>0, <2>1 DEF Waits, TypeOK
  <2>4. running' \in [Sessions -> Waits]
    BY <1>0, <1>8, <2>3 DEF Replace, StopRunning, Await, TypeOK
  <2>5. QED
    BY <1>0, <1>8, <2>2, <2>4 DEF Replace, StopRunning, TypeOK
<1>9. ASSUME NEW n \in Ids, Stalled(n) PROVE TypeOK'
  <2>1. st' \in [Ids -> Streams] /\ cdp' \in [Sources -> Seq(Commands)]
    BY <1>0, <1>9, EndSends DEF Stalled, FinishOutsideChain
  <2>2. QED
    BY <1>0, <1>9, <2>1 DEF Stalled, FinishOutsideChain, TypeOK
<1>10. ASSUME NEW n \in Ids, Retune(n) PROVE TypeOK'
  <2>1. [op |-> "stop", n |-> n, why |-> "retune"] \in Commands
    BY DEF Commands, Whys
  <2>2. \A x \in Sources :
          Append(cdp[x], [op |-> "stop", n |-> n, why |-> "retune"]) \in Seq(Commands)
    BY <1>0, <2>1, AppendElements DEF TypeOK
  <2>3. cdp' \in [Sources -> Seq(Commands)]
    BY <1>0, <1>10, <2>2 DEF Retune, Send, TypeOK
  <2>4. st' \in [Ids -> Streams]
    <3>1. [st[n] EXCEPT !.retune = "stopping"] \in Streams
      BY <1>0 DEF TypeOK, Streams
    <3>2. QED
      BY <1>0, <1>10, <3>1 DEF Retune, TypeOK
  <2>5. retunes' \in 0..MaxRetunes
    BY <1>0, <1>10, ViewBounds DEF Retune, TypeOK
  <2>6. QED
    BY <1>0, <1>10, <2>3, <2>4, <2>5 DEF Retune, TypeOK
<1>11. ASSUME NEW x \in Sources, PageCloses(x) PROVE TypeOK'
  <2>1. st' \in [Ids -> Streams] /\ cdp' \in [Sources -> Seq(Commands)]
    BY <1>0, <1>11, EndSends DEF PageCloses
  <2>2. QED
    BY <1>0, <1>11, <2>1 DEF PageCloses, TypeOK
<1>12. ASSUME NEW x \in Sources, Respond(x) PROVE TypeOK'
  <2> DEFINE n == Head(cdp[x]).n
             s == st[n].session
  <2>1. cdp[x] # <<>>
    BY <1>12, Answering
  <2>2. n \in Ids /\ s \in Sessions /\ (Head(cdp[x]).why = "begin" => chain[s] # <<>>)
    BY <2>1, Answers
  <2>3. /\ [st[n] EXCEPT !.retune = "no"] \in Streams
        /\ [st[n] EXCEPT !.retune = "opening"] \in Streams
        /\ [st[n] EXCEPT !.handle = TRUE] \in Streams
        /\ [st[n] EXCEPT !.stopped = TRUE] \in Streams
        /\ [st[n] EXCEPT !.stopped = TRUE, !.handle = FALSE, !.retune = "no"] \in Streams
    <3>1. st[n] \in Streams
      BY <1>0, <2>2 DEF TypeOK
    <3> HIDE DEF n, s
    <3>2. QED
      BY <3>1 DEF Streams
  <2>4. ASSUME cdp' = Answered(x) \/ \E op \in {"start", "stop"}, why \in Whys : cdp' = Next2(x, op, n, why)
        PROVE  cdp' \in [Sources -> Seq(Commands)]
    BY <2>1, <2>4, Answer, AnswerAndSend
  <2>5. ASSUME Head(cdp[x]).why = "begin", Pop(s)
        PROVE  chain' \in [Sessions -> Seq(Ops)] /\ running' \in [Sessions -> Waits]
    BY <1>0, <2>2, <2>5, Pops
  <2> HIDE DEF n, s
  <2>6. CASE BeganStopped(x)
    <3>1. cdp' = Next2(x, "stop", n, "discard") /\ casting' = [casting EXCEPT ![x] = n]
      BY <2>6 DEF BeganStopped, n
    <3>2. cdp' \in [Sources -> Seq(Commands)]
      BY <2>4, <3>1 DEF Whys
    <3>3. QED
      BY <1>0, <2>2, <2>6, <3>1, <3>2 DEF BeganStopped, TypeOK, hub
  <2>7. CASE Began(x)
    <3>1. /\ cdp' = Answered(x) /\ Head(cdp[x]).why = "begin" /\ Pop(s)
          /\ st' = [st EXCEPT ![n].handle = TRUE]
          /\ casting' = [casting EXCEPT ![x] = n] /\ shows' = [shows EXCEPT ![s] = up]
          /\ UNCHANGED <<up, source, stream, open, made, retunes>>
      BY <2>7 DEF Began, Oldest, n, s
    <3>2. /\ cdp' \in [Sources -> Seq(Commands)]
          /\ chain' \in [Sessions -> Seq(Ops)] /\ running' \in [Sessions -> Waits]
      BY <2>4, <2>5, <3>1
    <3>3. /\ st' \in [Ids -> Streams] /\ casting' \in [Sources -> Ids \cup {None}]
          /\ shows' \in [Sessions -> BOOLEAN]
      BY <1>0, <2>2, <2>3, <3>1 DEF TypeOK
    <3>4. QED
      BY <1>0, <3>1, <3>2, <3>3 DEF TypeOK
  <2>8. CASE BeganLate(x)
    <3>1. /\ cdp' = Next2(x, "stop", n, "end") /\ Await(s, "ending", n, x)
          /\ st' = [st EXCEPT ![n].stopped = TRUE] /\ stream' = [stream EXCEPT ![s] = None]
      BY <2>8 DEF BeganLate, n, s
    <3>2. running' \in [Sessions -> Waits]
      BY <1>0, <2>2, <3>1 DEF Await, Waits, TypeOK
    <3>3. cdp' \in [Sources -> Seq(Commands)]
      BY <2>4, <3>1 DEF Whys
    <3>4. st' \in [Ids -> Streams] /\ stream' \in [Sessions -> Ids \cup {None}]
      BY <1>0, <2>2, <2>3, <3>1 DEF TypeOK
    <3>5. /\ casting' = [casting EXCEPT ![x] = n]
          /\ UNCHANGED <<up, source, chain, open, shows, made, retunes>>
      BY <2>8 DEF BeganLate, n
    <3>6. casting' \in [Sources -> Ids \cup {None}]
      BY <1>0, <2>2, <3>5 DEF TypeOK
    <3>7. QED
      BY <1>0, <3>2, <3>3, <3>4, <3>5, <3>6 DEF TypeOK
  <2>9. CASE BeginFails(x)
    <3>1. /\ cdp' = Answered(x) /\ Head(cdp[x]).why = "begin" /\ Pop(s)
          /\ st' = [st EXCEPT ![n].stopped = TRUE] /\ TellStopped(s)
          /\ stream' = [stream EXCEPT ![s] = IF @ = n THEN None ELSE @]
      BY <2>9 DEF BeginFails, Oldest, n, s
    <3>2. st' \in [Ids -> Streams] /\ stream' \in [Sessions -> Ids \cup {None}]
      BY <1>0, <2>2, <2>3, <3>1 DEF TypeOK
    <3>3. shows' \in [Sessions -> BOOLEAN]
      BY <1>0, <3>1 DEF TellStopped, TypeOK
    <3>4. QED
      BY <1>0, <2>2, <2>4, <2>5, <2>9, <3>1, <3>2, <3>3 DEF BeginFails, TypeOK
  <2>10. CASE Discarded(x)
    <3>1. /\ cdp' = Answered(x) /\ st' = [st EXCEPT ![n].retune = "no"]
          /\ IF Awaits(s, "beginning", n) THEN Pop(s) ELSE UNCHANGED <<chain, running>>
      BY <2>10 DEF Discarded, n, s
    <3>2. Awaits(s, "beginning", n) => chain[s] # <<>>
      BY <2>2 DEF Awaits, IInv, ChainsSound
    <3>3. chain' \in [Sessions -> Seq(Ops)] /\ running' \in [Sessions -> Waits]
      BY <1>0, <2>2, <3>1, <3>2, Pops DEF TypeOK
    <3>4. QED
      BY <1>0, <2>2, <2>3, <2>4, <2>10, <3>1, <3>3 DEF Discarded, TypeOK
  <2>11. CASE Retuned(x)
    <3>1. \/ cdp' = Answered(x) /\ st' = [st EXCEPT ![n].retune = "no"]
          \/ cdp' = Next2(x, "start", n, "retune") /\ st' = [st EXCEPT ![n].retune = "opening"]
      BY <2>11 DEF Retuned, n
    <3>2. cdp' \in [Sources -> Seq(Commands)]
      BY <2>4, <3>1 DEF Whys
    <3>3. st' \in [Ids -> Streams]
      BY <1>0, <2>2, <2>3, <3>1 DEF TypeOK
    <3>4. QED
      BY <1>0, <2>11, <3>2, <3>3 DEF Retuned, TypeOK
  <2>12. CASE Reopened(x)
    <3>1. \/ cdp' = Answered(x) /\ st' = [st EXCEPT ![n].retune = "no"]
          \/ cdp' = Next2(x, "stop", n, "discard") /\ UNCHANGED st
      BY <2>12 DEF Reopened, n
    <3>2. casting' = [casting EXCEPT ![x] = n]
      BY <2>12 DEF Reopened, n
    <3>3. cdp' \in [Sources -> Seq(Commands)]
      BY <2>4, <3>1 DEF Whys
    <3>4. st' \in [Ids -> Streams]
      BY <1>0, <2>2, <2>3, <3>1 DEF TypeOK
    <3>5. QED
      BY <1>0, <2>2, <2>12, <3>2, <3>3, <3>4 DEF Reopened, TypeOK
  <2>13. CASE ReopenFails(x)
    <3>1. /\ cdp' = Answered(x) /\ stream' = [stream EXCEPT ![s] = IF @ = n THEN None ELSE @]
          /\ st' = [st EXCEPT ![n] = [@ EXCEPT !.stopped = TRUE, !.handle = FALSE, !.retune = "no"]]
          /\ UNCHANGED shows \/ TellStopped(s)
      BY <2>13 DEF ReopenFails, n, s
    <3>2. st' \in [Ids -> Streams] /\ stream' \in [Sessions -> Ids \cup {None}]
      BY <1>0, <2>2, <2>3, <3>1 DEF TypeOK
    <3>3. shows' \in [Sessions -> BOOLEAN]
      BY <1>0, <3>1 DEF TellStopped, TypeOK
    <3>4. QED
      BY <1>0, <2>2, <2>4, <2>13, <3>1, <3>2, <3>3 DEF ReopenFails, TypeOK
  <2>14. CASE Stopped(x)
    <3>1. /\ casting' = [casting EXCEPT ![x] = None] /\ UNCHANGED <<up, source, open, retunes>>
          /\ \/ /\ cdp' = Answered(x) /\ TellStopped(s)
                /\ UNCHANGED <<stream, chain, running, st, made>>
             \/ /\ Awaits(s, "ending", n) \/ Awaits(s, "replacing", n)
                /\ cdp' = Answered(x) /\ TellStopped(s) /\ Pop(s)
                /\ UNCHANGED <<stream, st, made>>
             \/ /\ Awaits(s, "replacing", n) /\ source[s] = running[s].src
                /\ Create(s, source[s], Answered(x))
                /\ UNCHANGED <<chain, shows>>
      BY <2>14 DEF Stopped, StillWanted, n, s
    <3>2. Awaits(s, "ending", n) \/ Awaits(s, "replacing", n) => chain[s] # <<>>
      BY <2>2 DEF Awaits, IInv, ChainsSound
    <3>3. CASE /\ cdp' = Answered(x) /\ TellStopped(s)
               /\ UNCHANGED <<stream, chain, running, st, made>>
      BY <1>0, <2>4, <3>1, <3>3 DEF TellStopped, TypeOK
    <3>4. CASE /\ Awaits(s, "ending", n) \/ Awaits(s, "replacing", n)
               /\ cdp' = Answered(x) /\ TellStopped(s) /\ Pop(s)
               /\ UNCHANGED <<stream, st, made>>
      <4>1. chain' \in [Sessions -> Seq(Ops)] /\ running' \in [Sessions -> Waits]
        BY <1>0, <2>2, <3>2, <3>4, Pops
      <4>2. QED
        BY <1>0, <2>4, <3>1, <3>4, <4>1 DEF TellStopped, TypeOK
    <3>5. CASE /\ Awaits(s, "replacing", n) /\ source[s] = running[s].src
               /\ Create(s, source[s], Answered(x))
               /\ UNCHANGED <<chain, shows>>
      <4>1. source[s] \in Sources /\ Answered(x) \in [Sources -> Seq(Commands)]
        BY <2>1, <2>2, <3>5, Replaces DEF Awaits
      <4>2. /\ made' \in Counts /\ stream' \in [Sessions -> Ids \cup {None}]
            /\ st' \in [Ids -> Streams] /\ cdp' \in [Sources -> Seq(Commands)]
            /\ running' \in [Sessions -> Waits]
        BY <1>0, <2>2, <3>5, <4>1, Creates
      <4>3. QED
        BY <1>0, <3>1, <3>5, <4>2 DEF TypeOK
    <3>6. QED
      BY <3>1, <3>3, <3>4, <3>5
  <2>15. QED
    BY <1>12, <2>6, <2>7, <2>8, <2>9, <2>10, <2>11, <2>12, <2>13, <2>14 DEF Respond
<1>13. CASE UNCHANGED vars
  BY <1>0, <1>13 DEF vars, hub, browser, TypeOK
<1>14. QED
  BY <1>1, <1>2, <1>3, <1>4, <1>5, <1>6, <1>7, <1>8, <1>9, <1>10, <1>11, <1>12, <1>13 DEF Next, Step
-----------------------------------------------------------------------------
(***************************************************************************)
(* What the rest is proved from: what becomes of one stream in a step.     *)
(***************************************************************************)

\* A stream keeps its session and its source; once ended it stays ended.
LEMMA StreamsStay ==
  ASSUME IInv, [Next]_vars
  PROVE  /\ made.streams <= made'.streams /\ made.sources <= made'.sources
         /\ \A n \in 1..made.streams :
              /\ st'[n].session = st[n].session /\ st'[n].src = st[n].src
              /\ st[n].stopped => st'[n].stopped
<1> DEFINE Stay == /\ made.streams <= made'.streams /\ made.sources <= made'.sources
                   /\ \A n \in 1..made.streams :
                        /\ st'[n].session = st[n].session /\ st'[n].src = st[n].src
                        /\ st[n].stopped => st'[n].stopped
<1>0. /\ TypeOK /\ 1..made.streams \subseteq Ids /\ made.streams \in Nat /\ made.sources \in Nat
      /\ st \in [Ids -> Streams] /\ made \in Counts
  BY Bounds DEF IInv, TypeOK
<1>1. CASE UNCHANGED <<st, made>>
  BY <1>0, <1>1
<1>2. ASSUME UNCHANGED made, NEW E \in SUBSET Ids, End(E) PROVE Stay
  BY <1>0, <1>2, EndSends
<1>3. ASSUME NEW s \in Sessions, NEW x \in Sources, NEW queues \in [Sources -> Seq(Commands)],
             Create(s, x, queues)
      PROVE  Stay
  <2>1. /\ made'.streams = made.streams + 1 /\ made'.sources = made.sources
        /\ \A n \in 1..made.streams : st'[n] = st[n]
    <3>1. /\ made'.streams = made.streams + 1 /\ made'.sources = made.sources
          /\ st' = [st EXCEPT ![made.streams + 1] = [session |-> s, src |-> x, stopped |-> FALSE,
                                                     handle |-> FALSE, retune |-> "no"]]
      BY <1>0, <1>3, Creates
    <3>2. QED
      BY <1>0, <3>1
  <2>2. QED
    BY <1>0, <2>1
<1>4. ASSUME NEW s \in Sessions, Register(s) \/ \E op \in {"start", "stop"} : Frame(s, op) PROVE Stay
  <2>1. UNCHANGED st /\ made'.streams = made.streams /\ made.sources <= made'.sources
    BY <1>0, <1>4 DEF Register, Frame, Counts
  <2>2. QED
    BY <1>0, <2>1
<1>5. CASE Drop \/ (\E n \in Ids : Stalled(n)) \/ (\E x \in Sources : PageCloses(x))
  BY <1>2, <1>5 DEF Drop, Stalled, FinishOutsideChain, PageCloses
<1>6. ASSUME NEW s \in Sessions,
             Replace(s) \/ \E op \in {"stop", "unregister"} : StopRunning(s, op)
      PROVE  Stay
  <2>1. stream[s] \in Ids /\ End({stream[s]}) /\ UNCHANGED made
    BY <1>0, <1>6 DEF Replace, StopRunning, TypeOK
  <2>2. QED
    BY <1>2, <2>1
<1>7. ASSUME NEW s \in Sessions, StartNew(s) PROVE Stay
  BY <1>0, <1>3, <1>7 DEF StartNew, TypeOK
<1>8. ASSUME NEW n \in Ids, Retune(n) PROVE Stay
  <2>1. Becomes(n, st[n].stopped, st[n].handle, "stopping") /\ UNCHANGED made
    BY <1>0, <1>8, Retunes DEF Retune
  <2>2. QED
    BY <1>0, <2>1 DEF Becomes
<1>9. ASSUME NEW x \in Sources, Respond(x) PROVE Stay
  <2> DEFINE n == Head(cdp[x]).n
  <2>1. cdp[x] # <<>> /\ n \in Ids /\ st[n].session \in Sessions
    BY <1>9, Answering, Answers
  <2>2. ASSUME NEW stopped, NEW handle, NEW retune, Becomes(n, stopped, handle, retune),
               st[n].stopped => stopped, UNCHANGED made
        PROVE  Stay
    BY <1>0, <2>1, <2>2 DEF Becomes
  <2> HIDE DEF n
  <2>3. CASE \/ Began(x) \/ BeganLate(x) \/ BeginFails(x)
             \/ Discarded(x) \/ Retuned(x) \/ Reopened(x) \/ ReopenFails(x)
    <3>1. /\ UNCHANGED made
          /\ \/ UNCHANGED st
             \/ st' = [st EXCEPT ![n].stopped = TRUE]
             \/ st' = [st EXCEPT ![n].handle = TRUE]
             \/ \E r \in {"no", "opening"} : st' = [st EXCEPT ![n].retune = r]
             \/ st' = [st EXCEPT ![n] =
                         [@ EXCEPT !.stopped = TRUE, !.handle = FALSE, !.retune = "no"]]
      BY <2>3
      DEF Began, BeganLate, BeginFails, Discarded, Retuned, Reopened, ReopenFails, n
    <3>2. QED
      BY <1>0, <1>1, <2>1, <2>2, <3>1, Stops, GetsHandle, Retunes, Fails
  <2>4. CASE BeganStopped(x)
    BY <1>1, <2>4 DEF BeganStopped, hub
  <2>5. CASE Stopped(x)
    <3>1. \/ UNCHANGED <<st, made>>
          \/ /\ Awaits(st[n].session, "replacing", n)
             /\ source[st[n].session] = running[st[n].session].src
             /\ Create(st[n].session, source[st[n].session], Answered(x))
      BY <2>5 DEF Stopped, StillWanted, n
    <3>2. QED
      BY <1>1, <1>3, <2>1, <3>1, Replaces DEF Awaits
  <2>6. QED
    BY <1>9, <2>3, <2>4, <2>5 DEF Respond
<1>10. QED
  BY <1>1, <1>4, <1>5, <1>6, <1>7, <1>8, <1>9
  DEF Next, Step, Unregister, Reconnect, SkipStale, RefuseStart, StopNothing, hub, vars

-----------------------------------------------------------------------------
(***************************************************************************)
(* The answers of a browser, one by one: to the command of stream n, whose *)
(* session is s.                                                           *)
(***************************************************************************)

Took(x)              == cdp' = [cdp EXCEPT ![x] = Tail(@)]
Sent(x, op, n, why)  == cdp' = [cdp EXCEPT ![x] =
                                  Append(Tail(@), [op |-> op, n |-> n, why |-> why])]
Casts(x, n)          == casting' = [casting EXCEPT ![x] = n]
Leaves(s, n)         == stream' = [stream EXCEPT ![s] = IF @ = n THEN None ELSE @]
Same                 == UNCHANGED <<stream, chain, running, shows, made>>

ToBeginOfEnded(x, n) ==
  /\ Oldest(x, "start", "begin") /\ st[n].stopped
  /\ Casts(x, n) /\ Sent(x, "stop", n, "discard") /\ UNCHANGED st /\ Same

ToBegin(x, n, s) ==
  /\ Oldest(x, "start", "begin") /\ ~st[n].stopped /\ source[s] = x
  /\ Casts(x, n) /\ Took(x) /\ Becomes(n, FALSE, TRUE, st[n].retune) /\ Pop(s)
  /\ shows' = [shows EXCEPT ![s] = up] /\ UNCHANGED <<stream, made>>

ToLateBegin(x, n, s) ==
  /\ Oldest(x, "start", "begin") /\ ~st[n].stopped
  /\ Casts(x, n) /\ Sent(x, "stop", n, "end")
  /\ Becomes(n, TRUE, st[n].handle, st[n].retune)
  /\ stream' = [stream EXCEPT ![s] = None] /\ Await(s, "ending", n, x)
  /\ UNCHANGED <<chain, shows, made>>

ToFailedBegin(x, n, s) ==
  /\ Oldest(x, "start", "begin")
  /\ UNCHANGED casting /\ Took(x) /\ Becomes(n, TRUE, st[n].handle, st[n].retune)
  /\ Leaves(s, n) /\ Pop(s) /\ TellStopped(s) /\ UNCHANGED made

ToDiscard(x, n, s) ==
  /\ Oldest(x, "stop", "discard")
  /\ Casts(x, None) /\ Took(x) /\ Becomes(n, st[n].stopped, st[n].handle, "no")
  /\ IF Awaits(s, "beginning", n) THEN Pop(s) ELSE UNCHANGED <<chain, running>>
  /\ UNCHANGED <<stream, shows, made>>

ToRetune(x, n) ==
  /\ Oldest(x, "stop", "retune") /\ Casts(x, None) /\ Same
  /\ \/ st[n].stopped /\ Took(x) /\ Becomes(n, TRUE, st[n].handle, "no")
     \/ ~st[n].stopped /\ Sent(x, "start", n, "retune") /\ Becomes(n, FALSE, st[n].handle, "opening")

ToReopen(x, n) ==
  /\ Oldest(x, "start", "retune") /\ Casts(x, n) /\ Same
  /\ \/ st[n].stopped /\ Sent(x, "stop", n, "discard") /\ UNCHANGED st
     \/ ~st[n].stopped /\ Took(x) /\ Becomes(n, FALSE, st[n].handle, "no")

ToFailedReopen(x, n, s) ==
  /\ Oldest(x, "start", "retune")
  /\ UNCHANGED casting /\ Took(x) /\ Becomes(n, TRUE, FALSE, "no")
  /\ Leaves(s, n) /\ UNCHANGED <<chain, running, made>>
  /\ IF st[n].stopped THEN UNCHANGED shows ELSE TellStopped(s)

ToStop(x, n, s) ==
  /\ Oldest(x, "stop", "end") /\ Casts(x, None) /\ Took(x) /\ TellStopped(s)
  /\ UNCHANGED <<stream, st, made>>
  /\ \/ running[s].n # n /\ UNCHANGED <<chain, running>>
     \/ (Awaits(s, "ending", n) \/ Awaits(s, "replacing", n)) /\ Pop(s)

ToReplacingStop(x, n, s) ==
  /\ Oldest(x, "stop", "end") /\ Casts(x, None)
  /\ Awaits(s, "replacing", n) /\ StillWanted(s)
  /\ source[s] \in Sources /\ Answered(x) \in [Sources -> Seq(Commands)]
  /\ Create(s, source[s], Answered(x)) /\ UNCHANGED <<chain, shows>>

LEMMA Responses ==
  ASSUME IInv, NEW x \in Sources, Respond(x)
  PROVE  \E n \in 1..made.streams, s \in Sessions :
           /\ n \in Ids /\ n # None /\ st[n].session = s /\ st[n].src = x
           /\ cdp[x] # <<>> /\ Head(cdp[x]).n = n /\ CommandSound(x, Head(cdp[x]))
           /\ UNCHANGED <<up, source>>
           /\ \/ ToBeginOfEnded(x, n) \/ ToBegin(x, n, s) \/ ToLateBegin(x, n, s)
              \/ ToFailedBegin(x, n, s) \/ ToDiscard(x, n, s) \/ ToRetune(x, n)
              \/ ToReopen(x, n) \/ ToFailedReopen(x, n, s) \/ ToStop(x, n, s)
              \/ ToReplacingStop(x, n, s)
<1> DEFINE n == Head(cdp[x]).n
           s == st[n].session
<1>1. /\ TypeOK /\ cdp[x] # <<>> /\ n \in 1..made.streams /\ n \in Ids /\ n # None /\ s \in Sessions
      /\ st[n].src = x /\ CommandSound(x, Head(cdp[x]))
  BY Answering, Answers DEF IInv
<1>2. ASSUME BeganStopped(x) PROVE ToBeginOfEnded(x, n) /\ UNCHANGED <<up, source>>
  BY <1>2 DEF BeganStopped, ToBeginOfEnded, Next2, Sent, Casts, Same, hub
<1>3. ASSUME Began(x) PROVE ToBegin(x, n, s) /\ UNCHANGED <<up, source>>
  <2>1. st' = [st EXCEPT ![n].handle = TRUE] /\ ~st[n].stopped /\ st[n].stopped \in BOOLEAN
    BY <1>1, <1>3 DEF Began, TypeOK, Streams
  <2>2. Becomes(n, FALSE, TRUE, st[n].retune)
    BY <1>1, <2>1, GetsHandle
  <2> HIDE DEF n
  <2>3. QED
    BY <1>3, <2>2 DEF Began, ToBegin, Answered, Took, Casts, n
<1>4. ASSUME BeganLate(x) PROVE ToLateBegin(x, n, s) /\ UNCHANGED <<up, source>>
  <2>1. Becomes(n, TRUE, st[n].handle, st[n].retune)
    BY <1>1, <1>4, Stops DEF BeganLate
  <2>2. QED
    BY <1>4, <2>1 DEF BeganLate, ToLateBegin, Next2, Sent, Casts
<1>5. ASSUME BeginFails(x) PROVE ToFailedBegin(x, n, s) /\ UNCHANGED <<up, source>>
  <2>1. Becomes(n, TRUE, st[n].handle, st[n].retune)
    BY <1>1, <1>5, Stops DEF BeginFails
  <2>2. QED
    BY <1>5, <2>1 DEF BeginFails, ToFailedBegin, Answered, Took, Leaves
<1>6. ASSUME Discarded(x) PROVE ToDiscard(x, n, s) /\ UNCHANGED <<up, source>>
  <2>1. Becomes(n, st[n].stopped, st[n].handle, "no")
    BY <1>1, <1>6, Retunes DEF Discarded
  <2>2. QED
    BY <1>6, <2>1 DEF Discarded, ToDiscard, Answered, Took, Casts
<1>7. ASSUME Retuned(x) PROVE ToRetune(x, n) /\ UNCHANGED <<up, source>>
  <2>1. st[n].stopped \in BOOLEAN
    BY <1>1 DEF TypeOK, Streams
  <2>2. \A r \in {"no", "opening"} :
          st' = [st EXCEPT ![n].retune = r] => Becomes(n, st[n].stopped, st[n].handle, r)
    BY <1>1, Retunes
  <2>3. QED
    BY <1>7, <2>1, <2>2 DEF Retuned, ToRetune, Answered, Next2, Took, Sent, Casts, Same
<1>8. ASSUME Reopened(x) PROVE ToReopen(x, n) /\ UNCHANGED <<up, source>>
  <2>1. st[n].stopped \in BOOLEAN
    BY <1>1 DEF TypeOK, Streams
  <2>2. st' = [st EXCEPT ![n].retune = "no"] => Becomes(n, st[n].stopped, st[n].handle, "no")
    BY <1>1, Retunes
  <2>3. QED
    BY <1>8, <2>1, <2>2 DEF Reopened, ToReopen, Answered, Next2, Took, Sent, Casts, Same
<1>9. ASSUME ReopenFails(x) PROVE ToFailedReopen(x, n, s) /\ UNCHANGED <<up, source>>
  <2>1. Becomes(n, TRUE, FALSE, "no")
    BY <1>1, <1>9, Fails DEF ReopenFails
  <2>2. QED
    BY <1>9, <2>1 DEF ReopenFails, ToFailedReopen, Answered, Took, Leaves
<1>10. ASSUME Stopped(x)
       PROVE  (ToStop(x, n, s) \/ ToReplacingStop(x, n, s)) /\ UNCHANGED <<up, source>>
  <2>1. Awaits(s, "replacing", n) /\ StillWanted(s) =>
          source[s] \in Sources /\ Answered(x) \in [Sources -> Seq(Commands)]
    BY <1>1, Replaces DEF Awaits, StillWanted
  <2>2. QED
    BY <1>10, <2>1 DEF Stopped, ToStop, ToReplacingStop, Answered, Took, Casts
<1> HIDE DEF n, s
<1>11. st[n].session = s /\ Head(cdp[x]).n = n
  BY DEF n, s
<1>12. QED
  BY <1>1, <1>2, <1>3, <1>4, <1>5, <1>6, <1>7, <1>8, <1>9, <1>10, <1>11 DEF Respond

-----------------------------------------------------------------------------
(***************************************************************************)
(* The steps of the chains.                                                *)
(***************************************************************************)

\* What the first of a chain may be for the work that waits there.
LEMMA StepChainsSound == IInv /\ [Next]_vars => ChainsSound'
<1> SUFFICES ASSUME IInv, [Next]_vars PROVE ChainsSound'
  OBVIOUS
<1>0. TypeOK /\ ChainsSound
  BY DEF IInv
<1>t. /\ chain \in [Sessions -> Seq(Ops)] /\ running \in [Sessions -> Waits]
      /\ stream \in [Sessions -> Ids \cup {None}]
  BY <1>0 DEF TypeOK
<1>1. CASE UNCHANGED <<chain, running>> /\ \A t \in Sessions : stream'[t] \in {stream[t], None}
  BY <1>0, <1>1 DEF ChainsSound
<1>2. ASSUME NEW s \in Sessions, NEW op \in Ops, UNCHANGED <<running, stream>>,
             chain' = [chain EXCEPT ![s] = Append(@, op)]
      PROVE  ChainsSound'
  <2>1. /\ chain'[s] # <<>> /\ chain[s] # <<>> => Head(chain'[s]) = Head(chain[s])
        /\ \A t \in Sessions \ {s} : chain'[t] = chain[t]
    BY <1>t, <1>2, AppendElements
  <2>2. QED
    BY <1>0, <1>2, <2>1 DEF ChainsSound
<1>3. CASE Drop
  <2>1. \A t \in Sessions : chain[t] # <<>> =>
          /\ chain'[t] # <<>>
          /\ Head(chain'[t]) = IF Head(chain[t]) = "start" THEN "stale" ELSE Head(chain[t])
    BY <1>t, <1>3, StaleOps DEF Drop
  <2>2. QED
    BY <1>0, <1>3, <2>1 DEF Drop, ChainsSound
<1>4. ASSUME NEW s \in Sessions, chain[s] # <<>>, Pop(s),
             \A t \in Sessions : stream'[t] \in {stream[t], None}
      PROVE  ChainsSound'
  <2>1. /\ running'[s] = NothingRuns
        /\ \A t \in Sessions \ {s} : running'[t] = running[t] /\ chain'[t] = chain[t]
    BY <1>0, <1>t, <1>4, Pops
  <2>2. QED
    BY <1>0, <1>4, <2>1 DEF ChainsSound, NothingRuns
<1>5. ASSUME NEW s \in Sessions, NEW x \in Sources, NEW queues \in [Sources -> Seq(Commands)],
             Create(s, x, queues), chain[s] # <<>>, Head(chain[s]) = "start", UNCHANGED chain
      PROVE  ChainsSound'
  <2>1. /\ running'[s] = [doing |-> "beginning", n |-> made.streams + 1, src |-> x]
        /\ \A t \in Sessions \ {s} : running'[t] = running[t] /\ stream'[t] = stream[t]
    <3>1. /\ stream' = [stream EXCEPT ![s] = made.streams + 1]
          /\ running' = [running EXCEPT ![s] = [doing |-> "beginning", n |-> made.streams + 1,
                                               src |-> x]]
      BY <1>0, <1>5, Creates
    <3>2. QED
      BY <1>t, <3>1
  <2>2. QED
    BY <1>0, <1>5, <2>1 DEF ChainsSound
<1>6. ASSUME NEW s \in Sessions,
             Replace(s) \/ \E op \in {"stop", "unregister"} : StopRunning(s, op)
      PROVE  ChainsSound'
  <2>1. /\ chain[s] # <<>> /\ stream'[s] = None /\ UNCHANGED chain
        /\ \/ running'[s].doing = "ending"
           \/ running'[s].doing = "replacing" /\ Head(chain[s]) = "start" /\ running'[s].src # None
        /\ \A t \in Sessions \ {s} : running'[t] = running[t] /\ stream'[t] = stream[t]
    BY <1>t, <1>6 DEF Replace, StopRunning, Await, Idle
  <2>2. QED
    BY <1>0, <2>1 DEF ChainsSound
<1>7. ASSUME NEW x \in Sources, Respond(x) PROVE ChainsSound'
  <2>1. PICK n \in 1..made.streams, s \in Sessions :
          /\ st[n].session = s /\ Head(cdp[x]).n = n /\ CommandSound(x, Head(cdp[x]))
          /\ \/ ToBeginOfEnded(x, n) \/ ToBegin(x, n, s) \/ ToLateBegin(x, n, s)
             \/ ToFailedBegin(x, n, s) \/ ToDiscard(x, n, s) \/ ToRetune(x, n)
             \/ ToReopen(x, n) \/ ToFailedReopen(x, n, s) \/ ToStop(x, n, s)
             \/ ToReplacingStop(x, n, s)
    BY <1>7, Responses
  <2>2. Head(cdp[x]).why = "begin" => Awaits(s, "beginning", n)
    BY <2>1 DEF CommandSound
  <2>3. \A what \in {"beginning", "ending", "replacing"} : Awaits(s, what, n) => chain[s] # <<>>
    BY <1>0 DEF ChainsSound, Awaits
  <2>4. Leaves(s, n) => \A t \in Sessions : stream'[t] \in {stream[t], None}
    BY <1>t DEF Leaves
  <2>5. CASE ToBeginOfEnded(x, n) \/ ToRetune(x, n) \/ ToReopen(x, n)
    BY <1>1, <2>5 DEF ToBeginOfEnded, ToRetune, ToReopen, Same
  <2>6. CASE ToBegin(x, n, s)
    BY <1>4, <2>2, <2>3, <2>6 DEF ToBegin, Oldest
  <2>7. CASE ToFailedBegin(x, n, s)
    BY <1>4, <2>2, <2>3, <2>4, <2>7 DEF ToFailedBegin, Oldest
  <2>8. CASE ToDiscard(x, n, s)
    <3>1. CASE Awaits(s, "beginning", n)
      BY <1>4, <2>3, <2>8, <3>1 DEF ToDiscard
    <3>2. CASE ~Awaits(s, "beginning", n)
      BY <1>1, <2>8, <3>2 DEF ToDiscard
    <3>3. QED
      BY <3>1, <3>2
  <2>9. CASE ToFailedReopen(x, n, s)
    BY <1>1, <2>4, <2>9 DEF ToFailedReopen
  <2>10. CASE ToStop(x, n, s)
    BY <1>1, <1>4, <2>3, <2>10 DEF ToStop
  <2>11. CASE ToReplacingStop(x, n, s)
    BY <1>5, <2>3, <2>11 DEF ToReplacingStop, StillWanted
  <2>12. CASE ToLateBegin(x, n, s)
    <3>1. /\ chain[s] # <<>> /\ stream'[s] = None /\ UNCHANGED chain
          /\ running'[s].doing = "ending"
          /\ \A t \in Sessions \ {s} : running'[t] = running[t] /\ stream'[t] = stream[t]
      BY <1>t, <2>2, <2>3, <2>12 DEF ToLateBegin, Await, Oldest
    <3>2. QED
      BY <1>0, <3>1 DEF ChainsSound
  <2>13. QED
    BY <2>1, <2>5, <2>6, <2>7, <2>8, <2>9, <2>10, <2>11, <2>12
<1>8. ASSUME NEW s \in Sessions, Step(s) PROVE ChainsSound'
  <2>1. CASE SkipStale(s) \/ RefuseStart(s) \/ \E op \in {"stop", "unregister"} : StopNothing(s, op)
    BY <1>4, <2>1 DEF SkipStale, RefuseStart, StopNothing, Idle
  <2>2. CASE StartNew(s)
    <3>1. source[s] \in Sources /\ cdp \in [Sources -> Seq(Commands)]
      BY <1>0, <2>2 DEF StartNew, TypeOK
    <3>2. QED
      BY <1>5, <2>2, <3>1 DEF StartNew, Idle
  <2>3. QED
    BY <1>6, <1>8, <2>1, <2>2 DEF Step
<1>9. ASSUME NEW s \in Sessions,
             Register(s) \/ Unregister(s) \/ \E op \in {"start", "stop"} : Frame(s, op)
      PROVE  ChainsSound'
  BY <1>1, <1>2, <1>9 DEF Register, Unregister, Frame, Ops
<1>10. ASSUME NEW n \in Ids, Stalled(n) \/ Retune(n) PROVE ChainsSound'
  BY <1>1, <1>t, <1>10 DEF Stalled, Retune, FinishOutsideChain
<1>11. ASSUME NEW x \in Sources, PageCloses(x) PROVE ChainsSound'
  BY <1>1, <1>t, <1>11 DEF PageCloses
<1>12. CASE Reconnect \/ UNCHANGED vars
  BY <1>1, <1>12 DEF Reconnect, hub, vars
<1>13. QED
  BY <1>3, <1>7, <1>8, <1>9, <1>10, <1>11, <1>12 DEF Next

\* Without a connection nothing starts.
LEMMA StepDownSound == IInv /\ [Next]_vars => DownSound'
<1> SUFFICES ASSUME IInv, [Next]_vars, ~up' PROVE DownSound'
  BY DEF DownSound
<1> DEFINE Quiet(t) == ~shows[t] /\ stream[t] = None /\ "start" \notin Elements(chain[t])
<1>0. TypeOK /\ ChainsSound /\ (~up => \A t \in Sessions : Quiet(t))
  BY DEF IInv, DownSound
<1>t. /\ chain \in [Sessions -> Seq(Ops)] /\ shows \in [Sessions -> BOOLEAN]
      /\ stream \in [Sessions -> Ids \cup {None}]
  BY <1>0 DEF TypeOK
<1>q. (\A t \in Sessions : Quiet(t)') => DownSound'
  BY DEF DownSound
<1>1. CASE Drop
  <2>1. \A t \in Sessions : "start" \notin Elements(Stale(chain[t]))
    BY <1>t, StaleOps
  <2>2. QED
    BY <1>1, <2>1 DEF Drop, DownSound
<1>2. CASE Reconnect
  BY <1>2 DEF Reconnect
<1>3. ASSUME ~up, \A t \in Sessions : /\ shows'[t] => shows[t]
                                      /\ stream'[t] \in {stream[t], None}
                                      /\ Elements(chain'[t]) \subseteq Elements(chain[t])
      PROVE  DownSound'
  BY <1>0, <1>3 DEF DownSound
<1>4. ASSUME ~up, NEW s \in Sessions, chain[s] # <<>>, Pop(s),
             \A t \in Sessions : (shows'[t] => shows[t]) /\ stream'[t] \in {stream[t], None}
      PROVE  DownSound'
  <2>1. \A t \in Sessions : Elements(chain'[t]) \subseteq Elements(chain[t])
    BY <1>0, <1>t, <1>4, Pops
  <2>2. QED
    BY <1>3, <1>4, <2>1
<1>5. ASSUME ~up, NEW s \in Sessions, chain[s] # <<>> PROVE Head(chain[s]) # "start"
  <2>1. Head(chain[s]) \in Elements(chain[s])
    BY <1>t, <1>5, TailElements
  <2>2. QED
    BY <1>0, <1>5, <2>1
<1>6. ASSUME NEW s \in Sessions, Register(s) \/ Unregister(s) \/ \E op \in {"start", "stop"} : Frame(s, op)
      PROVE  DownSound'
  <2>1. CASE Register(s)
    BY <1>3, <1>t, <2>1 DEF Register
  <2>2. CASE Unregister(s)
    <3>1. \A t \in Sessions : Elements(chain'[t]) \subseteq Elements(chain[t]) \cup {"unregister"}
      BY <1>t, <2>2, AppendElements DEF Unregister, Ops
    <3>2. QED
      BY <1>0, <2>2, <3>1 DEF Unregister, DownSound
  <2>3. QED
    BY <1>6, <2>1, <2>2 DEF Frame
<1>7. ASSUME NEW s \in Sessions, Step(s) PROVE DownSound'
  <2>0. ~up
    BY <1>7 DEF Step, SkipStale, RefuseStart, StartNew, Replace, StopRunning, StopNothing
  <2>1. CASE SkipStale(s) \/ RefuseStart(s) \/ \E op \in {"stop", "unregister"} : StopNothing(s, op)
    <3>1. \A t \in Sessions : (shows'[t] => shows[t]) /\ stream'[t] \in {stream[t], None}
      BY <1>t, <2>1 DEF SkipStale, RefuseStart, StopNothing, TellStopped
    <3>2. QED
      BY <1>4, <2>0, <2>1, <3>1 DEF SkipStale, RefuseStart, StopNothing, Idle
  <2>2. CASE StartNew(s) \/ Replace(s)
    BY <1>5, <2>0, <2>2 DEF StartNew, Replace, Idle
  <2>3. CASE \E op \in {"stop", "unregister"} : StopRunning(s, op)
    BY <1>0, <2>0, <2>3 DEF StopRunning
  <2>4. QED
    BY <1>7, <2>1, <2>2, <2>3 DEF Step
<1>8. CASE (\E n \in Ids : Stalled(n) \/ Retune(n)) \/ \E x \in Sources : PageCloses(x)
  <2>1. ~up /\ \A t \in Sessions : /\ shows'[t] => shows[t]
                                   /\ stream'[t] \in {stream[t], None}
                                   /\ Elements(chain'[t]) \subseteq Elements(chain[t])
    <3>1. ~up /\ UNCHANGED chain
      <4>1. (\E n \in Ids : Stalled(n) \/ Retune(n)) => UNCHANGED <<up, chain>>
        BY DEF Stalled, Retune
      <4>2. (\E x \in Sources : PageCloses(x)) => UNCHANGED <<up, chain>>
        BY DEF PageCloses
      <4>3. QED
        BY <1>8, <4>1, <4>2
    <3>2. \A t \in Sessions : shows'[t] => shows[t]
      BY <1>t, <1>8 DEF Stalled, Retune, PageCloses
    <3>3. \A t \in Sessions : stream'[t] \in {stream[t], None}
      BY <1>t, <1>8 DEF Stalled, Retune, FinishOutsideChain, PageCloses
    <3>4. QED
      BY <3>1, <3>2, <3>3
  <2>2. QED
    BY <1>3, <2>1
<1>9. ASSUME NEW x \in Sources, Respond(x) PROVE DownSound'
  <2>1. PICK n \in 1..made.streams, s \in Sessions :
          /\ st[n].session = s /\ Head(cdp[x]).n = n /\ CommandSound(x, Head(cdp[x]))
          /\ UNCHANGED <<up, source>>
          /\ \/ ToBeginOfEnded(x, n) \/ ToBegin(x, n, s) \/ ToLateBegin(x, n, s)
             \/ ToFailedBegin(x, n, s) \/ ToDiscard(x, n, s) \/ ToRetune(x, n)
             \/ ToReopen(x, n) \/ ToFailedReopen(x, n, s) \/ ToStop(x, n, s)
             \/ ToReplacingStop(x, n, s)
    BY <1>9, Responses
  <2>2. Head(cdp[x]).why = "begin" => Awaits(s, "beginning", n)
    BY <2>1 DEF CommandSound
  <2>3. \A what \in {"beginning", "ending", "replacing"} : Awaits(s, what, n) => chain[s] # <<>>
    BY <1>0 DEF ChainsSound, Awaits
  <2>4. ~ToReplacingStop(x, n, s)
    BY <1>5, <2>1, <2>3 DEF ToReplacingStop, StillWanted
  <2>5. \A t \in Sessions : (shows'[t] => shows[t]) /\ stream'[t] \in {stream[t], None}
    BY <1>t, <2>1, <2>4
    DEF ToBeginOfEnded, ToBegin, ToLateBegin, ToFailedBegin, ToDiscard, ToRetune, ToReopen,
        ToFailedReopen, ToStop, Same, Leaves, TellStopped
  <2>6. UNCHANGED chain \/ (Pop(s) /\ chain[s] # <<>>)
    BY <2>1, <2>2, <2>3, <2>4
    DEF ToBeginOfEnded, ToBegin, ToLateBegin, ToFailedBegin, ToDiscard, ToRetune, ToReopen,
        ToFailedReopen, ToStop, Same, Oldest
  <2>7. QED
    BY <1>3, <1>4, <2>1, <2>5, <2>6
<1>10. CASE UNCHANGED vars
  BY <1>3, <1>t, <1>10 DEF vars, hub
<1>11. QED
  BY <1>1, <1>2, <1>6, <1>7, <1>8, <1>9, <1>10 DEF Next

\* A closed session's unregister waits until its stream is gone.
LEMMA StepClosesSound == IInv /\ [Next]_vars => ClosesSound'
<1> SUFFICES ASSUME IInv, [Next]_vars PROVE ClosesSound'
  OBVIOUS
<1>0. TypeOK /\ ChainsSound /\ StreamsSound /\ ClosesSound
  BY DEF IInv
<1>t. /\ chain \in [Sessions -> Seq(Ops)] /\ source \in [Sessions -> Sources \cup {None}]
      /\ stream \in [Sessions -> Ids \cup {None}] /\ running \in [Sessions -> Waits]
  BY <1>0 DEF TypeOK
<1>1. ASSUME UNCHANGED <<chain, source>>, \A t \in Sessions : stream'[t] \in {stream[t], None}
      PROVE  ClosesSound'
  BY <1>0, <1>1 DEF ClosesSound
<1>2. ASSUME NEW s \in Sessions, NEW op \in Ops, UNCHANGED stream,
             chain' = [chain EXCEPT ![s] = Append(@, op)],
             UNCHANGED source \/ (op = "unregister" /\ source' = [source EXCEPT ![s] = None])
      PROVE  ClosesSound'
  <2>1. /\ Elements(chain'[s]) = Elements(chain[s]) \cup {op}
        /\ \A t \in Sessions \ {s} : chain'[t] = chain[t] /\ source'[t] = source[t]
        /\ source'[s] = source[s] \/ op = "unregister"
    BY <1>t, <1>2, AppendElements
  <2>2. QED
    BY <1>0, <1>2, <2>1 DEF ClosesSound
<1>3. ASSUME NEW s \in Sessions, chain[s] # <<>>, Pop(s), UNCHANGED source,
             \A t \in Sessions : stream'[t] \in {stream[t], None},
             Head(chain[s]) # "unregister" \/ stream'[s] = None
      PROVE  ClosesSound'
  <2>1. /\ Elements(chain[s]) = {Head(chain[s])} \cup Elements(chain'[s])
        /\ \A t \in Sessions \ {s} : chain'[t] = chain[t]
    BY <1>0, <1>t, <1>3, Pops
  <2>2. QED
    BY <1>0, <1>3, <2>1 DEF ClosesSound
<1>4. ASSUME NEW s \in Sessions, NEW x \in Sources, NEW queues \in [Sources -> Seq(Commands)],
             Create(s, x, queues), source[s] # None, UNCHANGED <<chain, source>>
      PROVE  ClosesSound'
  <2>1. \A t \in Sessions \ {s} : stream'[t] = stream[t]
    BY <1>t, <1>4 DEF Create
  <2>2. QED
    BY <1>0, <1>4, <2>1 DEF ClosesSound
<1>5. ASSUME NEW s \in Sessions, Register(s) \/ Unregister(s) \/ \E op \in {"start", "stop"} : Frame(s, op)
      PROVE  ClosesSound'
  <2>1. CASE Register(s)
    <3>1. source'[s] # None /\ \A t \in Sessions \ {s} : source'[t] = source[t]
      BY <1>0, <1>t, <2>1, Bounds DEF Register, None
    <3>2. QED
      BY <1>0, <2>1, <3>1 DEF Register, ClosesSound
  <2>2. QED
    BY <1>2, <1>5, <2>1 DEF Unregister, Frame, Ops
<1>6. ASSUME NEW s \in Sessions, Step(s) PROVE ClosesSound'
  <2>1. CASE SkipStale(s) \/ RefuseStart(s) \/ \E op \in {"stop", "unregister"} : StopNothing(s, op)
    <3>1. /\ UNCHANGED <<source, stream>> /\ Pop(s) /\ chain[s] # <<>>
          /\ Head(chain[s]) \in {"stale", "start"} \/ stream[s] = None
      BY <2>1 DEF SkipStale, RefuseStart, StopNothing, Idle
    <3>2. QED
      BY <1>3, <3>1
  <2>2. CASE StartNew(s)
    <3>1. source[s] \in Sources /\ cdp \in [Sources -> Seq(Commands)]
      BY <1>0, <2>2 DEF StartNew, TypeOK
    <3>2. QED
      BY <1>4, <2>2, <3>1 DEF StartNew
  <2>3. CASE Replace(s) \/ \E op \in {"stop", "unregister"} : StopRunning(s, op)
    BY <1>1, <1>t, <2>3 DEF Replace, StopRunning
  <2>4. QED
    BY <1>6, <2>1, <2>2, <2>3 DEF Step
<1>7. CASE \/ \E n \in Ids : Stalled(n) \/ Retune(n)
           \/ \E x \in Sources : PageCloses(x)
  BY <1>1, <1>t, <1>7 DEF Stalled, Retune, FinishOutsideChain, PageCloses
<1>8. CASE Drop \/ Reconnect \/ UNCHANGED vars
  BY <1>1, <1>8 DEF Drop, Reconnect, hub, vars, ClosesSound
<1>9. ASSUME NEW x \in Sources, Respond(x) PROVE ClosesSound'
  <2>1. PICK n \in 1..made.streams, s \in Sessions :
          /\ n \in Ids /\ n # None /\ st[n].session = s
          /\ Head(cdp[x]).n = n /\ CommandSound(x, Head(cdp[x])) /\ UNCHANGED <<up, source>>
          /\ \/ ToBeginOfEnded(x, n) \/ ToBegin(x, n, s) \/ ToLateBegin(x, n, s)
             \/ ToFailedBegin(x, n, s) \/ ToDiscard(x, n, s) \/ ToRetune(x, n)
             \/ ToReopen(x, n) \/ ToFailedReopen(x, n, s) \/ ToStop(x, n, s)
             \/ ToReplacingStop(x, n, s)
    BY <1>9, Responses
  <2>2. Head(cdp[x]).why = "begin" => Awaits(s, "beginning", n)
    BY <2>1 DEF CommandSound
  <2>3. \A what \in {"beginning", "ending", "replacing"} : Awaits(s, what, n) =>
          /\ chain[s] # <<>>
          /\ Head(chain[s]) # "unregister" \/ stream[s] = None
    BY <1>0 DEF ChainsSound, Awaits
  <2>4. CASE ToReplacingStop(x, n, s)
    <3>1. source[s] \in Sources /\ source[s] # None
      BY <2>4, ViewBounds DEF ToReplacingStop, Sources, None
    <3>2. QED
      BY <1>4, <2>1, <2>4, <3>1 DEF ToReplacingStop
  <2>5. CASE ~ToReplacingStop(x, n, s)
    <3>1. \A t \in Sessions : stream'[t] \in {stream[t], None}
      BY <1>t, <2>1, <2>5
      DEF ToBeginOfEnded, ToBegin, ToLateBegin, ToFailedBegin, ToDiscard, ToRetune, ToReopen,
          ToFailedReopen, ToStop, Same, Leaves
    <3>2. UNCHANGED chain \/ \E what \in {"beginning", "ending", "replacing"} : Awaits(s, what, n) /\ Pop(s)
      BY <2>1, <2>2, <2>5
      DEF ToBeginOfEnded, ToBegin, ToLateBegin, ToFailedBegin, ToDiscard, ToRetune, ToReopen,
          ToFailedReopen, ToStop, Same, Oldest
    <3>3. QED
      BY <1>1, <1>3, <2>1, <2>3, <3>1, <3>2
  <2>6. QED
    BY <2>4, <2>5
<1>10. QED
  BY <1>5, <1>6, <1>7, <1>8, <1>9 DEF Next

-----------------------------------------------------------------------------
(***************************************************************************)
(* The steps of the streams.                                               *)
(***************************************************************************)

\* A stream that runs was made, and is of a session.
LEMMA RunningMade ==
  ASSUME TypeOK, Numbered, NEW n \in Ids, ~st[n].stopped
  PROVE  n \in 1..made.streams /\ st[n].session \in Sessions
<1>1. st[n] # Unused
  BY DEF Unused
<1>2. n \in Nat /\ made.streams \in Nat /\ n >= 1 /\ ~(n > made.streams)
  BY <1>1, Bounds, ViewBounds DEF Ids, Numbered
<1>3. QED
  BY <1>2 DEF Numbered

\* Who makes a stream: a session with a source and without a stream.
LEMMA Making ==
  ASSUME IInv, NEW s \in Sessions, NEW x \in Sources, NEW queues \in [Sources -> Seq(Commands)],
         Create(s, x, queues), x = source[s]
  PROVE  LET n == made.streams + 1 IN
         /\ n \in Ids /\ n \in Nat /\ n # None /\ n \notin 1..made.streams
         /\ made'.streams = n /\ made'.sources = made.sources
         /\ x \in 1..made.sources
         /\ st'[n] = [session |-> s, src |-> x, stopped |-> FALSE, handle |-> FALSE, retune |-> "no"]
         /\ \A m \in Ids \ {n} : st'[m] = st[m]
         /\ stream'[s] = n /\ \A t \in Sessions \ {s} : stream'[t] = stream[t]
         /\ running'[s] = [doing |-> "beginning", n |-> n, src |-> x]
         /\ \A t \in Sessions \ {s} : running'[t] = running[t]
<1> DEFINE n == made.streams + 1
<1>1. /\ TypeOK /\ n \in Ids /\ made'.streams = n /\ made'.sources = made.sources
      /\ stream' = [stream EXCEPT ![s] = n]
      /\ st' = [st EXCEPT ![n] = [session |-> s, src |-> x, stopped |-> FALSE,
                                  handle |-> FALSE, retune |-> "no"]]
      /\ running' = [running EXCEPT ![s] = [doing |-> "beginning", n |-> n, src |-> x]]
  BY Creates DEF IInv
<1>2. n \in Nat /\ n # None /\ n \notin 1..made.streams
  BY <1>1, Bounds DEF None
<1>3. x \in 1..made.sources
  BY <1>1, Bounds, ViewBounds DEF IInv, Numbered, Sources
<1>4. /\ st \in [Ids -> Streams] /\ stream \in [Sessions -> Ids \cup {None}]
      /\ running \in [Sessions -> Waits]
  BY <1>1 DEF TypeOK
<1> HIDE DEF n
<1>5. /\ st'[n] = [session |-> s, src |-> x, stopped |-> FALSE, handle |-> FALSE, retune |-> "no"]
      /\ \A m \in Ids \ {n} : st'[m] = st[m]
  BY <1>1, <1>4
<1>6. /\ stream'[s] = n /\ \A t \in Sessions \ {s} : stream'[t] = stream[t]
      /\ running'[s] = [doing |-> "beginning", n |-> n, src |-> x]
      /\ \A t \in Sessions \ {s} : running'[t] = running[t]
  BY <1>1, <1>4
<1>7. QED
  BY <1>1, <1>2, <1>3, <1>5, <1>6 DEF n

LEMMA StepNumbered == IInv /\ [Next]_vars => Numbered'
<1> SUFFICES ASSUME IInv, [Next]_vars PROVE Numbered'
  OBVIOUS
<1>0. /\ TypeOK /\ Numbered /\ ChainsSound
      /\ made.streams \in Nat /\ made.sources \in Nat /\ 1..made.streams \subseteq Ids
      /\ Ids \subseteq Nat /\ Sources \subseteq Nat
  BY Bounds, ViewBounds DEF IInv, Ids, Sources
<1>n. \A k \in Sources \cup {None}, m \in Ids \cup {None} : k \in Nat /\ m \in Nat
  BY <1>0 DEF None
<1>t. /\ source \in [Sessions -> Sources \cup {None}]
      /\ stream \in [Sessions -> Ids \cup {None}] /\ running \in [Sessions -> Waits]
      /\ st \in [Ids -> Streams]
  BY <1>0 DEF TypeOK
\* A step that makes nothing and changes streams that were made.
<1>1. ASSUME made'.streams = made.streams, made'.sources = made.sources,
             \A t \in Sessions : /\ stream'[t] \in {stream[t], None}
                                 /\ running'[t].n \in {running[t].n, None, stream[t]} \cup 1..made.streams
                                 /\ source'[t] \in {source[t], None},
             \A m \in Ids : m > made.streams => st'[m] = st[m]
      PROVE  Numbered'
  <2>1. \A m \in 1..made.streams : st'[m].session = st[m].session /\ st'[m].src = st[m].src
    BY StreamsStay
  <2>2. /\ \A m \in Ids : m > made.streams => st'[m] = Unused
        /\ \A m \in 1..made.streams : st'[m].session \in Sessions /\ st'[m].src \in 1..made.sources
        /\ \A m, k \in 1..made.streams : st'[m].src = st'[k].src => st'[m].session = st'[k].session
    <3>1. \A m \in Ids : m > made.streams => st'[m] = Unused
      BY <1>0, <1>1 DEF Numbered
    <3>2. \A m \in 1..made.streams : st[m].session \in Sessions /\ st[m].src \in 1..made.sources
      BY <1>0 DEF Numbered
    <3>3. \A m, k \in 1..made.streams : st[m].src = st[k].src => st[m].session = st[k].session
      BY <1>0 DEF Numbered
    <3>4. QED
      BY <2>1, <3>1, <3>2, <3>3
  <2>3. ASSUME NEW t \in Sessions
        PROVE  /\ stream'[t] <= made.streams /\ running'[t].n <= made.streams
               /\ source'[t] <= made.sources
    BY <1>0, <1>1, <1>t DEF Numbered, None
  <2>4. ASSUME NEW t \in Sessions
        PROVE  /\ \A u \in Sessions : source'[t] # None /\ source'[t] = source'[u] => t = u
               /\ \A m \in 1..made.streams : st'[m].src = source'[t] => st'[m].session = t
    BY <1>0, <1>1, <2>1 DEF Numbered, None
  <2>5. QED
    BY <1>1, <2>2, <2>3, <2>4 DEF Numbered
<1>2. ASSUME NEW s \in Sessions, Register(s) PROVE Numbered'
  <2>1. /\ made'.streams = made.streams /\ made'.sources = made.sources + 1
        /\ UNCHANGED <<stream, running, st>>
        /\ source'[s] = made.sources + 1 /\ \A t \in Sessions \ {s} : source'[t] = source[t]
    BY <1>0, <1>t, <1>2 DEF Register, TypeOK, Counts
  <2>2. \A t \in Sessions : source[t] <= made.sources /\ source[t] \in Nat
    <3>1. \A t \in Sessions : source[t] <= made.sources
      BY <1>0 DEF Numbered
    <3>2. QED
      BY <1>n, <1>t, <3>1
  <2>3. \A m \in 1..made.streams : st[m].src \in 1..made.sources
    BY <1>0 DEF Numbered
  <2>4. ASSUME NEW t \in Sessions
        PROVE  /\ stream'[t] <= made.streams /\ running'[t].n <= made.streams
               /\ source'[t] <= made.sources + 1
               /\ \A u \in Sessions : source'[t] # None /\ source'[t] = source'[u] => t = u
               /\ \A m \in 1..made.streams : st[m].src = source'[t] => st[m].session = t
    BY <1>0, <2>1, <2>2, <2>3 DEF Numbered
  <2>5. \A m \in 1..made.streams : st[m].session \in Sessions /\ st[m].src \in 1..made.sources + 1
    BY <1>0, <2>3 DEF Numbered
  <2>6. QED
    BY <1>0, <2>1, <2>4, <2>5 DEF Numbered
<1>3. ASSUME NEW s \in Sessions, NEW x \in Sources, NEW queues \in [Sources -> Seq(Commands)],
             Create(s, x, queues), x = source[s], UNCHANGED source
      PROVE  Numbered'
  <2> DEFINE n == made.streams + 1
  <2>1. /\ n \in Ids /\ n \in Nat /\ n # None /\ n \notin 1..made.streams
        /\ made'.streams = n /\ made'.sources = made.sources
        /\ x \in 1..made.sources
        /\ st'[n] = [session |-> s, src |-> x, stopped |-> FALSE, handle |-> FALSE, retune |-> "no"]
        /\ \A m \in Ids \ {n} : st'[m] = st[m]
        /\ stream'[s] = n /\ \A t \in Sessions \ {s} : stream'[t] = stream[t]
        /\ running'[s] = [doing |-> "beginning", n |-> n, src |-> x]
        /\ \A t \in Sessions \ {s} : running'[t] = running[t]
    BY <1>3, Making
  <2>2. 1..n = 1..made.streams \cup {n} /\ \A k \in Nat : k <= made.streams => k <= n
    BY <1>0
  <2>n. n <= n /\ \A m \in Ids : m > n => m > made.streams /\ m # n
    BY <1>0, <2>1
  <2>3. st'[n].session = s /\ st'[n].src = x
    BY <2>1
  <2> HIDE DEF n
  <2>4. \A m \in Ids : m > n => st'[m] = Unused
    BY <1>0, <2>1, <2>n DEF Numbered
  <2>5. \A m \in 1..n : st'[m].session \in Sessions /\ st'[m].src \in 1..made.sources
    BY <1>0, <2>1, <2>2, <2>3 DEF Numbered
  <2>6. ASSUME NEW m \in 1..made.streams
        PROVE  st'[m] = st[m] /\ (st[m].src = x => st[m].session = s)
    BY <1>0, <1>3, <2>1 DEF Numbered
  <2>7. \A m, k \in 1..n : st'[m].src = st'[k].src => st'[m].session = st'[k].session
    <3>1. \A m, k \in 1..made.streams : st[m].src = st[k].src => st[m].session = st[k].session
      BY <1>0 DEF Numbered
    <3>2. QED
      BY <2>2, <2>3, <2>6, <3>1
  <2>8. ASSUME NEW t \in Sessions
        PROVE  stream'[t] <= n /\ running'[t].n <= n /\ source'[t] <= made.sources
    <3>1. stream[t] \in Nat /\ running[t].n \in Nat
      BY <1>n, <1>t DEF Waits
    <3>2. stream[t] <= n /\ running[t].n <= n
      BY <1>0, <2>2, <3>1 DEF Numbered
    <3>3. QED
      BY <1>0, <1>3, <2>1, <2>n, <3>2 DEF Numbered
  <2>9. ASSUME NEW t \in Sessions
        PROVE  /\ \A u \in Sessions : source'[t] # None /\ source'[t] = source'[u] => t = u
               /\ \A m \in 1..n : st'[m].src = source'[t] => st'[m].session = t
    <3>1. x # None
      BY <2>1, <1>0 DEF None
    <3>2. QED
      BY <1>0, <1>3, <2>2, <2>3, <2>6, <3>1 DEF Numbered
  <2>10. QED
    BY <2>1, <2>4, <2>5, <2>7, <2>8, <2>9 DEF Numbered
<1>4. ASSUME NEW E \in SUBSET Ids, End(E), \A n \in E : ~st[n].stopped
      PROVE  \A m \in Ids : m > made.streams => st'[m] = st[m]
  BY <1>0, <1>4, EndSends, RunningMade
<1>5. ASSUME NEW s \in Sessions, Unregister(s) \/ \E op \in {"start", "stop"} : Frame(s, op)
      PROVE  Numbered'
  <2>1. /\ UNCHANGED <<stream, running, st>> /\ made'.streams = made.streams /\ made'.sources = made.sources
        /\ \A t \in Sessions : source'[t] \in {source[t], None}
    BY <1>0, <1>t, <1>5 DEF Unregister, Frame, TypeOK, Counts
  <2>2. QED
    BY <1>1, <2>1
<1>6. CASE Drop
  <2>1. \A m \in Ids : m > made.streams => st'[m] = st[m]
    BY <1>4, <1>6 DEF Drop, Running
  <2>2. QED
    BY <1>1, <1>6, <2>1 DEF Drop
<1>7. ASSUME NEW s \in Sessions, Step(s) PROVE Numbered'
  <2>1. CASE SkipStale(s) \/ RefuseStart(s) \/ \E op \in {"stop", "unregister"} : StopNothing(s, op)
    <3>1. UNCHANGED <<source, stream, st, made>>
      BY <2>1 DEF SkipStale, RefuseStart, StopNothing
    <3>2. \A t \in Sessions : running'[t].n \in {running[t].n, None}
      BY <1>t, <2>1 DEF SkipStale, RefuseStart, StopNothing, Pop, NothingRuns
    <3>3. QED
      BY <1>1, <3>1, <3>2
  <2>2. CASE StartNew(s)
    <3>1. source[s] \in Sources /\ cdp \in [Sources -> Seq(Commands)]
      BY <1>0, <2>2 DEF StartNew, TypeOK
    <3>2. QED
      BY <1>3, <2>2, <3>1 DEF StartNew
  <2>3. CASE Replace(s) \/ \E op \in {"stop", "unregister"} : StopRunning(s, op)
    <3>1. /\ UNCHANGED <<source, made>> /\ stream[s] \in Ids /\ ~st[stream[s]].stopped
          /\ End({stream[s]})
      BY <1>t, <2>3 DEF Replace, StopRunning, IInv, StreamsSound
    <3>2. \A t \in Sessions : stream'[t] \in {stream[t], None}
      BY <1>t, <2>3 DEF Replace, StopRunning
    <3>3. \A t \in Sessions : running'[t].n \in {running[t].n, stream[t]}
      BY <1>t, <2>3 DEF Replace, StopRunning, Await
    <3>4. QED
      BY <1>1, <1>4, <3>1, <3>2, <3>3
  <2>4. QED
    BY <1>7, <2>1, <2>2, <2>3 DEF Step
<1>8. ASSUME NEW n \in Ids, Stalled(n) PROVE Numbered'
  <2>1. \A t \in Sessions : stream'[t] \in {stream[t], None}
    BY <1>t, <1>8 DEF Stalled, FinishOutsideChain
  <2>2. \A m \in Ids : m > made.streams => st'[m] = st[m]
    BY <1>4, <1>8 DEF Stalled, FinishOutsideChain, Running
  <2>3. QED
    BY <1>1, <1>8, <2>1, <2>2 DEF Stalled
<1>9. ASSUME NEW n \in Ids, Retune(n) PROVE Numbered'
  <2>1. n \in 1..made.streams
    BY <1>0, <1>9, RunningMade DEF Retune, Running
  <2>2. \A m \in Ids : m > made.streams => st'[m] = st[m]
    BY <1>0, <1>t, <1>9, <2>1 DEF Retune
  <2>3. QED
    BY <1>1, <1>9, <2>2 DEF Retune
<1>10. ASSUME NEW x \in Sources, PageCloses(x) PROVE Numbered'
  <2>1. \A t \in Sessions : stream'[t] \in {stream[t], None}
    BY <1>t, <1>10 DEF PageCloses
  <2>2. \A m \in Ids : m > made.streams => st'[m] = st[m]
    BY <1>4, <1>10 DEF PageCloses, Running
  <2>3. QED
    BY <1>1, <1>10, <2>1, <2>2 DEF PageCloses
<1>11. ASSUME NEW x \in Sources, Respond(x) PROVE Numbered'
  <2>1. PICK n \in 1..made.streams, s \in Sessions :
          /\ n \in Ids /\ n # None /\ st[n].session = s
          /\ UNCHANGED <<up, source>>
          /\ \/ ToBeginOfEnded(x, n) \/ ToBegin(x, n, s) \/ ToLateBegin(x, n, s)
             \/ ToFailedBegin(x, n, s) \/ ToDiscard(x, n, s) \/ ToRetune(x, n)
             \/ ToReopen(x, n) \/ ToFailedReopen(x, n, s) \/ ToStop(x, n, s)
             \/ ToReplacingStop(x, n, s)
    BY <1>11, Responses
  <2>2. CASE ToReplacingStop(x, n, s)
    BY <1>3, <2>1, <2>2 DEF ToReplacingStop
  <2>3. CASE ~ToReplacingStop(x, n, s)
    <3>1. UNCHANGED made
      BY <2>1, <2>3
      DEF ToBeginOfEnded, ToBegin, ToLateBegin, ToFailedBegin, ToDiscard, ToRetune, ToReopen,
          ToFailedReopen, ToStop, Same
    <3>2. \A t \in Sessions : stream'[t] \in {stream[t], None}
      BY <1>t, <2>1, <2>3
      DEF ToBeginOfEnded, ToBegin, ToLateBegin, ToFailedBegin, ToDiscard, ToRetune, ToReopen,
          ToFailedReopen, ToStop, Same, Leaves
    <3>3. UNCHANGED running \/ Pop(s) \/ Await(s, "ending", n, x)
      BY <2>1, <2>3
      DEF ToBeginOfEnded, ToBegin, ToLateBegin, ToFailedBegin, ToDiscard, ToRetune, ToReopen,
          ToFailedReopen, ToStop, Same
    <3>4. \A t \in Sessions : running'[t].n \in {running[t].n, None, n}
      BY <1>t, <3>3 DEF Pop, NothingRuns, Await
    <3>5. \A m \in Ids \ {n} : st'[m] = st[m]
      BY <2>1, <2>3
      DEF ToBeginOfEnded, ToBegin, ToLateBegin, ToFailedBegin, ToDiscard, ToRetune, ToReopen,
          ToFailedReopen, ToStop, Same, Becomes
    <3>6. \A m \in Ids : m > made.streams => m # n
      BY <1>0
    <3>7. QED
      BY <1>1, <2>1, <3>1, <3>2, <3>4, <3>5, <3>6
  <2>4. QED
    BY <2>2, <2>3
<1>12. CASE Reconnect \/ UNCHANGED vars
  BY <1>1, <1>12 DEF Reconnect, hub, vars
<1>13. QED
  BY <1>2, <1>5, <1>6, <1>7, <1>8, <1>9, <1>10, <1>11, <1>12 DEF Next

\* What is in #streams runs.
LEMMA StepStreamsSound == IInv /\ [Next]_vars => StreamsSound'
<1> SUFFICES ASSUME IInv, [Next]_vars PROVE StreamsSound'
  OBVIOUS
<1>0. TypeOK /\ Numbered /\ StreamsSound /\ ChainsSound /\ None \notin Ids
  BY ViewBounds DEF IInv, None, Ids
<1>t. /\ stream \in [Sessions -> Ids \cup {None}] /\ running \in [Sessions -> Waits]
      /\ st \in [Ids -> Streams]
  BY <1>0 DEF TypeOK
\* Of each stream, and of what #streams holds for each session.
<1>a. \A m \in Ids : ~st[m].stopped =>
        /\ st[m].session \in Sessions /\ stream[st[m].session] = m
        /\ st[m].retune # "no" => st[m].handle
  BY <1>0, RunningMade DEF StreamsSound
<1>b. \A t \in Sessions : stream[t] # None =>
        /\ stream[t] \in Ids /\ st[stream[t]].session = t /\ ~st[stream[t]].stopped
        /\ st[stream[t]].handle \/ Awaits(t, "beginning", stream[t])
  BY <1>0, <1>t DEF StreamsSound
\* The streams E are ended.
<1>1. ASSUME NEW E \in SUBSET Ids, \A m \in Ids \ E : st'[m] = st[m], \A m \in E : st'[m].stopped,
             \A t \in Sessions :
               /\ stream'[t] = IF stream[t] \in E THEN None ELSE stream[t]
               /\ \/ running'[t] = running[t]
                  \/ ~Awaits(t, "beginning", stream[t]) \/ stream'[t] = None
      PROVE  StreamsSound'
  <2>1. ASSUME NEW m \in Ids, ~st'[m].stopped
        PROVE  stream'[st'[m].session] = m /\ (st'[m].retune # "no" => st'[m].handle)
    BY <1>a, <1>1, <2>1
  <2>2. ASSUME NEW t \in Sessions, stream'[t] # None
        PROVE  /\ st'[stream'[t]].session = t /\ ~st'[stream'[t]].stopped
               /\ st'[stream'[t]].handle \/ Awaits(t, "beginning", stream[t])'
    <3>1. stream'[t] = stream[t] /\ stream[t] \in Ids \ E /\ st'[stream[t]] = st[stream[t]]
      BY <1>b, <1>1, <2>2
    <3>2. running'[t] = running[t] \/ ~Awaits(t, "beginning", stream[t])
      BY <1>1, <2>2
    <3>3. QED
      BY <1>b, <2>2, <3>1, <3>2 DEF Awaits
  <2>3. \A t \in Sessions : stream'[t] # None => stream'[t] = stream[t]
    BY <1>1
  <2>4. QED
    BY <2>1, <2>2, <2>3 DEF StreamsSound, Awaits
\* One stream changes and goes on.
<1>2. ASSUME NEW n \in Ids, ~st[n].stopped, NEW h \in BOOLEAN, NEW r, Becomes(n, FALSE, h, r),
             r # "no" => h, st[n].handle => h, UNCHANGED stream,
             \A t \in Sessions : running'[t] = running[t] \/ (t = st[n].session /\ h)
      PROVE  StreamsSound'
  <2>1. ASSUME NEW m \in Ids, ~st'[m].stopped
        PROVE  stream'[st'[m].session] = m /\ (st'[m].retune # "no" => st'[m].handle)
    BY <1>a, <1>2, <2>1 DEF Becomes
  <2>2. ASSUME NEW t \in Sessions, stream[t] # None
        PROVE  /\ st'[stream[t]].session = t /\ ~st'[stream[t]].stopped
               /\ st'[stream[t]].handle \/ Awaits(t, "beginning", stream[t])'
    <3>1. CASE stream[t] = n
      BY <1>b, <1>2, <2>2, <3>1 DEF Becomes, Awaits
    <3>2. CASE stream[t] # n
      <4>1. st'[stream[t]] = st[stream[t]] /\ t # st[n].session
        BY <1>a, <1>b, <1>2, <2>2, <3>2 DEF Becomes
      <4>2. QED
        BY <1>b, <1>2, <2>2, <4>1 DEF Awaits
    <3>3. QED
      BY <3>1, <3>2
  <2>3. QED
    BY <1>2, <2>1, <2>2 DEF StreamsSound, Awaits
\* A stream is made.
<1>3. ASSUME NEW s \in Sessions, NEW x \in Sources, NEW queues \in [Sources -> Seq(Commands)],
             Create(s, x, queues), x = source[s], stream[s] = None
      PROVE  StreamsSound'
  <2> DEFINE n == made.streams + 1
  <2>1. /\ n \in Ids /\ n # None
        /\ st'[n] = [session |-> s, src |-> x, stopped |-> FALSE, handle |-> FALSE, retune |-> "no"]
        /\ \A m \in Ids \ {n} : st'[m] = st[m]
        /\ stream'[s] = n /\ \A t \in Sessions \ {s} : stream'[t] = stream[t]
        /\ running'[s] = [doing |-> "beginning", n |-> n, src |-> x]
        /\ \A t \in Sessions \ {s} : running'[t] = running[t]
        /\ n \notin 1..made.streams
    BY <1>3, Making
  <2>2. \A m \in Ids : ~st[m].stopped => m # n
    BY <1>0, <2>1, RunningMade
  <2> HIDE DEF n
  <2>3. ASSUME NEW m \in Ids, ~st'[m].stopped
        PROVE  stream'[st'[m].session] = m /\ (st'[m].retune # "no" => st'[m].handle)
    <3>1. CASE m = n
      BY <2>1, <3>1
    <3>2. CASE m # n
      <4>1. st'[m] = st[m] /\ st[m].session # s
        BY <1>0, <1>a, <1>3, <2>1, <2>3, <3>2
      <4>2. QED
        BY <1>a, <2>1, <2>3, <4>1
    <3>3. QED
      BY <3>1, <3>2
  <2>4. ASSUME NEW t \in Sessions, stream'[t] # None
        PROVE  /\ st'[stream'[t]].session = t /\ ~st'[stream'[t]].stopped
               /\ st'[stream'[t]].handle \/ (running'[t].doing = "beginning" /\ running'[t].n = stream'[t])
    <3>1. CASE t = s
      BY <2>1, <3>1
    <3>2. CASE t # s
      <4>1. stream'[t] = stream[t] /\ stream[t] \in Ids /\ stream[t] # n /\ running'[t] = running[t]
        BY <1>b, <2>1, <2>2, <2>4, <3>2
      <4>2. st'[stream[t]] = st[stream[t]]
        BY <2>1, <4>1
      <4>3. QED
        BY <1>b, <2>4, <4>1, <4>2 DEF Awaits
    <3>3. QED
      BY <3>1, <3>2
  <2>5. QED
    BY <2>3, <2>4 DEF StreamsSound, Awaits
<1>4. CASE /\ UNCHANGED <<stream, st>>
           /\ \A t \in Sessions : running'[t] = running[t] \/ ~Awaits(t, "beginning", stream[t])
  BY <1>0, <1>4 DEF StreamsSound, Awaits
<1>5. CASE Drop
  <2> DEFINE E == {m \in Ids : Running(m)}
  <2>1. \A m \in Ids \ E : st'[m] = st[m]
    BY <1>0, <1>5, EndSends DEF Drop
  <2>2. \A m \in E : st'[m].stopped
    BY <1>0, <1>5, EndSends DEF Drop
  <2>3. \A t \in Sessions : stream[t] # None => stream[t] \in E
    BY <1>b DEF Running
  <2>4. \A t \in Sessions : stream'[t] = None
    BY <1>5 DEF Drop
  <2> HIDE DEF E
  <2>5. E \in SUBSET Ids
    BY DEF E
  <2>6. QED
    BY <1>1, <2>1, <2>2, <2>3, <2>4, <2>5
<1>6. ASSUME NEW s \in Sessions, Step(s) PROVE StreamsSound'
  <2>1. CASE SkipStale(s) \/ RefuseStart(s) \/ \E op \in {"stop", "unregister"} : StopNothing(s, op)
    <3>1. /\ UNCHANGED <<stream, st>> /\ running[s] = NothingRuns
          /\ \A t \in Sessions \ {s} : running'[t] = running[t]
      BY <1>t, <2>1 DEF SkipStale, RefuseStart, StopNothing, Idle, Pop
    <3>2. ~Awaits(s, "beginning", stream[s])
      BY <3>1 DEF Awaits, NothingRuns
    <3>3. QED
      BY <1>4, <3>1, <3>2
  <2>2. CASE StartNew(s)
    <3>1. source[s] \in Sources /\ cdp \in [Sources -> Seq(Commands)]
      BY <1>0, <2>2 DEF StartNew, TypeOK
    <3>2. QED
      BY <1>3, <2>2, <3>1 DEF StartNew
  <2>3. CASE Replace(s) \/ \E op \in {"stop", "unregister"} : StopRunning(s, op)
    <3>1. stream[s] # None /\ End({stream[s]}) /\ stream' = [stream EXCEPT ![s] = None]
      BY <2>3 DEF Replace, StopRunning
    <3>2. \A t \in Sessions \ {s} : running'[t] = running[t]
      BY <1>t, <2>3 DEF Replace, StopRunning, Await
    <3>3. \A t \in Sessions : stream[t] = stream[s] => t = s
      BY <1>b, <3>1
    <3>4. \A t \in Sessions : stream'[t] = IF stream[t] \in {stream[s]} THEN None ELSE stream[t]
      BY <1>t, <3>1, <3>3
    <3>5. /\ {stream[s]} \in SUBSET Ids /\ \A m \in Ids \ {stream[s]} : st'[m] = st[m]
          /\ \A m \in {stream[s]} : st'[m].stopped
      BY <1>0, <1>b, <3>1, EndSends
    <3>6. stream'[s] = None
      BY <3>4
    <3>7. QED
      BY <1>1, <3>2, <3>4, <3>5, <3>6
  <2>4. QED
    BY <1>6, <2>1, <2>2, <2>3 DEF Step
<1>7. ASSUME NEW n \in Ids, Stalled(n) PROVE StreamsSound'
  <2>1. /\ ~st[n].stopped /\ stream' = [stream EXCEPT ![st[n].session] = None] /\ UNCHANGED running
        /\ \A m \in Ids \ {n} : st'[m] = st[m] /\ st'[n].stopped
    BY <1>0, <1>7, EndSends DEF Stalled, FinishOutsideChain, Running
  <2>2. \A t \in Sessions : stream'[t] = IF stream[t] \in {n} THEN None ELSE stream[t]
    BY <1>t, <1>0, <1>a, <1>b, <2>1
  <2>3. st'[n].stopped
    BY <1>0, <1>7, EndSends DEF Stalled, FinishOutsideChain
  <2>4. QED
    BY <1>1, <2>1, <2>2, <2>3
<1>8. ASSUME NEW n \in Ids, Retune(n) PROVE StreamsSound'
  <2>1. /\ ~st[n].stopped /\ st[n].handle /\ UNCHANGED <<stream, running>>
        /\ Becomes(n, st[n].stopped, st[n].handle, "stopping")
    BY <1>0, <1>8, Retunes DEF Retune, Running
  <2>2. st[n].stopped \in BOOLEAN /\ st[n].handle \in BOOLEAN
    BY <1>t DEF Streams
  <2>3. Becomes(n, FALSE, TRUE, "stopping")
    BY <2>1, <2>2
  <2>4. QED
    BY <1>2, <2>1, <2>3
<1>9. ASSUME NEW x \in Sources, PageCloses(x) PROVE StreamsSound'
  <2> DEFINE heard == {n \in Ids : Running(n) /\ st[n].src = x /\ st[n].retune # "stopping"}
  <2>1. /\ End(heard) /\ UNCHANGED running
        /\ stream' = [t \in Sessions |-> IF stream[t] \in heard THEN None ELSE stream[t]]
    BY <1>9 DEF PageCloses
  <2>2. heard \in SUBSET Ids
    OBVIOUS
  <2> HIDE DEF heard
  <2>3. /\ \A m \in Ids \ heard : st'[m] = st[m]
        /\ \A m \in heard : st'[m].stopped
    BY <1>0, <2>1, <2>2, EndSends
  <2>4. QED
    BY <1>1, <2>1, <2>2, <2>3
<1>10. ASSUME NEW x \in Sources, Respond(x) PROVE StreamsSound'
  <2>1. PICK n \in 1..made.streams, s \in Sessions :
          /\ n \in Ids /\ n # None /\ st[n].session = s
          /\ Head(cdp[x]).n = n /\ CommandSound(x, Head(cdp[x]))
          /\ \/ ToBeginOfEnded(x, n) \/ ToBegin(x, n, s) \/ ToLateBegin(x, n, s)
             \/ ToFailedBegin(x, n, s) \/ ToDiscard(x, n, s) \/ ToRetune(x, n)
             \/ ToReopen(x, n) \/ ToFailedReopen(x, n, s) \/ ToStop(x, n, s)
             \/ ToReplacingStop(x, n, s)
    BY <1>10, Responses
  <2>2. /\ Head(cdp[x]).why = "begin" => Awaits(s, "beginning", n) /\ st[n].retune = "no"
        /\ Head(cdp[x]).why = "retune" => st[n].retune # "no"
        /\ Head(cdp[x]).why \in {"discard", "end"} => st[n].stopped
    BY <2>1 DEF CommandSound
  <2>3. st[n].stopped \in BOOLEAN /\ st[n].handle \in BOOLEAN
    BY <1>t, <2>1 DEF Streams
  <2>4. /\ \A t \in Sessions : stream[t] = n => t = s
        /\ ~st[n].stopped => stream[s] = n
        /\ st[n].stopped => \A t \in Sessions : stream[t] # n
    BY <1>a, <1>b, <2>1
  <2>5. Pop(s) => running'[s] = NothingRuns /\ \A t \in Sessions \ {s} : running'[t] = running[t]
    BY <1>t DEF Pop
  \* It ends, or what is ended changes.
  <2>6. ASSUME NEW h, NEW r, Becomes(n, TRUE, h, r), Leaves(s, n),
               \A t \in Sessions : \/ running'[t] = running[t]
                                   \/ ~Awaits(t, "beginning", stream[t]) \/ stream'[t] = None
        PROVE  StreamsSound'
    <3>1. \A t \in Sessions : stream'[t] = IF stream[t] \in {n} THEN None ELSE stream[t]
      BY <1>t, <2>4, <2>6 DEF Leaves
    <3>2. \A m \in Ids \ {n} : st'[m] = st[m]
      BY <2>6 DEF Becomes
    <3>3. \A m \in {n} : st'[m].stopped
      BY <2>6 DEF Becomes
    <3>4. QED
      BY <1>1, <2>1, <2>6, <3>1, <3>2, <3>3
  <2>7. st[n].stopped /\ UNCHANGED stream => Leaves(s, n)
    BY <1>t, <2>4 DEF Leaves
  <2>8. CASE ToBeginOfEnded(x, n)
    BY <1>4, <2>8 DEF ToBeginOfEnded, Same
  <2>9. CASE ToBegin(x, n, s)
    <3>1. /\ ~st[n].stopped /\ Becomes(n, FALSE, TRUE, st[n].retune) /\ UNCHANGED stream
          /\ \A t \in Sessions : running'[t] = running[t] \/ t = s
      BY <2>5, <2>9 DEF ToBegin
    <3>2. QED
      BY <1>2, <2>1, <3>1
  <2>10. CASE ToLateBegin(x, n, s)
    <3>1. /\ ~st[n].stopped /\ Becomes(n, TRUE, st[n].handle, st[n].retune)
          /\ stream' = [stream EXCEPT ![s] = None] /\ Await(s, "ending", n, x)
      BY <2>10 DEF ToLateBegin
    <3>2. stream'[s] = None /\ Leaves(s, n)
      BY <1>t, <2>4, <3>1 DEF Leaves
    <3>3. \A t \in Sessions : running'[t] = running[t] \/ stream'[t] = None
      BY <1>t, <3>1, <3>2 DEF Await
    <3>4. QED
      BY <2>6, <3>1, <3>2, <3>3
  <2>11. CASE ToFailedBegin(x, n, s)
    <3>1. /\ Becomes(n, TRUE, st[n].handle, st[n].retune) /\ Leaves(s, n) /\ Pop(s)
          /\ Awaits(s, "beginning", n)
      BY <2>2, <2>11 DEF ToFailedBegin, Oldest
    <3>2. ~Awaits(s, "beginning", stream[s]) \/ stream'[s] = None
      BY <1>t, <3>1 DEF Leaves, Awaits
    <3>3. QED
      BY <2>5, <2>6, <3>1, <3>2
  <2>12. CASE ToDiscard(x, n, s)
    <3>1. /\ st[n].stopped /\ UNCHANGED stream /\ Becomes(n, st[n].stopped, st[n].handle, "no")
          /\ UNCHANGED running \/ (Pop(s) /\ Awaits(s, "beginning", n))
      BY <2>2, <2>12 DEF ToDiscard, Oldest
    <3>2. Becomes(n, TRUE, st[n].handle, "no") /\ Leaves(s, n)
      BY <2>3, <2>7, <3>1
    <3>3. UNCHANGED running \/ (Pop(s) /\ ~Awaits(s, "beginning", stream[s]))
      BY <2>4, <3>1 DEF Awaits
    <3>4. QED
      BY <2>5, <2>6, <3>2, <3>3
  <2>13. CASE ToRetune(x, n)
    <3>1. CASE st[n].stopped
      BY <2>6, <2>7, <2>13, <3>1 DEF ToRetune, Same
    <3>2. CASE ~st[n].stopped
      <4>1. /\ Becomes(n, FALSE, st[n].handle, "opening") /\ UNCHANGED <<stream, running>>
            /\ st[n].handle
        BY <1>a, <2>1, <2>2, <2>13, <3>2 DEF ToRetune, Same, Oldest
      <4>2. QED
        BY <1>2, <2>1, <2>3, <3>2, <4>1
    <3>3. QED
      BY <3>1, <3>2
  <2>14. CASE ToReopen(x, n)
    <3>1. CASE st[n].stopped
      BY <1>4, <2>14, <3>1 DEF ToReopen, Same
    <3>2. CASE ~st[n].stopped
      <4>1. Becomes(n, FALSE, st[n].handle, "no") /\ UNCHANGED <<stream, running>>
        BY <2>14, <3>2 DEF ToReopen, Same
      <4>2. QED
        BY <1>2, <2>1, <2>3, <3>2, <4>1
    <3>3. QED
      BY <3>1, <3>2
  <2>15. CASE ToFailedReopen(x, n, s)
    BY <2>6, <2>15 DEF ToFailedReopen
  <2>16. CASE ToStop(x, n, s)
    <3>1. /\ UNCHANGED <<stream, st>>
          /\ UNCHANGED running \/ (Pop(s) /\ (Awaits(s, "ending", n) \/ Awaits(s, "replacing", n)))
      BY <2>16 DEF ToStop
    <3>2. UNCHANGED running \/ (Pop(s) /\ ~Awaits(s, "beginning", stream[s]))
      BY <3>1 DEF Awaits
    <3>3. QED
      BY <1>4, <2>5, <3>1, <3>2
  <2>17. CASE ToReplacingStop(x, n, s)
    <3>1. stream[s] = None
      BY <1>0, <2>17 DEF ToReplacingStop, Awaits, ChainsSound
    <3>2. QED
      BY <1>3, <2>17, <3>1 DEF ToReplacingStop
  <2>18. QED
    BY <2>1, <2>8, <2>9, <2>10, <2>11, <2>12, <2>13, <2>14, <2>15, <2>16, <2>17
<1>11. CASE Reconnect \/ UNCHANGED vars
  BY <1>4, <1>11 DEF Reconnect, hub, vars
<1>12. ASSUME NEW s \in Sessions,
              Register(s) \/ Unregister(s) \/ \E op \in {"start", "stop"} : Frame(s, op)
       PROVE  StreamsSound'
  BY <1>4, <1>12 DEF Register, Unregister, Frame
<1>13. QED
  BY <1>5, <1>6, <1>7, <1>8, <1>9, <1>10, <1>11, <1>12 DEF Next

-----------------------------------------------------------------------------
(***************************************************************************)
(* The steps of the queues.                                                *)
(***************************************************************************)

\* end() of the streams E adds nothing to a queue but a stop of one of them.
LEMMA EndQueues ==
  ASSUME TypeOK, NEW E \in SUBSET Ids, End(E), NEW x \in Sources
  PROVE  /\ OneOfEach(cdp[x]) => OneOfEach(cdp'[x])
         /\ \/ /\ cdp'[x] = cdp[x]
               /\ \A n \in E : st[n].src = x => ~st[n].handle
            \/ \E n \in E : /\ st[n].src = x /\ st[n].handle
                            /\ Elements(cdp'[x]) = Elements(cdp[x]) \cup {EndStop(n)}
<1>1. CASE cdp'[x] = cdp[x] /\ \A n \in E : st[n].src = x => ~st[n].handle
  BY <1>1
<1>2. ASSUME NEW n \in E, st[n].src = x, st[n].handle, cdp'[x] = Append(cdp[x], EndStop(n))
      PROVE  /\ OneOfEach(cdp[x]) => OneOfEach(cdp'[x])
             /\ Elements(cdp'[x]) = Elements(cdp[x]) \cup {EndStop(n)}
  <2>1. cdp[x] \in Seq(Commands) /\ EndStop(n) \in Commands /\ EndStop(n).why = "end"
    BY DEF TypeOK, EndStop, Commands, Whys
  <2>2. QED
    BY <1>2, <2>1, AppendElements, AppendOneOfEach
<1>3. QED
  BY <1>1, <1>2, EndSends

\* What becomes of the queues when x is answered: the oldest command goes, and
\* of those not sent by end() it was the only one of its stream.
LEMMA Takes ==
  ASSUME IInv, NEW x \in Sources, cdp[x] # <<>>, Took(x), NEW y \in Sources
  PROVE  /\ OneOfEach(cdp'[y])
         /\ \A c \in Elements(cdp'[y]) :
              /\ c \in Elements(cdp[y]) /\ c \in Commands
              /\ Head(cdp[x]).why # "end" /\ c.why # "end" => c.n # Head(cdp[x]).n
         /\ \A c \in Elements(cdp[y]) : c = Head(cdp[x]) \/ c \in Elements(cdp'[y])
<1> DEFINE h == Head(cdp[x])
<1>1. /\ st[h.n].src = x /\ OneOfEach(Tail(cdp[x]))
      /\ Elements(cdp[x]) = {h} \cup Elements(Tail(cdp[x]))
      /\ h.why # "end" => \A d \in Elements(Tail(cdp[x])) : d.why # "end" => d.n # h.n
  BY Answers
<1>2. cdp \in [Sources -> Seq(Commands)] /\ QueuesSound
  BY DEF IInv, TypeOK
<1>3. \A z \in Sources : \A c \in Elements(cdp[z]) : c \in Commands
  <2>1. \A q \in Seq(Commands) : \A k \in DOMAIN q : q[k] \in Commands
    OBVIOUS
  <2>2. QED
    BY <1>2, <2>1 DEF Elements
<1>4. cdp'[x] = Tail(cdp[x]) /\ \A z \in Sources \ {x} : cdp'[z] = cdp[z]
  BY <1>2 DEF Took
<1>5. \A z \in Sources : OneOfEach(cdp[z]) /\ \A c \in Elements(cdp[z]) : st[c.n].src = z
  BY <1>2 DEF QueuesSound, CommandSound
<1> HIDE DEF h
<1>6. CASE y = x
  BY <1>1, <1>3, <1>4, <1>6 DEF h
<1>7. CASE y # x
  BY <1>1, <1>3, <1>4, <1>5, <1>7 DEF h
<1>8. QED
  BY <1>6, <1>7

\* ... and one more of the same stream is sent because of it.
LEMMA Sends ==
  ASSUME IInv, NEW x \in Sources, cdp[x] # <<>>, NEW op \in {"start", "stop"}, NEW why \in Whys,
         Sent(x, op, Head(cdp[x]).n, why), NEW y \in Sources
  PROVE  LET d == [op |-> op, n |-> Head(cdp[x]).n, why |-> why] IN
         /\ Head(cdp[x]).why # "end" => OneOfEach(cdp'[y])
         /\ \A c \in Elements(cdp'[y]) :
              /\ c \in Commands
              /\ \/ /\ c \in Elements(cdp[y])
                    /\ Head(cdp[x]).why # "end" /\ c.why # "end" => c.n # Head(cdp[x]).n
                 \/ y = x /\ c = d
         /\ \A c \in Elements(cdp[y]) : c = Head(cdp[x]) \/ c \in Elements(cdp'[y])
         /\ d \in Elements(cdp'[x])
<1> DEFINE h == Head(cdp[x])
           d == [op |-> op, n |-> h.n, why |-> why]
<1>1. /\ st[h.n].src = x /\ OneOfEach(Tail(cdp[x]))
      /\ Elements(cdp[x]) = {h} \cup Elements(Tail(cdp[x]))
      /\ h.why # "end" => \A c \in Elements(Tail(cdp[x])) : c.why # "end" => c.n # h.n
  BY Answers
<1>2. cdp \in [Sources -> Seq(Commands)] /\ QueuesSound
  BY DEF IInv, TypeOK
<1>3. \A z \in Sources : \A c \in Elements(cdp[z]) : c \in Commands
  <2>1. \A q \in Seq(Commands) : \A k \in DOMAIN q : q[k] \in Commands
    OBVIOUS
  <2>2. QED
    BY <1>2, <2>1 DEF Elements
<1>4. /\ d \in Commands
      /\ Elements(cdp'[x]) = Elements(Tail(cdp[x])) \cup {d}
      /\ h.why # "end" => OneOfEach(cdp'[x])
  BY AnswerAndSend DEF Sent, Next2
<1>5. \A z \in Sources \ {x} : cdp'[z] = cdp[z]
  BY <1>2 DEF Sent
<1>6. \A z \in Sources : OneOfEach(cdp[z]) /\ \A c \in Elements(cdp[z]) : st[c.n].src = z
  BY <1>2 DEF QueuesSound, CommandSound
<1> HIDE DEF h, d
<1>7. CASE y = x
  <2>1. QED
    BY <1>1, <1>3, <1>4, <1>7 DEF h, d
<1>8. CASE y # x
  BY <1>1, <1>3, <1>4, <1>5, <1>6, <1>8 DEF h, d
<1>9. QED
  BY <1>7, <1>8

\* Create adds the start of the new stream to what the queues hold.
LEMMA CreateQueues ==
  ASSUME IInv, NEW s \in Sessions, NEW x \in Sources, NEW queues \in [Sources -> Seq(Commands)],
         Create(s, x, queues), x = source[s], NEW y \in Sources,
         OneOfEach(queues[y]), \A c \in Elements(queues[y]) : c \in Elements(cdp[y])
  PROVE  /\ OneOfEach(cdp'[y])
         /\ \A c \in Elements(cdp'[y]) :
              \/ c \in Elements(cdp[y])
              \/ y = x /\ c = BeginStart(made.streams + 1)
         /\ \A c \in Elements(queues[y]) : c \in Elements(cdp'[y])
<1> DEFINE n == made.streams + 1
<1>1. /\ n \notin 1..made.streams /\ n \in Ids
      /\ cdp' = [queues EXCEPT ![x] = Append(@, BeginStart(n))]
  <2>1. cdp' = [queues EXCEPT ![x] = Append(@, BeginStart(n))]
    BY DEF Create, BeginStart
  <2>2. n \notin 1..made.streams /\ n \in Ids
    BY Making
  <2>3. QED
    BY <2>1, <2>2
<1>2. BeginStart(n) \in Commands /\ BeginStart(n).n = n
  BY <1>1 DEF BeginStart, Commands, Whys
<1>3. \A c \in Elements(cdp[y]) : c.n <= made.streams
  BY DEF IInv, QueuesSound, CommandSound
<1>4. \A c \in Elements(queues[y]) : c.n # n
  <2>1. made.streams \in Nat
    BY Bounds DEF IInv
  <2>2. \A c \in Elements(queues[y]) : c.n <= made.streams
    BY <1>3
  <2>3. QED
    BY <2>1, <2>2
<1> HIDE DEF n
<1>5. CASE y = x
  <2>1. cdp'[y] = Append(queues[y], BeginStart(n)) /\ queues[y] \in Seq(Commands)
    BY <1>1, <1>5
  <2>2. Elements(cdp'[y]) = Elements(queues[y]) \cup {BeginStart(n)}
    BY <1>2, <2>1, AppendElements
  <2>3. OneOfEach(cdp'[y])
    BY <1>2, <1>4, <2>1, AppendOneOfEach
  <2>4. QED
    BY <1>5, <2>2, <2>3 DEF n
<1>6. CASE y # x
  BY <1>1, <1>6 DEF n
<1>7. QED
  BY <1>5, <1>6

\* What waits in a queue is there for a reason that still holds.
LEMMA StepQueuesSound == IInv /\ [Next]_vars => QueuesSound'
<1> SUFFICES ASSUME IInv, [Next]_vars PROVE QueuesSound'
  OBVIOUS
<1>0. /\ TypeOK /\ Numbered /\ StreamsSound /\ ChainsSound /\ QueuesSound
      /\ made.streams \in Nat /\ made'.streams \in Nat /\ Ids \subseteq Nat
  <2>1. TypeOK /\ Numbered /\ StreamsSound /\ ChainsSound /\ QueuesSound /\ TypeOK'
    BY StepTypeOK DEF IInv
  <2>2. made.streams \in Nat /\ made'.streams \in Nat
    BY <2>1, ViewBounds DEF TypeOK, Counts
  <2>3. QED
    BY <2>1, <2>2 DEF Ids
<1>t. /\ stream \in [Sessions -> Ids \cup {None}] /\ running \in [Sessions -> Waits]
      /\ st \in [Ids -> Streams] /\ cdp \in [Sources -> Seq(Commands)]
  BY <1>0 DEF TypeOK
<1>q. \A y \in Sources : OneOfEach(cdp[y]) /\ \A c \in Elements(cdp[y]) : CommandSound(y, c)
  BY <1>0 DEF QueuesSound
<1>c. ASSUME NEW y \in Sources, NEW c \in Elements(cdp[y])
      PROVE  c \in Commands /\ c.n \in 1..made.streams /\ c.n \in Ids /\ st[c.n].session \in Sessions
  <2>1. c \in Commands
    BY <1>t DEF Elements
  <2>2. c.n \in Ids /\ c.n \in Nat /\ c.n >= 1 /\ c.n <= made.streams
    BY <1>0, <1>q, <2>1, ViewBounds DEF CommandSound, Commands, Ids
  <2>3. c.n \in 1..made.streams
    BY <1>0, <2>2
  <2>4. QED
    BY <1>0, <2>1, <2>2, <2>3 DEF Numbered
\* A command that waited is as sound as before if its stream's part in it is.
<1>1. ASSUME NEW y \in Sources, NEW c \in Elements(cdp[y]),
             c.why = "begin" =>
               /\ st'[c.n].retune = "no" /\ ~st'[c.n].handle
               /\ running'[st[c.n].session] = running[st[c.n].session],
             c.why = "retune" => st'[c.n].retune = st[c.n].retune
      PROVE  CommandSound(y, c)'
  <2>1. /\ st'[c.n].session = st[c.n].session /\ st'[c.n].src = st[c.n].src
        /\ st[c.n].stopped => st'[c.n].stopped
        /\ made.streams <= made'.streams
    BY <1>c, StreamsStay
  <2>2. CommandSound(y, c) /\ c.n <= made'.streams
    BY <1>0, <1>c, <1>q, <2>1
  <2>3. QED
    BY <1>1, <2>1, <2>2 DEF CommandSound, Awaits
\* The queues are what they were, and no wait for a begin is over.
<1>2. ASSUME NEW E \in SUBSET Ids, End(E), \A n \in E : ~st[n].stopped,
             \A t \in Sessions : running'[t] = running[t] \/ running[t] = NothingRuns
      PROVE  QueuesSound'
  <2>1. /\ \A n \in Ids : st'[n].retune = st[n].retune /\ (~st[n].handle => ~st'[n].handle)
        /\ \A n \in E : st'[n].stopped /\ n \in 1..made.streams
    BY <1>0, <1>2, EndSends, RunningMade
  <2>2. ASSUME NEW y \in Sources, NEW c \in Elements(cdp[y]) PROVE CommandSound(y, c)'
    <3>1. c.why = "begin" => Awaits(st[c.n].session, "beginning", c.n) /\ st[c.n].retune = "no"
                             /\ ~st[c.n].handle
      BY <1>q DEF CommandSound
    <3>2. c.why = "begin" => running'[st[c.n].session] = running[st[c.n].session]
      BY <1>2, <1>c, <3>1 DEF Awaits, NothingRuns
    <3>3. QED
      BY <1>1, <1>c, <2>1, <3>1, <3>2
  <2>3. ASSUME NEW y \in Sources, NEW n \in E, st[n].src = y
        PROVE  CommandSound(y, EndStop(n))'
    <3>1. /\ st'[n].src = y /\ n <= made'.streams /\ st'[n].stopped
      BY <1>0, <2>1, <2>3, StreamsStay
    <3>2. QED
      BY <3>1 DEF CommandSound, EndStop
  <2>4. ASSUME NEW y \in Sources
        PROVE  OneOfEach(cdp'[y]) /\ \A c \in Elements(cdp'[y]) : CommandSound(y, c)'
    BY <1>0, <1>2, <1>q, <2>2, <2>3, EndQueues
  <2>5. QED
    BY <2>4 DEF QueuesSound
<1>3. CASE /\ UNCHANGED <<st, cdp>>
           /\ \A t \in Sessions : running'[t] = running[t] \/ running[t] = NothingRuns
  <2>1. ASSUME NEW y \in Sources, NEW c \in Elements(cdp[y]) PROVE CommandSound(y, c)'
    <3>1. c.why = "begin" => Awaits(st[c.n].session, "beginning", c.n) /\ st[c.n].retune = "no"
                             /\ ~st[c.n].handle
      BY <1>q DEF CommandSound
    <3>2. c.why = "begin" => running'[st[c.n].session] = running[st[c.n].session]
      BY <1>3, <1>c, <3>1 DEF Awaits, NothingRuns
    <3>3. QED
      BY <1>1, <1>3, <3>1, <3>2
  <2>2. QED
    BY <1>3, <1>q, <2>1 DEF QueuesSound
<1>4. ASSUME NEW s \in Sessions, NEW x \in Sources, NEW queues \in [Sources -> Seq(Commands)],
             Create(s, x, queues), x = source[s],
             \A y \in Sources : OneOfEach(queues[y]) /\ \A c \in Elements(queues[y]) : c \in Elements(cdp[y]),
             running[s].doing # "beginning"
      PROVE  QueuesSound'
  <2>0. PICK n : n = made.streams + 1
    OBVIOUS
  <2>1. /\ n \in Ids /\ n \notin 1..made.streams /\ made'.streams = n /\ n \in Nat
        /\ st'[n] = [session |-> s, src |-> x, stopped |-> FALSE, handle |-> FALSE, retune |-> "no"]
        /\ \A m \in Ids \ {n} : st'[m] = st[m]
        /\ running'[s] = [doing |-> "beginning", n |-> n, src |-> x]
        /\ \A t \in Sessions \ {s} : running'[t] = running[t]
    BY <1>4, <2>0, Making
  <2>2. \A y \in Sources :
          /\ OneOfEach(cdp'[y])
          /\ \A c \in Elements(cdp'[y]) :
               \/ c \in Elements(cdp[y])
               \/ y = x /\ c = BeginStart(n)
    BY <1>4, <2>0, CreateQueues
  <2>3. ASSUME NEW y \in Sources, NEW c \in Elements(cdp[y]) PROVE CommandSound(y, c)'
    <3>1. st'[c.n] = st[c.n]
      BY <1>c, <2>1
    <3>2. c.why = "begin" => Awaits(st[c.n].session, "beginning", c.n) /\ st[c.n].retune = "no"
                             /\ ~st[c.n].handle
      BY <1>q DEF CommandSound
    <3>3. c.why = "begin" => running'[st[c.n].session] = running[st[c.n].session]
      BY <1>4, <1>c, <2>1, <3>2 DEF Awaits
    <3>4. QED
      BY <1>1, <3>1, <3>2, <3>3
  <2>4. CommandSound(x, BeginStart(n))'
    <3>1. /\ st'[n].session = s /\ st'[n].src = x /\ ~st'[n].handle /\ st'[n].retune = "no"
          /\ running'[s].doing = "beginning" /\ running'[s].n = n /\ n <= made'.streams
      BY <2>1
    <3>2. QED
      BY <3>1 DEF CommandSound, BeginStart, Awaits
  <2>5. QED
    BY <2>2, <2>3, <2>4 DEF QueuesSound
<1>5. CASE Drop
  <2>1. /\ End({n \in Ids : Running(n)}) /\ UNCHANGED running
        /\ {n \in Ids : Running(n)} \in SUBSET Ids
        /\ \A n \in {m \in Ids : Running(m)} : ~st[n].stopped
    BY <1>5 DEF Drop, Running
  <2>2. QED
    BY <1>2, <2>1
<1>6. ASSUME NEW s \in Sessions, Step(s) PROVE QueuesSound'
  <2>1. CASE SkipStale(s) \/ RefuseStart(s) \/ \E op \in {"stop", "unregister"} : StopNothing(s, op)
    <3>1. /\ UNCHANGED <<st, cdp>> /\ running[s] = NothingRuns
          /\ \A t \in Sessions \ {s} : running'[t] = running[t]
      BY <1>t, <2>1 DEF SkipStale, RefuseStart, StopNothing, Idle, Pop, browser
    <3>2. QED
      BY <1>3, <3>1
  <2>2. CASE StartNew(s)
    <3>1. source[s] \in Sources /\ running[s].doing # "beginning"
      BY <1>0, <2>2 DEF StartNew, TypeOK, Idle, NothingRuns
    <3>2. QED
      BY <1>4, <1>q, <1>t, <2>2, <3>1 DEF StartNew
  <2>3. CASE Replace(s) \/ \E op \in {"stop", "unregister"} : StopRunning(s, op)
    <3>1. /\ End({stream[s]}) /\ running[s] = NothingRuns
          /\ \A t \in Sessions \ {s} : running'[t] = running[t]
          /\ stream[s] \in Ids /\ ~st[stream[s]].stopped
      BY <1>0, <1>t, <2>3 DEF Replace, StopRunning, Idle, Await, StreamsSound
    <3>2. QED
      BY <1>2, <3>1
  <2>4. QED
    BY <1>6, <2>1, <2>2, <2>3 DEF Step
<1>7. ASSUME NEW n \in Ids, Stalled(n) PROVE QueuesSound'
  BY <1>2, <1>7 DEF Stalled, FinishOutsideChain, Running
<1>8. ASSUME NEW x \in Sources, PageCloses(x) PROVE QueuesSound'
  <2> DEFINE heard == {n \in Ids : Running(n) /\ st[n].src = x /\ st[n].retune # "stopping"}
  <2>1. End(heard) /\ UNCHANGED running /\ heard \in SUBSET Ids /\ \A n \in heard : ~st[n].stopped
    BY <1>8 DEF PageCloses, Running
  <2> HIDE DEF heard
  <2>2. QED
    BY <1>2, <2>1
<1>9. ASSUME NEW n \in Ids, Retune(n) PROVE QueuesSound'
  <2> DEFINE d == [op |-> "stop", n |-> n, why |-> "retune"]
  <2>0. PICK x : x = st[n].src
    OBVIOUS
  <2>1. /\ ~st[n].stopped /\ st[n].handle /\ st[n].retune = "no" /\ UNCHANGED <<running, made>>
        /\ cdp' = [cdp EXCEPT ![x] = Append(@, d)]
        /\ Becomes(n, st[n].stopped, st[n].handle, "stopping")
    BY <1>0, <1>9, <2>0, Retunes DEF Retune, Running, Send
  <2>2. n \in 1..made.streams /\ x \in Sources
    BY <1>0, <2>0, <2>1, RunningMade, Bounds DEF Numbered
  <2>3. d \in Commands /\ d.n = n /\ d.why = "retune" /\ d.op = "stop"
    BY DEF Commands, Whys
  <2> HIDE DEF d
  <2>4. \A y \in Sources : \A c \in Elements(cdp[y]) : c.why # "end" => c.n # n
    <3>1. \A c \in Commands : c.why \in {"begin", "end", "retune", "discard"} /\ c.op \in {"start", "stop"}
      BY DEF Commands, Whys
    <3>2. QED
      BY <1>c, <1>q, <2>1, <3>1 DEF CommandSound
  <2>5. ASSUME NEW y \in Sources, NEW c \in Elements(cdp[y]) PROVE CommandSound(y, c)'
    <3>1. c.why \in {"begin", "retune"} => st'[c.n] = st[c.n]
      BY <1>c, <2>1, <2>4 DEF Becomes
    <3>2. c.why = "begin" => st[c.n].retune = "no" /\ ~st[c.n].handle
      BY <1>q DEF CommandSound
    <3>3. QED
      BY <1>1, <2>1, <3>1, <3>2
  <2>6. CommandSound(x, d)'
    <3>1. st'[n].src = x /\ n <= made'.streams /\ st'[n].retune = "stopping"
      BY <1>0, <2>0, <2>1, <2>2 DEF Becomes
    <3>2. QED
      BY <2>3, <3>1 DEF CommandSound
  <2>7. \A q \in Seq(Commands) : Elements(Append(q, d)) = Elements(q) \cup {d}
    BY <2>3, AppendElements
  <2>8. ASSUME NEW y \in Sources
        PROVE  OneOfEach(cdp'[y]) /\ \A c \in Elements(cdp'[y]) : CommandSound(y, c)'
    <3>1. CASE y = x
      <4>1. cdp'[y] = Append(cdp[y], d) /\ Elements(cdp'[y]) = Elements(cdp[y]) \cup {d}
        BY <1>t, <2>1, <2>7, <3>1
      <4>2. OneOfEach(cdp'[y])
        BY <1>q, <1>t, <2>3, <2>4, <4>1, AppendOneOfEach
      <4>3. QED
        BY <2>5, <2>6, <3>1, <4>1, <4>2
    <3>2. CASE y # x
      <4>1. cdp'[y] = cdp[y]
        BY <1>t, <2>1, <3>2
      <4>2. QED
        BY <1>q, <2>5, <4>1
    <3>3. QED
      BY <3>1, <3>2
  <2>9. QED
    BY <2>8 DEF QueuesSound
<1>10. ASSUME NEW x \in Sources, Respond(x) PROVE QueuesSound'
  <2>1. PICK n \in 1..made.streams, s \in Sessions :
          /\ n \in Ids /\ n # None /\ st[n].session = s /\ st[n].src = x /\ cdp[x] # <<>>
          /\ Head(cdp[x]).n = n /\ CommandSound(x, Head(cdp[x]))
          /\ UNCHANGED <<up, source>>
          /\ \/ ToBeginOfEnded(x, n) \/ ToBegin(x, n, s) \/ ToLateBegin(x, n, s)
             \/ ToFailedBegin(x, n, s) \/ ToDiscard(x, n, s) \/ ToRetune(x, n)
             \/ ToReopen(x, n) \/ ToFailedReopen(x, n, s) \/ ToStop(x, n, s)
             \/ ToReplacingStop(x, n, s)
    BY <1>10, Responses
  <2> DEFINE h == Head(cdp[x])
  <2>2. /\ h.why = "begin" => Awaits(s, "beginning", n)
        /\ h.why = "retune" => st[n].retune # "no"
        /\ h.why \in {"discard", "end"} => st[n].stopped
    BY <2>1 DEF CommandSound
  <2>3. \A t \in Sessions \ {s} : running'[t] = running[t]
    <3>1. \/ UNCHANGED running \/ Pop(s) \/ Await(s, "ending", n, x)
          \/ \E q : Create(s, source[s], q)
      BY <2>1
      DEF ToBeginOfEnded, ToBegin, ToLateBegin, ToFailedBegin, ToDiscard, ToRetune, ToReopen,
          ToFailedReopen, ToStop, ToReplacingStop, Same
    <3>2. QED
      BY <1>t, <3>1 DEF Pop, Await, Create
  \* Another command that was not sent by end() is of another stream, and waits.
  <2>4. ASSUME NEW y \in Sources, NEW c \in Elements(cdp[y]), c.why # "end" => c.n # n,
               \A m \in Ids \ {n} : st'[m] = st[m],
               running'[s] = running[s] \/ running[s].n = n \/ running[s].doing # "beginning"
        PROVE  CommandSound(y, c)'
    <3>1. c.why \in {"begin", "retune"} => st'[c.n] = st[c.n]
      BY <1>c, <2>4
    <3>2. c.why = "begin" => st[c.n].retune = "no" /\ ~st[c.n].handle
                             /\ Awaits(st[c.n].session, "beginning", c.n)
      BY <1>q DEF CommandSound
    <3>3. c.why = "begin" => running'[st[c.n].session] = running[st[c.n].session]
      BY <1>c, <2>3, <2>4, <3>2 DEF Awaits
    <3>4. QED
      BY <1>1, <3>1, <3>2, <3>3
  \* The answer is all there is.
  <2>5. ASSUME Took(x), h.why # "end", \A m \in Ids \ {n} : st'[m] = st[m],
               running'[s] = running[s] \/ running[s].n = n \/ running[s].doing # "beginning"
        PROVE  QueuesSound'
    <3>1. ASSUME NEW y \in Sources
          PROVE  OneOfEach(cdp'[y]) /\ \A c \in Elements(cdp'[y]) : CommandSound(y, c)'
      <4>1. /\ OneOfEach(cdp'[y])
            /\ \A c \in Elements(cdp'[y]) : c \in Elements(cdp[y]) /\ (c.why # "end" => c.n # n)
        BY <2>1, <2>5, Takes
      <4>2. QED
        BY <2>4, <2>5, <4>1
    <3>2. QED
      BY <3>1 DEF QueuesSound
  \* ... or a command of the same stream is sent because of it.
  <2>6. ASSUME NEW op \in {"start", "stop"}, NEW why \in Whys, Sent(x, op, n, why),
               h.why # "end", \A m \in Ids \ {n} : st'[m] = st[m],
               running'[s] = running[s] \/ running[s].n = n \/ running[s].doing # "beginning",
               \/ why \in {"discard", "end"} /\ op = "stop" /\ st'[n].stopped
               \/ why = "retune" /\ op = "start" /\ st'[n].retune = "opening"
        PROVE  QueuesSound'
    <3> DEFINE d == [op |-> op, n |-> n, why |-> why]
    <3>1. CommandSound(x, d)'
      <4>1. n <= made'.streams /\ st'[n].src = x
        BY <1>0, <2>1, StreamsStay
      <4>2. QED
        BY <2>6, <4>1 DEF CommandSound
    <3>2. \A y \in Sources :
            /\ OneOfEach(cdp'[y])
            /\ \A c \in Elements(cdp'[y]) :
                 (c \in Elements(cdp[y]) /\ (c.why # "end" => c.n # n)) \/ (y = x /\ c = d)
      <4>1. Sent(x, op, Head(cdp[x]).n, why) /\ d = [op |-> op, n |-> Head(cdp[x]).n, why |-> why]
        BY <2>1, <2>6
      <4> HIDE DEF d
      <4>2. QED
        BY <2>1, <2>6, <4>1, Sends
    <3> HIDE DEF d
    <3>3. \A y \in Sources : \A c \in Elements(cdp'[y]) : CommandSound(y, c)'
      BY <2>4, <2>6, <3>1, <3>2
    <3>4. QED
      BY <3>2, <3>3 DEF QueuesSound
  <2>7. ASSUME NEW stopped, NEW handle, NEW retune, Becomes(n, stopped, handle, retune)
        PROVE  \A m \in Ids \ {n} : st'[m] = st[m]
    BY <2>7 DEF Becomes
  <2>8. CASE ToBeginOfEnded(x, n)
    <3>1. /\ Sent(x, "stop", n, "discard") /\ h.why = "begin" /\ UNCHANGED <<st, running>>
          /\ st[n].stopped
      BY <2>8 DEF ToBeginOfEnded, Same, Oldest
    <3>2. QED
      BY <2>6, <3>1 DEF Whys
  <2>9. CASE ToBegin(x, n, s)
    <3>1. Took(x) /\ h.why = "begin" /\ Becomes(n, FALSE, TRUE, st[n].retune)
      BY <2>9 DEF ToBegin, Oldest
    <3>2. QED
      BY <2>2, <2>5, <2>7, <3>1 DEF Awaits
  <2>10. CASE ToLateBegin(x, n, s)
    <3>1. /\ Sent(x, "stop", n, "end") /\ h.why = "begin"
          /\ Becomes(n, TRUE, st[n].handle, st[n].retune)
      BY <2>10 DEF ToLateBegin, Oldest
    <3>2. st'[n].stopped
      BY <3>1 DEF Becomes
    <3>3. QED
      <4>1. running[s].n = n /\ \A m \in Ids \ {n} : st'[m] = st[m]
        BY <2>2, <2>7, <3>1 DEF Awaits
      <4>2. QED
        BY <2>6, <3>1, <3>2, <4>1 DEF Whys
  <2>11. CASE ToFailedBegin(x, n, s)
    <3>1. Took(x) /\ h.why = "begin" /\ Becomes(n, TRUE, st[n].handle, st[n].retune)
      BY <2>11 DEF ToFailedBegin, Oldest
    <3>2. QED
      BY <2>2, <2>5, <2>7, <3>1 DEF Awaits
  <2>12. CASE ToDiscard(x, n, s)
    <3>1. Took(x) /\ h.why = "discard" /\ Becomes(n, st[n].stopped, st[n].handle, "no")
          /\ (running'[s] = running[s] \/ running[s].n = n)
      BY <2>12 DEF ToDiscard, Oldest, Awaits
    <3>2. QED
      BY <2>5, <2>7, <3>1
  <2>13. CASE ToRetune(x, n)
    <3>1. CASE st[n].stopped
      <4>1. Took(x) /\ h.why = "retune" /\ Becomes(n, TRUE, st[n].handle, "no") /\ UNCHANGED running
        BY <2>13, <3>1 DEF ToRetune, Oldest, Same
      <4>2. QED
        BY <2>5, <2>7, <4>1
    <3>2. CASE ~st[n].stopped
      <4>1. /\ Sent(x, "start", n, "retune") /\ h.why = "retune"
            /\ Becomes(n, FALSE, st[n].handle, "opening") /\ UNCHANGED running
        BY <2>13, <3>2 DEF ToRetune, Oldest, Same
      <4>2. st'[n].retune = "opening"
        BY <4>1 DEF Becomes
      <4>3. QED
        BY <2>6, <2>7, <4>1, <4>2 DEF Whys
    <3>3. QED
      BY <3>1, <3>2
  <2>14. CASE ToReopen(x, n)
    <3>1. CASE st[n].stopped
      <4>1. Sent(x, "stop", n, "discard") /\ h.why = "retune" /\ UNCHANGED <<st, running>>
        BY <2>14, <3>1 DEF ToReopen, Same, Oldest
      <4>2. QED
        BY <2>6, <3>1, <4>1 DEF Whys
    <3>2. CASE ~st[n].stopped
      <4>1. Took(x) /\ h.why = "retune" /\ Becomes(n, FALSE, st[n].handle, "no") /\ UNCHANGED running
        BY <2>14, <3>2 DEF ToReopen, Oldest, Same
      <4>2. QED
        BY <2>5, <2>7, <4>1
    <3>3. QED
      BY <3>1, <3>2
  <2>15. CASE ToFailedReopen(x, n, s)
    <3>1. Took(x) /\ h.why = "retune" /\ Becomes(n, TRUE, FALSE, "no") /\ UNCHANGED running
      BY <2>15 DEF ToFailedReopen, Oldest
    <3>2. QED
      BY <2>5, <2>7, <3>1
  <2>16. CASE ToStop(x, n, s)
    <3>1. /\ Took(x) /\ UNCHANGED st
          /\ running'[s] = running[s] \/ running[s].doing # "beginning"
      BY <2>16 DEF ToStop, Awaits
    <3>2. \A y \in Sources : OneOfEach(cdp'[y]) /\ \A c \in Elements(cdp'[y]) : c \in Elements(cdp[y])
      BY <2>1, <3>1, Takes
    <3>3. ASSUME NEW y \in Sources, NEW c \in Elements(cdp[y]) PROVE CommandSound(y, c)'
      <4>1. c.why = "begin" => st[c.n].retune = "no" /\ ~st[c.n].handle
                               /\ Awaits(st[c.n].session, "beginning", c.n)
        BY <1>q DEF CommandSound
      <4>2. c.why = "begin" => running'[st[c.n].session] = running[st[c.n].session]
        BY <1>c, <2>3, <3>1, <4>1 DEF Awaits
      <4>3. QED
        BY <1>1, <3>1, <4>1, <4>2
    <3>4. QED
      BY <3>2, <3>3 DEF QueuesSound
  <2>17. CASE ToReplacingStop(x, n, s)
    <3>1. /\ source[s] \in Sources /\ Answered(x) \in [Sources -> Seq(Commands)]
          /\ Create(s, source[s], Answered(x)) /\ running[s].doing # "beginning"
      BY <2>17 DEF ToReplacingStop, Awaits
    <3>2. \A y \in Sources : /\ OneOfEach(Answered(x)[y])
                             /\ \A c \in Elements(Answered(x)[y]) : c \in Elements(cdp[y])
      <4>1. /\ Answered(x)[x] = Tail(cdp[x])
            /\ \A y \in Sources \ {x} : Answered(x)[y] = cdp[y]
        BY <1>t DEF Answered
      <4>2. /\ OneOfEach(Tail(cdp[x]))
            /\ Elements(cdp[x]) = {Head(cdp[x])} \cup Elements(Tail(cdp[x]))
        BY <2>1, Answers
      <4>3. QED
        BY <1>q, <4>1, <4>2
    <3>3. QED
      BY <1>4, <3>1, <3>2
  <2>18. QED
    BY <2>1, <2>8, <2>9, <2>10, <2>11, <2>12, <2>13, <2>14, <2>15, <2>16, <2>17
<1>11. CASE Reconnect \/ UNCHANGED vars
  BY <1>3, <1>11 DEF Reconnect, hub, browser, vars
<1>12. ASSUME NEW s \in Sessions,
              Register(s) \/ Unregister(s) \/ \E op \in {"start", "stop"} : Frame(s, op)
       PROVE  QueuesSound'
  BY <1>3, <1>12 DEF Register, Unregister, Frame, browser
<1>13. QED
  BY <1>5, <1>6, <1>7, <1>8, <1>9, <1>10, <1>11, <1>12 DEF Next

\* A screencast that was started is stopped when its stream has ended.
LEMMA StepCastsSound == IInv /\ [Next]_vars => CastsSound'
<1> SUFFICES ASSUME IInv, [Next]_vars, NEW y \in Sources, NEW m, m = casting'[y], m # None
             PROVE  /\ m <= made'.streams /\ st'[m].src = y
                    /\ st'[m].handle \/ st'[m].stopped
                    /\ \A c \in Elements(cdp'[y]) : c.op = "start" => c.n # m
                    /\ st'[m].stopped => \E c \in Elements(cdp'[y]) : c.op = "stop"
  BY DEF CastsSound
<1> DEFINE Sound == /\ m <= made'.streams /\ st'[m].src = y
                    /\ st'[m].handle \/ st'[m].stopped
                    /\ \A c \in Elements(cdp'[y]) : c.op = "start" => c.n # m
                    /\ st'[m].stopped => \E c \in Elements(cdp'[y]) : c.op = "stop"
<1>0. /\ TypeOK /\ StreamsSound /\ QueuesSound
      /\ made.streams \in Nat /\ made'.streams \in Nat /\ None \notin Ids /\ Ids \subseteq Nat
  <2>1. TypeOK /\ StreamsSound /\ QueuesSound /\ TypeOK'
    BY StepTypeOK DEF IInv
  <2>2. made.streams \in Nat /\ made'.streams \in Nat
    BY <2>1, ViewBounds DEF TypeOK, Counts
  <2>3. QED
    BY <2>1, <2>2, ViewBounds DEF Ids, None
<1>t. /\ st \in [Ids -> Streams] /\ cdp \in [Sources -> Seq(Commands)]
      /\ casting \in [Sources -> Ids \cup {None}]
  BY <1>0 DEF TypeOK
<1>c. ASSUME NEW c \in Elements(cdp[y])
      PROVE  /\ c \in Commands /\ c.op \in {"start", "stop"} /\ c.n <= made.streams
             /\ c.why \in {"discard", "end"} => c.op = "stop"
             /\ c.why = "begin" => ~st[c.n].handle
             /\ c.why = "retune" => st[c.n].retune # "no"
  <2>1. c \in Commands /\ CommandSound(y, c)
    BY <1>0, <1>t DEF Elements, QueuesSound
  <2>2. QED
    BY <2>1 DEF Commands, CommandSound
\* The screencast that was there.
<1>h. ASSUME casting[y] = m
      PROVE  /\ m \in Ids /\ m \in 1..made.streams /\ st[m].src = y
             /\ st[m].handle \/ st[m].stopped
             /\ \A c \in Elements(cdp[y]) : c.op = "start" => c.n # m
             /\ st[m].stopped => \E c \in Elements(cdp[y]) : c.op = "stop"
  <2>1. m \in Ids /\ m <= made.streams
    BY <1>h, <1>t DEF IInv, CastsSound
  <2>2. m \in 1..made.streams
    BY <1>0, <2>1, ViewBounds DEF Ids
  <2>3. QED
    BY <1>h, <2>1, <2>2 DEF IInv, CastsSound
<1>1. ASSUME casting[y] = m, st'[m] = st[m],
             \A c \in Elements(cdp'[y]) : c.op = "start" => c \in Elements(cdp[y]) \/ c.n # m,
             \A c \in Elements(cdp[y]) : c.op = "stop" => c \in Elements(cdp'[y])
      PROVE  Sound
  <2>1. m <= made'.streams
    BY <1>0, <1>1, <1>h, StreamsStay
  <2>2. QED
    BY <1>1, <1>h, <2>1
<1>2. ASSUME NEW E \in SUBSET Ids, End(E), casting[y] = m PROVE Sound
  <2>1. m <= made'.streams /\ st'[m].src = y
    BY <1>0, <1>2, <1>h, StreamsStay
  <2>2. \/ m \notin E /\ st'[m] = st[m]
        \/ m \in E /\ st'[m].stopped
    BY <1>0, <1>2, <1>h, EndSends
  <2>3. \/ cdp'[y] = cdp[y] /\ \A n \in E : st[n].src = y => ~st[n].handle
        \/ \E n \in E : Elements(cdp'[y]) = Elements(cdp[y]) \cup {EndStop(n)}
    BY <1>0, <1>2, EndQueues
  <2>4. \A n \in E : EndStop(n).op = "stop"
    BY DEF EndStop
  <2>5. CASE cdp'[y] = cdp[y] /\ \A n \in E : st[n].src = y => ~st[n].handle
    <3>1. m \in E => st[m].stopped
      BY <1>2, <1>h, <2>5
    <3>2. QED
      BY <1>2, <1>h, <2>1, <2>2, <2>5, <3>1
  <2>6. ASSUME NEW n \in E, Elements(cdp'[y]) = Elements(cdp[y]) \cup {EndStop(n)} PROVE Sound
    <3>1. EndStop(n) \in Elements(cdp'[y]) /\ EndStop(n).op = "stop"
      BY <2>4, <2>6
    <3>2. \A c \in Elements(cdp'[y]) : c.op = "start" => c.n # m
      BY <1>2, <1>h, <2>4, <2>6
    <3>3. st'[m].handle \/ st'[m].stopped
      BY <1>2, <1>h, <2>2
    <3>4. QED
      BY <2>1, <3>1, <3>2, <3>3
  <2>7. QED
    BY <2>3, <2>5, <2>6
<1>3. ASSUME NEW s \in Sessions, NEW x \in Sources, NEW queues \in [Sources -> Seq(Commands)],
             Create(s, x, queues), x = source[s], queues[y] = cdp[y], casting[y] = m
      PROVE  Sound
  <2>1. PICK n : n = made.streams + 1
    OBVIOUS
  <2>2. n \notin 1..made.streams /\ \A k \in Ids \ {n} : st'[k] = st[k]
    BY <1>3, <2>1, Making
  <2>3. OneOfEach(queues[y]) /\ \A c \in Elements(queues[y]) : c \in Elements(cdp[y])
    BY <1>0, <1>3 DEF QueuesSound
  <2>4. /\ \A c \in Elements(cdp'[y]) : c \in Elements(cdp[y]) \/ c = BeginStart(n)
        /\ \A c \in Elements(cdp[y]) : c \in Elements(cdp'[y])
    BY <1>3, <2>1, <2>3, CreateQueues
  <2>5. BeginStart(n).n = n
    BY DEF BeginStart
  <2>6. n # m
    BY <1>3, <1>h, <2>2
  <2>7. QED
    BY <1>1, <1>3, <1>h, <2>2, <2>4, <2>5, <2>6
<1>4. CASE UNCHANGED <<st, cdp, casting>>
  BY <1>1, <1>4
<1>5. CASE Drop
  <2>1. End({n \in Ids : Running(n)}) /\ {n \in Ids : Running(n)} \in SUBSET Ids /\ UNCHANGED casting
    BY <1>5 DEF Drop
  <2>2. QED
    BY <1>2, <2>1
<1>6. ASSUME NEW s \in Sessions, Step(s) PROVE Sound
  <2>1. CASE SkipStale(s) \/ RefuseStart(s) \/ \E op \in {"stop", "unregister"} : StopNothing(s, op)
    BY <1>4, <2>1 DEF SkipStale, RefuseStart, StopNothing, browser
  <2>2. CASE StartNew(s)
    <3>1. source[s] \in Sources /\ Create(s, source[s], cdp) /\ UNCHANGED casting
      BY <1>0, <2>2 DEF StartNew, TypeOK
    <3>2. QED
      BY <1>3, <1>t, <3>1
  <2>3. CASE Replace(s) \/ \E op \in {"stop", "unregister"} : StopRunning(s, op)
    <3>1. End({stream[s]}) /\ {stream[s]} \in SUBSET Ids /\ UNCHANGED casting
      BY <1>0, <2>3 DEF Replace, StopRunning, TypeOK
    <3>2. QED
      BY <1>2, <3>1
  <2>4. QED
    BY <1>6, <2>1, <2>2, <2>3 DEF Step
<1>7. ASSUME NEW n \in Ids, Stalled(n) PROVE Sound
  <2>1. End({n}) /\ UNCHANGED casting
    BY <1>7 DEF Stalled, FinishOutsideChain
  <2>2. QED
    BY <1>2, <2>1
<1>8. ASSUME NEW x \in Sources, PageCloses(x) PROVE Sound
  <2>1. PICK E \in SUBSET Ids : End(E)
    BY <1>8 DEF PageCloses
  <2>2. casting[y] = m
    BY <1>8, <1>t DEF PageCloses
  <2>3. QED
    BY <1>2, <2>1, <2>2
<1>9. ASSUME NEW n \in Ids, Retune(n) PROVE Sound
  <2>1. PICK x, d : x = st[n].src /\ d = [op |-> "stop", n |-> n, why |-> "retune"]
    OBVIOUS
  <2>2. cdp' = [cdp EXCEPT ![x] = Append(@, d)] /\ UNCHANGED casting /\ d \in Commands /\ d.op = "stop"
    BY <1>9, <2>1 DEF Retune, Send, Commands, Whys
  <2>3. Becomes(n, st[n].stopped, st[n].handle, "stopping")
    BY <1>0, <1>9, Retunes DEF Retune
  <2>4. /\ st'[m].src = st[m].src /\ st'[m].handle = st[m].handle /\ st'[m].stopped = st[m].stopped
    BY <1>h, <2>2, <2>3 DEF Becomes
  <2>5. Elements(cdp'[y]) = Elements(cdp[y]) \/ Elements(cdp'[y]) = Elements(cdp[y]) \cup {d}
    <3>1. \A q \in Seq(Commands) : Elements(Append(q, d)) = Elements(q) \cup {d}
      BY <2>2, AppendElements
    <3>2. QED
      BY <1>t, <2>2, <3>1
  <2>6. m <= made'.streams
    BY <1>0, <1>h, <2>2, StreamsStay
  <2>7. QED
    BY <1>h, <2>2, <2>4, <2>5, <2>6
<1>10. ASSUME NEW x \in Sources, Respond(x) PROVE Sound
  <2>1. PICK n \in 1..made.streams, s \in Sessions :
          /\ n \in Ids /\ n # None /\ st[n].session = s /\ st[n].src = x /\ cdp[x] # <<>>
          /\ Head(cdp[x]).n = n /\ CommandSound(x, Head(cdp[x]))
          /\ UNCHANGED <<up, source>>
          /\ \/ ToBeginOfEnded(x, n) \/ ToBegin(x, n, s) \/ ToLateBegin(x, n, s)
             \/ ToFailedBegin(x, n, s) \/ ToDiscard(x, n, s) \/ ToRetune(x, n)
             \/ ToReopen(x, n) \/ ToFailedReopen(x, n, s) \/ ToStop(x, n, s)
             \/ ToReplacingStop(x, n, s)
    BY <1>10, Responses
  <2> DEFINE h == Head(cdp[x])
  <2>2. n <= made'.streams /\ st'[n].src = x
    BY <1>0, <2>1, StreamsStay
  <2>3. h \in Elements(cdp[x])
    BY <2>1, Answers
  <2> HIDE DEF h
  \* The answer is to what m is about, or ends it.
  <2>4. ASSUME x = y, m = n, Took(x), h.why # "end", st'[n].handle, ~st'[n].stopped PROVE Sound
    <3>1. \A c \in Elements(cdp'[y]) : c \in Elements(cdp[y]) /\ (c.why # "end" => c.n # n)
      BY <2>1, <2>4, Takes DEF h
    <3>2. QED
      BY <1>c, <2>2, <2>4, <3>1
  <2>5. ASSUME x = y, m = n, NEW why \in {"discard", "end"}, Sent(x, "stop", n, why),
               h.why # "end", st'[n].stopped
        PROVE  Sound
    <3>1. PICK d : d = [op |-> "stop", n |-> n, why |-> why]
      OBVIOUS
    <3>2. /\ \A c \in Elements(cdp'[y]) : (c \in Elements(cdp[y]) /\ (c.why # "end" => c.n # n)) \/ c = d
          /\ d \in Elements(cdp'[y])
      <4>1. Sent(x, "stop", Head(cdp[x]).n, why) /\ d = [op |-> "stop", n |-> Head(cdp[x]).n, why |-> why]
            /\ why \in Whys
        BY <2>1, <2>5, <3>1 DEF Whys
      <4>2. QED
        BY <2>1, <2>5, <4>1, Sends DEF h
    <3>3. d.op = "stop"
      BY <3>1
    <3>4. QED
      BY <1>c, <2>2, <2>5, <3>2, <3>3
  <2>6. ASSUME x = y, casting[y] = m, Took(x), h.op = "start", \A k \in Ids \ {n} : st'[k] = st[k]
        PROVE  Sound
    <3>1. /\ \A c \in Elements(cdp'[y]) : c \in Elements(cdp[y])
          /\ \A c \in Elements(cdp[y]) : c = h \/ c \in Elements(cdp'[y])
      BY <2>1, <2>6, Takes DEF h
    <3>2. m # n
      BY <1>h, <2>1, <2>3, <2>6 DEF h
    <3>3. QED
      BY <1>1, <1>h, <2>6, <3>1, <3>2
  \* ... or another browser is answered.
  <2>7. ASSUME x # y, \A k \in Ids \ {n} : st'[k] = st[k], casting[y] = m, cdp'[y] = cdp[y]
        PROVE  Sound
    <3>1. m # n
      BY <1>h, <2>1, <2>7
    <3>2. QED
      BY <1>1, <1>h, <2>7, <3>1
  <2>8. x # y /\ (UNCHANGED casting \/ \E k \in {n, None} : Casts(x, k)) => casting[y] = m
    BY <1>t DEF Casts
  <2>9. x # y /\ (Took(x) \/ \E op, why : Sent(x, op, n, why)) => cdp'[y] = cdp[y]
    BY <1>t DEF Took, Sent
  <2>10. x = y => \A k : Casts(x, k) => m = k
    BY <1>t DEF Casts
  <2>11. x = y /\ UNCHANGED casting => casting[y] = m
    OBVIOUS
  <2>12. ASSUME NEW stopped, NEW handle, NEW retune, Becomes(n, stopped, handle, retune)
         PROVE  /\ \A k \in Ids \ {n} : st'[k] = st[k]
                /\ st'[n].stopped = stopped /\ st'[n].handle = handle
    BY <2>12 DEF Becomes
  <2>13. CASE ToBeginOfEnded(x, n)
    <3>1. /\ h.why = "begin" /\ st[n].stopped /\ Casts(x, n) /\ Sent(x, "stop", n, "discard")
          /\ UNCHANGED st
      BY <2>13 DEF ToBeginOfEnded, Oldest, h
    <3>2. QED
      BY <2>5, <2>7, <2>8, <2>9, <2>10, <3>1
  <2>14. CASE ToBegin(x, n, s)
    <3>1. h.why = "begin" /\ Casts(x, n) /\ Took(x) /\ Becomes(n, FALSE, TRUE, st[n].retune)
      BY <2>14 DEF ToBegin, Oldest, h
    <3>2. QED
      BY <2>4, <2>7, <2>8, <2>9, <2>10, <2>12, <3>1
  <2>15. CASE ToLateBegin(x, n, s)
    <3>1. /\ h.why = "begin" /\ Casts(x, n) /\ Sent(x, "stop", n, "end")
          /\ Becomes(n, TRUE, st[n].handle, st[n].retune)
      BY <2>15 DEF ToLateBegin, Oldest, h
    <3>2. QED
      BY <2>5, <2>7, <2>8, <2>9, <2>10, <2>12, <3>1
  <2>16. CASE ToFailedBegin(x, n, s)
    <3>1. /\ h.op = "start" /\ UNCHANGED casting /\ Took(x)
          /\ Becomes(n, TRUE, st[n].handle, st[n].retune)
      BY <2>16 DEF ToFailedBegin, Oldest, h
    <3>2. QED
      BY <2>6, <2>7, <2>8, <2>9, <2>11, <2>12, <3>1
  <2>17. CASE ToDiscard(x, n, s)
    <3>1. Casts(x, None) /\ Took(x) /\ Becomes(n, st[n].stopped, st[n].handle, "no")
      BY <2>17 DEF ToDiscard
    <3>2. QED
      BY <2>7, <2>8, <2>9, <2>10, <2>12, <3>1
  <2>18. CASE ToRetune(x, n)
    <3>1. /\ Casts(x, None) /\ (Took(x) \/ Sent(x, "start", n, "retune"))
          /\ \E stopped, retune : Becomes(n, stopped, st[n].handle, retune)
      BY <2>18 DEF ToRetune
    <3>2. QED
      BY <2>7, <2>8, <2>9, <2>10, <2>12, <3>1
  <2>19. CASE ToReopen(x, n)
    <3>1. h.why = "retune" /\ st[n].retune # "no" /\ Casts(x, n)
      BY <2>1, <2>19 DEF ToReopen, Oldest, h, CommandSound
    <3>2. CASE st[n].stopped
      <4>1. Sent(x, "stop", n, "discard") /\ UNCHANGED st
        BY <2>19, <3>2 DEF ToReopen
      <4>2. QED
        BY <2>5, <2>7, <2>8, <2>9, <2>10, <3>1, <3>2, <4>1
    <3>3. CASE ~st[n].stopped
      <4>1. Took(x) /\ Becomes(n, FALSE, st[n].handle, "no")
        BY <2>19, <3>3 DEF ToReopen
      <4>2. st[n].handle
        BY <1>0, <2>1, <3>1, <3>3 DEF StreamsSound
      <4>3. QED
        BY <2>4, <2>7, <2>8, <2>9, <2>10, <2>12, <3>1, <4>1, <4>2
    <3>4. QED
      BY <3>2, <3>3
  <2>20. CASE ToFailedReopen(x, n, s)
    <3>1. /\ h.op = "start" /\ UNCHANGED casting /\ Took(x)
          /\ Becomes(n, TRUE, FALSE, "no")
      BY <2>20 DEF ToFailedReopen, Oldest, h
    <3>2. QED
      BY <2>6, <2>7, <2>8, <2>9, <2>11, <2>12, <3>1
  <2>21. CASE ToStop(x, n, s)
    <3>1. Casts(x, None) /\ Took(x) /\ UNCHANGED st
      BY <2>21 DEF ToStop
    <3>2. QED
      BY <2>7, <2>8, <2>9, <2>10, <3>1
  <2>22. CASE ToReplacingStop(x, n, s)
    <3>1. /\ Casts(x, None) /\ source[s] \in Sources /\ Answered(x) \in [Sources -> Seq(Commands)]
          /\ Create(s, source[s], Answered(x))
      BY <2>22 DEF ToReplacingStop
    <3>2. x # y /\ casting[y] = m
      BY <2>8, <2>10, <3>1
    <3>3. Answered(x)[y] = cdp[y]
      BY <1>t, <3>2 DEF Answered
    <3>4. QED
      BY <1>3, <3>1, <3>2, <3>3
  <2>23. QED
    BY <2>1, <2>13, <2>14, <2>15, <2>16, <2>17, <2>18, <2>19, <2>20, <2>21, <2>22
<1>11. CASE Reconnect \/ UNCHANGED vars
  BY <1>4, <1>11 DEF Reconnect, hub, browser, vars
<1>12. ASSUME NEW s \in Sessions,
              Register(s) \/ Unregister(s) \/ \E op \in {"start", "stop"} : Frame(s, op)
       PROVE  Sound
  BY <1>4, <1>12 DEF Register, Unregister, Frame, browser
<1>13. QED
  BY <1>5, <1>6, <1>7, <1>8, <1>9, <1>10, <1>11, <1>12 DEF Next

\* Who is shown a stream that is no more will be told: its stop is on the way.
LEMMA StepTellsSound == IInv /\ [Next]_vars => TellsSound'
<1> SUFFICES ASSUME IInv, [Next]_vars, NEW t \in Sessions, shows'[t], stream'[t] = None
             PROVE  \E x \in Sources : \E c \in Elements(cdp'[x]) :
                      c.why = "end" /\ st'[c.n].session = t
  BY DEF TellsSound
<1> DEFINE Told == \E x \in Sources : \E c \in Elements(cdp'[x]) :
                     c.why = "end" /\ st'[c.n].session = t
<1>0. /\ TypeOK /\ Numbered /\ StreamsSound /\ ChainsSound /\ QueuesSound
      /\ Sources \subseteq Nat /\ Ids \subseteq Nat /\ None \notin Ids
  BY ViewBounds DEF IInv, Ids, Sources, None
<1>t. /\ st \in [Ids -> Streams] /\ cdp \in [Sources -> Seq(Commands)]
      /\ stream \in [Sessions -> Ids \cup {None}] /\ shows \in [Sessions -> BOOLEAN]
  BY <1>0 DEF TypeOK
<1>a. \A n \in Ids : ~st[n].stopped =>
        /\ n \in 1..made.streams /\ st[n].src \in Sources
        /\ st[n].session \in Sessions /\ stream[st[n].session] = n
  BY <1>0, RunningMade, Bounds DEF StreamsSound, Numbered
<1>b. stream[t] # None =>
        /\ stream[t] \in Ids /\ st[stream[t]].session = t /\ ~st[stream[t]].stopped
        /\ st[stream[t]].handle \/ Awaits(t, "beginning", stream[t])
  BY <1>0, <1>t DEF StreamsSound
<1>c. ASSUME NEW x \in Sources, NEW c \in Elements(cdp[x])
      PROVE  c.n \in 1..made.streams
  <2>1. c \in Commands /\ c.n <= made.streams
    BY <1>0, <1>t DEF Elements, QueuesSound, CommandSound
  <2>2. c.n \in Ids /\ made.streams \in Nat
    BY <1>0, <2>1, Bounds DEF Commands
  <2>3. QED
    BY <2>1, <2>2, ViewBounds DEF Ids
\* The stop that was on the way still is.
<1>1. ASSUME shows[t], stream[t] = None,
             \A x \in Sources : \A c \in Elements(cdp[x]) :
               c.why = "end" /\ st[c.n].session = t => c \in Elements(cdp'[x])
      PROVE  Told
  <2>0. PICK x \in Sources : \E c \in Elements(cdp[x]) : c.why = "end" /\ st[c.n].session = t
    BY <1>1 DEF IInv, TellsSound
  <2>1. PICK c \in Elements(cdp[x]) : c.why = "end" /\ st[c.n].session = t
    BY <2>0
  <2>2. st'[c.n].session = t
    BY <1>c, <2>1, StreamsStay
  <2>3. QED
    BY <1>1, <2>1, <2>2
\* ... or it is sent.
<1>2. ASSUME NEW E \in SUBSET Ids, End(E), \A n \in E : ~st[n].stopped, shows[t],
             stream[t] # None => stream[t] \in E /\ st[stream[t]].handle
      PROVE  Told
  <2>1. \A x \in Sources : \A c \in Elements(cdp[x]) : c \in Elements(cdp'[x])
    BY <1>0, <1>2, EndQueues
  <2>2. ASSUME stream[t] # None PROVE Told
    <3>1. PICK n \in E : n = stream[t] /\ st[n].handle /\ st[n].session = t
      BY <1>2, <1>b, <2>2
    <3>2. n \in 1..made.streams /\ st[n].src \in Sources
      BY <1>2, <1>a
    <3>3. PICK k \in E : st[k].src = st[n].src /\ EndStop(k) \in Elements(cdp'[st[n].src])
      BY <1>0, <1>2, <3>1, <3>2, EndQueues
    <3>4. k \in 1..made.streams /\ st[k].session = t
      <4>1. k \in 1..made.streams
        BY <1>2, <1>a
      <4>2. QED
        BY <1>0, <3>1, <3>2, <3>3, <4>1 DEF Numbered
    <3>5. st'[k].session = t
      BY <3>4, StreamsStay
    <3>6. EndStop(k).why = "end" /\ EndStop(k).n = k
      BY DEF EndStop
    <3>7. QED
      BY <3>2, <3>3, <3>5, <3>6
  <2>3. QED
    BY <1>1, <1>2, <2>1, <2>2
<1>3. CASE UNCHANGED <<shows, stream, cdp>>
  BY <1>1, <1>3
<1>4. CASE Drop
  BY <1>4 DEF Drop
<1>5. ASSUME NEW s \in Sessions, Step(s) PROVE Told
  <2>1. CASE SkipStale(s) \/ RefuseStart(s) \/ \E op \in {"stop", "unregister"} : StopNothing(s, op)
    <3>1. UNCHANGED <<stream, cdp>> /\ shows[t]
      BY <1>t, <2>1 DEF SkipStale, RefuseStart, StopNothing, TellStopped, browser
    <3>2. QED
      BY <1>1, <3>1
  <2>2. CASE StartNew(s)
    <3>1. /\ source[s] \in Sources /\ Create(s, source[s], cdp) /\ UNCHANGED shows
          /\ stream' = [stream EXCEPT ![s] = made.streams + 1]
      BY <1>0, <2>2 DEF StartNew, TypeOK, Create
    <3>2. \A y \in Sources : OneOfEach(cdp[y])
      BY <1>0 DEF QueuesSound
    <3>3. \A y \in Sources : \A c \in Elements(cdp[y]) : c \in Elements(cdp'[y])
      BY <1>t, <3>1, <3>2, CreateQueues
    <3>4. stream[t] = None
      <4>1. made.streams + 1 # None
        BY <1>0, Bounds DEF None
      <4>2. QED
        BY <1>t, <3>1, <4>1
    <3>5. QED
      BY <1>1, <3>1, <3>3, <3>4
  <2>3. CASE Replace(s) \/ \E op \in {"stop", "unregister"} : StopRunning(s, op)
    <3>1. /\ End({stream[s]}) /\ stream[s] # None /\ UNCHANGED shows /\ running[s] = NothingRuns
          /\ stream' = [stream EXCEPT ![s] = None]
      BY <2>3 DEF Replace, StopRunning, Idle
    <3>2. /\ {stream[s]} \in SUBSET Ids /\ ~st[stream[s]].stopped /\ st[stream[s]].handle
      BY <1>0, <1>t, <3>1 DEF StreamsSound, Awaits, NothingRuns
    <3>3. stream[t] # None => t = s
      BY <1>t, <3>1
    <3>4. QED
      BY <1>2, <3>1, <3>2, <3>3
  <2>4. QED
    BY <1>5, <2>1, <2>2, <2>3 DEF Step
<1>6. ASSUME NEW n \in Ids, Stalled(n) PROVE Told
  <2>1. /\ End({n}) /\ ~st[n].stopped /\ st[n].handle /\ UNCHANGED shows
        /\ stream' = [stream EXCEPT ![st[n].session] = None] /\ stream[st[n].session] = n
    BY <1>6 DEF Stalled, FinishOutsideChain, Running
  <2>2. stream[t] # None => stream[t] = n
    BY <1>t, <2>1
  <2>3. QED
    BY <1>2, <2>1, <2>2
<1>7. ASSUME NEW x \in Sources, PageCloses(x) PROVE Told
  <2> DEFINE heard == {n \in Ids : Running(n) /\ st[n].src = x /\ st[n].retune # "stopping"}
  <2>1. /\ End(heard) /\ heard \in SUBSET Ids /\ \A n \in heard : ~st[n].stopped
        /\ stream' = [u \in Sessions |-> IF stream[u] \in heard THEN None ELSE stream[u]]
        /\ shows' = [u \in Sessions |->
                       shows[u] /\ ~(stream[u] \in heard /\ ~st[stream[u]].handle)]
    BY <1>7 DEF PageCloses, Running
  <2> HIDE DEF heard
  <2>2. shows[t] /\ (stream[t] \in heard => st[stream[t]].handle)
    BY <2>1
  <2>3. stream[t] # None => stream[t] \in heard
    BY <2>1
  <2>4. QED
    BY <1>2, <2>1, <2>2, <2>3
<1>8. ASSUME NEW n \in Ids, Retune(n) PROVE Told
  <2>1. PICK x, d : x = st[n].src /\ d = [op |-> "stop", n |-> n, why |-> "retune"]
    OBVIOUS
  <2>2. /\ cdp' = [cdp EXCEPT ![x] = Append(@, d)] /\ UNCHANGED <<shows, stream>>
        /\ d \in Commands
    BY <1>8, <2>1 DEF Retune, Send, Commands, Whys
  <2>3. \A q \in Seq(Commands) : Elements(Append(q, d)) = Elements(q) \cup {d}
    BY <2>2, AppendElements
  <2>4. \A y \in Sources : \A c \in Elements(cdp[y]) : c \in Elements(cdp'[y])
    BY <1>t, <2>2, <2>3
  <2>5. QED
    BY <1>1, <2>2, <2>4
<1>9. ASSUME NEW x \in Sources, Respond(x) PROVE Told
  <2>1. PICK n \in 1..made.streams, s \in Sessions :
          /\ n \in Ids /\ n # None /\ st[n].session = s /\ st[n].src = x /\ cdp[x] # <<>>
          /\ Head(cdp[x]).n = n /\ CommandSound(x, Head(cdp[x]))
          /\ UNCHANGED <<up, source>>
          /\ \/ ToBeginOfEnded(x, n) \/ ToBegin(x, n, s) \/ ToLateBegin(x, n, s)
             \/ ToFailedBegin(x, n, s) \/ ToDiscard(x, n, s) \/ ToRetune(x, n)
             \/ ToReopen(x, n) \/ ToFailedReopen(x, n, s) \/ ToStop(x, n, s)
             \/ ToReplacingStop(x, n, s)
    BY <1>9, Responses
  <2> DEFINE h == Head(cdp[x])
  <2>2. Took(x) => \A y \in Sources : \A c \in Elements(cdp[y]) : c = h \/ c \in Elements(cdp'[y])
    BY <2>1, Takes
  <2>3. ASSUME NEW op \in {"start", "stop"}, NEW why \in Whys, Sent(x, op, n, why)
        PROVE  /\ \A y \in Sources : \A c \in Elements(cdp[y]) : c = h \/ c \in Elements(cdp'[y])
               /\ [op |-> op, n |-> n, why |-> why] \in Elements(cdp'[x])
    <3>1. PICK d : d = [op |-> op, n |-> n, why |-> why]
      OBVIOUS
    <3>2. cdp[x] # <<>> /\ Sent(x, op, Head(cdp[x]).n, why)
          /\ d = [op |-> op, n |-> Head(cdp[x]).n, why |-> why]
      BY <2>1, <2>3, <3>1
    <3>3. ASSUME NEW y \in Sources
          PROVE  /\ \A c \in Elements(cdp[y]) : c = Head(cdp[x]) \/ c \in Elements(cdp'[y])
                 /\ d \in Elements(cdp'[x])
      <4> HIDE DEF h
      <4>1. \A c \in Elements(cdp[y]) : c = Head(cdp[x]) \/ c \in Elements(cdp'[y])
        BY <3>2, Sends, SMTT(30)
      <4>2. d \in Elements(cdp'[x])
        BY <3>2, Sends, SMTT(30)
      <4>3. QED
        BY <4>1, <4>2
    <3>4. QED
      BY <3>1, <3>3
  <2> HIDE DEF h
  <2>4. "start" \in {"start", "stop"} /\ "stop" \in {"start", "stop"}
        /\ "discard" \in Whys /\ "end" \in Whys /\ "retune" \in Whys
    BY DEF Whys
  <2>5. ASSUME shows[t], stream[t] = None, h.why # "end" \/ t # s,
               Took(x) \/ Sent(x, "stop", n, "discard") \/ Sent(x, "stop", n, "end")
                 \/ Sent(x, "start", n, "retune")
        PROVE  Told
    <3>1. \A y \in Sources : \A c \in Elements(cdp[y]) : c = h \/ c \in Elements(cdp'[y])
      BY <2>2, <2>3, <2>4, <2>5
    <3>2. h.n = n
      BY <2>1 DEF h
    <3>3. QED
      BY <1>1, <2>1, <2>5, <3>1, <3>2
  <2>6. CASE ToBeginOfEnded(x, n)
    BY <2>5, <2>6 DEF ToBeginOfEnded, Same, Oldest, h
  <2>7. CASE ToBegin(x, n, s)
    <3>1. h.why = "begin" /\ ~st[n].stopped /\ Took(x) /\ shows' = [shows EXCEPT ![s] = up] /\ UNCHANGED stream
      BY <2>7 DEF ToBegin, Oldest, h
    <3>2. t # s
      BY <1>a, <2>1, <3>1
    <3>3. shows[t] /\ stream[t] = None
      BY <1>t, <3>1, <3>2
    <3>4. QED
      BY <2>5, <3>1, <3>2, <3>3
  <2>8. CASE ToLateBegin(x, n, s)
    <3>1. /\ h.why = "begin" /\ Sent(x, "stop", n, "end") /\ UNCHANGED shows
          /\ stream' = [stream EXCEPT ![s] = None]
      BY <2>8 DEF ToLateBegin, Oldest, h
    <3>2. CASE t = s
      <4>1. PICK d : d = [op |-> "stop", n |-> n, why |-> "end"]
        OBVIOUS
      <4>2. d \in Elements(cdp'[x]) /\ d.why = "end" /\ d.n = n
        BY <2>3, <2>4, <3>1, <4>1
      <4>3. st'[n].session = t
        BY <2>1, <3>2, StreamsStay
      <4>4. QED
        BY <4>2, <4>3
    <3>3. CASE t # s
      BY <1>t, <2>5, <3>1, <3>3
    <3>4. QED
      BY <3>2, <3>3
  <2>9. CASE ToFailedBegin(x, n, s)
    <3>1. h.why = "begin" /\ Took(x) /\ Leaves(s, n) /\ shows' = [shows EXCEPT ![s] = FALSE]
      BY <2>9 DEF ToFailedBegin, Oldest, TellStopped, h
    <3>2. t # s /\ shows[t] /\ stream[t] = None
      BY <1>t, <3>1 DEF Leaves
    <3>3. QED
      BY <2>5, <3>1, <3>2
  <2>10. CASE ToDiscard(x, n, s)
    BY <2>5, <2>10 DEF ToDiscard, Oldest, h
  <2>11. CASE ToRetune(x, n)
    <3>1. h.why = "retune" /\ UNCHANGED <<stream, shows>> /\ (Took(x) \/ Sent(x, "start", n, "retune"))
      BY <2>11 DEF ToRetune, Same, Oldest, h
    <3>2. QED
      BY <2>5, <3>1
  <2>12. CASE ToReopen(x, n)
    <3>1. h.why = "retune" /\ UNCHANGED <<stream, shows>> /\ (Took(x) \/ Sent(x, "stop", n, "discard"))
      BY <2>12 DEF ToReopen, Same, Oldest, h
    <3>2. QED
      BY <2>5, <3>1
  <2>13. CASE ToFailedReopen(x, n, s)
    <3>1. /\ h.why = "retune" /\ Took(x) /\ Leaves(s, n)
          /\ IF st[n].stopped THEN UNCHANGED shows ELSE shows' = [shows EXCEPT ![s] = FALSE]
      BY <2>13 DEF ToFailedReopen, Oldest, TellStopped, h
    <3>2. CASE stream[t] = None
      BY <1>t, <2>5, <3>1, <3>2
    <3>3. CASE stream[t] # None
      <4>1. t = s /\ stream[s] = n
        BY <1>t, <3>1, <3>3 DEF Leaves
      <4>2. ~st[n].stopped
        BY <1>b, <3>3, <4>1
      <4>3. QED
        BY <1>t, <3>1, <4>1, <4>2
    <3>4. QED
      BY <3>2, <3>3
  <2>14. CASE ToStop(x, n, s)
    <3>1. Took(x) /\ shows' = [shows EXCEPT ![s] = FALSE] /\ UNCHANGED stream
      BY <2>14 DEF ToStop, TellStopped
    <3>2. t # s /\ shows[t] /\ stream[t] = None
      BY <1>t, <3>1
    <3>3. QED
      BY <2>5, <3>1, <3>2
  <2>15. CASE ToReplacingStop(x, n, s)
    <3>1. /\ source[s] \in Sources /\ Answered(x) \in [Sources -> Seq(Commands)]
          /\ Create(s, source[s], Answered(x)) /\ UNCHANGED shows
          /\ stream' = [stream EXCEPT ![s] = made.streams + 1]
      BY <2>15 DEF ToReplacingStop, Create
    <3>2. t # s /\ stream[t] = None
      <4>1. made.streams + 1 # None
        BY <1>0, Bounds DEF None
      <4>2. QED
        BY <1>t, <3>1, <4>1
    <3>3. /\ Answered(x)[x] = Tail(cdp[x])
          /\ \A y \in Sources \ {x} : Answered(x)[y] = cdp[y]
      BY <1>t DEF Answered
    <3>4. \A y \in Sources : /\ OneOfEach(Answered(x)[y])
                             /\ \A c \in Elements(Answered(x)[y]) : c \in Elements(cdp[y])
                             /\ \A c \in Elements(cdp[y]) : c = h \/ c \in Elements(Answered(x)[y])
      <4>1. /\ OneOfEach(Tail(cdp[x]))
            /\ Elements(cdp[x]) = {h} \cup Elements(Tail(cdp[x]))
        BY <2>1, Answers DEF h
      <4>2. \A y \in Sources : OneOfEach(cdp[y])
        BY <1>0 DEF QueuesSound
      <4>3. QED
        BY <3>3, <4>1, <4>2
    <3>5. \A y \in Sources : \A c \in Elements(Answered(x)[y]) : c \in Elements(cdp'[y])
      BY <3>1, <3>4, CreateQueues
    <3>6. h.n = n
      BY <2>1 DEF h
    <3>7. \A y \in Sources : \A c \in Elements(cdp[y]) :
            c.why = "end" /\ st[c.n].session = t => c \in Elements(cdp'[y])
      BY <2>1, <3>2, <3>4, <3>5, <3>6
    <3>8. QED
      BY <1>1, <3>1, <3>2, <3>7
  <2>16. QED
    BY <2>1, <2>6, <2>7, <2>8, <2>9, <2>10, <2>11, <2>12, <2>13, <2>14, <2>15
<1>10. CASE Reconnect \/ UNCHANGED vars
  BY <1>3, <1>10 DEF Reconnect, hub, browser, vars
<1>11. ASSUME NEW s \in Sessions,
              Register(s) \/ Unregister(s) \/ \E op \in {"start", "stop"} : Frame(s, op)
       PROVE  Told
  BY <1>3, <1>11 DEF Register, Unregister, Frame, browser
<1>12. QED
  BY <1>4, <1>5, <1>6, <1>7, <1>8, <1>9, <1>10, <1>11 DEF Next

-----------------------------------------------------------------------------
(***************************************************************************)
(* The theorems.                                                           *)
(***************************************************************************)

LEMMA InitIInv == Init => IInv
<1> SUFFICES ASSUME Init PROVE IInv
  OBVIOUS
<1>1. TypeOK
  BY InitTypeOK
<1>2. /\ \A n \in Ids : st[n] = Unused /\ st[n].stopped
      /\ \A s \in Sessions : /\ stream[s] = None /\ source[s] = None /\ ~shows[s]
                             /\ chain[s] = <<>> /\ running[s] = NothingRuns
      /\ \A x \in Sources : cdp[x] = <<>> /\ casting[x] = None
      /\ made.streams = 0 /\ made.sources = 0 /\ up
  BY DEF Init, Unused
<1>3. Elements(<<>>) = {}
  BY DEF Elements
<1>4. Numbered
  BY <1>2 DEF Numbered, None, NothingRuns
<1>5. StreamsSound /\ ChainsSound
  BY <1>2 DEF StreamsSound, ChainsSound, NothingRuns
<1>6. QueuesSound
  BY <1>2, <1>3 DEF QueuesSound, OneOfEach
<1>7. CastsSound /\ DownSound /\ TellsSound /\ ClosesSound
  BY <1>2 DEF CastsSound, DownSound, TellsSound, ClosesSound
<1>8. QED
  BY <1>1, <1>4, <1>5, <1>6, <1>7 DEF IInv

LEMMA StepIInv == IInv /\ [Next]_vars => IInv'
BY StepTypeOK, StepNumbered, StepStreamsSound, StepChainsSound, StepQueuesSound,
   StepCastsSound, StepDownSound, StepTellsSound, StepClosesSound DEF IInv

LEMMA IInvHolds == Spec => []IInv
<1>1. QED
  BY InitIInv, StepIInv, PTL DEF Spec

\* Every variable of the hub has its type, whatever comes in which order.
THEOREM ViewTypeOK == Spec => []TypeOK
<1>1. IInv => TypeOK
  BY DEF IInv
<1>2. QED
  BY <1>1, IInvHolds, PTL

\* Nothing streams for nobody: stopAll, unregister and the second look of a start
\* that waited leave no stream without a connection, and none without a session
\* once the session's chain is empty.
THEOREM NothingForNobody == Spec => []NothingStreamsForNobody
<1>1. ASSUME IInv PROVE NothingRunsWhileDown
  <2>1. ASSUME ~up, NEW n \in Ids PROVE st[n].stopped
    <3>1. ASSUME ~st[n].stopped PROVE FALSE
      <4>1. n # None /\ st[n].session \in Sessions
        BY <1>1, <3>1, RunningMade, ViewBounds DEF IInv, Ids, None
      <4>2. stream[st[n].session] = n
        BY <1>1, <3>1 DEF IInv, StreamsSound
      <4>3. QED
        BY <1>1, <2>1, <4>1, <4>2 DEF IInv, DownSound
    <3>2. QED
      BY <3>1
  <2>2. QED
    BY <2>1 DEF NothingRunsWhileDown
<1>2. IInv => NothingRunsUnregistered
  <2>1. "unregister" \notin Elements(<<>>)
    BY DEF Elements
  <2>2. QED
    BY <2>1 DEF IInv, ClosesSound, NothingRunsUnregistered
<1>3. IInv => NothingStreamsForNobody
  BY <1>1, <1>2 DEF NothingStreamsForNobody
<1>4. QED
  BY <1>3, IInvHolds, PTL

\* The daemon shows no dead stream: whoever ended it, its end was told by the time
\* the session is at rest.
THEOREM EndsTold == Spec => []EndsAreTold
<1>1. ASSUME IInv PROVE EndsAreTold
  <2>1. ASSUME NEW s \in Sessions, AtRest(s), shows[s], stream[s] = None PROVE FALSE
    <3>0. PICK x \in Sources : \E c \in Elements(cdp[x]) : st[c.n].session = s
      BY <1>1, <2>1 DEF IInv, TellsSound
    <3>1. PICK c \in Elements(cdp[x]) : st[c.n].session = s
      BY <3>0
    <3>2. PICK k \in DOMAIN cdp[x] : c = cdp[x][k]
      BY <3>1 DEF Elements
    <3>3. QED
      BY <2>1, <3>1, <3>2 DEF AtRest
  <2>2. QED
    BY <2>1 DEF EndsAreTold
<1>2. QED
  BY <1>1, IInvHolds, PTL

\* A browser with nothing left to answer casts only for a stream that runs.
THEOREM NoScreencastLeaks == Spec => []NoLeakedScreencast
<1>1. ASSUME IInv PROVE NoLeakedScreencast
  <2>1. ASSUME NEW x \in Sources, cdp[x] = <<>>, casting[x] # None PROVE Running(casting[x])
    <3>1. casting[x] \in Ids
      BY <1>1, <2>1 DEF IInv, TypeOK
    <3>2. Elements(cdp[x]) = {}
      BY <2>1 DEF Elements
    <3>3. ~st[casting[x]].stopped
      BY <1>1, <2>1, <3>2 DEF IInv, CastsSound
    <3>4. QED
      BY <1>1, <2>1, <3>1, <3>3 DEF IInv, StreamsSound, Running
  <2>2. QED
    BY <2>1 DEF NoLeakedScreencast
<1>2. QED
  BY <1>1, IInvHolds, PTL

=============================================================================

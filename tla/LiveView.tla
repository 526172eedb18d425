------------------------------ MODULE LiveView ------------------------------
(***************************************************************************)
(* The live-view hub (src/helper/operator-view-hub.ts): the streams the    *)
(* daemon asked for, the per-session chain their starts and stops run in,  *)
(* and the screencast commands they send to the session's browser          *)
(* (src/helper/operator-screencast.ts).                                    *)
(*                                                                         *)
(* A browser executes the commands of its CDP session in order.  Executing *)
(* one and handling its response is one step, Respond: what is sent        *)
(* between the two is behind it in the queue anyway.  Frames, levels and   *)
(* acks are abstracted: a stream may stall or change its width at any      *)
(* moment its timer may see it.                                            *)
(*                                                                         *)
(* A definition whose name says what it leaves out is a broken variant of  *)
(* the definition below it; nothing in Next uses it.                       *)
(***************************************************************************)
EXTENDS Naturals, Sequences, FiniteSets

CONSTANTS
  Sessions,     \* session ids
  MaxStreams,   \* MAX_STREAMS
  MaxSources,   \* bound: browsers registered over time
  MaxStarts,    \* bound: view.start frames over time
  MaxQueue,     \* bound: daemon frames queued per session
  MaxRetunes    \* bound: width changes over time

ASSUME ViewBounds ==
  /\ MaxStreams \in Nat /\ MaxSources \in Nat /\ MaxStarts \in Nat
  /\ MaxQueue \in Nat /\ MaxRetunes \in Nat

Sources == 1..MaxSources
Ids     == 1..MaxStarts
None    == 0

VARIABLES
  up,       \* the channel is connected and ready
  source,   \* session -> the browser registered for it (#sources)
  stream,   \* session -> its stream (#streams)
  chain,    \* session -> queued starts, stops and unregisters; the head runs
  running,  \* session -> what the head of its chain waits for: of which stream, and
            \* the source it read before it waited
  st,       \* stream -> its session, its source and its state
  cdp,      \* source -> screencast commands sent and not answered
  casting,  \* source -> the stream whose start it executed last, or None
  open,     \* source -> its page (and so its CDP session) is open
  shows,    \* session -> the daemon was told a stream runs, on this connection
  made,     \* browsers registered, view.start frames and streams made so far
  retunes   \* width changes so far

hub     == <<source, stream, chain, running, st>>
browser == <<cdp, casting, open>>
vars    == <<up, hub, browser, shows, made, retunes>>

Ops == {"start", "stale", "stop", "unregister"}

\* Why a command was sent, which is what its answer resumes: the start of
\* begin(), a stop in end(), a width change, or the stop of a screencast whose
\* stream had ended before it began.
Whys == {"begin", "end", "retune", "discard"}

Commands == [op : {"start", "stop"}, n : Ids, why : Whys]

Unused == [session |-> None, src |-> None,
           stopped |-> TRUE, handle |-> FALSE, retune |-> "no"]

NothingRuns == [doing |-> "idle", n |-> None, src |-> None]

Streams == [session : Sessions \cup {None}, src : Sources \cup {None}, stopped : BOOLEAN,
            handle : BOOLEAN, retune : {"no", "stopping", "opening"}]

Waits == [doing : {"idle", "replacing", "beginning", "ending"},
          n : Ids \cup {None}, src : Sources \cup {None}]

Counts == [sources : 0..MaxSources, starts : 0..MaxStarts, streams : 0..MaxStarts]

TypeOK ==
  /\ up \in BOOLEAN
  /\ source  \in [Sessions -> Sources \cup {None}]
  /\ stream  \in [Sessions -> Ids \cup {None}]
  /\ chain   \in [Sessions -> Seq(Ops)]
  /\ running \in [Sessions -> Waits]
  /\ st      \in [Ids -> Streams]
  /\ cdp     \in [Sources -> Seq(Commands)]
  /\ casting \in [Sources -> Ids \cup {None}]
  /\ open    \in [Sources -> BOOLEAN]
  /\ shows   \in [Sessions -> BOOLEAN]
  /\ made    \in Counts
  /\ retunes \in 0..MaxRetunes

Init ==
  /\ up = TRUE
  /\ source = [s \in Sessions |-> None]
  /\ stream = [s \in Sessions |-> None]
  /\ chain = [s \in Sessions |-> <<>>]
  /\ running = [s \in Sessions |-> NothingRuns]
  /\ st = [n \in Ids |-> Unused]
  /\ cdp = [x \in Sources |-> <<>>]
  /\ casting = [x \in Sources |-> None]
  /\ open = [x \in Sources |-> TRUE]
  /\ shows = [s \in Sessions |-> FALSE]
  /\ made = [sources |-> 0, starts |-> 0, streams |-> 0]
  /\ retunes = 0

-----------------------------------------------------------------------------
(* Effects the handlers share.                                             *)

Send(x, op, n, why) == cdp' = [cdp EXCEPT ![x] = Append(@, [op |-> op, n |-> n, why |-> why])]

Pop(s) ==
  /\ chain' = [chain EXCEPT ![s] = Tail(@)]
  /\ running' = [running EXCEPT ![s] = NothingRuns]

\* The head of the chain waits for a command of stream n of source x.
Await(s, what, n, x) == running' = [running EXCEPT ![s] = [doing |-> what, n |-> n, src |-> x]]
Awaits(s, what, n) == running[s].doing = what /\ running[s].n = n

\* A frame that says no stream runs: view.stopped or an error.  It reaches the
\* daemon only while the channel is up, which is when `shows` can be TRUE.
TellStopped(s) == shows' = [shows EXCEPT ![s] = FALSE]

\* end() of the streams E, each told apart by its handle: one that has none yet
\* sends no command; begin() will find it stopped.
Ended(E) == [n \in Ids |-> IF n \in E
              THEN [st[n] EXCEPT !.stopped = TRUE, !.handle = FALSE] ELSE st[n]]
StopsSent(E) ==
  [x \in Sources |->
     LET mine == {n \in E : st[n].src = x /\ st[n].handle}
     IN IF mine = {} THEN cdp[x]
        ELSE Append(cdp[x], [op |-> "stop", n |-> CHOOSE n \in mine : TRUE, why |-> "end"])]

End(E) == st' = Ended(E) /\ cdp' = StopsSent(E)

Running(n) == n # None /\ ~st[n].stopped /\ stream[st[n].session] = n

-----------------------------------------------------------------------------
(* The session registry.                                                   *)

Register(s) ==
  /\ source[s] = None /\ made.sources < MaxSources
  /\ source' = [source EXCEPT ![s] = made.sources + 1]
  /\ made' = [made EXCEPT !.sources = @ + 1]
  /\ UNCHANGED <<up, stream, chain, running, st, browser, shows, retunes>>

\* The source goes at once; ending the stream is queued.
Unregister(s) ==
  /\ source[s] # None
  /\ source' = [source EXCEPT ![s] = None]
  /\ chain' = [chain EXCEPT ![s] = Append(@, "unregister")]
  /\ UNCHANGED <<up, stream, running, st, browser, shows, made, retunes>>

-----------------------------------------------------------------------------
(* Frames from the daemon, and the connection.                             *)

\* view.start and view.stop are queued behind what runs for the session.
Frame(s, op) ==
  /\ up /\ Len(chain[s]) < MaxQueue
  /\ op = "start" => made.starts < MaxStarts
  /\ chain' = [chain EXCEPT ![s] = Append(@, op)]
  /\ made' = [made EXCEPT !.starts = IF op = "start" THEN @ + 1 ELSE @]
  /\ UNCHANGED <<up, source, stream, running, st, browser, shows, retunes>>

\* stopAll: the epoch moves, so starts queued or running do not go on, and
\* every stream is ended.
StaleNone(q) == q
Stale(q) == [k \in DOMAIN q |-> IF q[k] = "start" THEN "stale" ELSE q[k]]
Drop ==
  /\ up /\ up' = FALSE
  /\ chain' = [s \in Sessions |-> Stale(chain[s])]
  /\ stream' = [s \in Sessions |-> None]
  /\ End({n \in Ids : Running(n)})
  /\ shows' = [s \in Sessions |-> FALSE]
  /\ UNCHANGED <<source, running, casting, open, made, retunes>>

Reconnect ==
  /\ ~up /\ up' = TRUE
  /\ UNCHANGED <<hub, browser, shows, made, retunes>>

-----------------------------------------------------------------------------
(* The head of a session's chain starts to run.                            *)

\* `new Stream` and begin(): the screencast is asked for.  The head waits.  Every
\* stream takes a start, so the bound on starts is never what stops this one.
Create(s, x, queues) ==
  LET n == made.streams + 1 IN
  /\ n \in Ids
  /\ made' = [made EXCEPT !.streams = n]
  /\ stream' = [stream EXCEPT ![s] = n]
  /\ st' = [st EXCEPT ![n] = [session |-> s, src |-> x, stopped |-> FALSE,
                              handle |-> FALSE, retune |-> "no"]]
  /\ cdp' = [queues EXCEPT ![x] = Append(@, [op |-> "start", n |-> n, why |-> "begin"])]
  /\ Await(s, "beginning", n, x)

Idle(s, op) == running[s] = NothingRuns /\ chain[s] # <<>> /\ Head(chain[s]) = op

Room == Cardinality({s \in Sessions : stream[s] # None}) < MaxStreams

\* Queued before a disconnect: it does not run.
SkipStale(s) ==
  /\ Idle(s, "stale")
  /\ Pop(s)
  /\ UNCHANGED <<up, source, stream, st, browser, shows, made, retunes>>

\* unknown-session or view-limit.
RefuseStart(s) ==
  /\ Idle(s, "start")
  /\ source[s] = None \/ (stream[s] = None /\ ~Room)
  /\ Pop(s) /\ TellStopped(s)
  /\ UNCHANGED <<up, source, stream, st, browser, made, retunes>>

StartNew(s) ==
  /\ Idle(s, "start")
  /\ source[s] # None /\ stream[s] = None /\ Room
  /\ Create(s, source[s], cdp)
  /\ UNCHANGED <<up, source, chain, casting, open, shows, retunes>>

\* The session has a stream: it is ended first, and nobody is told.
Replace(s) ==
  /\ Idle(s, "start") /\ source[s] # None /\ stream[s] # None
  /\ Await(s, "replacing", stream[s], source[s])
  /\ stream' = [stream EXCEPT ![s] = None]
  /\ End({stream[s]})
  /\ UNCHANGED <<up, source, chain, casting, open, shows, made, retunes>>

StopRunning(s, op) ==
  /\ op \in {"stop", "unregister"} /\ Idle(s, op) /\ stream[s] # None
  /\ Await(s, "ending", stream[s], source[s])
  /\ stream' = [stream EXCEPT ![s] = None]
  /\ End({stream[s]})
  /\ UNCHANGED <<up, source, chain, casting, open, shows, made, retunes>>

\* Stopping what is not running is answered like stopping what was.
StopNothing(s, op) ==
  /\ op \in {"stop", "unregister"} /\ Idle(s, op) /\ stream[s] = None
  /\ Pop(s)
  /\ IF op = "stop" THEN TellStopped(s) ELSE UNCHANGED shows
  /\ UNCHANGED <<up, source, stream, st, browser, made, retunes>>

-----------------------------------------------------------------------------
(* What ends or changes a stream by itself, outside its session's chain.   *)

FinishOutsideChain(n) ==
  /\ stream' = [stream EXCEPT ![st[n].session] = None]
  /\ End({n})

\* #onTick: the daemon acks nothing.
Stalled(n) ==
  /\ Running(n) /\ st[n].handle
  /\ FinishOutsideChain(n)
  /\ UNCHANGED <<up, source, chain, running, casting, open, shows, made, retunes>>

\* #onTick: the level moved the width.  The screencast is stopped, then started.
Retune(n) ==
  /\ Running(n) /\ st[n].handle /\ st[n].retune = "no" /\ retunes < MaxRetunes
  /\ retunes' = retunes + 1
  /\ st' = [st EXCEPT ![n].retune = "stopping"]
  /\ Send(st[n].src, "stop", n, "retune")
  /\ UNCHANGED <<up, source, stream, chain, running, casting, open, shows, made>>

\* The page closes, and its CDP session with it.  A stream that listens (it
\* does not between the two halves of a width change) ends, and the daemon is
\* told at once, for its stop is refused like every later command.
PageCloses(x) ==
  LET heard == {n \in Ids : Running(n) /\ st[n].src = x /\ st[n].retune # "stopping"} IN
  /\ open[x] /\ x <= made.sources
  /\ open' = [open EXCEPT ![x] = FALSE]
  /\ casting' = [casting EXCEPT ![x] = None]
  /\ stream' = [s \in Sessions |-> IF stream[s] \in heard THEN None ELSE stream[s]]
  /\ End(heard)
  /\ shows' = [s \in Sessions |-> shows[s] /\ ~(stream[s] \in heard /\ ~st[stream[s]].handle)]
  /\ UNCHANGED <<up, source, chain, running, made, retunes>>

-----------------------------------------------------------------------------
(* The browser answers the oldest command.                                 *)

Answered(x) == [cdp EXCEPT ![x] = Tail(@)]
Next2(x, op, n, why) ==
  [cdp EXCEPT ![x] = Append(Tail(@), [op |-> op, n |-> n, why |-> why])]

Oldest(x, op, why) ==
  cdp[x] # <<>> /\ Head(cdp[x]).op = op /\ Head(cdp[x]).why = why

BeganStillCasting(x) ==
  LET n == Head(cdp[x]).n
      s == st[n].session IN
  /\ Oldest(x, "start", "begin") /\ open[x] /\ st[n].stopped
  /\ casting' = [casting EXCEPT ![x] = n]
  /\ cdp' = Answered(x) /\ Pop(s)
  /\ UNCHANGED <<up, source, stream, st, open, shows, made, retunes>>

\* begin() has its handle, and the stream was ended meanwhile.
BeganStopped(x) ==
  LET n == Head(cdp[x]).n IN
  /\ Oldest(x, "start", "begin") /\ open[x] /\ st[n].stopped
  /\ casting' = [casting EXCEPT ![x] = n]
  /\ cdp' = Next2(x, "stop", n, "discard")
  /\ UNCHANGED <<up, hub, open, shows, made, retunes>>

\* ... or it runs, and view.started is sent.
Began(x) ==
  LET n == Head(cdp[x]).n
      s == st[n].session IN
  /\ Oldest(x, "start", "begin") /\ open[x] /\ ~st[n].stopped /\ source[s] = x
  /\ casting' = [casting EXCEPT ![x] = n]
  /\ cdp' = Answered(x)
  /\ st' = [st EXCEPT ![n].handle = TRUE]
  /\ Pop(s)
  /\ shows' = [shows EXCEPT ![s] = up]
  /\ UNCHANGED <<up, source, stream, open, made, retunes>>

\* ... or its session closed meanwhile: it is ended, still inside the chain.
BeganLate(x) ==
  LET n == Head(cdp[x]).n
      s == st[n].session IN
  /\ Oldest(x, "start", "begin") /\ open[x] /\ ~st[n].stopped /\ source[s] # x
  /\ casting' = [casting EXCEPT ![x] = n]
  /\ cdp' = Next2(x, "stop", n, "end")
  /\ st' = [st EXCEPT ![n].stopped = TRUE]
  /\ stream' = [stream EXCEPT ![s] = None]
  /\ Await(s, "ending", n, x)
  /\ UNCHANGED <<up, source, chain, open, shows, made, retunes>>

BeginFailsQuietly(x) ==
  LET n == Head(cdp[x]).n
      s == st[n].session IN
  /\ Oldest(x, "start", "begin")
  /\ cdp' = Answered(x)
  /\ st' = [st EXCEPT ![n].stopped = TRUE]
  /\ stream' = [stream EXCEPT ![s] = IF @ = n THEN None ELSE @]
  /\ Pop(s)
  /\ UNCHANGED <<up, source, casting, open, shows, made, retunes>>

BeginFailsForGood(x) ==
  LET n == Head(cdp[x]).n
      s == st[n].session IN
  /\ Oldest(x, "start", "begin")
  /\ cdp' = Answered(x)
  /\ st' = [st EXCEPT ![n].stopped = TRUE]
  /\ stream' = [stream EXCEPT ![s] = IF @ = n THEN None ELSE @]
  /\ TellStopped(s)
  /\ UNCHANGED <<up, source, chain, running, casting, open, made, retunes>>

\* The browser refuses the screencast: view-failed.
BeginFails(x) ==
  LET n == Head(cdp[x]).n
      s == st[n].session IN
  /\ Oldest(x, "start", "begin")
  /\ cdp' = Answered(x)
  /\ st' = [st EXCEPT ![n].stopped = TRUE]
  /\ stream' = [stream EXCEPT ![s] = IF @ = n THEN None ELSE @]
  /\ Pop(s) /\ TellStopped(s)
  /\ UNCHANGED <<up, source, casting, open, made, retunes>>

\* The stop of begin() on a stream that had ended: begin() returns.
Discarded(x) ==
  LET n == Head(cdp[x]).n
      s == st[n].session IN
  /\ Oldest(x, "stop", "discard")
  /\ casting' = [casting EXCEPT ![x] = None]
  /\ cdp' = Answered(x)
  /\ IF Awaits(s, "beginning", n)
       THEN Pop(s) ELSE UNCHANGED <<chain, running>>
  /\ st' = [st EXCEPT ![n].retune = "no"]
  /\ UNCHANGED <<up, source, stream, open, shows, made, retunes>>

\* A width change goes on, unless the stream ended or the page closed.
Retuned(x) ==
  LET n == Head(cdp[x]).n IN
  /\ Oldest(x, "stop", "retune")
  /\ casting' = [casting EXCEPT ![x] = None]
  /\ IF st[n].stopped
       THEN cdp' = Answered(x) /\ st' = [st EXCEPT ![n].retune = "no"]
       ELSE cdp' = Next2(x, "start", n, "retune") /\ st' = [st EXCEPT ![n].retune = "opening"]
  /\ UNCHANGED <<up, source, stream, chain, running, open, shows, made, retunes>>

Reopened(x) ==
  LET n == Head(cdp[x]).n IN
  /\ Oldest(x, "start", "retune") /\ open[x]
  /\ casting' = [casting EXCEPT ![x] = n]
  /\ IF st[n].stopped
       THEN cdp' = Next2(x, "stop", n, "discard") /\ UNCHANGED st
       ELSE cdp' = Answered(x) /\ st' = [st EXCEPT ![n].retune = "no"]
  /\ UNCHANGED <<up, source, stream, chain, running, open, shows, made, retunes>>

ReopenFails(x) ==
  LET n == Head(cdp[x]).n
      s == st[n].session IN
  /\ Oldest(x, "start", "retune")
  /\ cdp' = Answered(x)
  /\ st' = [st EXCEPT ![n] = [@ EXCEPT !.stopped = TRUE, !.handle = FALSE, !.retune = "no"]]
  /\ stream' = [stream EXCEPT ![s] = IF @ = n THEN None ELSE @]
  /\ IF st[n].stopped THEN UNCHANGED shows ELSE TellStopped(s)
  /\ UNCHANGED <<up, source, chain, running, casting, open, made, retunes>>

\* A replacing start goes on while its connection and its session are the same.
StillWanted(s) == Head(chain[s]) = "start" /\ source[s] = running[s].src

\* A stop of end() is answered.  #finish tells the daemon, unless it ended the
\* stream to replace it; whoever in the chain waited for it goes on.
Stopped(x) ==
  LET n == Head(cdp[x]).n
      s == st[n].session IN
  /\ Oldest(x, "stop", "end")
  /\ casting' = [casting EXCEPT ![x] = None]
  /\ UNCHANGED <<up, source, open, retunes>>
  /\ \/ /\ running[s].n # n
        /\ cdp' = Answered(x) /\ TellStopped(s)
        /\ UNCHANGED <<stream, chain, running, st, made>>
     \/ /\ Awaits(s, "ending", n) \/ (Awaits(s, "replacing", n) /\ ~StillWanted(s))
        /\ cdp' = Answered(x) /\ TellStopped(s) /\ Pop(s)
        /\ UNCHANGED <<stream, st, made>>
     \/ /\ Awaits(s, "replacing", n) /\ StillWanted(s)
        /\ Create(s, source[s], Answered(x))
        /\ UNCHANGED <<chain, shows>>

Respond(x) ==
  \/ BeganStopped(x) \/ Began(x) \/ BeganLate(x) \/ BeginFails(x)
  \/ Discarded(x) \/ Retuned(x) \/ Reopened(x) \/ ReopenFails(x) \/ Stopped(x)

Step(s) ==
  \/ SkipStale(s) \/ RefuseStart(s) \/ StartNew(s) \/ Replace(s)
  \/ \E op \in {"stop", "unregister"} : StopRunning(s, op) \/ StopNothing(s, op)

Next ==
  \/ \E s \in Sessions :
       \/ Register(s) \/ Unregister(s) \/ Step(s)
       \/ \E op \in {"start", "stop"} : Frame(s, op)
  \/ Drop \/ Reconnect
  \/ \E n \in Ids : Stalled(n) \/ Retune(n)
  \/ \E x \in Sources : PageCloses(x) \/ Respond(x)

Spec == Init /\ [][Next]_vars

\* The event loop runs what is queued, and a browser answers what it is sent (a
\* closed page's session by refusing it).  Nothing is assumed of the daemon.
Fairness ==
  /\ \A s \in Sessions : WF_vars(Step(s))
  /\ \A x \in Sources : WF_vars(Respond(x))

FairSpec == Spec /\ Fairness

-----------------------------------------------------------------------------
(* Properties.                                                             *)

\* A stream never outlives its connection: while the channel is down no stream
\* runs, whatever was queued or half begun when it dropped.
NothingRunsWhileDown == ~up => \A n \in Ids : st[n].stopped

\* A stream never outlives its session: once the work queued for a session with
\* no browser is done, no stream of it is left, whichever of the close, a start
\* in flight and its replacement came first.
NothingRunsUnregistered ==
  \A s \in Sessions : source[s] = None /\ chain[s] = <<>> => stream[s] = None

\* What both come to: nothing streams for nobody (stopAll, unregister, and the
\* second look of a start that waited).
NothingStreamsForNobody == NothingRunsWhileDown /\ NothingRunsUnregistered

AtRest(s) ==
  /\ up /\ chain[s] = <<>>
  /\ \A x \in Sources : \A k \in DOMAIN cdp[x] : st[cdp[x][k].n].session # s

\* The daemon shows no dead stream: when a session is at rest, the end of its
\* last stream was told over this connection, whoever ended it.
EndsAreTold == \A s \in Sessions : AtRest(s) /\ shows[s] => stream[s] # None

\* ... and a stream that runs is one the daemon was told of, and not told the end
\* of.  The late end of a closed session's stream names only the session id.
LivesAreTold == \A s \in Sessions : AtRest(s) /\ stream[s] # None => shows[s]

\* A browser with nothing left to answer casts only for a stream that runs: an
\* end that overtook a start or a width change does not leave the page encoding
\* frames nobody takes.
NoLeakedScreencast ==
  \A x \in Sources : cdp[x] = <<>> /\ casting[x] # None => Running(casting[x])

\* Closing a session waits for its place in the chain: it gets its turn.
UnregisterEnds ==
  \A s \in Sessions :
    (\E k \in DOMAIN chain[s] : chain[s][k] = "unregister")
      ~> (\A k \in DOMAIN chain[s] : chain[s][k] # "unregister")

\* "At most 4 streams run at once": a replacing start that gave its place up while
\* it waited for the old stream takes a place without looking again.
StreamLimit == Cardinality({s \in Sessions : stream[s] # None}) <= MaxStreams

\* "A session's starts and stops run one at a time": a stream that runs on an
\* open page has its screencast.  A width change answered after its stream ended
\* stops the screencast of the stream that came after.
HasScreencast ==
  \A n \in Ids :
    /\ Running(n) /\ st[n].handle /\ st[n].retune = "no"
    /\ open[st[n].src] /\ cdp[st[n].src] = <<>>
    => casting[st[n].src] = n
=============================================================================

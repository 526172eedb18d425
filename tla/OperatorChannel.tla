-------------------------- MODULE OperatorChannel --------------------------
(***************************************************************************)
(* The operator channel (src/helper/operator-channel.ts): one connection   *)
(* to a Unix socket the host daemon listens on, the requests that wait for *)
(* the daemon's answer, and the bridges (src/helper/bridge.ts) that ask.   *)
(*                                                                         *)
(* Every handler of the link runs to its end without an await, so each is  *)
(* one action.  What the listener does is external: it sends any frame at  *)
(* any time, but it knows the token (peer = "daemon") or it does not, and  *)
(* it can name only the requests it was sent, whose ids are random.        *)
(* Time is abstract: an armed timer may fire at any moment.                *)
(*                                                                         *)
(* A definition whose name says what it leaves out is a broken variant of  *)
(* the definition below it; nothing in Next uses it.                       *)
(***************************************************************************)
EXTENDS Integers, FiniteSets

CONSTANTS
  Asks,          \* calls of ask(), one per prompt raised
  Bridges,       \* the bridges that ask; each belongs to one session
  SessionOf,     \* bridge -> session id; a reopened id has a second bridge
  Texts,         \* what page prompts say (scope, tool and summary)
  MaxPending,    \* MAX_PENDING
  ClassLimit,    \* CLASS_LIMIT
  SessionLimit   \* SESSION_LIMIT

Classes == {"hook", "human", "page"}

ASSUME LimitAssumption ==
  /\ MaxPending \in Nat
  /\ ClassLimit \in [Classes -> Nat]
  /\ SessionLimit \in [Classes -> Nat]
  /\ ClassLimit["hook"] + ClassLimit["human"] + ClassLimit["page"] <= MaxPending
ASSUME AsksAssumption == IsFiniteSet(Asks)

VARIABLES
  link,      \* the state of the link
  sock,      \* its socket: "none", "open", or "destroyed" (no close event yet)
  peer,      \* who listens: "daemon" knows the token, "imposter" does not
  unread,    \* the chunk that got the socket destroyed may hold more lines
  retry,     \* a redial is scheduled
  handshake, \* the handshake timer is armed
  status,    \* ask -> where it is, and in the end how it settled
  req,       \* ask -> while it waits: its class, its bridge and what it says
  first,     \* ask -> for a joined ask, the ask whose answer it shares
  detached,  \* bridges that were detached
  cards,     \* requests sent and not yet resolved on this connection
  known,     \* waiting requests a listener that proved the token was ever sent
  unproved   \* types of the frames sent to a listener that had not proved itself

conn  == <<link, sock, peer, unread, retry, handshake>>
asked == <<status, req, first>>
wire  == <<cards, known, unproved>>
vars  == <<conn, asked, detached, wire>>

\* What a hook or a human prompt says is never compared.
Requests == [cls : {"page"}, bridge : Bridges, text : Texts] \cup
            [cls : {"hook", "human"}, bridge : Bridges, text : {"-"}]
NoRequest == [cls |-> "hook", bridge |-> "none", text |-> "-"]

\* "refused" is any rejected promise: a limit, the request's timeout, an abort,
\* a closed channel.  The callers treat each as a deny.
Settled == {"approved", "denied", "refused"}

TypeOK ==
  /\ link      \in {"down", "hello", "auth", "ready", "closed"}
  /\ sock      \in {"none", "open", "destroyed"}
  /\ peer      \in {"daemon", "imposter"}
  /\ unread    \in BOOLEAN
  /\ retry     \in BOOLEAN
  /\ handshake \in BOOLEAN
  /\ status    \in [Asks -> {"new", "pending", "joined"} \cup Settled]
  /\ req       \in [Asks -> Requests \cup {NoRequest}]
  /\ first     \in [Asks -> Asks]
  /\ detached  \in SUBSET Bridges
  /\ cards     \in SUBSET Asks
  /\ known     \in SUBSET Asks
  /\ unproved  \in SUBSET {"request", "resolved"}

Pending == {a \in Asks : status[a] = "pending"}

\* start() dials at once; that dial is the first retry.
Init ==
  /\ link = "down" /\ sock = "none" /\ peer = "daemon"
  /\ unread = FALSE /\ retry = TRUE /\ handshake = FALSE
  /\ status = [a \in Asks |-> "new"]
  /\ req = [a \in Asks |-> NoRequest]
  /\ first = [a \in Asks |-> a]
  /\ detached = {}
  /\ cards = {} /\ known = {} /\ unproved = {}

-----------------------------------------------------------------------------
(***************************************************************************)
(* Sending.  #send drops a frame when there is no socket or it is          *)
(* destroyed; it does not look at the state of the link.                   *)
(***************************************************************************)

Proven == link # "hello" /\ peer = "daemon"

\* Request frames of S go out.
SendRequests(S) ==
  /\ cards' = IF sock = "open" THEN cards \cup S ELSE cards
  /\ known' = IF sock = "open" /\ Proven THEN known \cup S ELSE known
  /\ unproved' = IF sock = "open" /\ ~Proven
                 THEN unproved \cup {"request" : a \in S} ELSE unproved

\* "resolved" frames of S go out.
SendResolved(S) ==
  /\ cards' = IF sock = "open" THEN cards \ S ELSE cards
  /\ unproved' = IF sock = "open" /\ ~Proven
                 THEN unproved \cup {"resolved" : a \in S} ELSE unproved
  /\ known' = known \ S

-----------------------------------------------------------------------------
(***************************************************************************)
(* ask()                                                                   *)
(***************************************************************************)

\* dedupeKey: repeats of a page prompt in one session; the others never repeat.
Same(r) == {a \in Pending :
              /\ r.cls = "page" /\ req[a].cls = "page"
              /\ SessionOf[req[a].bridge] = SessionOf[r.bridge]
              /\ req[a].text = r.text}

InClass(cls) == {a \in Pending : req[a].cls = cls}
InSession(cls, s) == {a \in InClass(cls) : SessionOf[req[a].bridge] = s}

RoomInClass(r) == Cardinality(InClass(r.cls)) < ClassLimit[r.cls]
RoomInSession(r) ==
  Cardinality(InSession(r.cls, SessionOf[r.bridge])) < SessionLimit[r.cls]
RoomInTotal == Cardinality(Pending) < MaxPending

RoomInTotalOnly(r) == RoomInTotal
HasRoom(r) == RoomInTotal /\ RoomInClass(r) /\ RoomInSession(r)

\* The bridge is detached, the channel is closed or a limit is reached: the
\* request is refused at once.
AskRefused(a, r) ==
  /\ status[a] = "new"
  /\ r.bridge \in detached \/ link = "closed" \/ (Same(r) = {} /\ ~HasRoom(r))
  /\ status' = [status EXCEPT ![a] = "refused"]
  /\ unread' = FALSE
  /\ UNCHANGED <<link, sock, peer, retry, handshake, req, first, detached, wire>>

\* #join: a repeat of a page prompt that is out shares its answer.
AskJoins(a, r) ==
  /\ status[a] = "new" /\ r.bridge \notin detached /\ link # "closed"
  /\ \E f \in Same(r) : first' = [first EXCEPT ![a] = f]
  /\ status' = [status EXCEPT ![a] = "joined"]
  /\ req' = [req EXCEPT ![a] = r]
  /\ unread' = FALSE
  /\ UNCHANGED <<link, sock, peer, retry, handshake, detached, wire>>

AskSentAtOnce(a, r) ==
  /\ status[a] = "new" /\ r.bridge \notin detached /\ link # "closed"
  /\ Same(r) = {} /\ HasRoom(r)
  /\ status' = [status EXCEPT ![a] = "pending"]
  /\ req' = [req EXCEPT ![a] = r]
  /\ SendRequests({a})
  /\ unread' = FALSE
  /\ UNCHANGED <<link, sock, peer, retry, handshake, first, detached>>

\* #enqueue: the request waits, and goes out now if the link is ready.
AskQueued(a, r) ==
  /\ status[a] = "new" /\ r.bridge \notin detached /\ link # "closed"
  /\ Same(r) = {} /\ HasRoom(r)
  /\ status' = [status EXCEPT ![a] = "pending"]
  /\ req' = [req EXCEPT ![a] = r]
  /\ IF link = "ready" THEN SendRequests({a}) ELSE UNCHANGED wire
  /\ unread' = FALSE
  /\ UNCHANGED <<link, sock, peer, retry, handshake, first, detached>>

-----------------------------------------------------------------------------
(***************************************************************************)
(* Settling                                                                *)
(***************************************************************************)

Joined(S) == {j \in Asks : status[j] = "joined" /\ first[j] \in S}

\* The asks of S have their result: `how`.  Nothing of them is kept.
Result(S, how) ==
  /\ status' = [a \in Asks |-> IF a \in S THEN how ELSE status[a]]
  /\ req' = [a \in Asks |-> IF a \in S THEN NoRequest ELSE req[a]]
  /\ first' = [a \in Asks |-> IF a \in S THEN a ELSE first[a]]

SettleFirstOnly(S, how) == Result(S, how)

\* settle() of the requests S: they leave #pending, and whoever joined one of
\* them gets the same result.
Settle(S, how) == Result(S \cup Joined(S), how)

\* The request's own timer.
Timeout(a) ==
  /\ status[a] = "pending"
  /\ SendResolved({a})
  /\ Settle({a}, "refused")
  /\ unread' = FALSE
  /\ UNCHANGED <<link, sock, peer, retry, handshake, detached>>

\* BrowxBridge.detach: every request of the bridge is aborted, and so is its
\* wait for one it joined.
Detach(b) ==
  LET mine == {a \in Asks : req[a].bridge = b}
      out  == mine \cap Pending
      all  == {a \in mine : status[a] \in {"pending", "joined"}} \cup Joined(out)
  IN
  /\ b \notin detached
  /\ detached' = detached \cup {b}
  /\ SendResolved(out)
  /\ Result(all, "refused")
  /\ unread' = FALSE
  /\ UNCHANGED <<link, sock, peer, retry, handshake>>

\* close(): for good; everything that waits is refused now.
Close ==
  /\ link' = "closed" /\ sock' = "none"
  /\ retry' = FALSE /\ handshake' = FALSE
  /\ Settle(Pending, "refused")
  /\ cards' = {} /\ known' = {}
  /\ unread' = FALSE
  /\ UNCHANGED <<peer, detached, unproved>>

Shutdown == link # "closed" /\ Close

-----------------------------------------------------------------------------
(***************************************************************************)
(* The connection                                                          *)
(***************************************************************************)

ConnectWithoutTimer(p) ==
  /\ link = "down" /\ retry
  /\ link' = "hello" /\ sock' = "open" /\ peer' = p
  /\ retry' = FALSE
  /\ cards' = {}
  /\ unread' = FALSE
  /\ UNCHANGED <<handshake, asked, detached, known, unproved>>

\* The retry timer fires and the socket is there.  When it is missing or
\* unsafe the retry is armed again, which changes nothing.
Connect(p) ==
  /\ link = "down" /\ retry
  /\ link' = "hello" /\ sock' = "open" /\ peer' = p
  /\ retry' = FALSE /\ handshake' = TRUE
  /\ cards' = {}
  /\ unread' = FALSE
  /\ UNCHANGED <<asked, detached, known, unproved>>

\* The handshake takes too long.
HandshakeTimeout ==
  /\ handshake /\ sock = "open"
  /\ sock' = "destroyed"
  /\ unread' = FALSE
  /\ UNCHANGED <<link, peer, retry, handshake, asked, detached, wire>>

\* The close event of the socket, destroyed here or dropped by the listener.
SockClose ==
  /\ sock # "none"
  /\ link' = "down" /\ sock' = "none" /\ handshake' = FALSE
  /\ retry' = TRUE
  /\ cards' = {}
  /\ unread' = FALSE
  /\ UNCHANGED <<peer, asked, detached, known, unproved>>

-----------------------------------------------------------------------------
(***************************************************************************)
(* Frames from the listener.  #onData goes on with the lines of its chunk  *)
(* as long as the socket is the link's, even one a line got destroyed.     *)
(***************************************************************************)
CanRead == sock = "open" \/ (sock = "destroyed" /\ unread)
ReadOn  == unread' = (sock' = "destroyed")

\* Not the frame the handshake expects.
OnUnexpected ==
  /\ CanRead /\ link \in {"hello", "auth"}
  /\ sock' = "destroyed"
  /\ ReadOn
  /\ UNCHANGED <<link, peer, retry, handshake, asked, detached, wire>>

\* A line over MAX_FRAME_BYTES: #onData stops there.
OnOversized ==
  /\ CanRead
  /\ sock' = "destroyed"
  /\ unread' = FALSE
  /\ UNCHANGED <<link, peer, retry, handshake, asked, detached, wire>>

ProofUnchecked == TRUE
ProofMatches == peer = "daemon"

OnWelcome ==
  /\ CanRead /\ link = "hello" /\ ProofMatches
  /\ link' = "auth"
  /\ UNCHANGED sock /\ ReadOn
  /\ UNCHANGED <<peer, retry, handshake, asked, detached, wire>>

\* A wrong proof closes the channel for good.  Either listener may send one.
OnWrongProof == CanRead /\ link = "hello" /\ Close

OnReadyNoResend ==
  /\ CanRead /\ link = "auth"
  /\ link' = "ready" /\ handshake' = FALSE
  /\ UNCHANGED wire
  /\ UNCHANGED sock /\ ReadOn
  /\ UNCHANGED <<peer, retry, asked, detached>>

\* Everything that waits goes out again under its id.
OnReady ==
  /\ CanRead /\ link = "auth"
  /\ link' = "ready" /\ handshake' = FALSE
  /\ SendRequests(Pending)
  /\ UNCHANGED sock /\ ReadOn
  /\ UNCHANGED <<peer, retry, asked, detached>>

\* An answer that fits the request it names.  An answer to a request that does
\* not wait, and one that does not fit, get an error frame and change nothing.
OnAnswer(a, decision) ==
  /\ CanRead /\ link = "ready" /\ status[a] = "pending"
  /\ a \in cards \cup known
  /\ SendResolved({a})
  /\ Settle({a}, decision)
  /\ UNCHANGED sock /\ ReadOn
  /\ UNCHANGED <<link, peer, retry, handshake, detached>>

-----------------------------------------------------------------------------
Expires(a) == Timeout(a)
Dials == \E p \in {"daemon", "imposter"} : Connect(p)

\* A socket that was destroyed does emit its close event.
Drops == sock = "destroyed" /\ SockClose

Next ==
  \/ \E a \in Asks, r \in Requests : AskRefused(a, r) \/ AskJoins(a, r) \/ AskQueued(a, r)
  \/ \E a \in Asks : Expires(a)
  \/ \E b \in Bridges : Detach(b)
  \/ Shutdown
  \/ Dials
  \/ HandshakeTimeout
  \/ SockClose
  \/ OnUnexpected
  \/ OnOversized
  \/ OnWelcome
  \/ OnWrongProof
  \/ OnReady
  \/ \E a \in Asks, d \in {"approved", "denied"} : OnAnswer(a, d)

Spec == Init /\ [][Next]_vars

(***************************************************************************)
(* Timers fire and a destroyed socket closes.  Nothing is assumed of the   *)
(* listener: it may stay silent for ever.  Fairness of Dials is needed by  *)
(* DialsAgain only: it says that when the redial timer keeps firing, the   *)
(* socket is there sooner or later.                                        *)
(***************************************************************************)
Fairness ==
  /\ \A a \in Asks : WF_vars(Expires(a))
  /\ WF_vars(Dials) /\ WF_vars(HandshakeTimeout) /\ WF_vars(Drops)

FairSpec == Spec /\ Fairness
-----------------------------------------------------------------------------
(***************************************************************************)
(* Properties                                                              *)
(***************************************************************************)

\* At no moment do more requests wait than the class and session shares allow
\* (CLASS_LIMIT, SESSION_LIMIT), however asks, joins, answers and reconnects
\* interleave.
WithinLimits ==
  \A cls \in Classes :
    /\ Cardinality(InClass(cls)) <= ClassLimit[cls]
    /\ \A b \in Bridges :
         Cardinality(InSession(cls, SessionOf[b])) <= SessionLimit[cls]

\* One class cannot starve another: the cap on the total never refuses a
\* request whose own class and session have room.
NoStarvation ==
  \A r \in Requests : RoomInClass(r) /\ RoomInSession(r) => RoomInTotal

\* A page prompt is out once per session, and whoever joined it waits on a
\* request that is still out: no joined caller is left behind.
OnePromptOut ==
  /\ \A a \in Pending : Same(req[a]) \subseteq {a}
  /\ \A j \in Asks : status[j] = "joined" => first[j] \in Same(req[j])

\* While connected the daemon shows exactly the requests that wait: each was
\* sent on this connection and each that settled was withdrawn, whatever
\* happened while the link was down.
DaemonInSync == link = "ready" /\ sock = "open" => cards = Pending

\* No request leaves for a listener that has not proved it knows the token,
\* on no connection and however the handshake is interrupted.
RequestsAfterProof == "request" \notin unproved

\* ... and nothing else about a request does either.
NothingBeforeProof == unproved = {}

\* Only a request a proven daemon was sent is ever decided.
DecidedByDaemon ==
  [][\A a \in Asks :
       status'[a] \in {"approved", "denied"} /\ status[a] \notin Settled =>
         peer = "daemon" /\ first[a] \in known]_vars

\* A closed channel leaves nobody waiting.
ClosedRefusesAll ==
  link = "closed" => \A a \in Asks : status[a] \notin {"pending", "joined"}

\* The link is never stuck: down with no redial, in a handshake nothing ends,
\* or open while it takes itself for down.
NeverStuck ==
  /\ link = "down" => retry
  /\ link \in {"hello", "auth"} => handshake
  /\ link \in {"hello", "auth", "ready"} <=> sock # "none"

\* A connection browxai dropped stays dropped: it makes no progress until the
\* next dial.
DroppedStaysDropped ==
  [][sock = "destroyed" => link' \in {link, "down", "closed"}]_vars

\* A handshake ends, and a link that went down dials again.
HandshakeEnds == link \in {"hello", "auth"} ~> link \in {"ready", "down", "closed"}
DialsAgain == link = "down" ~> link # "down"
LinkRecovers == HandshakeEnds /\ DialsAgain

\* The channel is what HumanAnswer promises its callers.
Human == INSTANCE HumanAnswer WITH
  fate <- [a \in Asks |->
            CASE status[a] = "new" -> "unasked"
              [] status[a] \in {"pending", "joined"} -> "waiting"
              [] OTHER -> status[a]]

\* Every request settles once, in one way, and always does (FairSpec): with
\* the daemon's decision or refused, though nothing is assumed of the daemon.
SettlesOnce == Human!FairSpec
=============================================================================

---------------------------- MODULE HumanBridge ----------------------------
(***************************************************************************)
(* The human channel of a session without an operator channel: an isolated *)
(* world in each of its pages, which a human reaches from DevTools and the *)
(* page's own scripts do not (src/helper/bridge.ts).  A caller that asks   *)
(* prints a ticket; what a human types in the world comes back as a CDP    *)
(* event and answers the pending prompt of its name and ticket.            *)
(*                                                                         *)
(* Each page has one CDP session, whose events arrive in order.  A ticket  *)
(* is the prompt that drew it: two prompts never draw the same.            *)
(***************************************************************************)
EXTENDS Naturals, Sequences

CONSTANTS
  Pages,           \* pages the context may ever have
  Prompts,         \* calls that ask the human
  Typed,           \* those that wait for `respond`; the others wait for `proceed`
  MaxNavigations,  \* bound: navigations, all of one page
  MaxEvents        \* bound: events of one page on their way when another call is made

None == "none"

ASSUME PagesAssumption   == None \notin Pages \cup Prompts /\ Typed \subseteq Prompts
ASSUME NumbersAssumption == MaxNavigations \in Nat /\ MaxEvents \in Nat

Documents == 0..MaxNavigations
Extension == MaxNavigations + 1  \* a world of an extension that took the bridge's name
Contexts  == Documents \cup {Extension}
Signals   == [word : {"proceed", "yes", "no"}, ticket : Prompts]

Created(c)   == [kind |-> "created", context |-> c]
Cleared      == [kind |-> "cleared"]
Called(c, s) == [kind |-> "called", context |-> c, signal |-> s]
Events       == [kind : {"created"}, context : Contexts] \cup {Cleared}
                  \cup [kind : {"called"}, context : Contexts, signal : Signals]

VARIABLES
  page,      \* page -> "unborn", "open", "closed"
  opener,    \* page -> the page that opened it, or None
  document,  \* page -> how often it has navigated
  root,      \* the tab leased in a shared browser, or None: all pages are ours
  todo,      \* pages the loop of attach has still to wire
  listening, \* context.on("page") is registered
  wire,      \* page -> where wirePage is
  cdp,       \* pages with an open CDP session of the bridge
  world,     \* pages whose current document has the isolated world
  events,    \* page -> the CDP events on their way
  worlds,    \* page -> the contexts the bridge takes calls from
  channels,  \* pages with a channel
  dropping,  \* pages whose CDP session detach is closing
  detached,
  fate       \* prompt -> how it stands, as HumanAnswer tells it; those that wait
             \*   are the `waiters`

context == <<page, opener, document>>
browser == <<root, todo, listening, wire>>
channel == <<cdp, world, worlds, channels, dropping, detached>>
vars    == <<context, browser, channel, events, fate>>

WireSteps == {"no", "opener", "connecting", "installing", "installed", "done"}

TypeOK ==
  /\ page \in [Pages -> {"unborn", "open", "closed"}]
  /\ opener \in [Pages -> Pages \cup {None}]
  /\ document \in [Pages -> Documents]
  /\ root \in Pages \cup {None}
  /\ todo \subseteq Pages /\ cdp \subseteq Pages /\ world \subseteq Pages
  /\ channels \subseteq Pages /\ dropping \subseteq Pages
  /\ listening \in BOOLEAN /\ detached \in BOOLEAN
  /\ wire \in [Pages -> WireSteps]
  /\ events \in [Pages -> Seq(Events)]
  /\ worlds \in [Pages -> SUBSET Contexts]
  /\ fate \in [Prompts -> {"unasked", "waiting", "refused", "approved", "denied"}]

\* A session begins with one page or some, of which a shared browser lends it
\* one.  It asks nothing before attach has returned.
Init ==
  /\ page \in [Pages -> {"unborn", "open"}] /\ \E p \in Pages : page[p] = "open"
  /\ root \in {p \in Pages : page[p] = "open"} \cup {None}
  /\ todo = IF root = None THEN {p \in Pages : page[p] = "open"} ELSE {root}
  /\ opener = [p \in Pages |-> None]
  /\ document = [p \in Pages |-> 0]
  /\ listening = FALSE /\ detached = FALSE
  /\ wire = [p \in Pages |-> "no"]
  /\ cdp = {} /\ world = {} /\ channels = {} /\ dropping = {}
  /\ events = [p \in Pages |-> <<>>]
  /\ worlds = [p \in Pages |-> {}]
  /\ fate = [q \in Prompts |-> "unasked"]

Open(p)      == page[p] = "open"
Wire(p, s)   == wire' = [wire EXCEPT ![p] = s]
Emit(p, es)  == IF p \in cdp THEN [events EXCEPT ![p] = @ \o es] ELSE events
HangUp(p)    == /\ cdp' = cdp \ {p} /\ world' = world \ {p}
                /\ worlds' = [worlds EXCEPT ![p] = {}]
                /\ events' = [events EXCEPT ![p] = <<>>]
Waiting(q)   == fate[q] = "waiting"

-----------------------------------------------------------------------------
(* Wiring a page.                                                            *)

Unwired(p) == ~ detached /\ p \notin channels

\* wirePage on a page, or its early return.
WirePage(p) == Wire(p, IF Unwired(p) THEN "connecting" ELSE "done")

\* The loop of attach wires one page after another.
AttachNext(p) ==
  /\ p \in todo
  /\ \A o \in Pages : wire[o] \in {"no", "done"}
  /\ todo' = todo \ {p}
  /\ WirePage(p)
  /\ UNCHANGED <<context, root, listening, channel, events, fate>>

\* attach returns, and from here on the context tells of its new pages.
Listen ==
  /\ ~ listening /\ todo = {}
  /\ \A p \in Pages : wire[p] \in {"no", "done"}
  /\ listening' = TRUE
  /\ UNCHANGED <<context, root, todo, wire, channel, events, fate>>

\* newCDPSession answers: the handlers of the events are on from here.
Connected(p) ==
  /\ wire[p] = "connecting" /\ Open(p)
  /\ cdp' = cdp \cup {p}
  /\ Wire(p, "installing")
  /\ UNCHANGED <<context, root, todo, listening, world, worlds, channels, dropping, detached,
                 events, fate>>

\* No CDP on this engine, or a page that closed.
NoCdp(p) ==
  /\ wire[p] = "connecting"
  /\ Wire(p, "done")
  /\ UNCHANGED <<context, root, todo, listening, channel, events, fate>>

\* The world is made in the document there is and in every one to come.
Installed(p) ==
  /\ wire[p] = "installing" /\ p \in cdp
  /\ world' = world \cup {p}
  /\ events' = Emit(p, <<Created(document[p])>>)
  /\ Wire(p, "installed")
  /\ UNCHANGED <<context, root, todo, listening, cdp, worlds, channels, dropping, detached,
                 fate>>

\* Some command fails, as all do on a page that closed: the session is dropped.
InstallFails(p) ==
  /\ wire[p] \in {"installing", "installed"}
  /\ HangUp(p)
  /\ Wire(p, "done")
  /\ UNCHANGED <<context, root, todo, listening, channels, dropping, detached,
                 fate>>

\* The last command is answered.  Nothing looks at `detached` again.
Wired(p) ==
  /\ wire[p] = "installed" /\ p \in cdp
  /\ channels' = channels \cup {p}
  /\ Wire(p, "done")
  /\ UNCHANGED <<context, root, todo, listening, cdp, world, worlds, dropping, detached,
                 events, fate>>

-----------------------------------------------------------------------------
(* The pages.                                                                *)

\* A page opens, of itself or from another, which matters in a shared context
\* only.  There its opener is asked for first.
PageOpens(p, o) ==
  /\ page[p] = "unborn"
  /\ o # None => Open(o) /\ root # None
  /\ page' = [page EXCEPT ![p] = "open"]
  /\ opener' = [opener EXCEPT ![p] = o]
  /\ IF ~ listening THEN wire' = wire
     ELSE IF root # None THEN Wire(p, "opener") ELSE WirePage(p)
  /\ UNCHANGED <<document, root, todo, listening, channel, events, fate>>

\* The opener is known by now, unless it closed.
OwnOpenerOrNone(p) == opener[p] = None \/ opener[p] \in channels
OwnOpener(p) == opener[p] # None /\ Open(opener[p]) /\ opener[p] \in channels

OpenerAnswers(p) ==
  /\ wire[p] = "opener"
  /\ IF OwnOpener(p) THEN WirePage(p) ELSE Wire(p, "done")
  /\ UNCHANGED <<context, root, todo, listening, channel, events, fate>>

\* The browser closes the CDP session with the page.
PageCloses(p) ==
  /\ Open(p)
  /\ page' = [page EXCEPT ![p] = "closed"]
  /\ channels' = channels \ {p}
  /\ HangUp(p)
  /\ UNCHANGED <<opener, document, browser, dropping, detached, fate>>

\* The old contexts go, and the script makes the world anew.
Navigate(p) ==
  /\ Open(p) /\ document[p] < MaxNavigations
  /\ \A r \in Pages \ {p} : document[r] = 0
  /\ document' = [document EXCEPT ![p] = @ + 1]
  /\ events' = Emit(p, <<Cleared>> \o
       (IF p \in world THEN <<Created(document[p] + 1)>> ELSE <<>>))
  /\ UNCHANGED <<page, opener, browser, channel, fate>>

\* An extension makes a world of the bridge's name in its own document.
ExtensionWorld(p) ==
  /\ Open(p) /\ p \in cdp /\ p \in world
  /\ Len(events[p]) < MaxEvents
  /\ events' = Emit(p, <<Created(Extension)>>)
  /\ UNCHANGED <<context, browser, channel, fate>>

-----------------------------------------------------------------------------
(* What the CDP session tells.                                               *)

Arrives(p, kind) == p \in cdp /\ events[p] # <<>> /\ Head(events[p]).kind = kind
Consume(p)       == events' = [events EXCEPT ![p] = Tail(@)]

\* A context of an extension is refused whatever its name.
Accepts(c) == c # Extension

ContextCreated(p) ==
  /\ Arrives(p, "created")
  /\ LET c == Head(events[p]).context
     IN  worlds' = [worlds EXCEPT ![p] = IF Accepts(c) THEN @ \cup {c} ELSE @]
  /\ Consume(p)
  /\ UNCHANGED <<context, browser, cdp, world, channels, dropping, detached, fate>>

Forget(p) == worlds' = [worlds EXCEPT ![p] = {}]

ContextsCleared(p) ==
  /\ Arrives(p, "cleared")
  /\ Forget(p)
  /\ Consume(p)
  /\ UNCHANGED <<context, browser, cdp, world, channels, dropping, detached, fate>>

\* The binding is called: by a human in the world of the current document, or by
\* an extension.  The ticket is one that was printed.
Call(p, c, s) ==
  /\ p \in world /\ p \in cdp /\ Open(p)
  /\ Len(events[p]) < MaxEvents
  /\ c \in {document[p], Extension}
  /\ fate[s.ticket] # "unasked"
  /\ events' = Emit(p, <<Called(c, s)>>)
  /\ UNCHANGED <<context, browser, channel, fate>>

Words(q)      == IF q \in Typed THEN {"yes", "no"} ELSE {"proceed"}
AnswersByWord(s, q) == s.word \in Words(q)
Answers(s, q) == s.word \in Words(q) /\ s.ticket = q

Decision(s) == IF s.word = "no" THEN "denied" ELSE "approved"

SettleEnded(s) ==
  fate' = [q \in Prompts |-> IF Answers(s, q) THEN Decision(s) ELSE fate[q]]

\* onSignal: the waiter it matches, if there is one.
Settle(s) ==
  fate' = [q \in Prompts |-> IF Waiting(q) /\ Answers(s, q) THEN Decision(s) ELSE fate[q]]

FromTheWorld(p, c) == c \in worlds[p]

HeardOnceWired(p, c) == ~ detached /\ FromTheWorld(p, c) /\ p \in channels
Heard(p, c) == ~ detached /\ FromTheWorld(p, c)

BindingCalled(p) ==
  /\ Arrives(p, "called")
  /\ LET c == Head(events[p]).context
         s == Head(events[p]).signal
     IN  IF Heard(p, c) THEN Settle(s) ELSE UNCHANGED fate
  /\ Consume(p)
  /\ UNCHANGED <<context, browser, channel>>

-----------------------------------------------------------------------------
(* Asking, and the end of the session.                                       *)

HumanChannelAvailable == ~ detached /\ channels # {}

\* awaitSignal, with the name and the ticket every caller gives, and a timeout.
Ask(q) ==
  /\ listening /\ fate[q] = "unasked"
  /\ fate' = [fate EXCEPT ![q] = IF HumanChannelAvailable THEN "waiting" ELSE "refused"]
  /\ UNCHANGED <<context, browser, channel, events>>

TimeOut(q) ==
  /\ Waiting(q)
  /\ fate' = [fate EXCEPT ![q] = "refused"]
  /\ UNCHANGED <<context, browser, channel, events>>

RejectWaiters == fate' = [q \in Prompts |-> IF Waiting(q) THEN "refused" ELSE fate[q]]

\* A rebuild or the teardown of the session, once attach is over.
Detach ==
  /\ listening /\ ~ detached
  /\ detached' = TRUE
  /\ RejectWaiters
  /\ dropping' = channels
  /\ channels' = {}
  /\ UNCHANGED <<context, browser, cdp, world, worlds, events>>

DropCdp(p) ==
  /\ p \in dropping
  /\ dropping' = dropping \ {p}
  /\ HangUp(p)
  /\ UNCHANGED <<context, browser, channels, detached, fate>>

-----------------------------------------------------------------------------
WireStep(p) == \/ AttachNext(p) \/ Connected(p) \/ NoCdp(p) \/ Installed(p)
               \/ InstallFails(p) \/ Wired(p) \/ OpenerAnswers(p) \/ DropCdp(p)
Event(p)    == ContextCreated(p) \/ ContextsCleared(p) \/ BindingCalled(p)

Next ==
  \/ \E p \in Pages : WireStep(p) \/ Event(p) \/ PageCloses(p) \/ Navigate(p)
                      \/ ExtensionWorld(p)
  \/ \E p \in Pages, o \in Pages \cup {None} : PageOpens(p, o)
  \/ \E p \in Pages, c \in Contexts, s \in Signals : Call(p, c, s)
  \/ Listen \/ Detach
  \/ \E q \in Prompts : Ask(q) \/ TimeOut(q)

Spec == Init /\ [][Next]_vars

\* Timers fire: every caller gives awaitSignal a timeout.
FairSpec == Spec /\ \A q \in Prompts : WF_vars(TimeOut(q))

-----------------------------------------------------------------------------
(* Properties.                                                               *)

\* What answers a prompt was called in the bridge's own world, with the ticket
\* and the name of that prompt, so an answer to a prompt that ended never
\* settles the next one (awaitSignal, onSignal).
AnsweredInPerson ==
  [][\A q \in Prompts : fate'[q] # fate[q] /\ fate'[q] \in {"approved", "denied"} =>
       \E p \in Pages :
         /\ Arrives(p, "called") /\ Head(events[p]).context \in Documents
         /\ Waiting(q) /\ Head(events[p]).signal.ticket = q
         /\ Head(events[p]).signal.word \in Words(q)
         /\ fate'[q] = Decision(Head(events[p]).signal)]_vars

\* No answer the human gives in a page that stays is dropped while its prompt
\* waits: the world of every document is known before its first call arrives.
GoodAnswersLand ==
  [][\A p \in Pages, q \in Prompts :
       /\ Arrives(p, "called") /\ events'[p] = Tail(events[p]) /\ p \in cdp'
       /\ Head(events[p]).context \in Documents /\ ~ detached
       /\ Waiting(q) /\ Head(events[p]).signal.ticket = q
       /\ Head(events[p]).signal.word \in Words(q)
       => ~ Waiting(q)']_vars

\* A bridge that was detached leaves no caller waiting.
DetachFreesCallers == detached => \A q \in Prompts : fate[q] # "waiting"

\* The tab of the session and what was opened from it, however indirectly.
Family(S) == root \in S /\ \A p \in Pages : opener[p] \in S => p \in S

\* In a shared browser the bridge listens on pages of its own session only.
OnlyOwnPages == root # None => \A S \in SUBSET Pages : Family(S) => cdp \subseteq S

\* Every prompt gets an answer or a refusal, once.
Answer == INSTANCE HumanAnswer WITH Asks <- Prompts
AnswerSpec == Answer!FairSpec

\* Documented: detach drops the CDP sessions.  That of a page still being wired
\* stays.
DetachDropsSessions ==
  detached /\ dropping = {} /\ (\A p \in Pages : wire[p] \in {"no", "done"}) => cdp = {}

\* Documented: without a root every page of the context is wired.  A page whose
\* wiring failed does not count; one that opened during attach is never tried.
EveryPageIsTried == root = None /\ listening => \A p \in Pages : Open(p) => wire[p] # "no"
=============================================================================

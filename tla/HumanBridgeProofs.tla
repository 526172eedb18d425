------------------------- MODULE HumanBridgeProofs -------------------------
(***************************************************************************)
(* What holds of HumanBridge for any pages, prompts and bounds: its types, *)
(* that no page of another session is ever listened on, that a detached    *)
(* bridge keeps nobody waiting, who can answer, that what a human answers  *)
(* lands, and that the bridge is a HumanAnswer.                            *)
(***************************************************************************)
EXTENDS HumanBridge, SequenceTheorems, TLAPS

-----------------------------------------------------------------------------
(* Types.                                                                    *)

LEMMA ContextTypes ==
  /\ Extension \in Contexts /\ Extension \notin Documents
  /\ Documents \subseteq Contexts
  /\ \A c \in Contexts : c # Extension => c \in Documents
  /\ \A d \in Documents : d < MaxNavigations => d + 1 \in Documents
  /\ 0 \in Documents
BY NumbersAssumption DEF Extension, Contexts, Documents

LEMMA EventTypes ==
  /\ \A c \in Contexts : Created(c) \in Events
  /\ Cleared \in Events
  /\ \A c \in Contexts, s \in Signals : Called(c, s) \in Events
BY DEF Events, Created, Cleared, Called

\* The fields of an event are typed by its kind.
LEMMA EventFields ==
  ASSUME NEW e \in Events
  PROVE  /\ e.kind \in {"created", "called"} => e.context \in Contexts
         /\ e.kind = "called" => e.signal \in Signals
BY DEF Events, Cleared

LEMMA TypeInit == Init => TypeOK
<1> SUFFICES ASSUME Init PROVE TypeOK
  OBVIOUS
<1>1. events \in [Pages -> Seq(Events)]
  BY DEF Init
<1>2. page \in [Pages -> {"unborn", "open", "closed"}] /\ document \in [Pages -> Documents]
  BY ContextTypes DEF Init
<1>3. root \in Pages \cup {None} /\ todo \subseteq Pages
  BY DEF Init
<1> QED
  BY <1>1, <1>2, <1>3 DEF Init, TypeOK, WireSteps

\* The head of a queue that is not empty is an event, and its tail a queue.
LEMMA QueueTypes ==
  ASSUME TypeOK, NEW p \in Pages, events[p] # <<>>
  PROVE  Head(events[p]) \in Events /\ Tail(events[p]) \in Seq(Events)
<1>1. events[p] \in Seq(Events)
  BY DEF TypeOK
<1> QED
  BY <1>1

LEMMA EmitTypes ==
  ASSUME TypeOK, NEW p \in Pages, NEW es \in Seq(Events)
  PROVE  Emit(p, es) \in [Pages -> Seq(Events)]
<1>1. events \in [Pages -> Seq(Events)]
  BY DEF TypeOK
<1>2. events[p] \o es \in Seq(Events)
  BY <1>1
<1> QED
  BY <1>1, <1>2 DEF Emit

LEMMA TypeWire ==
  ASSUME TypeOK, NEW p \in Pages, WireStep(p)
  PROVE  TypeOK'
<1>1. CASE AttachNext(p)
  BY <1>1 DEF TypeOK, AttachNext, WirePage, Wire, WireSteps, context, channel
<1>2. CASE Connected(p)
  BY <1>2 DEF TypeOK, Connected, Wire, WireSteps, context
<1>3. CASE NoCdp(p)
  BY <1>3 DEF TypeOK, NoCdp, Wire, WireSteps, context, channel
<1>4. CASE Installed(p)
  <2>1. document[p] \in Contexts
    BY ContextTypes DEF TypeOK
  <2>2. <<Created(document[p])>> \in Seq(Events)
    BY <2>1, EventTypes
  <2>3. events' \in [Pages -> Seq(Events)]
    BY <1>4, <2>2, EmitTypes DEF Installed
  <2> QED
    BY <1>4, <2>3 DEF TypeOK, Installed, Wire, WireSteps, context
<1>5. CASE InstallFails(p)
  BY <1>5 DEF TypeOK, InstallFails, HangUp, Wire, WireSteps, context
<1>6. CASE Wired(p)
  BY <1>6 DEF TypeOK, Wired, Wire, WireSteps, context
<1>7. CASE OpenerAnswers(p)
  BY <1>7 DEF TypeOK, OpenerAnswers, WirePage, Wire, WireSteps, context, channel
<1>8. CASE DropCdp(p)
  BY <1>8 DEF TypeOK, DropCdp, HangUp, context, browser
<1> QED
  BY <1>1, <1>2, <1>3, <1>4, <1>5, <1>6, <1>7, <1>8 DEF WireStep

LEMMA TypeEvent ==
  ASSUME TypeOK, NEW p \in Pages, Event(p)
  PROVE  TypeOK'
<1>1. CASE ContextCreated(p)
  <2>1. Head(events[p]).context \in Contexts
    BY <1>1, QueueTypes, EventFields DEF ContextCreated, Arrives
  <2>2. events' \in [Pages -> Seq(Events)]
    BY <1>1, QueueTypes DEF TypeOK, ContextCreated, Arrives, Consume
  <2>3. worlds' \in [Pages -> SUBSET Contexts]
    BY <1>1, <2>1 DEF TypeOK, ContextCreated
  <2> QED
    BY <1>1, <2>2, <2>3 DEF TypeOK, ContextCreated, context, browser
<1>2. CASE ContextsCleared(p)
  <2>1. events' \in [Pages -> Seq(Events)]
    BY <1>2, QueueTypes DEF TypeOK, ContextsCleared, Arrives, Consume
  <2> QED
    BY <1>2, <2>1 DEF TypeOK, ContextsCleared, Forget, context, browser
<1>3. CASE BindingCalled(p)
  <2>1. events' \in [Pages -> Seq(Events)]
    BY <1>3, QueueTypes DEF TypeOK, BindingCalled, Arrives, Consume
  <2>2. fate' \in [Prompts -> {"unasked", "waiting", "refused", "approved", "denied"}]
    BY <1>3 DEF TypeOK, BindingCalled, Settle, Decision
  <2> QED
    BY <1>3, <2>1, <2>2 DEF TypeOK, BindingCalled, context, browser, channel
<1> QED
  BY <1>1, <1>2, <1>3 DEF Event

LEMMA TypePages ==
  ASSUME TypeOK,
         \/ \E p \in Pages : PageCloses(p) \/ Navigate(p) \/ ExtensionWorld(p)
         \/ \E p \in Pages, o \in Pages \cup {None} : PageOpens(p, o)
         \/ \E p \in Pages, c \in Contexts, s \in Signals : Call(p, c, s)
  PROVE  TypeOK'
<1>1. ASSUME NEW p \in Pages, PageCloses(p) PROVE TypeOK'
  BY <1>1 DEF TypeOK, PageCloses, HangUp, browser
<1>2. ASSUME NEW p \in Pages, Navigate(p) PROVE TypeOK'
  <2>1. document[p] + 1 \in Documents
    BY <1>2, ContextTypes DEF TypeOK, Navigate
  <2> DEFINE es == <<Cleared>> \o (IF p \in world THEN <<Created(document[p] + 1)>> ELSE <<>>)
  <2>2. es \in Seq(Events)
    BY <2>1, ContextTypes, EventTypes
  <2>3. events' \in [Pages -> Seq(Events)]
    BY <1>2, <2>2, EmitTypes DEF Navigate
  <2> QED
    BY <1>2, <2>1, <2>3 DEF TypeOK, Navigate, browser, channel
<1>3. ASSUME NEW p \in Pages, ExtensionWorld(p) PROVE TypeOK'
  <2>1. <<Created(Extension)>> \in Seq(Events)
    BY ContextTypes, EventTypes
  <2>2. events' \in [Pages -> Seq(Events)]
    BY <1>3, <2>1, EmitTypes DEF ExtensionWorld
  <2> QED
    BY <1>3, <2>2 DEF TypeOK, ExtensionWorld, context, browser, channel
<1>4. ASSUME NEW p \in Pages, NEW o \in Pages \cup {None}, PageOpens(p, o) PROVE TypeOK'
  BY <1>4 DEF TypeOK, PageOpens, WirePage, Wire, WireSteps, channel
<1>5. ASSUME NEW p \in Pages, NEW c \in Contexts, NEW s \in Signals, Call(p, c, s) PROVE TypeOK'
  <2>1. <<Called(c, s)>> \in Seq(Events)
    BY EventTypes
  <2>2. events' \in [Pages -> Seq(Events)]
    BY <1>5, <2>1, EmitTypes DEF Call
  <2> QED
    BY <1>5, <2>2 DEF TypeOK, Call, context, browser, channel
<1> QED
  BY <1>1, <1>2, <1>3, <1>4, <1>5

LEMMA TypeSession ==
  ASSUME TypeOK, Listen \/ Detach \/ \E q \in Prompts : Ask(q) \/ TimeOut(q)
  PROVE  TypeOK'
<1>1. CASE Listen
  BY <1>1 DEF TypeOK, Listen, context, channel
<1>2. CASE Detach
  BY <1>2 DEF TypeOK, Detach, RejectWaiters, context, browser
<1>3. ASSUME NEW q \in Prompts, Ask(q) PROVE TypeOK'
  BY <1>3 DEF TypeOK, Ask, context, browser, channel
<1>4. ASSUME NEW q \in Prompts, TimeOut(q) PROVE TypeOK'
  BY <1>4 DEF TypeOK, TimeOut, context, browser, channel
<1> QED
  BY <1>1, <1>2, <1>3, <1>4

LEMMA TypeStutter ==
  ASSUME TypeOK, UNCHANGED vars
  PROVE  TypeOK'
BY DEF TypeOK, vars, context, browser, channel

LEMMA TypeStep ==
  ASSUME TypeOK, [Next]_vars
  PROVE  TypeOK'
BY TypeWire, TypeEvent, TypePages, TypeSession, TypeStutter DEF Next

\* Types hold for any pages and prompts.
THEOREM TypeCorrect == Spec => []TypeOK
<1>1. Init => TypeOK
  BY TypeInit
<1>2. TypeOK /\ [Next]_vars => TypeOK'
  BY TypeStep
<1> QED
  BY <1>1, <1>2, PTL DEF Spec

-----------------------------------------------------------------------------
(* Whose pages are listened on.  Whatever the bridge has begun to wire, in   *)
(* a shared browser, lies in every set that holds the leased tab and is      *)
(* closed under opening; a page not yet open was opened by nobody.           *)

Wiring == {p \in Pages : wire[p] \in {"connecting", "installing", "installed"}}

WithinFamily ==
  /\ \A p \in Pages : page[p] = "unborn" => opener[p] = None
  /\ root # None => \A S \in SUBSET Pages : Family(S) =>
       todo \subseteq S /\ cdp \subseteq S /\ channels \subseteq S /\ Wiring \subseteq S

LEMMA FamilyInit == Init => WithinFamily
BY DEF Init, WithinFamily, Wiring, Family

\* A step that wires nothing more stays within it.
LEMMA FamilyShrinks ==
  ASSUME WithinFamily, UNCHANGED <<opener, root>>,
         \A p \in Pages : page'[p] = "unborn" => page[p] = "unborn",
         todo' \subseteq todo, Wiring' \subseteq Wiring,
         cdp' \subseteq cdp \cup Wiring, channels' \subseteq channels \cup Wiring
  PROVE  WithinFamily'
<1>1. \A p \in Pages : page'[p] = "unborn" => opener'[p] = None
  BY DEF WithinFamily
<1>2. ASSUME root' # None, NEW S \in SUBSET Pages, Family(S)'
      PROVE  todo' \subseteq S /\ cdp' \subseteq S /\ channels' \subseteq S /\ Wiring' \subseteq S
  <2>1. Family(S)
    BY <1>2 DEF Family
  <2>2. todo \subseteq S /\ cdp \subseteq S /\ channels \subseteq S /\ Wiring \subseteq S
    BY <1>2, <2>1 DEF WithinFamily
  <2> QED
    BY <2>2
<1> QED
  BY <1>1, <1>2 DEF WithinFamily

\* A step that wires p at most, where every family holds p, stays within it.
LEMMA FamilyTakes ==
  ASSUME TypeOK, WithinFamily, NEW p \in Pages, NEW s, Wire(p, s),
         UNCHANGED <<page, opener, root, cdp, channels>>, todo' \subseteq todo,
         root # None => \A S \in SUBSET Pages : Family(S) => p \in S
  PROVE  WithinFamily'
<1>1. Wiring' \subseteq Wiring \cup {p}
  BY DEF TypeOK, Wiring, Wire
<1>2. ASSUME root' # None, NEW S \in SUBSET Pages, Family(S)'
      PROVE  todo' \subseteq S /\ cdp' \subseteq S /\ channels' \subseteq S /\ Wiring' \subseteq S
  <2>1. Family(S)
    BY <1>2 DEF Family
  <2>2. todo \subseteq S /\ cdp \subseteq S /\ channels \subseteq S /\ Wiring \subseteq S /\ p \in S
    BY <1>2, <2>1 DEF WithinFamily
  <2> QED
    BY <1>1, <2>2
<1> QED
  BY <1>2 DEF WithinFamily

LEMMA FamilyWire ==
  ASSUME TypeOK, WithinFamily, NEW p \in Pages, WireStep(p)
  PROVE  WithinFamily'
<1>1. CASE AttachNext(p)
  <2>1. p \in todo /\ UNCHANGED <<page, opener, root, cdp, channels>> /\ todo' \subseteq todo
    BY <1>1 DEF AttachNext, context, channel
  <2>2. root # None => \A S \in SUBSET Pages : Family(S) => p \in S
    BY <2>1 DEF WithinFamily
  <2> QED
    BY <1>1, <2>1, <2>2, FamilyTakes DEF AttachNext, WirePage
<1>2. CASE Connected(p) \/ NoCdp(p) \/ Installed(p) \/ InstallFails(p) \/ Wired(p)
  <2>1. UNCHANGED <<context, root, todo>>
    BY <1>2 DEF Connected, NoCdp, Installed, InstallFails, Wired
  <2>2. p \in Wiring /\ Wiring' \subseteq Wiring
    BY <1>2 DEF TypeOK, Wiring, Connected, NoCdp, Installed, InstallFails, Wired, Wire
  <2>3. cdp' \subseteq cdp \cup {p} /\ channels' \subseteq channels \cup {p}
    BY <1>2 DEF Connected, NoCdp, Installed, InstallFails, Wired, HangUp, channel
  <2> QED
    BY <2>1, <2>2, <2>3, FamilyShrinks DEF context
<1>3. CASE OpenerAnswers(p)
  <2>1. UNCHANGED <<page, opener, root, todo, cdp, channels>>
    BY <1>3 DEF OpenerAnswers, context, channel
  <2>2. CASE OwnOpener(p)
    <3>1. root # None => \A S \in SUBSET Pages : Family(S) => p \in S
      BY <2>2 DEF OwnOpener, WithinFamily, Family
    <3> QED
      BY <1>3, <2>1, <2>2, <3>1, FamilyTakes DEF OpenerAnswers, WirePage
  <2>3. CASE ~ OwnOpener(p)
    <3>1. Wiring' \subseteq Wiring
      BY <1>3, <2>3 DEF OpenerAnswers, Wire, Wiring, TypeOK
    <3> QED
      BY <2>1, <3>1 DEF WithinFamily, Family
  <2> QED
    BY <2>2, <2>3
<1>4. CASE DropCdp(p)
  <2>1. UNCHANGED <<context, root, todo, wire, channels>> /\ cdp' \subseteq cdp
    BY <1>4 DEF DropCdp, HangUp, browser
  <2> QED
    BY <2>1, FamilyShrinks DEF Wiring, context
<1> QED
  BY <1>1, <1>2, <1>3, <1>4 DEF WireStep

LEMMA FamilyOpens ==
  ASSUME TypeOK, WithinFamily, NEW p \in Pages, NEW o \in Pages \cup {None}, PageOpens(p, o)
  PROVE  WithinFamily'
<1>1. \A q \in Pages : page'[q] = "unborn" => opener'[q] = None
  BY DEF TypeOK, WithinFamily, PageOpens
<1>2. ASSUME NEW S \in SUBSET Pages, Family(S)' PROVE Family(S)
  <2>1. opener[p] = None /\ None \notin S
    BY PagesAssumption DEF WithinFamily, PageOpens
  <2> QED
    BY <1>2, <2>1 DEF TypeOK, Family, PageOpens
<1>3. root # None => Wiring' \subseteq Wiring
  BY DEF TypeOK, PageOpens, Wire, Wiring
<1>4. UNCHANGED <<root, todo, cdp, channels>>
  BY DEF PageOpens, channel
<1>5. ASSUME root' # None, NEW S \in SUBSET Pages, Family(S)'
      PROVE  todo' \subseteq S /\ cdp' \subseteq S /\ channels' \subseteq S /\ Wiring' \subseteq S
  <2>1. Family(S)
    BY <1>2, <1>5
  <2>2. todo \subseteq S /\ cdp \subseteq S /\ channels \subseteq S /\ Wiring \subseteq S
    BY <1>4, <1>5, <2>1 DEF WithinFamily
  <2> QED
    BY <1>3, <1>4, <1>5, <2>2
<1> QED
  BY <1>1, <1>5 DEF WithinFamily

LEMMA FamilyRest ==
  ASSUME TypeOK, WithinFamily,
         \/ \E p \in Pages : Event(p) \/ PageCloses(p) \/ Navigate(p) \/ ExtensionWorld(p)
         \/ \E p \in Pages, c \in Contexts, s \in Signals : Call(p, c, s)
         \/ Listen \/ Detach
         \/ \E q \in Prompts : Ask(q) \/ TimeOut(q)
         \/ UNCHANGED vars
  PROVE  WithinFamily'
<1>1. ASSUME NEW p \in Pages, Event(p) PROVE UNCHANGED <<context, browser, cdp, channels>>
  BY <1>1 DEF Event, ContextCreated, ContextsCleared, BindingCalled, channel
<1>2. ASSUME NEW p \in Pages, PageCloses(p) PROVE WithinFamily'
  <2>1. /\ UNCHANGED <<opener, root, todo, wire>>
        /\ cdp' \subseteq cdp /\ channels' \subseteq channels
        /\ \A q \in Pages : page'[q] = "unborn" => page[q] = "unborn"
    BY <1>2 DEF TypeOK, PageCloses, HangUp, browser
  <2> QED
    BY <2>1, FamilyShrinks DEF Wiring
<1>3. ASSUME NEW p \in Pages, Navigate(p) \/ ExtensionWorld(p)
      PROVE  UNCHANGED <<page, opener, browser, cdp, channels>>
  BY <1>3 DEF Navigate, ExtensionWorld, context, channel
<1>4. ASSUME NEW p \in Pages, NEW c \in Contexts, NEW s \in Signals, Call(p, c, s)
      PROVE  UNCHANGED <<context, browser, cdp, channels>>
  BY <1>4 DEF Call, channel
<1>5. ASSUME Listen \/ Detach
      PROVE  UNCHANGED <<context, root, todo, wire, cdp>> /\ channels' \subseteq channels
  BY <1>5 DEF Listen, Detach, browser, channel
<1>6. ASSUME (\E q \in Prompts : Ask(q) \/ TimeOut(q)) \/ UNCHANGED vars
      PROVE  UNCHANGED <<context, browser, cdp, channels>>
  BY <1>6 DEF Ask, TimeOut, vars, channel
<1>7. ASSUME UNCHANGED <<page, opener, root, todo, wire, cdp>>, channels' \subseteq channels
      PROVE  WithinFamily'
  BY <1>7, FamilyShrinks DEF Wiring
<1> QED
  BY <1>1, <1>2, <1>3, <1>4, <1>5, <1>6, <1>7 DEF context, browser

\* In a browser shared with other sessions only the leased tab and what was
\* opened from it, however indirectly, is listened on (attach).
THEOREM FamilyOnly == Spec => []OnlyOwnPages
<1>1. Init => WithinFamily
  BY FamilyInit
<1>2. TypeOK /\ WithinFamily /\ [Next]_vars => WithinFamily'
  BY FamilyWire, FamilyOpens, FamilyRest DEF Next
<1>3. WithinFamily => OnlyOwnPages
  BY DEF WithinFamily, OnlyOwnPages
<1> QED
  BY <1>1, <1>2, <1>3, TypeCorrect, PTL DEF Spec

-----------------------------------------------------------------------------
(* A detached bridge.                                                        *)

LEMMA FreedStep ==
  ASSUME TypeOK, DetachFreesCallers, [Next]_vars
  PROVE  DetachFreesCallers'
<1> USE DEF TypeOK, DetachFreesCallers
<1>1. ASSUME NEW p \in Pages, WireStep(p) PROVE DetachFreesCallers'
  BY <1>1 DEF WireStep, AttachNext, Connected, NoCdp, Installed, InstallFails, Wired,
              OpenerAnswers, DropCdp, channel
<1>2. ASSUME NEW p \in Pages, Event(p) PROVE DetachFreesCallers'
  BY <1>2 DEF Event, ContextCreated, ContextsCleared, BindingCalled, Settle, Decision, channel
<1>3. ASSUME NEW p \in Pages, PageCloses(p) \/ Navigate(p) \/ ExtensionWorld(p)
      PROVE  DetachFreesCallers'
  BY <1>3 DEF PageCloses, Navigate, ExtensionWorld, channel
<1>4. ASSUME NEW p \in Pages, NEW o \in Pages \cup {None}, PageOpens(p, o)
      PROVE  DetachFreesCallers'
  BY <1>4 DEF PageOpens, channel
<1>5. ASSUME NEW p \in Pages, NEW c \in Contexts, NEW s \in Signals, Call(p, c, s)
      PROVE  DetachFreesCallers'
  BY <1>5 DEF Call, channel
<1>6. CASE Listen
  BY <1>6 DEF Listen, channel
<1>7. CASE Detach
  BY <1>7 DEF Detach, RejectWaiters, Waiting
<1>8. ASSUME NEW q \in Prompts, Ask(q) \/ TimeOut(q) PROVE DetachFreesCallers'
  BY <1>8 DEF Ask, TimeOut, HumanChannelAvailable, channel
<1>9. CASE UNCHANGED vars
  BY <1>9 DEF vars, channel
<1> QED
  BY <1>1, <1>2, <1>3, <1>4, <1>5, <1>6, <1>7, <1>8, <1>9 DEF Next

\* detach leaves no caller waiting, and none waits after it.
THEOREM DetachIsFinal == Spec => []DetachFreesCallers
<1>1. Init => DetachFreesCallers
  BY DEF Init, DetachFreesCallers
<1>2. TypeOK /\ DetachFreesCallers /\ [Next]_vars => DetachFreesCallers'
  BY FreedStep
<1> QED
  BY <1>1, <1>2, TypeCorrect, PTL DEF Spec

-----------------------------------------------------------------------------
(* Who answers.  No context of an extension is ever taken calls from.        *)

OwnWorlds == \A p \in Pages : worlds[p] \subseteq Documents

LEMMA OwnWorldsStep ==
  ASSUME TypeOK, OwnWorlds, [Next]_vars
  PROVE  OwnWorlds'
<1> USE DEF TypeOK, OwnWorlds
<1>1. ASSUME NEW p \in Pages, WireStep(p) PROVE OwnWorlds'
  BY <1>1 DEF WireStep, AttachNext, Connected, NoCdp, Installed, InstallFails, Wired,
              OpenerAnswers, DropCdp, HangUp, channel
<1>2. ASSUME NEW p \in Pages, ContextCreated(p) PROVE OwnWorlds'
  <2>1. Head(events[p]).context \in Contexts
    BY <1>2, QueueTypes, EventFields DEF ContextCreated, Arrives
  <2> QED
    BY <1>2, <2>1, ContextTypes DEF ContextCreated, Accepts
<1>3. ASSUME NEW p \in Pages, ContextsCleared(p) \/ BindingCalled(p) PROVE OwnWorlds'
  BY <1>3 DEF ContextsCleared, BindingCalled, Forget, channel
<1>4. ASSUME NEW p \in Pages, PageCloses(p) \/ Navigate(p) \/ ExtensionWorld(p)
      PROVE  OwnWorlds'
  BY <1>4 DEF PageCloses, HangUp, Navigate, ExtensionWorld, channel
<1>5. ASSUME NEW p \in Pages, NEW o \in Pages \cup {None}, PageOpens(p, o) PROVE OwnWorlds'
  BY <1>5 DEF PageOpens, channel
<1>6. ASSUME NEW p \in Pages, NEW c \in Contexts, NEW s \in Signals, Call(p, c, s)
      PROVE  OwnWorlds'
  BY <1>6 DEF Call, channel
<1>7. CASE Listen \/ Detach \/ UNCHANGED vars
  BY <1>7 DEF Listen, Detach, vars, channel
<1>8. ASSUME NEW q \in Prompts, Ask(q) \/ TimeOut(q) PROVE OwnWorlds'
  BY <1>8 DEF Ask, TimeOut, channel
<1> QED
  BY <1>1, <1>2, <1>3, <1>4, <1>5, <1>6, <1>7, <1>8 DEF Next, Event

InPerson ==
  \A q \in Prompts : fate'[q] # fate[q] /\ fate'[q] \in {"approved", "denied"} =>
    \E p \in Pages :
      /\ Arrives(p, "called") /\ Head(events[p]).context \in Documents
      /\ Waiting(q) /\ Head(events[p]).signal.ticket = q
      /\ Head(events[p]).signal.word \in Words(q)
      /\ fate'[q] = Decision(Head(events[p]).signal)

LEMMA InPersonStep ==
  ASSUME TypeOK, OwnWorlds, [Next]_vars
  PROVE  InPerson
<1> USE DEF TypeOK, InPerson
<1>1. ASSUME NEW p \in Pages, BindingCalled(p) PROVE InPerson
  BY <1>1 DEF OwnWorlds, BindingCalled, Heard, FromTheWorld, Settle, Answers
<1>2. ASSUME NEW p \in Pages, WireStep(p) PROVE InPerson
  BY <1>2 DEF WireStep, AttachNext, Connected, NoCdp, Installed, InstallFails, Wired,
              OpenerAnswers, DropCdp
<1>3. ASSUME NEW p \in Pages,
             \/ ContextCreated(p) \/ ContextsCleared(p) \/ PageCloses(p) \/ Navigate(p)
             \/ ExtensionWorld(p)
      PROVE  InPerson
  BY <1>3 DEF ContextCreated, ContextsCleared, PageCloses, Navigate, ExtensionWorld
<1>4. ASSUME NEW p \in Pages, NEW o \in Pages \cup {None}, PageOpens(p, o) PROVE InPerson
  BY <1>4 DEF PageOpens
<1>5. ASSUME NEW p \in Pages, NEW c \in Contexts, NEW s \in Signals, Call(p, c, s) PROVE InPerson
  BY <1>5 DEF Call
<1>6. CASE Listen \/ UNCHANGED vars
  BY <1>6 DEF Listen, vars
<1>7. CASE Detach
  BY <1>7 DEF Detach, RejectWaiters
<1>8. ASSUME NEW q \in Prompts, Ask(q) \/ TimeOut(q) PROVE InPerson
  BY <1>8 DEF Ask, TimeOut
<1> QED
  BY <1>1, <1>2, <1>3, <1>4, <1>5, <1>6, <1>7, <1>8 DEF Next, Event

\* A prompt is answered by a call made in the bridge's own world, with the word
\* it asks for and its ticket, while it is pending (onSignal).
THEOREM InPersonOnly == Spec => AnsweredInPerson
<1>1. Init => OwnWorlds
  BY DEF Init, OwnWorlds
<1>2. TypeOK /\ OwnWorlds /\ [Next]_vars => OwnWorlds'
  BY OwnWorldsStep
<1>3. TypeOK /\ OwnWorlds /\ [Next]_vars => [InPerson]_vars
  BY InPersonStep
<1> QED
  BY <1>1, <1>2, <1>3, TypeCorrect, PTL DEF Spec, AnsweredInPerson, InPerson
-----------------------------------------------------------------------------
(* Answers that are given land.  On its way, a call from the world of a       *)
(* document comes after the word that this world was made, and no word that   *)
(* the contexts are gone is between; or the bridge knows the world already.   *)

\* No such word between two places of a queue.
Uncleared(es, i, j) == \A k \in DOMAIN es : i < k /\ k < j => es[k].kind # "cleared"

\* The context will be known when the events before a place of the queue came.
Known(es, ws, c, i) ==
  \/ c \in ws /\ Uncleared(es, 0, i)
  \/ \E j \in DOMAIN es : j < i /\ es[j] = Created(c) /\ Uncleared(es, j, i)

CallsKnown(es, ws) ==
  \A i \in DOMAIN es : es[i].kind = "called" /\ es[i].context \in Documents =>
    Known(es, ws, es[i].context, i)

\* Only a page with a CDP session has events and a world, and a page with a world
\* has that of its document known by the end of the queue.
PageSound(p) ==
  /\ p \in world => p \in cdp
  /\ p \notin cdp => events[p] = <<>>
  /\ CallsKnown(events[p], worlds[p])
  /\ p \in world => Known(events[p], worlds[p], document[p], Len(events[p]) + 1)

ChannelSound == \A p \in Pages : PageSound(p)

\* What comes at the end changes nothing before it, and a world just made is known.
LEMMA KnownAppend ==
  ASSUME NEW es \in Seq(Events), NEW ws, NEW e \in Events, CallsKnown(es, ws),
         e.kind = "called" /\ e.context \in Documents => Known(es, ws, e.context, Len(es) + 1)
  PROVE  /\ CallsKnown(Append(es, e), ws)
         /\ \A c : e = Created(c) => Known(Append(es, e), ws, c, Len(Append(es, e)) + 1)
         /\ \A c : e.kind # "cleared" /\ Known(es, ws, c, Len(es) + 1)
                     => Known(Append(es, e), ws, c, Len(Append(es, e)) + 1)
<1> DEFINE n == Len(es)
           fs == Append(es, e)
<1>1. /\ n \in Nat /\ DOMAIN es = 1 .. n /\ DOMAIN fs = 1 .. n + 1 /\ Len(fs) = n + 1
      /\ \A i \in 1 .. n : fs[i] = es[i]
      /\ fs[n + 1] = e
  OBVIOUS
<1> HIDE DEF n, fs
<1>2. ASSUME NEW i \in 0 .. n, NEW j \in 1 .. n + 1, Uncleared(es, i, j) PROVE Uncleared(fs, i, j)
  <2> SUFFICES ASSUME NEW k \in 1 .. n + 1, i < k, k < j PROVE fs[k].kind # "cleared"
    BY <1>1 DEF Uncleared
  <2>1. k \in 1 .. n
    BY <1>1
  <2> QED
    BY <1>1, <1>2, <2>1 DEF Uncleared
<1>3. ASSUME NEW c, NEW i \in 1 .. n + 1, Known(es, ws, c, i) PROVE Known(fs, ws, c, i)
  <2>1. CASE c \in ws /\ Uncleared(es, 0, i)
    <3>1. 0 \in 0 .. n
      BY <1>1
    <3>2. Uncleared(fs, 0, i)
      BY <1>2, <2>1, <3>1
    <3> QED
      BY <2>1, <3>2 DEF Known
  <2>2. CASE \E j \in DOMAIN es : j < i /\ es[j] = Created(c) /\ Uncleared(es, j, i)
    <3>1. PICK j \in 1 .. n : j < i /\ es[j] = Created(c) /\ Uncleared(es, j, i)
      BY <1>1, <2>2
    <3>2. j \in 0 .. n /\ j \in 1 .. n + 1
      BY <1>1
    <3>3. Uncleared(fs, j, i)
      BY <1>2, <3>1, <3>2
    <3>4. fs[j] = Created(c)
      BY <1>1, <3>1
    <3> QED
      BY <1>1, <3>1, <3>2, <3>3, <3>4 DEF Known
  <2> QED
    BY <1>3, <2>1, <2>2 DEF Known
<1>4. CallsKnown(fs, ws)
  <2> SUFFICES ASSUME NEW i \in 1 .. n + 1, fs[i].kind = "called", fs[i].context \in Documents
               PROVE  Known(fs, ws, fs[i].context, i)
    BY <1>1 DEF CallsKnown
  <2>1. CASE i \in 1 .. n
    <3>1. Known(es, ws, es[i].context, i)
      BY <1>1, <2>1 DEF CallsKnown
    <3> QED
      BY <1>1, <1>3, <2>1, <3>1
  <2>2. CASE i = n + 1
    <3>1. fs[i] = e /\ n + 1 \in 1 .. n + 1
      BY <1>1, <2>2
    <3>2. Known(es, ws, e.context, n + 1)
      BY <3>1 DEF n
    <3> QED
      BY <1>3, <2>2, <3>1, <3>2
  <2> QED
    BY <1>1, <2>1, <2>2
<1>5. ASSUME NEW c, e = Created(c) PROVE Known(fs, ws, c, n + 2)
  <2>1. Uncleared(fs, n + 1, n + 2)
    BY <1>1 DEF Uncleared
  <2>2. n + 1 \in DOMAIN fs /\ n + 1 < n + 2 /\ fs[n + 1] = Created(c)
    BY <1>1, <1>5
  <2> QED
    BY <2>1, <2>2 DEF Known
<1>6. ASSUME NEW c, e.kind # "cleared", Known(es, ws, c, n + 1) PROVE Known(fs, ws, c, n + 2)
  <2>1. Known(fs, ws, c, n + 1)
    BY <1>1, <1>3, <1>6
  <2>2. ASSUME NEW i \in 0 .. n, Uncleared(fs, i, n + 1) PROVE Uncleared(fs, i, n + 2)
    <3> SUFFICES ASSUME NEW k \in 1 .. n + 1, i < k, k < n + 2 PROVE fs[k].kind # "cleared"
      BY <1>1 DEF Uncleared
    <3>1. CASE k = n + 1
      BY <1>1, <1>6, <3>1
    <3>2. CASE k \in 1 .. n
      BY <1>1, <2>2, <3>2 DEF Uncleared
    <3> QED
      BY <1>1, <3>1, <3>2
  <2>3. CASE c \in ws /\ Uncleared(fs, 0, n + 1)
    <3>1. 0 \in 0 .. n
      BY <1>1
    <3> QED
      BY <2>2, <2>3, <3>1 DEF Known
  <2>4. CASE \E j \in DOMAIN fs : j < n + 1 /\ fs[j] = Created(c) /\ Uncleared(fs, j, n + 1)
    <3>1. PICK j \in DOMAIN fs : j < n + 1 /\ fs[j] = Created(c) /\ Uncleared(fs, j, n + 1)
      BY <2>4
    <3>2. j \in 0 .. n /\ j < n + 2
      BY <1>1, <3>1
    <3> QED
      BY <2>2, <3>1, <3>2 DEF Known
  <2> QED
    BY <2>1, <2>3, <2>4 DEF Known
<1>7. Len(fs) + 1 = n + 2
  BY <1>1
<1> QED
  BY <1>4, <1>5, <1>6, <1>7 DEF n, fs

\* The first event does what the bridge does on it, and the rest move up.
LEMMA KnownTail ==
  ASSUME NEW es \in Seq(Events), es # <<>>, NEW ws, NEW vs, CallsKnown(es, ws),
         \/ Head(es).kind = "cleared"
         \/ Head(es).kind = "called" /\ vs = ws
         \/ /\ Head(es).kind = "created"
            /\ ws \subseteq vs
            /\ Head(es).context # Extension => Head(es).context \in vs
  PROVE  /\ CallsKnown(Tail(es), vs)
         /\ \A c \in Documents :
              Known(es, ws, c, Len(es) + 1) => Known(Tail(es), vs, c, Len(Tail(es)) + 1)
<1> DEFINE n == Len(es)
           fs == Tail(es)
<1>1. /\ n \in Nat /\ n >= 1 /\ DOMAIN es = 1 .. n /\ DOMAIN fs = 1 .. n - 1 /\ Len(fs) = n - 1
      /\ \A i \in 1 .. n - 1 : fs[i] = es[i + 1]
      /\ Head(es) = es[1]
  OBVIOUS
<1> HIDE DEF n, fs
<1>2. ASSUME NEW i \in 1 .. n, NEW j \in 1 .. n + 1, Uncleared(es, i, j)
      PROVE  Uncleared(fs, i - 1, j - 1)
  <2> SUFFICES ASSUME NEW k \in 1 .. n - 1, i - 1 < k, k < j - 1 PROVE fs[k].kind # "cleared"
    BY <1>1 DEF Uncleared
  <2>1. k + 1 \in 1 .. n /\ i < k + 1 /\ k + 1 < j /\ fs[k] = es[k + 1]
    BY <1>1
  <2> QED
    BY <1>1, <1>2, <2>1 DEF Uncleared
<1>3. ASSUME NEW c \in Documents, NEW i \in 2 .. n + 1, Known(es, ws, c, i)
      PROVE  Known(fs, vs, c, i - 1)
  <2>0. 1 \in 1 .. n /\ i \in 1 .. n + 1 /\ 1 < i
    BY <1>1
  <2>1. ASSUME Uncleared(es, 1, i), c \in vs PROVE Known(fs, vs, c, i - 1)
    BY <1>2, <2>0, <2>1 DEF Known
  <2>2. CASE c \in ws /\ Uncleared(es, 0, i)
    <3>1. es[1].kind # "cleared" /\ Uncleared(es, 1, i)
      BY <1>1, <2>0, <2>2 DEF Uncleared
    <3>2. c \in vs
      BY <1>1, <2>2, <3>1
    <3> QED
      BY <2>1, <3>1, <3>2
  <2>3. CASE \E j \in DOMAIN es : j < i /\ es[j] = Created(c) /\ Uncleared(es, j, i)
    <3>1. PICK j \in 1 .. n : j < i /\ es[j] = Created(c) /\ Uncleared(es, j, i)
      BY <1>1, <2>3
    <3>2. CASE j = 1
      <4>1. Head(es).kind = "created" /\ Head(es).context = c /\ c # Extension
        BY <1>1, <3>1, <3>2, ContextTypes DEF Created
      <4>2. c \in vs
        BY <4>1
      <4>3. Uncleared(es, 1, i)
        BY <3>1, <3>2
      <4> QED
        BY <2>1, <4>2, <4>3
    <3>3. CASE j # 1
      <4>1. j - 1 \in 1 .. n - 1 /\ j - 1 < i - 1 /\ fs[j - 1] = es[j]
        BY <1>1, <3>1, <3>3
      <4>2. Uncleared(fs, j - 1, i - 1)
        BY <1>2, <2>0, <3>1
      <4> QED
        BY <1>1, <3>1, <4>1, <4>2 DEF Known
    <3> QED
      BY <3>2, <3>3
  <2> QED
    BY <1>3, <2>2, <2>3 DEF Known
<1>4. CallsKnown(fs, vs)
  <2> SUFFICES ASSUME NEW i \in 1 .. n - 1, fs[i].kind = "called", fs[i].context \in Documents
               PROVE  Known(fs, vs, fs[i].context, i)
    BY <1>1 DEF CallsKnown
  <2>1. i + 1 \in 2 .. n + 1 /\ i + 1 \in 1 .. n /\ fs[i] = es[i + 1] /\ (i + 1) - 1 = i
    BY <1>1
  <2>2. Known(es, ws, fs[i].context, i + 1)
    BY <1>1, <2>1 DEF CallsKnown
  <2>3. Known(fs, vs, fs[i].context, (i + 1) - 1)
    BY <1>3, <2>1, <2>2
  <2> QED
    BY <2>1, <2>3
<1>5. ASSUME NEW c \in Documents, Known(es, ws, c, n + 1) PROVE Known(fs, vs, c, n)
  <2>1. n + 1 \in 2 .. n + 1 /\ (n + 1) - 1 = n
    BY <1>1
  <2>2. Known(fs, vs, c, (n + 1) - 1)
    BY <1>3, <1>5, <2>1
  <2> QED
    BY <2>1, <2>2
<1>6. Len(fs) + 1 = n
  BY <1>1
<1> QED
  BY <1>4, <1>5, <1>6 DEF n, fs

\* What PageSound speaks of is left alone.
Same(p) ==
  /\ events'[p] = events[p] /\ worlds'[p] = worlds[p] /\ document'[p] = document[p]
  /\ p \in cdp' <=> p \in cdp
  /\ p \in world' <=> p \in world

LEMMA SoundSame ==
  ASSUME NEW p \in Pages, PageSound(p), Same(p)
  PROVE  PageSound(p)'
<1>1. CallsKnown(events'[p], worlds'[p])
  BY DEF PageSound, Same
<1>2. p \in world' => Known(events'[p], worlds'[p], document'[p], Len(events'[p]) + 1)
  BY DEF PageSound, Same
<1> QED
  BY <1>1, <1>2 DEF PageSound, Same

\* A step of one page.
LEMMA SoundOf ==
  ASSUME ChannelSound, NEW p \in Pages, PageSound(p)', \A r \in Pages \ {p} : Same(r)
  PROVE  ChannelSound'
BY SoundSame DEF ChannelSound

LEMMA SoundAll ==
  ASSUME ChannelSound, \A r \in Pages : Same(r)
  PROVE  ChannelSound'
BY SoundSame DEF ChannelSound

\* Nothing is on its way.
LEMMA SoundQuiet ==
  ASSUME NEW p \in Pages, p \notin world', events'[p] = <<>>
  PROVE  PageSound(p)'
<1>1. CallsKnown(events'[p], worlds'[p])
  BY DEF CallsKnown
<1> QED
  BY <1>1 DEF PageSound

LEMMA SoundHangUp ==
  ASSUME TypeOK, ChannelSound, NEW p \in Pages, HangUp(p), UNCHANGED document
  PROVE  ChannelSound'
<1>1. p \notin world' /\ events'[p] = <<>>
  BY DEF TypeOK, HangUp
<1>2. \A r \in Pages \ {p} : Same(r)
  BY DEF TypeOK, HangUp, Same
<1> QED
  BY <1>1, <1>2, SoundQuiet, SoundOf

\* One more event on its way.
LEMMA SoundAppend ==
  ASSUME TypeOK, NEW p \in Pages, PageSound(p), p \in cdp', NEW e \in Events,
         events'[p] = Append(events[p], e), worlds'[p] = worlds[p],
         e.kind = "called" /\ e.context \in Documents
           => Known(events[p], worlds[p], e.context, Len(events[p]) + 1),
         p \in world' => \/ e = Created(document'[p])
                         \/ e.kind # "cleared" /\ p \in world /\ document'[p] = document[p]
  PROVE  PageSound(p)'
<1>1. events[p] \in Seq(Events) /\ CallsKnown(events[p], worlds[p])
  BY DEF TypeOK, PageSound
<1>2. CallsKnown(events'[p], worlds'[p])
  BY <1>1, KnownAppend
<1>3. ASSUME p \in world'
      PROVE  Known(events'[p], worlds'[p], document'[p], Len(events'[p]) + 1)
  <2>1. CASE e = Created(document'[p])
    BY <1>1, <2>1, KnownAppend
  <2>2. CASE e.kind # "cleared" /\ p \in world /\ document'[p] = document[p]
    <3>1. Known(events[p], worlds[p], document[p], Len(events[p]) + 1)
      BY <2>2 DEF PageSound
    <3>2. Known(Append(events[p], e), worlds[p], document[p], Len(Append(events[p], e)) + 1)
      BY <1>1, <2>2, <3>1, KnownAppend
    <3> QED
      BY <2>2, <3>2
  <2> QED
    BY <1>3, <2>1, <2>2
<1> QED
  BY <1>2, <1>3 DEF PageSound

\* The first event has come.
LEMMA SoundTail ==
  ASSUME TypeOK, NEW p \in Pages, PageSound(p), p \in cdp', events[p] # <<>>,
         events'[p] = Tail(events[p]), UNCHANGED <<document, world>>,
         \/ Head(events[p]).kind = "cleared"
         \/ Head(events[p]).kind = "called" /\ worlds'[p] = worlds[p]
         \/ /\ Head(events[p]).kind = "created"
            /\ worlds[p] \subseteq worlds'[p]
            /\ Head(events[p]).context # Extension => Head(events[p]).context \in worlds'[p]
  PROVE  PageSound(p)'
<1>1. events[p] \in Seq(Events) /\ CallsKnown(events[p], worlds[p]) /\ document[p] \in Documents
  BY DEF TypeOK, PageSound
<1>2. CallsKnown(events'[p], worlds'[p])
  BY <1>1, KnownTail
<1>3. ASSUME p \in world'
      PROVE  Known(events'[p], worlds'[p], document'[p], Len(events'[p]) + 1)
  <2>1. Known(events[p], worlds[p], document[p], Len(events[p]) + 1)
    BY <1>3 DEF PageSound
  <2>2. Known(Tail(events[p]), worlds'[p], document[p], Len(Tail(events[p])) + 1)
    BY <1>1, <2>1, KnownTail
  <2> QED
    BY <2>2
<1> QED
  BY <1>2, <1>3 DEF PageSound

LEMMA SoundWire ==
  ASSUME TypeOK, ChannelSound, NEW p \in Pages, WireStep(p)
  PROVE  ChannelSound'
<1>1. CASE AttachNext(p) \/ NoCdp(p) \/ Wired(p) \/ OpenerAnswers(p)
  <2>1. \A r \in Pages : Same(r)
    BY <1>1 DEF AttachNext, NoCdp, Wired, OpenerAnswers, Same, context, channel
  <2> QED
    BY <2>1, SoundAll
<1>2. CASE Connected(p)
  <2>1. PageSound(p)'
    <3>1. CallsKnown(events'[p], worlds'[p])
      BY <1>2 DEF Connected, ChannelSound, PageSound
    <3>2. p \in world' => Known(events'[p], worlds'[p], document'[p], Len(events'[p]) + 1)
      BY <1>2 DEF Connected, context, ChannelSound, PageSound
    <3> QED
      BY <1>2, <3>1, <3>2 DEF Connected, ChannelSound, PageSound
  <2>2. \A r \in Pages \ {p} : Same(r)
    BY <1>2 DEF Connected, Same, context
  <2> QED
    BY <2>1, <2>2, SoundOf
<1>3. CASE Installed(p)
  <2> DEFINE e == Created(document[p])
  <2>1. e \in Events /\ e.kind # "called"
    BY ContextTypes, EventTypes DEF TypeOK, Created
  <2>2. events'[p] = Append(events[p], e)
    BY <1>3, <2>1, AppendIsConcat DEF TypeOK, Installed, Emit
  <2>3. PageSound(p)'
    BY <1>3, <2>1, <2>2, SoundAppend DEF ChannelSound, Installed, context
  <2>4. \A r \in Pages \ {p} : Same(r)
    BY <1>3 DEF TypeOK, Installed, Emit, Same, context
  <2> QED
    BY <2>3, <2>4, SoundOf
<1>4. CASE InstallFails(p)
  BY <1>4, SoundHangUp DEF InstallFails, context
<1>5. CASE DropCdp(p)
  BY <1>5, SoundHangUp DEF DropCdp, context
<1> QED
  BY <1>1, <1>2, <1>3, <1>4, <1>5 DEF WireStep

LEMMA SoundEvent ==
  ASSUME TypeOK, ChannelSound, NEW p \in Pages, Event(p)
  PROVE  ChannelSound'
<1>1. /\ p \in cdp /\ events[p] # <<>> /\ events'[p] = Tail(events[p])
      /\ UNCHANGED <<document, cdp, world>>
      /\ \A r \in Pages \ {p} : Same(r)
  BY DEF Event, ContextCreated, ContextsCleared, BindingCalled, Arrives, Consume, Forget, TypeOK,
         Same, context, channel
<1>2. \/ Head(events[p]).kind = "cleared"
      \/ Head(events[p]).kind = "called" /\ worlds'[p] = worlds[p]
      \/ /\ Head(events[p]).kind = "created"
         /\ worlds[p] \subseteq worlds'[p]
         /\ Head(events[p]).context # Extension => Head(events[p]).context \in worlds'[p]
  <2>1. CASE ContextCreated(p)
    BY <2>1 DEF ContextCreated, Arrives, Accepts, TypeOK
  <2>2. CASE ContextsCleared(p)
    BY <2>2 DEF ContextsCleared, Arrives
  <2>3. CASE BindingCalled(p)
    BY <2>3 DEF BindingCalled, Arrives, channel
  <2> QED
    BY <2>1, <2>2, <2>3 DEF Event
<1>3. PageSound(p)'
  BY <1>1, <1>2, SoundTail DEF ChannelSound
<1> QED
  BY <1>1, <1>3, SoundOf

LEMMA SoundNavigate ==
  ASSUME TypeOK, ChannelSound, NEW p \in Pages, Navigate(p)
  PROVE  ChannelSound'
<1> DEFINE es == events[p]
           fs == Append(es, Cleared)
           e  == Created(document[p] + 1)
<1>1. /\ \A r \in Pages \ {p} : Same(r)
      /\ document'[p] = document[p] + 1 /\ document'[p] \in Documents
      /\ UNCHANGED <<cdp, world, worlds>>
  BY ContextTypes DEF TypeOK, Navigate, Emit, Same, channel
<1>2. /\ es \in Seq(Events) /\ fs \in Seq(Events) /\ e \in Events
      /\ Cleared \in Events /\ Cleared.kind = "cleared" /\ e.kind = "created"
  BY <1>1, ContextTypes, EventTypes DEF TypeOK, Cleared, Created
<1>3. CallsKnown(fs, worlds[p])
  BY <1>2, KnownAppend DEF ChannelSound, PageSound
<1>4. CASE p \notin cdp
  <2>1. p \notin world' /\ events'[p] = <<>>
    BY <1>1, <1>4 DEF ChannelSound, PageSound, Navigate, Emit
  <2> QED
    BY <1>1, <2>1, SoundQuiet, SoundOf
<1>5. CASE p \in cdp /\ p \notin world
  <2>1. events'[p] = fs
    BY <1>2, <1>5, AppendIsConcat DEF TypeOK, Navigate, Emit
  <2>2. PageSound(p)'
    BY <1>1, <1>3, <1>5, <2>1 DEF PageSound
  <2> QED
    BY <1>1, <2>2, SoundOf
<1>6. CASE p \in cdp /\ p \in world
  <2>1. events'[p] = es \o (<<Cleared>> \o <<e>>)
    BY <1>2, <1>6 DEF TypeOK, Navigate, Emit
  <2>2. es \o (<<Cleared>> \o <<e>>) = Append(fs, e)
    BY <1>2
  <2>3. events'[p] = Append(fs, e)
    BY <2>1, <2>2
  <2>4. CallsKnown(events'[p], worlds'[p])
    BY <1>1, <1>2, <1>3, <2>3, KnownAppend
  <2>5. Known(events'[p], worlds'[p], document'[p], Len(events'[p]) + 1)
    BY <1>1, <1>2, <1>3, <2>3, KnownAppend
  <2>6. PageSound(p)'
    BY <1>1, <1>6, <2>4, <2>5 DEF PageSound
  <2> QED
    BY <1>1, <2>6, SoundOf
<1> QED
  BY <1>4, <1>5, <1>6

LEMMA SoundPages ==
  ASSUME TypeOK, ChannelSound,
         \/ \E p \in Pages : PageCloses(p) \/ ExtensionWorld(p)
         \/ \E p \in Pages, o \in Pages \cup {None} : PageOpens(p, o)
         \/ \E p \in Pages, c \in Contexts, s \in Signals : Call(p, c, s)
  PROVE  ChannelSound'
<1>1. ASSUME NEW p \in Pages, PageCloses(p) PROVE ChannelSound'
  BY <1>1, SoundHangUp DEF PageCloses
<1>2. ASSUME NEW p \in Pages, ExtensionWorld(p) PROVE ChannelSound'
  <2> DEFINE e == Created(Extension)
  <2>1. e \in Events /\ e.kind = "created"
    BY ContextTypes, EventTypes DEF Created
  <2>2. events'[p] = Append(events[p], e)
    BY <1>2, <2>1, AppendIsConcat DEF TypeOK, ExtensionWorld, Emit
  <2>3. PageSound(p)'
    BY <1>2, <2>1, <2>2, SoundAppend DEF ChannelSound, ExtensionWorld, context, channel
  <2>4. \A r \in Pages \ {p} : Same(r)
    BY <1>2 DEF TypeOK, ExtensionWorld, Emit, Same, context, channel
  <2> QED
    BY <2>3, <2>4, SoundOf
<1>3. ASSUME NEW p \in Pages, NEW o \in Pages \cup {None}, PageOpens(p, o) PROVE ChannelSound'
  <2>1. \A r \in Pages : Same(r)
    BY <1>3 DEF PageOpens, Same, channel
  <2> QED
    BY <2>1, SoundAll
<1>4. ASSUME NEW p \in Pages, NEW c \in Contexts, NEW s \in Signals, Call(p, c, s)
      PROVE  ChannelSound'
  <2> DEFINE e == Called(c, s)
  <2>1. e \in Events /\ e.kind = "called" /\ e.context = c
    BY EventTypes DEF Called
  <2>2. events'[p] = Append(events[p], e)
    BY <1>4, <2>1, AppendIsConcat DEF TypeOK, Call, Emit
  <2>3. c \in Documents => Known(events[p], worlds[p], c, Len(events[p]) + 1)
    BY <1>4, ContextTypes DEF Call, ChannelSound, PageSound
  <2>4. PageSound(p)'
    BY <1>4, <2>1, <2>2, <2>3, SoundAppend DEF ChannelSound, Call, context, channel
  <2>5. \A r \in Pages \ {p} : Same(r)
    BY <1>4 DEF TypeOK, Call, Emit, Same, context, channel
  <2> QED
    BY <2>4, <2>5, SoundOf
<1> QED
  BY <1>1, <1>2, <1>3, <1>4

LEMMA SoundSession ==
  ASSUME ChannelSound,
         Listen \/ Detach \/ UNCHANGED vars \/ \E q \in Prompts : Ask(q) \/ TimeOut(q)
  PROVE  ChannelSound'
<1>1. \A r \in Pages : Same(r)
  BY DEF Listen, Detach, Ask, TimeOut, Same, vars, context, channel
<1> QED
  BY <1>1, SoundAll

LEMMA SoundStep ==
  ASSUME TypeOK, ChannelSound, [Next]_vars
  PROVE  ChannelSound'
BY SoundWire, SoundEvent, SoundNavigate, SoundPages, SoundSession DEF Next

LEMMA SoundInit == Init => ChannelSound
<1> SUFFICES ASSUME Init, NEW p \in Pages PROVE PageSound(p)
  BY DEF ChannelSound
<1>1. p \notin world /\ events[p] = <<>>
  BY DEF Init
<1>2. CallsKnown(events[p], worlds[p])
  BY <1>1 DEF CallsKnown
<1> QED
  BY <1>1, <1>2 DEF PageSound

Lands ==
  \A p \in Pages, q \in Prompts :
    /\ Arrives(p, "called") /\ events'[p] = Tail(events[p]) /\ p \in cdp'
    /\ Head(events[p]).context \in Documents /\ ~ detached
    /\ Waiting(q) /\ Head(events[p]).signal.ticket = q
    /\ Head(events[p]).signal.word \in Words(q)
    => ~ Waiting(q)'

\* Nothing but the coming of an event takes it from the queue of a page that
\* keeps its CDP session.
LEMMA OnlyEventsTake ==
  ASSUME TypeOK, NEW p \in Pages, events[p] # <<>>, events'[p] = Tail(events[p]), p \in cdp',
         [Next]_vars
  PROVE  Event(p)
<1>1. /\ events[p] \in Seq(Events) /\ events'[p] # events[p]
      /\ \A es \in Seq(Events) : events'[p] # events[p] \o es
  <2>1. events[p] \in Seq(Events)
    BY DEF TypeOK
  <2>2. Len(events'[p]) < Len(events[p])
    BY <2>1
  <2>3. Len(events[p]) \in Nat /\ Len(events'[p]) \in Nat
    BY <2>1
  <2>4. ASSUME events'[p] = events[p] PROVE FALSE
    <3>1. Len(events'[p]) = Len(events[p])
      BY <2>4
    <3> QED
      BY <2>2, <2>3, <3>1
  <2>5. ASSUME NEW es \in Seq(Events), events'[p] = events[p] \o es PROVE FALSE
    <3>1. Len(events[p] \o es) = Len(events[p]) + Len(es) /\ Len(es) \in Nat
      BY <2>1, ConcatProperties
    <3>2. Len(events'[p]) = Len(events[p]) + Len(es)
      BY <2>5, <3>1
    <3> QED
      BY <2>2, <2>3, <3>1, <3>2
  <2> QED
    BY <2>1, <2>4, <2>5
<1>2. ASSUME NEW r \in Pages, HangUp(r) PROVE FALSE
  BY <1>1, <1>2 DEF TypeOK, HangUp
<1>3. ASSUME NEW r \in Pages, NEW es \in Seq(Events), events' = Emit(r, es) PROVE FALSE
  BY <1>1, <1>3 DEF TypeOK, Emit
<1>4. ASSUME NEW r \in Pages, WireStep(r) PROVE FALSE
  <2>1. CASE Installed(r)
    <3>1. <<Created(document[r])>> \in Seq(Events)
      BY ContextTypes, EventTypes DEF TypeOK
    <3> QED
      BY <1>3, <2>1, <3>1 DEF Installed
  <2>2. CASE InstallFails(r) \/ DropCdp(r)
    BY <1>2, <2>2 DEF InstallFails, DropCdp
  <2>3. CASE AttachNext(r) \/ Connected(r) \/ NoCdp(r) \/ Wired(r) \/ OpenerAnswers(r)
    BY <1>1, <2>3 DEF AttachNext, Connected, NoCdp, Wired, OpenerAnswers
  <2> QED
    BY <1>4, <2>1, <2>2, <2>3 DEF WireStep
<1>5. ASSUME NEW r \in Pages, PageCloses(r) PROVE FALSE
  BY <1>2, <1>5 DEF PageCloses
<1>6. ASSUME NEW r \in Pages, Navigate(r) PROVE FALSE
  <2> DEFINE es == <<Cleared>> \o (IF r \in world THEN <<Created(document[r] + 1)>> ELSE <<>>)
  <2>1. document[r] + 1 \in Documents
    BY <1>6, ContextTypes DEF TypeOK, Navigate
  <2>2. es \in Seq(Events)
    BY <2>1, ContextTypes, EventTypes
  <2> QED
    BY <1>3, <1>6, <2>2 DEF Navigate
<1>7. ASSUME NEW r \in Pages, ExtensionWorld(r) PROVE FALSE
  <2>1. <<Created(Extension)>> \in Seq(Events)
    BY ContextTypes, EventTypes
  <2> QED
    BY <1>3, <1>7, <2>1 DEF ExtensionWorld
<1>8. ASSUME NEW r \in Pages, NEW c \in Contexts, NEW s \in Signals, Call(r, c, s) PROVE FALSE
  <2>1. <<Called(c, s)>> \in Seq(Events)
    BY EventTypes
  <2> QED
    BY <1>3, <1>8, <2>1 DEF Call
<1>9. ASSUME NEW r \in Pages, NEW o \in Pages \cup {None}, PageOpens(r, o) PROVE FALSE
  BY <1>1, <1>9 DEF PageOpens
<1>10. ASSUME Listen \/ Detach \/ UNCHANGED vars \/ \E q \in Prompts : Ask(q) \/ TimeOut(q)
       PROVE  FALSE
  BY <1>1, <1>10 DEF Listen, Detach, Ask, TimeOut, vars
<1>11. ASSUME NEW r \in Pages, Event(r) PROVE r = p
  BY <1>1, <1>11 DEF TypeOK, Event, ContextCreated, ContextsCleared, BindingCalled, Consume
<1> QED
  BY <1>4, <1>5, <1>6, <1>7, <1>8, <1>9, <1>10, <1>11 DEF Next

LEMMA LandsStep ==
  ASSUME TypeOK, ChannelSound, [Next]_vars
  PROVE  Lands
<1> SUFFICES ASSUME NEW p \in Pages, NEW q \in Prompts,
                    Arrives(p, "called"), events'[p] = Tail(events[p]), p \in cdp',
                    Head(events[p]).context \in Documents, ~ detached,
                    Waiting(q), Head(events[p]).signal.ticket = q,
                    Head(events[p]).signal.word \in Words(q)
             PROVE  ~ Waiting(q)'
  BY DEF Lands
<1>1. BindingCalled(p)
  <2>1. Event(p)
    BY OnlyEventsTake DEF Arrives
  <2> QED
    BY <2>1 DEF Event, ContextCreated, ContextsCleared, Arrives
<1> DEFINE c == Head(events[p]).context
<1>2. c \in worlds[p]
  <2>1. events[p] \in Seq(Events) /\ events[p] # <<>> /\ Head(events[p]) = events[p][1]
        /\ 1 \in DOMAIN events[p] /\ DOMAIN events[p] \subseteq Nat \ {0}
    BY DEF TypeOK, Arrives
  <2>2. Known(events[p], worlds[p], c, 1)
    BY <2>1 DEF Arrives, ChannelSound, PageSound, CallsKnown
  <2> QED
    BY <2>1, <2>2 DEF Known
<1>3. Settle(Head(events[p]).signal)
  BY <1>1, <1>2 DEF BindingCalled, Heard, FromTheWorld
<1>4. fate'[q] = Decision(Head(events[p]).signal)
  BY <1>3 DEF Settle, Answers
<1> QED
  BY <1>4 DEF Waiting, Decision

\* The answer a human gives in a page that stays is never dropped while its
\* prompt waits: the world of every document is known before a call from it
\* comes (wirePage, onSignal).
THEOREM AnswersLand == Spec => GoodAnswersLand
<1>1. Init => ChannelSound
  BY SoundInit
<1>2. TypeOK /\ ChannelSound /\ [Next]_vars => ChannelSound'
  BY SoundStep
<1>3. TypeOK /\ ChannelSound /\ [Next]_vars => [Lands]_vars
  BY LandsStep
<1> QED
  BY <1>1, <1>2, <1>3, TypeCorrect, PTL DEF Spec, GoodAnswersLand, Lands

-----------------------------------------------------------------------------
(* The bridge implements HumanAnswer: every step is an asking, a settling of  *)
(* callers that wait, or nothing to them.                                     *)

\* Callers that wait settle the same way, or nothing happens to any.
LEMMA SettlesAsAnswer ==
  ASSUME NEW S \in SUBSET Prompts, \A q \in S : Waiting(q),
         NEW f \in {"refused", "approved", "denied"},
         fate \in [Prompts -> {"unasked", "waiting", "refused", "approved", "denied"}],
         fate' = [q \in Prompts |-> IF q \in S THEN f ELSE fate[q]]
  PROVE  [Answer!Next]_fate
<1>1. CASE S = {}
  BY <1>1
<1>2. CASE S # {}
  <2>1. Answer!Settle(S, f)
    BY <1>2 DEF Answer!Settle, Waiting
  <2>2. \A q \in S : Answer!SettleOne(q)
    BY <2>1 DEF Answer!SettleOne, Answer!Decisions
  <2> QED
    BY <1>2, <2>2 DEF Answer!Next
<1> QED
  BY <1>1, <1>2

LEMMA AnswerStep ==
  ASSUME TypeOK, [Next]_vars
  PROVE  [Answer!Next]_fate
<1>0. fate \in [Prompts -> {"unasked", "waiting", "refused", "approved", "denied"}]
  BY DEF TypeOK
<1>1. ASSUME NEW p \in Pages, BindingCalled(p) PROVE [Answer!Next]_fate
  <2> DEFINE s == Head(events[p]).signal
             S == {q \in Prompts : Waiting(q) /\ Answers(s, q)}
  <2>1. CASE UNCHANGED fate
    BY <2>1
  <2>2. CASE Settle(s)
    <3>1. Decision(s) \in {"refused", "approved", "denied"}
      BY DEF Decision
    <3>2. fate' = [q \in Prompts |-> IF q \in S THEN Decision(s) ELSE fate[q]]
      BY <2>2 DEF Settle
    <3>3. S \in SUBSET Prompts /\ \A q \in S : Waiting(q)
      OBVIOUS
    <3> HIDE DEF S, s
    <3> QED
      BY <1>0, <3>1, <3>2, <3>3, SettlesAsAnswer
  <2> QED
    BY <1>1, <2>1, <2>2 DEF BindingCalled
<1>2. CASE Detach
  <2> DEFINE S == {q \in Prompts : Waiting(q)}
  <2>1. fate' = [q \in Prompts |-> IF q \in S THEN "refused" ELSE fate[q]]
    BY <1>2 DEF Detach, RejectWaiters
  <2>2. S \in SUBSET Prompts /\ \A q \in S : Waiting(q)
    OBVIOUS
  <2> HIDE DEF S
  <2> QED
    BY <1>0, <2>1, <2>2, SettlesAsAnswer
<1>3. ASSUME NEW q \in Prompts, TimeOut(q) PROVE [Answer!Next]_fate
  <2>1. fate' = [r \in Prompts |-> IF r \in {q} THEN "refused" ELSE fate[r]]
    BY <1>0, <1>3 DEF TimeOut
  <2>2. {q} \in SUBSET Prompts /\ \A r \in {q} : Waiting(r)
    BY <1>3 DEF TimeOut
  <2> QED
    BY <1>0, <2>1, <2>2, SettlesAsAnswer
<1>4. ASSUME NEW q \in Prompts, Ask(q) PROVE [Answer!Next]_fate
  <2>1. Answer!Raise(q)
    BY <1>4 DEF Ask, Answer!Raise
  <2> QED
    BY <2>1 DEF Answer!Next
<1>5. ASSUME NEW p \in Pages,
             \/ WireStep(p) \/ ContextCreated(p) \/ ContextsCleared(p) \/ PageCloses(p)
             \/ Navigate(p) \/ ExtensionWorld(p)
      PROVE  [Answer!Next]_fate
  BY <1>5 DEF WireStep, AttachNext, Connected, NoCdp, Installed, InstallFails, Wired,
              OpenerAnswers, DropCdp, ContextCreated, ContextsCleared, PageCloses, Navigate,
              ExtensionWorld
<1>6. ASSUME NEW p \in Pages, NEW o \in Pages \cup {None}, PageOpens(p, o)
      PROVE  [Answer!Next]_fate
  BY <1>6 DEF PageOpens
<1>7. ASSUME NEW p \in Pages, NEW c \in Contexts, NEW s \in Signals, Call(p, c, s)
      PROVE  [Answer!Next]_fate
  BY <1>7 DEF Call
<1>8. CASE Listen \/ UNCHANGED vars
  BY <1>8 DEF Listen, vars
<1> QED
  BY <1>1, <1>2, <1>3, <1>4, <1>5, <1>6, <1>7, <1>8 DEF Next, Event

\* The bridge does nothing to a caller that HumanAnswer does not allow: a call
\* is refused on the spot or waits, and settles once (awaitSignal, detach).
THEOREM ImplementsAnswer == Spec => Answer!Spec
<1>1. Init => Answer!Init
  BY DEF Init, Answer!Init
<1>2. TypeOK /\ [Next]_vars => [Answer!Next]_fate
  BY AnswerStep
<1> QED
  BY <1>1, <1>2, TypeCorrect, PTL DEF Spec, Answer!Spec
=============================================================================

----------------------- MODULE OperatorChannelProofs -----------------------
(***************************************************************************)
(* What holds of OperatorChannel for any asks, bridges, texts and limits,  *)
(* whatever the listener does: its types, that the link is never stuck,    *)
(* that requests wait for the proof and decisions come from a daemon that  *)
(* gave it, what the daemon shows, who waits, the limits, and the safety   *)
(* of HumanAnswer.                                                         *)
(***************************************************************************)
EXTENDS OperatorChannel, FiniteSetTheorems, TLAPS

\* The steps of Next, by what they touch: a caller asks; requests settle from
\* this side or by an answer; the link changes and no request does.
Asked == \E a \in Asks, r \in Requests : AskRefused(a, r) \/ AskJoins(a, r) \/ AskQueued(a, r)
Linked ==
  \/ Dials \/ HandshakeTimeout \/ SockClose
  \/ OnUnexpected \/ OnOversized \/ OnWelcome

LEMMA NextCases ==
  ASSUME Next
  PROVE  \/ Asked
         \/ \E a \in Asks : Timeout(a)
         \/ \E b \in Bridges : Detach(b)
         \/ Close /\ link # "closed"
         \/ Linked
         \/ Close /\ CanRead /\ link = "hello"
         \/ OnReady
         \/ \E a \in Asks, d \in {"approved", "denied"} : OnAnswer(a, d)
BY Zenon DEF Next, Asked, Linked, Expires, Shutdown, OnWrongProof

-----------------------------------------------------------------------------
(* Types.                                                                    *)

LEMMA TypeInit == Init => TypeOK
<1> SUFFICES ASSUME Init PROVE TypeOK
  OBVIOUS
<1>1. unread \in BOOLEAN /\ retry \in BOOLEAN /\ handshake \in BOOLEAN
  BY Zenon DEF Init
<1> QED
  BY <1>1 DEF Init, TypeOK

\* What is told of a settled request is well typed, and so are the wires.
LEMMA ResultTypes ==
  ASSUME TypeOK, NEW S \in SUBSET Asks, NEW how \in Settled, Result(S, how)
  PROVE  /\ status' \in [Asks -> {"new", "pending", "joined"} \cup Settled]
         /\ req' \in [Asks -> Requests \cup {NoRequest}]
         /\ first' \in [Asks -> Asks]
BY DEF Result, TypeOK

LEMMA ResolvedTypes ==
  ASSUME TypeOK, NEW S \in SUBSET Asks, SendResolved(S)
  PROVE  /\ cards' \in SUBSET Asks /\ known' \in SUBSET Asks
         /\ unproved' \in SUBSET {"request", "resolved"}
BY DEF SendResolved, TypeOK

LEMMA RequestTypes ==
  ASSUME TypeOK, NEW S \in SUBSET Asks, SendRequests(S)
  PROVE  /\ cards' \in SUBSET Asks /\ known' \in SUBSET Asks
         /\ unproved' \in SUBSET {"request", "resolved"}
BY DEF SendRequests, TypeOK

LEMMA TypeAsked == ASSUME TypeOK, Asked PROVE TypeOK'
<1>1. PICK a \in Asks, r \in Requests : AskRefused(a, r) \/ AskJoins(a, r) \/ AskQueued(a, r)
  BY DEF Asked
<1>2. CASE AskRefused(a, r)
  BY <1>2 DEF TypeOK, AskRefused, wire, Settled
<1>3. CASE AskJoins(a, r)
  <2>1. PICK f \in Same(r) : first' = [first EXCEPT ![a] = f]
    BY <1>3 DEF AskJoins
  <2>2. f \in Asks
    BY <2>1 DEF Same, Pending
  <2> QED
    BY <1>3, <2>1, <2>2 DEF TypeOK, AskJoins, wire
<1>4. CASE AskQueued(a, r)
  <2>1. /\ cards' \in SUBSET Asks /\ known' \in SUBSET Asks
        /\ unproved' \in SUBSET {"request", "resolved"}
    <3>1. SendRequests({a}) \/ UNCHANGED wire
      BY <1>4 DEF AskQueued
    <3>2. {a} \in SUBSET Asks
      OBVIOUS
    <3>3. CASE SendRequests({a})
      BY <3>2, <3>3, RequestTypes
    <3>4. CASE UNCHANGED wire
      BY <3>4 DEF TypeOK, wire
    <3> QED
      BY <3>1, <3>3, <3>4
  <2> QED
    BY <1>4, <2>1 DEF TypeOK, AskQueued
<1> QED
  BY <1>1, <1>2, <1>3, <1>4

LEMMA TypeTimeout == ASSUME TypeOK, NEW a \in Asks, Timeout(a) PROVE TypeOK'
<1> DEFINE S == {a} \cup Joined({a})
<1>1. S \in SUBSET Asks /\ {a} \in SUBSET Asks /\ "refused" \in Settled
  BY DEF Joined, Settled
<1>2. Result(S, "refused") /\ SendResolved({a})
  BY DEF Timeout, Settle
<1> HIDE DEF S
<1> QED
  BY <1>1, <1>2, ResultTypes, ResolvedTypes DEF TypeOK, Timeout

LEMMA TypeDetach == ASSUME TypeOK, NEW b \in Bridges, Detach(b) PROVE TypeOK'
<1> DEFINE out == {a \in Asks : req[a].bridge = b} \cap Pending
           all == {a \in {x \in Asks : req[x].bridge = b} : status[a] \in {"pending", "joined"}}
                    \cup Joined(out)
<1>1. out \in SUBSET Asks /\ all \in SUBSET Asks /\ "refused" \in Settled
  BY DEF Joined, Settled
<1>2. SendResolved(out) /\ Result(all, "refused")
  BY DEF Detach
<1> HIDE DEF out, all
<1> QED
  BY <1>1, <1>2, ResultTypes, ResolvedTypes DEF TypeOK, Detach

LEMMA TypeClose == ASSUME TypeOK, Close PROVE TypeOK'
<1> DEFINE S == Pending \cup Joined(Pending)
<1>1. S \in SUBSET Asks /\ "refused" \in Settled
  BY DEF Joined, Pending, Settled
<1>2. Result(S, "refused")
  BY DEF Close, Settle
<1> HIDE DEF S
<1> QED
  BY <1>1, <1>2, ResultTypes DEF TypeOK, Close

LEMMA TypeLinked == ASSUME TypeOK, Linked PROVE TypeOK'
<1>1. CASE Dials
  BY <1>1 DEF TypeOK, Dials, Connect, asked
<1>2. CASE HandshakeTimeout
  BY <1>2 DEF TypeOK, HandshakeTimeout, asked, wire
<1>3. CASE SockClose
  BY <1>3 DEF TypeOK, SockClose, asked
<1>4. CASE OnUnexpected
  <2>1. unread' \in BOOLEAN
    BY <1>4, Zenon DEF OnUnexpected, ReadOn
  <2> QED
    BY <1>4, <2>1 DEF TypeOK, OnUnexpected, asked, wire
<1>5. CASE OnOversized
  BY <1>5 DEF TypeOK, OnOversized, asked, wire
<1>6. CASE OnWelcome
  <2>1. unread' \in BOOLEAN
    BY <1>6, Zenon DEF OnWelcome, ReadOn
  <2> QED
    BY <1>6, <2>1 DEF TypeOK, OnWelcome, asked, wire
<1> QED
  BY <1>1, <1>2, <1>3, <1>4, <1>5, <1>6 DEF Linked

LEMMA TypeReady == ASSUME TypeOK, OnReady PROVE TypeOK'
<1>1. unread' \in BOOLEAN
  BY Zenon DEF OnReady, ReadOn
<1>2. Pending \in SUBSET Asks /\ SendRequests(Pending)
  BY DEF OnReady, Pending
<1> QED
  BY <1>1, <1>2, RequestTypes DEF TypeOK, OnReady, asked

LEMMA TypeAnswer ==
  ASSUME TypeOK, NEW a \in Asks, NEW d \in {"approved", "denied"}, OnAnswer(a, d)
  PROVE  TypeOK'
<1> DEFINE S == {a} \cup Joined({a})
<1>1. S \in SUBSET Asks /\ {a} \in SUBSET Asks /\ d \in Settled
  BY DEF Joined, Settled
<1>2. Result(S, d) /\ SendResolved({a})
  BY DEF OnAnswer, Settle
<1>3. unread' \in BOOLEAN
  BY Zenon DEF OnAnswer, ReadOn
<1> HIDE DEF S
<1> QED
  BY <1>1, <1>2, <1>3, ResultTypes, ResolvedTypes DEF TypeOK, OnAnswer

LEMMA TypeStep == TypeOK /\ [Next]_vars => TypeOK'
<1>1. ASSUME TypeOK, Next PROVE TypeOK'
  BY <1>1, NextCases, TypeAsked, TypeTimeout, TypeDetach, TypeClose, TypeLinked, TypeReady,
     TypeAnswer
<1>2. ASSUME TypeOK, UNCHANGED vars PROVE TypeOK'
  BY <1>2 DEF TypeOK, vars, conn, asked, wire
<1> QED
  BY <1>1, <1>2

\* The channel keeps its types.
THEOREM ChannelTypeOK == Spec => []TypeOK
<1>1. Init => TypeOK
  BY TypeInit
<1> QED
  BY <1>1, TypeStep, PTL DEF Spec

-----------------------------------------------------------------------------
(* The link: it is never stuck, and past the hello it talks to the daemon.   *)

PastHello == link \in {"auth", "ready"} => peer = "daemon"
LinkSound == NeverStuck /\ PastHello /\ RequestsAfterProof

LEMMA LinkInit == Init => LinkSound
BY DEF Init, LinkSound, NeverStuck, PastHello, RequestsAfterProof

\* Withdrawing sends no request, and to the daemon nothing is unproved.
LEMMA ResolvedUnproved ==
  ASSUME NEW S, SendResolved(S), RequestsAfterProof
  PROVE  RequestsAfterProof'
BY DEF SendResolved, RequestsAfterProof

LEMMA RequestUnproved ==
  ASSUME NEW S, SendRequests(S), RequestsAfterProof, Proven
  PROVE  RequestsAfterProof'
BY DEF SendRequests, RequestsAfterProof

\* A step that leaves the link as it was.
LEMMA LinkKept ==
  ASSUME LinkSound, RequestsAfterProof', UNCHANGED <<link, sock, peer, retry, handshake>>
  PROVE  LinkSound'
BY DEF LinkSound, NeverStuck, PastHello

LEMMA LinkAsked == ASSUME LinkSound, Asked PROVE LinkSound'
<1>1. PICK a \in Asks, r \in Requests : AskRefused(a, r) \/ AskJoins(a, r) \/ AskQueued(a, r)
  BY DEF Asked
<1>2. CASE AskRefused(a, r)
  BY <1>2, LinkKept DEF AskRefused, wire, LinkSound, RequestsAfterProof
<1>3. CASE AskJoins(a, r)
  BY <1>3, LinkKept DEF AskJoins, wire, LinkSound, RequestsAfterProof
<1>4. CASE AskQueued(a, r)
  <2>1. (link = "ready" /\ SendRequests({a})) \/ UNCHANGED wire
    BY <1>4 DEF AskQueued
  <2>2. ASSUME link = "ready" PROVE Proven
    BY <2>2 DEF Proven, LinkSound, PastHello
  <2>3. RequestsAfterProof'
    BY <2>1, <2>2, RequestUnproved DEF LinkSound, RequestsAfterProof, wire
  <2> QED
    BY <1>4, <2>3, LinkKept DEF AskQueued
<1> QED
  BY <1>1, <1>2, <1>3, <1>4

LEMMA LinkSettles ==
  ASSUME LinkSound, (\E a \in Asks : Timeout(a)) \/ (\E b \in Bridges : Detach(b))
  PROVE  LinkSound'
<1>1. CASE \E a \in Asks : Timeout(a)
  BY <1>1, ResolvedUnproved, LinkKept DEF Timeout, LinkSound
<1>2. CASE \E b \in Bridges : Detach(b)
  BY <1>2, ResolvedUnproved, LinkKept DEF Detach, LinkSound
<1> QED
  BY <1>1, <1>2

LEMMA LinkClose == ASSUME LinkSound, Close PROVE LinkSound'
BY DEF Close, LinkSound, NeverStuck, PastHello, RequestsAfterProof

LEMMA LinkLinked == ASSUME LinkSound, Linked PROVE LinkSound'
<1> USE DEF LinkSound, NeverStuck, PastHello, RequestsAfterProof
<1>1. CASE Dials
  BY <1>1 DEF Dials, Connect
<1>2. CASE HandshakeTimeout
  BY <1>2 DEF HandshakeTimeout, wire
<1>3. CASE SockClose
  BY <1>3 DEF SockClose
<1>4. CASE OnUnexpected
  BY <1>4 DEF OnUnexpected, wire, CanRead
<1>5. CASE OnOversized
  BY <1>5 DEF OnOversized, wire, CanRead
<1>6. CASE OnWelcome
  BY <1>6 DEF OnWelcome, ProofMatches, wire
<1> QED
  BY <1>1, <1>2, <1>3, <1>4, <1>5, <1>6 DEF Linked

LEMMA LinkReady == ASSUME LinkSound, OnReady PROVE LinkSound'
<1>1. Proven
  BY DEF OnReady, Proven, LinkSound, PastHello
<1>2. RequestsAfterProof'
  BY <1>1, RequestUnproved DEF OnReady, LinkSound
<1> QED
  BY <1>2 DEF OnReady, LinkSound, NeverStuck, PastHello

LEMMA LinkAnswer ==
  ASSUME LinkSound, NEW a \in Asks, NEW d, OnAnswer(a, d) PROVE LinkSound'
BY ResolvedUnproved, LinkKept DEF OnAnswer, LinkSound

LEMMA LinkStep == LinkSound /\ [Next]_vars => LinkSound'
<1>1. ASSUME LinkSound, Next PROVE LinkSound'
  BY <1>1, NextCases, LinkAsked, LinkSettles, LinkClose, LinkLinked, LinkReady, LinkAnswer
<1>2. ASSUME LinkSound, UNCHANGED vars PROVE LinkSound'
  BY <1>2 DEF LinkSound, NeverStuck, PastHello, RequestsAfterProof, vars, conn, wire
<1> QED
  BY <1>1, <1>2

\* No request ever leaves for a listener that has not proved itself
\* (handleWelcome before handleReady), with any listener on any connection.
THEOREM RequestsWait == Spec => []RequestsAfterProof
<1>1. Init => LinkSound
  BY LinkInit
<1>2. LinkSound => RequestsAfterProof
  BY DEF LinkSound
<1> QED
  BY <1>1, <1>2, LinkStep, PTL DEF Spec

\* A link that is down has a redial scheduled, one that shakes hands has its
\* timer armed, and it holds a socket exactly while it is up.
THEOREM LinkNeverStuck == Spec => []NeverStuck
<1>1. Init => LinkSound
  BY LinkInit
<1>2. LinkSound => NeverStuck
  BY DEF LinkSound
<1> QED
  BY <1>1, <1>2, LinkStep, PTL DEF Spec

-----------------------------------------------------------------------------
(* Who waits for whom: a joined ask waits on one that is out.                *)

FirstOwn == \A a \in Asks : status[a] # "joined" => first[a] = a
JoinsSound == FirstOwn /\ OnePromptOut

LEMMA JoinsInit == Init => JoinsSound
BY DEF Init, JoinsSound, FirstOwn, OnePromptOut, Pending

\* Settling a set of asks together with all that joined one of its waiting
\* ones leaves no joined ask behind.
LEMMA JoinsResult ==
  ASSUME TypeOK, JoinsSound, NEW S \in SUBSET Asks, NEW how \in Settled, Result(S, how),
         \A j \in Asks : status[j] = "joined" /\ first[j] \in S \cap Pending => j \in S
  PROVE  JoinsSound'
<1>1. Pending' = Pending \ S
  BY DEF Result, Pending, Settled, TypeOK
<1>2. FirstOwn'
  BY DEF Result, JoinsSound, FirstOwn, TypeOK
<1>3. ASSUME NEW a \in Asks, a \notin S PROVE Same(req[a])' = Same(req[a]) \ S
  BY <1>1, <1>3 DEF Result, Same, TypeOK, Pending
<1>4. ASSUME NEW a \in Pending' PROVE Same(req[a])' \subseteq {a}
  BY <1>1, <1>3, <1>4 DEF JoinsSound, OnePromptOut, Pending
<1>5. ASSUME NEW j \in Asks, status'[j] = "joined" PROVE first'[j] \in Same(req[j])'
  <2>1. j \notin S /\ status[j] = "joined" /\ first'[j] = first[j]
    BY <1>5 DEF Result, Settled
  <2>2. first[j] \in Same(req[j]) /\ first[j] \in Pending
    BY <2>1 DEF JoinsSound, OnePromptOut, Same
  <2> QED
    BY <1>3, <2>1, <2>2
<1> QED
  BY <1>2, <1>4, <1>5 DEF JoinsSound, OnePromptOut

\* The three ways of settling take such a set.
LEMMA SettleClosed ==
  ASSUME NEW S \in SUBSET Asks, NEW how, Settle(S, how), S \subseteq Pending
  PROVE  \E T \in SUBSET Asks :
           /\ T = S \cup Joined(S) /\ Result(T, how)
           /\ \A j \in Asks : status[j] = "joined" /\ first[j] \in T \cap Pending => j \in T
<1> DEFINE T == S \cup Joined(S)
<1>1. T \in SUBSET Asks /\ Result(T, how)
  BY DEF Settle, Joined
<1>2. T \cap Pending = S
  BY DEF Joined, Pending
<1>3. \A j \in Asks : status[j] = "joined" /\ first[j] \in T \cap Pending => j \in T
  BY <1>2 DEF Joined
<1> QED
  BY <1>1, <1>3

LEMMA DetachClosed ==
  ASSUME NEW b \in Bridges, Detach(b)
  PROVE  \E T \in SUBSET Asks :
           /\ Result(T, "refused")
           /\ T \cap Pending = {a \in Asks : req[a].bridge = b} \cap Pending
           /\ \A j \in Asks : status[j] = "joined" /\ first[j] \in T \cap Pending => j \in T
<1> DEFINE mine == {a \in Asks : req[a].bridge = b}
           out == mine \cap Pending
           T == {a \in mine : status[a] \in {"pending", "joined"}} \cup Joined(out)
<1>1. T \in SUBSET Asks /\ Result(T, "refused")
  BY DEF Detach, Joined
<1>2. T \cap Pending = out
  BY DEF Joined, Pending
<1>3. \A j \in Asks : status[j] = "joined" /\ first[j] \in T \cap Pending => j \in T
  BY <1>2 DEF Joined
<1> QED
  BY <1>1, <1>2, <1>3

LEMMA JoinsAsked == ASSUME TypeOK, JoinsSound, Asked PROVE JoinsSound'
<1>1. PICK a \in Asks, r \in Requests : AskRefused(a, r) \/ AskJoins(a, r) \/ AskQueued(a, r)
  BY DEF Asked
<1>2. CASE AskRefused(a, r)
  <2>1. Pending' = Pending
    BY <1>2 DEF AskRefused, Pending, TypeOK
  <2>2. FirstOwn'
    BY <1>2 DEF AskRefused, FirstOwn, JoinsSound, TypeOK
  <2>3. \A j \in Asks : status'[j] = "joined" => status[j] = "joined"
    BY <1>2 DEF AskRefused, TypeOK
  <2> QED
    BY <1>2, <2>1, <2>2, <2>3 DEF AskRefused, JoinsSound, OnePromptOut, Same
<1>3. CASE AskJoins(a, r)
  <2>1. PICK f \in Same(r) : first' = [first EXCEPT ![a] = f]
    BY <1>3 DEF AskJoins
  <2>2. Pending' = Pending /\ a \notin Pending
    BY <1>3 DEF AskJoins, Pending, TypeOK
  <2>3. \A p \in Pending : req'[p] = req[p]
    BY <1>3, <2>2 DEF AskJoins, Pending, TypeOK
  <2>4. \A q : Same(q)' = Same(q)
    BY <2>2, <2>3 DEF Same
  <2>5. FirstOwn'
    BY <1>3, <2>1 DEF AskJoins, FirstOwn, JoinsSound, TypeOK
  <2>6. \A p \in Pending' : Same(req[p])' \subseteq {p}
    BY <2>2, <2>3, <2>4 DEF JoinsSound, OnePromptOut, Same
  <2>7. ASSUME NEW j \in Asks, status'[j] = "joined" PROVE first'[j] \in Same(req[j])'
    BY <1>3, <2>1, <2>2, <2>3, <2>4, <2>7 DEF AskJoins, JoinsSound, OnePromptOut, Same, TypeOK
  <2> QED
    BY <2>5, <2>6, <2>7 DEF JoinsSound, OnePromptOut
<1>4. CASE AskQueued(a, r)
  <2>1. Pending' = Pending \cup {a} /\ a \notin Pending /\ Same(r) = {}
    BY <1>4 DEF AskQueued, Pending, TypeOK
  <2>2. req'[a] = r /\ \A p \in Asks : p # a => req'[p] = req[p]
    BY <1>4 DEF AskQueued, TypeOK
  <2>3. FirstOwn'
    BY <1>4 DEF AskQueued, FirstOwn, JoinsSound, TypeOK
  <2>4. ASSUME NEW p \in Pending' PROVE Same(req[p])' \subseteq {p}
    <3>1. ASSUME NEW q \in Same(req[p])', q # p PROVE FALSE
      <4>1. q \in Pending' /\ req'[p].cls = "page" /\ req'[q].cls = "page"
            /\ SessionOf[req'[q].bridge] = SessionOf[req'[p].bridge]
            /\ req'[q].text = req'[p].text
        BY <3>1 DEF Same
      <4>2. CASE p = a
        <5>1. q \in Pending /\ req'[q] = req[q] /\ req'[p] = r
          BY <4>1, <4>2, <3>1, <2>1, <2>2 DEF Pending
        <5>2. q \in Same(r)
          BY <4>1, <5>1 DEF Same
        <5> QED
          BY <5>2, <2>1
      <4>3. CASE q = a
        <5>1. p \in Pending /\ req'[p] = req[p] /\ req'[q] = r
          BY <4>3, <3>1, <2>1, <2>2, <2>4 DEF Pending
        <5>2. p \in Same(r)
          BY <4>1, <5>1 DEF Same
        <5> QED
          BY <5>2, <2>1
      <4>4. CASE p # a /\ q # a
        <5>1. p \in Pending /\ q \in Pending /\ req'[p] = req[p] /\ req'[q] = req[q]
          BY <4>4, <4>1, <2>1, <2>2, <2>4 DEF Pending
        <5>2. q \in Same(req[p])
          BY <4>1, <5>1 DEF Same
        <5> QED
          BY <5>1, <5>2, <3>1 DEF JoinsSound, OnePromptOut
      <4> QED
        BY <4>2, <4>3, <4>4
    <3> QED
      BY <3>1
  <2>5. ASSUME NEW j \in Asks, status'[j] = "joined" PROVE first'[j] \in Same(req[j])'
    <3>1. j # a /\ status[j] = "joined" /\ first'[j] = first[j]
      BY <1>4, <2>5 DEF AskQueued, TypeOK
    <3>2. first[j] \in Same(req[j])
      BY <3>1 DEF JoinsSound, OnePromptOut
    <3>3. first[j] \in Pending /\ first[j] # a /\ first[j] \in Asks
      BY <3>2, <2>1 DEF Same, Pending
    <3>4. req'[first[j]] = req[first[j]] /\ req'[j] = req[j] /\ first[j] \in Pending'
      BY <3>1, <3>3, <2>1, <2>2
    <3> QED
      BY <3>1, <3>2, <3>4 DEF Same
  <2> QED
    BY <2>3, <2>4, <2>5 DEF JoinsSound, OnePromptOut
<1> QED
  BY <1>1, <1>2, <1>3, <1>4

\* Asks are touched by the asking, the settling, and by nothing of the link.
LEMMA LinkedKeepsAsks == ASSUME Linked \/ OnReady PROVE UNCHANGED asked
BY DEF Linked, OnReady, Dials, Connect, HandshakeTimeout, SockClose, OnUnexpected, OnOversized,
       OnWelcome

LEMMA JoinsStep == TypeOK /\ JoinsSound /\ [Next]_vars => JoinsSound'
<1> SUFFICES ASSUME TypeOK, JoinsSound, [Next]_vars PROVE JoinsSound'
  OBVIOUS
<1>1. CASE Asked
  BY <1>1, JoinsAsked
<1>2. CASE \E a \in Asks : Timeout(a)
  <2>1. PICK a \in Asks : Timeout(a)
    BY <1>2
  <2>2. Settle({a}, "refused") /\ {a} \subseteq Pending /\ {a} \in SUBSET Asks
    BY <2>1 DEF Timeout, Pending
  <2> QED
    BY <2>2, SettleClosed, JoinsResult DEF Settled
<1>3. CASE \E b \in Bridges : Detach(b)
  BY <1>3, DetachClosed, JoinsResult DEF Settled
<1>4. CASE Close
  <2>1. Settle(Pending, "refused") /\ Pending \in SUBSET Asks
    BY <1>4 DEF Close, Pending
  <2> QED
    BY <2>1, SettleClosed, JoinsResult DEF Settled
<1>5. CASE \E a \in Asks, d \in {"approved", "denied"} : OnAnswer(a, d)
  <2>1. PICK a \in Asks, d \in {"approved", "denied"} : OnAnswer(a, d)
    BY <1>5
  <2>2. Settle({a}, d) /\ {a} \subseteq Pending /\ {a} \in SUBSET Asks /\ d \in Settled
    BY <2>1 DEF OnAnswer, Pending, Settled
  <2> QED
    BY <2>2, SettleClosed, JoinsResult
<1>6. CASE UNCHANGED asked
  BY <1>6 DEF asked, JoinsSound, FirstOwn, OnePromptOut, Pending, Same
<1>7. Linked \/ OnReady \/ UNCHANGED vars => UNCHANGED asked
  BY LinkedKeepsAsks DEF vars
<1> QED
  BY <1>1, <1>2, <1>3, <1>4, <1>5, <1>6, <1>7, NextCases

\* A page prompt is out once per session, and a joined caller waits on a
\* request that is out (dedupeKey, #join, settle): nobody is left behind.
THEOREM PromptsOnce == Spec => []OnePromptOut
<1>1. Init => TypeOK /\ JoinsSound
  BY TypeInit, JoinsInit
<1>2. TypeOK /\ JoinsSound /\ [Next]_vars => (TypeOK /\ JoinsSound)'
  BY TypeStep, JoinsStep
<1>3. JoinsSound => OnePromptOut
  BY DEF JoinsSound
<1> QED
  BY <1>1, <1>2, <1>3, PTL DEF Spec

-----------------------------------------------------------------------------
(* After the close nobody waits.                                             *)

LEMMA ClosedStep ==
  TypeOK /\ JoinsSound /\ ClosedRefusesAll /\ [Next]_vars => ClosedRefusesAll'
<1> SUFFICES ASSUME TypeOK, JoinsSound, ClosedRefusesAll, [Next]_vars PROVE ClosedRefusesAll'
  OBVIOUS
<1>1. CASE Asked
  <2>1. PICK a \in Asks, r \in Requests : AskRefused(a, r) \/ AskJoins(a, r) \/ AskQueued(a, r)
    BY <1>1 DEF Asked
  <2>2. CASE AskRefused(a, r)
    BY <2>2 DEF AskRefused, ClosedRefusesAll, TypeOK
  <2>3. CASE AskJoins(a, r)
    BY <2>3 DEF AskJoins, ClosedRefusesAll
  <2>4. CASE AskQueued(a, r)
    BY <2>4 DEF AskQueued, ClosedRefusesAll
  <2> QED
    BY <2>1, <2>2, <2>3, <2>4
<1>2. CASE \E a \in Asks : Timeout(a)
  BY <1>2 DEF Timeout, Settle, Result, ClosedRefusesAll
<1>3. CASE \E b \in Bridges : Detach(b)
  BY <1>3 DEF Detach, Result, ClosedRefusesAll
<1>4. CASE Close
  <2>1. \A j \in Asks : status[j] = "joined" => first[j] \in Pending
    BY DEF JoinsSound, OnePromptOut, Same
  <2>2. \A a \in Asks : status[a] \in {"pending", "joined"} => a \in Pending \cup Joined(Pending)
    BY <2>1 DEF Pending, Joined
  <2> QED
    BY <1>4, <2>2 DEF Close, Settle, Result, ClosedRefusesAll
<1>5. CASE Linked
  BY <1>5, LinkedKeepsAsks DEF Linked, Dials, Connect, HandshakeTimeout, SockClose, OnUnexpected,
     OnOversized, OnWelcome, ClosedRefusesAll, asked
<1>6. CASE OnReady
  BY <1>6 DEF OnReady, ClosedRefusesAll
<1>7. CASE \E a \in Asks, d \in {"approved", "denied"} : OnAnswer(a, d)
  BY <1>7 DEF OnAnswer, ClosedRefusesAll
<1>8. CASE UNCHANGED vars
  BY <1>8 DEF vars, conn, asked, ClosedRefusesAll
<1> QED
  BY <1>1, <1>2, <1>3, <1>4, <1>5, <1>6, <1>7, <1>8, NextCases

\* close() leaves nobody waiting, and nobody begins to wait after it.
THEOREM CloseIsFinal == Spec => []ClosedRefusesAll
<1>1. Init => TypeOK /\ JoinsSound /\ ClosedRefusesAll
  BY TypeInit, JoinsInit DEF Init, ClosedRefusesAll
<1>2. TypeOK /\ JoinsSound /\ ClosedRefusesAll /\ [Next]_vars
        => (TypeOK /\ JoinsSound /\ ClosedRefusesAll)'
  BY TypeStep, JoinsStep, ClosedStep
<1> QED
  BY <1>1, <1>2, PTL DEF Spec

-----------------------------------------------------------------------------
(* What the daemon was sent.                                                 *)

CardsSound ==
  /\ link \in {"hello", "auth"} => cards = {}
  /\ DaemonInSync
  /\ \A a \in cards : status[a] # "new"
  /\ known \subseteq Pending
  /\ cards \cap Pending \subseteq known

LEMMA CardsInit == Init => CardsSound
BY DEF Init, CardsSound, DaemonInSync

\* Settling and withdrawing the same waiting requests keeps both in step.
LEMMA CardsResolved ==
  ASSUME TypeOK, CardsSound, NEW T \in SUBSET Asks, NEW how \in Settled, Result(T, how),
         SendResolved(T \cap Pending), UNCHANGED <<link, peer>>, sock' \in {sock, "destroyed"}
  PROVE  CardsSound'
<1>1. Pending' = Pending \ T
  BY DEF Result, Pending, Settled, TypeOK
<1>2. known' = known \ (T \cap Pending) /\ cards' \in {cards, cards \ (T \cap Pending)}
      /\ (sock = "open" => cards' = cards \ (T \cap Pending))
  BY DEF SendResolved
<1>3. \A a \in Asks : status[a] # "new" => status'[a] # "new"
  BY DEF Result, Settled
<1>4. cards \subseteq Asks
  BY DEF TypeOK
<1>5. known' \subseteq Pending' /\ cards' \cap Pending' \subseteq known'
  BY <1>1, <1>2 DEF CardsSound
<1>6. DaemonInSync'
  BY <1>1, <1>2 DEF CardsSound, DaemonInSync
<1> QED
  BY <1>2, <1>3, <1>4, <1>5, <1>6 DEF CardsSound

LEMMA CardsAsked == ASSUME TypeOK, LinkSound, CardsSound, Asked PROVE CardsSound'
<1>1. PICK a \in Asks, r \in Requests : AskRefused(a, r) \/ AskJoins(a, r) \/ AskQueued(a, r)
  BY DEF Asked
<1>2. CASE AskRefused(a, r) \/ AskJoins(a, r)
  <2>1. Pending' = Pending
    BY <1>2 DEF AskRefused, AskJoins, Pending, TypeOK
  <2>2. \A x \in Asks : status[x] # "new" => status'[x] # "new"
    BY <1>2 DEF AskRefused, AskJoins, TypeOK
  <2>3. UNCHANGED <<link, sock, cards, known>> /\ cards \subseteq Asks
    BY <1>2 DEF AskRefused, AskJoins, wire, TypeOK
  <2> QED
    BY <2>1, <2>2, <2>3 DEF CardsSound, DaemonInSync
<1>3. CASE AskQueued(a, r)
  <2>1. Pending' = Pending \cup {a} /\ a \notin Pending
    BY <1>3 DEF AskQueued, Pending, TypeOK
  <2>2. \A x \in Asks : status[x] # "new" => status'[x] # "new"
    BY <1>3 DEF AskQueued, TypeOK
  <2>3. status'[a] # "new" /\ a \notin cards
    BY <1>3 DEF AskQueued, CardsSound, TypeOK
  <2>4. UNCHANGED <<link, sock>> /\ cards \subseteq Asks
    BY <1>3 DEF AskQueued, TypeOK
  <2>5. CASE link = "ready" /\ sock = "open"
    <3>1. Proven
      BY <2>5 DEF Proven, LinkSound, PastHello
    <3>2. cards' = cards \cup {a} /\ known' = known \cup {a}
      BY <1>3, <2>5, <3>1 DEF AskQueued, SendRequests
    <3> QED
      BY <2>1, <2>2, <2>3, <2>4, <2>5, <3>2 DEF CardsSound, DaemonInSync
  <2>6. CASE ~(link = "ready" /\ sock = "open")
    <3>1. UNCHANGED <<cards, known>>
      BY <1>3, <2>6 DEF AskQueued, SendRequests, wire
    <3> QED
      BY <2>1, <2>2, <2>3, <2>4, <2>6, <3>1 DEF CardsSound, DaemonInSync
  <2> QED
    BY <2>5, <2>6
<1> QED
  BY <1>1, <1>2, <1>3

LEMMA CardsLinked == ASSUME LinkSound, CardsSound, Linked PROVE CardsSound'
<1> USE DEF CardsSound, DaemonInSync, Pending, asked, wire
<1>1. CASE Dials
  BY <1>1 DEF Dials, Connect
<1>2. CASE HandshakeTimeout
  BY <1>2 DEF HandshakeTimeout
<1>3. CASE SockClose
  BY <1>3 DEF SockClose
<1>4. CASE OnUnexpected
  BY <1>4 DEF OnUnexpected
<1>5. CASE OnOversized
  BY <1>5 DEF OnOversized
<1>6. CASE OnWelcome
  BY <1>6 DEF OnWelcome
<1> QED
  BY <1>1, <1>2, <1>3, <1>4, <1>5, <1>6 DEF Linked

LEMMA CardsReady == ASSUME TypeOK, LinkSound, CardsSound, OnReady PROVE CardsSound'
<1>1. Proven /\ cards = {} /\ SendRequests(Pending)
  BY DEF OnReady, Proven, LinkSound, PastHello, CardsSound
<1>2. Pending' = Pending /\ UNCHANGED <<status, sock>> /\ link' = "ready"
  BY DEF OnReady, asked, Pending
<1>3. \/ sock = "open" /\ cards' = Pending /\ known' = known \cup Pending
      \/ sock # "open" /\ cards' = {} /\ known' = known
  BY <1>1 DEF SendRequests
<1> QED
  BY <1>2, <1>3 DEF CardsSound, DaemonInSync, Pending

LEMMA CardsStep ==
  TypeOK /\ LinkSound /\ JoinsSound /\ CardsSound /\ [Next]_vars => CardsSound'
<1> SUFFICES ASSUME TypeOK, LinkSound, JoinsSound, CardsSound, [Next]_vars PROVE CardsSound'
  OBVIOUS
<1>1. CASE Asked
  BY <1>1, CardsAsked
<1>2. ASSUME NEW a \in Asks, NEW d \in Settled, a \in Pending, Settle({a}, d), SendResolved({a}),
             UNCHANGED <<link, peer, sock>>
      PROVE  CardsSound'
  <2>1. PICK T \in SUBSET Asks : T = {a} \cup Joined({a}) /\ Result(T, d)
    BY <1>2, SettleClosed
  <2>2. T \cap Pending = {a}
    BY <1>2, <2>1 DEF Joined, Pending
  <2> QED
    BY <1>2, <2>1, <2>2, CardsResolved
<1>3. CASE \E a \in Asks : Timeout(a)
  BY <1>2, <1>3 DEF Timeout, Pending, Settled
<1>4. CASE \E b \in Bridges : Detach(b)
  <2>1. PICK b \in Bridges : Detach(b)
    BY <1>4
  <2>2. PICK T \in SUBSET Asks : Result(T, "refused")
              /\ T \cap Pending = {a \in Asks : req[a].bridge = b} \cap Pending
    BY <2>1, DetachClosed
  <2>3. SendResolved(T \cap Pending) /\ UNCHANGED <<link, peer, sock>>
    BY <2>1, <2>2 DEF Detach
  <2> QED
    BY <2>2, <2>3, CardsResolved DEF Settled
<1>5. CASE Close
  BY <1>5 DEF Close, CardsSound, DaemonInSync
<1>6. CASE Linked
  BY <1>6, CardsLinked
<1>7. CASE OnReady
  BY <1>7, CardsReady
<1>8. CASE \E a \in Asks, d \in {"approved", "denied"} : OnAnswer(a, d)
  BY <1>2, <1>8 DEF OnAnswer, Pending, Settled
<1>9. CASE UNCHANGED vars
  BY <1>9 DEF vars, conn, asked, wire, CardsSound, DaemonInSync, Pending
<1> QED
  BY <1>1, <1>3, <1>4, <1>5, <1>6, <1>7, <1>8, <1>9, NextCases

ChannelInv == TypeOK /\ LinkSound /\ JoinsSound /\ CardsSound

LEMMA ChannelInvariant == Spec => []ChannelInv
<1>1. Init => ChannelInv
  BY TypeInit, LinkInit, JoinsInit, CardsInit DEF ChannelInv
<1>2. ChannelInv /\ [Next]_vars => ChannelInv'
  BY TypeStep, LinkStep, JoinsStep, CardsStep DEF ChannelInv
<1> QED
  BY <1>1, <1>2, PTL DEF Spec

\* While the link is up the daemon shows exactly the requests that wait.
THEOREM ChannelInSync == Spec => []DaemonInSync
<1>1. ChannelInv => DaemonInSync
  BY DEF ChannelInv, CardsSound
<1> QED
  BY <1>1, ChannelInvariant, PTL

\* Only a request a proven daemon was sent, or one that joined it, is ever
\* approved or denied; every other way of settling refuses.
LEMMA DecidedStep ==
  ASSUME ChannelInv, [Next]_vars, NEW x \in Asks,
         status'[x] \in {"approved", "denied"}, status[x] \notin Settled
  PROVE  peer = "daemon" /\ first[x] \in known
<1>1. \/ status' = status
      \/ \E a \in Asks, d \in {"approved", "denied"} : OnAnswer(a, d)
  <2>1. ~Asked
    BY DEF Asked, AskRefused, AskJoins, AskQueued, ChannelInv, TypeOK, Settled
  <2>2. ~(\E a \in Asks : Timeout(a))
    BY DEF Timeout, Settle, Result, Settled
  <2>3. ~(\E b \in Bridges : Detach(b))
    BY DEF Detach, Result, Settled
  <2>4. ~Close
    BY DEF Close, Settle, Result, Settled
  <2>5. Linked \/ OnReady \/ UNCHANGED vars => status' = status
    BY LinkedKeepsAsks DEF vars, asked
  <2> QED
    BY <2>1, <2>2, <2>3, <2>4, <2>5, NextCases
<1>2. PICK a \in Asks, d \in {"approved", "denied"} : OnAnswer(a, d)
  BY <1>1 DEF Settled
<1>3. a \in known /\ peer = "daemon"
  BY <1>2 DEF OnAnswer, ChannelInv, CardsSound, LinkSound, PastHello, Pending
<1>4. x = a \/ (status[x] = "joined" /\ first[x] = a)
  BY <1>2 DEF OnAnswer, Settle, Result, Joined, Settled
<1>5. status[a] = "pending"
  BY <1>2 DEF OnAnswer
<1> QED
  BY <1>3, <1>4, <1>5 DEF ChannelInv, JoinsSound, FirstOwn

THEOREM DaemonDecides == Spec => DecidedByDaemon
<1>1. ChannelInv /\ [Next]_vars =>
        [\A a \in Asks :
           status'[a] \in {"approved", "denied"} /\ status[a] \notin Settled =>
             peer = "daemon" /\ first[a] \in known]_vars
  BY DecidedStep
<1> QED
  BY <1>1, ChannelInvariant, PTL DEF Spec, DecidedByDaemon

-----------------------------------------------------------------------------
(* The limits.                                                               *)

LEMMA PendingFinite ==
  /\ IsFiniteSet(Pending)
  /\ \A S : S \subseteq Pending => IsFiniteSet(S) /\ Cardinality(S) \in Nat
BY AsksAssumption, FS_Subset, FS_CardinalityType DEF Pending

\* Fewer wait: no share is exceeded that was not.
LEMMA FewerWait ==
  ASSUME WithinLimits, Pending' \subseteq Pending, \A a \in Pending' : req'[a] = req[a]
  PROVE  WithinLimits'
<1>1. ASSUME NEW cls \in Classes
      PROVE  /\ Cardinality(InClass(cls))' <= ClassLimit[cls]
             /\ \A b \in Bridges :
                  Cardinality(InSession(cls, SessionOf[b]))' <= SessionLimit[cls]
  <2>1. InClass(cls)' \subseteq InClass(cls) /\ InClass(cls) \subseteq Pending
    BY DEF InClass
  <2>2. Cardinality(InClass(cls)') <= Cardinality(InClass(cls))
    BY <2>1, FS_Subset, PendingFinite
  <2>3. ASSUME NEW b \in Bridges
        PROVE  Cardinality(InSession(cls, SessionOf[b])') <= SessionLimit[cls]
    <3>1. /\ InSession(cls, SessionOf[b])' \subseteq InSession(cls, SessionOf[b])
          /\ InSession(cls, SessionOf[b]) \subseteq Pending
      BY DEF InSession, InClass
    <3>2. Cardinality(InSession(cls, SessionOf[b])') <= Cardinality(InSession(cls, SessionOf[b]))
      BY <3>1, FS_Subset, PendingFinite
    <3>3. /\ Cardinality(InSession(cls, SessionOf[b])') \in Nat
          /\ Cardinality(InSession(cls, SessionOf[b])) \in Nat /\ SessionLimit[cls] \in Nat
      <4>1. IsFiniteSet(InSession(cls, SessionOf[b])')
        BY <3>1, PendingFinite, FS_Subset
      <4> QED
        BY <4>1, <3>1, PendingFinite, FS_CardinalityType, LimitAssumption
    <3> QED
      BY <3>2, <3>3 DEF WithinLimits
  <2>4. /\ Cardinality(InClass(cls)') \in Nat /\ Cardinality(InClass(cls)) \in Nat
        /\ ClassLimit[cls] \in Nat
    <3>1. IsFiniteSet(InClass(cls)')
      BY <2>1, PendingFinite, FS_Subset
    <3> QED
      BY <3>1, <2>1, PendingFinite, FS_CardinalityType, LimitAssumption
  <2>5. Cardinality(InClass(cls)) <= ClassLimit[cls]
    BY DEF WithinLimits
  <2>6. Cardinality(InClass(cls)') <= ClassLimit[cls]
    BY <2>2, <2>4, <2>5
  <2> QED
    BY <2>3, <2>6
<1> QED
  BY <1>1 DEF WithinLimits

\* One more waits, and its class and session had room for it.
LEMMA OneMoreWaits ==
  ASSUME TypeOK, WithinLimits, NEW a \in Asks, NEW r \in Requests, AskQueued(a, r)
  PROVE  WithinLimits'
<1>1. Pending' = Pending \cup {a} /\ a \notin Pending
  BY DEF AskQueued, Pending, TypeOK
<1>2. req'[a] = r /\ \A p \in Pending : req'[p] = req[p]
  BY <1>1 DEF AskQueued, TypeOK, Pending
<1>3. RoomInClass(r) /\ RoomInSession(r)
  BY DEF AskQueued, HasRoom
<1>4. ASSUME NEW cls \in Classes PROVE Cardinality(InClass(cls)') <= ClassLimit[cls]
  <2>1. InClass(cls) \subseteq Pending
    BY DEF InClass
  <2>2. /\ IsFiniteSet(InClass(cls)) /\ Cardinality(InClass(cls)) \in Nat
        /\ Cardinality(InClass(cls)) <= ClassLimit[cls] /\ ClassLimit[cls] \in Nat
    BY <2>1, PendingFinite, LimitAssumption DEF WithinLimits
  <2>3. CASE cls # r.cls
    <3>1. InClass(cls)' = InClass(cls)
      BY <1>1, <1>2, <2>3 DEF InClass
    <3> QED
      BY <2>2, <3>1
  <2>4. CASE cls = r.cls
    <3>1. InClass(cls)' = InClass(cls) \cup {a} /\ a \notin InClass(cls)
      BY <1>1, <1>2, <2>4 DEF InClass
    <3>2. Cardinality(InClass(cls)') = Cardinality(InClass(cls)) + 1
      BY <2>2, <3>1, FS_AddElement
    <3>3. Cardinality(InClass(cls)) < ClassLimit[cls]
      BY <1>3, <2>4 DEF RoomInClass
    <3> QED
      BY <2>2, <3>2, <3>3
  <2> QED
    BY <2>3, <2>4
<1>5. ASSUME NEW cls \in Classes, NEW b \in Bridges
      PROVE  Cardinality(InSession(cls, SessionOf[b])') <= SessionLimit[cls]
  <2> DEFINE s == SessionOf[b]
  <2>1. InSession(cls, s) \subseteq Pending
    BY DEF InSession, InClass
  <2>2. /\ IsFiniteSet(InSession(cls, s)) /\ Cardinality(InSession(cls, s)) \in Nat
        /\ Cardinality(InSession(cls, s)) <= SessionLimit[cls] /\ SessionLimit[cls] \in Nat
    BY <2>1, PendingFinite, LimitAssumption DEF WithinLimits
  <2>3. CASE ~(cls = r.cls /\ s = SessionOf[r.bridge])
    <3>1. InSession(cls, s)' = InSession(cls, s)
      BY <1>1, <1>2, <2>3 DEF InSession, InClass
    <3> QED
      BY <2>2, <3>1
  <2>4. CASE cls = r.cls /\ s = SessionOf[r.bridge]
    <3>1. InSession(cls, s)' = InSession(cls, s) \cup {a} /\ a \notin InSession(cls, s)
      BY <1>1, <1>2, <2>4 DEF InSession, InClass
    <3>2. Cardinality(InSession(cls, s)') = Cardinality(InSession(cls, s)) + 1
      BY <2>2, <3>1, FS_AddElement
    <3>3. Cardinality(InSession(cls, s)) < SessionLimit[cls]
      BY <1>3, <2>4 DEF RoomInSession
    <3> QED
      BY <2>2, <3>2, <3>3
  <2> QED
    BY <2>3, <2>4
<1> QED
  BY <1>4, <1>5 DEF WithinLimits

LEMMA ResultFewer ==
  ASSUME TypeOK, NEW S \in SUBSET Asks, NEW how \in Settled, Result(S, how)
  PROVE  Pending' \subseteq Pending /\ \A a \in Pending' : req'[a] = req[a]
BY DEF Result, Pending, Settled, TypeOK

LEMMA LimitsStep ==
  TypeOK /\ WithinLimits /\ [Next]_vars => WithinLimits'
<1> SUFFICES ASSUME TypeOK, WithinLimits, [Next]_vars PROVE WithinLimits'
  OBVIOUS
<1>1. CASE Asked
  <2>1. PICK a \in Asks, r \in Requests : AskRefused(a, r) \/ AskJoins(a, r) \/ AskQueued(a, r)
    BY <1>1 DEF Asked
  <2>2. CASE AskRefused(a, r) \/ AskJoins(a, r)
    <3>1. Pending' = Pending /\ \A p \in Pending' : req'[p] = req[p]
      BY <2>2 DEF AskRefused, AskJoins, Pending, TypeOK
    <3> QED
      BY <3>1, FewerWait
  <2> QED
    BY <2>1, <2>2, OneMoreWaits
<1>2. ASSUME NEW S \in SUBSET Asks, NEW how \in Settled, Settle(S, how) PROVE WithinLimits'
  <2>1. S \cup Joined(S) \in SUBSET Asks /\ Result(S \cup Joined(S), how)
    BY <1>2 DEF Settle, Joined
  <2> QED
    BY <2>1, ResultFewer, FewerWait
<1>3. CASE \E a \in Asks : Timeout(a)
  BY <1>2, <1>3 DEF Timeout, Settled
<1>4. CASE \E b \in Bridges : Detach(b)
  BY <1>4, DetachClosed, ResultFewer, FewerWait DEF Settled
<1>5. CASE Close
  BY <1>2, <1>5 DEF Close, Settled, Pending
<1>6. CASE \E a \in Asks, d \in {"approved", "denied"} : OnAnswer(a, d)
  BY <1>2, <1>6 DEF OnAnswer, Settled
<1>7. CASE UNCHANGED asked
  BY <1>7, FewerWait DEF asked, Pending
<1>8. Linked \/ OnReady \/ UNCHANGED vars => UNCHANGED asked
  BY LinkedKeepsAsks DEF vars
<1> QED
  BY <1>1, <1>3, <1>4, <1>5, <1>6, <1>7, <1>8, NextCases

\* The shares of a class and of a session hold (CLASS_LIMIT, SESSION_LIMIT).
THEOREM SharesHold == Spec => []WithinLimits
<1>1. Init => WithinLimits
  <2> SUFFICES ASSUME Init PROVE WithinLimits
    OBVIOUS
  <2>1. \A cls, s : InClass(cls) = {} /\ InSession(cls, s) = {}
    BY DEF Init, InClass, InSession, Pending
  <2>2. \A cls \in Classes : ClassLimit[cls] \in Nat /\ SessionLimit[cls] \in Nat
    BY LimitAssumption
  <2> QED
    BY <2>1, <2>2, FS_EmptySet DEF WithinLimits
<1>2. Init => TypeOK
  BY TypeInit
<1> QED
  BY <1>1, <1>2, TypeStep, LimitsStep, PTL DEF Spec

\* What makes it fair: the classes partition those that wait, and their shares
\* add up to no more than the total.
LEMMA SharesSuffice == TypeOK /\ WithinLimits => NoStarvation
<1> SUFFICES ASSUME TypeOK, WithinLimits, NEW r \in Requests, RoomInClass(r)
             PROVE  RoomInTotal
  BY DEF NoStarvation
<1> DEFINE H == InClass("hook")  M == InClass("human")  P == InClass("page")
<1>1. Pending = H \cup M \cup P
  BY DEF InClass, Pending, TypeOK, Requests, NoRequest
<1>2. /\ IsFiniteSet(H) /\ IsFiniteSet(M) /\ IsFiniteSet(P)
      /\ Cardinality(H) \in Nat /\ Cardinality(M) \in Nat /\ Cardinality(P) \in Nat
  BY PendingFinite DEF InClass
<1>3. Cardinality(H \cup M) <= Cardinality(H) + Cardinality(M)
  <2>1. IsFiniteSet(H \cap M) /\ Cardinality(H \cap M) \in Nat
    BY PendingFinite DEF InClass
  <2> HIDE DEF H, M
  <2>2. Cardinality(H \cup M) = Cardinality(H) + Cardinality(M) - Cardinality(H \cap M)
    BY <1>2, FS_Union
  <2> QED
    BY <1>2, <2>1, <2>2
<1>4. IsFiniteSet(H \cup M) /\ Cardinality(H \cup M) \in Nat
  BY PendingFinite DEF InClass
<1>5. Cardinality(Pending) <= Cardinality(H \cup M) + Cardinality(P)
  <2>1. IsFiniteSet((H \cup M) \cap P) /\ Cardinality((H \cup M) \cap P) \in Nat
    BY PendingFinite DEF InClass
  <2> DEFINE HM == H \cup M
  <2>2. Pending = HM \cup P
    BY <1>1
  <2> HIDE DEF H, M, P, HM
  <2>3. Cardinality(HM \cup P) = Cardinality(HM) + Cardinality(P) - Cardinality(HM \cap P)
    BY <1>2, <1>4, FS_Union DEF HM
  <2> QED
    BY <1>2, <1>4, <2>1, <2>2, <2>3 DEF HM
<1>6. /\ Cardinality(H) <= ClassLimit["hook"] /\ Cardinality(M) <= ClassLimit["human"]
      /\ Cardinality(P) <= ClassLimit["page"]
  BY DEF WithinLimits, Classes
<1>7. r.cls \in Classes /\ Cardinality(InClass(r.cls)) < ClassLimit[r.cls]
  BY DEF RoomInClass, Requests, Classes
<1>8. \/ Cardinality(H) < ClassLimit["hook"]
      \/ Cardinality(M) < ClassLimit["human"]
      \/ Cardinality(P) < ClassLimit["page"]
  BY <1>7 DEF Classes
<1>9. /\ ClassLimit["hook"] \in Nat /\ ClassLimit["human"] \in Nat /\ ClassLimit["page"] \in Nat
      /\ MaxPending \in Nat
      /\ ClassLimit["hook"] + ClassLimit["human"] + ClassLimit["page"] <= MaxPending
  BY LimitAssumption DEF Classes
<1>10. Cardinality(Pending) \in Nat
  BY PendingFinite
<1> HIDE DEF H, M, P
<1> QED
  BY <1>2, <1>3, <1>4, <1>5, <1>6, <1>8, <1>9, <1>10 DEF RoomInTotal

\* The cap on the total never refuses a request its own class has room for:
\* page prompts cannot crowd out the hooks, whatever the numbers are.
THEOREM NobodyStarves == Spec => []NoStarvation
BY ChannelTypeOK, SharesHold, SharesSuffice, PTL

-----------------------------------------------------------------------------
(* The channel implements HumanAnswer: every step is an asking, a settling   *)
(* of some that waited, or changes no fate.                                  *)

Fate == [a \in Asks |->
          CASE status[a] = "new" -> "unasked"
            [] status[a] \in {"pending", "joined"} -> "waiting"
            [] OTHER -> status[a]]

LEMMA FateIsHuman ==
  /\ Human!Init <=> Fate = [a \in Asks |-> "unasked"]
  /\ \A a \in Asks, f \in {"waiting", "refused"} :
       Fate[a] = "unasked" /\ Fate' = [Fate EXCEPT ![a] = f] => Human!Raise(a)
  /\ \A S \in SUBSET Asks, f \in Settled :
       /\ S # {} /\ \A a \in S : Fate[a] = "waiting"
       /\ Fate' = [a \in Asks |-> IF a \in S THEN f ELSE Fate[a]]
       => \E a \in Asks : Human!SettleOne(a)
<1>1. Human!Init <=> Fate = [a \in Asks |-> "unasked"]
  BY DEF Human!Init, Fate
<1>2. ASSUME NEW a \in Asks, NEW f \in {"waiting", "refused"},
             Fate[a] = "unasked", Fate' = [Fate EXCEPT ![a] = f]
      PROVE  Human!Raise(a)
  BY <1>2 DEF Human!Raise, Fate
<1>3. ASSUME NEW S \in SUBSET Asks, NEW f \in Settled, S # {}, \A a \in S : Fate[a] = "waiting",
             Fate' = [a \in Asks |-> IF a \in S THEN f ELSE Fate[a]]
      PROVE  \E a \in Asks : Human!SettleOne(a)
  <2>1. PICK a \in S : TRUE
    BY <1>3
  <2>2. Human!Settle(S, f)
    BY <1>3 DEF Human!Settle, Fate
  <2>3. f \in {"refused"} \cup Human!Decisions
    BY DEF Settled, Human!Decisions
  <2>4. Human!SettleOne(a)
    BY <2>1, <2>2, <2>3 DEF Human!SettleOne
  <2> QED
    BY <2>1, <2>4
<1> QED
  BY <1>1, <1>2, <1>3

\* A result settles those that waited, and leaves every other fate alone.
LEMMA ResultFate ==
  ASSUME TypeOK, NEW S \in SUBSET Asks, NEW how \in Settled, Result(S, how),
         \A a \in S : status[a] \in {"pending", "joined"}
  PROVE  (\E a \in Asks : Human!SettleOne(a)) \/ Fate' = Fate
<1>1. \A a \in S : Fate[a] = "waiting"
  BY DEF Fate
<1>2. Fate' = [a \in Asks |-> IF a \in S THEN how ELSE Fate[a]]
  BY DEF Fate, Result, Settled
<1>3. CASE S = {}
  BY <1>2, <1>3 DEF Fate
<1>4. CASE S # {}
  BY <1>1, <1>2, <1>4, FateIsHuman
<1> QED
  BY <1>3, <1>4

LEMMA HumanStep ==
  ASSUME TypeOK, [Next]_vars
  PROVE  (\E a \in Asks : Human!Raise(a) \/ Human!SettleOne(a)) \/ Fate' = Fate
<1>1. CASE Asked
  <2>1. PICK a \in Asks, r \in Requests : AskRefused(a, r) \/ AskJoins(a, r) \/ AskQueued(a, r)
    BY <1>1 DEF Asked
  <2>2. /\ status[a] = "new"
        /\ \E s \in {"refused", "joined", "pending"} : status' = [status EXCEPT ![a] = s]
    BY <2>1 DEF AskRefused, AskJoins, AskQueued
  <2>3. Fate[a] = "unasked"
    BY <2>2 DEF Fate
  <2>4. \E f \in {"waiting", "refused"} : Fate' = [Fate EXCEPT ![a] = f]
    BY <2>2 DEF Fate, TypeOK
  <2> QED
    BY <2>3, <2>4, FateIsHuman
<1>2. ASSUME NEW S \in SUBSET Pending, NEW how \in Settled, Settle(S, how)
      PROVE  (\E a \in Asks : Human!SettleOne(a)) \/ Fate' = Fate
  <2>1. /\ S \cup Joined(S) \in SUBSET Asks /\ Result(S \cup Joined(S), how)
        /\ \A a \in S \cup Joined(S) : status[a] \in {"pending", "joined"}
    BY <1>2 DEF Settle, Joined, Pending
  <2> QED
    BY <2>1, ResultFate
<1>3. CASE \E a \in Asks : Timeout(a)
  BY <1>2, <1>3 DEF Timeout, Settled, Pending
<1>4. CASE \E b \in Bridges : Detach(b)
  <2>1. PICK b \in Bridges : Detach(b)
    BY <1>4
  <2> DEFINE mine == {a \in Asks : req[a].bridge = b}
             S == {a \in mine : status[a] \in {"pending", "joined"}} \cup Joined(mine \cap Pending)
  <2>2. S \in SUBSET Asks /\ \A a \in S : status[a] \in {"pending", "joined"}
    BY DEF Joined
  <2>3. Result(S, "refused")
    BY <2>1 DEF Detach
  <2> HIDE DEF S
  <2> QED
    BY <2>2, <2>3, ResultFate DEF Settled
<1>5. CASE Close
  BY <1>2, <1>5 DEF Close, Settled
<1>6. CASE \E a \in Asks, d \in {"approved", "denied"} : OnAnswer(a, d)
  BY <1>2, <1>6 DEF OnAnswer, Settled, Pending
<1>7. CASE UNCHANGED asked
  BY <1>7 DEF asked, Fate
<1>8. Linked \/ OnReady \/ UNCHANGED vars => UNCHANGED asked
  BY LinkedKeepsAsks DEF vars
<1> QED
  BY <1>1, <1>3, <1>4, <1>5, <1>6, <1>7, <1>8, NextCases

\* The channel does nothing to a caller that HumanAnswer does not allow: a
\* request settles once, and what it settled as never changes.
THEOREM ImplementsHuman == Spec => Human!Spec
<1>1. Init => Human!Init
  BY FateIsHuman DEF Init, Fate
<1>2. TypeOK /\ [Next]_vars => [Human!Next]_Fate
  BY HumanStep DEF Human!Next
<1>3. TypeOK /\ [Next]_vars =>
        [Human!Next]_([a \in Asks |->
            CASE status[a] = "new" -> "unasked"
              [] status[a] \in {"pending", "joined"} -> "waiting"
              [] OTHER -> status[a]])
  BY <1>2 DEF Fate
<1> QED
  BY <1>1, <1>3, ChannelTypeOK, PTL DEF Spec, Human!Spec
=============================================================================

---------------------------- MODULE AddOnProofs ----------------------------
(***************************************************************************)
(* What is added to a browser and to the server.                           *)
(*                                                                         *)
(* Extensions: what holds of ExtensionsRebuild for any extensions and any  *)
(* calls, however they overlap: its types, that the session can ask a      *)
(* person, whose the browsers are, and what the agent is told.             *)
(*                                                                         *)
(* Plugins: what holds of PluginRuntime for any plugins and any manifests: *)
(* its types, the cycles the search finds (Tarjan's, for any graph), the   *)
(* load order, the refusal of cycles, what a plugin may call and whose a   *)
(* namespace is.                                                           *)
(***************************************************************************)
EXTENDS ExtensionsRebuild, PluginRuntime, FiniteSetTheorems, SequenceTheorems,
        WellFoundedInduction, TLAPS

-----------------------------------------------------------------------------
(* Extensions.                                                               *)

\* The calls that put their browser on the entry.
Spliced == {c \in Calls : pc[c] = "ok"} \cup {First}

BusySteps == {"detaching", "launching", "wiring"}

LEMMA NextCases ==
  ASSUME Next
  PROVE  \/ \E c \in Calls, o \in [do : Operations, ext : Extensions] : Refuse(c, o) \/ Start(c, o)
         \/ \E c \in Calls : CloseOld(c)
         \/ \E c \in Calls : Launch(c)
         \/ \E c \in Calls : LaunchFails(c) \/ WiringFails(c)
         \/ \E c \in Calls : Splice(c)
         \/ BeginTeardown
         \/ CloseSession
BY DEF Next, Rebuild

-----------------------------------------------------------------------------
(* Types.                                                                    *)

LEMMA AfterTypes ==
  ASSUME TypeOK, NEW o \in [do : Operations, ext : Extensions]
  PROVE  After(o) \subseteq Extensions
BY DEF TypeOK, After, Operations

LEMMA TypeStep == TypeOK /\ [Next]_vars => TypeOK'
<1> SUFFICES ASSUME TypeOK, [Next]_vars PROVE TypeOK'
  OBVIOUS
<1> USE DEF At, Goto, Answered, entry, world, Browsers
<1>1. CASE \E c \in Calls, o \in [do : Operations, ext : Extensions] : Refuse(c, o) \/ Start(c, o)
  <2>1. PICK c \in Calls, o \in [do : Operations, ext : Extensions] : Refuse(c, o) \/ Start(c, o)
    BY <1>1
  <2>2. CASE Refuse(c, o)
    BY <2>2 DEF TypeOK, Refuse
  <2>3. CASE Start(c, o)
    <3>1. After(o) \subseteq Extensions
      BY AfterTypes
    <3>2. overlapped' \in BOOLEAN
      BY <2>3, Zenon DEF Start
    <3> QED
      BY <2>3, <3>1, <3>2 DEF TypeOK, Start, Detach
  <2> QED
    BY <2>1, <2>2, <2>3
<1>2. CASE \E c \in Calls : CloseOld(c)
  BY <1>2 DEF TypeOK, CloseOld
<1>3. CASE \E c \in Calls : Launch(c)
  BY <1>3 DEF TypeOK, Launch
<1>4. CASE \E c \in Calls : LaunchFails(c) \/ WiringFails(c)
  BY <1>4 DEF TypeOK, LaunchFails, WiringFails, RollBack
<1>5. CASE \E c \in Calls : Splice(c)
  BY <1>5 DEF TypeOK, Splice
<1>6. CASE BeginTeardown
  <2>1. overlapped' \in BOOLEAN
    BY <1>6, Zenon DEF BeginTeardown
  <2> QED
    BY <1>6, <2>1 DEF TypeOK, BeginTeardown, Detach
<1>7. CASE CloseSession
  BY <1>7 DEF TypeOK, CloseSession
<1>8. CASE UNCHANGED vars
  BY <1>8 DEF TypeOK, vars
<1> QED
  BY <1>1, <1>2, <1>3, <1>4, <1>5, <1>6, <1>7, <1>8, NextCases

LEMMA TypeInit == Init => TypeOK
<1> SUFFICES ASSUME Init PROVE TypeOK
  OBVIOUS
<1>1. overlapped \in BOOLEAN
  BY Zenon DEF Init
<1> QED
  BY <1>1 DEF Init, TypeOK, Answered, Browsers

-----------------------------------------------------------------------------
(* The browsers and the bridge.                                              *)

\* The entry's bridge is its browser's; only bridges that were on the entry are
\* ever detached, and one that is, while its browser lives, belongs to a call
\* that goes on to close that browser.
BridgeSound ==
  /\ bridge = session /\ session \in Spliced /\ detached \subseteq Spliced
  /\ SessionIsOpen /\ session \in running /\ session \in detached =>
       \E c \in Calls : pc[c] = "detaching"

\* A browser is the entry's, or the only one and being wired, or stray; and when
\* nothing overlapped, a closing session has no call left.
BrowsersSound ==
  /\ \A c \in Calls : pc[c] = "wiring" => running = {c}
  /\ \A b \in running : b = session \/ (b \in Calls /\ pc[b] \in {"wiring", "failed"})
  /\ pc[Teardown] \in {"idle", "detaching", "closed"}
  /\ ~ overlapped /\ ~ SessionIsOpen => \A c \in Calls : pc[c] \notin BusySteps
  /\ ~ overlapped /\ pc[Teardown] = "closed" => session \notin running

RebuildInv == TypeOK /\ BridgeSound /\ BrowsersSound

LEMMA RebuildInit == Init => RebuildInv
BY TypeInit, CallsAssumption
   DEF Init, RebuildInv, BridgeSound, BrowsersSound, Spliced, SessionIsOpen, At, BusySteps

LEMMA NotBusy ==
  ASSUME TypeOK, pc[Teardown] \in {"idle", "detaching", "closed"}
  PROVE  ~ Busy <=> /\ \A c \in Calls : pc[c] \notin BusySteps
                    /\ pc[Teardown] # "detaching"
BY DEF TypeOK, Busy, BusySteps, Answered

LEMMA SoundStep == RebuildInv /\ [Next]_vars => BridgeSound' /\ BrowsersSound'
<1> SUFFICES ASSUME RebuildInv, [Next]_vars PROVE BridgeSound' /\ BrowsersSound'
  OBVIOUS
<1> USE CallsAssumption DEF RebuildInv, At, Goto, entry, world, SessionIsOpen, Spliced, BusySteps
<1>1. CASE \E c \in Calls, o \in [do : Operations, ext : Extensions] : Refuse(c, o) \/ Start(c, o)
  <2>1. PICK c \in Calls, o \in [do : Operations, ext : Extensions] : Refuse(c, o) \/ Start(c, o)
    BY <1>1
  <2>2. CASE Refuse(c, o)
    BY <2>2 DEF TypeOK, Refuse, BridgeSound, BrowsersSound
  <2>3. CASE Start(c, o)
    <3>1. BridgeSound'
      BY <2>3 DEF TypeOK, Start, Detach, BridgeSound
    <3>2. BrowsersSound'
      BY <2>3 DEF TypeOK, Start, Detach, BrowsersSound
    <3> QED
      BY <3>1, <3>2
  <2> QED
    BY <2>1, <2>2, <2>3
<1>2. CASE \E c \in Calls : CloseOld(c)
  <2>1. PICK c \in Calls : CloseOld(c)
    BY <1>2
  <2>2. BridgeSound'
    BY <2>1 DEF TypeOK, CloseOld, BridgeSound
  <2>3. BrowsersSound'
    BY <2>1 DEF TypeOK, CloseOld, BridgeSound, BrowsersSound
  <2> QED
    BY <2>2, <2>3
<1>3. CASE \E c \in Calls : Launch(c)
  <2>1. PICK c \in Calls : Launch(c)
    BY <1>3
  <2>2. BridgeSound'
    BY <2>1 DEF TypeOK, Launch, BridgeSound
  <2>3. BrowsersSound'
    BY <2>1 DEF TypeOK, Launch, BridgeSound, BrowsersSound
  <2> QED
    BY <2>2, <2>3
<1>4. CASE \E c \in Calls : LaunchFails(c) \/ WiringFails(c)
  <2>1. PICK c \in Calls : LaunchFails(c) \/ WiringFails(c)
    BY <1>4
  <2>2. BridgeSound'
    BY <2>1 DEF TypeOK, LaunchFails, WiringFails, BridgeSound
  <2>3. BrowsersSound'
    BY <2>1 DEF TypeOK, LaunchFails, WiringFails, BrowsersSound
  <2> QED
    BY <2>2, <2>3
<1>5. CASE \E c \in Calls : Splice(c)
  <2>1. PICK c \in Calls : Splice(c)
    BY <1>5
  <2>2. c \notin detached
    BY <2>1 DEF Splice, BridgeSound
  <2>3. BridgeSound'
    BY <2>1, <2>2 DEF TypeOK, Splice, BridgeSound
  <2>4. BrowsersSound'
    BY <2>1 DEF TypeOK, Splice, BridgeSound, BrowsersSound
  <2> QED
    BY <2>3, <2>4
<1>6. CASE BeginTeardown
  <2>1. overlapped' = (overlapped \/ ~ (\A c \in Calls : pc[c] \notin BusySteps))
    BY <1>6, NotBusy DEF BeginTeardown, BrowsersSound
  <2>2. BridgeSound'
    BY <1>6 DEF TypeOK, BeginTeardown, Detach, BridgeSound
  <2>3. BrowsersSound'
    BY <1>6, <2>1 DEF TypeOK, BeginTeardown, BrowsersSound
  <2> QED
    BY <2>2, <2>3
<1>7. CASE CloseSession
  <2>1. BridgeSound'
    BY <1>7 DEF TypeOK, CloseSession, BridgeSound
  <2>2. BrowsersSound'
    BY <1>7 DEF TypeOK, CloseSession, BridgeSound, BrowsersSound
  <2> QED
    BY <2>1, <2>2
<1>8. CASE UNCHANGED vars
  BY <1>8 DEF vars, BridgeSound, BrowsersSound
<1> QED
  BY <1>1, <1>2, <1>3, <1>4, <1>5, <1>6, <1>7, <1>8, NextCases

LEMMA RebuildInvariant == Spec => []RebuildInv
<1>1. RebuildInv /\ [Next]_vars => RebuildInv'
  BY TypeStep, SoundStep DEF RebuildInv
<1> QED
  BY <1>1, RebuildInit, PTL DEF Spec

\* However calls overlap, between them a session whose browser lives has that
\* browser's own bridge, and it listens (the splice of the rebuild).
THEOREM BridgeListens == Spec => []CanAsk
<1>1. RebuildInv => CanAsk
  BY DEF RebuildInv, BridgeSound, CanAsk, Quiet, Busy, Answered
<1> QED
  BY <1>1, RebuildInvariant, PTL

\* A browser that runs for nobody comes from a call that failed, or from one that
\* ran while the session was closing (the missing close after a failed wiring).
\* A browser that was told to close is taken to have ended, as the code takes it.
THEOREM OnlyFailuresStray == Spec => []StraysHaveFailed
<1>1. RebuildInv => StraysHaveFailed
  <2> SUFFICES ASSUME RebuildInv, Quiet, NEW b \in running
               PROVE  \/ b = session /\ SessionIsOpen
                      \/ At(b, "failed")
                      \/ overlapped /\ ~ SessionIsOpen
    BY DEF StraysHaveFailed
  <2>1. b = session \/ pc[b] = "failed"
    BY DEF RebuildInv, BrowsersSound, Quiet, Busy, Answered
  <2>2. pc[Teardown] \in {"idle", "closed"}
    BY DEF RebuildInv, BrowsersSound, Quiet, Busy, Answered
  <2>3. ~ overlapped /\ ~ SessionIsOpen => session \notin running
    BY <2>2 DEF RebuildInv, BrowsersSound, SessionIsOpen, At
  <2> QED
    BY <2>1, <2>3 DEF At
<1> QED
  BY <1>1, RebuildInvariant, PTL

-----------------------------------------------------------------------------
(* What the agent is told.                                                   *)

BusyCall(c) == pc[c] \in BusySteps

\* While nothing overlapped: one call at a time, which launches with the list as
\* it stands; the entry's browser, if it lives, has the list; and when it does
\* not, some call failed or is about to replace it.
TruthSound ==
  /\ ~ overlapped => \A c, d \in Calls : BusyCall(c) /\ BusyCall(d) => c = d
  /\ ~ overlapped => \A c \in Calls : BusyCall(c) => flags[c] = loaded
  /\ ~ overlapped => \A c \in Calls : pc[c] \in {"launching", "wiring"} => session \notin running
  /\ ~ overlapped /\ session \in running /\ (\A c \in Calls : ~ BusyCall(c))
       => flags[session] = loaded
  /\ ~ overlapped /\ SessionIsOpen /\ session \notin running
       => \E c \in Calls : pc[c] \in {"launching", "wiring", "failed"}

LEMMA TruthInit == Init => TruthSound
BY DEF Init, TruthSound, BusyCall, BusySteps, Browsers

LEMMA TruthStep == RebuildInv /\ TruthSound /\ [Next]_vars => TruthSound'
<1> SUFFICES ASSUME RebuildInv, TruthSound, [Next]_vars PROVE TruthSound'
  OBVIOUS
<1> USE CallsAssumption DEF RebuildInv, At, Goto, entry, world, SessionIsOpen, BusySteps, BusyCall
<1>1. CASE \E c \in Calls, o \in [do : Operations, ext : Extensions] : Refuse(c, o) \/ Start(c, o)
  <2>1. PICK c \in Calls, o \in [do : Operations, ext : Extensions] : Refuse(c, o) \/ Start(c, o)
    BY <1>1
  <2>2. CASE Refuse(c, o)
    BY <2>2 DEF TypeOK, Refuse, TruthSound
  <2>3. CASE Start(c, o)
    <3>1. overlapped' = (overlapped \/ ~ (\A d \in Calls : ~ BusyCall(d)))
      BY <2>3, NotBusy DEF Start, BrowsersSound
    <3>2. flags'[c] = loaded' /\ c \in Browsers
      BY <2>3 DEF TypeOK, Start, Browsers
    <3>3. \A d \in Calls : d # c => pc'[d] = pc[d]
      BY <2>3 DEF TypeOK, Start
    <3>4. pc[c] = "idle" /\ pc'[c] = "detaching" /\ UNCHANGED <<session, running>>
          /\ pc'[Teardown] = pc[Teardown]
      BY <2>3 DEF TypeOK, Start
    <3> QED
      BY <3>1, <3>2, <3>3, <3>4 DEF TruthSound
  <2> QED
    BY <2>1, <2>2, <2>3
<1>2. CASE \E c \in Calls : CloseOld(c)
  BY <1>2 DEF TypeOK, CloseOld, TruthSound
<1>3. CASE \E c \in Calls : Launch(c)
  <2>1. PICK c \in Calls : Launch(c)
    BY <1>3
  <2>2. session # c
    BY <2>1 DEF Launch, BridgeSound, Spliced
  <2> QED
    BY <2>1, <2>2 DEF TypeOK, Launch, TruthSound
<1>4. CASE \E c \in Calls : LaunchFails(c) \/ WiringFails(c)
  <2>1. PICK c \in Calls : LaunchFails(c) \/ WiringFails(c)
    BY <1>4
  <2>2. pc[c] \in {"launching", "wiring"} /\ pc' = [pc EXCEPT ![c] = "failed"]
        /\ UNCHANGED <<session, running, flags, overlapped>>
    BY <2>1 DEF LaunchFails, WiringFails
  <2>3. pc'[c] = "failed" /\ \A d \in Calls : d # c => pc'[d] = pc[d]
    BY <2>2 DEF TypeOK
  <2>4. ~ overlapped => session \notin running
    BY <2>2 DEF TruthSound
  <2>5. ~ overlapped => \A d \in Calls : ~ BusyCall(d)'
    BY <2>2, <2>3 DEF TruthSound
  <2> QED
    BY <2>2, <2>3, <2>4, <2>5 DEF TruthSound
<1>5. CASE \E c \in Calls : Splice(c)
  <2>1. PICK c \in Calls : Splice(c)
    BY <1>5
  <2>2. c \in running /\ pc'[c] = "ok" /\ session' = c
    BY <2>1 DEF TypeOK, Splice, BrowsersSound
  <2>3. \A d \in Calls : d # c => pc'[d] = pc[d]
    BY <2>1 DEF TypeOK, Splice
  <2>4. ~ overlapped => flags[c] = loaded /\ \A d \in Calls : ~ BusyCall(d)'
    BY <2>1, <2>2, <2>3 DEF TruthSound, Splice
  <2> QED
    BY <2>1, <2>2, <2>3, <2>4 DEF TruthSound, Splice
<1>6. CASE BeginTeardown
  BY <1>6 DEF TypeOK, BeginTeardown, TruthSound
<1>7. CASE CloseSession
  BY <1>7 DEF TypeOK, CloseSession, TruthSound
<1>8. CASE UNCHANGED vars
  BY <1>8 DEF vars, TruthSound
<1> QED
  BY <1>1, <1>2, <1>3, <1>4, <1>5, <1>6, <1>7, <1>8, NextCases

LEMMA FailedStep == TypeOK /\ FailedIsNotListed /\ [Next]_vars => FailedIsNotListed'
<1> SUFFICES ASSUME TypeOK, FailedIsNotListed, [Next]_vars,
                    NEW c \in Calls, pc'[c] = "failed", op'[c].do = "install",
                    op'[c].ext \in loaded'
             PROVE  \E d \in Calls \ {c} : op'[d] = op'[c] /\ pc'[d] \notin {"idle", "refused"}
  BY DEF FailedIsNotListed, At
<1> USE DEF At, Goto, entry, world
<1>1. ASSUME pc[c] = "failed", op[c] = op'[c], op[c].ext \in loaded,
             \A d \in Calls : pc[d] \notin {"idle", "refused"} =>
               op'[d] = op[d] /\ pc'[d] \notin {"idle", "refused"}
      PROVE  \E d \in Calls \ {c} : op'[d] = op'[c] /\ pc'[d] \notin {"idle", "refused"}
  BY <1>1 DEF FailedIsNotListed
<1>2. CASE \E a \in Calls, o \in [do : Operations, ext : Extensions] : Refuse(a, o) \/ Start(a, o)
  <2>1. PICK a \in Calls, o \in [do : Operations, ext : Extensions] : Refuse(a, o) \/ Start(a, o)
    BY <1>2
  <2>2. c # a /\ pc[c] = "failed" /\ op[c] = op'[c]
    BY <2>1 DEF TypeOK, Refuse, Start
  <2>3. \A d \in Calls : pc[d] \notin {"idle", "refused"} =>
          op'[d] = op[d] /\ pc'[d] \notin {"idle", "refused"}
    BY <2>1 DEF TypeOK, Refuse, Start
  <2>4. CASE op[c].ext \in loaded
    BY <1>1, <2>2, <2>3, <2>4
  <2>5. CASE op[c].ext \notin loaded
    <3>1. Start(a, o) /\ o.do = "install" /\ o.ext = op[c].ext
      BY <2>1, <2>2, <2>5 DEF Refuse, Start, After, Operations
    <3>2. op[c] \in [do : Operations, ext : Extensions]
      BY <2>2 DEF TypeOK, NoOp
    <3>3. op[c] = o
      BY <2>2, <3>1, <3>2
    <3>4. op'[a] = o /\ pc'[a] = "detaching"
      BY <3>1 DEF TypeOK, Start
    <3> QED
      BY <2>2, <3>3, <3>4
  <2> QED
    BY <2>4, <2>5
<1>3. CASE \E a \in Calls : LaunchFails(a) \/ WiringFails(a)
  <2>1. PICK a \in Calls : LaunchFails(a) \/ WiringFails(a)
    BY <1>3
  <2>2. op' = op /\ loaded' \subseteq loaded /\ pc[a] \notin {"idle", "refused"}
        /\ (op[a].do = "install" => op[a].ext \notin loaded')
    BY <2>1 DEF LaunchFails, WiringFails, RollBack
  <2>3. c # a /\ pc[c] = "failed"
    BY <2>1, <2>2 DEF TypeOK, LaunchFails, WiringFails
  <2>4. \A d \in Calls : pc[d] \notin {"idle", "refused"} => pc'[d] \notin {"idle", "refused"}
    BY <2>1 DEF TypeOK, LaunchFails, WiringFails
  <2> QED
    BY <1>1, <2>2, <2>3, <2>4
<1>4. CASE \/ \E a \in Calls : CloseOld(a) \/ Launch(a) \/ Splice(a)
           \/ BeginTeardown \/ CloseSession
  <2>1. op' = op /\ loaded' = loaded
    BY <1>4 DEF CloseOld, Launch, Splice, BeginTeardown, CloseSession
  <2>2. pc[c] = "failed"
    BY <1>4, CallsAssumption DEF TypeOK, CloseOld, Launch, Splice, BeginTeardown, CloseSession
  <2>3. \A d \in Calls : pc[d] \notin {"idle", "refused"} => pc'[d] \notin {"idle", "refused"}
    BY <1>4, CallsAssumption DEF TypeOK, CloseOld, Launch, Splice, BeginTeardown, CloseSession
  <2> QED
    BY <1>1, <2>1, <2>2, <2>3
<1>5. CASE UNCHANGED vars
  BY <1>1, <1>5 DEF vars
<1> QED
  BY <1>2, <1>3, <1>4, <1>5, NextCases

\* What an agent is told is so: the list is what runs, a browser that is gone was
\* reported, and an installation that failed is not listed (the roll-back).
THEOREM AgentsAreToldTheTruth == Spec => []TellsTheTruth
<1>1. Init => RebuildInv /\ TruthSound /\ FailedIsNotListed
  BY RebuildInit, TruthInit DEF Init, FailedIsNotListed, At
<1>2. (RebuildInv /\ TruthSound /\ FailedIsNotListed) /\ [Next]_vars
        => (RebuildInv /\ TruthSound /\ FailedIsNotListed)'
  BY TypeStep, SoundStep, TruthStep, FailedStep DEF RebuildInv
<1>3. RebuildInv /\ TruthSound /\ FailedIsNotListed => TellsTheTruth
  <2> SUFFICES ASSUME RebuildInv, TruthSound, FailedIsNotListed PROVE TellsTheTruth
    OBVIOUS
  <2>1. Quiet => \A c \in Calls : ~ BusyCall(c)
    BY DEF Quiet, Busy, BusyCall, BusySteps, Answered
  <2>2. ListIsTrue
    BY <2>1 DEF ListIsTrue, TruthSound
  <2>3. LossIsTold
    BY <2>1 DEF LossIsTold, TruthSound, At, BusyCall, BusySteps
  <2> QED
    BY <2>2, <2>3 DEF TellsTheTruth
<1> QED
  BY <1>1, <1>2, <1>3, PTL DEF Spec

-----------------------------------------------------------------------------
(* Plugins.  What is reached over the steps of a relation: Reached is defined  *)
(* by recursion over a number of steps, and the library's theorem WFMin gives  *)
(* induction over the naturals, as a fact about sets of them.                  *)

Less == {ss \in Nat \X Nat : ss[1] < ss[2]}

\* A set of naturals with 0 and the successor of each of its members has all.
LEMMA NaturalsBySteps ==
  ASSUME NEW T \in SUBSET Nat, 0 \in T, \A n \in T : n + 1 \in T
  PROVE  T = Nat
<1> SUFFICES ASSUME Nat \ T # {} PROVE FALSE
  OBVIOUS
<1>1. IsWellFoundedOn(Less, Nat)
  BY NatLessThanWellFounded DEF OpToRel, Less
<1>2. PICK n \in Nat \ T : \A m \in Nat \ T : <<m, n>> \notin Less
  BY <1>1, WFMin
<1>3. n # 0 /\ n - 1 \in Nat /\ <<n - 1, n>> \in Less
  BY DEF Less
<1>4. n - 1 \in T
  BY <1>2, <1>3
<1> QED
  BY <1>2, <1>4

\* A function that is told its first value, and each later one by the one
\* before, exists.
Follows(f, v, F, n) == f[0] = v /\ \A i \in 1 .. n : f[i] = F[<<i, f[i - 1]>>]

LEMMA FollowedBySteps ==
  ASSUME NEW S, NEW v \in S, NEW n \in Nat, NEW F \in [(1 .. n) \X S -> S]
  PROVE  \E f \in [0 .. n -> S] : Follows(f, v, F, n)
<1> USE DEF Follows
<1> DEFINE T == {k \in Nat : k <= n => \E f \in [0 .. k -> S] : Follows(f, v, F, k)}
<1>1. 0 \in T
  <2>1. [i \in 0 .. 0 |-> v] \in [0 .. 0 -> S] /\ Follows([i \in 0 .. 0 |-> v], v, F, 0)
    OBVIOUS
  <2> QED
    BY <2>1
<1>2. ASSUME NEW k \in T PROVE k + 1 \in T
  <2> SUFFICES ASSUME k + 1 <= n PROVE \E f \in [0 .. k + 1 -> S] : Follows(f, v, F, k + 1)
    OBVIOUS
  <2>1. PICK f \in [0 .. k -> S] : Follows(f, v, F, k)
    BY <1>2
  <2> DEFINE w == F[<<k + 1, f[k]>>]
             g == [i \in 0 .. k + 1 |-> IF i = k + 1 THEN w ELSE f[i]]
  <2>2. w \in S
    OBVIOUS
  <2>3. g \in [0 .. k + 1 -> S]
    BY <2>2
  <2>4. g[0] = v
    BY <2>1
  <2>5. ASSUME NEW i \in 1 .. k + 1 PROVE g[i] = F[<<i, g[i - 1]>>]
    <3>1. g[i - 1] = f[i - 1]
      OBVIOUS
    <3>2. CASE i = k + 1
      <4>1. g[i] = w /\ g[i - 1] = f[k]
        BY <3>1, <3>2
      <4> QED
        BY <3>2, <4>1
    <3>3. CASE i \in 1 .. k
      BY <2>1, <3>1, <3>3
    <3> QED
      BY <3>2, <3>3
  <2> QED
    BY <2>3, <2>4, <2>5
<1>3. T \in SUBSET Nat
  OBVIOUS
<1>4. T = Nat
  <2> HIDE DEF T
  <2> QED
    BY <1>1, <1>2, <1>3, NaturalsBySteps
<1> QED
  BY <1>4

\* The plugins at most so many steps further, step by step.
Successors == [Plugins -> SUBSET Plugins]
Further(next, S)  == S \cup UNION {next[q] : q \in S}
Spreads(f, next, p, n) == f[0] = next[p] /\ \A i \in 1 .. n : f[i] = Further(next, f[i - 1])

LEMMA ReachedBySteps ==
  ASSUME NEW next \in Successors, NEW p \in Plugins
  PROVE  \E f \in [0 .. Cardinality(Plugins) -> SUBSET Plugins] :
            /\ Spreads(f, next, p, Cardinality(Plugins))
            /\ Reached(next, p) = f[Cardinality(Plugins)]
<1> DEFINE n == Cardinality(Plugins)
           S == SUBSET Plugins
           F == [ix \in (1 .. n) \X S |-> Further(next, ix[2])]
<1>1. n \in Nat /\ next[p] \in S /\ F \in [(1 .. n) \X S -> S]
  <2>1. n \in Nat
    BY PluginsAssumption, FS_CardinalityType
  <2>2. ASSUME NEW T \in S PROVE Further(next, T) \in S
    BY DEF Further, Successors
  <2>3. F \in [(1 .. n) \X S -> S]
    BY <2>2
  <2> QED
    BY <2>1, <2>3 DEF Successors
<1>2. PICK g \in [0 .. n -> S] : Follows(g, next[p], F, n)
  <2> HIDE DEF n, F, S
  <2> QED
    BY <1>1, FollowedBySteps
<1>3. ASSUME NEW i \in 1 .. n PROVE g[i] = Further(next, g[i - 1])
  <2>1. i - 1 \in 0 .. n /\ g[i - 1] \in S
    BY <1>1
  <2>2. g[i] = F[<<i, g[i - 1]>>]
    BY <1>2 DEF Follows
  <2> QED
    BY <2>1, <2>2
<1>4. Spreads(g, next, p, n)
  BY <1>2, <1>3 DEF Spreads, Follows
<1> HIDE DEF F
<1> DEFINE Def(h) == h = [k \in 0 .. Cardinality(Plugins) |->
                           IF k = 0 THEN next[p] ELSE Further(next, h[k - 1])]
           f[k \in 0 .. Cardinality(Plugins)] ==
             IF k = 0 THEN next[p] ELSE f[k - 1] \cup UNION {next[q] : q \in f[k - 1]}
<1>5. Def(g)
  BY <1>2, <1>3 DEF Follows
<1>6. Reached(next, p) = f[n]
  BY DEF Reached
<1>7. f = CHOOSE h : Def(h)
  BY DEF Further
<1> HIDE DEF f
<1>8. Def(f)
  <2> HIDE DEF Def
  <2> QED
    BY <1>5, <1>7
<1>9. f \in [0 .. n -> S] /\ Spreads(f, next, p, n)
  <2>1. DOMAIN f = 0 .. n
    BY <1>8
  <2>2. f[0] = next[p] /\ \A i \in 1 .. n : f[i] = Further(next, f[i - 1])
    BY <1>1, <1>8
  <2> DEFINE T == {i \in Nat : i <= n => f[i] \in S}
  <2>3. T = Nat
    <3>1. 0 \in T
      BY <1>1, <2>2
    <3>2. ASSUME NEW i \in T PROVE i + 1 \in T
      <4> SUFFICES ASSUME i + 1 <= n PROVE f[i + 1] \in S
        OBVIOUS
      <4>1. f[i] \in S /\ f[i + 1] = Further(next, f[i])
        BY <1>1, <2>2
      <4> QED
        BY <4>1 DEF Further, Successors
    <3>3. T \in SUBSET Nat
      OBVIOUS
    <3> HIDE DEF T
    <3> QED
      BY <3>1, <3>2, <3>3, NaturalsBySteps
  <2>4. \A i \in 0 .. n : f[i] \in S
    BY <1>1, <2>3
  <2>5. f = [i \in 0 .. n |-> f[i]]
    BY <1>8
  <2> QED
    BY <2>2, <2>4, <2>5 DEF Spreads
<1> QED
  BY <1>6, <1>9

\* What is reached is plugins, the next of the first among them and those of
\* each, since that many steps reach no further than one less.
LEMMA ReachedIsClosed ==
  ASSUME NEW next \in Successors, NEW p \in Plugins
  PROVE  /\ Reached(next, p) \subseteq Plugins
         /\ next[p] \subseteq Reached(next, p)
         /\ \A q \in Reached(next, p) : next[q] \subseteq Reached(next, p)
<1> DEFINE n == Cardinality(Plugins)
           Closed(S) == \A q \in S : next[q] \subseteq S
<1>0. n \in Nat
  BY PluginsAssumption, FS_CardinalityType
<1>1. PICK f \in [0 .. n -> SUBSET Plugins] :
        Spreads(f, next, p, n) /\ Reached(next, p) = f[n]
  BY ReachedBySteps
<1> DEFINE T == {i \in Nat : i <= n => next[p] \subseteq f[i] /\ (Closed(f[i]) \/ Cardinality(f[i]) >= i + 1)}
<1>2. \A i \in 0 .. n : IsFiniteSet(f[i]) /\ Cardinality(f[i]) \in Nat
  BY <1>1, PluginsAssumption, FS_Subset, FS_CardinalityType
<1>3. 0 \in T
  <2>1. f[0] = next[p] /\ IsFiniteSet(f[0]) /\ Cardinality(f[0]) \in Nat
    BY <1>0, <1>1, <1>2 DEF Spreads
  <2>2. CASE f[0] = {}
    BY <2>1, <2>2
  <2>3. CASE f[0] # {}
    <3>1. Cardinality(f[0]) # 0
      BY <2>1, <2>3, FS_EmptySet
    <3> QED
      BY <2>1, <3>1
  <2> QED
    BY <2>2, <2>3
<1>4. ASSUME NEW i \in T PROVE i + 1 \in T
  <2> SUFFICES ASSUME i + 1 <= n
               PROVE  /\ next[p] \subseteq f[i + 1]
                      /\ Closed(f[i + 1]) \/ Cardinality(f[i + 1]) >= i + 2
    OBVIOUS
  <2>0. i \in 0 .. n /\ i + 1 \in 0 .. n /\ i + 1 \in 1 .. n
    BY <1>0
  <2>1. next[p] \subseteq f[i] /\ (Closed(f[i]) \/ Cardinality(f[i]) >= i + 1)
    BY <1>0
  <2>2. f[i + 1] = Further(next, f[i])
    BY <1>1, <2>0 DEF Spreads
  <2>3. f[i] \subseteq f[i + 1]
    BY <2>2 DEF Further
  <2>4. CASE Closed(f[i])
    <3>1. f[i + 1] = f[i]
      BY <2>2, <2>4 DEF Further
    <3> QED
      BY <2>1, <2>4, <3>1
  <2>5. CASE ~ Closed(f[i])
    <3>1. f[i] # f[i + 1]
      BY <2>2, <2>5 DEF Further
    <3>2. /\ Cardinality(f[i]) <= Cardinality(f[i + 1])
          /\ Cardinality(f[i]) # Cardinality(f[i + 1])
      BY <1>2, <2>0, <2>3, <3>1, FS_Subset
    <3>3. Cardinality(f[i + 1]) >= i + 2
      BY <1>2, <2>0, <2>1, <2>5, <3>2
    <3> QED
      BY <2>1, <2>3, <3>3
  <2> QED
    BY <2>4, <2>5
<1>5. n \in T
  <2>1. T \in SUBSET Nat
    OBVIOUS
  <2> HIDE DEF T
  <2> QED
    BY <1>0, <1>3, <1>4, <2>1, NaturalsBySteps
<1>6. f[n] \in SUBSET Plugins /\ Cardinality(f[n]) <= n
  BY <1>0, <1>1, PluginsAssumption, FS_Subset
<1>7. next[p] \subseteq f[n] /\ Closed(f[n])
  BY <1>0, <1>2, <1>5, <1>6
<1> QED
  BY <1>1, <1>6, <1>7

\* ... and it is the least such set.
LEMMA ReachedIsLeast ==
  ASSUME NEW next \in Successors, NEW p \in Plugins,
         NEW S, next[p] \subseteq S, \A q \in S : q \in Plugins => next[q] \subseteq S
  PROVE  Reached(next, p) \subseteq S
<1> DEFINE n == Cardinality(Plugins)
<1>0. n \in Nat
  BY PluginsAssumption, FS_CardinalityType
<1>1. PICK f \in [0 .. n -> SUBSET Plugins] :
        Spreads(f, next, p, n) /\ Reached(next, p) = f[n]
  BY ReachedBySteps
<1> DEFINE T == {i \in Nat : i <= n => f[i] \subseteq S}
<1>2. 0 \in T
  BY <1>1 DEF Spreads
<1>3. ASSUME NEW i \in T PROVE i + 1 \in T
  <2> SUFFICES ASSUME i + 1 <= n PROVE f[i + 1] \subseteq S
    OBVIOUS
  <2>1. f[i] \subseteq S /\ f[i] \subseteq Plugins /\ f[i + 1] = Further(next, f[i])
    BY <1>0, <1>1 DEF Spreads
  <2> QED
    BY <2>1 DEF Further
<1>4. n \in T
  <2>1. T \in SUBSET Nat
    OBVIOUS
  <2> HIDE DEF T
  <2> QED
    BY <1>0, <1>2, <1>3, <2>1, NaturalsBySteps
<1> QED
  BY <1>0, <1>1, <1>4
-----------------------------------------------------------------------------
(* Graphs.                                                                   *)

Graph == [Plugins -> SUBSET (Nat \X Plugins)]

LEMMA EdgesAreSteps ==
  ASSUME NEW g \in Graph
  PROVE  [q \in Plugins |-> Edges(g, q)] \in Successors
BY DEF Graph, Successors, Edges

\* What is reached from a plugin is closed under edges, and no more than that.
LEMMA ReachIsClosed ==
  ASSUME NEW g \in Graph, NEW p \in Plugins
  PROVE  /\ Reach(g, p) \subseteq Plugins
         /\ Edges(g, p) \subseteq Reach(g, p)
         /\ \A q \in Reach(g, p) : Edges(g, q) \subseteq Reach(g, p)
<1> DEFINE next == [q \in Plugins |-> Edges(g, q)]
<1>1. next \in Successors /\ \A q \in Plugins : next[q] = Edges(g, q)
  BY EdgesAreSteps
<1>2. Reach(g, p) = Reached(next, p)
  BY DEF Reach
<1> HIDE DEF next
<1>3. /\ Reached(next, p) \subseteq Plugins
      /\ next[p] \subseteq Reached(next, p)
      /\ \A q \in Reached(next, p) : next[q] \subseteq Reached(next, p)
  BY <1>1, ReachedIsClosed
<1> QED
  BY <1>1, <1>2, <1>3

LEMMA ReachIsLeast ==
  ASSUME NEW g \in Graph, NEW p \in Plugins, NEW S, Edges(g, p) \subseteq S,
         \A q \in S : q \in Plugins => Edges(g, q) \subseteq S
  PROVE  Reach(g, p) \subseteq S
<1> DEFINE next == [q \in Plugins |-> Edges(g, q)]
<1>1. next \in Successors /\ \A q \in Plugins : next[q] = Edges(g, q)
  BY EdgesAreSteps
<1>2. Reach(g, p) = Reached(next, p)
  BY DEF Reach
<1> HIDE DEF next
<1>3. Reached(next, p) \subseteq S
  BY <1>1, ReachedIsLeast
<1> QED
  BY <1>2, <1>3

\* It is the edges and what is reached from these.
LEMMA ReachOfEdges ==
  ASSUME NEW g \in Graph, NEW p \in Plugins
  PROVE  Reach(g, p) = UNION {{d} \cup Reach(g, d) : d \in Edges(g, p)}
<1> DEFINE S == UNION {{d} \cup Reach(g, d) : d \in Edges(g, p)}
<1>0. Edges(g, p) \subseteq Plugins
  BY DEF Graph, Edges
<1>1. ASSUME NEW d \in Edges(g, p) PROVE {d} \cup Reach(g, d) \subseteq Reach(g, p)
  <2>1. /\ Edges(g, p) \subseteq Reach(g, p) /\ d \in Plugins
        /\ \A q \in Reach(g, p) : Edges(g, q) \subseteq Reach(g, p)
    BY <1>0, ReachIsClosed
  <2>2. Reach(g, d) \subseteq Reach(g, p)
    BY <2>1, ReachIsLeast
  <2> QED
    BY <2>1, <2>2
<1>2. ASSUME NEW q \in S PROVE Edges(g, q) \subseteq S
  <2>1. PICK d \in Edges(g, p) : q \in {d} \cup Reach(g, d)
    OBVIOUS
  <2>2. Edges(g, d) \subseteq Reach(g, d) /\ \A r \in Reach(g, d) : Edges(g, r) \subseteq Reach(g, d)
    BY <1>0, ReachIsClosed
  <2>3. Edges(g, q) \subseteq Reach(g, d)
    BY <2>1, <2>2
  <2> QED
    BY <2>3
<1>3. Edges(g, p) \subseteq S
  OBVIOUS
<1>4. S \subseteq Reach(g, p)
  BY <1>1
<1> HIDE DEF S
<1>5. Reach(g, p) \subseteq S
  BY <1>2, <1>3, ReachIsLeast
<1>6. Reach(g, p) = S
  BY <1>4, <1>5
<1> QED
  BY <1>6 DEF S

\* Where each of some plugins has an edge to one of them, there is a cycle: one
\* that reaches least reaches itself.
LEMMA EndlessIsCyclic ==
  ASSUME NEW g \in Graph, NEW U \in SUBSET Plugins, U # {},
         \A p \in U : \E d \in U : d \in Edges(g, p)
  PROVE  InCycle(g) # {}
<1> SUFFICES ASSUME InCycle(g) = {} PROVE FALSE
  OBVIOUS
<1> DEFINE C == {Reach(g, p) : p \in U}
<1>1. C \subseteq SUBSET Plugins /\ C # {}
  BY ReachIsClosed
<1>2. IsWellFoundedOn(StrictSubsetOrdering(Plugins), SUBSET Plugins)
  BY PluginsAssumption, FS_FiniteSubsetsOfFinite, FS_StrictSubsetOrderingWellFounded
<1>3. PICK R \in C : \A T \in C : <<T, R>> \notin StrictSubsetOrdering(Plugins)
  <2> HIDE DEF C
  <2> QED
    BY <1>1, <1>2, WFMin
<1>4. PICK p \in U : R = Reach(g, p)
  OBVIOUS
<1>5. PICK d \in U : d \in Edges(g, p)
  OBVIOUS
<1>6. /\ d \in Reach(g, p) /\ Reach(g, d) \subseteq Reach(g, p)
      /\ Reach(g, d) \subseteq Plugins /\ Reach(g, p) \subseteq Plugins
  BY <1>5, ReachOfEdges, ReachIsClosed
<1>7. d \notin Reach(g, d)
  BY DEF InCycle
<1>8. <<Reach(g, d), Reach(g, p)>> \in StrictSubsetOrdering(Plugins)
  BY <1>6, <1>7 DEF StrictSubsetOrdering
<1> QED
  BY <1>3, <1>4, <1>8

\* It stays the same as long as the graph does.
LEMMA SameGraph ==
  ASSUME graph' = graph
  PROVE  /\ InCycle(graph)' = InCycle(graph)
         /\ \A p \in Plugins : Reach(graph, p)' = Reach(graph, p)
BY DEF InCycle, Reach, Reached, Edges

\* Who is reached from a plugin that is reached, is reached.
LEMMA ReachIsTransitive ==
  ASSUME NEW g \in Graph, NEW p \in Plugins, NEW q \in Reach(g, p)
  PROVE  q \in Plugins /\ Reach(g, q) \subseteq Reach(g, p)
<1>1. q \in Plugins /\ Edges(g, q) \subseteq Reach(g, p)
  BY ReachIsClosed
<1>2. \A r \in Reach(g, p) : Edges(g, r) \subseteq Reach(g, p)
  BY ReachIsClosed
<1> QED
  BY <1>1, <1>2, ReachIsLeast

LEMMA MinOfTwo ==
  ASSUME NEW a \in Nat, NEW b \in Nat
  PROVE  Min({a, b}) = IF a <= b THEN a ELSE b
<1> DEFINE m == IF a <= b THEN a ELSE b
<1>1. m \in {a, b} /\ \A y \in {a, b} : m <= y
  OBVIOUS
<1>2. \A x \in {a, b} : (\A y \in {a, b} : x <= y) => x = m
  OBVIOUS
<1>3. (CHOOSE x \in {a, b} : \A y \in {a, b} : x <= y) = m
  BY <1>1, <1>2
<1> QED
  BY <1>3 DEF Min

-----------------------------------------------------------------------------
(* The search for cycles.  A node that has a number and is not on the stack is *)
(* settled: its component is known.  A node with a call that runs is running.  *)

Numbers  == {p \in Plugins : Numbered(p)}
Stacked  == {p \in Plugins : OnStack(p)}
Settled  == Numbers \ Stacked
Node(k)  == calls[k].node
Left(k)  == calls[k].left
Low(k)   == lowlink[Node(k)]
Running  == {Node(k) : k \in DOMAIN calls}
LeadsTo(p, q) == q = p \/ q \in Reach(graph, p)

\* Numbers are given once and in the order of the stack, to nodes only.
NumbersSound ==
  /\ Numbers \subseteq valid /\ Stacked \subseteq Numbers
  /\ \A p \in Plugins : indexOf[p] <= index
  /\ \A p, q \in Numbers : indexOf[p] = indexOf[q] => p = q
  /\ \A i, j \in DOMAIN stack : i < j => indexOf[stack[i]] < indexOf[stack[j]]

\* A call has a node on the stack, above that of its caller.
CallsStacked ==
  /\ Running \subseteq Stacked
  /\ \A k, l \in DOMAIN calls : k < l => indexOf[Node(k)] < indexOf[Node(l)]
  /\ \A k \in DOMAIN calls : Left(k) \subseteq Edges(graph, Node(k))

\* What was looked at has a number, and from a settled node only such follow.
EdgesSound ==
  /\ \A p \in Numbers \ Running : Edges(graph, p) \subseteq Numbers
  /\ \A k \in DOMAIN calls : Edges(graph, Node(k)) \ Left(k) \subseteq Numbers
  /\ \A p \in Settled : Edges(graph, p) \subseteq Settled

\* Every node on the stack leads to a running one not above it, and every running
\* one to all above it.
StackSound ==
  /\ \A p \in Stacked : \E r \in Running : indexOf[r] <= indexOf[p] /\ LeadsTo(p, r)
  /\ \A r \in Running, p \in Stacked : indexOf[r] < indexOf[p] => p \in Reach(graph, r)

\* What a call is done with: nodes on the stack above its own, below the next.
Region(k) ==
  {p \in Stacked \ Running :
     /\ indexOf[Node(k)] < indexOf[p]
     /\ k < Len(calls) => indexOf[p] < indexOf[Node(k + 1)]}

\* The low link of a running node is the number of a node it leads to, and no edge
\* that was looked at, from it or from its region, ends lower on the stack.
LowSound ==
  \A k \in DOMAIN calls :
    /\ Low(k) <= indexOf[Node(k)]
    /\ \E p \in Stacked : indexOf[p] = Low(k) /\ LeadsTo(Node(k), p)
    /\ \A q \in Stacked : q \in Edges(graph, Node(k)) \ Left(k) => Low(k) <= indexOf[q]
    /\ \A p \in Region(k) : \A q \in Stacked : q \in Edges(graph, p) => Low(k) <= indexOf[q]

\* What was found are the components of settled nodes that are cycles.
Strong(p) == {q \in valid : q \in Reach(graph, p) /\ p \in Reach(graph, q)}
Found     == UNION {cycles[i] : i \in DOMAIN cycles}

FoundSound ==
  /\ Found = InCycle(graph) \cap Settled
  /\ \A i, j \in DOMAIN cycles : i # j => cycles[i] \cap cycles[j] = {}
  /\ \A i \in DOMAIN cycles : cycles[i] # {} /\ \A p \in cycles[i] : cycles[i] = Strong(p)

SearchSound ==
  /\ NumbersSound /\ CallsStacked /\ EdgesSound /\ StackSound /\ LowSound /\ FoundSound

\* Edges lead to other nodes.
GraphSound == \A p \in Plugins : Edges(graph, p) \subseteq valid \ {p}

SearchInv == SearchTypeOK /\ GraphSound /\ SearchSound

\* The types, as the proofs use them.
LEMMA SearchTypes ==
  ASSUME SearchTypeOK
  PROVE  /\ graph \in Graph /\ valid \subseteq Plugins
         /\ index \in Nat /\ indexOf \in [Plugins -> Nat] /\ lowlink \in [Plugins -> Nat]
         /\ stack \in Seq(Plugins) /\ Len(stack) \in Nat /\ DOMAIN stack = 1 .. Len(stack)
         /\ \A i \in DOMAIN stack : stack[i] \in Stacked
         /\ calls \in Seq(Call) /\ Len(calls) \in Nat /\ DOMAIN calls = 1 .. Len(calls)
         /\ \A k \in DOMAIN calls : Node(k) \in Plugins /\ Left(k) \subseteq Plugins
         /\ \A p \in Plugins : indexOf[p] \in Nat /\ lowlink[p] \in Nat
<1>1. /\ stack \in Seq(Plugins) /\ Len(stack) \in Nat /\ DOMAIN stack = 1 .. Len(stack)
      /\ \A i \in DOMAIN stack : stack[i] \in Plugins
  BY DEF SearchTypeOK
<1>2. /\ calls \in Seq(Call) /\ Len(calls) \in Nat /\ DOMAIN calls = 1 .. Len(calls)
      /\ \A k \in DOMAIN calls : calls[k] \in Call
  BY DEF SearchTypeOK
<1>3. \A c \in Call : c.node \in Plugins /\ c.left \subseteq Plugins
  BY DEF Call
<1>4. \A k \in DOMAIN calls : Node(k) \in Plugins /\ Left(k) \subseteq Plugins
  BY <1>2, <1>3 DEF Node, Left
<1>5. \A i \in DOMAIN stack : stack[i] \in Stacked
  BY <1>1 DEF Stacked, OnStack
<1> QED
  BY <1>1, <1>2, <1>4, <1>5 DEF SearchTypeOK, Graph

\* The innermost call.
LEMMA Innermost ==
  ASSUME SearchTypeOK, calls # << >>
  PROVE  /\ Len(calls) \in DOMAIN calls /\ Len(calls) >= 1
         /\ Last(calls) = calls[Len(calls)]
         /\ Last(calls).node = Node(Len(calls)) /\ Last(calls).left = Left(Len(calls))
         /\ \A c \in Call : c.node \in Plugins /\ c.left \subseteq Plugins
<1>1. calls \in Seq(Call)
  BY DEF SearchTypeOK
<1>2. Len(calls) >= 1 /\ Len(calls) \in Nat /\ DOMAIN calls = 1 .. Len(calls)
  BY <1>1
<1> QED
  BY <1>2 DEF Last, Node, Left, Call

\* A successor was looked at: all calls have their node, and all but the innermost
\* what they have left.
LEMMA LookedCalls ==
  ASSUME SearchTypeOK, calls # << >>, NEW q \in Left(Len(calls))
  PROVE  /\ Looked(q) \in Seq(Call) /\ Len(Looked(q)) = Len(calls)
         /\ \A k \in DOMAIN calls :
              /\ Looked(q)[k].node = Node(k)
              /\ Looked(q)[k].left = IF k = Len(calls) THEN Left(k) \ {q} ELSE Left(k)
<1> DEFINE n == Len(calls)
           c == [calls[n] EXCEPT !.left = @ \ {q}]
<1>1. calls \in Seq(Call) /\ n \in DOMAIN calls /\ calls[n] \in Call
  <2>1. calls \in Seq(Call) /\ n \in DOMAIN calls
    BY SearchTypes, Innermost
  <2> QED
    BY <2>1
<1>2. c \in Call /\ c.node = calls[n].node /\ c.left = calls[n].left \ {q}
  BY <1>1 DEF Call
<1>3. Looked(q) = [calls EXCEPT ![n] = c]
  BY DEF Looked
<1> HIDE DEF c
<1>4. /\ Looked(q) \in Seq(Call) /\ Len(Looked(q)) = n
      /\ \A k \in DOMAIN calls : Looked(q)[k] = IF k = n THEN c ELSE calls[k]
  BY <1>1, <1>2, <1>3, ExceptSeq
<1> QED
  BY <1>2, <1>4 DEF Node, Left

\* strongconnect is called for q: what the two steps that do it have in common.
Entering(q) ==
  /\ q \in valid /\ ~ Numbered(q) /\ Enter(q)
  /\ lowlink' = [lowlink EXCEPT ![q] = index + 1]
  /\ UNCHANGED <<valid, graph, cycles>>
  /\ calls' \in Seq(Call) /\ Len(calls') = Len(calls) + 1
  /\ calls'[Len(calls) + 1] = CallOn(q)
  /\ \A k \in DOMAIN calls :
       /\ calls'[k].node = Node(k)
       /\ calls'[k].left \subseteq Left(k) /\ Left(k) \ calls'[k].left \subseteq {q}
  /\ calls # << >> => q \in Edges(graph, Node(Len(calls)))

LEMMA CallsAreCalls ==
  ASSUME SearchTypeOK, NEW q \in Plugins
  PROVE  CallOn(q) \in Call /\ CallOn(q).node = q /\ CallOn(q).left = Edges(graph, q)
<1>1. Edges(graph, q) \subseteq Plugins
  BY DEF SearchTypeOK, Edges
<1> QED
  BY <1>1 DEF CallOn, Call

LEMMA Enters ==
  ASSUME SearchInv, NEW q \in Plugins, SearchFrom(q) \/ Descend(q)
  PROVE  Entering(q)
<1>0. SearchTypeOK /\ GraphSound /\ CallsStacked
  BY DEF SearchInv, SearchSound
<1>1. CallOn(q) \in Call /\ calls \in Seq(Call) /\ DOMAIN calls = 1 .. Len(calls)
  BY <1>0, CallsAreCalls, SearchTypes
<1>2. CASE SearchFrom(q)
  <2>1. calls = << >> /\ calls' = << CallOn(q) >> /\ DOMAIN calls = {} /\ Len(calls) = 0
    BY <1>2 DEF SearchFrom
  <2>2. calls' \in Seq(Call) /\ Len(calls') = 1 /\ calls'[1] = CallOn(q)
    BY <1>1, <2>1
  <2> QED
    BY <1>2, <2>1, <2>2 DEF SearchFrom, Entering
<1>3. CASE Descend(q)
  <2> DEFINE n == Len(calls)
  <2>1. /\ calls # << >> /\ n \in DOMAIN calls /\ q \in Left(n)
        /\ calls' = Append(Looked(q), CallOn(q))
    BY <1>0, <1>3, Innermost DEF Descend
  <2>2. /\ Looked(q) \in Seq(Call) /\ Len(Looked(q)) = n
        /\ \A k \in DOMAIN calls :
             /\ Looked(q)[k].node = Node(k)
             /\ Looked(q)[k].left = IF k = n THEN Left(k) \ {q} ELSE Left(k)
    BY <1>0, <2>1, LookedCalls
  <2>3. /\ calls' \in Seq(Call) /\ Len(calls') = n + 1 /\ calls'[n + 1] = CallOn(q)
        /\ \A k \in DOMAIN calls : calls'[k] = Looked(q)[k]
    BY <1>1, <2>1, <2>2, AppendProperties
  <2>4. \A k \in DOMAIN calls :
          /\ calls'[k].node = Node(k)
          /\ calls'[k].left \subseteq Left(k) /\ Left(k) \ calls'[k].left \subseteq {q}
    BY <2>2, <2>3
  <2>5. q \in Edges(graph, Node(n)) /\ q \in valid
    <3>1. q \in Edges(graph, Node(n)) /\ Node(n) \in Plugins
      BY <1>0, <2>1, SearchTypes DEF CallsStacked
    <3> QED
      BY <1>0, <3>1 DEF GraphSound
  <2> QED
    BY <1>3, <2>3, <2>4, <2>5 DEF Descend, Entering
<1> QED
  BY <1>2, <1>3

\* What a call changes, and what it does not.
LEMMA EnterFacts ==
  ASSUME SearchInv, NEW q \in Plugins, Entering(q)
  PROVE  /\ Len(calls') = Len(calls) + 1 /\ DOMAIN calls' = 1 .. Len(calls) + 1
         /\ \A k \in DOMAIN calls' : k = Len(calls) + 1 => Node(k)' = q /\ Left(k)' = Edges(graph, q)
         /\ \A k \in DOMAIN calls' : k # Len(calls) + 1 =>
              /\ k \in DOMAIN calls /\ Node(k)' = Node(k) /\ Node(k) # q
              /\ Left(k)' \subseteq Left(k) /\ Left(k) \ Left(k)' \subseteq {q}
         /\ DOMAIN calls \subseteq DOMAIN calls'
         /\ Numbers' = Numbers \cup {q} /\ Stacked' = Stacked \cup {q}
         /\ Running' = Running \cup {q} /\ Settled' = Settled /\ q \notin Numbers
         /\ q \notin Stacked /\ q \notin Running
         /\ indexOf'[q] = index + 1 /\ lowlink'[q] = index + 1
         /\ \A p \in Plugins : p # q => indexOf'[p] = indexOf[p] /\ lowlink'[p] = lowlink[p]
         /\ SearchTypeOK'
<1> DEFINE n == Len(calls)
<1>0. /\ SearchTypeOK /\ NumbersSound /\ CallsStacked
      /\ index \in Nat /\ indexOf \in [Plugins -> Nat] /\ lowlink \in [Plugins -> Nat]
      /\ DOMAIN calls = 1 .. n /\ n \in Nat /\ stack \in Seq(Plugins)
  BY SearchTypes DEF SearchInv, SearchSound
<1>1. /\ indexOf'[q] = index + 1 /\ lowlink'[q] = index + 1
      /\ \A p \in Plugins : p # q => indexOf'[p] = indexOf[p] /\ lowlink'[p] = lowlink[p]
      /\ indexOf' \in [Plugins -> Nat] /\ lowlink' \in [Plugins -> Nat] /\ index' \in Nat
  BY <1>0 DEF Entering, Enter
<1>2. q \notin Numbers /\ Numbers' = Numbers \cup {q}
  BY <1>0, <1>1 DEF Entering, Numbers, Numbered
<1>3. /\ stack' \in Seq(Plugins) /\ Len(stack') = Len(stack) + 1 /\ Len(stack) \in Nat
      /\ \A i \in 1 .. Len(stack) : stack'[i] = stack[i]
      /\ stack'[Len(stack) + 1] = q
      /\ DOMAIN stack = 1 .. Len(stack) /\ DOMAIN stack' = 1 .. Len(stack) + 1
  BY <1>0, AppendProperties DEF Entering, Enter
<1>4. Stacked' = Stacked \cup {q}
  <2>1. \A p \in Plugins : OnStack(p)' <=> OnStack(p) \/ p = q
    BY <1>3 DEF OnStack
  <2> QED
    BY <2>1 DEF Stacked
<1>5. q \notin Stacked /\ q \notin Running
  BY <1>0, <1>2 DEF NumbersSound, CallsStacked
<1>6. Settled' = Settled
  BY <1>2, <1>4, <1>5 DEF Settled
<1>7. Len(calls') = n + 1 /\ DOMAIN calls' = 1 .. n + 1 /\ calls' \in Seq(Call)
  BY <1>0 DEF Entering
<1>8. \A k \in DOMAIN calls' : k = n + 1 => Node(k)' = q /\ Left(k)' = Edges(graph, q)
  BY <1>0, CallsAreCalls DEF Entering, Node, Left
<1>9. \A k \in DOMAIN calls' : k # n + 1 =>
        /\ k \in DOMAIN calls /\ Node(k)' = Node(k) /\ Node(k) # q
        /\ Left(k)' \subseteq Left(k) /\ Left(k) \ Left(k)' \subseteq {q}
  <2> SUFFICES ASSUME NEW k \in DOMAIN calls', k # n + 1
               PROVE  /\ k \in DOMAIN calls /\ Node(k)' = Node(k) /\ Node(k) # q
                      /\ Left(k)' \subseteq Left(k) /\ Left(k) \ Left(k)' \subseteq {q}
    OBVIOUS
  <2>1. k \in DOMAIN calls
    BY <1>0, <1>7
  <2>2. Node(k) \in Running
    BY <2>1 DEF Running
  <2> QED
    BY <1>5, <2>1, <2>2 DEF Entering, Node, Left
<1>10. Running' = Running \cup {q}
  <2>1. \A k \in DOMAIN calls : k \in DOMAIN calls' /\ k # n + 1
    BY <1>0, <1>7
  <2>2. n + 1 \in DOMAIN calls'
    BY <1>0, <1>7
  <2>3. Running' = {Node(k)' : k \in DOMAIN calls'}
    BY DEF Running
  <2> QED
    BY <1>8, <1>9, <2>1, <2>2, <2>3 DEF Running
<1>11. SearchTypeOK'
  BY <1>0, <1>1, <1>3, <1>7 DEF SearchTypeOK, Entering
<1> QED
  BY <1>0, <1>1, <1>2, <1>4, <1>5, <1>6, <1>7, <1>8, <1>9, <1>10, <1>11

\* The calls that run are ordered as their numbers, and so is the innermost last.
LEMMA CallsInOrder ==
  ASSUME SearchTypeOK, NumbersSound, CallsStacked
  PROVE  /\ \A k \in DOMAIN calls : Node(k) \in Running /\ Node(k) \in Stacked /\ Node(k) \in Plugins
         /\ \A r \in Running : \E k \in DOMAIN calls : r = Node(k)
         /\ \A k, l \in DOMAIN calls : Node(k) = Node(l) => k = l
         /\ \A p \in Plugins : indexOf[p] \in Nat /\ indexOf[p] <= index
         /\ index \in Nat
<1>1. \A k \in DOMAIN calls : Node(k) \in Running
  BY DEF Running
<1>2. DOMAIN calls \subseteq Nat /\ \A k \in DOMAIN calls : indexOf[Node(k)] \in Nat
  BY SearchTypes
<1>3. \A k, l \in DOMAIN calls : Node(k) = Node(l) => k = l
  BY <1>2 DEF CallsStacked
<1> QED
  BY <1>1, <1>3, SearchTypes DEF CallsStacked, Running, NumbersSound

\* Reachability is that of the graph, which the search does not change.
LEMMA SameReach ==
  ASSUME UNCHANGED <<valid, graph>>
  PROVE  /\ InCycle(graph)' = InCycle(graph)
         /\ \A p \in Plugins : Reach(graph, p)' = Reach(graph, p) /\ Edges(graph, p)' = Edges(graph, p)
         /\ \A p, q \in Plugins : LeadsTo(p, q)' <=> LeadsTo(p, q)
         /\ \A p \in Plugins : Strong(p)' = Strong(p)
         /\ GraphSound => GraphSound'
<1>1. /\ InCycle(graph)' = InCycle(graph)
      /\ \A p \in Plugins : Reach(graph, p)' = Reach(graph, p)
  BY SameGraph
<1>2. \A p \in Plugins : Edges(graph, p)' = Edges(graph, p)
  BY DEF Edges
<1>3. \A p \in Plugins : Strong(p)' = Strong(p)
  <2> SUFFICES ASSUME NEW p \in Plugins PROVE Strong(p)' = Strong(p)
    OBVIOUS
  <2>1. \A q : Reach(graph, q)' = Reach(graph, q)
    BY DEF Reach, Reached, Edges
  <2> QED
    BY <2>1 DEF Strong
<1> QED
  BY <1>1, <1>2, <1>3 DEF LeadsTo, GraphSound

\* What was found stays right as long as nothing is settled.
LEMMA FoundKept ==
  ASSUME FoundSound, UNCHANGED <<valid, graph, cycles>>, Settled' = Settled, SearchTypeOK
  PROVE  FoundSound'
<1>1. \A p : Strong(p)' = Strong(p)
  <2>1. \A q : Reach(graph, q)' = Reach(graph, q)
    BY DEF Reach, Reached, Edges
  <2> QED
    BY <2>1 DEF Strong
<1>2. InCycle(graph)' = InCycle(graph)
  BY SameReach
<1>3. Found' = Found
  BY DEF Found
<1> QED
  BY <1>1, <1>2, <1>3 DEF FoundSound

LEMMA EnterStep ==
  ASSUME SearchInv, NEW q \in Plugins, Entering(q)
  PROVE  SearchInv'
<1> DEFINE n == Len(calls)
<1>0. /\ SearchTypeOK /\ NumbersSound /\ CallsStacked /\ EdgesSound /\ StackSound /\ LowSound
      /\ FoundSound /\ GraphSound
      /\ graph' = graph /\ valid' = valid /\ cycles' = cycles
  BY DEF SearchInv, SearchSound, Entering
<1>1. /\ Len(calls') = n + 1 /\ DOMAIN calls' = 1 .. n + 1
      /\ \A k \in DOMAIN calls' : k = n + 1 => Node(k)' = q /\ Left(k)' = Edges(graph, q)
      /\ \A k \in DOMAIN calls' : k # n + 1 =>
           /\ k \in DOMAIN calls /\ Node(k)' = Node(k) /\ Node(k) # q
           /\ Left(k)' \subseteq Left(k) /\ Left(k) \ Left(k)' \subseteq {q}
      /\ DOMAIN calls \subseteq DOMAIN calls'
      /\ DOMAIN calls = 1 .. n /\ n \in Nat
  BY <1>0, EnterFacts, SearchTypes
<1>2. /\ Numbers' = Numbers \cup {q} /\ Stacked' = Stacked \cup {q}
      /\ Running' = Running \cup {q} /\ Settled' = Settled /\ q \notin Numbers
      /\ q \notin Stacked /\ q \notin Running
      /\ SearchTypeOK'
  BY EnterFacts
<1>3. /\ indexOf'[q] = index + 1 /\ lowlink'[q] = index + 1 /\ index' = index + 1
      /\ \A p \in Plugins : p # q => indexOf'[p] = indexOf[p] /\ lowlink'[p] = lowlink[p]
      /\ index \in Nat /\ \A p \in Plugins : indexOf[p] \in Nat /\ indexOf[p] <= index
  BY <1>0, EnterFacts, CallsInOrder DEF Entering, Enter
<1>4. /\ \A k \in DOMAIN calls : Node(k) \in Running /\ Node(k) \in Stacked /\ Node(k) \in Plugins
      /\ \A r \in Running : \E k \in DOMAIN calls : r = Node(k)
      /\ Numbers \subseteq Plugins /\ Stacked \subseteq Numbers /\ Running \subseteq Stacked
  BY <1>0, CallsInOrder DEF NumbersSound, CallsStacked, Numbers
<1>5. /\ \A p \in Plugins : Reach(graph, p)' = Reach(graph, p) /\ Edges(graph, p)' = Edges(graph, p)
      /\ \A p, r \in Plugins : LeadsTo(p, r)' <=> LeadsTo(p, r)
      /\ GraphSound'
  BY <1>0, SameReach
<1>6. NumbersSound'
  <2>1. Numbers' \subseteq valid' /\ Stacked' \subseteq Numbers'
    BY <1>0, <1>2 DEF NumbersSound, Entering
  <2>2. \A p \in Plugins : indexOf'[p] <= index'
    BY <1>3
  <2>3. \A p, r \in Numbers' : indexOf'[p] = indexOf'[r] => p = r
    BY <1>0, <1>2, <1>3, <1>4 DEF NumbersSound
  <2>4. \A i, j \in DOMAIN stack' : i < j => indexOf'[stack'[i]] < indexOf'[stack'[j]]
    <3>1. /\ Len(stack) \in Nat /\ DOMAIN stack = 1 .. Len(stack)
          /\ \A i \in DOMAIN stack : stack[i] \in Stacked
      BY <1>0, SearchTypes
    <3>2. /\ DOMAIN stack' = 1 .. Len(stack) + 1
          /\ \A i \in 1 .. Len(stack) : stack'[i] = stack[i]
          /\ stack'[Len(stack) + 1] = q
      <4>1. stack \in Seq(Plugins) /\ stack' = Append(stack, q)
        BY <1>0, SearchTypes DEF Entering, Enter
      <4> QED
        BY <4>1, AppendProperties
    <3>3. \A i \in 1 .. Len(stack) : indexOf'[stack'[i]] = indexOf[stack[i]] /\ indexOf[stack[i]] \in Nat
                                     /\ indexOf[stack[i]] <= index
      BY <1>2, <1>3, <1>4, <3>1, <3>2
    <3>4. \A i, j \in 1 .. Len(stack) : i < j => indexOf[stack[i]] < indexOf[stack[j]]
      BY <1>0, <3>1 DEF NumbersSound
    <3> QED
      BY <1>3, <3>1, <3>2, <3>3, <3>4
  <2> QED
    BY <2>1, <2>2, <2>3, <2>4 DEF NumbersSound
<1>7. CallsStacked'
  <2>1. Running' \subseteq Stacked'
    BY <1>2, <1>4
  <2>2. ASSUME NEW k \in DOMAIN calls', NEW l \in DOMAIN calls', k < l
        PROVE  indexOf'[Node(k)'] < indexOf'[Node(l)']
    <3>1. k # n + 1 /\ k \in DOMAIN calls /\ Node(k)' = Node(k) /\ Node(k) # q
      BY <1>1, <2>2
    <3>2. CASE l = n + 1
      BY <1>1, <1>3, <1>4, <3>1, <3>2
    <3>3. CASE l # n + 1
      BY <1>0, <1>1, <1>3, <1>4, <2>2, <3>1, <3>3 DEF CallsStacked
    <3> QED
      BY <3>2, <3>3
  <2>3. ASSUME NEW k \in DOMAIN calls' PROVE Left(k)' \subseteq Edges(graph, Node(k))'
    BY <1>0, <1>1, <1>4, <1>5 DEF CallsStacked, Edges
  <2> QED
    BY <2>1, <2>2, <2>3 DEF CallsStacked
<1>8. EdgesSound'
  <2>1. ASSUME NEW p \in Numbers' \ Running' PROVE Edges(graph, p)' \subseteq Numbers'
    BY <1>0, <1>2, <1>4, <1>5, <2>1 DEF EdgesSound
  <2>2. ASSUME NEW k \in DOMAIN calls' PROVE Edges(graph, Node(k))' \ Left(k)' \subseteq Numbers'
    <3>1. Edges(graph, Node(k))' = Edges(graph, Node(k)')
      BY <1>0 DEF Edges
    <3> QED
      BY <1>0, <1>1, <1>2, <3>1 DEF EdgesSound
  <2>3. \A p \in Settled' : Edges(graph, p)' \subseteq Settled'
    BY <1>0, <1>2, <1>4, <1>5 DEF EdgesSound, Settled
  <2> QED
    BY <2>1, <2>2, <2>3 DEF EdgesSound
<1>9. StackSound'
  <2>1. ASSUME NEW p \in Stacked'
        PROVE  \E r \in Running' : indexOf'[r] <= indexOf'[p] /\ LeadsTo(p, r)'
    <3>1. CASE p = q
      BY <1>2, <1>3, <3>1 DEF LeadsTo
    <3>2. CASE p # q
      <4>1. PICK r \in Running : indexOf[r] <= indexOf[p] /\ LeadsTo(p, r)
        BY <1>0, <1>2, <3>2 DEF StackSound
      <4> QED
        BY <1>2, <1>3, <1>4, <1>5, <3>2, <4>1
    <3> QED
      BY <3>1, <3>2
  <2>2. ASSUME NEW r \in Running', NEW p \in Stacked', indexOf'[r] < indexOf'[p]
        PROVE  p \in Reach(graph, r)'
    <3>1. r # q
      BY <1>2, <1>3, <1>4, <2>2
    <3>2. CASE p # q
      BY <1>0, <1>2, <1>3, <1>4, <1>5, <2>2, <3>1, <3>2 DEF StackSound
    <3>3. CASE p = q
      <4>1. PICK k \in DOMAIN calls : r = Node(k)
        BY <1>2, <1>4, <3>1
      <4>2. n \in DOMAIN calls /\ q \in Edges(graph, Node(n)) /\ graph \in Graph
        BY <1>0, <1>1, <4>1, SearchTypes DEF Entering
      <4>3. CASE k = n
        BY <1>4, <1>5, <3>3, <4>1, <4>2, <4>3, ReachIsClosed
      <4>4. CASE k # n
        <5>1. k < n
          BY <1>1, <4>1, <4>4
        <5>2. Node(n) \in Reach(graph, r)
          BY <1>0, <1>4, <4>1, <4>2, <5>1 DEF CallsStacked, StackSound
        <5> QED
          BY <1>4, <1>5, <3>3, <4>1, <4>2, <5>2, ReachIsClosed
      <4> QED
        BY <4>3, <4>4
    <3> QED
      BY <3>2, <3>3
  <2> QED
    BY <2>1, <2>2 DEF StackSound
<1>10. LowSound'
  <2> SUFFICES ASSUME NEW k \in DOMAIN calls'
               PROVE  /\ Low(k)' <= indexOf'[Node(k)']
                      /\ \E p \in Stacked' : indexOf'[p] = Low(k)' /\ LeadsTo(Node(k), p)'
                      /\ \A t \in Stacked' : t \in Edges(graph, Node(k))' \ Left(k)' => Low(k)' <= indexOf'[t]
                      /\ \A p \in Region(k)' : \A t \in Stacked' : t \in Edges(graph, p)' => Low(k)' <= indexOf'[t]
    BY DEF LowSound
  <2>0. Low(k)' = lowlink'[Node(k)'] /\ Edges(graph, Node(k))' = Edges(graph, Node(k)')
    BY <1>0 DEF Low, Edges
  <2>1. CASE k = n + 1
    <3>1. Node(k)' = q /\ Left(k)' = Edges(graph, q)
      BY <1>1, <2>1
    <3>2. Low(k)' = index + 1
      BY <1>3, <2>0, <3>1
    <3>3. Region(k)' = {}
      <4>1. \A p \in Stacked' : p # q => indexOf'[p] <= index
        BY <1>2, <1>3, <1>4
      <4>2. \A p \in Region(k)' : p \in Stacked' /\ p \notin Running' /\ indexOf'[q] < indexOf'[p]
        BY <3>1 DEF Region
      <4> QED
        BY <1>2, <1>3, <1>4, <4>1, <4>2
    <3> QED
      BY <1>2, <1>3, <2>0, <3>1, <3>2, <3>3 DEF LeadsTo
  <2>2. CASE k # n + 1
    <3>1. /\ k \in DOMAIN calls /\ Node(k)' = Node(k) /\ Node(k) # q /\ Node(k) \in Plugins
          /\ Left(k)' \subseteq Left(k) /\ Left(k) \ Left(k)' \subseteq {q}
      BY <1>1, <1>4, <2>2
    <3>2. /\ Low(k) <= indexOf[Node(k)]
          /\ \E p \in Stacked : indexOf[p] = Low(k) /\ LeadsTo(Node(k), p)
          /\ \A t \in Stacked : t \in Edges(graph, Node(k)) \ Left(k) => Low(k) <= indexOf[t]
          /\ \A p \in Region(k) : \A t \in Stacked : t \in Edges(graph, p) => Low(k) <= indexOf[t]
      BY <1>0, <3>1 DEF LowSound
    <3>3. Low(k)' = Low(k) /\ Low(k) \in Nat /\ indexOf'[Node(k)] = indexOf[Node(k)] /\ Low(k) < indexOf'[q]
      <4>1. Low(k)' = Low(k) /\ Low(k) \in Nat /\ indexOf'[Node(k)] = indexOf[Node(k)]
        BY <1>0, <1>3, <2>0, <3>1, SearchTypes DEF Low
      <4> QED
        BY <1>3, <3>1, <3>2, <4>1
    <3>4. \E p \in Stacked' : indexOf'[p] = Low(k)' /\ LeadsTo(Node(k), p)'
      <4>1. PICK p \in Stacked : indexOf[p] = Low(k) /\ LeadsTo(Node(k), p)
        BY <3>2
      <4>2. p \in Stacked' /\ indexOf'[p] = indexOf[p] /\ p \in Plugins
        BY <1>2, <1>3, <1>4, <4>1
      <4>3. LeadsTo(Node(k), p)'
        BY <1>5, <3>1, <4>1, <4>2 DEF LeadsTo
      <4> QED
        BY <3>3, <4>1, <4>2, <4>3
    <3>5. Region(k)' \subseteq Region(k)
      <4> SUFFICES ASSUME NEW p \in Region(k)' PROVE p \in Region(k)
        OBVIOUS
      <4>1. /\ p \in Stacked' /\ p \notin Running' /\ indexOf'[Node(k)] < indexOf'[p]
            /\ k < Len(calls') => indexOf'[p] < indexOf'[Node(k + 1)']
        BY <3>1 DEF Region
      <4>2. p \in Stacked /\ p \notin Running /\ p # q /\ p \in Plugins /\ indexOf[Node(k)] < indexOf[p]
        BY <1>2, <1>3, <1>4, <3>1, <4>1
      <4>3. k < n => indexOf[p] < indexOf[Node(k + 1)]
        <5> SUFFICES ASSUME k < n PROVE indexOf[p] < indexOf[Node(k + 1)]
          OBVIOUS
        <5>1. k + 1 \in DOMAIN calls' /\ k + 1 # n + 1 /\ k < Len(calls')
          BY <1>1, <3>1
        <5>2. Node(k + 1)' = Node(k + 1) /\ Node(k + 1) # q /\ Node(k + 1) \in Plugins
          BY <1>1, <1>4, <5>1
        <5> QED
          BY <1>3, <4>1, <4>2, <5>1, <5>2
      <4> QED
        BY <4>2, <4>3 DEF Region
    <3>6. ASSUME NEW t \in Stacked', t \in Edges(graph, Node(k))' \ Left(k)' PROVE Low(k)' <= indexOf'[t]
      <4>1. CASE t = q
        BY <1>3, <3>3, <4>1
      <4>2. CASE t # q
        <5>1. t \in Stacked /\ t \in Edges(graph, Node(k)) \ Left(k) /\ t \in Plugins
          BY <1>2, <1>4, <1>5, <3>1, <3>6, <4>2
        <5> QED
          BY <1>3, <3>2, <3>3, <4>2, <5>1
      <4> QED
        BY <4>1, <4>2
    <3>7. ASSUME NEW p \in Region(k)', NEW t \in Stacked', t \in Edges(graph, p)' PROVE Low(k)' <= indexOf'[t]
      <4>1. CASE t = q
        BY <1>3, <3>3, <4>1
      <4>2. CASE t # q
        <5>1. p \in Region(k) /\ p \in Plugins
          BY <1>4, <3>5 DEF Region
        <5>2. t \in Stacked /\ t \in Edges(graph, p) /\ t \in Plugins
          BY <1>2, <1>4, <1>5, <3>7, <4>2, <5>1
        <5> QED
          BY <1>3, <3>2, <3>3, <4>2, <5>1, <5>2
      <4> QED
        BY <4>1, <4>2
    <3> QED
      BY <3>1, <3>2, <3>3, <3>4, <3>6, <3>7
  <2> QED
    BY <2>1, <2>2
<1>11. FoundSound'
  BY <1>0, <1>2, FoundKept
<1> QED
  BY <1>2, <1>5, <1>6, <1>7, <1>8, <1>9, <1>10, <1>11 DEF SearchInv, SearchSound

\* A successor that has a number is looked at.
LEMMA LookStep ==
  ASSUME SearchInv, NEW q \in Plugins, LookAt(q)
  PROVE  SearchInv'
<1> DEFINE n == Len(calls)
           v == Node(n)
<1>0. /\ SearchTypeOK /\ NumbersSound /\ CallsStacked /\ EdgesSound /\ StackSound /\ LowSound
      /\ FoundSound /\ GraphSound
      /\ UNCHANGED <<valid, graph, index, indexOf, stack, cycles>>
  BY DEF SearchInv, SearchSound, LookAt
<1>1. /\ n \in DOMAIN calls /\ DOMAIN calls = 1 .. n /\ n \in Nat
      /\ q \in Left(n) /\ q \in Numbers /\ calls' = Looked(q)
      /\ lowlink' = IF OnStack(q) THEN [lowlink EXCEPT ![v] = Min({@, indexOf[q]})] ELSE lowlink
  BY <1>0, Innermost, SearchTypes DEF LookAt, Numbers
<1>2. /\ calls' \in Seq(Call) /\ Len(calls') = n /\ DOMAIN calls' = DOMAIN calls
      /\ \A k \in DOMAIN calls :
           Node(k)' = Node(k) /\ Left(k)' = IF k = n THEN Left(k) \ {q} ELSE Left(k)
  <2>1. /\ calls' \in Seq(Call) /\ Len(calls') = n
        /\ \A k \in DOMAIN calls :
             /\ calls'[k].node = Node(k)
             /\ calls'[k].left = IF k = n THEN Left(k) \ {q} ELSE Left(k)
    BY <1>0, <1>1, LookedCalls DEF LookAt
  <2>2. DOMAIN calls' = DOMAIN calls
    BY <1>1, <2>1
  <2> QED
    BY <2>1, <2>2 DEF Node, Left
<1>3. /\ Numbers' = Numbers /\ Stacked' = Stacked /\ Settled' = Settled /\ Running' = Running
  <2>1. Numbers' = Numbers /\ Stacked' = Stacked
    BY <1>0 DEF Numbers, Stacked, Numbered, OnStack
  <2>2. Running' = {Node(k)' : k \in DOMAIN calls'}
    BY DEF Running
  <2> QED
    BY <1>2, <2>1, <2>2 DEF Settled, Running
<1>4. /\ \A k \in DOMAIN calls : Node(k) \in Running /\ Node(k) \in Stacked /\ Node(k) \in Plugins
      /\ \A k, l \in DOMAIN calls : Node(k) = Node(l) => k = l
      /\ Running \subseteq Stacked /\ Stacked \subseteq Plugins
      /\ \A p \in Plugins : indexOf[p] \in Nat /\ lowlink[p] \in Nat
  BY <1>0, CallsInOrder, SearchTypes DEF CallsStacked, Stacked
<1>5. /\ \A p \in Plugins : Reach(graph, p)' = Reach(graph, p) /\ Edges(graph, p)' = Edges(graph, p)
      /\ \A p, r \in Plugins : LeadsTo(p, r)' <=> LeadsTo(p, r)
      /\ GraphSound'
  BY <1>0, SameReach
<1>6. /\ lowlink' \in [Plugins -> Nat]
      /\ \A p \in Plugins : p # v => lowlink'[p] = lowlink[p]
      /\ lowlink'[v] = IF q \in Stacked /\ indexOf[q] < lowlink[v] THEN indexOf[q] ELSE lowlink[v]
  <2>0. OnStack(q) <=> q \in Stacked
    BY DEF Stacked
  <2>1. Min({lowlink[v], indexOf[q]}) = IF lowlink[v] <= indexOf[q] THEN lowlink[v] ELSE indexOf[q]
    BY <1>1, <1>4, MinOfTwo
  <2>2. lowlink \in [Plugins -> Nat]
    BY <1>0, SearchTypes
  <2>3. v \in Plugins /\ lowlink[v] \in Nat /\ indexOf[q] \in Nat
    BY <1>1, <1>4
  <2> HIDE DEF v
  <2> DEFINE m == Min({lowlink[v], indexOf[q]})
  <2>4. m \in Nat /\ m = IF lowlink[v] <= indexOf[q] THEN lowlink[v] ELSE indexOf[q]
    BY <2>1, <2>3
  <2>5. lowlink' = IF q \in Stacked THEN [lowlink EXCEPT ![v] = m] ELSE lowlink
    BY <1>1, <2>0
  <2> HIDE DEF m
  <2> QED
    BY <2>2, <2>3, <2>4, <2>5
<1>7. SearchTypeOK'
  BY <1>0, <1>2, <1>6 DEF SearchTypeOK
<1>8. NumbersSound'
  BY <1>0, <1>3 DEF NumbersSound
<1>9. CallsStacked'
  <2>1. \A k \in DOMAIN calls' : Left(k)' \subseteq Edges(graph, Node(k))'
    BY <1>0, <1>2 DEF CallsStacked, Edges
  <2>2. \A k, l \in DOMAIN calls' : k < l => indexOf'[Node(k)'] < indexOf'[Node(l)']
    BY <1>0, <1>2 DEF CallsStacked
  <2> QED
    BY <1>3, <1>4, <2>1, <2>2 DEF CallsStacked
<1>10. EdgesSound'
  <2>1. ASSUME NEW k \in DOMAIN calls' PROVE Edges(graph, Node(k))' \ Left(k)' \subseteq Numbers'
    <3>1. Edges(graph, Node(k))' = Edges(graph, Node(k))
      BY <1>0, <1>2 DEF Edges
    <3>2. Edges(graph, Node(k)) \ Left(k) \subseteq Numbers
      BY <1>0, <1>2 DEF EdgesSound
    <3> QED
      BY <1>1, <1>2, <1>3, <3>1, <3>2
  <2>2. \A p \in Numbers' \ Running' : Edges(graph, p)' \subseteq Numbers'
    BY <1>0, <1>3, <1>5 DEF EdgesSound, Numbers
  <2>3. \A p \in Settled' : Edges(graph, p)' \subseteq Settled'
    BY <1>0, <1>3, <1>5 DEF EdgesSound, Settled, Numbers
  <2> QED
    BY <2>1, <2>2, <2>3 DEF EdgesSound
<1>11. StackSound'
  BY <1>0, <1>3, <1>4, <1>5 DEF StackSound
<1>12. LowSound'
  <2> SUFFICES ASSUME NEW k \in DOMAIN calls'
               PROVE  /\ Low(k)' <= indexOf'[Node(k)']
                      /\ \E p \in Stacked' : indexOf'[p] = Low(k)' /\ LeadsTo(Node(k), p)'
                      /\ \A t \in Stacked' : t \in Edges(graph, Node(k))' \ Left(k)' => Low(k)' <= indexOf'[t]
                      /\ \A p \in Region(k)' : \A t \in Stacked' : t \in Edges(graph, p)' => Low(k)' <= indexOf'[t]
    BY DEF LowSound
  <2>1. /\ k \in DOMAIN calls /\ Node(k)' = Node(k) /\ Node(k) \in Plugins
        /\ Left(k)' = IF k = n THEN Left(k) \ {q} ELSE Left(k)
        /\ Low(k)' = lowlink'[Node(k)] /\ Edges(graph, Node(k))' = Edges(graph, Node(k))
    BY <1>0, <1>2, <1>4 DEF Low, Edges
  <2>2. /\ Low(k) <= indexOf[Node(k)]
        /\ \E p \in Stacked : indexOf[p] = Low(k) /\ LeadsTo(Node(k), p)
        /\ \A t \in Stacked : t \in Edges(graph, Node(k)) \ Left(k) => Low(k) <= indexOf[t]
        /\ \A p \in Region(k) : \A t \in Stacked : t \in Edges(graph, p) => Low(k) <= indexOf[t]
    BY <1>0, <2>1 DEF LowSound
  <2>3. /\ Low(k) \in Nat /\ Low(k)' \in Nat /\ Low(k)' <= Low(k)
        /\ Low(k)' = Low(k) \/ (k = n /\ q \in Stacked /\ Low(k)' = indexOf[q])
        /\ k = n /\ q \in Stacked => Low(k)' <= indexOf[q]
    <3>1. k # n => Node(k) # v
      BY <1>1, <1>4, <2>1
    <3>2. Low(k) = lowlink[Node(k)] /\ Low(k) \in Nat
      BY <1>4, <2>1 DEF Low
    <3>3. CASE k = n
      <4>1. Low(k)' = IF q \in Stacked /\ indexOf[q] < Low(k) THEN indexOf[q] ELSE Low(k)
        BY <1>6, <2>1, <3>2, <3>3
      <4>2. indexOf[q] \in Nat
        BY <1>4
      <4> QED
        BY <3>2, <3>3, <4>1, <4>2
    <3>4. CASE k # n
      <4>1. Low(k)' = Low(k)
        BY <1>6, <2>1, <3>1, <3>2, <3>4
      <4> QED
        BY <3>2, <3>4, <4>1
    <3> QED
      BY <3>3, <3>4
  <2>4. \E p \in Stacked' : indexOf'[p] = Low(k)' /\ LeadsTo(Node(k), p)'
    <3>1. \A p \in Stacked : LeadsTo(Node(k), p)' <=> LeadsTo(Node(k), p)
      <4>1. Reach(graph, Node(k))' = Reach(graph, Node(k))
        BY <1>0, <2>1 DEF Reach, Reached, Edges
      <4> QED
        BY <2>1, <4>1 DEF LeadsTo
    <3>2. CASE Low(k)' = Low(k)
      BY <1>0, <1>3, <2>2, <3>1, <3>2
    <3>3. CASE k = n /\ q \in Stacked /\ Low(k)' = indexOf[q]
      <4>1. q \in Edges(graph, Node(k)) /\ graph \in Graph
        BY <1>0, <1>1, <2>1, <3>3, SearchTypes DEF CallsStacked
      <4>2. LeadsTo(Node(k), q)
        BY <2>1, <4>1, ReachIsClosed DEF LeadsTo
      <4> QED
        BY <1>0, <1>3, <3>1, <3>3, <4>2
    <3> QED
      BY <2>3, <3>2, <3>3
  <2>5. \A t \in Stacked' : t \in Edges(graph, Node(k))' \ Left(k)' => Low(k)' <= indexOf'[t]
    <3> SUFFICES ASSUME NEW t \in Stacked, t \in Edges(graph, Node(k)) \ Left(k)' PROVE Low(k)' <= indexOf[t]
      BY <1>0, <1>3, <2>1
    <3>1. CASE t \in Left(k)
      BY <2>1, <2>3, <3>1
    <3>2. CASE t \notin Left(k)
      BY <1>4, <2>2, <2>3, <3>2
    <3> QED
      BY <3>1, <3>2
  <2>6. Region(k)' = Region(k)
    <3>1. k < n => k + 1 \in DOMAIN calls /\ Node(k + 1)' = Node(k + 1)
      BY <1>1, <1>2, <2>1
    <3> QED
      BY <1>0, <1>2, <1>3, <2>1, <3>1 DEF Region
  <2>7. \A p \in Region(k)' : \A t \in Stacked' : t \in Edges(graph, p)' => Low(k)' <= indexOf'[t]
    <3>1. \A p \in Region(k) : p \in Plugins
      BY <1>4 DEF Region
    <3> QED
      BY <1>0, <1>3, <1>4, <1>5, <2>2, <2>3, <2>6, <3>1
  <2>8. Low(k)' <= indexOf'[Node(k)']
    BY <1>0, <1>4, <2>1, <2>2, <2>3
  <2> QED
    BY <2>4, <2>5, <2>7, <2>8
<1>13. FoundSound'
  BY <1>0, <1>3, FoundKept
<1> QED
  BY <1>5, <1>7, <1>8, <1>9, <1>10, <1>11, <1>12, <1>13 DEF SearchInv, SearchSound

\* On the stack, the nodes from v up are those with its number or a higher one.
LEMMA StackParts ==
  ASSUME SearchTypeOK, NumbersSound, NEW v \in Stacked
  PROVE  /\ Component(v) = {p \in Stacked : indexOf[v] <= indexOf[p]}
         /\ Below(v) \in Seq(Plugins) /\ Len(Below(v)) \in Nat /\ Len(Below(v)) <= Len(stack)
         /\ \A i \in 1 .. Len(Below(v)) : Below(v)[i] = stack[i]
         /\ \A p \in Plugins : (\E i \in 1 .. Len(Below(v)) : Below(v)[i] = p)
                                 <=> p \in Stacked /\ indexOf[p] < indexOf[v]
<1> DEFINE at0 == PlaceOf(v)
<1>1. /\ stack \in Seq(Plugins) /\ Len(stack) \in Nat /\ DOMAIN stack = 1 .. Len(stack)
      /\ \A i \in DOMAIN stack : stack[i] \in Stacked
      /\ \A p \in Plugins : indexOf[p] \in Nat
      /\ \A i, j \in DOMAIN stack : i < j => indexOf[stack[i]] < indexOf[stack[j]]
      /\ Stacked \subseteq Plugins
  BY SearchTypes DEF NumbersSound, Stacked
<1>2. at0 \in DOMAIN stack /\ stack[at0] = v
  <2>1. \E i \in DOMAIN stack : stack[i] = v
    BY DEF Stacked, OnStack
  <2> QED
    BY <2>1 DEF PlaceOf
<1>3. \A p \in Stacked : \E i \in DOMAIN stack : stack[i] = p
  BY DEF Stacked, OnStack
<1> HIDE DEF at0
<1>4. \A i \in DOMAIN stack : i < at0 <=> indexOf[stack[i]] < indexOf[v]
  <2> SUFFICES ASSUME NEW i \in DOMAIN stack PROVE i < at0 <=> indexOf[stack[i]] < indexOf[v]
    OBVIOUS
  <2>1. indexOf[stack[i]] \in Nat /\ indexOf[v] \in Nat /\ i \in Nat /\ at0 \in Nat
    BY <1>1, <1>2
  <2>2. CASE i < at0
    BY <1>1, <1>2, <2>2
  <2>3. CASE i = at0
    BY <1>2, <2>1, <2>3
  <2>4. CASE i > at0
    BY <1>1, <1>2, <2>1, <2>4
  <2> QED
    BY <2>1, <2>2, <2>3, <2>4
<1>5. Component(v) = {p \in Stacked : indexOf[v] <= indexOf[p]}
  <2>1. Component(v) = {stack[i] : i \in at0 .. Len(stack)}
    BY DEF Component, at0
  <2>2. at0 .. Len(stack) = {i \in DOMAIN stack : ~ i < at0}
    BY <1>1, <1>2
  <2>3. \A i \in DOMAIN stack : ~ i < at0 <=> indexOf[v] <= indexOf[stack[i]]
    BY <1>1, <1>2, <1>4
  <2> QED
    BY <1>1, <1>3, <2>1, <2>2, <2>3
<1>6. /\ Below(v) \in Seq(Plugins) /\ Len(Below(v)) = at0 - 1
      /\ \A i \in 1 .. at0 - 1 : Below(v)[i] = stack[i]
  <2>1. Below(v) = SubSeq(stack, 1, at0 - 1)
    BY DEF Below, at0
  <2>2. at0 \in 1 .. Len(stack) /\ at0 - 1 \in Int /\ 1 \in Int
    BY <1>1, <1>2
  <2>3. \A i \in 1 .. at0 - 1 : stack[i] \in Plugins
    BY <1>1, <2>2
  <2>4. /\ SubSeq(stack, 1, at0 - 1) \in Seq(Plugins)
        /\ Len(SubSeq(stack, 1, at0 - 1)) = IF 1 <= at0 - 1 THEN (at0 - 1) - 1 + 1 ELSE 0
        /\ \A i \in 1 .. (at0 - 1) - 1 + 1 : SubSeq(stack, 1, at0 - 1)[i] = stack[1 + i - 1]
    BY <2>2, <2>3, SubSeqProperties
  <2> QED
    BY <1>1, <2>1, <2>2, <2>4
<1>7. \A p \in Plugins : (\E i \in 1 .. at0 - 1 : Below(v)[i] = p)
                           <=> p \in Stacked /\ indexOf[p] < indexOf[v]
  <2>1. 1 .. at0 - 1 = {i \in DOMAIN stack : i < at0}
    BY <1>1, <1>2
  <2> QED
    BY <1>1, <1>3, <1>4, <1>6, <2>1
<1> QED
  BY <1>1, <1>2, <1>5, <1>6, <1>7

\* The innermost call ends: what holds of the others, whatever becomes of the stack.
Leaving(v) ==
  /\ Len(calls) \in DOMAIN calls /\ v = Node(Len(calls)) /\ Left(Len(calls)) = {}
  /\ calls' \in Seq(Call) /\ Len(calls') = Len(calls) - 1
  /\ DOMAIN calls' = 1 .. Len(calls) - 1
  /\ \A k \in DOMAIN calls' : k \in DOMAIN calls /\ Node(k)' = Node(k) /\ Left(k)' = Left(k)
                              /\ Node(k) # v /\ indexOf[Node(k)] < indexOf[v]
  /\ Running' = Running \ {v} /\ v \in Running
  /\ lowlink' \in [Plugins -> Nat]
  /\ \A k \in DOMAIN calls' :
       Low(k)' = IF k = Len(calls') /\ lowlink[v] < Low(k) THEN lowlink[v] ELSE Low(k)
  /\ UNCHANGED <<valid, graph, index, indexOf>>

LEMMA Leaves ==
  ASSUME SearchInv, Return
  PROVE  \E v \in Stacked : /\ Leaving(v)
                            /\ IF lowlink[v] = indexOf[v]
                               THEN /\ stack' = Below(v)
                                    /\ cycles' = IF IsCycle(Component(v))
                                                 THEN Append(cycles, Component(v)) ELSE cycles
                               ELSE UNCHANGED <<stack, cycles>>
<1> DEFINE n == Len(calls)
           v == Node(n)
<1>0. SearchTypeOK /\ NumbersSound /\ CallsStacked /\ calls # << >>
  BY DEF SearchInv, SearchSound, Return
<1>1. /\ n \in DOMAIN calls /\ n >= 1 /\ DOMAIN calls = 1 .. n /\ n \in Nat
      /\ Last(calls).node = v /\ Last(calls).left = Left(n) /\ calls \in Seq(Call)
      /\ v \in Stacked /\ v \in Running /\ v \in Plugins
  BY <1>0, Innermost, SearchTypes, CallsInOrder
<1>2. /\ Left(n) = {}
      /\ calls' = Front(calls)
      /\ lowlink' = IF calls' = << >> THEN lowlink
                    ELSE [lowlink EXCEPT ![Last(calls').node] = Min({@, lowlink[v]})]
      /\ IF lowlink[v] = indexOf[v]
         THEN /\ stack' = Below(v)
              /\ cycles' = IF IsCycle(Component(v)) THEN Append(cycles, Component(v)) ELSE cycles
         ELSE UNCHANGED <<stack, cycles>>
      /\ UNCHANGED <<valid, graph, index, indexOf>>
  BY <1>1 DEF Return
<1>3. /\ calls' \in Seq(Call) /\ Len(calls') = n - 1 /\ DOMAIN calls' = 1 .. n - 1
      /\ \A k \in 1 .. n - 1 : calls'[k] = calls[k]
  <2>1. calls' = SubSeq(calls, 1, n - 1)
    BY <1>2 DEF Front
  <2>2. /\ SubSeq(calls, 1, n - 1) \in Seq(Call)
        /\ Len(SubSeq(calls, 1, n - 1)) = IF 1 <= n - 1 THEN (n - 1) - 1 + 1 ELSE 0
        /\ \A i \in 1 .. (n - 1) - 1 + 1 : SubSeq(calls, 1, n - 1)[i] = calls[1 + i - 1]
    <3>1. \A i \in 1 .. n - 1 : calls[i] \in Call
      BY <1>1
    <3> QED
      BY <1>1, <3>1, SubSeqProperties
  <2>3. Len(calls') = n - 1 /\ calls' \in Seq(Call)
    BY <1>1, <2>1, <2>2
  <2>4. \A k \in 1 .. n - 1 : calls'[k] = calls[k]
    BY <1>1, <2>1, <2>2
  <2> QED
    BY <2>3, <2>4
<1>4. \A k \in DOMAIN calls' : /\ k \in DOMAIN calls /\ k # n /\ Node(k)' = Node(k) /\ Left(k)' = Left(k)
                               /\ Node(k) # v /\ indexOf[Node(k)] < indexOf[v]
  <2> SUFFICES ASSUME NEW k \in DOMAIN calls'
               PROVE  /\ k \in DOMAIN calls /\ k # n /\ Node(k)' = Node(k) /\ Left(k)' = Left(k)
                      /\ Node(k) # v /\ indexOf[Node(k)] < indexOf[v]
    OBVIOUS
  <2>1. k \in DOMAIN calls /\ k # n /\ k < n
    BY <1>1, <1>3
  <2>2. Node(k) # v /\ indexOf[Node(k)] < indexOf[v]
    BY <1>0, <1>1, <2>1, CallsInOrder DEF CallsStacked
  <2>3. Node(k)' = Node(k) /\ Left(k)' = Left(k)
    BY <1>3 DEF Node, Left
  <2> QED
    BY <2>1, <2>2, <2>3
<1>5. Running' = Running \ {v}
  <2>1. Running' = {Node(k)' : k \in DOMAIN calls'}
    BY DEF Running
  <2>2. DOMAIN calls = DOMAIN calls' \cup {n}
    BY <1>1, <1>3
  <2> QED
    BY <1>4, <2>1, <2>2 DEF Running
<1>6. /\ lowlink' \in [Plugins -> Nat]
      /\ \A k \in DOMAIN calls' :
           Low(k)' = IF k = Len(calls') /\ lowlink[v] < Low(k) THEN lowlink[v] ELSE Low(k)
  <2>0. lowlink \in [Plugins -> Nat] /\ \A k \in DOMAIN calls : Low(k) = lowlink[Node(k)] /\ Node(k) \in Plugins
    BY <1>0, SearchTypes DEF Low
  <2>1. \A k \in DOMAIN calls' : Low(k)' = lowlink'[Node(k)]
    BY <1>4 DEF Low
  <2>2. CASE calls' = << >>
    BY <1>2, <1>3, <2>0, <2>2
  <2>3. CASE calls' # << >>
    <3> DEFINE u == Node(n - 1)
               m == Min({lowlink[u], lowlink[v]})
    <3>1. n - 1 \in DOMAIN calls' /\ n - 1 \in DOMAIN calls /\ Last(calls').node = u
      <4>1. n - 1 \in DOMAIN calls'
        BY <1>1, <1>3, <2>3
      <4>2. Last(calls') = calls[n - 1]
        BY <1>3, <4>1 DEF Last
      <4> QED
        BY <1>4, <4>1, <4>2 DEF Node
    <3>2. u \in Plugins /\ lowlink[u] \in Nat /\ lowlink[v] \in Nat
      BY <1>1, <2>0, <3>1
    <3>3. m = IF lowlink[u] <= lowlink[v] THEN lowlink[u] ELSE lowlink[v]
      BY <3>2, MinOfTwo
    <3>4. lowlink' = [lowlink EXCEPT ![u] = m]
      BY <1>2, <2>3, <3>1
    <3> HIDE DEF m
    <3>5. m \in Nat /\ lowlink' \in [Plugins -> Nat]
      BY <2>0, <3>2, <3>3, <3>4
    <3>6. ASSUME NEW k \in DOMAIN calls'
          PROVE  Low(k)' = IF k = Len(calls') /\ lowlink[v] < Low(k) THEN lowlink[v] ELSE Low(k)
      <4>1. Low(k) = lowlink[Node(k)] /\ Node(k) \in Plugins /\ Low(k)' = lowlink'[Node(k)]
        BY <1>4, <2>0, <2>1
      <4>2. CASE k = n - 1
        BY <1>3, <2>0, <3>2, <3>3, <3>4, <4>1, <4>2
      <4>3. CASE k # n - 1
        <5>1. Node(k) # u
          BY <1>0, <1>4, <3>1, <4>3, CallsInOrder
        <5> QED
          BY <1>3, <2>0, <3>4, <4>1, <4>3, <5>1
      <4> QED
        BY <4>2, <4>3
    <3> QED
      BY <3>5, <3>6
  <2> QED
    BY <2>2, <2>3
<1>7. Leaving(v)
  <2> HIDE DEF v
  <2>1. v = Node(n)
    BY DEF v
  <2> QED
    BY <1>1, <1>2, <1>3, <1>4, <1>5, <1>6, <2>1 DEF Leaving
<1> QED
  BY <1>1, <1>2, <1>7

\* What both ends of a call have in common.
LEMMA LeaveFacts ==
  ASSUME SearchInv, NEW v \in Stacked, Leaving(v)
  PROVE  /\ Numbers' = Numbers /\ Running' \subseteq Running /\ v \in Plugins
         /\ Running \subseteq Running' \cup {v} /\ v \notin Running'
         /\ \A r \in Running' : indexOf[r] < indexOf[v]
         /\ \A p \in Plugins : indexOf[p] \in Nat /\ lowlink[p] \in Nat
         /\ Edges(graph, v) \subseteq Numbers
         /\ lowlink[v] <= indexOf[v]
         /\ \A q \in Stacked : q \in Edges(graph, v) => lowlink[v] <= indexOf[q]
         /\ \A p \in Stacked \ Running : indexOf[v] < indexOf[p] =>
              \A q \in Stacked : q \in Edges(graph, p) => lowlink[v] <= indexOf[q]
         /\ \A p \in Numbers' \ Running' : Edges(graph, p)' \subseteq Numbers'
         /\ \A k \in DOMAIN calls' : Edges(graph, Node(k))' \ Left(k)' \subseteq Numbers'
         /\ \A k, l \in DOMAIN calls' : k < l => indexOf'[Node(k)'] < indexOf'[Node(l)']
         /\ \A k \in DOMAIN calls' : Left(k)' \subseteq Edges(graph, Node(k))'
         /\ \A r \in Running', p \in Stacked : indexOf'[r] < indexOf'[p] => p \in Reach(graph, r)'
<1> DEFINE n == Len(calls)
<1>0. /\ SearchTypeOK /\ NumbersSound /\ CallsStacked /\ EdgesSound /\ StackSound /\ LowSound
      /\ UNCHANGED <<valid, graph, index, indexOf>>
      /\ n \in DOMAIN calls /\ v = Node(n) /\ Left(n) = {}
  BY DEF SearchInv, SearchSound, Leaving
<1>1. /\ \A k \in DOMAIN calls' : k \in DOMAIN calls /\ Node(k)' = Node(k) /\ Left(k)' = Left(k)
                                  /\ Node(k) # v /\ indexOf[Node(k)] < indexOf[v]
      /\ Running' = Running \ {v} /\ v \in Running
      /\ DOMAIN calls' = 1 .. n - 1
  BY DEF Leaving
<1>2. Numbers' = Numbers /\ v \in Plugins /\ Numbers \subseteq Plugins
  BY <1>0 DEF Numbers, Numbered, Stacked
<1>3. /\ \A p \in Plugins : indexOf[p] \in Nat /\ lowlink[p] \in Nat
      /\ DOMAIN calls = 1 .. n /\ n \in Nat
  BY <1>0, SearchTypes
<1>4. \A r \in Running' : indexOf[r] < indexOf[v]
  <2>1. Running' = {Node(k)' : k \in DOMAIN calls'}
    BY DEF Running
  <2> QED
    BY <1>1, <2>1
<1>5. Edges(graph, v) \subseteq Numbers
  BY <1>0 DEF EdgesSound
<1>6. /\ Low(n) = lowlink[v]
      /\ Low(n) <= indexOf[Node(n)]
      /\ \A t \in Stacked : t \in Edges(graph, Node(n)) \ Left(n) => Low(n) <= indexOf[t]
      /\ \A p \in Region(n) : \A t \in Stacked : t \in Edges(graph, p) => Low(n) <= indexOf[t]
  BY <1>0 DEF LowSound, Low
<1>7. \A p \in Stacked \ Running : indexOf[v] < indexOf[p] => p \in Region(n)
  BY <1>0, <1>3 DEF Region
<1>8. ASSUME NEW p \in Numbers' \ Running' PROVE Edges(graph, p)' \subseteq Numbers'
  <2>1. Edges(graph, p)' = Edges(graph, p)
    BY <1>0 DEF Edges
  <2> QED
    BY <1>0, <1>1, <1>2, <1>5, <2>1 DEF EdgesSound
<1>9. ASSUME NEW k \in DOMAIN calls'
      PROVE  Edges(graph, Node(k))' \ Left(k)' \subseteq Numbers' /\ Left(k)' \subseteq Edges(graph, Node(k))'
  <2>1. Edges(graph, Node(k))' = Edges(graph, Node(k))
    BY <1>0, <1>1 DEF Edges
  <2> QED
    BY <1>0, <1>1, <1>2, <2>1 DEF EdgesSound, CallsStacked
<1>10. ASSUME NEW k \in DOMAIN calls', NEW l \in DOMAIN calls', k < l
       PROVE  indexOf'[Node(k)'] < indexOf'[Node(l)']
  BY <1>0, <1>1, <1>10 DEF CallsStacked
<1>11. ASSUME NEW r \in Running', NEW p \in Stacked, indexOf'[r] < indexOf'[p]
       PROVE  p \in Reach(graph, r)'
  <2>1. Reach(graph, r)' = Reach(graph, r)
    BY <1>0 DEF Reach, Reached, Edges
  <2> QED
    BY <1>0, <1>1, <1>11, <2>1 DEF StackSound
<1> QED
  BY <1>0, <1>1, <1>2, <1>3, <1>4, <1>5, <1>6, <1>7, <1>8, <1>9, <1>10, <1>11

\* The component of v is not complete: v leads to a running node below it.
LEMMA OpenStep ==
  ASSUME SearchInv, NEW v \in Stacked, Leaving(v), lowlink[v] # indexOf[v], UNCHANGED <<stack, cycles>>
  PROVE  SearchInv'
<1> DEFINE n == Len(calls)
<1>0. /\ SearchTypeOK /\ NumbersSound /\ CallsStacked /\ EdgesSound /\ StackSound /\ LowSound
      /\ FoundSound /\ GraphSound /\ graph \in Graph
      /\ UNCHANGED <<valid, graph, index, indexOf>>
      /\ n \in DOMAIN calls /\ v = Node(n) /\ Left(n) = {} /\ n \in Nat
  BY SearchTypes DEF SearchInv, SearchSound, Leaving
<1>1. /\ Numbers' = Numbers /\ Running' \subseteq Running /\ v \in Plugins
      /\ Running \subseteq Running' \cup {v} /\ v \notin Running'
      /\ \A r \in Running' : indexOf[r] < indexOf[v]
      /\ \A p \in Plugins : indexOf[p] \in Nat /\ lowlink[p] \in Nat
      /\ lowlink[v] <= indexOf[v]
      /\ \A q \in Stacked : q \in Edges(graph, v) => lowlink[v] <= indexOf[q]
      /\ \A p \in Stacked \ Running : indexOf[v] < indexOf[p] =>
           \A q \in Stacked : q \in Edges(graph, p) => lowlink[v] <= indexOf[q]
  BY LeaveFacts
<1>2. /\ calls' \in Seq(Call) /\ Len(calls') = n - 1 /\ DOMAIN calls' = 1 .. n - 1
      /\ \A k \in DOMAIN calls' : k \in DOMAIN calls /\ Node(k)' = Node(k) /\ Left(k)' = Left(k)
                                  /\ Node(k) # v /\ indexOf[Node(k)] < indexOf[v]
      /\ lowlink' \in [Plugins -> Nat]
      /\ \A k \in DOMAIN calls' :
           Low(k)' = IF k = Len(calls') /\ lowlink[v] < Low(k) THEN lowlink[v] ELSE Low(k)
  BY DEF Leaving
<1>3. Stacked' = Stacked /\ Settled' = Settled /\ Stacked \subseteq Plugins /\ Running \subseteq Stacked
  BY <1>0, <1>1 DEF Stacked, OnStack, Settled, CallsStacked
<1>4. /\ \A p \in Plugins : Reach(graph, p)' = Reach(graph, p) /\ Edges(graph, p)' = Edges(graph, p)
      /\ \A p, r \in Plugins : LeadsTo(p, r)' <=> LeadsTo(p, r)
      /\ GraphSound'
  BY <1>0, SameReach
<1>5. PICK z \in Stacked : z \in Reach(graph, v) /\ indexOf[z] = lowlink[v] /\ indexOf[z] < indexOf[v]
  <2>1. PICK z \in Stacked : indexOf[z] = Low(n) /\ LeadsTo(v, z)
    BY <1>0 DEF LowSound
  <2>2. Low(n) = lowlink[v]
    BY <1>0 DEF Low
  <2> QED
    BY <1>1, <2>1, <2>2 DEF LeadsTo
<1>6. PICK r \in Running' : r \in Reach(graph, v) /\ indexOf[r] < indexOf[v]
  <2>1. PICK r \in Running : indexOf[r] <= indexOf[z] /\ LeadsTo(z, r)
    BY <1>0 DEF StackSound
  <2>2. r \in Running' /\ indexOf[r] < indexOf[v]
    BY <1>1, <1>3, <1>5, <2>1
  <2>3. r \in Reach(graph, v)
    BY <1>0, <1>1, <1>5, <2>1, ReachIsTransitive DEF LeadsTo
  <2> QED
    BY <2>2, <2>3
<1>7. SearchTypeOK'
  BY <1>0, <1>2 DEF SearchTypeOK
<1>8. NumbersSound'
  BY <1>0, <1>1, <1>3 DEF NumbersSound
<1>9. CallsStacked'
  BY <1>1, <1>3, LeaveFacts DEF CallsStacked
<1>10. EdgesSound'
  <2>1. \A p \in Settled' : Edges(graph, p)' \subseteq Settled'
    BY <1>0, <1>3, <1>4 DEF EdgesSound, Settled, Numbers
  <2> QED
    BY <2>1, LeaveFacts DEF EdgesSound
<1>11. StackSound'
  <2>1. ASSUME NEW p \in Stacked'
        PROVE  \E s \in Running' : indexOf'[s] <= indexOf'[p] /\ LeadsTo(p, s)'
    <3>1. PICK s \in Running : indexOf[s] <= indexOf[p] /\ LeadsTo(p, s)
      BY <1>0, <1>3 DEF StackSound
    <3>2. CASE s # v
      BY <1>0, <1>1, <1>3, <1>4, <3>1, <3>2
    <3>3. CASE s = v
      <4>1. LeadsTo(p, r)
        BY <1>0, <1>3, <1>6, <3>1, <3>3, ReachIsTransitive DEF LeadsTo
      <4>2. indexOf[r] <= indexOf[p]
        BY <1>1, <1>3, <1>6, <3>1, <3>3
      <4> QED
        BY <1>0, <1>1, <1>3, <1>4, <4>1, <4>2
    <3> QED
      BY <3>2, <3>3
  <2> QED
    BY <1>3, <2>1, LeaveFacts DEF StackSound
<1>12. LowSound'
  <2> SUFFICES ASSUME NEW k \in DOMAIN calls'
               PROVE  /\ Low(k)' <= indexOf'[Node(k)']
                      /\ \E p \in Stacked' : indexOf'[p] = Low(k)' /\ LeadsTo(Node(k), p)'
                      /\ \A t \in Stacked' : t \in Edges(graph, Node(k))' \ Left(k)' => Low(k)' <= indexOf'[t]
                      /\ \A p \in Region(k)' : \A t \in Stacked' : t \in Edges(graph, p)' => Low(k)' <= indexOf'[t]
    BY DEF LowSound
  <2>1. /\ k \in DOMAIN calls /\ Node(k)' = Node(k) /\ Left(k)' = Left(k) /\ Node(k) # v
        /\ indexOf[Node(k)] < indexOf[v] /\ Edges(graph, Node(k))' = Edges(graph, Node(k))
        /\ Low(k)' = IF k = n - 1 /\ lowlink[v] < Low(k) THEN lowlink[v] ELSE Low(k)
    BY <1>0, <1>2 DEF Edges
  <2>2. /\ Low(k) <= indexOf[Node(k)]
        /\ \E p \in Stacked : indexOf[p] = Low(k) /\ LeadsTo(Node(k), p)
        /\ \A t \in Stacked : t \in Edges(graph, Node(k)) \ Left(k) => Low(k) <= indexOf[t]
        /\ \A p \in Region(k) : \A t \in Stacked : t \in Edges(graph, p) => Low(k) <= indexOf[t]
    BY <1>0, <2>1 DEF LowSound
  <2>3. /\ Node(k) \in Plugins /\ Node(k) \in Running /\ Low(k) = lowlink[Node(k)] /\ Low(k) \in Nat
        /\ lowlink[v] \in Nat /\ Low(k)' \in Nat /\ Low(k)' <= Low(k)
        /\ k = n - 1 => Low(k)' <= lowlink[v]
    <3>1. Node(k) \in Plugins /\ Node(k) \in Running /\ Low(k) = lowlink[Node(k)]
      BY <1>0, <2>1, CallsInOrder DEF Low
    <3>2. Low(k) \in Nat /\ lowlink[v] \in Nat
      BY <1>1, <3>1
    <3> QED
      BY <2>1, <3>1, <3>2
  <2>4. Low(k)' <= indexOf'[Node(k)']
    BY <1>0, <1>1, <2>1, <2>2, <2>3
  <2>5. \E p \in Stacked' : indexOf'[p] = Low(k)' /\ LeadsTo(Node(k), p)'
    <3>1. \A p \in Stacked : LeadsTo(Node(k), p)' <=> LeadsTo(Node(k), p)
      <4>1. Reach(graph, Node(k))' = Reach(graph, Node(k))
        BY <1>0, <2>1 DEF Reach, Reached, Edges
      <4> QED
        BY <2>1, <4>1 DEF LeadsTo
    <3>2. CASE Low(k)' = Low(k)
      BY <1>0, <1>3, <2>2, <3>1, <3>2
    <3>3. CASE Low(k)' = lowlink[v]
      <4>1. v \in Reach(graph, Node(k))
        BY <1>0, <2>1, <2>3 DEF StackSound
      <4>2. LeadsTo(Node(k), z)
        BY <1>0, <1>5, <2>3, <4>1, ReachIsTransitive DEF LeadsTo
      <4> QED
        BY <1>0, <1>3, <1>5, <3>1, <3>3, <4>2
    <3> QED
      BY <2>1, <3>2, <3>3
  <2>6. \A t \in Stacked' : t \in Edges(graph, Node(k))' \ Left(k)' => Low(k)' <= indexOf'[t]
    <3> SUFFICES ASSUME NEW t \in Stacked, t \in Edges(graph, Node(k)) \ Left(k) PROVE Low(k)' <= indexOf[t]
      BY <1>0, <1>3, <2>1
    <3> QED
      BY <1>1, <1>3, <2>2, <2>3
  <2>7. ASSUME NEW p \in Region(k)', NEW t \in Stacked', t \in Edges(graph, p)' PROVE Low(k)' <= indexOf'[t]
    <3>1. /\ p \in Stacked /\ p \notin Running' /\ indexOf[Node(k)] < indexOf[p] /\ p \in Plugins
          /\ k < n - 1 => indexOf[p] < indexOf'[Node(k + 1)']
      BY <1>0, <1>2, <1>3, <2>1 DEF Region
    <3>2. t \in Stacked /\ t \in Edges(graph, p) /\ t \in Plugins /\ indexOf'[t] = indexOf[t]
      BY <1>0, <1>3, <1>4, <2>7, <3>1
    <3>3. CASE k < n - 1
      <4>1. /\ k + 1 \in DOMAIN calls' /\ Node(k + 1)' = Node(k + 1)
            /\ indexOf[Node(k + 1)] < indexOf[v] /\ Node(k + 1) \in Plugins
        BY <1>0, <1>2, <3>3, CallsInOrder
      <4>2. indexOf[p] < indexOf[Node(k + 1)] /\ p # v
        BY <1>0, <1>1, <3>1, <3>3, <4>1
      <4>3. p \in Region(k)
        BY <1>1, <3>1, <4>2 DEF Region
      <4> QED
        BY <1>1, <2>2, <2>3, <3>2, <4>3
    <3>4. CASE k = n - 1
      <4>1. CASE p = v
        BY <1>1, <2>3, <3>2, <3>4, <4>1
      <4>2. CASE p # v /\ indexOf[v] < indexOf[p]
        BY <1>1, <2>3, <3>1, <3>2, <3>4, <4>2
      <4>3. CASE p # v /\ indexOf[p] < indexOf[v]
        <5>1. p \in Region(k)
          BY <1>0, <1>1, <3>1, <3>4, <4>3 DEF Region
        <5> QED
          BY <1>1, <2>2, <2>3, <3>2, <5>1
      <4>4. p # v => indexOf[p] # indexOf[v]
        BY <1>0, <3>1 DEF NumbersSound
      <4> QED
        BY <1>1, <3>1, <4>1, <4>2, <4>3, <4>4
    <3> QED
      BY <1>0, <1>2, <3>3, <3>4
  <2> QED
    BY <2>4, <2>5, <2>6, <2>7
<1>13. FoundSound'
  BY <1>0, <1>3, FoundKept
<1> QED
  BY <1>4, <1>7, <1>8, <1>9, <1>10, <1>11, <1>12, <1>13 DEF SearchInv, SearchSound

\* The component of v is complete: all that is from v up on the stack leads to v
\* and to nothing else that is not settled.
Rest(v) == {p \in Stacked : indexOf[v] <= indexOf[p]}

LEMMA RestIsClosed ==
  ASSUME SearchInv, NEW v \in Stacked, Leaving(v), lowlink[v] = indexOf[v]
  PROVE  /\ v \in Rest(v) /\ Rest(v) \subseteq Stacked
         /\ \A p \in Rest(v) : Edges(graph, p) \subseteq Settled \cup Rest(v)
         /\ \A p \in Rest(v) : Reach(graph, p) \subseteq Settled \cup Rest(v)
         /\ \A p \in Settled : Reach(graph, p) \subseteq Settled
         /\ \A p \in Rest(v) : p # v => p \in Reach(graph, v) /\ v \in Reach(graph, p)
         /\ v \in Reach(graph, v) => Rest(v) # {v}
<1>0. /\ SearchTypeOK /\ NumbersSound /\ CallsStacked /\ EdgesSound /\ StackSound
      /\ GraphSound /\ graph \in Graph /\ v \in Plugins /\ Numbers \subseteq Plugins
      /\ Stacked \subseteq Numbers
  BY SearchTypes DEF SearchInv, SearchSound, Stacked, Numbers, NumbersSound
<1>1. /\ Running' \subseteq Running /\ v \in Running
      /\ Running \subseteq Running' \cup {v} /\ v \notin Running'
      /\ \A r \in Running' : indexOf[r] < indexOf[v]
      /\ \A p \in Plugins : indexOf[p] \in Nat /\ lowlink[p] \in Nat
      /\ Edges(graph, v) \subseteq Numbers
      /\ \A q \in Stacked : q \in Edges(graph, v) => lowlink[v] <= indexOf[q]
      /\ \A p \in Stacked \ Running : indexOf[v] < indexOf[p] =>
           \A q \in Stacked : q \in Edges(graph, p) => lowlink[v] <= indexOf[q]
  BY LeaveFacts DEF Leaving
<1>2. v \in Rest(v) /\ Rest(v) \subseteq Stacked
  BY <1>0, <1>1 DEF Rest
<1>3. ASSUME NEW p \in Rest(v), p # v PROVE p \notin Running /\ indexOf[v] < indexOf[p] /\ p \in Numbers
  <2>1. p \in Stacked /\ p \in Plugins /\ indexOf[v] <= indexOf[p] /\ p \in Numbers
    BY <1>0 DEF Rest
  <2>2. indexOf[v] # indexOf[p]
    BY <1>0, <1>3, <2>1 DEF NumbersSound
  <2> QED
    BY <1>0, <1>1, <1>3, <2>1, <2>2
<1>4. ASSUME NEW p \in Rest(v) PROVE Edges(graph, p) \subseteq Settled \cup Rest(v)
  <2>1. p \in Stacked /\ Edges(graph, p) \subseteq Numbers
    BY <1>1, <1>2, <1>3, <1>0 DEF EdgesSound
  <2>2. \A q \in Stacked : q \in Edges(graph, p) => indexOf[v] <= indexOf[q]
    BY <1>1, <1>3, <2>1
  <2> QED
    BY <2>1, <2>2 DEF Settled, Rest
<1>5. \A p \in Settled : p \in Plugins /\ Edges(graph, p) \subseteq Settled
  BY <1>0 DEF EdgesSound, Settled
<1>6. ASSUME NEW p \in Rest(v) PROVE Reach(graph, p) \subseteq Settled \cup Rest(v)
  <2> DEFINE S == Settled \cup Rest(v)
  <2>1. Edges(graph, p) \subseteq S /\ \A q \in S : Edges(graph, q) \subseteq S
    BY <1>4, <1>5
  <2>2. p \in Plugins
    BY <1>0, <1>2
  <2> HIDE DEF S
  <2>3. Reach(graph, p) \subseteq S
    BY <1>0, <2>1, <2>2, ReachIsLeast
  <2> QED
    BY <2>3 DEF S
<1>7. ASSUME NEW p \in Settled PROVE Reach(graph, p) \subseteq Settled
  BY <1>0, <1>5, ReachIsLeast
<1>8. ASSUME NEW p \in Rest(v), p # v PROVE p \in Reach(graph, v) /\ v \in Reach(graph, p)
  <2>1. p \in Stacked /\ p \notin Running /\ indexOf[v] < indexOf[p] /\ p \in Plugins
    BY <1>0, <1>2, <1>3, <1>8
  <2>2. p \in Reach(graph, v)
    BY <1>0, <1>1, <2>1 DEF StackSound
  <2>3. PICK r \in Running : indexOf[r] <= indexOf[p] /\ LeadsTo(p, r)
    BY <1>0, <2>1 DEF StackSound
  <2>4. r \in Reach(graph, p) /\ r \in Stacked
    BY <1>0, <2>1, <2>3 DEF LeadsTo, CallsStacked
  <2>5. r \in Rest(v)
    BY <1>6, <2>4 DEF Settled
  <2>6. r = v
    BY <1>3, <2>5
  <2> QED
    BY <2>2, <2>4, <2>6
<1>9. ASSUME v \in Reach(graph, v), Rest(v) = {v} PROVE FALSE
  <2>1. Edges(graph, v) \subseteq Settled
    BY <1>0, <1>2, <1>4, <1>9 DEF GraphSound
  <2>2. Reach(graph, v) \subseteq Settled
    BY <1>0, <1>5, <2>1, ReachIsLeast
  <2> QED
    BY <1>9, <2>2 DEF Settled
<1> QED
  BY <1>2, <1>4, <1>6, <1>7, <1>8, <1>9

\* So it is a cycle exactly when it has more than one node, and then it is what
\* each of its nodes leads to and from.
LEMMA RestIsStrong ==
  ASSUME SearchInv, NEW v \in Stacked, Leaving(v), lowlink[v] = indexOf[v]
  PROVE  /\ IsCycle(Rest(v)) => Rest(v) \subseteq InCycle(graph) /\ \A p \in Rest(v) : Rest(v) = Strong(p)
         /\ ~ IsCycle(Rest(v)) => Rest(v) \cap InCycle(graph) = {}
<1> DEFINE C == Rest(v)
<1>0. /\ SearchTypeOK /\ graph \in Graph /\ valid \subseteq Plugins /\ v \in Plugins
      /\ Stacked \subseteq valid /\ Settled \cap Stacked = {}
  BY SearchTypes DEF SearchInv, SearchSound, Stacked, NumbersSound, Settled
<1>1. /\ v \in C /\ C \subseteq Stacked
      /\ \A p \in C : Reach(graph, p) \subseteq Settled \cup C
      /\ \A p \in Settled : Reach(graph, p) \subseteq Settled
      /\ \A p \in C : p # v => p \in Reach(graph, v) /\ v \in Reach(graph, p)
      /\ v \in Reach(graph, v) => C # {v}
  BY RestIsClosed
<1> HIDE DEF C
<1>2. IsFiniteSet(C) /\ Cardinality(C) \in Nat /\ C # {}
  <2>1. C \subseteq Plugins
    BY <1>0, <1>1
  <2> QED
    BY <1>1, <2>1, PluginsAssumption, FS_Subset, FS_CardinalityType
<1>3. IsCycle(C) <=> C # {v}
  <2>1. Cardinality(C) # 0
    BY <1>2, FS_EmptySet
  <2>2. Cardinality(C) = 1 <=> C = {v}
    BY <1>1, <1>2, FS_Singleton
  <2> QED
    BY <1>2, <2>1, <2>2 DEF IsCycle
<1>4. CASE C = {v}
  BY <1>1, <1>3, <1>4 DEF InCycle, C
<1>5. CASE C # {v}
  <2>1. PICK w \in C : w # v
    BY <1>1, <1>5
  <2>2. v \in Reach(graph, v)
    BY <1>0, <1>1, <2>1, ReachIsTransitive
  <2>3. \A p \in C : v \in Reach(graph, p) /\ p \in Reach(graph, v) /\ p \in Plugins
    BY <1>0, <1>1, <2>2
  <2>4. \A p, q \in C : q \in Reach(graph, p)
    BY <1>0, <2>3, ReachIsTransitive
  <2>5. ASSUME NEW p \in C PROVE C = Strong(p)
    <3>1. C \subseteq Strong(p)
      BY <1>0, <1>1, <2>4 DEF Strong
    <3>2. Strong(p) \subseteq C
      BY <1>0, <1>1 DEF Strong
    <3> QED
      BY <3>1, <3>2
  <2>6. C \subseteq InCycle(graph)
    BY <2>3, <2>4 DEF InCycle
  <2> QED
    BY <1>3, <1>5, <2>5, <2>6 DEF C
<1> QED
  BY <1>4, <1>5

LEMMA CloseStep ==
  ASSUME SearchInv, NEW v \in Stacked, Leaving(v), lowlink[v] = indexOf[v], stack' = Below(v),
         cycles' = IF IsCycle(Component(v)) THEN Append(cycles, Component(v)) ELSE cycles
  PROVE  SearchInv'
<1> DEFINE n == Len(calls)
           C == Rest(v)
<1>0. /\ SearchTypeOK /\ NumbersSound /\ CallsStacked /\ EdgesSound /\ StackSound /\ LowSound
      /\ FoundSound /\ GraphSound /\ graph \in Graph
      /\ UNCHANGED <<valid, graph, index, indexOf>>
      /\ n \in DOMAIN calls /\ v = Node(n) /\ Left(n) = {} /\ n \in Nat
      /\ Stacked \subseteq Numbers /\ Numbers \subseteq Plugins
  BY SearchTypes DEF SearchInv, SearchSound, Leaving, NumbersSound, Numbers
<1>1. /\ Numbers' = Numbers /\ Running' \subseteq Running /\ v \in Plugins
      /\ Running \subseteq Running' \cup {v} /\ v \notin Running'
      /\ \A r \in Running' : indexOf[r] < indexOf[v]
      /\ \A p \in Plugins : indexOf[p] \in Nat /\ lowlink[p] \in Nat
  BY LeaveFacts
<1>2. /\ calls' \in Seq(Call) /\ Len(calls') = n - 1 /\ DOMAIN calls' = 1 .. n - 1
      /\ \A k \in DOMAIN calls' : k \in DOMAIN calls /\ Node(k)' = Node(k) /\ Left(k)' = Left(k)
                                  /\ Node(k) # v /\ indexOf[Node(k)] < indexOf[v]
      /\ lowlink' \in [Plugins -> Nat]
      /\ \A k \in DOMAIN calls' :
           Low(k)' = IF k = Len(calls') /\ lowlink[v] < Low(k) THEN lowlink[v] ELSE Low(k)
  BY DEF Leaving
<1>3. /\ v \in C /\ C \subseteq Stacked
      /\ \A p \in C : Edges(graph, p) \subseteq Settled \cup C
      /\ IsCycle(C) => C \subseteq InCycle(graph) /\ \A p \in C : C = Strong(p)
      /\ ~ IsCycle(C) => C \cap InCycle(graph) = {}
  BY RestIsClosed, RestIsStrong
<1>4. /\ Component(v) = C
      /\ stack' \in Seq(Plugins) /\ DOMAIN stack' = 1 .. Len(stack') /\ DOMAIN stack' \subseteq DOMAIN stack
      /\ \A i \in DOMAIN stack' : stack'[i] = stack[i]
      /\ \A p \in Plugins : (\E i \in DOMAIN stack' : stack'[i] = p)
                              <=> p \in Stacked /\ indexOf[p] < indexOf[v]
  <2>1. /\ Component(v) = C
        /\ stack' \in Seq(Plugins) /\ Len(stack') \in Nat /\ Len(stack') <= Len(stack)
        /\ \A i \in 1 .. Len(stack') : stack'[i] = stack[i]
        /\ \A p \in Plugins : (\E i \in 1 .. Len(stack') : stack'[i] = p)
                                <=> p \in Stacked /\ indexOf[p] < indexOf[v]
    BY <1>0, StackParts DEF Rest
  <2>2. DOMAIN stack' = 1 .. Len(stack') /\ DOMAIN stack = 1 .. Len(stack) /\ Len(stack) \in Nat
    BY <1>0, <2>1, SearchTypes
  <2> QED
    BY <2>1, <2>2
<1>5. Stacked' = {p \in Stacked : indexOf[p] < indexOf[v]}
  <2>1. Stacked' = {p \in Plugins : \E i \in DOMAIN stack' : stack'[i] = p}
    BY DEF Stacked, OnStack
  <2> QED
    BY <1>0, <1>4, <2>1
<1>6. Stacked' = Stacked \ C /\ Settled' = Settled \cup C /\ Running' \subseteq Stacked' /\ Stacked \subseteq Plugins
  <2>1. Stacked' = Stacked \ C
    BY <1>0, <1>1, <1>5 DEF Rest
  <2>2. Settled' = Settled \cup C
    BY <1>0, <1>1, <1>3, <2>1 DEF Settled
  <2>3. Running' \subseteq Stacked'
    BY <1>0, <1>1, <1>5 DEF CallsStacked
  <2> QED
    BY <1>0, <2>1, <2>2, <2>3
<1> HIDE DEF C
<1>7. /\ \A p \in Plugins : Reach(graph, p)' = Reach(graph, p) /\ Edges(graph, p)' = Edges(graph, p)
      /\ \A p, r \in Plugins : LeadsTo(p, r)' <=> LeadsTo(p, r)
      /\ InCycle(graph)' = InCycle(graph) /\ \A p \in Plugins : Strong(p)' = Strong(p)
      /\ GraphSound'
  BY <1>0, SameReach
<1>8. /\ cycles \in Seq(SUBSET Plugins) /\ C \in SUBSET Plugins
      /\ cycles' = IF IsCycle(C) THEN Append(cycles, C) ELSE cycles
      /\ DOMAIN cycles = 1 .. Len(cycles) /\ Len(cycles) \in Nat
  BY <1>0, <1>3, <1>4, <1>6 DEF SearchTypeOK
<1>9. SearchTypeOK'
  <2>1. cycles' \in Seq(SUBSET Plugins)
    BY <1>8, AppendProperties
  <2> QED
    BY <1>0, <1>2, <1>4, <2>1 DEF SearchTypeOK
<1>10. NumbersSound'
  <2>1. \A i, j \in DOMAIN stack' : i < j => indexOf'[stack'[i]] < indexOf'[stack'[j]]
    BY <1>0, <1>4 DEF NumbersSound
  <2> QED
    BY <1>0, <1>1, <1>6, <2>1 DEF NumbersSound
<1>11. CallsStacked'
  BY <1>6, LeaveFacts DEF CallsStacked
<1>12. EdgesSound'
  <2>1. \A p \in Settled' : Edges(graph, p)' \subseteq Settled'
    BY <1>0, <1>3, <1>6, <1>7 DEF EdgesSound, Settled
  <2> QED
    BY <2>1, LeaveFacts DEF EdgesSound
<1>13. StackSound'
  <2>1. ASSUME NEW p \in Stacked'
        PROVE  \E s \in Running' : indexOf'[s] <= indexOf'[p] /\ LeadsTo(p, s)'
    <3>1. p \in Stacked /\ indexOf[p] < indexOf[v] /\ p \in Plugins
      BY <1>5, <1>6
    <3>2. PICK s \in Running : indexOf[s] <= indexOf[p] /\ LeadsTo(p, s)
      BY <1>0, <3>1 DEF StackSound
    <3>3. s # v /\ s \in Plugins
      BY <1>0, <1>1, <1>6, <3>1, <3>2 DEF CallsStacked
    <3> QED
      BY <1>0, <1>1, <1>7, <3>1, <3>2, <3>3
  <2> QED
    BY <1>6, <2>1, LeaveFacts DEF StackSound
<1>14. LowSound'
  <2> SUFFICES ASSUME NEW k \in DOMAIN calls'
               PROVE  /\ Low(k)' <= indexOf'[Node(k)']
                      /\ \E p \in Stacked' : indexOf'[p] = Low(k)' /\ LeadsTo(Node(k), p)'
                      /\ \A t \in Stacked' : t \in Edges(graph, Node(k))' \ Left(k)' => Low(k)' <= indexOf'[t]
                      /\ \A p \in Region(k)' : \A t \in Stacked' : t \in Edges(graph, p)' => Low(k)' <= indexOf'[t]
    BY DEF LowSound
  <2>1. /\ k \in DOMAIN calls /\ Node(k)' = Node(k) /\ Left(k)' = Left(k) /\ Node(k) # v
        /\ indexOf[Node(k)] < indexOf[v] /\ Edges(graph, Node(k))' = Edges(graph, Node(k))
        /\ Low(k)' = IF k = n - 1 /\ lowlink[v] < Low(k) THEN lowlink[v] ELSE Low(k)
    BY <1>0, <1>2 DEF Edges
  <2>2. /\ Low(k) <= indexOf[Node(k)]
        /\ \E p \in Stacked : indexOf[p] = Low(k) /\ LeadsTo(Node(k), p)
        /\ \A t \in Stacked : t \in Edges(graph, Node(k)) \ Left(k) => Low(k) <= indexOf[t]
        /\ \A p \in Region(k) : \A t \in Stacked : t \in Edges(graph, p) => Low(k) <= indexOf[t]
    BY <1>0, <2>1 DEF LowSound
  <2>3. /\ Node(k) \in Plugins /\ Low(k) \in Nat /\ Low(k)' = Low(k) /\ Low(k) < indexOf[v]
    <3>1. Node(k) \in Plugins /\ Low(k) = lowlink[Node(k)]
      BY <1>0, <2>1, CallsInOrder DEF Low
    <3>2. Low(k) \in Nat /\ lowlink[v] \in Nat /\ indexOf[Node(k)] \in Nat /\ indexOf[v] \in Nat
      BY <1>1, <3>1
    <3> QED
      BY <2>1, <2>2, <3>1, <3>2
  <2>4. \E p \in Stacked' : indexOf'[p] = Low(k)' /\ LeadsTo(Node(k), p)'
    <3>1. PICK p \in Stacked : indexOf[p] = Low(k) /\ LeadsTo(Node(k), p)
      BY <2>2
    <3>2. p \in Stacked'
      BY <1>5, <2>3, <3>1
    <3>3. LeadsTo(Node(k), p)'
      <4>1. Reach(graph, Node(k))' = Reach(graph, Node(k))
        BY <1>0, <2>1 DEF Reach, Reached, Edges
      <4> QED
        BY <2>1, <3>1, <4>1 DEF LeadsTo
    <3> QED
      BY <1>0, <2>3, <3>1, <3>2, <3>3
  <2>5. Region(k)' \subseteq Region(k)
    <3> SUFFICES ASSUME NEW p \in Region(k)' PROVE p \in Region(k)
      OBVIOUS
    <3>1. /\ p \in Stacked' /\ p \notin Running' /\ indexOf[Node(k)] < indexOf[p]
          /\ k < n - 1 => indexOf[p] < indexOf'[Node(k + 1)']
      BY <1>0, <1>2, <2>1 DEF Region
    <3>2. p \in Stacked /\ p \in Plugins /\ indexOf[p] < indexOf[v] /\ p # v /\ p \notin Running
      BY <1>1, <1>5, <1>6, <3>1
    <3>3. k < n => indexOf[p] < indexOf[Node(k + 1)]
      <4>1. CASE k < n - 1
        <5>1. k + 1 \in DOMAIN calls' /\ Node(k + 1)' = Node(k + 1)
          BY <1>0, <1>2, <4>1
        <5> QED
          BY <1>0, <3>1, <4>1, <5>1
      <4>2. CASE k = n - 1
        BY <1>0, <3>2, <4>2
      <4> QED
        BY <1>0, <1>2, <4>1, <4>2
    <3> QED
      BY <3>1, <3>2, <3>3 DEF Region
  <2>6. \A t \in Stacked' : t \in Edges(graph, Node(k))' \ Left(k)' => Low(k)' <= indexOf'[t]
    BY <1>0, <1>6, <2>1, <2>2, <2>3
  <2>7. ASSUME NEW p \in Region(k)', NEW t \in Stacked', t \in Edges(graph, p)' PROVE Low(k)' <= indexOf'[t]
    <3>1. p \in Region(k) /\ p \in Plugins
      BY <1>6, <2>5 DEF Region
    <3> QED
      BY <1>0, <1>6, <1>7, <2>2, <2>3, <2>7, <3>1
  <2>8. Low(k)' <= indexOf'[Node(k)']
    BY <1>0, <2>1, <2>2, <2>3
  <2> QED
    BY <2>4, <2>6, <2>7, <2>8
<1>15. FoundSound'
  <2>0. /\ Found = InCycle(graph) \cap Settled
        /\ \A i, j \in DOMAIN cycles : i # j => cycles[i] \cap cycles[j] = {}
        /\ \A i \in DOMAIN cycles : cycles[i] # {} /\ cycles[i] \subseteq Settled
                                    /\ \A p \in cycles[i] : p \in Plugins /\ cycles[i] = Strong(p)
        /\ Settled \cap C = {}
    <3>1. \A i \in DOMAIN cycles : cycles[i] \subseteq Found
      BY DEF Found
    <3> QED
      BY <1>0, <1>3, <3>1 DEF FoundSound, Settled
  <2>1. CASE ~ IsCycle(C)
    <3>1. cycles' = cycles /\ Found' = Found
      BY <1>8, <2>1 DEF Found
    <3>2. Found' = InCycle(graph)' \cap Settled'
      BY <1>3, <1>6, <1>7, <2>0, <2>1, <3>1
    <3> QED
      BY <1>7, <2>0, <3>1, <3>2 DEF FoundSound
  <2>2. CASE IsCycle(C)
    <3> DEFINE m == Len(cycles)
    <3>1. /\ DOMAIN cycles' = 1 .. m + 1 /\ m \in Nat /\ DOMAIN cycles = 1 .. m
          /\ \A i \in 1 .. m : cycles'[i] = cycles[i]
          /\ cycles'[m + 1] = C
      <4>1. cycles' = Append(cycles, C)
        BY <1>8, <2>2
      <4> QED
        BY <1>8, <4>1, AppendProperties
    <3>2. Found' = Found \cup C
      <4>1. Found' = UNION {cycles'[i] : i \in 1 .. m + 1}
        BY <3>1 DEF Found
      <4>2. Found = UNION {cycles[i] : i \in 1 .. m}
        BY <3>1 DEF Found
      <4> HIDE DEF m
      <4>3. 1 .. m + 1 = (1 .. m) \cup {m + 1}
        BY <3>1
      <4> QED
        BY <3>1, <4>1, <4>2, <4>3
    <3>3. Found' = InCycle(graph)' \cap Settled'
      BY <1>3, <1>6, <1>7, <2>0, <2>2, <3>2
    <3>4. \A i, j \in DOMAIN cycles' : i # j => cycles'[i] \cap cycles'[j] = {}
      <4> SUFFICES ASSUME NEW i \in 1 .. m + 1, NEW j \in 1 .. m + 1, i # j
                   PROVE  cycles'[i] \cap cycles'[j] = {}
        BY <3>1
      <4>1. \A l \in 1 .. m : cycles'[l] \subseteq Settled
        BY <2>0, <3>1
      <4>2. CASE i = m + 1
        <5>1. j \in 1 .. m
          BY <3>1, <4>2
        <5> QED
          BY <2>0, <3>1, <4>1, <4>2, <5>1
      <4>3. CASE j = m + 1
        <5>1. i \in 1 .. m
          BY <3>1, <4>3
        <5> QED
          BY <2>0, <3>1, <4>1, <4>3, <5>1
      <4>4. CASE i # m + 1 /\ j # m + 1
        <5>1. i \in 1 .. m /\ j \in 1 .. m
          BY <3>1, <4>4
        <5> QED
          BY <2>0, <3>1, <5>1
      <4> QED
        BY <4>2, <4>3, <4>4
    <3>5. \A i \in DOMAIN cycles' : cycles'[i] # {} /\ \A p \in cycles'[i] : cycles'[i] = Strong(p)'
      <4> SUFFICES ASSUME NEW i \in 1 .. m + 1
                   PROVE  cycles'[i] # {} /\ \A p \in cycles'[i] : cycles'[i] = Strong(p)'
        BY <3>1
      <4>1. CASE i = m + 1
        <5>1. \A p \in C : p \in Plugins /\ C = Strong(p)
          BY <1>3, <1>8, <2>2
        <5> QED
          BY <1>3, <1>7, <3>1, <4>1, <5>1
      <4>2. CASE i # m + 1
        <5>1. i \in 1 .. m
          BY <3>1, <4>2
        <5> QED
          BY <1>7, <2>0, <3>1, <5>1
      <4> QED
        BY <4>1, <4>2
    <3> QED
      BY <3>3, <3>4, <3>5 DEF FoundSound
  <2> QED
    BY <2>1, <2>2
<1> QED
  BY <1>7, <1>9, <1>10, <1>11, <1>12, <1>13, <1>14, <1>15 DEF SearchInv, SearchSound

LEMMA SearchInvStep == SearchInv /\ SearchStep => SearchInv'
<1> SUFFICES ASSUME SearchInv, SearchStep PROVE SearchInv'
  OBVIOUS
<1>1. ASSUME NEW p \in Plugins, SearchFrom(p) \/ Descend(p) PROVE SearchInv'
  BY <1>1, Enters, EnterStep
<1>2. ASSUME NEW p \in Plugins, LookAt(p) PROVE SearchInv'
  BY <1>2, LookStep
<1>3. ASSUME Return PROVE SearchInv'
  <2>1. PICK v \in Stacked : /\ Leaving(v)
                             /\ IF lowlink[v] = indexOf[v]
                                THEN /\ stack' = Below(v)
                                     /\ cycles' = IF IsCycle(Component(v))
                                                  THEN Append(cycles, Component(v)) ELSE cycles
                                ELSE UNCHANGED <<stack, cycles>>
    BY <1>3, Leaves
  <2> QED
    BY <2>1, OpenStep, CloseStep
<1> QED
  BY <1>1, <1>2, <1>3 DEF SearchStep

\* Before the search nothing has a number.
LEMMA SearchBegins ==
  ASSUME SearchTypeOK', NoSearch', cycles' = << >>
  PROVE  SearchSound'
<1>1. /\ Numbers' = {} /\ Stacked' = {} /\ Settled' = {} /\ Running' = {}
      /\ DOMAIN calls' = {} /\ DOMAIN stack' = {}
  BY DEF NoSearch, Numbers, Numbered, Stacked, OnStack, Settled, Running
<1>2. index' = 0 /\ \A p \in Plugins : indexOf'[p] = 0
  BY DEF NoSearch
<1>3. DOMAIN cycles' = {} /\ Found' = {}
  BY DEF Found
<1>4. NumbersSound' /\ CallsStacked' /\ EdgesSound'
  BY <1>1, <1>2 DEF NumbersSound, CallsStacked, EdgesSound
<1> QED
  BY <1>1, <1>3, <1>4 DEF SearchSound, StackSound, LowSound, FoundSound

\* At its end all nodes are settled: all cycles were found.
LEMMA SearchIsComplete ==
  ASSUME SearchInv, SearchEnds
  PROVE  /\ Found = InCycle(graph)
         /\ cycles = << >> <=> InCycle(graph) = {}
         /\ \A i, j \in DOMAIN cycles : i # j => cycles[i] \cap cycles[j] = {}
         /\ \A i \in DOMAIN cycles : \A p \in cycles[i] : cycles[i] = Strong(p)
         /\ SearchTypeOK' /\ NoSearch'
<1>0. /\ SearchTypeOK /\ GraphSound /\ NumbersSound /\ StackSound /\ FoundSound
      /\ calls = << >> /\ (\A p \in valid : Numbered(p)) /\ valid \subseteq Plugins /\ graph \in Graph
      /\ cycles \in Seq(SUBSET Plugins)
  BY SearchTypes DEF SearchInv, SearchSound, SearchEnds, SearchTypeOK
<1>1. Running = {} /\ Stacked = {}
  <2>1. DOMAIN calls = {}
    BY <1>0
  <2> QED
    BY <1>0, <2>1 DEF Running, StackSound
<1>2. Settled = valid
  BY <1>0, <1>1 DEF Settled, Numbers, NumbersSound
<1>3. InCycle(graph) \subseteq valid
  BY <1>0, ReachIsLeast DEF GraphSound, InCycle
<1>4. Found = InCycle(graph)
  BY <1>0, <1>2, <1>3 DEF FoundSound
<1>5. cycles = << >> <=> InCycle(graph) = {}
  <2>1. CASE cycles = << >>
    BY <1>4, <2>1 DEF Found
  <2>2. CASE cycles # << >>
    <3>1. 1 \in DOMAIN cycles
      BY <1>0, <2>2
    <3>2. cycles[1] # {} /\ cycles[1] \subseteq Found
      BY <1>0, <3>1 DEF FoundSound, Found
    <3> QED
      BY <1>4, <2>2, <3>2
  <2> QED
    BY <2>1, <2>2
<1>6. SearchTypeOK' /\ NoSearch'
  BY <1>0 DEF SearchEnds, SearchTypeOK, NoSearch
<1> QED
  BY <1>0, <1>4, <1>5, <1>6 DEF FoundSound

-----------------------------------------------------------------------------
(* The inductive invariant.                                                  *)

Placed     == {order[i] : i \in DOMAIN order}
Missing(p) == {e \in graph[p] : e[2] \notin Placed}

\* The graph is that of the plugins that are left.
PlanSound ==
  IF phase = "validate"
  THEN valid = {} /\ graph = [p \in Plugins |-> {}] /\ order = << >>
  ELSE valid = Valid /\ graph = KeptGraph

\* Of every plugin the sort has the number of edges to plugins it has not placed,
\* and it is ready to place those that have none.
OrderSound ==
  /\ DepsFirst
  /\ Placed \subseteq valid
  /\ waiting = [p \in Plugins |-> Cardinality(Missing(p))]
  /\ ready = {p \in valid \ Placed : waiting[p] = 0}

\* The search begins where the graph is made, and what it found decides.
CyclesSound ==
  /\ phase = "validate" => NoSearch /\ cycles = << >>
  /\ phase = "search" => SearchSound
  /\ phase \in {"sort", "load", "serve"} => InCycle(graph) = {}
  /\ phase = "aborted" => InCycle(graph) # {}
  /\ SearchFindsCycles

\* Who has an api was placed, what is registered is under its owner's prefix, and
\* the closure of a plugin is what its edges reach.
LoadSound ==
  /\ phase \notin {"load", "serve"} => begun = {}
  /\ begun \subseteq Placed
  /\ \A e \in live : e[2] \in begun /\ e[1][1] = manifest[e[2]].ns
  /\ phase \in {"load", "serve"} => \A p \in Placed : closure[p] = Reach(graph, p)

PluginInv == PluginTypeOK /\ PlanSound /\ OrderSound /\ CyclesSound /\ LoadSound

-----------------------------------------------------------------------------
(* Validation.                                                               *)

LEMMA ManifestTypes ==
  ASSUME PluginTypeOK, NEW p \in Plugins
  PROVE  /\ manifest[p].deps \in Seq(Dependency) /\ manifest[p].ns \in Namespaces
         /\ DOMAIN manifest[p].deps = 1 .. Len(manifest[p].deps)
         /\ Len(manifest[p].deps) \in Nat
         /\ \A i \in DOMAIN manifest[p].deps : manifest[p].deps[i].on \in Plugins
<1>1. manifest[p] \in Manifest
  BY DEF PluginTypeOK
<1>2. manifest[p].deps \in Seq(Dependency) /\ manifest[p].ns \in Namespaces
  BY <1>1 DEF Manifest
<1>3. \A i \in DOMAIN manifest[p].deps : manifest[p].deps[i] \in Dependency
  BY <1>2
<1> QED
  BY <1>2, <1>3 DEF Dependency

LEMMA Stages ==
  /\ Valid \subseteq Unique /\ Unique \subseteq Resolved /\ Resolved \subseteq Chosen
  /\ Chosen \subseteq Plugins
BY DeclaredAssumption DEF Valid, Unique, Resolved, Chosen

LEMMA RecordTypes ==
  ASSUME NEW p \in Plugins
  PROVE  EarlyRecords(p) \in Seq(Status)
<1>1. \A x \in Status : << x >> \in Seq(Status)
  OBVIOUS
<1>2. << >> \in Seq(Status)
  OBVIOUS
<1> QED
  BY <1>1, <1>2, Stages DEF EarlyRecords, Status

\* The graph has finitely many edges of each plugin, to others that are left.
LEMMA KeptTypes ==
  ASSUME PluginTypeOK
  PROVE  /\ KeptGraph \in Graph
         /\ \A p \in Plugins : IsFiniteSet(KeptGraph[p]) /\ Edges(KeptGraph, p) \subseteq Valid \ {p}
<1>1. ASSUME NEW p \in Plugins
      PROVE  /\ Kept(p) \in SUBSET (Nat \X Plugins) /\ IsFiniteSet(Kept(p))
             /\ \A e \in Kept(p) : e[2] \in Valid \ {p}
  <2> DEFINE D == DOMAIN manifest[p].deps
             f == [i \in D |-> <<i, manifest[p].deps[i].on>>]
  <2>1. D = 1 .. Len(manifest[p].deps) /\ Len(manifest[p].deps) \in Nat
    BY ManifestTypes
  <2>2. IsFiniteSet(D)
    BY <2>1, FS_Interval
  <2>3. f \in Surjection(D, KeptAll(p))
    BY DEF Surjection, KeptAll
  <2>4. IsFiniteSet(KeptAll(p))
    <3> HIDE DEF D, f
    <3> QED
      BY <2>2, <2>3, FS_Surjection
  <2>5. Kept(p) \subseteq KeptAll(p) /\ \A e \in Kept(p) : e[2] \in Valid \ {p}
    BY DEF Kept
  <2>6. KeptAll(p) \subseteq Nat \X Plugins
    BY <2>1, ManifestTypes DEF KeptAll
  <2> QED
    BY <2>4, <2>5, <2>6, FS_Subset
<1> QED
  BY <1>1, FS_EmptySet DEF KeptGraph, Graph, Edges

LEMMA GraphTypes ==
  ASSUME PluginTypeOK, PlanSound
  PROVE  /\ graph \in Graph
         /\ \A p \in Plugins : IsFiniteSet(graph[p]) /\ Edges(graph, p) \subseteq valid \ {p}
<1>1. CASE phase = "validate"
  BY <1>1, FS_EmptySet DEF PlanSound, Graph, Edges
<1>2. CASE phase # "validate"
  BY <1>2, KeptTypes DEF PlanSound
<1> QED
  BY <1>1, <1>2

\* It stays the same, as the manifests do.
LEMMA SamePlan ==
  ASSUME manifest' = manifest
  PROVE  Valid' = Valid /\ KeptGraph' = KeptGraph
<1>1. Resolved' = Resolved
  BY DEF Resolved
<1>2. Unique' = Unique
  BY <1>1 DEF Unique
<1>3. Valid' = Valid
  BY <1>2 DEF Valid, Needs
<1>4. \A p \in Plugins : Kept(p)' = Kept(p)
  BY <1>3 DEF Kept, KeptAll
<1> QED
  BY <1>3, <1>4 DEF KeptGraph

LEMMA PluginInitInv == PluginInit => PluginInv
<1> SUFFICES ASSUME PluginInit PROVE PluginInv
  OBVIOUS
<1> USE DEF PluginInit
<1>1. PluginTypeOK
  <2>1. << >> \in Seq(Plugins) /\ << >> \in Seq(Status) /\ Len(<< >>) = 0
    OBVIOUS
  <2>2. SearchTypeOK
    BY DEF SearchTypeOK, NoSearch
  <2> QED
    BY <2>1, <2>2, InputsAssumption DEF PluginTypeOK
<1>2. PlanSound
  BY DEF PlanSound
<1>3. Placed = {} /\ DOMAIN order = {}
  BY DEF Placed
<1>4. DepsFirst
  BY <1>3 DEF DepsFirst
<1>5. \A p \in Plugins : Cardinality(Missing(p)) = 0
  <2>1. \A p \in Plugins : Missing(p) = {}
    BY DEF Missing
  <2> QED
    BY <2>1, FS_EmptySet
<1>6. OrderSound
  BY <1>3, <1>4, <1>5 DEF OrderSound
<1> QED
  BY <1>1, <1>2, <1>6 DEF PluginInv, CyclesSound, SearchFindsCycles, LoadSound

LEMMA ValidateStep == PluginInv /\ Validate => PluginInv'
<1> SUFFICES ASSUME PluginInv, Validate PROVE PluginInv'
  OBVIOUS
<1>0. /\ PluginTypeOK /\ PlanSound /\ OrderSound /\ LoadSound /\ phase = "validate"
      /\ order = << >> /\ begun = {} /\ live = {} /\ NoSearch /\ cycles = << >>
      /\ UNCHANGED <<index, indexOf, lowlink, stack, calls, cycles>>
  BY DEF PluginInv, PlanSound, Validate, LoadSound, CyclesSound, search
<1> USE DEF Validate
<1>1. manifest' = manifest /\ Valid' = Valid /\ KeptGraph' = KeptGraph
  BY SamePlan
<1>2. PlanSound'
  BY <1>1 DEF PlanSound
<1>3. Placed' = {} /\ DOMAIN order' = {}
  BY <1>0 DEF Placed
<1>4. \A p \in Plugins : /\ Missing(p)' = KeptGraph[p] /\ IsFiniteSet(KeptGraph[p])
                         /\ Cardinality(KeptGraph[p]) \in Nat
                         /\ (Cardinality(KeptGraph[p]) = 0 <=> KeptGraph[p] = {})
  BY <1>0, <1>3, KeptTypes, FS_CardinalityType, FS_EmptySet DEF Missing
<1>5. PluginTypeOK'
  <2>1. Valid \subseteq Plugins /\ KeptGraph \in [Plugins -> SUBSET (Nat \X Plugins)]
    BY <1>0, KeptTypes, Stages DEF Graph
  <2>2. records' \in [Plugins -> Seq(Status)]
    BY RecordTypes
  <2>3. waiting' \in [Plugins -> Nat]
    BY <1>4
  <2>4. SearchTypeOK'
    BY <1>0, <2>1 DEF PluginTypeOK, SearchTypeOK
  <2> QED
    BY <1>0, <2>2, <2>3, <2>4, Stages DEF PluginTypeOK
<1>6. OrderSound'
  <2>1. DepsFirst'
    BY <1>3 DEF DepsFirst
  <2>2. waiting' = [p \in Plugins |-> Cardinality(Missing(p)')]
    BY <1>4
  <2>3. ready' = {p \in valid' \ Placed' : waiting'[p] = 0}
    BY <1>3, <1>4, Stages
  <2> QED
    BY <1>3, <2>1, <2>2, <2>3 DEF OrderSound
<1>7. CyclesSound'
  <2>1. NoSearch' /\ cycles' = << >>
    BY <1>0 DEF NoSearch
  <2>2. SearchSound'
    BY <1>5, <2>1, SearchBegins DEF PluginTypeOK
  <2> QED
    BY <2>2 DEF CyclesSound, SearchFindsCycles
<1>8. LoadSound'
  BY <1>0, <1>1 DEF LoadSound
<1> QED
  BY <1>2, <1>5, <1>6, <1>7, <1>8 DEF PluginInv

-----------------------------------------------------------------------------
(* The search, within startup.                                               *)

\* Steps of the search that leave the plan and what was found of it alone.
LEMMA PlanWaits ==
  ASSUME PluginInv, phase = "search", phase' # "validate", phase' \notin {"load", "serve"},
         UNCHANGED <<manifest, valid, graph, waiting, ready, order, closure, at, begun, records, live, hosted>>
  PROVE  /\ PlanSound' /\ OrderSound' /\ LoadSound'
         /\ InCycle(graph)' = InCycle(graph) /\ GraphSound /\ SearchInv
<1>0. /\ PluginTypeOK /\ PlanSound /\ OrderSound /\ CyclesSound /\ LoadSound
      /\ SearchTypeOK /\ SearchSound
  BY DEF PluginInv, CyclesSound, PluginTypeOK
<1>1. PlanSound'
  BY <1>0, SamePlan DEF PlanSound
<1>2. Placed' = Placed /\ DepsFirst'
  BY <1>0 DEF Placed, OrderSound, DepsFirst, Edges
<1>3. OrderSound'
  BY <1>0, <1>2 DEF OrderSound, Missing
<1>4. LoadSound'
  BY <1>0, <1>2 DEF LoadSound
<1>5. GraphSound
  BY <1>0, GraphTypes DEF GraphSound
<1> QED
  BY <1>0, <1>1, <1>3, <1>4, <1>5, SameGraph DEF SearchInv

LEMMA SearchingStep == PluginInv /\ Search => PluginInv'
<1> SUFFICES ASSUME PluginInv, Search PROVE PluginInv'
  OBVIOUS
<1>1. /\ phase = "search" /\ phase' = "search" /\ SearchStep /\ PluginTypeOK
      /\ UNCHANGED <<manifest, waiting, ready, order, closure, at, begun, records, live, hosted>>
  BY DEF PluginInv, Search, loading
<1>2. UNCHANGED <<valid, graph>>
  BY <1>1 DEF SearchStep, SearchFrom, Descend, LookAt, Return
<1>3. PlanSound' /\ OrderSound' /\ LoadSound' /\ SearchInv
  BY <1>1, <1>2, PlanWaits
<1>4. SearchTypeOK' /\ SearchSound'
  BY <1>1, <1>3, SearchInvStep DEF SearchInv
<1>5. PluginTypeOK'
  BY <1>1, <1>4 DEF PluginTypeOK
<1>6. CyclesSound'
  BY <1>1, <1>4 DEF CyclesSound, SearchFindsCycles
<1> QED
  BY <1>3, <1>5, <1>6 DEF PluginInv

LEMMA SearchedStep == PluginInv /\ Searched => PluginInv'
<1> SUFFICES ASSUME PluginInv, Searched PROVE PluginInv'
  OBVIOUS
<1>1. /\ phase = "search" /\ SearchEnds /\ PluginTypeOK
      /\ phase' = IF cycles = << >> THEN "sort" ELSE "aborted"
      /\ UNCHANGED <<manifest, waiting, ready, order, closure, at, begun, records, live, hosted>>
      /\ UNCHANGED <<valid, graph, cycles>>
  BY DEF PluginInv, Searched, SearchEnds, loading
<1>2. PlanSound' /\ OrderSound' /\ LoadSound' /\ SearchInv /\ InCycle(graph)' = InCycle(graph)
  BY <1>1, PlanWaits
<1>3. /\ Found = InCycle(graph)
      /\ cycles = << >> <=> InCycle(graph) = {}
      /\ \A i, j \in DOMAIN cycles : i # j => cycles[i] \cap cycles[j] = {}
      /\ \A i \in DOMAIN cycles : \A p \in cycles[i] : cycles[i] = Strong(p)
      /\ SearchTypeOK'
  BY <1>1, <1>2, SearchIsComplete
<1>4. PluginTypeOK'
  BY <1>1, <1>3 DEF PluginTypeOK
<1>5. SearchFindsCycles'
  <2>1. \A p : Reach(graph, p)' = Reach(graph, p)
    BY <1>1 DEF Reach, Reached, Edges
  <2>2. \A i \in DOMAIN cycles : \A p \in cycles[i] :
          cycles[i] = {q \in valid : q \in Reach(graph, p) /\ p \in Reach(graph, q)}
    BY <1>3 DEF Strong
  <2> QED
    BY <1>1, <1>2, <1>3, <2>1, <2>2 DEF SearchFindsCycles, Found
<1>6. CyclesSound'
  BY <1>1, <1>2, <1>3, <1>5 DEF CyclesSound
<1> QED
  BY <1>2, <1>4, <1>6 DEF PluginInv

\* What was found stays found.
LEMMA FoundForGood ==
  ASSUME SearchFindsCycles, UNCHANGED <<valid, graph, cycles>>, phase \notin {"validate", "search"}
  PROVE  SearchFindsCycles'
<1>1. InCycle(graph)' = InCycle(graph)
  BY SameGraph
<1>2. \A p : Reach(graph, p)' = Reach(graph, p)
  BY DEF Reach, Reached, Edges
<1> QED
  BY <1>1, <1>2 DEF SearchFindsCycles

-----------------------------------------------------------------------------
(* The sort.                                                                 *)

\* What is placed after a plugin was appended.
LEMMA PlacedMore ==
  ASSUME order \in Seq(Plugins), NEW q \in Plugins, order' = Append(order, q)
  PROVE  /\ order' \in Seq(Plugins) /\ Len(order') = Len(order) + 1
         /\ \A i \in 1 .. Len(order) : order'[i] = order[i]
         /\ order'[Len(order) + 1] = q
         /\ Placed' = Placed \cup {q}
<1>1. /\ order' \in Seq(Plugins) /\ Len(order') = Len(order) + 1
      /\ \A i \in 1 .. Len(order) : order'[i] = order[i]
      /\ order'[Len(order) + 1] = q
  BY AppendProperties
<1>2. /\ DOMAIN order = 1 .. Len(order) /\ DOMAIN order' = 1 .. Len(order) + 1
      /\ Len(order) \in Nat
  BY <1>1
<1>3. DOMAIN order' = DOMAIN order \cup {Len(order) + 1}
  BY <1>2
<1>4. Placed' = Placed \cup {q}
  BY <1>1, <1>2, <1>3 DEF Placed
<1> QED
  BY <1>1, <1>4

\* Placing q takes q's edges off those that are missing, and no others.
LEMMA MissingLess ==
  ASSUME PluginTypeOK, PlanSound, OrderSound, graph' = graph,
         NEW q \in Plugins, q \notin Placed, Placed' = Placed \cup {q}, NEW p \in Plugins
  PROVE  /\ Cardinality(Missing(p)) \in Nat /\ Times(p, q) \in Nat /\ Cardinality(Missing(p)') \in Nat
         /\ Cardinality(Missing(p)') = Cardinality(Missing(p)) - Times(p, q)
<1> DEFINE W == {e \in graph[p] : e[2] = q}
           N == {e \in graph[p] : e[2] \notin Placed \cup {q}}
<1>1. IsFiniteSet(graph[p])
  BY GraphTypes
<1>2. W \in SUBSET graph[p] /\ N \in SUBSET graph[p] /\ W \cap N = {}
  OBVIOUS
<1>3. Missing(p) = N \cup W /\ Missing(p)' = N
  BY DEF Missing
<1>4. Times(p, q) = Cardinality(W)
  BY DEF Times
<1> HIDE DEF W, N
<1>5. IsFiniteSet(W) /\ IsFiniteSet(N)
  BY <1>1, <1>2, FS_Subset
<1>6. Cardinality(N \cup W) = Cardinality(N) + Cardinality(W) - Cardinality(N \cap W)
  BY <1>5, FS_Union
<1>7. Cardinality(N \cap W) = 0
  <2>1. N \cap W = {}
    BY <1>2
  <2> QED
    BY <2>1, FS_EmptySet
<1>8. Cardinality(W) \in Nat /\ Cardinality(N) \in Nat
  BY <1>5, FS_CardinalityType
<1>9. Cardinality(N \cup W) = Cardinality(N) + Cardinality(W)
  BY <1>6, <1>7, <1>8
<1>10. /\ Cardinality(Missing(p)) = Cardinality(N) + Cardinality(W)
       /\ Cardinality(Missing(p)') = Cardinality(N)
  BY <1>3, <1>9
<1> QED
  BY <1>4, <1>8, <1>10

\* Of what is placed nothing is missing, and of no other but that.
LEMMA NothingMissing ==
  ASSUME PluginTypeOK, PlanSound, OrderSound, NEW p \in Plugins
  PROVE  /\ waiting[p] = 0 <=> Edges(graph, p) \subseteq Placed
         /\ p \in Placed => waiting[p] = 0
<1>1. IsFiniteSet(Missing(p))
  BY GraphTypes, FS_Subset DEF Missing
<1>2. waiting[p] = 0 <=> Missing(p) = {}
  BY <1>1, FS_EmptySet DEF OrderSound
<1>3. Missing(p) = {} <=> Edges(graph, p) \subseteq Placed
  BY DEF Missing, Edges
<1>4. ASSUME p \in Placed PROVE Edges(graph, p) \subseteq Placed
  BY <1>4 DEF OrderSound, DepsFirst, Placed
<1> QED
  BY <1>2, <1>3, <1>4

LEMMA SortStep == PluginInv /\ Sort => PluginInv'
<1> SUFFICES ASSUME PluginInv, Sort PROVE PluginInv'
  OBVIOUS
<1>0. /\ PluginTypeOK /\ PlanSound /\ OrderSound /\ CyclesSound /\ LoadSound /\ phase = "sort"
      /\ UNCHANGED <<manifest, phase, valid, graph, closure, at, begun, records, live, hosted>>
      /\ UNCHANGED <<index, indexOf, lowlink, stack, calls, cycles>>
  BY DEF PluginInv, Sort, loading, search
<1>1. PICK q \in ready : /\ order' = Append(order, q)
                         /\ ready' = (ready \ {q}) \cup Freed(q)
                         /\ waiting' = [p \in Plugins |-> waiting[p] - Times(p, q)]
  BY DEF Sort
<1>2. q \in valid /\ q \in Plugins /\ q \notin Placed /\ waiting[q] = 0
  BY <1>0 DEF OrderSound, PluginTypeOK, SearchTypeOK
<1>3. /\ order \in Seq(Plugins) /\ order' \in Seq(Plugins) /\ Len(order') = Len(order) + 1
      /\ \A i \in 1 .. Len(order) : order'[i] = order[i]
      /\ order'[Len(order) + 1] = q
      /\ Placed' = Placed \cup {q}
  <2>1. order \in Seq(Plugins)
    BY <1>0 DEF PluginTypeOK
  <2> QED
    BY <1>1, <1>2, <2>1, PlacedMore
<1>4. \A p \in Plugins :
        /\ waiting[p] = Cardinality(Missing(p)) /\ waiting[p] \in Nat /\ Times(p, q) \in Nat
        /\ waiting'[p] = waiting[p] - Times(p, q)
        /\ waiting'[p] = Cardinality(Missing(p)') /\ waiting'[p] \in Nat
  BY <1>0, <1>1, <1>2, <1>3, MissingLess DEF OrderSound, PluginTypeOK
<1>5. /\ Edges(graph, q) \subseteq Placed
      /\ \A p \in Placed : p \in Plugins /\ waiting[p] = 0
  BY <1>0, <1>2, NothingMissing DEF OrderSound, PluginTypeOK, SearchTypeOK
<1>6. PlanSound'
  BY <1>0, SamePlan DEF PlanSound
<1>7. DepsFirst'
  <2>0. /\ DOMAIN order = 1 .. Len(order) /\ DOMAIN order' = 1 .. Len(order) + 1
        /\ Len(order) \in Nat
    BY <1>3
  <2>1. ASSUME NEW i \in DOMAIN order', NEW j \in DOMAIN order', order'[i] = order'[j], i < j
        PROVE  FALSE
    <3>1. i \in 1 .. Len(order) /\ order'[i] = order[i]
      BY <1>3, <2>0, <2>1
    <3>2. CASE j = Len(order) + 1
      <4>1. order[i] = q
        BY <1>3, <2>1, <3>1, <3>2
      <4> QED
        BY <1>2, <2>0, <3>1, <4>1 DEF Placed
    <3>3. CASE j \in 1 .. Len(order)
      <4>1. order[i] = order[j] /\ i \in DOMAIN order /\ j \in DOMAIN order
        BY <1>3, <2>0, <2>1, <3>1, <3>3
      <4>2. i = j
        BY <1>0, <4>1 DEF OrderSound, DepsFirst
      <4> QED
        BY <2>0, <2>1, <4>2
    <3> QED
      BY <2>0, <3>2, <3>3
  <2>2. ASSUME NEW j \in DOMAIN order', NEW d \in Edges(graph, order'[j])
        PROVE  \E i \in DOMAIN order' : i < j /\ order'[i] = d
    <3>1. CASE j = Len(order) + 1
      <4>1. d \in Placed
        BY <1>3, <1>5, <2>2, <3>1
      <4>2. PICK i \in DOMAIN order : order[i] = d
        BY <4>1 DEF Placed
      <4> QED
        BY <1>3, <2>0, <3>1, <4>2
    <3>2. CASE j \in 1 .. Len(order)
      <4>1. order'[j] = order[j] /\ j \in DOMAIN order
        BY <1>3, <2>0, <3>2
      <4>2. PICK i \in DOMAIN order : i < j /\ order[i] = d
        BY <1>0, <2>2, <4>1 DEF OrderSound, DepsFirst
      <4> QED
        BY <1>3, <2>0, <4>2
    <3> QED
      BY <2>0, <3>1, <3>2
  <2>3. \A i, j \in DOMAIN order' : order'[i] = order'[j] => i = j
    BY <2>0, <2>1
  <2> QED
    BY <1>0, <2>2, <2>3 DEF DepsFirst, Edges
<1>8. ready' = {p \in valid \ Placed' : waiting'[p] = 0}
  <2>1. ASSUME NEW p \in ready' PROVE p \in valid \ Placed' /\ waiting'[p] = 0
    <3>1. CASE p \in ready \ {q}
      <4>1. p \in valid /\ p \in Plugins /\ p \notin Placed /\ p # q /\ waiting[p] = 0
        BY <1>0, <3>1 DEF OrderSound, PluginTypeOK
      <4>2. waiting'[p] = 0 - Times(p, q) /\ Times(p, q) \in Nat /\ waiting'[p] \in Nat
        BY <1>4, <4>1
      <4>3. waiting'[p] = 0
        BY <4>2
      <4> QED
        BY <1>3, <4>1, <4>3
    <3>2. CASE p \in Freed(q)
      <4>1. p \in valid /\ p \in Plugins /\ waiting[p] > 0 /\ waiting[p] = Times(p, q)
        BY <1>0, <3>2 DEF Freed, PluginTypeOK, SearchTypeOK
      <4>2. p \notin Placed /\ p # q
        BY <1>2, <1>5, <4>1
      <4> QED
        BY <1>3, <1>4, <4>1, <4>2
    <3> QED
      BY <1>1, <2>1, <3>1, <3>2
  <2>2. ASSUME NEW p \in valid \ Placed', waiting'[p] = 0 PROVE p \in ready'
    <3>1. p \in Plugins /\ p \notin Placed /\ p # q /\ waiting[p] \in Nat /\ waiting[p] = Times(p, q)
      <4>1. p \in Plugins /\ p \notin Placed /\ p # q
        BY <1>0, <1>3, <2>2 DEF PluginTypeOK, SearchTypeOK
      <4>2. waiting[p] \in Nat /\ Times(p, q) \in Nat /\ waiting[p] - Times(p, q) = 0
        BY <1>4, <2>2, <4>1
      <4> QED
        BY <4>1, <4>2
    <3>2. CASE waiting[p] = 0
      BY <1>0, <1>1, <3>1, <3>2 DEF OrderSound
    <3>3. CASE waiting[p] > 0
      BY <1>1, <3>1, <3>3 DEF Freed
    <3> QED
      BY <3>1, <3>2, <3>3
  <2> QED
    BY <2>1, <2>2
<1>9. OrderSound'
  <2>1. waiting' = [p \in Plugins |-> Cardinality(Missing(p)')]
    BY <1>1, <1>4
  <2>2. Placed' \subseteq valid'
    BY <1>0, <1>2, <1>3 DEF OrderSound
  <2> QED
    BY <1>0, <1>7, <1>8, <2>1, <2>2 DEF OrderSound
<1>10. PluginTypeOK'
  <2>1. waiting' \in [Plugins -> Nat]
    BY <1>1, <1>4
  <2>2. ready' \subseteq Plugins
    BY <1>0, <1>8 DEF PluginTypeOK, SearchTypeOK
  <2>3. at \in 0 .. Len(order) /\ Len(order) \in Nat
    BY <1>0 DEF PluginTypeOK
  <2>4. at' \in 0 .. Len(order')
    BY <1>0, <1>3, <2>3
  <2>5. SearchTypeOK'
    BY <1>0 DEF PluginTypeOK, SearchTypeOK
  <2> QED
    BY <1>0, <1>3, <2>1, <2>2, <2>4, <2>5 DEF PluginTypeOK
<1>11. CyclesSound'
  BY <1>0, SameGraph, FoundForGood DEF CyclesSound
<1>12. LoadSound'
  BY <1>0, <1>3 DEF LoadSound
<1> QED
  BY <1>6, <1>9, <1>10, <1>11, <1>12 DEF PluginInv

-----------------------------------------------------------------------------
(* The end of the sort.                                                      *)

\* The closures as computeTransitiveDeps has them after each plugin of the order.
Table == [Plugins -> SUBSET Plugins]
WithClosure(table, p) ==
  [table EXCEPT ![p] = UNION {{d} \cup table[d] : d \in Edges(graph, p)}]
Builds(f, n) == /\ f[0] = [p \in Plugins |-> {}]
                /\ \A i \in 1 .. n : f[i] = WithClosure(f[i - 1], order[i])

LEMMA ClosuresBySteps ==
  ASSUME order \in Seq(Plugins), graph \in Graph
  PROVE  \E f \in [0 .. Len(order) -> Table] : Builds(f, Len(order)) /\ Closures = f[Len(order)]
<1> DEFINE n == Len(order)
           none == [p \in Plugins |-> {}]
           F == [ix \in (1 .. n) \X Table |-> WithClosure(ix[2], order[ix[1]])]
<1>0. ASSUME NEW i \in 1 .. n, NEW table \in Table PROVE WithClosure(table, order[i]) \in Table
  <2>1. order[i] \in Plugins
    OBVIOUS
  <2>2. Edges(graph, order[i]) \subseteq Plugins
    BY <2>1 DEF Graph, Edges
  <2>3. UNION {{d} \cup table[d] : d \in Edges(graph, order[i])} \in SUBSET Plugins
    BY <2>2 DEF Table
  <2> QED
    BY <2>1, <2>3 DEF WithClosure, Table
<1>1. n \in Nat /\ none \in Table /\ F \in [(1 .. n) \X Table -> Table]
  <2>1. F \in [(1 .. n) \X Table -> Table]
    BY <1>0
  <2> QED
    BY <2>1 DEF Table
<1>2. PICK g \in [0 .. n -> Table] : Follows(g, none, F, n)
  <2> HIDE DEF n, F, none
  <2> QED
    BY <1>1, FollowedBySteps
<1>3. ASSUME NEW i \in 1 .. n PROVE g[i] = WithClosure(g[i - 1], order[i])
  <2>1. i - 1 \in 0 .. n /\ g[i - 1] \in Table
    BY <1>1
  <2>2. g[i] = F[<<i, g[i - 1]>>]
    BY <1>2 DEF Follows
  <2> QED
    BY <2>1, <2>2
<1> HIDE DEF F
<1> DEFINE Def(h) == h = [i \in 0 .. Len(order) |->
                           IF i = 0 THEN [p \in Plugins |-> {}] ELSE WithClosure(h[i - 1], order[i])]
           f[i \in 0 .. Len(order)] ==
             IF i = 0 THEN [p \in Plugins |-> {}]
             ELSE [f[i - 1] EXCEPT ![order[i]] =
                     UNION {{d} \cup f[i - 1][d] : d \in Edges(graph, order[i])}]
<1>4. Def(g)
  BY <1>2, <1>3 DEF Follows
<1>5. Closures = f[n]
  BY DEF Closures
<1>6. f = CHOOSE h : Def(h)
  BY DEF WithClosure
<1> HIDE DEF f
<1>7. Def(f)
  <2> HIDE DEF Def
  <2> QED
    BY <1>4, <1>6
<1>8. f \in [0 .. n -> Table] /\ Builds(f, n)
  <2>0. \A i \in 0 .. n : f[i] = IF i = 0 THEN none ELSE WithClosure(f[i - 1], order[i])
    BY <1>7
  <2>1. f[0] = none /\ \A i \in 1 .. n : f[i] = WithClosure(f[i - 1], order[i])
    <3>1. n \in Nat
      BY <1>1
    <3> HIDE DEF n, none
    <3>2. f[0] = none
      BY <2>0, <3>1
    <3>3. ASSUME NEW i \in 1 .. n PROVE f[i] = WithClosure(f[i - 1], order[i])
      <4>1. i \in 0 .. n /\ i # 0
        BY <3>1
      <4> QED
        BY <2>0, <4>1
    <3> QED
      BY <3>2, <3>3
  <2> DEFINE T == {i \in Nat : i <= n => f[i] \in Table}
  <2>2. T = Nat
    <3>1. 0 \in T
      BY <1>1, <2>1
    <3>2. ASSUME NEW i \in T PROVE i + 1 \in T
      <4> SUFFICES ASSUME i + 1 <= n PROVE f[i + 1] \in Table
        OBVIOUS
      <4>1. f[i] \in Table /\ i + 1 \in 1 .. n /\ f[i + 1] = WithClosure(f[i], order[i + 1])
        BY <1>1, <2>1
      <4> QED
        BY <1>0, <4>1
    <3>3. T \in SUBSET Nat
      OBVIOUS
    <3> HIDE DEF T
    <3> QED
      BY <3>1, <3>2, <3>3, NaturalsBySteps
  <2>3. \A i \in 0 .. n : f[i] \in Table
    BY <1>1, <2>2
  <2>4. f = [i \in 0 .. n |-> f[i]]
    BY <1>7
  <2> QED
    BY <2>1, <2>3, <2>4 DEF Builds
<1> QED
  BY <1>5, <1>8

\* As dependencies are placed first, the closure of each is what its edges reach.
LEMMA ClosuresAreReached ==
  ASSUME order \in Seq(Plugins), graph \in Graph, DepsFirst
  PROVE  Closures \in Table /\ \A p \in Placed : Closures[p] = Reach(graph, p)
<1> DEFINE n == Len(order)
<1>0. n \in Nat /\ DOMAIN order = 1 .. n /\ \A i \in 1 .. n : order[i] \in Plugins
  OBVIOUS
<1>1. PICK f \in [0 .. n -> Table] : Builds(f, n) /\ Closures = f[n]
  BY ClosuresBySteps
<1> DEFINE T == {i \in Nat : i <= n => \A j \in 1 .. i : f[i][order[j]] = Reach(graph, order[j])}
<1>2. 0 \in T
  OBVIOUS
<1>3. ASSUME NEW i \in T PROVE i + 1 \in T
  <2> SUFFICES ASSUME i + 1 <= n, NEW j \in 1 .. i + 1
               PROVE  f[i + 1][order[j]] = Reach(graph, order[j])
    OBVIOUS
  <2> DEFINE p == order[i + 1]
  <2>1. /\ i + 1 \in 1 .. n /\ i \in 0 .. n /\ j \in 1 .. n /\ p \in Plugins /\ order[j] \in Plugins
        /\ f[i] \in Table /\ f[i + 1] = WithClosure(f[i], p)
        /\ \A k \in 1 .. i : f[i][order[k]] = Reach(graph, order[k])
    <3>1. i + 1 \in 1 .. n /\ i \in 0 .. n /\ j \in 1 .. n /\ (i + 1) - 1 = i
      BY <1>0
    <3>2. f[i] \in Table /\ f[i + 1] = WithClosure(f[i], p)
      BY <1>1, <3>1 DEF Builds
    <3>3. p \in Plugins /\ order[j] \in Plugins
      BY <1>0, <3>1
    <3>4. \A k \in 1 .. i : f[i][order[k]] = Reach(graph, order[k])
      BY <1>0, <3>1
    <3> QED
      BY <3>1, <3>2, <3>3, <3>4
  <2>2. CASE j \in 1 .. i
    <3>1. order[j] # p
      BY <1>0, <2>1, <2>2 DEF DepsFirst
    <3>2. f[i + 1][order[j]] = f[i][order[j]]
      BY <2>1, <3>1 DEF WithClosure, Table
    <3> QED
      BY <2>1, <2>2, <3>2
  <2>3. CASE j = i + 1
    <3>1. f[i + 1][p] = UNION {{d} \cup f[i][d] : d \in Edges(graph, p)}
      BY <2>1 DEF WithClosure, Table
    <3>2. ASSUME NEW d \in Edges(graph, p) PROVE f[i][d] = Reach(graph, d)
      <4>1. PICK k \in DOMAIN order : k < i + 1 /\ order[k] = d
        BY <1>0, <2>1 DEF DepsFirst
      <4> QED
        BY <1>0, <2>1, <4>1
    <3>3. UNION {{d} \cup f[i][d] : d \in Edges(graph, p)}
            = UNION {{d} \cup Reach(graph, d) : d \in Edges(graph, p)}
      BY <3>2
    <3> QED
      BY <2>1, <2>3, <3>1, <3>3, ReachOfEdges
  <2> QED
    BY <1>0, <2>2, <2>3
<1>4. n \in T
  <2>1. T \in SUBSET Nat
    OBVIOUS
  <2> HIDE DEF T
  <2> QED
    BY <1>0, <1>2, <1>3, <2>1, NaturalsBySteps
<1>5. \A j \in 1 .. n : f[n][order[j]] = Reach(graph, order[j])
  BY <1>0, <1>4
<1>6. Closures \in Table
  BY <1>0, <1>1
<1> QED
  BY <1>0, <1>1, <1>5, <1>6 DEF Placed

\* When nothing is ready and there is no cycle, everything is placed, once.
LEMMA SortIsComplete ==
  ASSUME PluginTypeOK, PlanSound, OrderSound, ready = {}, InCycle(graph) = {}
  PROVE  Len(order) = Cardinality(valid)
<1>1. graph \in Graph /\ \A p \in Plugins : Edges(graph, p) \subseteq valid
  BY GraphTypes
<1>2. valid \subseteq Placed
  <2> DEFINE U == valid \ Placed
  <2> SUFFICES ASSUME U # {} PROVE FALSE
    OBVIOUS
  <2>1. ASSUME NEW p \in U PROVE \E d \in U : d \in Edges(graph, p)
    <3>1. p \in Plugins /\ waiting[p] # 0
      BY DEF OrderSound, PluginTypeOK, SearchTypeOK
    <3> QED
      BY <1>1, <3>1, NothingMissing
  <2>2. U \in SUBSET Plugins
    BY DEF PluginTypeOK, SearchTypeOK
  <2> HIDE DEF U
  <2> QED
    BY <1>1, <2>1, <2>2, EndlessIsCyclic
<1>3. Placed = valid
  BY <1>2 DEF OrderSound
<1>4. DOMAIN order = 1 .. Len(order) /\ Len(order) \in Nat
  BY DEF PluginTypeOK
<1>5. order \in Surjection(1 .. Len(order), Placed) /\ order \in Injection(1 .. Len(order), Placed)
  <2>1. order \in [1 .. Len(order) -> Placed]
    <3>1. order = [i \in 1 .. Len(order) |-> order[i]]
      BY DEF PluginTypeOK
    <3>2. \A i \in 1 .. Len(order) : order[i] \in Placed
      BY <1>4 DEF Placed
    <3> QED
      BY <3>1, <3>2
  <2>2. \A i, j \in 1 .. Len(order) : order[i] = order[j] => i = j
    BY <1>4 DEF OrderSound, DepsFirst
  <2>3. \A p \in Placed : \E i \in 1 .. Len(order) : order[i] = p
    BY <1>4 DEF Placed
  <2> QED
    <3>1. order \in Surjection(1 .. Len(order), Placed)
      BY <2>1, <2>3 DEF Surjection
    <3>2. order \in Injection(1 .. Len(order), Placed)
      BY <2>1, <2>2 DEF Injection, IsInjective
    <3> QED
      BY <3>1, <3>2
<1>6. IsFiniteSet(1 .. Len(order)) /\ Cardinality(1 .. Len(order)) = Len(order)
  <2>1. 1 \in Int /\ Len(order) \in Int
    BY <1>4
  <2>2. /\ IsFiniteSet(1 .. Len(order))
        /\ Cardinality(1 .. Len(order)) = IF 1 > Len(order) THEN 0 ELSE Len(order) - 1 + 1
    BY <2>1, FS_Interval
  <2> QED
    BY <1>4, <2>2
<1>7. Cardinality(Placed) = Len(order)
  BY <1>5, <1>6, FS_Surjection
<1> QED
  BY <1>3, <1>7

LEMMA SortedStep == PluginInv /\ Sorted => PluginInv'
<1> SUFFICES ASSUME PluginInv, Sorted PROVE PluginInv'
  OBVIOUS
<1>0. /\ PluginTypeOK /\ PlanSound /\ OrderSound /\ CyclesSound /\ LoadSound
      /\ phase = "sort" /\ ready = {} /\ InCycle(graph) = {}
      /\ UNCHANGED <<manifest, valid, graph, waiting, ready, order, at, begun, records, live, hosted>>
      /\ UNCHANGED <<index, indexOf, lowlink, stack, calls, cycles>>
  BY DEF PluginInv, Sorted, loading, search, CyclesSound
<1>1. phase' = "load" /\ closure' = Closures
  BY <1>0, SortIsComplete DEF Sorted
<1>2. Closures \in Table /\ \A p \in Placed : Closures[p] = Reach(graph, p)
  <2>1. graph \in Graph /\ order \in Seq(Plugins) /\ DepsFirst
    BY <1>0, GraphTypes DEF PluginTypeOK, OrderSound
  <2> QED
    BY <2>1, ClosuresAreReached
<1>3. PluginTypeOK'
  <2>1. SearchTypeOK'
    BY <1>0 DEF PluginTypeOK, SearchTypeOK
  <2> QED
    BY <1>0, <1>1, <1>2, <2>1 DEF PluginTypeOK, Table
<1>4. PlanSound'
  BY <1>0, <1>1, SamePlan DEF PlanSound
<1>5. Placed' = Placed /\ DepsFirst'
  BY <1>0 DEF Placed, OrderSound, DepsFirst, Edges
<1>6. OrderSound'
  BY <1>0, <1>5 DEF OrderSound, Missing
<1>7. InCycle(graph)' = {} /\ \A p \in Plugins : Reach(graph, p)' = Reach(graph, p)
  BY <1>0, SameGraph
<1>8. LoadSound'
  <2>1. Placed \subseteq Plugins
    BY <1>0 DEF OrderSound, PluginTypeOK, SearchTypeOK
  <2> QED
    BY <1>0, <1>1, <1>2, <1>5, <1>7, <2>1 DEF LoadSound
<1>9. CyclesSound'
  BY <1>0, <1>1, <1>7, FoundForGood DEF CyclesSound
<1> QED
  BY <1>3, <1>4, <1>6, <1>8, <1>9 DEF PluginInv
-----------------------------------------------------------------------------
(* Loading.                                                                  *)

\* A step that leaves the search alone.
LEMMA SearchWaits ==
  ASSUME SearchSound, UNCHANGED <<valid, graph, index, indexOf, lowlink, stack, calls, cycles>>
  PROVE  SearchSound'
<1>1. Numbers' = Numbers /\ Stacked' = Stacked /\ Settled' = Settled /\ Running' = Running
  BY DEF Numbers, Numbered, Stacked, OnStack, Settled, Running, Node
<1>2. /\ \A k : Node(k)' = Node(k) /\ Left(k)' = Left(k) /\ Low(k)' = Low(k)
      /\ \A p : Edges(graph, p)' = Edges(graph, p) /\ Reach(graph, p)' = Reach(graph, p)
  BY DEF Node, Left, Low, Edges, Reach, Reached
<1>3. /\ \A p, q : LeadsTo(p, q)' = LeadsTo(p, q)
      /\ \A k : Region(k)' = Region(k)
      /\ \A p : Strong(p)' = Strong(p)
      /\ InCycle(graph)' = InCycle(graph) /\ Found' = Found
  BY <1>1, <1>2 DEF LeadsTo, Region, Strong, InCycle, Found
<1>4. NumbersSound' /\ CallsStacked' /\ EdgesSound'
  BY <1>1, <1>2 DEF SearchSound, NumbersSound, CallsStacked, EdgesSound
<1>5. StackSound' /\ LowSound' /\ FoundSound'
  BY <1>1, <1>2, <1>3 DEF SearchSound, StackSound, LowSound, FoundSound
<1> QED
  BY <1>4, <1>5 DEF SearchSound

\* Steps that leave plan, order and closures alone.
LEMMA PlanKept ==
  ASSUME PluginInv, UNCHANGED <<manifest, sorting>>, phase' = phase \/ (phase = "load" /\ phase' = "serve")
  PROVE  /\ PlanSound' /\ OrderSound' /\ CyclesSound' /\ Placed' = Placed
         /\ phase' \in {"load", "serve"} => \A p \in Placed : closure'[p] = Reach(graph, p)'
<1>0. /\ PluginTypeOK /\ PlanSound /\ OrderSound /\ CyclesSound /\ LoadSound
      /\ UNCHANGED <<manifest, valid, graph, waiting, ready, order, closure>>
      /\ UNCHANGED <<index, indexOf, lowlink, stack, calls, cycles>>
  BY DEF PluginInv, sorting, search
<1>1. PlanSound'
  BY <1>0, SamePlan DEF PlanSound
<1>2. Placed' = Placed /\ DepsFirst'
  BY <1>0 DEF Placed, OrderSound, DepsFirst, Edges
<1>3. OrderSound'
  BY <1>0, <1>2 DEF OrderSound, Missing
<1>4. InCycle(graph)' = InCycle(graph) /\ \A p \in Plugins : Reach(graph, p)' = Reach(graph, p)
  BY <1>0, SameGraph
<1>5. CyclesSound'
  <2>1. CASE phase = "validate"
    BY <1>0, <2>1 DEF CyclesSound, SearchFindsCycles, NoSearch
  <2>2. CASE phase = "search"
    BY <1>0, <2>2, SearchWaits DEF CyclesSound, SearchFindsCycles
  <2>3. CASE phase \notin {"validate", "search"}
    BY <1>0, <1>4, <2>3, FoundForGood DEF CyclesSound
  <2> QED
    BY <2>1, <2>2, <2>3
<1>6. Placed \subseteq Plugins
  BY <1>0 DEF OrderSound, PluginTypeOK, SearchTypeOK
<1> QED
  BY <1>0, <1>1, <1>2, <1>3, <1>4, <1>5, <1>6 DEF LoadSound

LEMMA CurrentPlaced ==
  ASSUME PluginTypeOK, phase = "load", at < Len(order)
  PROVE  Current \in Placed /\ Current \in Plugins /\ at + 1 \in 0 .. Len(order)
<1>1. /\ at \in 0 .. Len(order) /\ Len(order) \in Nat /\ DOMAIN order = 1 .. Len(order)
      /\ order \in Seq(Plugins)
  BY DEF PluginTypeOK
<1>2. at + 1 \in 1 .. Len(order)
  BY <1>1
<1>3. order[at + 1] \in Plugins
  BY <1>1, <1>2
<1> QED
  BY <1>1, <1>2, <1>3 DEF Current, Placed

LEMMA MoreRecords ==
  ASSUME PluginTypeOK, NEW p \in Plugins, NEW s \in Status,
         records' = [records EXCEPT ![p] = Append(@, s)]
  PROVE  records' \in [Plugins -> Seq(Status)]
<1>1. records \in [Plugins -> Seq(Status)]
  BY DEF PluginTypeOK
<1>2. Append(records[p], s) \in Seq(Status)
  BY <1>1, AppendProperties
<1> QED
  BY <1>1, <1>2

LEMMA LoadStep ==
  ASSUME PluginInv,
         \/ Skip \/ Begin \/ Serve
         \/ \E p \in Plugins :
              \/ LoadOK(p) \/ LoadFail(p)
              \/ \E t \in Names : RegisterTool(p, t) \/ RegisterMalformed(p, t)
  PROVE  PluginInv'
<1>0. PluginTypeOK /\ OrderSound /\ LoadSound
  BY DEF PluginInv
<1> DEFINE Stays == /\ UNCHANGED <<manifest, sorting>>
                    /\ phase' = phase \/ (phase = "load" /\ phase' = "serve")
           Types == /\ at' \in 0 .. Len(order) /\ begun' \subseteq Placed
                    /\ records' \in [Plugins -> Seq(Status)]
                    /\ live' \subseteq Names \X Plugins /\ hosted' \subseteq Names \X Plugins
           Owned == /\ phase' \notin {"load", "serve"} => begun' = {}
                    /\ \A e \in live' : e[2] \in begun' /\ e[1][1] = manifest[e[2]].ns
<1>1. ASSUME Stays, Types, Owned PROVE PluginInv'
  <2>1. /\ PlanSound' /\ OrderSound' /\ CyclesSound' /\ Placed' = Placed
        /\ phase' \in {"load", "serve"} => \A p \in Placed : closure'[p] = Reach(graph, p)'
    BY <1>1, PlanKept
  <2>2. /\ UNCHANGED <<manifest, valid, graph, waiting, ready, order, closure>>
        /\ SearchTypeOK'
    BY <1>0, <1>1 DEF sorting, search, PluginTypeOK, SearchTypeOK
  <2>3. LoadSound'
    BY <1>1, <2>1, <2>2 DEF LoadSound
  <2>4. Placed \subseteq Plugins
    BY <1>0 DEF OrderSound, PluginTypeOK, SearchTypeOK
  <2>5. PluginTypeOK'
    BY <1>0, <1>1, <2>2, <2>4 DEF PluginTypeOK
  <2> QED
    BY <2>1, <2>3, <2>5 DEF PluginInv
<1>2. /\ at \in 0 .. Len(order) /\ begun \subseteq Placed /\ records \in [Plugins -> Seq(Status)]
      /\ live \subseteq Names \X Plugins /\ hosted \subseteq Names \X Plugins
      /\ phase \notin {"load", "serve"} => begun = {}
      /\ \A e \in live : e[2] \in begun /\ e[1][1] = manifest[e[2]].ns
  BY <1>0 DEF PluginTypeOK, LoadSound
<1>3. ASSUME Skip PROVE PluginInv'
  <2>1. /\ Current \in Placed /\ Current \in Plugins /\ at + 1 \in 0 .. Len(order)
        /\ "disabled-by-capability-mismatch" \in Status
    BY <1>0, <1>3, CurrentPlaced DEF Skip, Status
  <2>2. records' \in [Plugins -> Seq(Status)]
    BY <1>0, <1>3, <2>1, MoreRecords DEF Skip
  <2> QED
    BY <1>1, <1>2, <1>3, <2>1, <2>2 DEF Skip
<1>4. ASSUME Begin PROVE PluginInv'
  <2>1. Current \in Placed
    BY <1>0, <1>4, CurrentPlaced DEF Begin
  <2> QED
    BY <1>1, <1>2, <1>4, <2>1 DEF Begin
<1>5. ASSUME Serve PROVE PluginInv'
  BY <1>1, <1>2, <1>5 DEF Serve, loading
<1>6. ASSUME NEW p \in Plugins, NEW s \in {"loaded", "load-error"}, Finish(p, s) PROVE PluginInv'
  <2>1. at + 1 \in 0 .. Len(order) /\ s \in Status
    BY <1>0, <1>6, CurrentPlaced DEF Finish, Loading, Status
  <2>2. records' \in [Plugins -> Seq(Status)]
    BY <1>0, <1>6, <2>1, MoreRecords DEF Finish
  <2> QED
    BY <1>1, <1>2, <1>6, <2>1, <2>2 DEF Finish
<1>7. ASSUME NEW p \in Plugins, NEW t \in Names, RegisterTool(p, t) \/ RegisterMalformed(p, t)
      PROVE  PluginInv'
  <2>1. /\ p \in begun /\ t[1] = manifest[p].ns
        /\ live' = live \cup {<<t, p>>}
        /\ hosted' = hosted \cup {<<t, p>>} \/ hosted' = hosted
        /\ UNCHANGED <<manifest, phase, sorting, at, begun, records>>
    BY <1>7 DEF RegisterTool, RegisterMalformed, MayRegister
  <2>2. \A e \in live' : e[2] \in begun /\ e[1][1] = manifest[e[2]].ns
    BY <1>2, <2>1
  <2>3. live' \subseteq Names \X Plugins /\ hosted' \subseteq Names \X Plugins
    BY <1>2, <2>1
  <2> QED
    BY <1>1, <1>2, <2>1, <2>2, <2>3
<1> QED
  BY <1>3, <1>4, <1>5, <1>6, <1>7 DEF LoadOK, LoadFail

LEMMA PluginStep == PluginInv /\ [PluginNext]_pluginVars => PluginInv'
<1> SUFFICES ASSUME PluginInv, [PluginNext]_pluginVars PROVE PluginInv'
  OBVIOUS
<1>1. CASE UNCHANGED pluginVars
  <2>1. UNCHANGED <<manifest, phase, sorting, at, begun, records, live, hosted>>
    BY <1>1 DEF pluginVars, loading
  <2>2. /\ PlanSound' /\ OrderSound' /\ CyclesSound' /\ Placed' = Placed
        /\ phase' \in {"load", "serve"} => \A p \in Placed : closure'[p] = Reach(graph, p)'
    BY <2>1, PlanKept
  <2>3. LoadSound'
    BY <2>1, <2>2 DEF PluginInv, LoadSound
  <2>4. PluginTypeOK'
    BY <2>1 DEF PluginInv, PluginTypeOK, SearchTypeOK, sorting, search
  <2> QED
    BY <2>2, <2>3, <2>4 DEF PluginInv
<1>2. CASE PluginNext
  BY <1>2, ValidateStep, SearchingStep, SearchedStep, SortStep, SortedStep, LoadStep DEF PluginNext
<1> QED
  BY <1>1, <1>2

LEMMA PluginInvHolds == PluginSpec => []PluginInv
BY PluginInitInv, PluginStep, PTL DEF PluginSpec

\* Every variable of the plugin runtime keeps its type; that the sort's counts of
\* missing dependencies never fall below none is part of it.
THEOREM PluginTypesHold == PluginSpec => []PluginTypeOK
<1>1. PluginInv => PluginTypeOK
  BY DEF PluginInv
<1> QED
  BY <1>1, PluginInvHolds, PTL

\* The search finds all the cycles and nothing else, whatever the graph and in
\* whatever order it takes nodes and successors: what it reports are the strongly
\* connected components of more than one plugin, each of them once and whole
\* (findCycles of src/plugin/depgraph.ts).
THEOREM CyclesAreFound == PluginSpec => []SearchFindsCycles
<1>1. PluginInv => SearchFindsCycles
  BY DEF PluginInv, CyclesSound
<1> QED
  BY <1>1, PluginInvHolds, PTL

\* Whatever the plugins declare, a plugin is placed after all it depends on,
\* once, and startup is refused if and only if some depend on each other
\* (topoSort and findCycles of src/plugin/depgraph.ts).
THEOREM LoadOrderHolds == PluginSpec => []LoadOrderSound
<1>1. PluginInv => LoadOrderSound
  BY DEF PluginInv, OrderSound, CyclesSound, LoadSound, LoadOrderSound, CyclesRefused
<1> QED
  BY <1>1, PluginInvHolds, PTL

-----------------------------------------------------------------------------
(* Who may call whom, and whose a namespace is.                              *)

\* What the edges that were kept reach, the manifests lead to.
LEMMA ReachIsDeclared ==
  ASSUME PluginTypeOK, PlanSound, NEW p \in Plugins
  PROVE  Reach(graph, p) \subseteq DeclaredReach(p)
<1> DEFINE next == [q \in Plugins |-> {d.on : d \in Needs(q)}]
<1>1. ASSUME NEW q \in Plugins
      PROVE  /\ {d.on : d \in Needs(q)} \subseteq Plugins
             /\ Edges(graph, q) \subseteq {d.on : d \in Needs(q)}
  <2>1. \A i \in DOMAIN manifest[q].deps : manifest[q].deps[i].on \in Plugins
    BY ManifestTypes
  <2>2. ASSUME NEW e \in graph[q] PROVE \E i \in DOMAIN manifest[q].deps : e[2] = manifest[q].deps[i].on
    BY DEF PlanSound, KeptGraph, Kept, KeptAll
  <2> QED
    BY <2>1, <2>2 DEF Needs, Edges
<1>2. next \in Successors /\ \A q \in Plugins : Edges(graph, q) \subseteq next[q]
  BY <1>1 DEF Successors
<1>3. DeclaredReach(p) = Reached(next, p)
  BY DEF DeclaredReach
<1> HIDE DEF next
<1>4. /\ next[p] \subseteq Reached(next, p)
      /\ \A q \in Reached(next, p) : next[q] \subseteq Reached(next, p)
  BY <1>2, ReachedIsClosed
<1>5. /\ Edges(graph, p) \subseteq Reached(next, p)
      /\ \A q \in Reached(next, p) : q \in Plugins => Edges(graph, q) \subseteq Reached(next, p)
  BY <1>2, <1>4
<1>6. graph \in Graph
  BY GraphTypes
<1> QED
  BY <1>3, <1>5, <1>6, ReachIsLeast

LEMMA Places ==
  ASSUME NEW p \in Chosen
  PROVE  Place(p) \in Nat /\ Declared[Place(p)] = p
<1>1. \E i \in DOMAIN Declared : Declared[i] = p
  BY DEF Chosen
<1>2. Place(p) \in DOMAIN Declared /\ Declared[Place(p)] = p
  BY <1>1 DEF Place
<1> QED
  BY <1>2, DeclaredAssumption

LEMMA CallsSound == PluginInv => CallsFollowManifests
<1> SUFFICES ASSUME PluginInv, NEW p \in begun, NEW e \in live, e[2] # p
             PROVE  /\ MayCall(p, e[2]) => e[2] \in DeclaredReach(p)
                    /\ e[2] \in Reach(graph, p) => MayCall(p, e[2])
  BY DEF CallsFollowManifests
<1>1. p \in Placed /\ p \in Plugins /\ closure[p] = Reach(graph, p)
  BY DEF PluginInv, LoadSound, PluginTypeOK
<1>2. Reach(graph, p) \subseteq DeclaredReach(p)
  BY <1>1, ReachIsDeclared DEF PluginInv
<1> QED
  BY <1>1, <1>2 DEF MayCall

LEMMA NamespacesSound == PluginInv => NamespacesExclusive
<1> SUFFICES ASSUME PluginInv PROVE NamespacesExclusive
  OBVIOUS
<1>1. ASSUME NEW e \in live
      PROVE  e[2] \in Unique /\ manifest[e[2]].ns = e[1][1]
  <2>1. e[2] \in begun /\ begun # {} /\ begun \subseteq Placed /\ Placed \subseteq valid
    BY DEF PluginInv, LoadSound, OrderSound
  <2>2. valid = Valid
    BY <2>1 DEF PluginInv, LoadSound, PlanSound
  <2> QED
    BY <2>1, <2>2, Stages DEF PluginInv, LoadSound
<1>2. ASSUME NEW p \in Unique, NEW q \in Resolved, manifest[q].ns = manifest[p].ns
      PROVE  Place(p) <= Place(q)
  <2>1. ~ (Place(q) < Place(p))
    BY <1>2 DEF Unique
  <2>2. Place(p) \in Nat /\ Place(q) \in Nat
    BY Places, Stages
  <2> QED
    BY <2>1, <2>2
<1>3. ASSUME NEW p \in Unique, NEW q \in Unique, manifest[q].ns = manifest[p].ns
      PROVE  p = q
  <2>1. Place(p) <= Place(q) /\ Place(q) <= Place(p)
    BY <1>2, <1>3, Stages
  <2>2. p \in Chosen /\ q \in Chosen
    BY Stages
  <2>3. Place(p) \in Nat /\ Place(q) \in Nat /\ Declared[Place(p)] = p /\ Declared[Place(q)] = q
    BY <2>2, Places
  <2> QED
    BY <2>1, <2>3
<1> QED
  BY <1>1, <1>2, <1>3 DEF NamespacesExclusive

\* However startup goes and whenever they register, plugins call what their
\* manifests lead to and no more, and a namespace stays with the plugin that
\* declared it first (makeCallTool, registerTool and validatePlugins).
THEOREM PluginsStayApart == PluginSpec => []PluginsKeepApart
<1>1. PluginInv => PluginsKeepApart
  BY CallsSound, NamespacesSound DEF PluginsKeepApart
<1> QED
  BY <1>1, PluginInvHolds, PTL
=============================================================================

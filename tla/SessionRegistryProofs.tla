---------------------- MODULE SessionRegistryProofs ----------------------
(***************************************************************************)
(* What TLAPS proves of SessionRegistry for every set of ids, profiles,    *)
(* calls and engines, every bound on close_sessions and on the browsers.   *)
(***************************************************************************)
EXTENDS SessionRegistry, FiniteSetTheorems, TLAPS

(***************************************************************************)
(* The strengthening.  A browser a call works on exists; one that a call   *)
(* closes, or has picked to close, is past its factory run; a factory run  *)
(* has not been torn down; the bridge of a browser is detached before its  *)
(* grants are dropped, and they are dropped before it closes.              *)
(***************************************************************************)
CallsSound ==
  \A c \in Calls :
    /\ pc[c] # "idle" => cur[c] \in Browsers
    /\ pc[c] = "using" => phase[cur[c]] \in {"live", "closed"}
    /\ Tearing(c) => phase[cur[c]] \in {"live", "closed"} /\ teardowns[cur[c]] # 0
    /\ \A b \in victims[c] : phase[b] \in {"live", "closed"}

FactorySound ==
  \A b \in Browsers :
    /\ phase[b] \in {"unused", "launching", "wiring"} => teardowns[b] = 0
    /\ phase[b] = "closed" => detached[b]

GrantsSound ==
  /\ \A i \in Ids : grants[i] # None => owner[grants[i]] = i
  /\ \A c \in Calls :
       /\ pc[c] \in {"unregister", "revoke", "close"} => detached[cur[c]]
       /\ pc[c] = "close" => grants[owner[cur[c]]] # cur[c]

IInv ==
  /\ TypeOK
  /\ SingleCreation
  /\ NeverHandsOutClosing
  /\ GrantEndsWithBrowser
  /\ CallsSound
  /\ FactorySound
  /\ GrantsSound

-----------------------------------------------------------------------------
(***************************************************************************)
(* Types.                                                                  *)
(***************************************************************************)

LEMMA NoneIsNoBrowser == None \notin Browsers
BY DEF None, Browsers

\* The initial state is well typed: Ids is not empty.
LEMMA InitTypeOK == Init => TypeOK
BY IdsAssumption, NoneIsNoBrowser
DEF Init, TypeOK, Places, Policies, Phases

\* A tool call starting keeps every variable in its type.
LEMMA ToolTypeOK ==
  ASSUME TypeOK, CallsSound, NEW c \in Calls, Tool(c)
  PROVE  TypeOK'
<1> USE DEF TypeOK, Places, Policies, Phases, Steps, registry, browser, call
<1>1. ASSUME NEW i \in Ids, Existing(c, i) PROVE TypeOK'
  BY <1>1 DEF Existing
<1>2. ASSUME NEW i \in Ids, NEW who \in {"tool"} \cup Policies, Join(c, i, who) PROVE TypeOK'
  BY <1>2 DEF Join
<1>3. ASSUME NEW i \in Ids, NEW who \in {"tool"} \cup Policies, NEW p \in Places,
             NEW eng \in Engines, Create(c, i, who, p, eng)
      PROVE  TypeOK'
  <2>1. Inherited(i, who) \in BOOLEAN
    BY DEF Inherited
  <2>2. PICK b \in Browsers, at \in RunsIn(eng, p) :
          /\ creating' = [creating EXCEPT ![i] = b]
          /\ owner' = [owner EXCEPT ![b] = i]
          /\ place' = [place EXCEPT ![b] = at]
          /\ engine' = [engine EXCEPT ![b] = eng]
          /\ asks' = [asks EXCEPT ![b] = Inherited(i, who)]
          /\ phase' = [phase EXCEPT ![b] = "launching"]
          /\ cur' = [cur EXCEPT ![c] = b]
    BY <1>3 DEF Create
  <2>3. QED
    BY <1>3, <2>1, <2>2, EnginesAssumption DEF Create, RunsIn
<1>4. ASSUME NEW ask \in BOOLEAN, SetPolicy(c, ask) PROVE TypeOK'
  BY <1>4 DEF SetPolicy
<1>5. CASE PreApproved(c)
  <2>1. cur[c] \in Browsers
    BY <1>5 DEF PreApproved, CallsSound
  <2>2. grants[owner[cur[c]]] \in Browsers \cup {None}
    BY <2>1
  <2>3. QED
    BY <1>5, <2>2 DEF PreApproved
<1>6. CASE HumanApproves(c)
  BY <1>6 DEF HumanApproves
<1>7. ASSUME NEW i \in Ids, Close(c, i) PROVE TypeOK'
  BY <1>7, NoneIsNoBrowser DEF Close, BeginClose, HeldBy
<1>8. ASSUME NEW chosen \in SUBSET Browsers, NEW first \in Browsers,
             CloseMatching(c, chosen, first)
      PROVE  TypeOK'
  BY <1>8, NoneIsNoBrowser DEF CloseMatching, BeginClose, HeldBy
<1>9. QED
  BY <1>1, <1>2, <1>3, <1>4, <1>5, <1>6, <1>7, <1>8 DEF Tool

\* So does every later step of a call.
LEMMA ContinueTypeOK ==
  ASSUME TypeOK, NEW c \in Calls, Continue(c)
  PROVE  TypeOK'
<1> USE DEF TypeOK, Places, Policies, Phases, Steps, registry, browser, call
<1>1. CASE Resume(c)
  BY <1>1 DEF Resume
<1>2. CASE ResumeRejected(c) \/ Return(c) \/ Closed(c)
  <2>1. Done(c) /\ UNCHANGED <<registry, sources, grants, browser>>
    BY <1>2 DEF ResumeRejected, Return, Closed
  <2>2. QED
    BY <2>1 DEF Done
<1>3. CASE Detach(c)
  BY <1>3 DEF Detach
<1>4. CASE TeardownThrows(c)
  BY <1>4 DEF TeardownThrows
<1>5. CASE Unregister(c)
  BY <1>5 DEF Unregister
<1>6. CASE Revoke(c)
  BY <1>6 DEF Revoke
<1>7. CASE CloseBrowser(c)
  BY <1>7 DEF CloseBrowser
<1>8. ASSUME NEW b \in Browsers, NextVictim(c, b) PROVE TypeOK'
  BY <1>8 DEF NextVictim, BeginClose, HeldBy
<1>9. QED
  BY <1>1, <1>2, <1>3, <1>4, <1>5, <1>6, <1>7, <1>8 DEF Continue

\* And every step of a factory run.
LEMMA FactoryTypeOK ==
  ASSUME TypeOK, NEW b \in Browsers, Factory(b)
  PROVE  TypeOK'
<1> USE DEF TypeOK, Phases, registry, call
<1>1. CASE Launched(b)
  BY <1>1 DEF Launched
<1>2. CASE Opened(b)
  BY <1>2 DEF Opened
<1>3. CASE \E how \in {"failed", "clashed", "leaked"} : Reject(b, how)
  BY <1>3 DEF Reject
<1>4. QED
  BY <1>1, <1>2, <1>3 DEF Factory, LaunchFailed, LaunchClashed, WiringFailed

-----------------------------------------------------------------------------
(***************************************************************************)
(* The invariant.  StructInv is IInv without the types.                    *)
(***************************************************************************)

StructInv ==
  /\ SingleCreation
  /\ NeverHandsOutClosing
  /\ GrantEndsWithBrowser
  /\ CallsSound
  /\ FactorySound
  /\ GrantsSound

LEMMA InitStruct == Init => StructInv
BY NoneIsNoBrowser
DEF Init, StructInv, SingleCreation, NeverHandsOutClosing, GrantEndsWithBrowser,
    CallsSound, FactorySound, GrantsSound, Running, Tearing, Steps

\* A call that resolves an entry, joins a creation or works on its session
\* changes no browser's life.
LEMMA UseStruct ==
  ASSUME TypeOK, StructInv, NEW c \in Calls,
         \/ \E i \in Ids : Existing(c, i)
         \/ \E i \in Ids, who \in {"tool"} \cup Policies : Join(c, i, who)
         \/ \E ask \in BOOLEAN : SetPolicy(c, ask)
         \/ PreApproved(c)
         \/ Resume(c)
         \/ ResumeRejected(c)
         \/ Return(c)
         \/ Closed(c)
         \/ TeardownThrows(c)
         \/ Unregister(c)
  PROVE  StructInv'
<1> USE DEF TypeOK, StructInv, registry, browser, call
<1>1. SingleCreation'
  BY DEF SingleCreation, Running, Existing, Join, SetPolicy, PreApproved, Resume,
         ResumeRejected, Return, Closed, TeardownThrows, Unregister
<1>2. NeverHandsOutClosing'
  BY DEF NeverHandsOutClosing, Existing, Join, SetPolicy, PreApproved, Resume,
         ResumeRejected, Return, Closed, TeardownThrows, Unregister
<1>3. GrantEndsWithBrowser'
  BY DEF GrantEndsWithBrowser, Existing, Join, SetPolicy, PreApproved, Resume,
         ResumeRejected, Return, Closed, TeardownThrows, Unregister
<1>4. CallsSound'
  <2>1. ASSUME NEW i \in Ids, Existing(c, i) PROVE CallsSound'
    BY <2>1 DEF Existing, CallsSound, NeverHandsOutClosing, Tearing, Steps
  <2>2. ASSUME NEW i \in Ids, NEW who \in {"tool"} \cup Policies, Join(c, i, who)
        PROVE  CallsSound'
    BY <2>2 DEF Join, CallsSound, Tearing, Steps
  <2>3. ASSUME NEW ask \in BOOLEAN, SetPolicy(c, ask) PROVE CallsSound'
    BY <2>3 DEF SetPolicy, CallsSound, Tearing
  <2>4. CASE PreApproved(c) \/ Unregister(c) \/ TeardownThrows(c)
    BY <2>4 DEF PreApproved, Unregister, TeardownThrows, CallsSound, Tearing, Steps
  <2>5. CASE Resume(c)
    BY <2>5 DEF Resume, CallsSound, Tearing, Steps
  <2>6. CASE ResumeRejected(c) \/ Return(c) \/ Closed(c)
    BY <2>6 DEF ResumeRejected, Return, Closed, Done, CallsSound, Tearing, Steps
  <2>7. QED
    BY <2>1, <2>2, <2>3, <2>4, <2>5, <2>6
<1>5. FactorySound'
  BY DEF FactorySound, Existing, Join, SetPolicy, PreApproved, Resume,
         ResumeRejected, Return, Closed, TeardownThrows, Unregister
<1>6. GrantsSound'
  BY DEF GrantsSound, Existing, Join, SetPolicy, PreApproved, Resume,
         ResumeRejected, Return, Closed, Done, TeardownThrows, Unregister
<1>7. QED
  BY <1>1, <1>2, <1>3, <1>4, <1>5, <1>6

\* A factory run starts only for a name with no run and no entry, on a browser
\* nothing refers to yet.
LEMMA CreateStruct ==
  ASSUME TypeOK, StructInv, NEW c \in Calls, NEW i \in Ids,
         NEW who \in {"tool"} \cup Policies, NEW p \in Places, NEW eng \in Engines,
         Create(c, i, who, p, eng)
  PROVE  StructInv'
<1> USE DEF TypeOK, StructInv
<1> PICK b \in Browsers :
      /\ phase[b] = "unused"
      /\ creating' = [creating EXCEPT ![i] = b]
      /\ owner' = [owner EXCEPT ![b] = i]
      /\ phase' = [phase EXCEPT ![b] = "launching"]
      /\ cur' = [cur EXCEPT ![c] = b]
  BY DEF Create
<1>1. /\ pc' = [pc EXCEPT ![c] = "waiting"]
      /\ pc[c] = "idle" /\ entries[i] = None /\ creating[i] = None
      /\ UNCHANGED <<entries, grants, detached, teardowns, victims>>
  BY DEF Create, Absent
<1>2. SingleCreation'
  BY <1>1, NoneIsNoBrowser DEF SingleCreation, Running
<1>3. NeverHandsOutClosing'
  BY <1>1 DEF NeverHandsOutClosing
<1>4. GrantEndsWithBrowser'
  BY <1>1 DEF GrantEndsWithBrowser
<1>5. CallsSound'
  BY <1>1 DEF CallsSound, Tearing, Steps
<1>6. FactorySound'
  BY <1>1 DEF FactorySound
<1>7. GrantsSound'
  <2>1. \A j \in Ids : grants'[j] # None => owner'[grants'[j]] = j
    BY <1>1 DEF GrantsSound, GrantEndsWithBrowser
  <2>2. ASSUME NEW d \in Calls
        PROVE  /\ pc'[d] \in {"unregister", "revoke", "close"} => detached'[cur'[d]]
               /\ pc'[d] = "close" => grants'[owner'[cur'[d]]] # cur'[d]
    <3>1. CASE d = c
      BY <1>1, <3>1
    <3>2. CASE d # c
      <4>1. pc'[d] = pc[d] /\ cur'[d] = cur[d]
        BY <1>1, <3>2
      <4>2. pc[d] = "close" => cur[d] # b
        BY DEF CallsSound, Tearing, Steps
      <4>3. QED
        BY <1>1, <4>1, <4>2 DEF GrantsSound, CallsSound
    <3>3. QED
      BY <3>1, <3>2
  <2>3. QED
    BY <2>1, <2>2 DEF GrantsSound
<1>8. QED
  BY <1>2, <1>3, <1>4, <1>5, <1>6, <1>7

\* A human answers only while the bridge is attached, so the grant it leaves is
\* for a live browser.
LEMMA ApproveStruct ==
  ASSUME TypeOK, StructInv, NEW c \in Calls, HumanApproves(c)
  PROVE  StructInv'
<1> USE DEF TypeOK, StructInv, registry, browser
<1> DEFINE b == cur[c]
<1>1. /\ b \in Browsers /\ phase[b] = "live" /\ ~detached[b] /\ owner[b] \in Ids
      /\ grants' = [grants EXCEPT ![owner[b]] = b]
      /\ UNCHANGED <<registry, browser, pc, cur, victims>>
  BY DEF HumanApproves, CallsSound, FactorySound
<1>2. SingleCreation' /\ NeverHandsOutClosing' /\ CallsSound' /\ FactorySound'
  BY <1>1 DEF SingleCreation, Running, NeverHandsOutClosing, CallsSound, Tearing, FactorySound
<1>3. GrantEndsWithBrowser'
  BY <1>1 DEF GrantEndsWithBrowser
<1>4. GrantsSound'
  BY <1>1 DEF GrantsSound
<1>5. QED
  BY <1>2, <1>3, <1>4

\* A close takes the entry out of the map before its teardown starts.
LEMMA BeginCloseStruct ==
  ASSUME TypeOK, StructInv, NEW c \in Calls, NEW b \in Browsers,
         phase[b] \in {"live", "closed"}, pc[c] \in {"idle", "closed"},
         BeginClose(c, b),
         \A v \in victims'[c] : phase[v] \in {"live", "closed"},
         \A d \in Calls \ {c} : victims'[d] = victims[d],
         UNCHANGED <<creating, grants, owner, phase, detached>>
  PROVE  StructInv'
<1> USE DEF TypeOK, StructInv, BeginClose, HeldBy
<1>1. SingleCreation'
  BY DEF SingleCreation, Running
<1>2. NeverHandsOutClosing'
  BY DEF NeverHandsOutClosing
<1>3. GrantEndsWithBrowser'
  BY DEF GrantEndsWithBrowser
<1>4. CallsSound'
  BY DEF CallsSound, Tearing, Steps
<1>5. FactorySound'
  BY DEF FactorySound
<1>6. GrantsSound'
  BY DEF GrantsSound, CallsSound
<1>7. QED
  BY <1>1, <1>2, <1>3, <1>4, <1>5, <1>6

LEMMA CloseStruct ==
  ASSUME TypeOK, StructInv, NEW c \in Calls,
         \/ \E i \in Ids : Close(c, i)
         \/ \E chosen \in SUBSET Browsers, first \in Browsers : CloseMatching(c, chosen, first)
         \/ \E b \in Browsers : NextVictim(c, b)
  PROVE  StructInv'
<1>1. ASSUME NEW i \in Ids, Close(c, i) PROVE StructInv'
  <2>1. entries[i] \in Browsers /\ phase[entries[i]] = "live"
    BY <1>1 DEF Close, TypeOK, StructInv, NeverHandsOutClosing
  <2>2. QED
    BY <1>1, <2>1, BeginCloseStruct DEF Close, StructInv, CallsSound
<1>2. ASSUME NEW chosen \in SUBSET Browsers, NEW first \in Browsers,
             CloseMatching(c, chosen, first)
      PROVE  StructInv'
  <2>1. \A b \in chosen : phase[b] = "live"
    BY <1>2, NoneIsNoBrowser DEF CloseMatching, TypeOK, StructInv, NeverHandsOutClosing
  <2>2. /\ victims' = [victims EXCEPT ![c] = chosen \ {first}]
        /\ first \in chosen
    BY <1>2 DEF CloseMatching
  <2>3. /\ \A v \in victims'[c] : phase[v] \in {"live", "closed"}
        /\ \A d \in Calls \ {c} : victims'[d] = victims[d]
    BY <2>1, <2>2 DEF TypeOK
  <2>4. QED
    BY <1>2, <2>1, <2>2, <2>3, BeginCloseStruct DEF CloseMatching
<1>3. ASSUME NEW b \in Browsers, NextVictim(c, b) PROVE StructInv'
  <2>1. /\ phase[b] \in {"live", "closed"}
        /\ \A v \in victims'[c] : phase[v] \in {"live", "closed"}
        /\ \A d \in Calls \ {c} : victims'[d] = victims[d]
    BY <1>3 DEF NextVictim, TypeOK, StructInv, CallsSound
  <2>2. QED
    BY <1>3, <2>1, BeginCloseStruct DEF NextVictim
<1>4. QED
  BY <1>1, <1>2, <1>3

\* The teardown steps, in their order: detach, drop the grants, close.
LEMMA TeardownStruct ==
  ASSUME TypeOK, StructInv, NEW c \in Calls,
         Detach(c) \/ Revoke(c) \/ CloseBrowser(c)
  PROVE  StructInv'
<1> USE DEF TypeOK, StructInv, registry
<1>1. cur[c] \in Browsers /\ teardowns[cur[c]] # 0 /\ phase[cur[c]] \in {"live", "closed"}
  BY DEF Detach, Revoke, CloseBrowser, CallsSound, Tearing, Steps
<1>2. CASE Detach(c)
  <2>1. SingleCreation' /\ NeverHandsOutClosing' /\ GrantEndsWithBrowser' /\ FactorySound'
    BY <1>2 DEF Detach, SingleCreation, Running, NeverHandsOutClosing,
                GrantEndsWithBrowser, FactorySound
  <2>2. CallsSound'
    BY <1>1, <1>2 DEF Detach, CallsSound, Tearing, Steps
  <2>3. GrantsSound'
    BY <1>1, <1>2 DEF Detach, GrantsSound, CallsSound
  <2>4. QED
    BY <2>1, <2>2, <2>3
<1>3. CASE Revoke(c)
  <2>1. SingleCreation' /\ NeverHandsOutClosing' /\ GrantEndsWithBrowser' /\ FactorySound'
    BY <1>3 DEF Revoke, SingleCreation, Running, NeverHandsOutClosing, browser,
                GrantEndsWithBrowser, FactorySound
  <2>2. CallsSound'
    BY <1>1, <1>3 DEF Revoke, CallsSound, Tearing, Steps, browser
  <2>3. GrantsSound'
    BY <1>1, <1>3, NoneIsNoBrowser DEF Revoke, GrantsSound, CallsSound, browser
  <2>4. QED
    BY <2>1, <2>2, <2>3
<1>4. CASE CloseBrowser(c)
  <2>1. \A i \in Ids : entries[i] # cur[c] /\ grants[i] # cur[c]
    BY <1>1, <1>4, NoneIsNoBrowser
    DEF CloseBrowser, NeverHandsOutClosing, GrantsSound
  <2>2. SingleCreation' /\ NeverHandsOutClosing' /\ GrantEndsWithBrowser'
    BY <1>1, <1>4, <2>1 DEF CloseBrowser, SingleCreation, Running,
                            NeverHandsOutClosing, GrantEndsWithBrowser
  <2>3. CallsSound'
    BY <1>1, <1>4 DEF CloseBrowser, CallsSound, Tearing, Steps
  <2>4. FactorySound' /\ GrantsSound'
    BY <1>1, <1>4 DEF CloseBrowser, FactorySound, GrantsSound
  <2>5. QED
    BY <2>2, <2>3, <2>4
<1>5. QED
  BY <1>2, <1>3, <1>4

\* A factory run settles: the name it was created for is released with it.
LEMMA FactoryStruct ==
  ASSUME TypeOK, StructInv, NEW b \in Browsers, Factory(b)
  PROVE  StructInv'
<1> USE DEF TypeOK, StructInv, call
<1>1. CASE Launched(b)
  BY <1>1 DEF Launched, registry, SingleCreation, Running, NeverHandsOutClosing,
              GrantEndsWithBrowser, CallsSound, Tearing, Steps, FactorySound, GrantsSound
<1>2. ASSUME NEW how \in {"failed", "clashed", "leaked"}, Running(b), Reject(b, how)
      PROVE  StructInv'
  <2>1. SingleCreation'
    BY <1>2 DEF Reject, SingleCreation, Running
  <2>2. NeverHandsOutClosing' /\ GrantEndsWithBrowser'
    BY <1>2 DEF Reject, NeverHandsOutClosing, GrantEndsWithBrowser, Running
  <2>3. CallsSound'
    BY <1>2 DEF Reject, CallsSound, Tearing, Steps, Running
  <2>4. FactorySound' /\ GrantsSound'
    BY <1>2 DEF Reject, FactorySound, GrantsSound
  <2>5. QED
    BY <2>1, <2>2, <2>3, <2>4
<1>3. CASE Opened(b)
  <2>1. SingleCreation'
    BY <1>3, NoneIsNoBrowser DEF Opened, SingleCreation, Running
  <2>2. NeverHandsOutClosing' /\ GrantEndsWithBrowser'
    BY <1>3 DEF Opened, NeverHandsOutClosing, GrantEndsWithBrowser, FactorySound
  <2>3. CallsSound'
    BY <1>3 DEF Opened, CallsSound, Tearing, Steps
  <2>4. FactorySound' /\ GrantsSound'
    BY <1>3 DEF Opened, FactorySound, GrantsSound
  <2>5. QED
    BY <2>1, <2>2, <2>3, <2>4
<1>4. QED
  BY <1>1, <1>2, <1>3 DEF Factory, LaunchFailed, LaunchClashed, WiringFailed, Running

LEMMA ExpiryStruct ==
  ASSUME TypeOK, StructInv, NEW i \in Ids, GrantExpires(i)
  PROVE  StructInv'
BY NoneIsNoBrowser
DEF TypeOK, StructInv, GrantExpires, registry, browser, call, SingleCreation, Running,
    NeverHandsOutClosing, GrantEndsWithBrowser, CallsSound, Tearing, FactorySound, GrantsSound

\* Every step, and every stutter, keeps the invariant.
LEMMA StepInv == IInv /\ [Next]_vars => IInv'
<1> SUFFICES ASSUME TypeOK, StructInv, [Next]_vars
             PROVE  TypeOK' /\ StructInv'
  BY DEF IInv, StructInv
<1>1. ASSUME NEW c \in Calls, Tool(c) PROVE TypeOK' /\ StructInv'
  <2>1. TypeOK'
    BY <1>1, ToolTypeOK DEF StructInv
  <2>2. StructInv'
    BY <1>1, UseStruct, CreateStruct, ApproveStruct, CloseStruct DEF Tool
  <2>3. QED
    BY <2>1, <2>2
<1>2. ASSUME NEW c \in Calls, Continue(c) PROVE TypeOK' /\ StructInv'
  <2>1. TypeOK'
    BY <1>2, ContinueTypeOK
  <2>2. StructInv'
    BY <1>2, UseStruct, CloseStruct, TeardownStruct DEF Continue
  <2>3. QED
    BY <2>1, <2>2
<1>3. ASSUME NEW b \in Browsers, Factory(b) PROVE TypeOK' /\ StructInv'
  BY <1>3, FactoryTypeOK, FactoryStruct
<1>4. ASSUME NEW i \in Ids, GrantExpires(i) PROVE TypeOK' /\ StructInv'
  <2>1. TypeOK'
    BY <1>4 DEF GrantExpires, TypeOK, registry, browser, call
  <2>2. QED
    BY <1>4, <2>1, ExpiryStruct
<1>5. CASE UNCHANGED vars
  BY <1>5 DEF vars, registry, browser, call, TypeOK, StructInv, SingleCreation, Running,
              NeverHandsOutClosing, GrantEndsWithBrowser, CallsSound, Tearing,
              FactorySound, GrantsSound
<1>6. QED
  BY <1>1, <1>2, <1>3, <1>4, <1>5 DEF Next

LEMMA InvHolds == Spec => []IInv
<1>1. Init => IInv
  BY InitTypeOK, InitStruct DEF IInv, StructInv
<1>2. QED
  BY <1>1, StepInv, PTL DEF Spec

-----------------------------------------------------------------------------
\* The registry's state is always well typed.
THEOREM RegistryTypeOK == Spec => []TypeOK
BY InvHolds, PTL DEF IInv

\* One name, one browser: however many calls race for a name, and however
\* often its creation fails, get() has at most one factory run in flight for
\* it and none while it is registered (src/session/registry.ts, get).
THEOREM OneBrowserPerName == Spec => []SingleCreation
BY InvHolds, PTL DEF IInv

\* get() never resolves to a session some call already began to close, for any
\* interleaving of close_session, close_sessions and reopens.
THEOREM ClosingIsFinal == Spec => []NeverHandsOutClosing
BY InvHolds, PTL DEF IInv

\* No session grant outlives the browser of the session whose human gave it,
\* whatever the engine and however the teardown of a reopened name overlaps.
THEOREM GrantsDie == Spec => []GrantEndsWithBrowser
BY InvHolds, PTL DEF IInv

-----------------------------------------------------------------------------
(***************************************************************************)
(* Holds and orphans, as long as no bulk close comes to a session that was *)
(* closed or replaced under its name since it was picked: such a close     *)
(* overwrites what was filed under the name since, and neither holds.      *)
(***************************************************************************)

ClosesFresh == \A c \in Calls, b \in Browsers : NextVictim(c, b) => entries[owner[b]] = b

NoVictimsLeft == \A c \in Calls : victims[c] = {}

\* What a call that begins a close closes is what its name has registered.
LEMMA OnlyOne ==
  ASSUME MaxVictims <= 1, NEW chosen \in SUBSET Browsers, NEW first \in chosen,
         Cardinality(chosen) <= MaxVictims
  PROVE  chosen \ {first} = {}
<1>1. IsFiniteSet(chosen)
  <2>1. IsFiniteSet(1..MaxBrowsers)
    BY FS_Interval, BoundAssumption
  <2>2. QED
    BY <2>1, FS_Subset DEF Browsers
<1>2. /\ IsFiniteSet(chosen \ {first})
      /\ Cardinality(chosen \ {first}) = Cardinality(chosen) - 1
  BY <1>1, FS_RemoveElement
<1>3. Cardinality(chosen) \in Nat /\ Cardinality(chosen \ {first}) \in Nat
  BY <1>1, <1>2, FS_CardinalityType
<1>4. Cardinality(chosen \ {first}) = 0
  BY <1>2, <1>3, BoundAssumption
<1>5. QED
  BY <1>2, <1>4, FS_EmptySet

LEMMA VictimsStep ==
  ASSUME MaxVictims <= 1, TypeOK, NoVictimsLeft, [Next]_vars
  PROVE  NoVictimsLeft'
<1> USE DEF TypeOK, NoVictimsLeft
<1>1. ASSUME NEW c \in Calls, NEW chosen \in SUBSET Browsers, NEW first \in Browsers,
             CloseMatching(c, chosen, first)
      PROVE  NoVictimsLeft'
  BY <1>1, OnlyOne DEF CloseMatching
<1>2. CASE UNCHANGED victims
  BY <1>2
<1>3. ASSUME NEW c \in Calls, NEW b \in Browsers, NextVictim(c, b) PROVE FALSE
  BY <1>3 DEF NextVictim
<1>4. ASSUME NEW c \in Calls, Tool(c) PROVE NoVictimsLeft'
  <2>1. CASE \E chosen \in SUBSET Browsers, first \in Browsers : CloseMatching(c, chosen, first)
    BY <1>1, <2>1
  <2>2. CASE \/ \E i \in Ids : Existing(c, i) \/ Close(c, i)
             \/ \E ask \in BOOLEAN : SetPolicy(c, ask)
             \/ PreApproved(c) \/ HumanApproves(c)
    BY <1>2, <2>2 DEF Existing, SetPolicy, PreApproved, HumanApproves, Close, call
  <2>3. CASE \E i \in Ids, who \in {"tool"} \cup Policies : Join(c, i, who)
    BY <1>2, <2>3 DEF Join
  <2>4. CASE \E i \in Ids, who \in {"tool"} \cup Policies, p \in Places, eng \in Engines :
               Create(c, i, who, p, eng)
    BY <1>2, <2>4 DEF Create
  <2>5. QED
    BY <1>4, <2>1, <2>2, <2>3, <2>4 DEF Tool
<1>5. ASSUME NEW c \in Calls, Continue(c) PROVE NoVictimsLeft'
  BY <1>2, <1>3, <1>5
  DEF Continue, Resume, ResumeRejected, Return, Done, Detach, TeardownThrows,
      Unregister, Revoke, CloseBrowser, Closed
<1>6. ASSUME NEW b \in Browsers, Factory(b) PROVE NoVictimsLeft'
  BY <1>2, <1>6
  DEF Factory, Launched, LaunchFailed, LaunchClashed, WiringFailed, Reject, Opened, call
<1>7. ASSUME NEW i \in Ids, GrantExpires(i) PROVE NoVictimsLeft'
  BY <1>2, <1>7 DEF GrantExpires, call
<1>8. CASE UNCHANGED vars
  BY <1>2, <1>8 DEF vars, call
<1>9. QED
  BY <1>4, <1>5, <1>6, <1>7, <1>8 DEF Next

\* A close closes what is registered, and the call that begins it closed nothing
\* or has closed its last.
LEMMA ClosesRegistered ==
  ASSUME TypeOK, NeverHandsOutClosing, ClosesFresh, NEW c \in Calls,
         \/ \E i \in Ids : Close(c, i)
         \/ \E chosen \in SUBSET Browsers, first \in Browsers : CloseMatching(c, chosen, first)
         \/ \E b \in Browsers : NextVictim(c, b)
  PROVE  \E b \in Browsers :
           /\ entries[owner[b]] = b /\ BeginClose(c, b) /\ pc[c] \in {"idle", "closed"}
           /\ UNCHANGED <<creating, sources, grants, owner, place, asks, phase, asked, blessed>>
<1>1. ASSUME NEW i \in Ids, Close(c, i)
      PROVE  /\ entries[i] \in Browsers /\ entries[owner[entries[i]]] = entries[i]
             /\ BeginClose(c, entries[i]) /\ pc[c] \in {"idle", "closed"}
             /\ UNCHANGED <<creating, sources, grants, owner, place, asks, phase, asked, blessed>>
  BY <1>1 DEF Close, TypeOK, NeverHandsOutClosing
<1>2. ASSUME NEW chosen \in SUBSET Browsers, NEW first \in Browsers,
             CloseMatching(c, chosen, first)
      PROVE  /\ entries[owner[first]] = first /\ BeginClose(c, first) /\ pc[c] \in {"idle", "closed"}
             /\ UNCHANGED <<creating, sources, grants, owner, place, asks, phase, asked, blessed>>
  BY <1>2 DEF CloseMatching
<1>3. ASSUME NEW b \in Browsers, NextVictim(c, b)
      PROVE  /\ entries[owner[b]] = b /\ BeginClose(c, b) /\ pc[c] \in {"idle", "closed"}
             /\ UNCHANGED <<creating, sources, grants, owner, place, asks, phase, asked, blessed>>
  BY <1>3 DEF NextVictim, ClosesFresh
<1>4. QED
  BY <1>1, <1>2, <1>3

\* What decides of holds: nothing but creations, policies, closes and the steps
\* of the factory changes it.
holding == <<entries, held, owner, asks, phase>>

LEMMA HoldUnchanged ==
  ASSUME UNCHANGED holding, HoldRespected
  PROVE  HoldRespected'
BY DEF holding, HoldRespected, Running

LEMMA HoldStep ==
  ASSUME IInv, HoldRespected, Next, ClosesFresh, ~ Override
  PROVE  /\ HoldRespected'
         /\ \A i \in Ids : held[i] # NotHeld => held'[i] # NotHeld
<1> DEFINE Kept == /\ HoldRespected'
                   /\ \A i \in Ids : held[i] # NotHeld => held'[i] # NotHeld
<1> USE DEF IInv, TypeOK
<1>1. CASE UNCHANGED holding
  BY <1>1, HoldUnchanged DEF holding
<1>2. ASSUME NEW c \in Calls, NEW i \in Ids, NEW who \in {"tool"} \cup Policies, NEW p \in Places,
             NEW eng \in Engines, Create(c, i, who, p, eng)
      PROVE  Kept
  <2>1. held[i] # NotHeld => Inherited(i, who)
    BY <1>2 DEF Create, ReopenGate, Inherited, Policies
  <2>2. PICK b \in Browsers :
          /\ phase[b] = "unused"
          /\ owner' = [owner EXCEPT ![b] = i]
          /\ asks' = [asks EXCEPT ![b] = Inherited(i, who)]
          /\ phase' = [phase EXCEPT ![b] = "launching"]
          /\ UNCHANGED <<entries, held>>
    BY <1>2 DEF Create
  <2>3. QED
    BY <2>1, <2>2 DEF HoldRespected, Running
<1>3. ASSUME NEW c \in Calls, NEW ask \in BOOLEAN, SetPolicy(c, ask) PROVE Kept
  BY <1>3 DEF SetPolicy, registry, HoldRespected, Running, CallsSound
<1>4. ASSUME NEW c \in Calls,
             \/ \E i \in Ids : Close(c, i)
             \/ \E chosen \in SUBSET Browsers, first \in Browsers :
                  CloseMatching(c, chosen, first)
             \/ \E b \in Browsers : NextVictim(c, b)
      PROVE  Kept
  <2>1. PICK b \in Browsers :
          /\ entries[owner[b]] = b /\ BeginClose(c, b)
          /\ UNCHANGED <<creating, owner, asks, phase>>
    BY <1>4, ClosesRegistered
  <2>2. /\ owner[b] \in Ids /\ creating[owner[b]] = None
        /\ HeldBy(b) # NotHeld <=> asks[b]
    BY <2>1, NotHeldAssumption, NoneIsNoBrowser DEF SingleCreation, HeldBy
  <2>3. \A a \in Browsers : owner[a] = owner[b] => ~ Running(a) /\ entries'[owner[a]] # a
    BY <2>1, <2>2, NoneIsNoBrowser DEF SingleCreation, BeginClose
  <2>4. \A a \in Browsers :
          owner[a] # owner[b] => /\ held'[owner[a]] = held[owner[a]]
                                 /\ entries'[owner[a]] = entries[owner[a]]
    BY <2>1 DEF BeginClose
  <2>5. HoldRespected'
    BY <2>1, <2>3, <2>4 DEF HoldRespected, Running
  <2>6. held[owner[b]] # NotHeld => asks[b]
    BY <2>1 DEF HoldRespected
  <2>7. QED
    BY <2>1, <2>2, <2>5, <2>6 DEF BeginClose
<1>5. ASSUME NEW c \in Calls, CloseBrowser(c) PROVE Kept
  BY <1>5 DEF CloseBrowser, registry, HoldRespected, Running, CallsSound, Tearing, Steps
<1>6. ASSUME NEW b \in Browsers, Factory(b) PROVE Kept
  <2>1. CASE Opened(b)
    BY <2>1 DEF Opened, HoldRespected, Running, SingleCreation
  <2>2. CASE Launched(b)
    BY <2>2 DEF Launched, registry, HoldRespected, Running
  <2>3. CASE \E how \in {"failed", "clashed", "leaked"} : Reject(b, how)
    BY <2>3 DEF Reject, HoldRespected, Running
  <2>4. QED
    BY <1>6, <2>1, <2>2, <2>3 DEF Factory, LaunchFailed, LaunchClashed, WiringFailed
<1>7. ASSUME NEW c \in Calls, Tool(c) PROVE Kept
  <2>1. ASSUME NEW i \in Ids, Existing(c, i) PROVE Kept
    BY <1>1, <2>1 DEF Existing, registry, browser, holding
  <2>2. ASSUME NEW i \in Ids, NEW who \in {"tool"} \cup Policies, Join(c, i, who) PROVE Kept
    BY <1>1, <2>2 DEF Join, registry, browser, holding
  <2>3. CASE PreApproved(c) \/ HumanApproves(c)
    BY <1>1, <2>3 DEF PreApproved, HumanApproves, registry, browser, holding
  <2>4. QED
    BY <1>2, <1>3, <1>4, <1>7, <2>1, <2>2, <2>3 DEF Tool
<1>8. ASSUME NEW c \in Calls, Continue(c) PROVE Kept
  BY <1>1, <1>4, <1>5, <1>8
  DEF Continue, Resume, ResumeRejected, Return, Done, Detach, TeardownThrows,
      Unregister, Revoke, Closed, registry, browser, holding
<1>9. ASSUME NEW i \in Ids, GrantExpires(i) PROVE Kept
  BY <1>1, <1>9 DEF GrantExpires, registry, browser, holding
<1>10. QED
  BY <1>6, <1>7, <1>8, <1>9 DEF Next

\* Every live browser is registered or being closed.
AllReachable == \A b \in Browsers : phase[b] = "live" => Reachable(b)

\* Only a teardown's last step, or an engine whose teardown throws, takes a call
\* off a live browser; only a registered browser begins to close.
LEMMA ReachStep ==
  ASSUME IInv, AllReachable, Next, ClosesFresh,
         \A b \in Browsers : HasCdp(engine[b]) \/ engine[b] = "safari"
  PROVE  AllReachable'
<1> USE DEF IInv, TypeOK, Steps
<1>1. ASSUME NEW c \in Calls, NEW i \in Ids, NEW who \in {"tool"} \cup Policies, NEW p \in Places,
             NEW eng \in Engines, Create(c, i, who, p, eng)
      PROVE  AllReachable'
  BY <1>1 DEF Create, AllReachable, Reachable
<1>2. ASSUME NEW c \in Calls,
             \/ \E i \in Ids : Close(c, i)
             \/ \E chosen \in SUBSET Browsers, first \in Browsers :
                  CloseMatching(c, chosen, first)
             \/ \E b \in Browsers : NextVictim(c, b)
      PROVE  AllReachable'
  <2>1. PICK b \in Browsers :
          /\ entries[owner[b]] = b /\ BeginClose(c, b) /\ pc[c] \in {"idle", "closed"}
          /\ UNCHANGED <<owner, phase>>
    BY <1>2, ClosesRegistered
  <2>2. /\ pc'[c] = "detach" /\ cur'[c] = b
        /\ \A d \in Calls \ {c} : pc'[d] = pc[d] /\ cur'[d] = cur[d]
        /\ \A a \in Browsers : entries[owner[a]] = a /\ a # b => entries'[owner[a]] = a
    BY <2>1, NoneIsNoBrowser DEF BeginClose
  <2>3. QED
    BY <2>1, <2>2 DEF AllReachable, Reachable
<1>3. ASSUME NEW b \in Browsers, Factory(b) PROVE AllReachable'
  <2>1. CASE Opened(b)
    <3>1. entries[owner[b]] = None
      BY <2>1, NoneIsNoBrowser DEF Opened, SingleCreation, Running
    <3>2. QED
      BY <2>1, <3>1, NoneIsNoBrowser DEF Opened, AllReachable, Reachable, call
  <2>2. CASE Launched(b)
    BY <2>2 DEF Launched, registry, call, AllReachable, Reachable
  <2>3. CASE \E how \in {"failed", "clashed", "leaked"} : Reject(b, how)
    BY <2>3 DEF Reject, call, AllReachable, Reachable
  <2>4. QED
    BY <1>3, <2>1, <2>2, <2>3 DEF Factory, LaunchFailed, LaunchClashed, WiringFailed
<1>4. ASSUME NEW c \in Calls, Tool(c) PROVE AllReachable'
  <2>1. ASSUME NEW i \in Ids, Existing(c, i) PROVE AllReachable'
    BY <2>1 DEF Existing, registry, browser, AllReachable, Reachable
  <2>2. ASSUME NEW i \in Ids, NEW who \in {"tool"} \cup Policies, Join(c, i, who)
        PROVE  AllReachable'
    BY <2>2 DEF Join, registry, browser, AllReachable, Reachable
  <2>3. CASE PreApproved(c) \/ HumanApproves(c) \/ \E ask \in BOOLEAN : SetPolicy(c, ask)
    BY <2>3 DEF PreApproved, HumanApproves, SetPolicy, registry, browser, call, AllReachable, Reachable
  <2>4. QED
    BY <1>1, <1>2, <1>4, <2>1, <2>2, <2>3 DEF Tool
<1>5. ASSUME NEW c \in Calls, Continue(c) PROVE AllReachable'
  <2>1. CASE Resume(c) \/ ResumeRejected(c) \/ Return(c) \/ Closed(c)
    <3>1. /\ pc[c] \in {"waiting", "using", "closed"}
          /\ \A d \in Calls \ {c} : pc'[d] = pc[d] /\ cur'[d] = cur[d]
          /\ UNCHANGED <<entries, owner, phase>>
      BY <2>1 DEF Resume, ResumeRejected, Return, Closed, Done, registry, browser
    <3>2. QED
      BY <3>1 DEF AllReachable, Reachable
  <2>2. CASE Detach(c) \/ Unregister(c) \/ Revoke(c)
    BY <2>2 DEF Detach, Unregister, Revoke, registry, browser, AllReachable, Reachable
  <2>3. CASE TeardownThrows(c)
    BY <2>3 DEF TeardownThrows, CallsSound
  <2>4. CASE CloseBrowser(c)
    BY <2>4 DEF CloseBrowser, registry, AllReachable, Reachable, CallsSound
  <2>5. QED
    BY <1>2, <1>5, <2>1, <2>2, <2>3, <2>4 DEF Continue
<1>6. CASE UNCHANGED vars \/ \E i \in Ids : GrantExpires(i)
  BY <1>6 DEF GrantExpires, vars, registry, browser, call, AllReachable, Reachable
<1>7. QED
  BY <1>3, <1>4, <1>5, <1>6 DEF Next

(***************************************************************************)
(* What becomes of the browsers that are lost, with no condition on the    *)
(* closes.                                                                 *)
(***************************************************************************)

\* The two ways to lose browser b.
TornInVain(b) == teardowns[b] > 0 /\ ~HasCdp(engine[b]) /\ engine[b] # "safari"
TakenAlong(b) == \E a \in Browsers \ {b} : owner[a] = owner[b] /\ teardowns[a] > 1

\* A session picked for a bulk close is registered, or somebody tore it down, or
\* it was taken along with another.
VictimsKnown ==
  \A c \in Calls : \A b \in victims[c] :
    entries[owner[b]] = b \/ teardowns[b] > 0 \/ TakenAlong(b)

Accounted ==
  /\ \A b \in Browsers : phase[b] = "live" => Reachable(b) \/ TornInVain(b) \/ TakenAlong(b)
  /\ VictimsKnown

\* What a browser went through stays with it.
Remembered ==
  \A b \in Browsers : phase[b] # "unused" =>
    /\ owner'[b] = owner[b] /\ engine'[b] = engine[b]
    /\ teardowns'[b] \in Nat /\ teardowns'[b] >= teardowns[b]

LEMMA LostForGood ==
  ASSUME IInv, Remembered, NEW b \in Browsers, phase[b] # "unused"
  PROVE  /\ TornInVain(b) => TornInVain(b)'
         /\ TakenAlong(b) => TakenAlong(b)'
<1>0. \A a \in Browsers : /\ phase[a] = "unused" => teardowns[a] = 0
                         /\ teardowns[a] \in Nat
  BY DEF IInv, TypeOK, FactorySound
<1>1. teardowns'[b] \in Nat /\ teardowns'[b] >= teardowns[b] /\ engine'[b] = engine[b] /\ owner'[b] = owner[b]
  BY DEF Remembered
<1>2. ASSUME NEW a \in Browsers \ {b}, owner[a] = owner[b], teardowns[a] > 1
      PROVE  owner'[a] = owner'[b] /\ teardowns'[a] > 1
  <2>1. phase[a] # "unused"
    BY <1>0, <1>2
  <2>2. owner'[a] = owner[a] /\ teardowns'[a] \in Nat /\ teardowns'[a] >= teardowns[a]
    BY <2>1 DEF Remembered
  <2>3. QED
    BY <1>0, <1>1, <1>2, <2>2
<1>3. TornInVain(b) => TornInVain(b)'
  BY <1>0, <1>1 DEF TornInVain, HasCdp
<1>4. QED
  BY <1>2, <1>3 DEF TakenAlong

\* A step that takes no entry out of the registry and nobody off the close of a
\* live browser, unless its teardown throws.
LEMMA AccountedKept ==
  ASSUME IInv, Accounted, Remembered, UNCHANGED victims,
         \A b \in Browsers : phase'[b] = "live" /\ ~ TornInVain(b)' =>
           Reachable(b)' \/ (phase[b] = "live" /\ ~ Reachable(b)),
         \A b \in Browsers : phase[b] # "unused" /\ entries[owner[b]] = b => entries'[owner[b]] = b
  PROVE  Accounted'
<1> USE DEF IInv, TypeOK
<1>1. ASSUME NEW b \in Browsers, phase'[b] = "live"
      PROVE  Reachable(b)' \/ TornInVain(b)' \/ TakenAlong(b)'
  <2>1. CASE phase[b] = "live" /\ ~ Reachable(b)
    BY <2>1, LostForGood DEF Accounted
  <2>2. QED
    BY <1>1, <2>1
<1>2. ASSUME NEW c \in Calls, NEW b \in victims'[c]
      PROVE  entries'[owner'[b]] = b \/ teardowns'[b] > 0 \/ TakenAlong(b)'
  <2>1. b \in victims[c] /\ b \in Browsers /\ phase[b] # "unused"
    BY <1>2 DEF CallsSound
  <2>2. owner'[b] = owner[b] /\ teardowns'[b] \in Nat /\ teardowns'[b] >= teardowns[b]
    BY <2>1 DEF Remembered
  <2>3. entries[owner[b]] = b \/ teardowns[b] > 0 \/ TakenAlong(b)
    BY <2>1 DEF Accounted, VictimsKnown
  <2>4. QED
    BY <2>1, <2>2, <2>3, LostForGood
<1>3. QED
  BY <1>1, <1>2 DEF Accounted, VictimsKnown

\* A bulk close that comes to a session whose entry is gone tears it down a
\* second time, or comes after one that was.
LEMMA AccountedClose ==
  ASSUME IInv, Accounted, NEW c \in Calls, NEW v \in Browsers, phase[v] # "unused",
         pc[c] \in {"idle", "closed"}, BeginClose(c, v),
         entries[owner[v]] = v \/ v \in victims[c],
         \A d \in Calls : \A b \in victims'[d] : b \in victims[d] \/ entries[owner[b]] = b,
         \A d \in Calls : victims'[d] \subseteq Browsers,
         UNCHANGED <<owner, engine, phase>>
  PROVE  Accounted'
<1> USE DEF IInv, TypeOK
<1>1. /\ teardowns' = [teardowns EXCEPT ![v] = @ + 1]
      /\ entries' = [entries EXCEPT ![owner[v]] = None]
      /\ pc' = [pc EXCEPT ![c] = "detach"] /\ cur' = [cur EXCEPT ![c] = v]
  BY DEF BeginClose
<1>2. Remembered
  BY <1>1 DEF Remembered
<1>3. Reachable(v)'
  BY <1>1 DEF Reachable, Steps
<1>4. ASSUME NEW b \in Browsers \ {v}, entries[owner[b]] = b
      PROVE  entries'[owner[b]] = b \/ TakenAlong(b)'
  <2>1. teardowns[b] = 0
    BY <1>4, NoneIsNoBrowser DEF NeverHandsOutClosing
  <2>2. CASE owner[b] # owner[v]
    BY <1>1, <1>4, <2>2
  <2>3. CASE owner[b] = owner[v] /\ teardowns[v] > 0
    <3>1. teardowns'[v] > 1 /\ owner'[v] = owner'[b]
      BY <1>1, <2>3
    <3>2. QED
      BY <3>1 DEF TakenAlong
  <2>4. CASE owner[b] = owner[v] /\ TakenAlong(v)
    <3>1. PICK a \in Browsers : owner[a] = owner[v] /\ teardowns[a] > 1
      BY <2>4 DEF TakenAlong
    <3>2. a # b /\ teardowns'[a] > 1 /\ owner'[a] = owner'[b]
      BY <1>1, <2>1, <2>4, <3>1
    <3>3. QED
      BY <3>2 DEF TakenAlong
  <2>5. QED
    BY <1>4, <2>2, <2>3, <2>4 DEF Accounted, VictimsKnown
<1>5. ASSUME NEW b \in Browsers, phase'[b] = "live"
      PROVE  Reachable(b)' \/ TornInVain(b)' \/ TakenAlong(b)'
  <2>1. CASE b = v
    BY <1>3, <2>1
  <2>2. CASE b # v /\ entries[owner[b]] = b
    BY <1>4, <2>2 DEF Reachable
  <2>3. CASE \E d \in Calls : cur[d] = b /\ pc[d] \in Steps \ {"closed"}
    BY <1>1, <2>3 DEF Reachable, Steps
  <2>4. CASE TornInVain(b) \/ TakenAlong(b)
    BY <1>2, <1>5, <2>4, LostForGood
  <2>5. QED
    BY <1>5, <2>1, <2>2, <2>3, <2>4 DEF Accounted, Reachable
<1>6. ASSUME NEW d \in Calls, NEW b \in victims'[d]
      PROVE  entries'[owner'[b]] = b \/ teardowns'[b] > 0 \/ TakenAlong(b)'
  <2>1. b \in Browsers
    BY <1>6
  <2>2. CASE b = v
    BY <1>1, <2>2
  <2>3. CASE b # v /\ entries[owner[b]] = b
    BY <1>4, <2>1, <2>3
  <2>4. CASE b # v /\ b \in victims[d]
    <3>1. phase[b] # "unused"
      BY <2>4 DEF CallsSound
    <3>2. QED
      BY <1>1, <1>2, <2>1, <2>3, <2>4, <3>1, LostForGood DEF Accounted, VictimsKnown
  <2>5. QED
    BY <1>6, <2>1, <2>2, <2>3, <2>4
<1>7. QED
  BY <1>5, <1>6 DEF Accounted, VictimsKnown

LEMMA AccountedStep ==
  ASSUME IInv, Accounted, [Next]_vars
  PROVE  Accounted'
<1> USE DEF IInv, TypeOK
<1>1. ASSUME UNCHANGED <<entries, owner, engine, phase, teardowns, pc, cur, victims>>
      PROVE  Accounted'
  BY <1>1 DEF Accounted, VictimsKnown, Reachable, TornInVain, TakenAlong, HasCdp
<1>2. ASSUME NEW c \in Calls, pc[c] \notin Steps \ {"closed"},
             \A d \in Calls \ {c} : pc'[d] = pc[d] /\ cur'[d] = cur[d],
             UNCHANGED <<entries, owner, engine, phase, teardowns, victims>>
      PROVE  Accounted'
  <2>1. Remembered
    BY <1>2 DEF Remembered
  <2>2. \A b \in Browsers : Reachable(b) => Reachable(b)'
    BY <1>2 DEF Reachable
  <2>3. QED
    BY <1>2, <2>1, <2>2, AccountedKept
<1>3. ASSUME NEW c \in Calls, NEW i \in Ids, NEW who \in {"tool"} \cup Policies, NEW p \in Places,
             NEW eng \in Engines, Create(c, i, who, p, eng)
      PROVE  Accounted'
  <2>1. PICK b \in Browsers :
          /\ phase[b] = "unused"
          /\ owner' = [owner EXCEPT ![b] = i]
          /\ engine' = [engine EXCEPT ![b] = eng]
          /\ phase' = [phase EXCEPT ![b] = "launching"]
          /\ cur' = [cur EXCEPT ![c] = b]
          /\ pc[c] = "idle" /\ pc' = [pc EXCEPT ![c] = "waiting"]
          /\ UNCHANGED <<entries, teardowns, victims>>
    BY <1>3 DEF Create
  <2>2. Remembered
    BY <2>1 DEF Remembered
  <2>3. ASSUME NEW x \in Browsers, phase'[x] = "live", Reachable(x) PROVE Reachable(x)'
    <3>1. x # b
      BY <2>1, <2>3
    <3>2. QED
      BY <2>1, <2>3, <3>1 DEF Reachable, Steps
  <2>4. \A x \in Browsers : phase'[x] = "live" => phase[x] = "live"
    BY <2>1
  <2>5. QED
    BY <2>1, <2>2, <2>3, <2>4, AccountedKept
<1>4. ASSUME NEW c \in Calls,
             \/ \E i \in Ids : Close(c, i)
             \/ \E chosen \in SUBSET Browsers, first \in Browsers :
                  CloseMatching(c, chosen, first)
             \/ \E b \in Browsers : NextVictim(c, b)
      PROVE  Accounted'
  <2>1. ASSUME NEW i \in Ids, Close(c, i) PROVE Accounted'
    <3>1. entries[i] \in Browsers /\ owner[entries[i]] = i /\ phase[entries[i]] = "live"
      BY <2>1 DEF Close, NeverHandsOutClosing
    <3>2. QED
      BY <2>1, <3>1, AccountedClose DEF Close
  <2>2. ASSUME NEW chosen \in SUBSET Browsers, NEW first \in Browsers,
               CloseMatching(c, chosen, first)
        PROVE  Accounted'
    <3>1. /\ phase[first] = "live" /\ entries[owner[first]] = first /\ BeginClose(c, first)
          /\ pc[c] = "idle" /\ UNCHANGED <<owner, engine, phase>>
      BY <2>2, NoneIsNoBrowser DEF CloseMatching, NeverHandsOutClosing
    <3>2. \A d \in Calls : /\ victims'[d] \subseteq Browsers
                           /\ \A b \in victims'[d] : b \in victims[d] \/ entries[owner[b]] = b
      BY <2>2 DEF CloseMatching
    <3>3. QED
      BY <3>1, <3>2, AccountedClose
  <2>3. ASSUME NEW b \in Browsers, NextVictim(c, b) PROVE Accounted'
    <3>1. /\ phase[b] # "unused" /\ b \in victims[c] /\ BeginClose(c, b) /\ pc[c] = "closed"
          /\ UNCHANGED <<owner, engine, phase>>
          /\ \A d \in Calls : victims'[d] \subseteq victims[d]
      BY <2>3 DEF NextVictim, CallsSound
    <3>2. QED
      BY <3>1, AccountedClose
  <2>4. QED
    BY <1>4, <2>1, <2>2, <2>3
<1>5. ASSUME NEW b \in Browsers, Factory(b) PROVE Accounted'
  <2>1. /\ phase[b] \in {"launching", "wiring"}
        /\ UNCHANGED <<owner, engine, teardowns, pc, cur, victims>>
    BY <1>5 DEF Factory, Launched, LaunchFailed, LaunchClashed, WiringFailed, Opened, Reject, call
  <2>2. Remembered
    BY <2>1 DEF Remembered
  <2>3. CASE Opened(b)
    <3>1. entries[owner[b]] = None
      BY <2>3, NoneIsNoBrowser DEF Opened, SingleCreation, Running
    <3>2. /\ entries' = [entries EXCEPT ![owner[b]] = b]
          /\ phase' = [phase EXCEPT ![b] = "live"]
      BY <2>3 DEF Opened
    <3>3. \A x \in Browsers : entries[owner[x]] = x => entries'[owner[x]] = x
      BY <3>1, <3>2, NoneIsNoBrowser
    <3>4. \A x \in Browsers : phase'[x] = "live" => Reachable(x)' \/ (phase[x] = "live" /\ ~ Reachable(x))
      BY <2>1, <3>2, <3>3 DEF Reachable
    <3>5. QED
      BY <2>1, <2>2, <3>3, <3>4, AccountedKept
  <2>4. CASE ~ Opened(b)
    <3>1. /\ UNCHANGED entries
          /\ \A x \in Browsers : phase'[x] = "live" => phase[x] = "live"
      BY <1>5, <2>4
      DEF Factory, Launched, LaunchFailed, LaunchClashed, WiringFailed, Reject, registry
    <3>2. \A x \in Browsers : Reachable(x) => Reachable(x)'
      BY <2>1, <3>1 DEF Reachable
    <3>3. QED
      BY <2>1, <2>2, <3>1, <3>2, AccountedKept
  <2>5. QED
    BY <2>3, <2>4
<1>6. ASSUME NEW c \in Calls, Tool(c) PROVE Accounted'
  <2>1. ASSUME NEW i \in Ids, Existing(c, i) PROVE Accounted'
    BY <1>2, <2>1 DEF Existing, registry, browser, Steps
  <2>2. ASSUME NEW i \in Ids, NEW who \in {"tool"} \cup Policies, Join(c, i, who) PROVE Accounted'
    BY <1>2, <2>2 DEF Join, registry, browser, Steps
  <2>3. CASE PreApproved(c) \/ HumanApproves(c) \/ \E ask \in BOOLEAN : SetPolicy(c, ask)
    BY <1>1, <2>3 DEF PreApproved, HumanApproves, SetPolicy, registry, browser, call
  <2>4. QED
    BY <1>3, <1>4, <1>6, <2>1, <2>2, <2>3 DEF Tool
<1>7. ASSUME NEW c \in Calls, Continue(c) PROVE Accounted'
  <2>1. CASE Resume(c) \/ ResumeRejected(c) \/ Return(c) \/ Closed(c)
    BY <1>2, <2>1 DEF Resume, ResumeRejected, Return, Closed, Done, registry, browser, Steps
  <2>2. CASE Detach(c) \/ Unregister(c) \/ Revoke(c)
    <3>1. /\ UNCHANGED <<entries, owner, engine, phase, teardowns, cur, victims>>
          /\ \A d \in Calls : pc[d] \in Steps \ {"closed"} => pc'[d] \in Steps \ {"closed"}
      BY <2>2 DEF Detach, Unregister, Revoke, registry, browser, Steps
    <3>2. Remembered /\ \A x \in Browsers : Reachable(x) => Reachable(x)'
      BY <3>1 DEF Remembered, Reachable
    <3>3. QED
      BY <3>1, <3>2, AccountedKept
  <2>3. CASE TeardownThrows(c)
    <3>1. /\ UNCHANGED <<entries, owner, engine, phase, teardowns, cur, victims>>
          /\ \A d \in Calls \ {c} : pc'[d] = pc[d]
      BY <2>3 DEF TeardownThrows, registry, browser
    <3>2. cur[c] \in Browsers /\ TornInVain(cur[c])'
      BY <2>3, <3>1 DEF TeardownThrows, CallsSound, Tearing, Steps, TornInVain, HasCdp
    <3>3. Remembered /\ \A x \in Browsers \ {cur[c]} : Reachable(x) => Reachable(x)'
      BY <3>1 DEF Remembered, Reachable
    <3>4. QED
      BY <3>1, <3>2, <3>3, AccountedKept
  <2>4. CASE CloseBrowser(c)
    <3>1. /\ UNCHANGED <<entries, owner, engine, teardowns, cur, victims>>
          /\ \A d \in Calls \ {c} : pc'[d] = pc[d]
          /\ cur[c] \in Browsers /\ phase' = [phase EXCEPT ![cur[c]] = "closed"]
      BY <2>4 DEF CloseBrowser, registry, CallsSound
    <3>2. Remembered /\ \A x \in Browsers \ {cur[c]} : Reachable(x) => Reachable(x)'
      BY <3>1 DEF Remembered, Reachable
    <3>3. QED
      BY <3>1, <3>2, AccountedKept
  <2>5. QED
    BY <1>4, <1>7, <2>1, <2>2, <2>3, <2>4 DEF Continue
<1>8. CASE UNCHANGED vars \/ \E i \in Ids : GrantExpires(i)
  BY <1>1, <1>8 DEF GrantExpires, vars, registry, browser, call
<1>9. QED
  BY <1>5, <1>6, <1>7, <1>8 DEF Next

\* Browsers run on the engines sessions are opened on.
LEMMA EngineStep ==
  ASSUME TypeOK, \A b \in Browsers : engine[b] \in Engines \cup {"chromium"}, [Next]_vars
  PROVE  \A b \in Browsers : engine'[b] \in Engines \cup {"chromium"}
<1> USE DEF TypeOK
<1>1. CASE UNCHANGED engine
  BY <1>1
<1>2. ASSUME NEW c \in Calls, NEW i \in Ids, NEW who \in {"tool"} \cup Policies, NEW p \in Places,
             NEW eng \in Engines, Create(c, i, who, p, eng)
      PROVE  \A b \in Browsers : engine'[b] \in Engines \cup {"chromium"}
  BY <1>2 DEF Create
<1>3. ASSUME NEW c \in Calls, Tool(c) PROVE \A b \in Browsers : engine'[b] \in Engines \cup {"chromium"}
  BY <1>1, <1>2, <1>3
  DEF Tool, Existing, Join, SetPolicy, PreApproved, HumanApproves, Close, CloseMatching, browser
<1>4. ASSUME NEW c \in Calls, Continue(c) PROVE UNCHANGED engine
  BY <1>4
  DEF Continue, Resume, ResumeRejected, Return, Done, Detach, TeardownThrows, Unregister,
      Revoke, CloseBrowser, NextVictim, Closed, browser
<1>5. ASSUME NEW b \in Browsers, Factory(b) PROVE UNCHANGED engine
  BY <1>5
  DEF Factory, Launched, LaunchFailed, LaunchClashed, WiringFailed, Reject, Opened
<1>6. CASE UNCHANGED vars \/ \E i \in Ids : GrantExpires(i)
  BY <1>6 DEF GrantExpires, vars, browser
<1>7. QED
  BY <1>1, <1>3, <1>4, <1>5, <1>6 DEF Next

LEMMA VictimsHold ==
  ASSUME MaxVictims <= 1
  PROVE  Spec => []NoVictimsLeft
<1>1. Init => NoVictimsLeft
  BY DEF Init, NoVictimsLeft
<1>2. TypeOK /\ NoVictimsLeft /\ [Next]_vars => NoVictimsLeft'
  BY VictimsStep
<1>3. QED
  BY <1>1, <1>2, RegistryTypeOK, PTL DEF Spec

-----------------------------------------------------------------------------
\* A session registered or being created under a name that held ask-human holds
\* it, whoever created it and with whatever arguments (inheritHeld, the reopen
\* gate and the setters' gate of src/session/registry.ts and tools/).
THEOREM HoldsAreRespected == Spec /\ [][ClosesFresh]_vars => []HoldRespected
<1>1. Init => HoldRespected
  BY IdsAssumption DEF Init, HoldRespected
<1>2. IInv /\ HoldRespected /\ [Next]_vars /\ [ClosesFresh]_vars => HoldRespected'
  <2>1. CASE UNCHANGED vars
    BY <2>1, HoldUnchanged DEF vars, registry, browser, holding
  <2>2. CASE Next /\ ClosesFresh
    BY <2>2, HoldStep DEF HoldRespected
  <2>3. QED
    BY <2>1, <2>2
<1>3. QED
  BY <1>1, <1>2, InvHolds, PTL DEF Spec

\* ... and no step makes a name forget its hold (remember, registry.ts).
THEOREM HoldsAreRemembered == Spec /\ [][ClosesFresh]_vars => HoldNotForgotten
<1>1. IInv /\ HoldRespected /\ [Next]_vars /\ [ClosesFresh]_vars
        => [~Override => \A i \in Ids : held[i] # NotHeld => held'[i] # NotHeld]_vars
  BY HoldStep
<1>2. QED
  BY <1>1, InvHolds, HoldsAreRespected, PTL DEF Spec, HoldNotForgotten

\* A live browser is registered or being closed unless its own teardown threw or
\* an earlier session of its name was torn down twice, whatever the engines,
\* whatever fails and whatever overlaps: there is no third way to lose one.
THEOREM NoneOrphaned == Spec => []NoBrowserOrphaned
<1>1. Init => Accounted
  BY DEF Init, Accounted, VictimsKnown
<1>2. IInv /\ Accounted /\ [Next]_vars => Accounted'
  BY AccountedStep
<1>3. Accounted => NoBrowserOrphaned
  BY DEF Accounted, NoBrowserOrphaned, TornInVain, TakenAlong
<1>4. QED
  BY <1>1, <1>2, <1>3, InvHolds, PTL DEF Spec

\* Where every engine has a CDP handle or is Safari, a live browser is registered
\* or being closed, whatever fails and whatever overlaps.
LEMMA AllAreReachable ==
  ASSUME Engines \subseteq {"chromium", "safari"}
  PROVE  Spec /\ [][ClosesFresh]_vars => []AllReachable
<1> DEFINE Closable == \A b \in Browsers : engine[b] \in Engines \cup {"chromium"}
<1>1. Init => AllReachable /\ Closable
  BY DEF Init, AllReachable, Reachable
<1>2. IInv /\ Closable /\ [Next]_vars => Closable'
  BY EngineStep DEF IInv
<1>3. Closable => \A b \in Browsers : HasCdp(engine[b]) \/ engine[b] = "safari"
  BY DEF HasCdp
<1>4. IInv /\ Closable /\ AllReachable /\ [Next]_vars /\ [ClosesFresh]_vars
        => AllReachable'
  <2>1. CASE UNCHANGED vars
    BY <2>1 DEF vars, registry, browser, call, AllReachable, Reachable
  <2>2. CASE Next /\ ClosesFresh
    BY <2>2, <1>3, ReachStep
  <2>3. QED
    BY <2>1, <2>2
<1> HIDE DEF Closable
<1>5. QED
  BY <1>1, <1>2, <1>4, InvHolds, PTL DEF Spec

\* Where a bulk close closes one session at a time, or there is none, every close
\* is fresh: the two theorems on holds above then hold of every behaviour.
THEOREM SingleClosesAreFresh ==
  ASSUME MaxVictims <= 1
  PROVE  Spec => [][ClosesFresh]_vars
<1>1. NoVictimsLeft => ClosesFresh
  BY DEF NoVictimsLeft, ClosesFresh, NextVictim
<1>2. QED
  BY <1>1, VictimsHold, PTL
-----------------------------------------------------------------------------
(***************************************************************************)
(* Four properties that the code does not keep in general, and what each   *)
(* of them rests on: a condition on the order in which the clients call,   *)
(* under which it holds whatever else overlaps.                            *)
(***************************************************************************)

\* Call c starts a factory run for the name i on the directory p.
Creates(c, i, p) ==
  \E who \in {"tool"} \cup Policies, eng \in Engines : Create(c, i, who, p, eng)

\* A factory run starts on a directory while no other is under way there.
LaunchesApart ==
  \A c \in Calls, i \in Ids, p \in Profiles : Creates(c, i, p) =>
    \A b \in Browsers : Running(b) => place[b] # p

\* A name is opened anew when no teardown of a session it had is about to
\* unregister its live view.
UnregistersFirst ==
  \A c \in Calls, i \in Ids, p \in Places : Creates(c, i, p) =>
    \A d \in Calls : pc[d] \in {"detach", "unregister"} => owner[cur[d]] # i

\* The call works on a session, or on its teardown as far as the revocation.
Busy(c) == pc[c] \in {"waiting", "using", "detach", "unregister", "revoke"}

\* A name is opened anew when no call is busy with a session it had.
OpensAtRest ==
  \A c \in Calls, i \in Ids, p \in Places : Creates(c, i, p) =>
    \A d \in Calls : Busy(d) => owner[cur[d]] # i

\* No open_session that asks for ask-human meets a creation under way.
AsksAlone == \A c \in Calls, i \in Ids : ~ Join(c, i, "ask")

(***************************************************************************)
(* One directory.                                                          *)
(***************************************************************************)

\* A browser that is up or coming up on a directory has it for itself ...
PlacesApart ==
  \A b \in Browsers : (Up(b) \/ Running(b)) /\ place[b] # NoProfile =>
    \A a \in Browsers \ {b} : Up(a) \/ Running(a) => place[a] # place[b]

\* ... and it is a Chrome.
PlacesOfChrome == \A b \in Browsers : place[b] # NoProfile => engine[b] = "chromium"

\* What decides of directories: creations, the factory and the end of a browser.
launching == <<place, engine, phase>>

Apart == NeverClashes /\ PlacesApart /\ PlacesOfChrome

LEMMA PlacesUnchanged ==
  ASSUME UNCHANGED launching, Apart
  PROVE  Apart'
BY DEF launching, Apart, NeverClashes, PlacesApart, PlacesOfChrome, Up, Running

LEMMA PlacesStep ==
  ASSUME Engines \subseteq {"chromium", "safari"}, IInv, Apart, Next, LaunchesApart
  PROVE  Apart'
<1> USE DEF IInv, TypeOK
<1>1. CASE UNCHANGED launching
  BY <1>1, PlacesUnchanged
<1>2. ASSUME NEW c \in Calls, NEW i \in Ids, NEW who \in {"tool"} \cup Policies, NEW p \in Places,
             NEW eng \in Engines, Create(c, i, who, p, eng)
      PROVE  Apart'
  <2>1. p # NoProfile => \A b \in Browsers : Up(b) \/ Running(b) => place[b] # p
    <3>1. Creates(c, i, p)
      BY <1>2 DEF Creates
    <3>2. p # NoProfile => ProfileFree(i, p, Inherited(i, who))
      BY <1>2 DEF Create
    <3>3. QED
      BY <3>1, <3>2 DEF LaunchesApart, ProfileFree, HoldsLock, Places, Apart, PlacesOfChrome
  <2>2. PICK b \in Browsers, at \in RunsIn(eng, p) :
          /\ phase[b] = "unused"
          /\ place' = [place EXCEPT ![b] = at]
          /\ engine' = [engine EXCEPT ![b] = eng]
          /\ phase' = [phase EXCEPT ![b] = "launching"]
    BY <1>2 DEF Create
  <2>3. at = NoProfile \/ (at = p /\ eng = "chromium")
    BY DEF RunsIn
  <2>4. NeverClashes'
    BY <2>2 DEF Apart, NeverClashes, Up
  <2>5. PlacesApart'
    BY <2>1, <2>2, <2>3 DEF Apart, PlacesApart, Up, Running
  <2>6. PlacesOfChrome'
    BY <2>2, <2>3 DEF Apart, PlacesOfChrome
  <2>7. QED
    BY <2>4, <2>5, <2>6 DEF Apart
<1>3. ASSUME NEW b \in Browsers, Factory(b) PROVE Apart'
  <2>1. ~ LaunchClashed(b)
    BY DEF LaunchClashed, Apart, PlacesApart, Up, Running
  <2>2. /\ UNCHANGED <<place, engine>>
        /\ phase[b] \in {"launching", "wiring"}
        /\ \E next \in {"wiring", "failed", "leaked", "live"} :
             /\ phase' = [phase EXCEPT ![b] = next]
             /\ next \in {"leaked", "live"} => phase[b] = "wiring"
    BY <1>3, <2>1 DEF Factory, Launched, LaunchFailed, WiringFailed, Reject, Opened
  <2>3. QED
    BY <2>2 DEF Apart, NeverClashes, PlacesApart, PlacesOfChrome, Up, Running
<1>4. ASSUME NEW c \in Calls, CloseBrowser(c) PROVE Apart'
  BY <1>4 DEF CloseBrowser, CallsSound, Tearing, Steps, Apart, NeverClashes, PlacesApart,
                          PlacesOfChrome, Up, Running
<1>5. ASSUME NEW c \in Calls, Tool(c) PROVE Apart'
  BY <1>1, <1>2, <1>5
  DEF Tool, Existing, Join, SetPolicy, PreApproved, HumanApproves, Close, CloseMatching,
      browser, launching
<1>6. ASSUME NEW c \in Calls, Continue(c) PROVE Apart'
  BY <1>1, <1>4, <1>6
  DEF Continue, Resume, ResumeRejected, Return, Done, Detach, TeardownThrows, Unregister,
      Revoke, NextVictim, Closed, browser, launching
<1>7. ASSUME NEW i \in Ids, GrantExpires(i) PROVE Apart'
  BY <1>1, <1>7 DEF GrantExpires, browser, launching
<1>8. QED
  BY <1>3, <1>5, <1>6, <1>7 DEF Next

\* Where the sessions that keep a profile directory are Chrome's, browsers
\* launched in turn on a directory are never up in it together: the lock the
\* profile guard reads before a launch (profile-guard.ts) tells it of every one,
\* whatever is closed, fails or leaks meanwhile.
THEOREM TurnsNeverClash ==
  ASSUME Engines \subseteq {"chromium", "safari"}
  PROVE  Spec /\ [][LaunchesApart]_vars => []NeverClashes
<1>1. Init => Apart
  BY DEF Init, Apart, NeverClashes, PlacesApart, PlacesOfChrome
<1>2. IInv /\ Apart /\ [Next]_vars /\ [LaunchesApart]_vars => Apart'
  <2>1. CASE UNCHANGED vars
    BY <2>1, PlacesUnchanged DEF vars, browser, launching
  <2>2. CASE Next /\ LaunchesApart
    BY <2>2, PlacesStep
  <2>3. QED
    BY <2>1, <2>2
<1>3. Apart => NeverClashes
  BY DEF Apart
<1>4. QED
  BY <1>1, <1>2, <1>3, InvHolds, PTL DEF Spec

(***************************************************************************)
(* The live view's source.                                                 *)
(***************************************************************************)

\* While a teardown is about to unregister, its name has no entry and no run.
TeardownsBare ==
  \A c \in Calls : pc[c] \in {"detach", "unregister"} =>
    entries[owner[cur[c]]] = None /\ creating[owner[cur[c]]] = None

\* What decides of sources: everything but policies, grants and answers.
sourcing == <<entries, creating, sources, owner, pc, cur>>

LEMMA SourcesUnchanged ==
  ASSUME UNCHANGED sourcing, LiveHasSource, TeardownsBare
  PROVE  LiveHasSource' /\ TeardownsBare'
BY DEF sourcing, LiveHasSource, TeardownsBare

LEMMA SourcesStep ==
  ASSUME IInv, LiveHasSource, TeardownsBare, Next, UnregistersFirst, ClosesFresh
  PROVE  LiveHasSource' /\ TeardownsBare'
<1> DEFINE Kept == LiveHasSource' /\ TeardownsBare'
<1> USE DEF IInv, TypeOK, LiveHasSource, TeardownsBare
<1>1. ASSUME NEW c \in Calls, pc'[c] \notin {"detach"},
             pc'[c] = "unregister" => pc[c] = "detach" /\ cur'[c] = cur[c],
             \A d \in Calls \ {c} : pc'[d] = pc[d] /\ cur'[d] = cur[d],
             UNCHANGED <<entries, creating, sources, owner>>
      PROVE  Kept
  BY <1>1
<1>2. ASSUME NEW c \in Calls, NEW i \in Ids, NEW who \in {"tool"} \cup Policies, NEW p \in Places,
             NEW eng \in Engines, Create(c, i, who, p, eng)
      PROVE  Kept
  <2>1. \A d \in Calls : pc[d] \in {"detach", "unregister"} => owner[cur[d]] # i
    BY <1>2 DEF UnregistersFirst, Creates
  <2>2. PICK b \in Browsers :
          /\ phase[b] = "unused"
          /\ creating' = [creating EXCEPT ![i] = b]
          /\ owner' = [owner EXCEPT ![b] = i]
          /\ cur' = [cur EXCEPT ![c] = b]
          /\ pc' = [pc EXCEPT ![c] = "waiting"]
          /\ UNCHANGED <<entries, sources>>
    BY <1>2 DEF Create
  <2>3. ASSUME NEW d \in Calls, pc'[d] \in {"detach", "unregister"}
        PROVE  entries'[owner'[cur'[d]]] = None /\ creating'[owner'[cur'[d]]] = None
    <3>1. d # c /\ pc[d] = pc'[d] /\ cur'[d] = cur[d]
      BY <2>2, <2>3
    <3>2. cur[d] \in Browsers /\ cur[d] # b
      BY <2>2, <2>3, <3>1 DEF CallsSound, Tearing, Steps
    <3>3. owner'[cur[d]] = owner[cur[d]] /\ owner[cur[d]] # i
      BY <2>1, <2>2, <2>3, <3>1, <3>2
    <3>4. QED
      BY <2>2, <2>3, <3>1, <3>2, <3>3
  <2>4. QED
    BY <2>2, <2>3
<1>3. ASSUME NEW c \in Calls,
             \/ \E i \in Ids : Close(c, i)
             \/ \E chosen \in SUBSET Browsers, first \in Browsers :
                  CloseMatching(c, chosen, first)
             \/ \E b \in Browsers : NextVictim(c, b)
      PROVE  Kept
  <2>1. PICK b \in Browsers :
          /\ entries[owner[b]] = b /\ BeginClose(c, b)
          /\ UNCHANGED <<creating, sources, owner>>
    BY <1>3, ClosesRegistered
  <2>2. creating[owner[b]] = None
    BY <2>1, NoneIsNoBrowser DEF SingleCreation
  <2>3. /\ cur'[c] = b
        /\ \A d \in Calls \ {c} : pc'[d] = pc[d] /\ cur'[d] = cur[d]
        /\ entries'[owner[b]] = None
        /\ \A i \in Ids : entries'[i] # None => entries'[i] = entries[i]
        /\ \A i \in Ids : entries[i] = None => entries'[i] = None
    BY <2>1 DEF BeginClose
  <2>4. LiveHasSource'
    BY <2>1, <2>3
  <2>5. ASSUME NEW d \in Calls, pc'[d] \in {"detach", "unregister"}
        PROVE  entries'[owner[cur'[d]]] = None /\ creating[owner[cur'[d]]] = None
    <3>1. CASE d = c
      BY <2>2, <2>3, <3>1
    <3>2. CASE d # c
      <4>1. cur[d] \in Browsers /\ pc[d] = pc'[d] /\ cur'[d] = cur[d]
        BY <2>3, <2>5, <3>2 DEF CallsSound
      <4>2. QED
        BY <2>3, <2>5, <4>1
    <3>3. QED
      BY <3>1, <3>2
  <2>6. QED
    BY <2>1, <2>4, <2>5
<1>4. ASSUME NEW c \in Calls, Unregister(c) PROVE Kept
  <2>1. /\ cur[c] \in Browsers /\ entries[owner[cur[c]]] = None
        /\ sources' = [sources EXCEPT ![owner[cur[c]]] = None]
        /\ pc' = [pc EXCEPT ![c] = "revoke"]
        /\ UNCHANGED <<entries, creating, owner, cur>>
    BY <1>4 DEF Unregister, registry, browser, CallsSound
  <2>2. QED
    BY <2>1
<1>5. ASSUME NEW b \in Browsers, Factory(b) PROVE Kept
  <2>1. CASE Opened(b)
    <3>1. /\ sources' = [sources EXCEPT ![owner[b]] = b]
          /\ entries' = [entries EXCEPT ![owner[b]] = b]
          /\ creating' = [creating EXCEPT ![owner[b]] = None]
          /\ UNCHANGED <<owner, pc, cur>>
          /\ creating[owner[b]] = b
      BY <2>1 DEF Opened, call, SingleCreation, Running
    <3>2. \A d \in Calls : pc[d] \in {"detach", "unregister"} =>
            cur[d] \in Browsers /\ owner[cur[d]] # owner[b]
      BY <3>1, NoneIsNoBrowser DEF CallsSound
    <3>3. QED
      BY <3>1, <3>2
  <2>2. CASE Launched(b)
    BY <2>2, SourcesUnchanged DEF Launched, registry, call, sourcing
  <2>3. CASE \E how \in {"failed", "clashed", "leaked"} : Reject(b, how)
    BY <2>3 DEF Reject, call, CallsSound
  <2>4. QED
    BY <1>5, <2>1, <2>2, <2>3 DEF Factory, LaunchFailed, LaunchClashed, WiringFailed
<1>6. ASSUME NEW c \in Calls, Tool(c) PROVE Kept
  <2>1. ASSUME NEW i \in Ids, Existing(c, i) PROVE Kept
    BY <1>1, <2>1 DEF Existing, registry, browser
  <2>2. ASSUME NEW i \in Ids, NEW who \in {"tool"} \cup Policies, Join(c, i, who) PROVE Kept
    BY <1>1, <2>2 DEF Join, registry, browser
  <2>3. CASE PreApproved(c) \/ HumanApproves(c) \/ \E ask \in BOOLEAN : SetPolicy(c, ask)
    BY <2>3, SourcesUnchanged
    DEF PreApproved, HumanApproves, SetPolicy, registry, browser, call, sourcing
  <2>4. QED
    BY <1>2, <1>3, <1>6, <2>1, <2>2, <2>3 DEF Tool
<1>7. ASSUME NEW c \in Calls, Continue(c) PROVE Kept
  <2>1. CASE \/ Resume(c) \/ ResumeRejected(c) \/ Return(c) \/ Closed(c)
             \/ Detach(c) \/ TeardownThrows(c) \/ Revoke(c) \/ CloseBrowser(c)
    <3>1. /\ pc'[c] \notin {"detach"}
          /\ pc'[c] = "unregister" => pc[c] = "detach" /\ cur'[c] = cur[c]
          /\ \A d \in Calls \ {c} : pc'[d] = pc[d] /\ cur'[d] = cur[d]
          /\ UNCHANGED <<entries, creating, sources, owner>>
      BY <2>1
      DEF Resume, ResumeRejected, Return, Closed, Done, Detach, TeardownThrows, Revoke,
          CloseBrowser, registry, browser
    <3>2. QED
      BY <1>1, <3>1
  <2>2. QED
    BY <1>3, <1>4, <1>7, <2>1 DEF Continue
<1>8. ASSUME NEW i \in Ids, GrantExpires(i) PROVE Kept
  BY <1>8, SourcesUnchanged DEF GrantExpires, registry, browser, call, sourcing
<1>9. QED
  BY <1>5, <1>6, <1>7, <1>8 DEF Next

\* Where a name is opened anew only after the teardown of what it had has
\* unregistered, every registered session can be watched: nothing else takes a
\* source away (the teardown's unregister, src/tools/session-registry.ts).
THEOREM LiveKeepSources ==
  Spec /\ [][UnregistersFirst]_vars /\ [][ClosesFresh]_vars => []LiveHasSource
<1>1. Init => LiveHasSource /\ TeardownsBare
  BY DEF Init, LiveHasSource, TeardownsBare
<1>2. IInv /\ LiveHasSource /\ TeardownsBare /\ [Next]_vars
        /\ [UnregistersFirst]_vars /\ [ClosesFresh]_vars
        => LiveHasSource' /\ TeardownsBare'
  <2>1. CASE UNCHANGED vars
    BY <2>1, SourcesUnchanged DEF vars, registry, browser, call, sourcing
  <2>2. CASE Next /\ UnregistersFirst /\ ClosesFresh
    BY <2>2, SourcesStep
  <2>3. QED
    BY <2>1, <2>2
<1>3. QED
  BY <1>1, <1>2, InvHolds, PTL DEF Spec
(***************************************************************************)
(* The policy an open_session asks for.                                    *)
(***************************************************************************)

\* A call that waits, waits for a factory run, settled or not.
WaitersHaveRuns == \A c \in Calls : pc[c] = "waiting" => phase[cur[c]] # "unused"

\* What decides of that: a browser once launched is never unused again.
LEMMA WaitersStep ==
  ASSUME IInv, WaitersHaveRuns, [Next]_vars
  PROVE  WaitersHaveRuns'
<1> USE DEF IInv, TypeOK, WaitersHaveRuns
<1>1. ASSUME \A b \in Browsers : phase[b] # "unused" => phase'[b] # "unused",
             \A c \in Calls : pc'[c] = "waiting" => pc[c] = "waiting" /\ cur'[c] = cur[c]
      PROVE  WaitersHaveRuns'
  BY <1>1 DEF CallsSound
<1>2. ASSUME NEW c \in Calls, Tool(c) PROVE WaitersHaveRuns'
  <2>1. ASSUME NEW i \in Ids, NEW who \in {"tool"} \cup Policies, Join(c, i, who)
        PROVE  WaitersHaveRuns'
    BY <2>1 DEF Join, registry, browser, SingleCreation, Running
  <2>2. ASSUME NEW i \in Ids, NEW who \in {"tool"} \cup Policies, NEW p \in Places,
               NEW eng \in Engines, Create(c, i, who, p, eng)
        PROVE  WaitersHaveRuns'
    BY <2>2 DEF Create, CallsSound
  <2>3. CASE \/ \E i \in Ids : Existing(c, i) \/ Close(c, i)
             \/ \E ask \in BOOLEAN : SetPolicy(c, ask)
             \/ PreApproved(c) \/ HumanApproves(c)
             \/ \E chosen \in SUBSET Browsers, first \in Browsers : CloseMatching(c, chosen, first)
    BY <1>1, <2>3
    DEF Existing, Close, SetPolicy, PreApproved, HumanApproves, CloseMatching, BeginClose,
        browser, call
  <2>4. QED
    BY <1>2, <2>1, <2>2, <2>3 DEF Tool
<1>3. ASSUME NEW c \in Calls, Continue(c) PROVE WaitersHaveRuns'
  <2>1. CASE CloseBrowser(c)
    BY <1>1, <2>1 DEF CloseBrowser
  <2>2. CASE \/ Resume(c) \/ ResumeRejected(c) \/ Return(c) \/ Closed(c) \/ Detach(c)
             \/ TeardownThrows(c) \/ Unregister(c) \/ Revoke(c)
             \/ \E b \in Browsers : NextVictim(c, b)
    BY <1>1, <2>2
    DEF Resume, ResumeRejected, Return, Closed, Done, Detach, TeardownThrows, Unregister, Revoke,
        NextVictim, BeginClose, browser
  <2>3. QED
    BY <1>3, <2>1, <2>2 DEF Continue
<1>4. ASSUME NEW b \in Browsers, Factory(b) PROVE WaitersHaveRuns'
  BY <1>1, <1>4
  DEF Factory, Launched, LaunchFailed, LaunchClashed, WiringFailed, Reject, Opened, call
<1>5. CASE UNCHANGED vars \/ \E i \in Ids : GrantExpires(i)
  BY <1>1, <1>5 DEF GrantExpires, vars, browser, call
<1>6. QED
  BY <1>2, <1>3, <1>4, <1>5 DEF Next

LEMMA WaitersHold == Spec => []WaitersHaveRuns
<1>1. Init => WaitersHaveRuns
  BY DEF Init, WaitersHaveRuns
<1>2. QED
  BY <1>1, WaitersStep, InvHolds, PTL DEF Spec

\* An open_session that asks for ask-human waits for a run that holds it.
AskersWait ==
  ~Override => \A c \in Calls : pc[c] = "waiting" /\ asked[c] = "ask" => asks[cur[c]]

\* What decides of an asker's answer: its own call, creations and policies.
asking == <<asks, pc, cur, asked>>

LEMMA AskStep ==
  ASSUME IInv, WaitersHaveRuns, OpenHonoursPolicy, AskersWait, Next, AsksAlone, ~ Override
  PROVE  OpenHonoursPolicy' /\ AskersWait'
<1> DEFINE Kept == OpenHonoursPolicy' /\ AskersWait'
<1> USE DEF IInv, TypeOK, OpenHonoursPolicy, AskersWait
<1>1. ASSUME NEW c \in Calls,
             \/ pc'[c] \notin {"waiting", "using"}
             \/ asked'[c] # "ask"
             \/ pc[c] \in {"waiting", "using"} /\ cur'[c] = cur[c] /\ asked'[c] = asked[c],
             \A d \in Calls \ {c} : pc'[d] = pc[d] /\ cur'[d] = cur[d] /\ asked'[d] = asked[d],
             asks' = asks
      PROVE  Kept
  BY <1>1
<1>2. CASE UNCHANGED asking
  BY <1>2 DEF asking
<1>3. ASSUME NEW c \in Calls, NEW i \in Ids, NEW who \in {"tool"} \cup Policies, NEW p \in Places,
             NEW eng \in Engines, Create(c, i, who, p, eng)
      PROVE  Kept
  <2>1. who = "ask" => Inherited(i, who)
    BY DEF Inherited
  <2>2. PICK b \in Browsers :
          /\ phase[b] = "unused"
          /\ asks' = [asks EXCEPT ![b] = Inherited(i, who)]
          /\ cur' = [cur EXCEPT ![c] = b]
          /\ pc' = [pc EXCEPT ![c] = "waiting"]
          /\ asked' = [asked EXCEPT ![c] = who]
    BY <1>3 DEF Create
  <2>3. \A d \in Calls \ {c} : pc[d] \in {"waiting", "using"} => cur[d] \in Browsers \ {b}
    BY <2>2 DEF CallsSound, WaitersHaveRuns
  <2>4. QED
    BY <2>1, <2>2, <2>3
<1>4. ASSUME NEW c \in Calls, NEW ask \in BOOLEAN, SetPolicy(c, ask) PROVE Kept
  BY <1>4 DEF SetPolicy, call, CallsSound
<1>5. ASSUME NEW c \in Calls, Tool(c) PROVE Kept
  <2>1. ASSUME NEW i \in Ids, Existing(c, i) PROVE Kept
    BY <1>1, <2>1 DEF Existing, browser
  <2>2. ASSUME NEW i \in Ids, NEW who \in {"tool"} \cup Policies, Join(c, i, who) PROVE Kept
    <3>1. who # "ask"
      BY <2>2 DEF AsksAlone
    <3>2. QED
      BY <1>1, <2>2, <3>1 DEF Join, browser
  <2>3. CASE PreApproved(c) \/ HumanApproves(c)
    BY <1>2, <2>3 DEF PreApproved, HumanApproves, browser, asking
  <2>4. CASE \/ \E i \in Ids : Close(c, i)
             \/ \E chosen \in SUBSET Browsers, first \in Browsers : CloseMatching(c, chosen, first)
    BY <1>1, <2>4 DEF Close, CloseMatching, BeginClose
  <2>5. QED
    BY <1>3, <1>4, <1>5, <2>1, <2>2, <2>3, <2>4 DEF Tool
<1>6. ASSUME NEW c \in Calls, Continue(c) PROVE Kept
  BY <1>1, <1>6
  DEF Continue, Resume, ResumeRejected, Return, Done, Detach, TeardownThrows, Unregister, Revoke,
      CloseBrowser, NextVictim, BeginClose, Closed, browser
<1>7. ASSUME NEW b \in Browsers, Factory(b) PROVE Kept
  BY <1>2, <1>7
  DEF Factory, Launched, LaunchFailed, LaunchClashed, WiringFailed, Reject, Opened, call, asking
<1>8. ASSUME NEW i \in Ids, GrantExpires(i) PROVE Kept
  BY <1>2, <1>8 DEF GrantExpires, browser, call, asking
<1>9. QED
  BY <1>5, <1>6, <1>7, <1>8 DEF Next

\* An open_session that asks for ask-human and did not join another's creation
\* has it when it answers ok: no policy call, inherited hold, close or reopen
\* between its start and its answer takes it away (get, registry.ts, and
\* askHumanPolicyGate).
THEOREM OpensAloneAreHonoured == Spec /\ [][AsksAlone]_vars => []OpenHonoursPolicy
<1>1. Init => OpenHonoursPolicy /\ AskersWait
  BY DEF Init, OpenHonoursPolicy, AskersWait
<1>2. IInv /\ WaitersHaveRuns /\ OpenHonoursPolicy /\ AskersWait /\ [Next]_vars /\ [AsksAlone]_vars
        => OpenHonoursPolicy' /\ AskersWait'
  <2>1. CASE UNCHANGED vars
    BY <2>1 DEF vars, browser, call, OpenHonoursPolicy, AskersWait
  <2>2. CASE Next /\ AsksAlone
    BY <2>2, AskStep DEF OpenHonoursPolicy, AskersWait
  <2>3. QED
    BY <2>1, <2>2
<1>3. QED
  BY <1>1, <1>2, InvHolds, WaitersHold, PTL DEF Spec
(***************************************************************************)
(* The grant of an earlier session of the name.  Only a step that has to   *)
(* do with names matters; it may leave a name no more than one browser.    *)
(***************************************************************************)

\* Of the name of browser b nothing but b is registered, created or granted.
OfOne(b) ==
  /\ entries[owner[b]] \in {None, b}
  /\ creating[owner[b]] \in {None, b}
  /\ grants[owner[b]] \in {None, b}

\* The calls busy with a name are busy with one browser, and it has the name.
BusyWithOne ==
  \A c \in Calls : Busy(c) =>
    /\ OfOne(cur[c])
    /\ \A d \in Calls : Busy(d) /\ owner[cur[d]] = owner[cur[c]] => cur[d] = cur[c]

\* A grant is of the session registered or closed last under the name.
GrantsOfLast ==
  \A i \in Ids : grants[i] # None => creating[i] = None /\ entries[i] \in {None, grants[i]}

\* An answer counts for the call that asked, as long as that goes on.
BlessedUse == \A c \in Calls : blessed[c] # None => pc[c] = "using"

OneAtATime == BusyWithOne /\ GrantsOfLast /\ BlessedUse /\ GrantNotInherited

\* What decides of grants and names.
granting == <<entries, creating, grants, owner, pc, cur, blessed>>

LEMMA OneUnchanged ==
  ASSUME UNCHANGED granting, OneAtATime
  PROVE  OneAtATime'
BY DEF granting, OneAtATime, BusyWithOne, OfOne, Busy, GrantsOfLast, BlessedUse, GrantNotInherited

\* A call that stays with its browser, or is done with it.
LEMMA OneStays ==
  ASSUME IInv, OneAtATime, NEW c \in Calls,
         pc[c] = "waiting" \/ Tearing(c) \/ pc'[c] = "idle",
         Busy(c)' => Busy(c) /\ cur'[c] = cur[c],
         \A d \in Calls \ {c} : pc'[d] = pc[d] /\ cur'[d] = cur[d] /\ blessed'[d] = blessed[d],
         blessed'[c] \in {None, blessed[c]}, pc'[c] = "idle" => blessed'[c] = None,
         \A i \in Ids : grants'[i] \in {None, grants[i]},
         UNCHANGED <<entries, creating, owner>>
  PROVE  OneAtATime'
<1> USE DEF IInv, TypeOK, OneAtATime
<1>1. BusyWithOne'
  <2>1. \A d \in Calls : Busy(d)' => Busy(d) /\ cur'[d] = cur[d] /\ owner[cur[d]] \in Ids
    BY DEF Busy, CallsSound
  <2>2. QED
    BY <2>1 DEF BusyWithOne, OfOne
<1>2. GrantsOfLast'
  BY DEF GrantsOfLast
<1>3. BlessedUse' /\ GrantNotInherited'
  BY DEF BlessedUse, GrantNotInherited, Tearing, Steps
<1>4. QED
  BY <1>1, <1>2, <1>3

\* A call that was idle, or between two victims, takes up what its name has: the
\* browser registered, created, or taken from the registry.
LEMMA OneTakenUp ==
  ASSUME IInv, OneAtATime, NEW c \in Calls, ~ Busy(c),
         NEW b \in Browsers, OfOne(b), entries[owner[b]] = b \/ creating[owner[b]] = b,
         cur' = [cur EXCEPT ![c] = b],
         \A d \in Calls \ {c} : pc'[d] = pc[d],
         \A i \in Ids : entries'[i] \in {None, entries[i]},
         UNCHANGED <<creating, grants, owner, blessed>>
  PROVE  OneAtATime'
<1> USE DEF IInv, TypeOK, OneAtATime
<1>1. BusyWithOne'
  <2>1. \A d \in Calls \ {c} : Busy(d)' <=> Busy(d)
    BY DEF Busy
  <2>2. \A d \in Calls \ {c} : Busy(d) => cur[d] \in Browsers /\ owner[cur[d]] \in Ids
    BY DEF Busy, CallsSound
  <2>3. \A d \in Calls \ {c} : Busy(d) /\ owner[cur[d]] = owner[b] => cur[d] = b
    BY <2>2, NoneIsNoBrowser DEF BusyWithOne, OfOne
  <2>4. cur'[c] = b /\ \A d \in Calls \ {c} : cur'[d] = cur[d]
    OBVIOUS
  <2>5. \A a \in Browsers : OfOne(a) => OfOne(a)'
    BY DEF OfOne
  <2>6. QED
    BY <2>1, <2>2, <2>3, <2>4, <2>5 DEF BusyWithOne
<1>2. GrantsOfLast'
  BY DEF GrantsOfLast
<1>3. BlessedUse' /\ GrantNotInherited'
  <2>1. blessed[c] = None
    BY DEF BlessedUse, Busy
  <2>2. QED
    BY <2>1 DEF BlessedUse, GrantNotInherited
<1>4. QED
  BY <1>1, <1>2, <1>3

LEMMA OneCreate ==
  ASSUME IInv, WaitersHaveRuns, AllReachable, OneAtATime, OpensAtRest,
         NEW c \in Calls, NEW i \in Ids, NEW who \in {"tool"} \cup Policies, NEW p \in Places,
         NEW eng \in Engines, Create(c, i, who, p, eng)
  PROVE  OneAtATime'
<1> USE DEF IInv, TypeOK, OneAtATime
<1>1. \A d \in Calls : Busy(d) => owner[cur[d]] # i
  BY DEF OpensAtRest, Creates
<1>2. entries[i] = None /\ creating[i] = None /\ pc[c] = "idle"
  BY DEF Create, Absent
<1>3. grants[i] = None
  <2> SUFFICES ASSUME grants[i] # None PROVE FALSE
    OBVIOUS
  <2> DEFINE g == grants[i]
  <2>1. g \in Browsers /\ owner[g] = i /\ phase[g] = "live"
    BY DEF GrantsSound, GrantEndsWithBrowser
  <2>2. PICK d \in Calls : cur[d] = g /\ pc[d] \in Steps \ {"closed"}
    BY <1>2, <2>1, NoneIsNoBrowser DEF AllReachable, Reachable
  <2>3. pc[d] = "close"
    BY <1>1, <2>1, <2>2 DEF Busy, Steps
  <2>4. QED
    BY <2>1, <2>2, <2>3 DEF GrantsSound
<1>4. PICK b \in Browsers :
        /\ phase[b] = "unused"
        /\ creating' = [creating EXCEPT ![i] = b]
        /\ owner' = [owner EXCEPT ![b] = i]
        /\ cur' = [cur EXCEPT ![c] = b]
        /\ pc' = [pc EXCEPT ![c] = "waiting"]
        /\ UNCHANGED <<entries, grants, blessed>>
  BY DEF Create
<1>5. \A d \in Calls \ {c} :
        /\ Busy(d)' <=> Busy(d)
        /\ cur'[d] = cur[d]
        /\ Busy(d) => cur[d] \in Browsers \ {b} /\ owner'[cur[d]] = owner[cur[d]]
                      /\ owner[cur[d]] \in Ids \ {i}
  <2>1. \A d \in Calls \ {c} : (Busy(d)' <=> Busy(d)) /\ cur'[d] = cur[d]
    BY <1>4 DEF Busy
  <2>2. \A d \in Calls : Busy(d) => cur[d] \in Browsers \ {b}
    BY <1>4 DEF Busy, CallsSound, WaitersHaveRuns, Tearing, Steps
  <2>3. QED
    BY <1>1, <1>4, <2>1, <2>2
<1>6. BusyWithOne'
  <2>1. \A d \in Calls \ {c} : Busy(d)' => OfOne(cur[d])'
    BY <1>4, <1>5 DEF BusyWithOne, OfOne
  <2>2. OfOne(b)' /\ owner'[b] = i /\ cur'[c] = b
    BY <1>2, <1>3, <1>4 DEF OfOne
  <2>3. QED
    BY <1>5, <2>1, <2>2 DEF BusyWithOne
<1>7. GrantsOfLast'
  BY <1>3, <1>4 DEF GrantsOfLast
<1>8. BlessedUse' /\ GrantNotInherited'
  BY <1>2, <1>4 DEF BlessedUse, GrantNotInherited
<1>9. QED
  BY <1>6, <1>7, <1>8
LEMMA OneStep ==
  ASSUME IInv, WaitersHaveRuns, AllReachable, OneAtATime, Next, OpensAtRest, ClosesFresh
  PROVE  OneAtATime'
<1> USE DEF IInv, TypeOK
<1>1. ASSUME NEW c \in Calls, NEW i \in Ids, Existing(c, i) PROVE OneAtATime'
  <2>1. /\ entries[i] \in Browsers /\ owner[entries[i]] = i /\ creating[i] = None
        /\ ~ Busy(c)
    BY <1>1 DEF Existing, NeverHandsOutClosing, SingleCreation, Busy
  <2>2. OfOne(entries[i])
    BY <2>1, NoneIsNoBrowser DEF OfOne, OneAtATime, GrantsOfLast
  <2>3. QED
    BY <1>1, <2>1, <2>2, OneTakenUp DEF Existing, registry, browser
<1>2. ASSUME NEW c \in Calls, NEW i \in Ids, NEW who \in {"tool"} \cup Policies, Join(c, i, who)
      PROVE  OneAtATime'
  <2>1. /\ creating[i] \in Browsers /\ owner[creating[i]] = i /\ entries[i] = None
        /\ grants[i] = None /\ ~ Busy(c)
    BY <1>2 DEF Join, SingleCreation, Busy, OneAtATime, GrantsOfLast
  <2>2. OfOne(creating[i])
    BY <2>1 DEF OfOne
  <2>3. QED
    BY <1>2, <2>1, <2>2, OneTakenUp DEF Join, registry, browser
<1>3. ASSUME NEW c \in Calls,
             \/ \E i \in Ids : Close(c, i)
             \/ \E chosen \in SUBSET Browsers, first \in Browsers :
                  CloseMatching(c, chosen, first)
             \/ \E b \in Browsers : NextVictim(c, b)
      PROVE  OneAtATime'
  <2>1. PICK b \in Browsers :
          /\ entries[owner[b]] = b /\ BeginClose(c, b) /\ pc[c] \in {"idle", "closed"}
          /\ UNCHANGED <<creating, grants, owner, blessed>>
    BY <1>3, ClosesRegistered
  <2>2. creating[owner[b]] = None /\ owner[b] \in Ids /\ ~ Busy(c)
    BY <2>1, NoneIsNoBrowser DEF SingleCreation, Busy
  <2>3. OfOne(b)
    BY <2>1, <2>2, NoneIsNoBrowser DEF OfOne, OneAtATime, GrantsOfLast
  <2>4. QED
    BY <2>1, <2>2, <2>3, OneTakenUp DEF BeginClose
<1>4. ASSUME NEW c \in Calls, PreApproved(c) PROVE OneAtATime'
  <2>1. grants[owner[cur[c]]] = cur[c] /\ pc[c] = "using"
    BY <1>4 DEF PreApproved, Busy, OneAtATime, BusyWithOne, OfOne
  <2>2. QED
    BY <1>4, <2>1
    DEF PreApproved, registry, browser, OneAtATime, BusyWithOne, OfOne, Busy, GrantsOfLast,
        BlessedUse, GrantNotInherited
<1>5. ASSUME NEW c \in Calls, HumanApproves(c) PROVE OneAtATime'
  <2> DEFINE b == cur[c]
  <2>1. /\ b \in Browsers /\ owner[b] \in Ids /\ Busy(c) /\ pc[c] = "using"
        /\ grants' = [grants EXCEPT ![owner[b]] = b]
        /\ blessed' = [blessed EXCEPT ![c] = b]
        /\ UNCHANGED <<entries, creating, owner, pc, cur>>
    BY <1>5 DEF HumanApproves, registry, browser, CallsSound, Busy
  <2>2. creating[owner[b]] = None /\ entries[owner[b]] \in {None, b}
    BY <2>1 DEF OneAtATime, BusyWithOne, OfOne, CallsSound, SingleCreation, Running
  <2>3. BusyWithOne'
    <3>1. \A d \in Calls : Busy(d)' <=> Busy(d)
      BY <2>1 DEF Busy
    <3>2. \A d \in Calls : Busy(d) => cur[d] \in Browsers /\ OfOne(cur[d])'
      BY <2>1 DEF OneAtATime, BusyWithOne, OfOne, Busy, CallsSound
    <3>3. QED
      BY <2>1, <3>1, <3>2 DEF OneAtATime, BusyWithOne
  <2>4. GrantsOfLast'
    BY <2>1, <2>2 DEF OneAtATime, GrantsOfLast
  <2>5. BlessedUse' /\ GrantNotInherited'
    BY <2>1 DEF OneAtATime, BlessedUse, GrantNotInherited
  <2>6. QED
    BY <2>3, <2>4, <2>5 DEF OneAtATime
<1>6. ASSUME NEW c \in Calls,
             \/ Resume(c) \/ ResumeRejected(c) \/ Return(c) \/ Closed(c)
             \/ Detach(c) \/ TeardownThrows(c) \/ Unregister(c) \/ Revoke(c) \/ CloseBrowser(c)
      PROVE  OneAtATime'
  <2>1. CASE Resume(c)
    BY <2>1, OneStays DEF Resume, registry, browser, Busy
  <2>2. CASE ResumeRejected(c) \/ Return(c) \/ Closed(c)
    BY <2>2, OneStays
    DEF ResumeRejected, Return, Closed, Done, registry, browser, Busy
  <2>3. CASE Detach(c) \/ TeardownThrows(c) \/ Unregister(c)
    BY <2>3, OneStays
    DEF Detach, TeardownThrows, Unregister, registry, browser, Busy, Tearing, Steps
  <2>4. CASE Revoke(c)
    BY <2>4, OneStays DEF Revoke, registry, browser, Busy, Tearing, Steps, CallsSound
  <2>5. CASE CloseBrowser(c)
    BY <2>5, OneStays DEF CloseBrowser, registry, Busy, Tearing, Steps
  <2>6. QED
    BY <1>6, <2>1, <2>2, <2>3, <2>4, <2>5
<1>7. ASSUME NEW b \in Browsers, Factory(b) PROVE OneAtATime'
  <2>1. CASE Opened(b)
    <3>1. /\ entries' = [entries EXCEPT ![owner[b]] = b]
          /\ creating' = [creating EXCEPT ![owner[b]] = None]
          /\ UNCHANGED <<grants, owner, pc, cur, blessed>>
          /\ creating[owner[b]] = b
      BY <2>1 DEF Opened, call, SingleCreation, Running
    <3>2. grants[owner[b]] = None
      BY <3>1, NoneIsNoBrowser DEF OneAtATime, GrantsOfLast
    <3>3. BusyWithOne'
      <4>1. \A d \in Calls : (Busy(d)' <=> Busy(d)) /\ (Busy(d) => cur[d] \in Browsers)
        BY <3>1 DEF Busy, CallsSound
      <4>2. \A d \in Calls : Busy(d) /\ owner[cur[d]] = owner[b] => cur[d] = b
        BY <3>1, <4>1, NoneIsNoBrowser DEF OneAtATime, BusyWithOne, OfOne
      <4>3. \A d \in Calls : Busy(d) => OfOne(cur[d])'
        BY <3>1, <4>1, <4>2 DEF OneAtATime, BusyWithOne, OfOne
      <4>4. QED
        BY <3>1, <4>1, <4>3 DEF OneAtATime, BusyWithOne
    <3>4. QED
      BY <3>1, <3>2, <3>3 DEF OneAtATime, GrantsOfLast, BlessedUse, GrantNotInherited
  <2>2. CASE Launched(b)
    BY <2>2, OneUnchanged DEF Launched, registry, call, granting
  <2>3. CASE \E how \in {"failed", "clashed", "leaked"} : Reject(b, how)
    <3>1. /\ creating' = [creating EXCEPT ![owner[b]] = None]
          /\ UNCHANGED <<entries, grants, owner, pc, cur, blessed>>
      BY <2>3 DEF Reject, call
    <3>2. \A d \in Calls : (Busy(d)' <=> Busy(d)) /\ (Busy(d) => owner[cur[d]] \in Ids)
      BY <3>1 DEF Busy, CallsSound
    <3>3. BusyWithOne'
      BY <3>1, <3>2 DEF OneAtATime, BusyWithOne, OfOne
    <3>4. QED
      BY <3>1, <3>3 DEF OneAtATime, GrantsOfLast, BlessedUse, GrantNotInherited
  <2>4. QED
    BY <1>7, <2>1, <2>2, <2>3 DEF Factory, LaunchFailed, LaunchClashed, WiringFailed
<1>8. ASSUME NEW c \in Calls, Tool(c) PROVE OneAtATime'
  <2>1. ASSUME NEW ask \in BOOLEAN, SetPolicy(c, ask) PROVE OneAtATime'
    BY <2>1, OneUnchanged DEF SetPolicy, registry, call, granting
  <2>2. QED
    BY <1>1, <1>2, <1>3, <1>4, <1>5, <1>8, <2>1, OneCreate DEF Tool
<1>9. ASSUME NEW c \in Calls, Continue(c) PROVE OneAtATime'
  BY <1>3, <1>6, <1>9 DEF Continue
<1>10. ASSUME NEW i \in Ids, GrantExpires(i) PROVE OneAtATime'
  <2>1. /\ grants' = [grants EXCEPT ![i] = None]
        /\ UNCHANGED <<entries, creating, owner, pc, cur, blessed>>
    BY <1>10 DEF GrantExpires, registry, browser, call
  <2>2. \A d \in Calls : (Busy(d)' <=> Busy(d)) /\ (Busy(d) => owner[cur[d]] \in Ids)
    BY <2>1 DEF Busy, CallsSound
  <2>3. QED
    BY <2>1, <2>2
    DEF OneAtATime, BusyWithOne, OfOne, GrantsOfLast, BlessedUse, GrantNotInherited
<1>11. QED
  BY <1>7, <1>8, <1>9, <1>10 DEF Next

\* Where a name is opened anew only once no call is busy with what it had, a
\* grant approves nothing but actions of the session whose human gave it, on the
\* engines whose teardown reaches the revocation (close, registry.ts;
\* revokeSession).
THEOREM RestedNamesInheritNothing ==
  ASSUME Engines \subseteq {"chromium", "safari"}
  PROVE  Spec /\ [][OpensAtRest]_vars /\ [][ClosesFresh]_vars => []GrantNotInherited
<1>1. Init => OneAtATime
  BY DEF Init, OneAtATime, BusyWithOne, Busy, GrantsOfLast, BlessedUse, GrantNotInherited
<1>2. IInv /\ WaitersHaveRuns /\ AllReachable /\ OneAtATime /\ [Next]_vars
        /\ [OpensAtRest]_vars /\ [ClosesFresh]_vars
        => OneAtATime'
  <2>1. CASE UNCHANGED vars
    BY <2>1, OneUnchanged DEF vars, registry, browser, call, granting
  <2>2. CASE Next /\ OpensAtRest /\ ClosesFresh
    BY <2>2, OneStep
  <2>3. QED
    BY <2>1, <2>2
<1>3. OneAtATime => GrantNotInherited
  BY DEF OneAtATime
<1>4. Spec /\ [][ClosesFresh]_vars => []AllReachable
  BY AllAreReachable
<1>5. QED
  BY <1>1, <1>2, <1>3, <1>4, InvHolds, WaitersHold, PTL DEF Spec
=============================================================================

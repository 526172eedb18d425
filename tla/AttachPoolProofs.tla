--------------------------- MODULE AttachPoolProofs ---------------------------
(***************************************************************************)
(* What TLAPS proves of AttachPool for any sessions, names, servers and    *)
(* tabs, and any ceiling.                                                  *)
(***************************************************************************)
EXTENDS AttachPool, TLAPS

(***************************************************************************)
(* The strengthening.  Only the head of the chain is between enumerating   *)
(* and claiming; every lease there is by then names a tab it saw taken     *)
(* (leases only go while it waits); no lease names a tab yet to be opened. *)
(***************************************************************************)
Serialised == \A n \in Sessions : InSection(n) => MyTurn(n)

SeenTaken ==
  \A n \in Sessions, i \in Names :
    InSection(n) /\ leased[i] # NoTab => leased[i] \in taken

LeasedIsBorn == \A i \in Names : leased[i] # NoTab => tab[leased[i]] # "unborn"

Leasing == TypeOK /\ Serialised /\ SeenTaken /\ LeasedIsBorn /\ ExclusiveLeases

(***************************************************************************)
(* A session that holds its name is alone with it on its server, and one   *)
(* that was bound has a tab until its release.                             *)
(***************************************************************************)
HoldsName(n) == stage[n] \notin {"new", "closing", "closed", "failed"}

OnePerName ==
  \A n, m \in Sessions :
    /\ n # m /\ HoldsName(n) /\ HoldsName(m)
    => NameOf[n] # NameOf[m] \/ ServerOf[n] # ServerOf[m]

LiveHasTab ==
  \A n \in Sessions : stage[n] \in {"binding", "live", "closing"} => target[n] # NoTab

Naming == OnePerName /\ LiveHasTab

IInv == Leasing /\ Naming

-----------------------------------------------------------------------------
(***************************************************************************)
(* Initially.                                                              *)
(***************************************************************************)

\* Nothing is leased and nobody is acquiring.
LEMMA InitLeasing == Init => Leasing
BY PoolAssumption
DEF Init, Leasing, TypeOK, Stages, Serialised, SeenTaken, LeasedIsBorn, ExclusiveLeases, InSection

\* Nobody holds a name.
LEMMA InitNaming == Init => Naming
BY DEF Init, Naming, OnePerName, LiveHasTab, HoldsName

-----------------------------------------------------------------------------
(***************************************************************************)
(* What the pieces of the actions do to the invariant.                     *)
(***************************************************************************)

\* Dropping leases keeps the table typed and adds nothing to it.
LEMMA KeepDrops ==
  ASSUME TypeOK, NEW keep, Keep(keep)
  PROVE  /\ leased' \in [Names -> Tabs \cup {NoTab}]
         /\ owned' \in [Names -> BOOLEAN]
         /\ stale' \in [Names -> BOOLEAN]
         /\ \A i \in Names : leased'[i] \in {leased[i], NoTab}
BY DEF TypeOK, Keep

\* When the head of the chain leaves, nobody is in the section.
LEMMA LeaveEmpties ==
  ASSUME TypeOK, Serialised, NEW n \in Sessions, MyTurn(n), Leave,
         NEW s \in Stages, s \notin {"listing", "creating"},
         stage' = [stage EXCEPT ![n] = s]
  PROVE  /\ queue' \in Seq(Sessions)
         /\ taken' = {}
         /\ stage' \in [Sessions -> Stages]
         /\ \A m \in Sessions : ~InSection(m)'
BY DEF TypeOK, Serialised, MyTurn, Leave, InSection

\* Filing a lease of a tab that no name has, when nobody is in the section.
LEMMA ClaimSafe ==
  ASSUME TypeOK, LeasedIsBorn, ExclusiveLeases, PoolAssumption,
         NEW n \in Sessions, NEW t \in Tabs, NEW created \in BOOLEAN,
         Claim(n, t, created),
         \A i \in Names : leased[i] # t,
         tab'[t] # "unborn",
         \A u \in Tabs : tab[u] # "unborn" => tab'[u] # "unborn"
  PROVE  /\ leased' \in [Names -> Tabs \cup {NoTab}]
         /\ owned' \in [Names -> BOOLEAN]
         /\ stale' \in [Names -> BOOLEAN]
         /\ target' \in [Sessions -> Tabs \cup {NoTab}]
         /\ LeasedIsBorn' /\ ExclusiveLeases'
<1>1. NameOf[n] \in Names
  BY PoolAssumption
<1>2. \A i \in Names : leased'[i] = IF i = NameOf[n] THEN t ELSE leased[i]
  BY <1>1 DEF TypeOK, Claim
<1>3. leased' \in [Names -> Tabs \cup {NoTab}] /\ owned' \in [Names -> BOOLEAN]
      /\ stale' \in [Names -> BOOLEAN] /\ target' \in [Sessions -> Tabs \cup {NoTab}]
  BY <1>1 DEF TypeOK, Claim
<1>4. LeasedIsBorn'
  BY <1>2 DEF LeasedIsBorn, TypeOK
<1>5. ExclusiveLeases'
  BY <1>2 DEF ExclusiveLeases
<1>6. QED
  BY <1>3, <1>4, <1>5

-----------------------------------------------------------------------------
(***************************************************************************)
(* Every step keeps Leasing.                                               *)
(***************************************************************************)

\* Opening, and the acquisition up to its claim.
LEMMA AcquisitionKeepsLeasing ==
  ASSUME Leasing, NEW n \in Sessions,
         Open(n) \/ Acquire(n) \/ AcquireRefused(n) \/ AskForNew(n) \/ AcquireFails(n)
  PROVE  Leasing'
<1> USE DEF Leasing
<1>1. CASE Open(n)
  <2>1. TypeOK'
    BY <1>1 DEF Open, TypeOK, Stages, leases, browser
  <2>2. Serialised'
    BY <1>1 DEF Open, TypeOK, Serialised, InSection, MyTurn
  <2>3. SeenTaken' /\ LeasedIsBorn' /\ ExclusiveLeases'
    BY <1>1 DEF Open, SeenTaken, LeasedIsBorn, ExclusiveLeases, InSection, leases, browser, TypeOK
  <2>4. QED
    BY <2>1, <2>2, <2>3
<1>2. CASE Acquire(n)
  <2>1. \A i \in Names : leased'[i] # NoTab => leased'[i] = leased[i] /\ i \in Kept
    BY <1>2 DEF Acquire, Reclaim, Keep, TypeOK
  <2>2. Taken \in SUBSET Tabs
    BY DEF Taken, Kept, TypeOK
  <2>3. TypeOK'
    BY <1>2, <2>2, KeepDrops DEF Acquire, Reclaim, TypeOK, Stages, browser
  <2>4. Serialised'
    BY <1>2 DEF Acquire, TypeOK, Serialised, InSection, MyTurn
  <2>5. SeenTaken'
    BY <1>2, <2>1 DEF Acquire, SeenTaken, Taken
  <2>6. LeasedIsBorn' /\ ExclusiveLeases'
    BY <1>2, <2>1 DEF Acquire, LeasedIsBorn, ExclusiveLeases, browser
  <2>7. QED
    BY <2>3, <2>4, <2>5, <2>6
<1>3. CASE AcquireRefused(n)
  <2>1. /\ queue' \in Seq(Sessions) /\ taken' = {} /\ stage' \in [Sessions -> Stages]
        /\ \A m \in Sessions : ~InSection(m)'
    BY <1>3, LeaveEmpties DEF AcquireRefused, Stages
  <2>2. TypeOK'
    BY <1>3, <2>1, KeepDrops DEF AcquireRefused, Reclaim, TypeOK, browser
  <2>3. \A i \in Names : leased'[i] \in {leased[i], NoTab}
    BY <1>3, KeepDrops DEF AcquireRefused, Reclaim
  <2>4. LeasedIsBorn' /\ ExclusiveLeases'
    BY <1>3, <2>3 DEF AcquireRefused, LeasedIsBorn, ExclusiveLeases, browser
  <2>5. QED
    BY <2>1, <2>2, <2>4 DEF Serialised, SeenTaken
<1>4. CASE AskForNew(n)
  <2>1. TypeOK'
    BY <1>4 DEF AskForNew, TypeOK, Stages, leases, browser
  <2>2. Serialised' /\ SeenTaken'
    BY <1>4 DEF AskForNew, TypeOK, Serialised, SeenTaken, InSection, MyTurn, leases
  <2>3. LeasedIsBorn' /\ ExclusiveLeases'
    BY <1>4 DEF AskForNew, LeasedIsBorn, ExclusiveLeases, leases, browser
  <2>4. QED
    BY <2>1, <2>2, <2>3
<1>5. CASE AcquireFails(n)
  <2>1. MyTurn(n)
    BY <1>5 DEF AcquireFails, Serialised
  <2>2. /\ queue' \in Seq(Sessions) /\ taken' = {} /\ stage' \in [Sessions -> Stages]
        /\ \A m \in Sessions : ~InSection(m)'
    BY <1>5, <2>1, LeaveEmpties DEF AcquireFails, Stages
  <2>3. TypeOK'
    BY <1>5, <2>2 DEF AcquireFails, TypeOK, leases, browser
  <2>4. LeasedIsBorn' /\ ExclusiveLeases'
    BY <1>5 DEF AcquireFails, LeasedIsBorn, ExclusiveLeases, leases, browser
  <2>5. QED
    BY <2>2, <2>3, <2>4 DEF Serialised, SeenTaken
<1>6. QED
  BY <1>1, <1>2, <1>3, <1>4, <1>5

\* The claims and the lost tab: the section ends, and what is leased was seen free
\* or was not there before.
LEMMA ClaimsKeepLeasing ==
  ASSUME Leasing, NEW n \in Sessions, NEW t \in Tabs,
         ClaimFree(n, t) \/ ClaimNew(n, t) \/ NewIsLost(n, t)
  PROVE  Leasing'
<1> USE DEF Leasing
<1>1. InSection(n) /\ MyTurn(n)
  BY DEF ClaimFree, ClaimNew, NewIsLost, InSection, Serialised
<1>2. /\ queue' \in Seq(Sessions) /\ taken' = {} /\ stage' \in [Sessions -> Stages]
      /\ \A m \in Sessions : ~InSection(m)'
  BY <1>1, LeaveEmpties DEF ClaimFree, ClaimNew, NewIsLost, Stages
<1>3. Serialised' /\ SeenTaken'
  BY <1>2 DEF Serialised, SeenTaken
<1>4. CASE ClaimFree(n, t)
  <2>1. \A i \in Names : leased[i] # t
    BY <1>1, <1>4, PoolAssumption DEF ClaimFree, Untaken, SeenTaken
  <2>2. tab'[t] # "unborn" /\ \A u \in Tabs : tab[u] # "unborn" => tab'[u] # "unborn"
    BY <1>4 DEF ClaimFree, Untaken, browser
  <2>3. /\ leased' \in [Names -> Tabs \cup {NoTab}] /\ owned' \in [Names -> BOOLEAN]
        /\ stale' \in [Names -> BOOLEAN] /\ target' \in [Sessions -> Tabs \cup {NoTab}]
        /\ LeasedIsBorn' /\ ExclusiveLeases'
    BY <1>4, <2>1, <2>2, ClaimSafe, PoolAssumption DEF ClaimFree
  <2>4. TypeOK'
    BY <1>2, <1>4, <2>3 DEF ClaimFree, TypeOK, browser
  <2>5. QED
    BY <1>3, <2>3, <2>4
<1>5. CASE ClaimNew(n, t)
  <2>1. \A i \in Names : leased[i] # t
    BY <1>5, PoolAssumption DEF ClaimNew, LeasedIsBorn
  <2>2. tab' \in [Tabs -> {"unborn", "open", "closed"}] /\ made' \in SUBSET Tabs
    BY <1>5 DEF ClaimNew, TypeOK
  <2>3. tab'[t] # "unborn" /\ \A u \in Tabs : tab[u] # "unborn" => tab'[u] # "unborn"
    BY <1>5 DEF ClaimNew, TypeOK
  <2>4. /\ leased' \in [Names -> Tabs \cup {NoTab}] /\ owned' \in [Names -> BOOLEAN]
        /\ stale' \in [Names -> BOOLEAN] /\ target' \in [Sessions -> Tabs \cup {NoTab}]
        /\ LeasedIsBorn' /\ ExclusiveLeases'
    BY <1>5, <2>1, <2>3, ClaimSafe, PoolAssumption DEF ClaimNew
  <2>5. TypeOK'
    BY <1>2, <1>5, <2>2, <2>4 DEF ClaimNew, TypeOK
  <2>6. QED
    BY <1>3, <2>4, <2>5
<1>6. CASE NewIsLost(n, t)
  <2>1. TypeOK'
    BY <1>2, <1>6 DEF NewIsLost, TypeOK, leases
  <2>2. LeasedIsBorn' /\ ExclusiveLeases'
    BY <1>6 DEF NewIsLost, LeasedIsBorn, ExclusiveLeases, leases, TypeOK
  <2>3. QED
    BY <1>3, <2>1, <2>2
<1>7. QED
  BY <1>4, <1>5, <1>6

\* Binding, calls and closing: leases are renewed or dropped, never made.
LEMMA UseKeepsLeasing ==
  ASSUME Leasing, LiveHasTab, NEW n \in Sessions,
         Bound(n) \/ BindFails(n) \/ Call(n) \/ BeginClose(n) \/ Release(n)
  PROVE  Leasing'
<1> USE DEF Leasing
<1>1. NameOf[n] \in Names
  BY PoolAssumption
<1>2. CASE Bound(n) \/ BindFails(n) \/ BeginClose(n)
  <2>1. TypeOK'
    BY <1>2 DEF Bound, BindFails, BeginClose, TypeOK, Stages, leases, browser
  <2>2. Serialised' /\ SeenTaken'
    BY <1>2 DEF Bound, BindFails, BeginClose, TypeOK, Serialised, SeenTaken, InSection, MyTurn,
                leases
  <2>3. LeasedIsBorn' /\ ExclusiveLeases'
    BY <1>2 DEF Bound, BindFails, BeginClose, LeasedIsBorn, ExclusiveLeases, leases, browser
  <2>4. QED
    BY <2>1, <2>2, <2>3
<1>3. CASE Call(n)
  <2>1. TypeOK'
    BY <1>1, <1>3 DEF Call, TypeOK, browser
  <2>2. Serialised' /\ SeenTaken' /\ LeasedIsBorn' /\ ExclusiveLeases'
    BY <1>3 DEF Call, Serialised, SeenTaken, InSection, MyTurn, LeasedIsBorn, ExclusiveLeases,
                browser
  <2>3. QED
    BY <2>1, <2>2
<1>4. CASE Release(n)
  <2>1. \A i \in Names : leased'[i] \in {leased[i], NoTab}
    BY <1>4, KeepDrops DEF Release
  <2>2. tab' \in [Tabs -> {"unborn", "open", "closed"}]
        /\ \A u \in Tabs : tab[u] # "unborn" => tab'[u] # "unborn"
    BY <1>4 DEF Release, TypeOK
  <2>3. lost' \in SUBSET Tabs
    BY <1>4 DEF Release, TypeOK, LiveHasTab
  <2>4. TypeOK'
    BY <1>4, <2>2, <2>3, KeepDrops DEF Release, TypeOK, Stages
  <2>5. Serialised' /\ SeenTaken'
    BY <1>4, <2>1 DEF Release, TypeOK, Serialised, SeenTaken, InSection, MyTurn
  <2>6. LeasedIsBorn' /\ ExclusiveLeases'
    BY <2>1, <2>2 DEF LeasedIsBorn, ExclusiveLeases, TypeOK
  <2>7. QED
    BY <2>4, <2>5, <2>6
<1>5. QED
  BY <1>2, <1>3, <1>4

\* Time passes and the operator closes tabs.
LEMMA WorldKeepsLeasing ==
  ASSUME Leasing, (\E i \in Names : Expire(i)) \/ (\E t \in Tabs : OperatorCloses(t))
  PROVE  Leasing'
<1> USE DEF Leasing
<1>1. ASSUME NEW i \in Names, Expire(i) PROVE Leasing'
  BY <1>1 DEF Expire, TypeOK, Serialised, SeenTaken, InSection, MyTurn, LeasedIsBorn,
              ExclusiveLeases, browser
<1>2. ASSUME NEW t \in Tabs, OperatorCloses(t) PROVE Leasing'
  BY <1>2 DEF OperatorCloses, TypeOK, Serialised, SeenTaken, InSection, MyTurn, LeasedIsBorn,
              ExclusiveLeases, leases
<1>3. QED
  BY <1>1, <1>2

\* Every step, and every stutter.
LEMMA NextKeepsLeasing == IInv /\ [Next]_vars => Leasing'
<1> SUFFICES ASSUME Leasing, LiveHasTab, [Next]_vars PROVE Leasing'
  BY DEF IInv, Naming
<1>1. CASE UNCHANGED vars
  BY <1>1 DEF vars, leases, browser, Leasing, TypeOK, Serialised, SeenTaken, InSection, MyTurn,
              LeasedIsBorn, ExclusiveLeases
<1>2. ASSUME NEW n \in Sessions, Step(n) PROVE Leasing'
  BY <1>2, AcquisitionKeepsLeasing, ClaimsKeepLeasing, UseKeepsLeasing DEF Step
<1>3. ASSUME NEW n \in Sessions, Open(n) \/ Call(n) \/ BeginClose(n) PROVE Leasing'
  BY <1>3, AcquisitionKeepsLeasing, UseKeepsLeasing
<1>4. QED
  BY <1>1, <1>2, <1>3, WorldKeepsLeasing DEF Next

\* A name is held by one session of a server at a time, from its opening to the start
\* of its close, and a session bound to a tab has one.
LEMMA NextKeepsNaming ==
  TypeOK /\ Naming /\ [Next]_vars => Naming'
<1> SUFFICES ASSUME TypeOK, Naming, [Next]_vars
             PROVE  Naming'
  OBVIOUS
<1> USE DEF TypeOK, Naming, OnePerName, LiveHasTab, HoldsName, Stages
<1>1. CASE UNCHANGED vars
  BY <1>1 DEF vars
<1>2. ASSUME NEW n \in Sessions, Open(n) PROVE Naming'
  BY <1>2 DEF Open, Free
<1>3. ASSUME NEW n \in Sessions,
             Acquire(n) \/ AcquireRefused(n) \/ AskForNew(n) \/ AcquireFails(n)
      PROVE  Naming'
  BY <1>3 DEF Acquire, AcquireRefused, AskForNew, AcquireFails, InSection
<1>4. ASSUME NEW n \in Sessions, NEW t \in Tabs,
             ClaimFree(n, t) \/ ClaimNew(n, t) \/ NewIsLost(n, t)
      PROVE  Naming'
  <2>1. t # NoTab
    BY PoolAssumption
  <2>2. CASE NewIsLost(n, t)
    BY <2>2 DEF NewIsLost
  <2>3. CASE ClaimFree(n, t) \/ ClaimNew(n, t)
    <3>1. /\ stage[n] \in {"listing", "creating"}
          /\ stage' = [stage EXCEPT ![n] = "binding"]
          /\ target' = [target EXCEPT ![n] = t]
      BY <2>3 DEF ClaimFree, ClaimNew, Claim
    <3>2. OnePerName'
      BY <3>1
    <3>3. LiveHasTab'
      BY <2>1, <3>1
    <3>4. QED
      BY <3>2, <3>3
  <2>4. QED
    BY <1>4, <2>2, <2>3
<1>5. ASSUME NEW n \in Sessions,
             Bound(n) \/ BindFails(n) \/ Call(n) \/ BeginClose(n) \/ Release(n)
      PROVE  Naming'
  BY <1>5 DEF Bound, BindFails, Call, MayCall, BeginClose, Release
<1>6. ASSUME NEW i \in Names, Expire(i) PROVE Naming'
  BY <1>6 DEF Expire
<1>7. ASSUME NEW t \in Tabs, OperatorCloses(t) PROVE Naming'
  BY <1>7 DEF OperatorCloses
<1>8. QED
  BY <1>1, <1>2, <1>3, <1>4, <1>5, <1>6, <1>7 DEF Next, Step

\* The initial state and every step, together.
LEMMA PoolIInv == Spec => []IInv
<1>1. Init => IInv
  BY InitLeasing, InitNaming DEF IInv
<1>2. IInv /\ [Next]_vars => IInv'
  BY NextKeepsLeasing, NextKeepsNaming DEF IInv, Leasing
<1>3. QED
  BY <1>1, <1>2, PTL DEF Spec

-----------------------------------------------------------------------------
(***************************************************************************)
(* The theorems.                                                           *)
(***************************************************************************)

\* The variables of the pool have their types in every reachable state.
THEOREM PoolTypeOK == Spec => []TypeOK
<1>1. IInv => TypeOK
  BY DEF IInv, Leasing
<1>2. QED
  BY <1>1, PoolIInv, PTL

\* acquireTarget leases no tab to two names, for any number of sessions and servers.
THEOREM LeasesAreExclusive == Spec => []ExclusiveLeases
<1>1. IInv => ExclusiveLeases
  BY DEF IInv, Leasing
<1>2. QED
  BY <1>1, PoolIInv, PTL

\* When a name belongs to one server (a process with a single server, or servers whose
\* names are disjoint), no two sessions that touchAttachLease lets through are bound to
\* one tab.
THEOREM PagesAreNotShared ==
  ASSUME \A n, m \in Sessions : NameOf[n] = NameOf[m] => ServerOf[n] = ServerOf[m]
  PROVE  Spec => []NeverSharedPage
<1>1. IInv => NeverSharedPage
  <2> SUFFICES ASSUME IInv,
                      NEW n \in Sessions, NEW m \in Sessions, n # m, MayCall(n), MayCall(m)
               PROVE  target[n] # target[m]
    BY DEF NeverSharedPage
  <2>1. NameOf[n] # NameOf[m]
    BY DEF IInv, Naming, OnePerName, HoldsName, MayCall
  <2>2. target[n] # NoTab /\ leased[NameOf[n]] = target[n] /\ leased[NameOf[m]] = target[m]
    BY DEF IInv, Naming, LiveHasTab, MayCall, Touch
  <2>3. QED
    BY <2>1, <2>2, PoolAssumption DEF IInv, Leasing, ExclusiveLeases
<1>2. QED
  BY <1>1, PoolIInv, PTL
=============================================================================

----------------------------- MODULE AttachPool -----------------------------
(***************************************************************************)
(* The attached-target pool (src/session/attach-pool.ts): the sessions of  *)
(* one process that attach to one running browser, the tab each is leased, *)
(* and what opening (src/session/byob-attach.ts), calling                  *)
(* (src/tools/host-build.ts, entryFor) and closing do to the leases.       *)
(*                                                                         *)
(* A session here is one opening of a session name on one server.  The     *)
(* registry of a server admits one live session per name, but drops the    *)
(* name before the teardown runs; the lease table is one for the process   *)
(* and knows names only.  Time is abstracted: a lease may pass its TTL at  *)
(* any moment since its last renewal.                                      *)
(*                                                                         *)
(* A definition whose name says what it leaves out is a broken variant of  *)
(* the definition below it; nothing in Next uses it.                       *)
(***************************************************************************)
EXTENDS Naturals, Sequences, FiniteSets

CONSTANTS
  Sessions,  \* openings of session names
  Names,     \* session ids, the keys of the lease table
  Servers,   \* servers of this process
  NameOf,    \* session -> its name
  ServerOf,  \* session -> its server
  Tabs,      \* page targets of the attached browser, over time
  Theirs,    \* the tabs the operator has open before any session attaches
  NoTab,
  MaxLeases, \* attachPoolMax()
  CanCreate  \* FALSE for an application that mints no targets (Electron)

ASSUME PoolAssumption ==
  /\ NameOf \in [Sessions -> Names] /\ ServerOf \in [Sessions -> Servers]
  /\ Theirs \subseteq Tabs /\ NoTab \notin Tabs
  /\ MaxLeases \in Nat \ {0} /\ CanCreate \in BOOLEAN

VARIABLES
  stage,   \* session -> how far its opening, or its closing, got
  target,  \* session -> the tab its page() is bound to
  queue,   \* the endpoint's acquisitions; the head runs
  taken,   \* the tabs the running acquisition saw leased
  leased,  \* name -> the tab of its lease, or NoTab
  owned,   \* name -> its lease says the session created the tab
  stale,   \* name -> its lease was not renewed for the TTL
  tab,     \* tab -> not there yet, open, or closed
  made,    \* tabs the pool created
  lost     \* tabs browxai closed

leases  == <<leased, owned, stale>>
browser == <<tab, made, lost>>
vars    == <<stage, target, queue, taken, leases, browser>>

Stages == {"new", "queued", "listing", "creating", "binding", "live",
           "closing", "closed", "failed"}

\* Between enumerating the tabs and claiming one.
InSection(n) == stage[n] \in {"listing", "creating"}

TypeOK ==
  /\ stage   \in [Sessions -> Stages]
  /\ target  \in [Sessions -> Tabs \cup {NoTab}]
  /\ queue   \in Seq(Sessions)
  /\ taken   \in SUBSET Tabs
  /\ leased  \in [Names -> Tabs \cup {NoTab}]
  /\ owned   \in [Names -> BOOLEAN]
  /\ stale   \in [Names -> BOOLEAN]
  /\ tab     \in [Tabs -> {"unborn", "open", "closed"}]
  /\ made    \in SUBSET Tabs
  /\ lost    \in SUBSET Tabs

Init ==
  /\ stage = [n \in Sessions |-> "new"]
  /\ target = [n \in Sessions |-> NoTab]
  /\ queue = <<>> /\ taken = {}
  /\ leased = [i \in Names |-> NoTab]
  /\ owned = [i \in Names |-> FALSE]
  /\ stale = [i \in Names |-> FALSE]
  /\ tab = [t \in Tabs |-> IF t \in Theirs THEN "open" ELSE "unborn"]
  /\ made = {} /\ lost = {}

-----------------------------------------------------------------------------
(* The lease table.                                                        *)

\* claim: filed under the name, over whatever lease the name had.
Claim(n, t, created) ==
  /\ leased' = [leased EXCEPT ![NameOf[n]] = t]
  /\ owned' = [owned EXCEPT ![NameOf[n]] = created]
  /\ stale' = [stale EXCEPT ![NameOf[n]] = FALSE]
  /\ target' = [target EXCEPT ![n] = t]

\* The leases of the names in keep are left, no other.
Keep(keep) ==
  /\ leased' = [i \in Names |-> IF i \in keep THEN leased[i] ELSE NoTab]
  /\ owned' = [i \in Names |-> i \in keep /\ owned[i]]
  /\ stale' = [i \in Names |-> i \in keep /\ stale[i]]

\* The leases reclaimExpired leaves.
Kept == {i \in Names : leased[i] # NoTab /\ ~stale[i]}

Reclaim == Keep(Kept)

\* The serialised section of this acquisition is over, whatever came of it.
Leave == queue' = Tail(queue) /\ taken' = {}

-----------------------------------------------------------------------------
(* Opening: attachByobDesktop and acquireTarget.                           *)

\* The registry of the session's server has no session under the name, and the
\* connection to the browser is up: the acquisition joins the endpoint's chain.
Free(n) == \A m \in Sessions \ {n} :
  NameOf[m] = NameOf[n] /\ ServerOf[m] = ServerOf[n]
    => stage[m] \in {"new", "closing", "closed", "failed"}

Open(n) ==
  /\ stage[n] = "new" /\ Free(n)
  /\ stage' = [stage EXCEPT ![n] = "queued"]
  /\ queue' = Append(queue, n)
  /\ UNCHANGED <<target, taken, leases, browser>>

AnyTurn(n) == TRUE
MyTurn(n) == queue # <<>> /\ Head(queue) = n

Room == Cardinality(Kept) < MaxLeases

Taken == {leased[i] : i \in Kept}

Acquire(n) ==
  /\ stage[n] = "queued" /\ MyTurn(n) /\ Room
  /\ Reclaim
  /\ taken' = Taken
  /\ stage' = [stage EXCEPT ![n] = "listing"]
  /\ UNCHANGED <<target, queue, browser>>

\* attach-pool-exhausted.  What was idle is reclaimed all the same.
AcquireRefused(n) ==
  /\ stage[n] = "queued" /\ MyTurn(n) /\ ~Room
  /\ Reclaim /\ Leave
  /\ stage' = [stage EXCEPT ![n] = "failed"]
  /\ UNCHANGED <<target, browser>>

Untaken == {t \in Tabs : tab[t] = "open" /\ t \notin taken}

\* The tabs are listed: a free one is claimed, before anything else runs.
ClaimFree(n, t) ==
  /\ stage[n] = "listing" /\ t \in Untaken
  /\ Claim(n, t, FALSE) /\ Leave
  /\ stage' = [stage EXCEPT ![n] = "binding"]
  /\ UNCHANGED browser

\* None is free, or none that is tells its id: a new one is asked for, where the
\* browser can.
AskForNew(n) ==
  /\ stage[n] = "listing" /\ CanCreate
  /\ stage' = [stage EXCEPT ![n] = "creating"]
  /\ UNCHANGED <<target, queue, taken, leases, browser>>

ClaimNew(n, t) ==
  /\ stage[n] = "creating" /\ tab[t] = "unborn"
  /\ tab' = [tab EXCEPT ![t] = "open"]
  /\ made' = made \cup {t}
  /\ Claim(n, t, TRUE) /\ Leave
  /\ stage' = [stage EXCEPT ![n] = "binding"]
  /\ UNCHANGED lost

\* The new tab opens and does not tell its id: it is nobody's.
NewIsLost(n, t) ==
  /\ stage[n] = "creating" /\ tab[t] = "unborn"
  /\ tab' = [tab EXCEPT ![t] = "open"]
  /\ made' = made \cup {t}
  /\ Leave
  /\ stage' = [stage EXCEPT ![n] = "failed"]
  /\ UNCHANGED <<target, leases, lost>>

AcquireFailsForGood(n) ==
  /\ InSection(n)
  /\ stage' = [stage EXCEPT ![n] = "failed"]
  /\ UNCHANGED <<target, queue, taken, leases, browser>>

\* The listing or the creation throws, cannot create, or the tab it chose is
\* closed already; the chain goes on.
AcquireFails(n) ==
  /\ InSection(n)
  /\ Leave
  /\ stage' = [stage EXCEPT ![n] = "failed"]
  /\ UNCHANGED <<target, leases, browser>>

\* The tab's CDP session opens and the server registers the session ...
Bound(n) ==
  /\ stage[n] = "binding"
  /\ stage' = [stage EXCEPT ![n] = "live"]
  /\ UNCHANGED <<target, queue, taken, leases, browser>>

\* ... or it does not, and the lease is left to its TTL.
BindFails(n) ==
  /\ stage[n] = "binding"
  /\ stage' = [stage EXCEPT ![n] = "failed"]
  /\ target' = [target EXCEPT ![n] = NoTab]
  /\ UNCHANGED <<queue, taken, leases, browser>>

-----------------------------------------------------------------------------
(* Calls and closing.                                                      *)

TouchUnchecked(n) == TRUE

\* touchAttachLease lets a call through.
Touch(n) == leased[NameOf[n]] = target[n]

MayCall(n) == stage[n] = "live" /\ Touch(n)

\* Every tool call renews the lease as it starts.
Call(n) ==
  /\ MayCall(n)
  /\ stale' = [stale EXCEPT ![NameOf[n]] = FALSE]
  /\ UNCHANGED <<stage, target, queue, taken, leased, owned, browser>>

\* The registry drops the name; the teardown is on its way to session.close().
BeginClose(n) ==
  /\ stage[n] = "live"
  /\ stage' = [stage EXCEPT ![n] = "closing"]
  /\ UNCHANGED <<target, queue, taken, leases, browser>>

\* releaseTarget: the lease filed under the name goes, and what it says of its
\* own tab decides whether this session's tab is closed.
Release(n) ==
  LET i == NameOf[n]
      closes == leased[i] # NoTab /\ owned[i] /\ tab[target[n]] = "open" IN
  /\ stage[n] = "closing"
  /\ stage' = [stage EXCEPT ![n] = "closed"]
  /\ target' = [target EXCEPT ![n] = NoTab]
  /\ Keep(Names \ {i})
  /\ tab' = [tab EXCEPT ![target[n]] = IF closes THEN "closed" ELSE @]
  /\ lost' = IF closes THEN lost \cup {target[n]} ELSE lost
  /\ UNCHANGED <<queue, taken, made>>

-----------------------------------------------------------------------------
(* Time, and the operator.                                                 *)

Expire(i) ==
  /\ leased[i] # NoTab /\ ~stale[i]
  /\ stale' = [stale EXCEPT ![i] = TRUE]
  /\ UNCHANGED <<stage, target, queue, taken, leased, owned, browser>>

OperatorCloses(t) ==
  /\ tab[t] = "open"
  /\ tab' = [tab EXCEPT ![t] = "closed"]
  /\ UNCHANGED <<stage, target, queue, taken, leases, made, lost>>

Step(n) ==
  \/ Acquire(n) \/ AcquireRefused(n) \/ AskForNew(n) \/ AcquireFails(n)
  \/ \E t \in Tabs : ClaimFree(n, t) \/ ClaimNew(n, t) \/ NewIsLost(n, t)
  \/ Bound(n) \/ BindFails(n)
  \/ Release(n)

Next ==
  \/ \E n \in Sessions : Open(n) \/ Step(n) \/ Call(n) \/ BeginClose(n)
  \/ \E i \in Names : Expire(i)
  \/ \E t \in Tabs : OperatorCloses(t)

Spec == Init /\ [][Next]_vars

\* The event loop runs what is ready and the browser answers or fails each
\* request.  Nobody has to open, call or close anything.
FairSpec == Spec /\ \A n \in Sessions : WF_vars(Step(n))

-----------------------------------------------------------------------------
(* Properties.                                                             *)

\* No tab is leased to two names, although the tabs are enumerated, awaited and
\* claimed while other sessions release, expire and are reclaimed.
ExclusiveLeases ==
  \A i, j \in Names : i # j /\ leased[i] # NoTab => leased[i] # leased[j]

\* Two sessions that may both start a call work on different tabs, whatever was
\* reclaimed, released or reopened under them.
NeverSharedPage ==
  \A n, m \in Sessions : n # m /\ MayCall(n) /\ MayCall(m) => target[n] # target[m]

\* Every acquisition comes to an end, however those before it in the chain fail.
AcquisitionsEnd ==
  \A n \in Sessions :
    stage[n] \in {"queued", "listing", "creating"} ~>
      stage[n] \notin {"queued", "listing", "creating"}

\* "A claimed pre-existing target is the operator's own tab and always outlives
\* us": browxai closes only tabs it made.
OperatorTabsSurvive == lost \subseteq made
=============================================================================

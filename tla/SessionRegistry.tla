-------------------------- MODULE SessionRegistry --------------------------
(***************************************************************************)
(* The session registry (src/session/registry.ts) with the factory and the *)
(* teardown the server gives it (src/tools/session-registry.ts) and the    *)
(* tool calls that drive it (src/tools/session-lifecycle-tools.ts).        *)
(*                                                                         *)
(* The server is one event loop: between two awaits a handler runs alone.  *)
(* An action below is the code between two awaits, and tool calls (the     *)
(* processes of this module) interleave at every await.  A browser is what *)
(* one run of the factory launches.                                        *)
(*                                                                         *)
(* A definition whose name says what it leaves out (RejectKeepingCreation, *)
(* NoReopenGate, ...) is a broken variant of the definition below it, for  *)
(* checking that the properties notice; nothing in Next uses it.           *)
(***************************************************************************)
EXTENDS Naturals, FiniteSets

CONSTANTS
  Ids,          \* session ids the clients use
  Profiles,     \* persistent profile directories
  NoProfile,    \* an incognito or attached session: no profile directory
  Calls,        \* tool calls that can be in flight at once
  Engines,      \* the engines sessions are opened on
  DefaultPlace, \* where a session runs that no open_session asked for
  DefaultEngine, \* ... and on which engine (the server's BROWX_ENGINE)
  MaxBrowsers,  \* how many factory runs are explored
  MaxVictims,   \* how many sessions one close_sessions call selects at most
  Override      \* TRUE iff the operator enabled `human-gate-override`

ASSUME IdsAssumption     == Ids # {} /\ NoProfile \notin Profiles
ASSUME EnginesAssumption == Engines \subseteq {"chromium", "firefox", "safari"}
ASSUME DefaultAssumption ==
  DefaultPlace \in Profiles \cup {NoProfile} /\ DefaultEngine \in Engines
ASSUME BoundAssumption   == MaxBrowsers \in Nat /\ MaxVictims \in Nat /\ Override \in BOOLEAN

Browsers == 1..MaxBrowsers
None     == 0
Places   == Profiles \cup {NoProfile}

(***************************************************************************)
(* "firefox" stands for the engines with no CDP handle that are not        *)
(* Safari: firefox, webkit and the native ones.                            *)
(***************************************************************************)
HasCdp(eng) == eng = "chromium"

VARIABLES
  entries,   \* id -> the browser registered under it
  creating,  \* id -> the browser whose factory run is in flight
  held,      \* id -> NotHeld, or where the ask-human session last closed ran
  sources,   \* id -> the browser whose frames the live-view hub serves
  grants,    \* id -> the browser whose human answer the session grant came from
  owner,     \* browser -> session id it was created for
  place,     \* browser -> profile directory, or NoProfile
  engine,    \* browser -> its engine
  asks,      \* browser -> its session holds a policy on "ask-human"
  phase,     \* browser -> where its life is
  detached,  \* browser -> its bridge was detached
  teardowns, \* browser -> teardowns started on it
  pc,        \* call -> what it is doing
  cur,       \* call -> the browser it waits for, uses or tears down
  victims,   \* call -> browsers close_sessions still has to close
  asked,     \* call -> the policy open_session asked for; "tool" for another tool
  blessed    \* call -> the browser whose human answer approved its action

registry == <<entries, creating, held>>
browser  == <<owner, place, engine, asks, phase, detached, teardowns>>
call     == <<pc, cur, victims, asked, blessed>>
vars     == <<registry, sources, grants, browser, call>>

NotHeld == "not held"

ASSUME NotHeldAssumption == NotHeld \notin Places   \* no directory

\* A policy argument, reduced to what it says of ask-human: left out, on
\* "ask-human", or on something else.
Policies == {"omit", "ask", "off"}

Phases == {"unused", "launching", "wiring", "live", "closed",
           "failed", "clashed", "leaked"}

\* A browser process exists from the launch until session.close().
Up(b) == phase[b] \in {"wiring", "live", "leaked"}

\* A Chrome keeps a SingletonLock in its profile directory; no other browser
\* leaves one.
HoldsLock(b) == Up(b) /\ engine[b] = "chromium" /\ place[b] # NoProfile

Running(b) == phase[b] \in {"launching", "wiring"}

Steps == {"detach", "unregister", "revoke", "close", "closed"}

Tearing(c) == pc[c] \in Steps

TypeOK ==
  /\ entries   \in [Ids -> Browsers \cup {None}]
  /\ creating  \in [Ids -> Browsers \cup {None}]
  /\ held      \in [Ids -> Places \cup {NotHeld}]
  /\ sources   \in [Ids -> Browsers \cup {None}]
  /\ grants    \in [Ids -> Browsers \cup {None}]
  /\ owner     \in [Browsers -> Ids]
  /\ place     \in [Browsers -> Places]
  /\ engine    \in [Browsers -> {"chromium", "firefox", "safari"}]
  /\ asks      \in [Browsers -> BOOLEAN]
  /\ phase     \in [Browsers -> Phases]
  /\ detached  \in [Browsers -> BOOLEAN]
  /\ teardowns \in [Browsers -> Nat]
  /\ pc        \in [Calls -> {"idle", "waiting", "using"} \cup Steps]
  /\ cur       \in [Calls -> Browsers \cup {None}]
  /\ victims   \in [Calls -> SUBSET Browsers]
  /\ asked     \in [Calls -> {"tool"} \cup Policies]
  /\ blessed   \in [Calls -> Browsers \cup {None}]

Init ==
  /\ entries   = [i \in Ids |-> None]
  /\ creating  = [i \in Ids |-> None]
  /\ held      = [i \in Ids |-> NotHeld]
  /\ sources   = [i \in Ids |-> None]
  /\ grants    = [i \in Ids |-> None]
  /\ owner     = [b \in Browsers |-> CHOOSE i \in Ids : TRUE]
  /\ place     = [b \in Browsers |-> NoProfile]
  /\ engine    = [b \in Browsers |-> "chromium"]
  /\ asks      = [b \in Browsers |-> FALSE]
  /\ phase     = [b \in Browsers |-> "unused"]
  /\ detached  = [b \in Browsers |-> FALSE]
  /\ teardowns = [b \in Browsers |-> 0]
  /\ pc        = [c \in Calls |-> "idle"]
  /\ cur       = [c \in Calls |-> None]
  /\ victims   = [c \in Calls |-> {}]
  /\ asked     = [c \in Calls |-> "tool"]
  /\ blessed   = [c \in Calls |-> None]

-----------------------------------------------------------------------------
(***************************************************************************)
(* SessionRegistry.get and the factory.  `who` is the policy argument of   *)
(* open_session, or "tool" for any other tool: it creates its session      *)
(* lazily and passes no policy.                                            *)
(***************************************************************************)

\* The policy a session of id i starts with: what the caller passed, else what
\* the name held when it last closed (inheritHeld), else a default that asks
\* nobody.
PolicyAsGiven(i, who) == who = "ask"
Inherited(i, who) ==
  who = "ask" \/ (who \in {"omit", "tool"} /\ held[i] # NotHeld)

\* askHumanReopenGate, before open_session reaches the registry.
NoReopenGate(i, who) == TRUE
ReopenGate(i, who) == Override \/ held[i] = NotHeld \/ who # "off"

\* get() starts a factory run only for an id that is neither live nor being
\* created.
AbsentFromEntries(i) == entries[i] = None
Absent(i) == entries[i] = None /\ creating[i] = None

\* get() of a live id: the entry is returned as it is.  open_session never
\* comes here: openSessionPrecheck has refused a live id.
Existing(c, i) ==
  /\ pc[c] = "idle" /\ entries[i] # None
  /\ pc' = [pc EXCEPT ![c] = "using"]
  /\ cur' = [cur EXCEPT ![c] = entries[i]]
  /\ asked' = [asked EXCEPT ![c] = "tool"]
  /\ UNCHANGED <<registry, sources, grants, browser, victims, blessed>>

\* get() of an id whose creation is in flight: the caller shares the promise,
\* whatever it asked for.  openSessionPrecheck looks at live entries only, so
\* open_session comes here too, once the reopen gate let its policy through.
Join(c, i, who) ==
  /\ pc[c] = "idle" /\ entries[i] = None /\ creating[i] # None
  /\ ReopenGate(i, who)
  /\ pc' = [pc EXCEPT ![c] = "waiting"]
  /\ cur' = [cur EXCEPT ![c] = creating[i]]
  /\ asked' = [asked EXCEPT ![c] = who]
  /\ UNCHANGED <<registry, sources, grants, browser, victims, blessed>>

\* refuseLiveProfile, refuseLockedProfile and refuseHeldProfile: what the
\* factory checks before a persistent launch.  The second reads Chrome's lock
\* and nothing else: a Firefox or WebKit that is up on the directory without
\* being registered is not seen.
ProfileFree(i, p, willAsk) ==
  /\ \A j \in Ids \ {i} : entries[j] # None => place[entries[j]] # p
  /\ \A b \in Browsers : HoldsLock(b) => place[b] # p
  /\ \A j \in Ids : held[j] = p => (Override \/ willAsk)

\* Where a session opened on p runs.  Safari and the native engines have no
\* profile directory, whatever was asked for.
RunsIn(eng, p) ==
  CASE eng = "chromium" -> {p}
    [] eng = "safari"   -> {NoProfile}
    [] OTHER            -> {p, NoProfile}

\* get() of an id that is neither live nor being created: the factory starts
\* and runs up to its first await, the launch.  A call other than open_session
\* passes no spec, so its session takes the server's defaults.  Safari refuses
\* to open incognito or attached.  A refusal changes nothing and is not an
\* action.
Create(c, i, who, p, eng) ==
  /\ pc[c] = "idle" /\ Absent(i)
  /\ who = "tool" => p = DefaultPlace /\ eng = DefaultEngine
  /\ ReopenGate(i, who)
  /\ eng = "safari" => p # NoProfile
  /\ p = NoProfile \/ ProfileFree(i, p, Inherited(i, who))
  /\ \E b \in Browsers, at \in RunsIn(eng, p) :
       /\ phase[b] = "unused"
       /\ \A b2 \in 1..(b - 1) : phase[b2] # "unused"
       /\ creating' = [creating EXCEPT ![i] = b]
       /\ owner' = [owner EXCEPT ![b] = i]
       /\ place' = [place EXCEPT ![b] = at]
       /\ engine' = [engine EXCEPT ![b] = eng]
       /\ asks' = [asks EXCEPT ![b] = Inherited(i, who)]
       /\ phase' = [phase EXCEPT ![b] = "launching"]
       /\ cur' = [cur EXCEPT ![c] = b]
  /\ pc' = [pc EXCEPT ![c] = "waiting"]
  /\ asked' = [asked EXCEPT ![c] = who]
  /\ UNCHANGED <<entries, held, sources, grants, detached, teardowns,
                 victims, blessed>>

\* The browser process is up; the factory goes on to wire it.  Chrome itself
\* admits one Chrome per profile directory; what two browsers of other kinds do
\* in one directory is not in this code, and either outcome is allowed.
Launched(b) ==
  /\ phase[b] = "launching"
  /\ engine[b] = "chromium" => \A b2 \in Browsers : HoldsLock(b2) => place[b2] # place[b]
  /\ phase' = [phase EXCEPT ![b] = "wiring"]
  /\ UNCHANGED <<registry, sources, grants, owner, place, engine, asks,
                 detached, teardowns, call>>

RejectKeepingCreation(b, how) ==
  /\ phase' = [phase EXCEPT ![b] = how]
  /\ UNCHANGED <<registry, sources, grants, owner, place, engine, asks,
                 detached, teardowns, call>>

\* The factory rejects: get() forgets the creation, callers see the error.
Reject(b, how) ==
  /\ phase' = [phase EXCEPT ![b] = how]
  /\ creating' = [creating EXCEPT ![owner[b]] = None]
  /\ UNCHANGED <<entries, held, sources, grants, owner, place, engine, asks,
                 detached, teardowns, call>>

LaunchFailed(b) == phase[b] = "launching" /\ Reject(b, "failed")

\* The launch meets a browser that got to the profile directory first.
LaunchClashed(b) ==
  /\ phase[b] = "launching" /\ place[b] # NoProfile
  /\ \E b2 \in Browsers : Up(b2) /\ place[b2] = place[b]
  /\ Reject(b, "clashed")

\* HAR replay, the network attach or postWire throws.  Nothing closes the
\* browser that is already up.
WiringFailed(b) == phase[b] = "wiring" /\ Reject(b, "leaked")

\* The factory returns and get() files the entry.
Opened(b) ==
  /\ phase[b] = "wiring"
  /\ phase' = [phase EXCEPT ![b] = "live"]
  /\ sources' = [sources EXCEPT ![owner[b]] = b]
  /\ entries' = [entries EXCEPT ![owner[b]] = b]
  /\ creating' = [creating EXCEPT ![owner[b]] = None]
  /\ UNCHANGED <<held, grants, owner, place, engine, asks, detached,
                 teardowns, call>>

\* A caller that awaited the creation resumes, some time after it settled.
Resume(c) ==
  /\ pc[c] = "waiting" /\ phase[cur[c]] \in {"live", "closed"}
  /\ pc' = [pc EXCEPT ![c] = "using"]
  /\ UNCHANGED <<registry, sources, grants, browser, cur, victims, asked, blessed>>

Done(c) ==
  /\ pc' = [pc EXCEPT ![c] = "idle"]
  /\ cur' = [cur EXCEPT ![c] = None]
  /\ asked' = [asked EXCEPT ![c] = "tool"]
  /\ blessed' = [blessed EXCEPT ![c] = None]
  /\ UNCHANGED victims

ResumeRejected(c) ==
  /\ pc[c] = "waiting" /\ phase[cur[c]] \in {"failed", "clashed", "leaked"}
  /\ Done(c)
  /\ UNCHANGED <<registry, sources, grants, browser>>

-----------------------------------------------------------------------------
(***************************************************************************)
(* What a call that holds an entry does.  It keeps the entry it resolved:  *)
(* another call may have closed that session since.                        *)
(***************************************************************************)

\* set_permission_policy and its siblings.  Moving a policy off ask-human is
\* gated (askHumanPolicyGate).
SetPolicy(c, ask) ==
  /\ pc[c] = "using" /\ asked[c] = "tool"
  /\ ask \/ ~asks[cur[c]] \/ Override
  /\ asks' = [asks EXCEPT ![cur[c]] = ask]
  /\ UNCHANGED <<registry, sources, grants, owner, place, engine, phase,
                 detached, teardowns, call>>

\* A confirm hook runs and a grant stored under the call's session id covers
\* it: the action is pre-approved.
PreApproved(c) ==
  /\ pc[c] = "using" /\ asked[c] = "tool" /\ grants[owner[cur[c]]] # None
  /\ blessed' = [blessed EXCEPT ![c] = grants[owner[cur[c]]]]
  /\ UNCHANGED <<registry, sources, grants, browser, pc, cur, victims, asked>>

\* A confirm hook asks, and the human approves with a session grant.  A prompt
\* of a detached bridge is aborted, so it cannot be answered.
HumanApproves(c) ==
  /\ pc[c] = "using" /\ asked[c] = "tool" /\ ~detached[cur[c]]
  /\ grants' = [grants EXCEPT ![owner[cur[c]]] = cur[c]]
  /\ blessed' = [blessed EXCEPT ![c] = cur[c]]
  /\ UNCHANGED <<registry, sources, browser, pc, cur, victims, asked>>

\* The TTL of a session grant runs out.
GrantExpires(i) ==
  /\ grants[i] # None
  /\ grants' = [grants EXCEPT ![i] = None]
  /\ UNCHANGED <<registry, sources, browser, call>>

Return(c) ==
  /\ pc[c] = "using"
  /\ Done(c)
  /\ UNCHANGED <<registry, sources, grants, browser>>

-----------------------------------------------------------------------------
(***************************************************************************)
(* close_session and close_sessions.                                       *)
(***************************************************************************)

\* heldBy: what the closing session's name is to remember.
HeldBy(b) == IF asks[b] THEN place[b] ELSE NotHeld

BeginCloseKeepingEntry(c, b) ==
  /\ held' = [held EXCEPT ![owner[b]] = HeldBy(b)]
  /\ teardowns' = [teardowns EXCEPT ![b] = @ + 1]
  /\ cur' = [cur EXCEPT ![c] = b]
  /\ pc' = [pc EXCEPT ![c] = "detach"]
  /\ UNCHANGED entries

\* remember(e), then entries.delete(e.id), then the teardown starts.  The
\* delete is by id.
BeginClose(c, b) ==
  /\ held' = [held EXCEPT ![owner[b]] = HeldBy(b)]
  /\ entries' = [entries EXCEPT ![owner[b]] = None]
  /\ teardowns' = [teardowns EXCEPT ![b] = @ + 1]
  /\ cur' = [cur EXCEPT ![c] = b]
  /\ pc' = [pc EXCEPT ![c] = "detach"]

Close(c, i) ==
  /\ pc[c] = "idle" /\ entries[i] # None
  /\ BeginClose(c, entries[i])
  /\ UNCHANGED <<creating, sources, grants, owner, place, engine, asks, phase,
                 detached, victims, asked, blessed>>

\* Any selector picks some of the live sessions.  They are picked once; the
\* loop then closes them one after the other.
CloseMatching(c, chosen, first) ==
  /\ pc[c] = "idle"
  /\ Cardinality(chosen) <= MaxVictims
  /\ \A b \in chosen : entries[owner[b]] = b
  /\ first \in chosen
  /\ victims' = [victims EXCEPT ![c] = chosen \ {first}]
  /\ BeginClose(c, first)
  /\ UNCHANGED <<creating, sources, grants, owner, place, engine, asks, phase,
                 detached, asked, blessed>>

DetachLater(c) ==
  /\ pc[c] = "detach"
  /\ pc' = [pc EXCEPT ![c] = "unregister"]
  /\ UNCHANGED <<registry, sources, grants, browser, cur, victims, asked, blessed>>

\* perf, coverage, replay and the bridge.  The bridge detaches at once.
Detach(c) ==
  /\ pc[c] = "detach" /\ (HasCdp(engine[cur[c]]) \/ engine[cur[c]] = "safari")
  /\ detached' = [detached EXCEPT ![cur[c]] = TRUE]
  /\ pc' = [pc EXCEPT ![c] = "unregister"]
  /\ UNCHANGED <<registry, sources, grants, owner, place, engine, asks, phase,
                 teardowns, cur, victims, asked, blessed>>

\* requireCdp throws on an engine without a CDP handle, before the first
\* await: the rest of the teardown never runs.
TeardownThrows(c) ==
  /\ pc[c] = "detach"
  /\ ~HasCdp(engine[cur[c]]) /\ engine[cur[c]] # "safari"
  /\ pc' = [pc EXCEPT ![c] = "closed"]
  /\ UNCHANGED <<registry, sources, grants, browser, cur, victims, asked, blessed>>

\* The hub drops the source filed under the session id.
Unregister(c) ==
  /\ pc[c] = "unregister"
  /\ sources' = [sources EXCEPT ![owner[cur[c]]] = None]
  /\ pc' = [pc EXCEPT ![c] = "revoke"]
  /\ UNCHANGED <<registry, grants, browser, cur, victims, asked, blessed>>

\* approvals.revokeSession: every grant filed under the session id goes.
Revoke(c) ==
  /\ pc[c] = "revoke"
  /\ grants' = [grants EXCEPT ![owner[cur[c]]] = None]
  /\ pc' = [pc EXCEPT ![c] = "close"]
  /\ UNCHANGED <<registry, sources, browser, cur, victims, asked, blessed>>

KeepBrowser(c) ==
  /\ pc[c] = "close"
  /\ pc' = [pc EXCEPT ![c] = "closed"]
  /\ UNCHANGED <<registry, sources, grants, browser, cur, victims, asked, blessed>>

\* session.close(): the browser process ends.  A close of the browser that
\* rejects is swallowed, and the code takes the browser to have ended; so does
\* this action.
CloseBrowser(c) ==
  /\ pc[c] = "close"
  /\ phase' = [phase EXCEPT ![cur[c]] = "closed"]
  /\ pc' = [pc EXCEPT ![c] = "closed"]
  /\ UNCHANGED <<registry, sources, grants, owner, place, engine, asks,
                 detached, teardowns, cur, victims, asked, blessed>>

\* The closing loop goes on with a victim picked before the last await.
NextVictim(c, b) ==
  /\ pc[c] = "closed" /\ b \in victims[c]
  /\ victims' = [victims EXCEPT ![c] = @ \ {b}]
  /\ BeginClose(c, b)
  /\ UNCHANGED <<creating, sources, grants, owner, place, engine, asks, phase,
                 detached, asked, blessed>>

Closed(c) ==
  /\ pc[c] = "closed" /\ victims[c] = {}
  /\ Done(c)
  /\ UNCHANGED <<registry, sources, grants, browser>>

-----------------------------------------------------------------------------
Tool(c) ==
  \/ \E i \in Ids : Existing(c, i)
  \/ \E i \in Ids, who \in {"tool"} \cup Policies : Join(c, i, who)
  \/ \E i \in Ids, who \in {"tool"} \cup Policies, p \in Places, eng \in Engines :
       Create(c, i, who, p, eng)
  \/ \E ask \in BOOLEAN : SetPolicy(c, ask)
  \/ PreApproved(c)
  \/ HumanApproves(c)
  \/ \E i \in Ids : Close(c, i)
  \/ \E chosen \in SUBSET Browsers, first \in Browsers : CloseMatching(c, chosen, first)

\* The steps a call takes once it started, none of them a client's choice.
Continue(c) ==
  \/ Resume(c)
  \/ ResumeRejected(c)
  \/ Return(c)
  \/ Detach(c)
  \/ TeardownThrows(c)
  \/ Unregister(c)
  \/ Revoke(c)
  \/ CloseBrowser(c)
  \/ \E b \in Browsers : NextVictim(c, b)
  \/ Closed(c)

Factory(b) ==
  \/ Launched(b)
  \/ LaunchFailed(b)
  \/ LaunchClashed(b)
  \/ WiringFailed(b)
  \/ Opened(b)

Next ==
  \/ \E c \in Calls : Tool(c) \/ Continue(c)
  \/ \E b \in Browsers : Factory(b)
  \/ \E i \in Ids : GrantExpires(i)

(***************************************************************************)
(* Every launch and every wiring step settles (Playwright bounds both),    *)
(* and the event loop runs whatever is ready.                              *)
(***************************************************************************)
Fairness ==
  /\ \A b \in Browsers : WF_vars(Factory(b))
  /\ \A c \in Calls : WF_vars(Continue(c))

Spec == Init /\ [][Next]_vars

FairSpec == Spec /\ Fairness
-----------------------------------------------------------------------------
(***************************************************************************)
(* Properties.                                                             *)
(***************************************************************************)

\* A name has one browser: while a factory run for it is in flight it is the
\* one get() would share, nothing is registered under the name, and get()
\* forgets the run the moment it settles, so a failed creation never blocks
\* the name and two first calls never launch two browsers (get, `creating`).
SingleCreation ==
  /\ \A b \in Browsers : Running(b) => creating[owner[b]] = b
  /\ \A i \in Ids : creating[i] # None =>
       Running(creating[i]) /\ owner[creating[i]] = i /\ entries[i] = None

\* get() never hands out a session that some call already began to close,
\* however closes, reopens and bulk closes of the name interleave: an entry
\* leaves the map before its teardown starts, and never comes back.
NeverHandsOutClosing ==
  \A i \in Ids : entries[i] # None =>
    /\ owner[entries[i]] = i
    /\ phase[entries[i]] = "live"
    /\ teardowns[entries[i]] = 0

\* A session grant ends with the browser of the session whose human gave it:
\* the bridge detaches before the grants are dropped, so no late answer can
\* file one after that (teardown order of src/tools/session-registry.ts).
GrantEndsWithBrowser ==
  \A i \in Ids : grants[i] # None => phase[grants[i]] = "live"

\* Somebody can still close browser b: it is registered, or is being closed.
Reachable(b) ==
  \/ entries[owner[b]] = b
  \/ \E c \in Calls : cur[c] = b /\ pc[c] \in Steps \ {"closed"}

\* A browser that came up and was registered stays within reach, whatever
\* creations, failures, closes and bulk closes overlap.  There are two ways to
\* lose it, and no third: its own teardown threw (requireCdp), or a bulk close
\* tore down an earlier session of its name a second time and deleted the name's
\* entry with it (closeMatching deletes by id).  A lost browser can be closed by
\* nobody until the process ends.
NoBrowserOrphaned ==
  \A b \in Browsers : phase[b] = "live" /\ ~Reachable(b) =>
    \/ teardowns[b] > 0 /\ ~HasCdp(engine[b]) /\ engine[b] # "safari"
    \/ \E a \in Browsers \ {b} : owner[a] = owner[b] /\ teardowns[a] > 1

\* While the operator did not enable human-gate-override, every session
\* registered or being created under a name that held ask-human when it last
\* closed holds it too, whoever created it and with whatever arguments.
HoldRespected ==
  ~Override => \A b \in Browsers :
    held[owner[b]] # NotHeld /\ (Running(b) \/ entries[owner[b]] = b) => asks[b]

\* ... and the record itself is never lost: no sequence of closes and reopens
\* makes the registry forget that the name held ask-human.
HoldNotForgotten ==
  [][~Override => \A i \in Ids : held[i] # NotHeld => held'[i] # NotHeld]_vars

\* A grant pre-approves only actions of the session whose human gave it.
GrantNotInherited ==
  \A c \in Calls : blessed[c] # None => blessed[c] = cur[c]

\* Two browsers are never up in one profile directory, and none gets as far as
\* meeting another there: the second is refused by name before it launches.
NeverClashes ==
  \A b \in Browsers :
    /\ phase[b] # "clashed"
    /\ Up(b) /\ place[b] # NoProfile => \A a \in Browsers \ {b} : Up(a) => place[a] # place[b]

\* Every registered session can be watched: the live-view hub has its source.
LiveHasSource == \A i \in Ids : entries[i] # None => sources[i] = entries[i]

\* An open_session that asks for ask-human and answers ok got it.
OpenHonoursPolicy ==
  ~Override => \A c \in Calls :
    pc[c] = "using" /\ asked[c] = "ask" => asks[cur[c]]

\* Every caller of get() gets its answer, and the name is released, whether
\* the creation succeeds or not.
CallersAnswered ==
  /\ \A c \in Calls : pc[c] = "waiting" ~> pc[c] # "waiting"
  /\ \A i \in Ids : creating[i] # None ~> creating[i] = None

\* Every close ends, and the browser it closes with it.  Holds on Chromium and
\* Safari, where no step of a teardown waits for another call.
ClosesEnd ==
  \A b \in Browsers : teardowns[b] > 0 ~> phase[b] = "closed"
=============================================================================

# A TLA+ model of browxai

browxai is an MCP server that drives browsers. An agent calls tools; the server opens *sessions*
(a browser, or a tab of an attached one), acts in them, and for some actions asks a human first.
All of it is one Node.js process: one event loop, no threads. What is hard about it is therefore
not memory but *awaits*: between two of them a handler runs alone, and at each of them any other
tool call, timer, socket event or browser event may come first.

This directory holds TLA+ modules of the parts in which that matters, configurations that check
them with TLC, and proofs checked with TLAPS. Paths below are relative to `src/src/` unless they
start with `docs/`.

- [The system](#the-system)
- [The modules](#the-modules)
- [The runs](#the-runs)
- [What is proved](#what-is-proved)
- [Where code and documents disagree](#where-code-and-documents-disagree)
- [What is not modelled](#what-is-not-modelled)
- [Plan](#plan)
- [Running it](#running-it)

## The system

| Part | State it keeps | Operations | What is hard |
|---|---|---|---|
| session registry (`session/registry.ts`, `tools/session-registry.ts`, `tools/session-lifecycle-tools.ts`) | `entries`, `creating`, `held` by session id | `get`, `close`, `closeMatching`, `closeAll`; the factory (launch, wire, register) and the teardown | two first calls for a name; a failed launch; a name reopened while the old teardown awaits; a bulk close whose victims change under it |
| ask-human guard (`tools/ask-human-gate.ts`, `policy/ask-human-guard.ts`) | the record of what a name (and a profile directory) held | reopen gate, setters' gate | every path on which a session may be reopened must ask it |
| approvals (`policy/confirm.ts`) | session grants by session id, each with an expiry | confirm, grant, revoke | an answer that comes after the session closed; a grant that outlives its session |
| profile guard (`session/profile-guard.ts`) | none (reads the live sessions and Chrome's lock file) | refuse an open on a live profile | two opens in flight |
| operator channel (`helper/operator-channel.ts`, `-frames.ts`, `-protocol.ts`) | link state, socket, pending requests, timers | `ask`, `close`; socket events; handshake, redial and request timers | drops, redials, joined requests, an unproven listener, limits |
| human bridge (`helper/bridge.ts`) | pages with a channel, the contexts known in each, CDP sessions, waiters with their tickets | `attach`, wiring of a page, `awaitHuman`, `awaitOperator`, `onSignal`, `detach` | wiring a page takes four awaits, in any of which it navigates, closes or the session ends; in a shared browser only the session's own pages may be listened on; an answer may come late |
| live view (`helper/operator-view-hub.ts`, `-screencast.ts`) | `#sources`, `#streams`, one promise chain per session | `register`, `unregister`, `view.start`, `view.stop`, ticks | starts, stops, closes, drops and width changes overlap; the browser answers late |
| attached-target pool (`session/attach-pool.ts`, `byob-attach.ts`, `attach-endpoint.ts`) | one process-wide table of leases, a chain of acquisitions per endpoint, connections with a count | acquire, touch, release | enumerate-then-claim spans an await; leases go idle and are reclaimed; the table knows names only |
| wedge detection (`session/wedge.ts`) | consecutive timeouts per entry | record | a late outcome of a closed session |
| extensions rebuild (`tools/extensions-tools.ts`, `tools/extensions-rebuild.ts`) | the list of loaded extensions; replaces an entry's browser and bridge in place | install, reload, uninstall | the calls overlap, a close overlaps them, and a launch or a wiring fails after the old browser is gone |
| replay log (`replay/log.ts`) | the lines not yet flushed, a promise chain of writes, counters, caps | `append`, `flush`, `close` | the disk is slow or fails while events go on; counters must match what is held; a cap is final |
| replay session (`replay/session.ts`, `sources.ts`, `session-network.ts`) | the current log, its paths, subscriptions, body fetches | `start`, `end`, `abort`, the sources | a close of the session overlaps either; sources fail to attach; bodies are fetched while the log closes; plaintext must not stay on disk |
| plugins (`plugin/runtime.ts`, `validate.ts`, `depgraph.ts`, `call-graph.ts`, `tools/plugin-runtime.ts`) | the load order, closures, records, live tools | validate, find cycles, sort, load; `registerTool`, `callTool` | failures at every stage; a plugin registers and calls at any later time |
| file picker (`session/fs-picker-*.ts`) behind the binding guard (`session/binding-guard.ts`) | the policy, staged answers, write targets by handle; per page and per frame, buckets of tokens, and the decisions in flight | `set_fs_picker_policy`, `fs_picker_respond`, the bindings a page calls to pick and to write | a call over budget is dropped without an answer, in the middle of a file as well; a decision waits for a human; one frame must not use up what the others need |
| artifacts (`session/artifacts.ts`) | a directory per session | write, clear | cleared under a reopened name |
| page monitors, substrates, tools, batch, configuration, secrets, transport, SDK, CLI, engines | buffers, tables, files | one request, one effect each | mostly data; see [What is not modelled](#what-is-not-modelled) |

How they interact. A tool call resolves its session with `registry.get`, which creates it if
nobody did; the factory asks the ask-human record and the profile guard, launches, wires, and
registers the browser with the live view. A call that needs a human goes through the session's
bridge to the operator channel; the answer may leave a grant with approvals. Closing removes the
name at once and then runs the teardown, step by step with awaits between: bridge, live view,
grants, browser (for an attached session: its lease). *The name is free from the first of these steps
on*, while approvals, live view, lease table and artifacts are keyed by the name. Most of what the
runs found is this one fact.

What makes each correct, in short. Registry: one browser per name; nothing hands out a closing
session; every browser stays within reach of a close; every close ends. (The last two have exceptions in the code, which
the model names.) Ask-human: no sequence of
closes and reopens ends a hold. Approvals: a grant ends with its session. Channel: a request settles once, with a decision of a
daemon that proved itself or a refusal; limits hold and no class starves another; the link never
hangs. Live view: no stream outlives its session or connection, no page encodes for nobody, the
daemon's screen ends up right. Pool: one tab, one holder; the operator's tabs survive. Bridge: it
listens on its own pages only, and a prompt is answered by a human with its ticket. Log: bounded memory,
honest accounts, events in order. Recording: no plaintext and no listener left behind, artifacts
whole. Rebuild: no browser without an owner, a list that is true. File picker: a file is what was written or the page is told it is not;
no frame starves another. Plugins: dependencies first, nobody
takes a name or calls a tool that is not his to take or call.

## The modules

| Module | Models | Extends / instances |
|---|---|---|
| `SessionRegistry` | registry, factory, teardown, ask-human record, profile guard, session grants | |
| `SessionRegistryProofs` | theorems about it | `SessionRegistry`, `TLAPS` |
| `HumanAnswer` | what a caller that asks a human is promised (abstract) | |
| `OperatorChannel` | the channel and the bridges that use it | instances `HumanAnswer` as `Human` |
| `OperatorChannelProofs` | theorems about it | `OperatorChannel`, `FiniteSetTheorems`, `TLAPS` |
| `HumanBridge` | the DevTools half of the bridge | instances `HumanAnswer` as `Answer` |
| `HumanBridgeProofs` | theorems about it | `HumanBridge`, `SequenceTheorems`, `TLAPS` |
| `LiveView` | the hub, its chains, the screencast commands | |
| `LiveViewProofs` | theorems about it | `LiveView`, `TLAPS` |
| `AttachPool` | leases, acquisitions, calls and releases of attached sessions | |
| `AttachPoolProofs` | theorems about it | `AttachPool`, `TLAPS` |
| `CaptureStream` | what a log of events promises (abstract) | |
| `ReplayLog` | the replay log | instances `CaptureStream` as `Stream` |
| `ReplaySession` | start, end and abandonment of a recording, over a log reduced to its states | |
| `ReplayProofs` | theorems about the log and about the recording | `ReplayLog`, `ReplaySession`, `SequenceTheorems`, `WellFoundedInduction`, `TLAPS` |
| `ExtensionsRebuild` | the extension tools, the rebuild and a close that overlaps it | |
| `FilePicker` | the save picker, its writes, and the budgets they sit behind | |
| `FilePickerProofs` | theorems about it | `FilePicker`, `FiniteSetTheorems`, `TLAPS` |
| `DepGraph` | the dependency graph and `findCycles`, step by step | |
| `PluginRuntime` | validation, search for cycles, sort, loading and calls of plugins | extends `DepGraph` |
| `AddOnProofs` | theorems about it and about `ExtensionsRebuild` | `ExtensionsRebuild`, `PluginRuntime`, `FiniteSetTheorems`, `SequenceTheorems`, `WellFoundedInduction`, `TLAPS` |
| `MC*` | constants for TLC | the module they name |

Conventions. An action is the code between two awaits, with all it calls. Something that "may
happen at any time" in the code (a timer, a socket event, the operator) is an action guarded only
by what the code has armed. Time is not counted: an armed timer may fire. A definition named for
what it leaves out (`RejectKeepingCreation`, `AnyTurn`, `ProofUnchecked`...) is a broken variant of the
definition below it; nothing in `Next` uses it, and it exists to show that a property notices.

**`SessionRegistry`.** `entries`, `creating`, `held` are the maps of the class of that name;
`sources` and `grants` are what live view and approvals file under a name. A *browser* is one run
of the factory; its `phase` goes unused, launching, wiring, live, closed, or ends in failed or
clashed (Chrome itself refused the profile directory). A *call* is a tool call: `Existing`, `Join`
and `Create` are the three exits of `get`; `ProfileFree` is the profile guard, which sees the registered sessions and, on
disk, the lock of a Chrome only (`HoldsLock`); `Launched`, `Opened` and the failures are the factory; `Close`,
`CloseMatching` and `NextVictim` begin teardowns, and the steps that follow are the teardown's
awaits in its order. `HumanApproves`, `PreApproved` and `GrantExpires` are the grants. Ask-human is one
policy, held or not; the default session's policies come with `Override = FALSE` from the server's
configuration, as in `inheritHeld`.

**`OperatorChannel`.** Every handler of the link runs without an await, so each is one action:
`AskRefused`, `AskJoins`, `AskQueued` are the three exits of `ask`; `Timeout`, `Detach`, `Close`
settle from this side; `Connect`, `HandshakeTimeout`, `SockClose` and the `On...` frames are the
link. `peer` says whether the listener knows the token; it may send anything, but can name only
requests it was sent, as their ids are random, and can prove the token only if it knows it.

**`LiveView`.** One chain per session (`chain`, `running`), the hub's maps (`source`, `stream`),
each stream's state (`st`), and for each browser the screencast commands sent and unanswered
(`cdp`) and what it is casting. Frames, acks and levels are abstracted to the two decisions they
cause: a stall and a width change. The streams of the hub are numbered 1 to `MaxStarts`; `Create` names that
bound, which no run of it meets, as a start makes at most one stream and there are `MaxStarts` starts.

**`AttachPool`.** The lease table by name (`leased`, `owned`, `stale`), the endpoint's chain
(`queue`), what the running acquisition saw leased (`taken`), and the tabs. A session of the module
is one opening of a name on one server, so that an old opening's release and a new one's claim can
overlap. `Touch` is `touchAttachLease`.

**`HumanBridge`.** `wire` says where `wirePage` is for a page: asking for its opener, connecting,
installing the world, waiting for the last command. `cdp`, `world`, `channels`, `worlds` are what it
has of each page; `events` are the CDP events on their way, in order per page. A ticket is the prompt that
drew it. `root` is the leased tab of a shared browser. What the page's own scripts do is absent, as
they cannot reach an isolated world; extensions can make one of its name, and do (`ExtensionWorld`).

**`ReplayLog`.** The four exits of `append` that count an event (`AfterCap`, `Trip`, `Drop`, `Accept`),
`flush` inside them, and a disk that ends each write well, with an error, or short. An event is its
size and its number. `close` is its first caller's; the second is in `ReplaySession`.

**`ReplaySession`.** Its specification is `RecordSpec`; its names differ from those of `ReplayLog`, so that one
module can prove things of both. A recording is named after the `start` that made it. The fields of the class are
`current`, `path`, `closed`, `subs`, `dom`, `tracked`; `raced` is history: the starts whose sources were being attached
when the session's teardown began; `taps` and `doms` are what really listens in the
page, `jsonl` and `artifacts` the files. `Overlaps` says which calls an agent does not hold back while a
start is unanswered; the run has none, and the table of disagreements says what the others do. Closes
always overlap an `end`.

**`ExtensionsRebuild`.** A browser is named after the call that launched it. Each call goes from
`Start` (list, flags, bridge) by way of `CloseOld` and `Launch` to `Splice`; `LaunchFails` and
`WiringFails` roll back the list as `applyInstall` does. Chromium refuses a second browser on a profile, so a
launch waits for none or fails. The code swallows a close of the old browser that rejects (`extensions-rebuild.ts:76`) and takes
the browser to have ended; `CloseOld` takes it so too. `overlapped` is history: whether calls ever ran at once.

**`FilePicker`.** A bucket is its level (`page`, `share`, `replies`, `writes`); the code computes what time added
at the next call, here `Tick` adds it as time passes, which comes to the same. Each exit of the guard's
`wrap` is an action (`PickShed`, `WriteShed`, or the handler), and so is each exit of the two handlers. `Frames` are the
frames of the page. History: `callers` are the frames that called since the page's bucket was last full, `saved` the
closes the page was told had succeeded, `zeros` the size it last truncated a file to, and `sent` what it sent through a handle since
then and before it first closed it. What comes after a close (a second writable of the same file) is acknowledged and goes
nowhere: `WriteIgnored`. `Truncate` replaces the whole file by zeros, as the code does. `Spoilt` marks what no promise covers: Blobs,
disk errors, and a file that two handles write to.

**`PluginRuntime`.** One action per stage of startup (`Validate`, `Search` step by step, `Searched`, `Sort` plugin
by plugin, `Sorted`, `Skip`, `Begin`, `LoadOK`, `LoadFail`, `Serve`), then registrations at any time. Calls change
nothing, so they are a predicate, `MayCall`. What the search found decides whether startup goes on, as in the code;
`InCycle` is what a cycle is, by reachability, and only properties use it. Its specification is `PluginSpec`, with
names of its own so that one module can prove of it and of `ExtensionsRebuild`.

**`DepGraph`.** Tarjan's search as `findCycles` runs it, with its variables. The code recurses; here `calls` is the stack
of the calls of `strongconnect` that run, each with the successors it has still to look at, and a step is one turn
of a loop: `SearchFrom` (the loop over all nodes), `Descend` and `LookAt` (the loop over successors, to a node without
a number or with one), `Return` (the end of a call: the component is popped if it is complete, and the caller's low
link updated). Numbers are one more than the code's, so that 0 is none. Nodes and successors are taken in any order,
which includes the code's.

## The runs

All configurations set `CHECK_DEADLOCK FALSE`: the systems may really stop, because the channel, log or
session may be closed for good, or because every browser, call or opening the bounds allow has been used and
the clients ask for nothing more. Symmetry is used in `registry_bulk` (calls) and `file_picker` (frames), which check no liveness.

| Run | Instance | Shows |
|---|---|---|
| `registry_name` | one id, one profile, two calls, two browsers, Chromium and Firefox, bulk closes of one | grants end with their browser; a browser is lost only if its teardown threw; holds are respected and not forgotten; callers are answered |
| `registry_bulk` | two ids, two calls, three browsers, bulk closes of two | one browser per name and nothing closing is handed out, though bulk closes come to sessions that were closed and reopened meanwhile; a browser is lost only to one of these |
| `channel` | three asks and two bridges of two sessions, one request to a class and to a session | no starvation, the daemon's screen in step, proof before requests, decisions by a proven daemon only; the channel implements `HumanAnswer`; handshakes and redials end |
| `view_streams` | one session, two browsers, three starts, two queued, one width change | no stream outlives connection or session, no leak, no dead stream shown, closes get their turn |
| `attach_leases` | three openings of two names, three tabs, one of them the operator's, two leases | no tab has two holders; no two sessions work on one tab; every acquisition ends |
| `human_bridge` | two pages, two prompts, one navigation, shared and own browsers | only own pages are listened on; answers are a human's and land; every prompt settles once |
| `replay_log` | eight events of sizes 1 and 4, both caps and a window of six bytes | the window, the accounts, the statistics; the log implements `CaptureStream` |
| `replay_session` | two starts, two ends, a close that overlaps an end | no plaintext left, and no listener but of a start that a close overtakes; whole artifacts; calls end |
| `replay_end_stuck` | the same | *violation*: a failed `end` leaves the session stuck |
| `rebuild` | three calls of the three tools over two extensions, and a close, overlapping freely | strays come from failures; an agent is told the truth |
| `file_picker` | a page of three frames, two handles on one file, two chunks, truncations to none and one, one prompt, one staged answer, bursts of one or two calls | what is saved is whole or known not to be; of two frames that call, neither uses up the other's share |
| `plugin_start` | every graph of three plugins with up to two dependencies each, and a chain with any combination of faults | load order, cycles, calls and namespaces; what Tarjan's search finds, in every order it may go, against reachability |

**Bounds.** These are the only ones: `MaxBrowsers`, `MaxVictims`, `MaxSources`, `MaxStarts`,
`MaxQueue`, `MaxRetunes`, `MaxNavigations`, `MaxEvents` (of the bridge), `Offers`, `MaxHandles`, `MaxChunks`,
`MaxSize`, `MaxStaged`, and the sets of the instances. `MaxStreams`, `MaxPending`, the class and session limits, `MaxLeases`, the caps and window of the log and the
budgets of the picker are
parameters of the code, made small so that they are reached. Two calls suffice for
every race between a close and what it overtakes, because the code keys everything by name and a
name has at most one live and one closing session that matter; two browsers are then an old and a
reopened session, and a third is what a bulk close that comes late takes away. `registry_name` sets `MaxVictims` to 1, under which
`HoldNotForgotten` holds: with 2 it does not, as told below. It has an engine whose teardown throws, and `registry_bulk` has the
closes that go stale, so `NoBrowserOrphaned` is met by both of the ways to lose a browser that it names. The safety properties of
`registry_bulk` hold for every bound, and are proved. Three asks of two sessions fill a class and a
session, with one more to refuse, join or let in; the joining, the resending and the answers need no more than two. Three starts are a start, its replacement, and one after a close or a drop.
Three openings are two of one name and a rival. Two pages are an opener and its popup; one navigation
is enough for a call to fall before, between or after the events it causes. Eight events of two sizes
reach the size cap, the event cap, and the window with one and with two chunks in flight. Two recordings are
one left behind and its successor. Three extension calls are two that overlap and one before or after.
Two handles on a file are a save and its rival or successor, and two chunks are enough for a hole: the first
dropped, the second written. One piece of zeros is a truncation that destroys what was written; three frames are the
two of the property and one that must not call.
Three plugins are the least with a cycle that is not the whole graph.

**Fairness.** The event loop runs what is ready (`Continue`, `Step`). Browser launches and wiring
settle, because Playwright bounds them (`Factory`). Armed timers fire, and a destroyed socket emits its
close (`Expires`, `TimeOut`, `Dials`, `HandshakeTimeout`, `Drops`; every caller of `awaitSignal` gives a
timeout). A browser answers or refuses what it was sent (`Respond`, the steps of an acquisition, the sources of a
recording), and the disk ends its writes. Nothing is assumed of clients, of humans, or of the daemon: a
listener may stay silent for ever. Fairness of `Dials` is used by the second half of `LinkRecovers`
alone. `registry_bulk`, `replay_log`, `rebuild`, `plugin_start` and `file_picker` check safety only and state none.

**Each property has a mutant** in `PROJECT.json`: a variant of a modelled definition, as a plausible
slip in the code would give, under which TLC finds the property violated.

## What is proved

`SessionRegistryProofs`, for every set of ids, profiles, calls and engines, and every bound:

- `RegistryTypeOK`: types.
- `OneBrowserPerName`: `SingleCreation`.
- `ClosingIsFinal`: `NeverHandsOutClosing`.
- `GrantsDie`: `GrantEndsWithBrowser`.
- `HoldsAreRespected`: `HoldRespected`, and `HoldsAreRemembered`: `HoldNotForgotten`, of the behaviours in which every
  close closes what its name has registered (`ClosesFresh`).
- `NoneOrphaned`: `NoBrowserOrphaned`, of every behaviour: a live browser that nobody can close lost its own teardown to
  `requireCdp`, or its entry to a second teardown of an earlier session of its name, and to nothing else. (`AllAreReachable` says
  that under `ClosesFresh`, on Chromium and Safari, none is lost at all.)
- `SingleClosesAreFresh`: if no call closes more than one session, every behaviour is such.
- `TurnsNeverClash`: `NeverClashes`, of behaviours in which a factory run starts on a directory only while no other is
  under way there (`LaunchesApart`), *assuming that the engines are Chromium and Safari*: then whatever is up on a directory
  is a Chrome (`PlacesOfChrome`), whose lock the guard reads. A Firefox or WebKit that outlives its entry leaves none, and with one
  the property is false.
- `LiveKeepSources`: `LiveHasSource`, where a name is opened anew only once every earlier teardown of it has unregistered
  (`UnregistersFirst`), and under `ClosesFresh`.
- `OpensAloneAreHonoured`: `OpenHonoursPolicy`, where no open that asks for ask-human joins a creation (`AsksAlone`).
- `RestedNamesInheritNothing`: `GrantNotInherited`, where a name is opened anew only once no call is busy with what it had
  (`OpensAtRest`), under `ClosesFresh`, on Chromium and Safari.

None of these is inductive alone. A grant's end needs that the bridge detaches before the
grants are dropped and that they are dropped before the browser closes, for whatever call is at
that step (`GrantsSound`); that needs to know what a call's browser can be (`CallsSound`) and that
a factory run was never torn down (`FactorySound`). The inductive invariant `IInv` is the types,
the three properties and these three; the proof has a lemma per group of actions (tool calls, factory,
teardown, expiry) and conjunct. The only assumptions are those `SessionRegistry` states of its
constants: there is an id, `NoProfile` is no profile, the record of "not held" is no directory, the engines are
engines.

The last four are about properties that are false of the code (the table below), so no run lists them. Each theorem says
what the property depends on: an order of calls that the code does not impose and the counterexample breaks. All else is free:
other names, failures, leaks, bulk closes. They need that a launch has its directory for itself (`PlacesApart`); that a name
being torn down has no entry and no run (`TeardownsBare`); that a waiting open has its policy already (`AskersWait`); and
that all calls busy with a name are busy with one browser, which is the only one registered, created or granted under it
(`OneAtATime`). The last also needs `AllAreReachable`, for a grant left when the name is opened anew would be of a
browser nobody closes. TLC checked these invariants, too, on two names, two calls and two browsers, and the last on three
calls and three browsers, under the hypothesis.

`ClosesFresh` says of a behaviour what the code does not check: that a bulk close finds each victim as it was when it
chose it. Where it does not, `HoldNotForgotten` is false and a browser may be lost (the table below), so
such a hypothesis is needed, and `SingleClosesAreFresh` says who need not think about it: whoever
closes one session at a time. A hold is respected because a creation reads the record in the same turn as it begins, and
the record cannot be written while a browser of that name runs: `BeginClose` is the only thing that writes it, and
what it closes is what is registered, of which there is one. `NoneOrphaned` needs no such hypothesis, because it says what
else has happened when a browser is out of reach: its invariant (`Accounted`) adds that a victim of a bulk close is registered,
torn down, or lost itself, so that whoever deletes an entry that is not its own tears down for the second time.

`AttachPoolProofs`, for every set of sessions, names, servers and tabs, and every ceiling:

- `PoolTypeOK`: types. (Not immediate: that a close can only close a tab needs `LiveHasTab`.)
- `LeasesAreExclusive`: `ExclusiveLeases`, several servers included.
- `PagesAreNotShared`: `NeverSharedPage`, *assuming that each name belongs to one server*. Without
  that assumption it is false (the table below).

`ExclusiveLeases` holds because only the head of the chain is between enumerating and claiming
(`Serialised`), because every lease there is at the claim was seen when it enumerated, as leases
meanwhile only go (`SeenTaken`), and because a tab that is only now created has no lease
(`LeasedIsBorn`). `NeverSharedPage` follows with `OnePerName` and `LiveHasTab`.

`OperatorChannelProofs`, for every set of asks, bridges and texts, and all limits, whatever the listener
does:

- `ChannelTypeOK`: types.
- `RequestsWait`: `RequestsAfterProof`. `LinkNeverStuck`: `NeverStuck`.
- `PromptsOnce`: `OnePromptOut`. `CloseIsFinal`: `ClosedRefusesAll`.
- `ChannelInSync`: `DaemonInSync`. `DaemonDecides`: `DecidedByDaemon`.
- `SharesHold`: `WithinLimits`. `NobodyStarves`: `NoStarvation`.
- `ImplementsHuman`: the channel implements the safety part of `HumanAnswer`.

`RequestsAfterProof` needs that past the hello the listener is the daemon (`PastHello`), which holds as the
state of the link and the listener change together. `OnePromptOut` is inductive once it is known that
whoever has not joined is his own first (`FirstOwn`); every way of settling takes a waiting ask together with all
that joined it (`SettleClosed`, `DetachClosed`). The daemon's screen needs that it is empty until
`ready`, that nothing unasked is on it, and that what a proven daemon was sent and still waits is
`known` (`CardsSound`); from these follows also who decides. `NoStarvation` is `WithinLimits` and the assumption
that the class limits add up to no more than the total, as `CLASS_LIMIT` and `MAX_PENDING` do.

`HumanBridgeProofs`, for every set of pages and prompts, and every bound:

- `TypeCorrect`: types.
- `FamilyOnly`: `OnlyOwnPages`, by way of what the bridge has begun to wire, which is closed under being opened by it.
- `DetachIsFinal`: `DetachFreesCallers`.
- `InPersonOnly`: `AnsweredInPerson`.
- `AnswersLand`: `GoodAnswersLand`.
- `ImplementsAnswer`: the bridge implements the safety part of `HumanAnswer`.

That an answer lands is about the order of what is on its way. `ChannelSound` says of every page's queue that before a
call from a document comes the making of its world, with no clearing between, or the bridge knows the world by then;
and that the world of the current document is known by the end of the queue, which is what the next call needs. Two
lemmas carry it over an event more at the end and one less at the front. Only the coming of an event takes from the
queue of a page that keeps its CDP session, so what the head of the queue says decides.

`LiveViewProofs`, for any number of sessions, browsers, starts and width changes, and any limit of streams:

- `ViewTypeOK`: types.
- `NothingForNobody`: `NothingStreamsForNobody`.
- `EndsTold`: `EndsAreTold`.
- `NoScreencastLeaks`: `NoLeakedScreencast`.

These are about what is in three places at once: the hub's maps, the head of a chain that waits, and commands a browser
has not answered. The invariant `IInv` gives each its part. `StreamsSound`: a stream that was not ended is the one
its session has, with a handle unless the head of the chain waits for it. `ChainsSound`: what a head waits for it waits for
under the operation that began it, and a stop or a replacement has taken the stream out of the map. `QueuesSound`:
why each command was sent, what its stream is then, and that one stream has one command on its way but for those that
end it. `CastsSound`: a browser that casts for an ended stream has a stop queued. With these, `DownSound`,
`TellsSound` and `ClosesSound` are one each of: nothing starts without a connection; a stream shown and gone
has its end on the way; a closed session's stream has its `unregister` queued. At rest the queues and chains are empty,
which turns each into the property. The limit of streams plays no part, and no theorem states it: it does not hold
(`StreamLimit` below).

`ReplayProofs`, for every set of sizes, all caps and every window of the log:

- `LogTypeOK`: types.
- `LimitsHold`: `WithinWindow` and `WithinCaps`.
- `AllCounted`: `EveryEventCounted`.
- `CapsAreFinal`: `CapIsFinal`.
- `WindowHolds`: `WindowBounded`.
- `StatsHold`: `StatsTrue`.
- `ImplementsStream`: the log implements `CaptureStream`.

The window and the statistics compare counters with the bytes and lines that are really held or written, and those are
computed by recursion over sequences. `Exact` says that each counter is what the recursion gives, `FileSound` that
what was written and what is held are in order and, until a write fails or is short, all that was accepted. What they
need of the recursion (the bytes of a concatenation are the sum) is proved with sets: the set of lengths at which it fails
has, if there is one, a least member, by `WFMin` and `NatLessThanWellFounded`.

and, for any number of starts and ends of a recording, whatever fails:

- `RecordTypesHold`: types, whatever overlaps.
- `SourcesHold`: `SourcesFirst`, before, during and after a close of the session, and `ArtifactsHold`: `ArtifactsWhole`, *assuming that an agent holds back its other
  starts and ends while a start is unanswered*. A close may come at any time.
- `NoTraceHolds`: `NoPlaintextTrace`, *assuming that it holds back a close as well while a log is being opened*.

Without these assumptions each is false: two starts, or a start and an end, that overlap leave a log nobody closes before
its sources, and any overlap leaves one on disk (the table below). While the session is open, one recording is listened to
(`TapsSound`), bodies are fetched for an open log only (`FetchSound`), and each running call has come as far as its step
says (`StepsSound`); a recording without a log has left no trace (`NewSound`). A teardown breaks most of these on
purpose, so they are claimed of an open session (`OpenSound`), and `PackedSound` carries what was packed by then past the
close. `SourcesFirst` is not one of these: what it needs past the beginning of a teardown is that only a call
that has yet to detach, or a start in `raced`, still has anything attached to a log being shut (`LateInv`). `NoTraceHolds` adds who removes each file that is there: the recording of now, or a call that is past the closing
of its log (`PlainSound`).

`AddOnProofs`, for any extensions and any number of calls that overlap in any way:

- `BridgeListens`: `CanAsk`. Only bridges that were on the entry are ever detached, and a detached one of a live
  browser belongs to a call that goes on to close that browser (`BridgeSound`).
- `OnlyFailuresStray`: `StraysHaveFailed`. A browser being wired is the only one on the profile
  (`BrowsersSound`).
- `AgentsAreToldTheTruth`: `TellsTheTruth` (`TruthSound`).

and of `PluginRuntime`, for every list of plugins in any order, whatever each manifest says, and any order in which
they load, fail and register:

- `PluginTypesHold`: types.
- `CyclesAreFound`: `SearchFindsCycles`.
- `LoadOrderHolds`: `LoadOrderSound`.
- `PluginsStayApart`: `PluginsKeepApart`.

`CyclesAreFound` is the correctness of Tarjan's algorithm as this code has it, for every finite graph without edges to
oneself and every order of nodes and successors. `SearchSound` is its invariant, in six parts. Numbers ascend on the
stack (`NumbersSound`), and so do the calls that run (`CallsStacked`). From a node whose component is known one gets
only to such (`EdgesSound`). Each node on the stack leads to a running one not above it, and a running one to all
above (`StackSound`). A low link is the number of a node on the stack that is reached, and no edge that was looked at from
the call's node, or from those it is done with, ends lower on the stack (`LowSound`). What was found are the cycles among
the nodes that are settled (`FoundSound`). So if a call ends with its low link lower than its number, its node leads
to a running one further down and its component is not complete; if they are equal, no edge leads out of
what is above but to settled nodes, all of it leads to the node and is led to, and that is the component
(`RestIsClosed`, `RestIsStrong`). At the end nothing runs, so nothing is on the stack, and all is settled.

The sort is right because each count is the number of dependencies not yet placed and what is ready is what has none
missing (`OrderSound`). That it places every plugin when there is no cycle takes a measure: of those left, one that reaches
the fewest has a dependency left, which reaches fewer still. What a plugin reaches is computed in as many rounds as
there are plugins, and is closed because a round either adds a plugin or changes nothing. When loading starts, the
closures are what the graph reaches, by the order in which they were filled (`LoadSound`), and the graph is
part of what the manifests declare. Namespaces stay apart because validation refuses all but the first. The assumptions
are those `PluginRuntime` states of its constants: finitely many plugins, each declared once, in an order.

`FilePickerProofs`, for any paths and prompts, any number of handles and chunks, and any budgets of which the
page's is at least two frames':

- `PickerTypeOK`: types.
- `FramesKeepTheirShare`: `FrameShare`, for any number of frames: while no more than two call. What the page has lost
  since its bucket was full is no more than what those two have lost of theirs (`SharesCovered`), as a frame is charged whenever
  the page is, and refilled no faster than half of it. Of three frames the page's budget cannot bear the shares, nor does it mean to
  (`session/binding-guard.test.ts:255`).
- `SlotsAreOwed`: `SlotsOwed`.
- `SavesAreWhole`: `SavedIsWhole`. The invariant `FilesSound` says of every handle what its file holds, that nothing
  was sent before the first write unless dropped, and that a close that succeeded is the last that is done to it. It holds of
  truncations to any size, because it says what they leave: zeros, not what was written (`TruncationKeeps` below).

Only model-checked: all liveness (`CallersAnswered`, the fair part of `SettlesOnce` and
`AnswerSpec`, `LinkRecovers`, `UnregisterEnds`, `AcquisitionsEnd`, `CallsEnd`), which the prover cannot
do under fairness, nor anything with ENABLED. Every safety invariant that a run checks is proved. No run lists a type
invariant: they are proved.

## Where code and documents disagree

One run, `replay_end_stuck`, ends in a violation of what the repository says of itself, and is the finding of
`PROJECT.json`: `EndLeavesIdle`. `end` closes the log before the `try` whose `finally` resets the
session. If a write of the log failed, `close` throws there, the session keeps its closed log, and
`start` refuses for ever; the comment at `replay/session.ts:254` promises the opposite.

Others were met while modelling. Each is stated in its module and no run lists it; to see one, put
it into the configuration named, with the changes given.

| Definition | Configuration | What happens |
|---|---|---|
| `ClosesEnd`, `AllReachable` (of the proofs: nothing live is out of reach) | `RegistryName` | `requireCdp` throws in the teardown of an engine that has no CDP handle and is not Safari; the browser is never closed (`tools/session-registry.ts:529`) |
| `GrantNotInherited` | `RegistryName` with `Profiles = {}`, `DefaultPlace = NoProfile` | a session reopened before the old teardown revokes is approved by the old one's grant (`session/registry.ts:161`; `policy/confirm.ts:90`) |
| `LiveHasSource` | the same | an old teardown unregisters the new session's live view (`tools/session-registry.ts:551`; the comment at 514) |
| `OpenHonoursPolicy` | the same | an open that joins a creation answers ok with the creator's policy (`session/registry.ts:93`) |
| `AllReachable`; `HoldNotForgotten` | `RegistryBulk` | a bulk close deletes the entry of a session reopened since it chose its victims, without closing it (`session/registry.ts:184`), and a stale victim's record replaces the record of a later session (:183; :72) |
| `NeverClashes` | `RegistryBulk` with `Profiles = {p}`, `DefaultPlace = p`, `MaxBrowsers = 2` | two opens in flight pass the profile guard together (`tools/session-registry.ts:304`; `session/profile-guard.ts:5`); with Firefox, one is launched beside another whose teardown threw or whose wiring failed, as the guard reads Chrome's lock only (`session/profile-guard.ts:88`) |
| `NothingBeforeProof` | `Channel` | a request that ends during the handshake sends `resolved` to an unproven listener (`helper/operator-channel.ts:220`; `docs/threat-model.md:347`) |
| `DroppedStaysDropped` | `Channel` | lines behind the one that got the socket destroyed are still obeyed (`helper/operator-channel.ts:343`; `docs/threat-model.md:356`) |
| `StreamLimit` | `ViewStreams` with `Sessions <- TwoSessions`, `MaxRetunes = 0` | a replacing start gives up its place, awaits, and takes one without looking (`helper/operator-view-hub.ts:288`; `docs/threat-model.md:494`) |
| `HasScreencast` | `ViewStreams`, one source, two starts | a width change answered late stops its successor's screencast (`helper/operator-view-hub.ts:193`; :218) |
| `LivesAreTold` | `ViewStreams`, two starts, no width change | the late end of a closed session's stream is told after its successor's start (`helper/operator-view-hub.ts:345`; :65) |
| `OperatorTabsSurvive` | `PoolLeases` | the release of an overtaken close reads the new session's lease, and closes the operator's tab because that lease says `owned` (`session/attach-pool.ts:253`; :32) |
| `NeverSharedPage` | `PoolLeases` with `Servers = {"A", "B"}`, `ServerOf <- OwnServers` | the process-wide lease table cannot tell two servers' sessions of one name apart (`session/attach-pool.ts:106`; :154) |
| `DetachDropsSessions` | `BridgeAnswers` | the CDP session of a page still being wired survives `detach` (`helper/bridge.ts:268`; :233) |
| `EveryPageIsTried` | `BridgeAnswers` | a page that opens while `attach` runs is never wired (`helper/bridge.ts:145`; :156) |
| `DrainedMeansWritten` | `LogCapture` | the count of bytes a write wrote is not read: a short write loses lines and `close` counts them (`replay/log.ts:174`; :183) |
| `PackedIsCounted` | `RecordCalls` | the second to close a log gets its statistics while the first still waits for the writes, and packs what is there (`replay/log.ts:190`) |
| `NoPlaintextTrace` | `RecordCalls` with `Overlaps = {"start"}` or `{"close"}` | two starts pass the check before either has its log, or a close finds no log while one is being opened; the log that loses stays on disk, with what listens for it (`replay/session.ts:123`; :135) |
| `SourcesAlwaysFirst` | `RecordCalls` | a close that comes while a start attaches its sources detaches what is there and shuts the log, and the start goes on to attach the network's to it (`replay/session.ts:350`; :235) |
| `CloseFreesProfile` | `Restarts` | a rebuild that fails after its launch leaves a browser on the profile that no close finds (`tools/extensions-tools.ts:405`) |
| `SettledMeansWritten` | `FileSaves` | a Blob, which does not decode, and whatever the disk refuses are acknowledged as written (`session/fs-picker-attach.ts:257`; `session/fs-picker-page-script.ts:116`); so is what is written after a close (`session/fs-picker-attach.ts:182`) |
| `TruncationKeeps` | `FileSaves` | a truncation to a size writes zeros over the whole file, what lay below the size included, and the close succeeds (`session/fs-picker-attach.ts:217`) |
| `NoHalfRegistered` | `PluginStart` | a tool whose schema the host refuses is noted before, and its name stays taken (`plugin/runtime.ts:144`; `tools/plugin-runtime.ts:148`) |
| `NoDanglingDependents` | `PluginStart` | the check of dependencies is one pass, so a plugin whose dependency is removed in that pass loads (`plugin/validate.ts:211`) |

Two more are plain from the code: a namespace collision or a `register()` that throws is recorded and startup goes on, where
`docs/ai-context/plugin-runtime/lifecycle-and-namespacing.md` calls both fatal; and a failed uninstall says it
restores the entry (`tools/extensions-tools.ts:398`) but leaves it off the list.

## What is not modelled

`PROJECT.json` lists every part with its reason. In short:

- *Calls into a browser with no state on this side*: device, emulation, storage, cookies, launch
  flags, action and observation tools, engine adapters.
- *Data*: finding and ranking elements, snapshots, masking, URL and origin matching, schemas,
  formatting. No property here is about text.
- *External processes and files*: Chrome, adb, safaridriver, lock files, the host daemon. Where a
  module needs one it is an environment that may do anything the code can meet.
- *Within the modelled parts*: `closeAll` at shutdown; teardown steps that touch nothing shared;
  six ask-human policy kinds (one is modelled); the destruction of one context in the bridge; frame pacing and levels;
  redaction and the archive of a recording; package resolution, trust and lock files of plugins;
  the open and directory pickers and the record of picker calls; the connection count of an endpoint; how long a call runs against a lease's TTL.

## Plan

In order of what could go wrong. Written: `SessionRegistry`, `HumanAnswer` and `OperatorChannel`,
`AttachPool`, `HumanBridge`, `LiveView`, `ReplayLog`, `ReplaySession`, `ExtensionsRebuild`, `FilePicker` and
`PluginRuntime` with their proofs. Next:

1. `AskHumanHold`: the six policy kinds, their comparison key by key, the setters' gate, the profile hold; abstract
   specification "a hold ends only by the operator", implemented by the gates and the registry's record.
2. `ViewStream`: acks in flight, the stall timer with a clock, the level ladder; the endpoint
   connection count; wedge detection, with calls that take time.
3. Pure algorithms against reference definitions: plan and batch interpretation, configuration layers and ceiling.

## Running it

    tlc -workers 2 -config RegistryName.cfg MCSessionRegistry.tla
    tlc -workers 2 -config RegistryBulk.cfg MCSessionRegistry.tla
    tlc -workers 2 -config Channel.cfg MCOperatorChannel.tla
    tlc -workers 2 -config ViewStreams.cfg MCLiveView.tla
    tlc -workers 2 -config PoolLeases.cfg MCAttachPool.tla
    tlc -workers 2 -config BridgeAnswers.cfg HumanBridge.tla
    tlc -workers 2 -config LogCapture.cfg ReplayLog.tla
    tlc -workers 2 -config RecordCalls.cfg ReplaySession.tla
    tlc -workers 2 -config RecordStuck.cfg ReplaySession.tla
    tlc -workers 2 -config Restarts.cfg ExtensionsRebuild.tla
    tlc -workers 2 -config FileSaves.cfg MCFilePicker.tla
    tlc -workers 2 -config PluginStart.cfg MCPluginRuntime.tla

and `tlapm` on each `*Proofs.tla`. Every run ends within three minutes or so on a laptop, and each proof in less but
for `LiveViewProofs` and `ReplayProofs`, which take five.

--------------------------- MODULE PluginRuntime ---------------------------
(***************************************************************************)
(* The plugin runtime (src/plugin/runtime.ts, validate.ts, depgraph.ts and *)
(* call-graph.ts, wired by src/tools/plugin-runtime.ts): at server start   *)
(* the declared plugins are validated in stages, the dependency graph is   *)
(* checked for cycles and sorted, and each plugin's register(api) is run   *)
(* in that order.  A plugin keeps its api for the life of the server: it   *)
(* may register a tool or call one at any later time.                      *)
(*                                                                         *)
(* The plugins' own code is external: it registers what it likes when it   *)
(* likes, calls what it likes, and its register() returns or throws.       *)
(* Sorted lists of names are sets here: the code keeps them sorted, so its *)
(* first element is the least.                                             *)
(***************************************************************************)
EXTENDS Integers, DepGraph

CONSTANTS
  Rank,        \* their lexicographic order
  Declared,    \* the declared plugins, in declaration order, without repeats
  Namespaces,
  Tools,       \* the names after the namespace prefix
  Inputs       \* the assignments of manifests to plugins to start from

\* A manifest as the resolver leaves it.  fit: not absent, not invalid and of a
\* compatible apiVersion.  deps: what it declares in dependsOn, in order, and
\* whether the installed version fits the range.  caps: every capability it
\* declares is enabled.
Dependency == [on : Plugins, fits : BOOLEAN]
Manifest   == [fit : BOOLEAN, ns : Namespaces, deps : Seq(Dependency), caps : BOOLEAN]

ASSUME RankAssumption ==
  /\ Rank \in [Plugins -> Nat]
  /\ \A p, q \in Plugins : Rank[p] = Rank[q] => p = q
ASSUME DeclaredAssumption ==
  /\ Declared \in Seq(Plugins)
  /\ \A i, j \in DOMAIN Declared : Declared[i] = Declared[j] => i = j
ASSUME InputsAssumption == Inputs \subseteq [Plugins -> Manifest]

VARIABLES
  manifest,  \* plugin -> manifest; never changes
  phase,     \* where startPluginRuntime is
  waiting,   \* indegree: plugin -> dependencies the sort has not placed yet
  ready,     \* plugins the sort may place next
  order,     \* the load order so far
  closure,   \* transitiveDeps: plugin -> plugins it may call
  at,        \* how many of the order were dealt with
  begun,     \* plugins that were given their api
  records,   \* plugin -> the statuses recorded for it, one per record
  live,      \* liveTools: the tools the runtime knows, with their owners
  hosted     \* toolHandlers: the tools that can be dispatched, with their owners

sorting    == <<valid, graph, search, cycles, waiting, ready, order, closure>>
loading    == <<at, begun, records, live, hosted>>
pluginVars == <<manifest, phase, sorting, loading>>

Names   == Namespaces \X Tools            \* <namespace>.<tool>
Status  == {"loaded", "load-error", "disabled-by-dep-missing",
            "disabled-by-namespace-conflict", "disabled-by-capability-mismatch"}

PluginTypeOK ==
  /\ manifest \in [Plugins -> Manifest]
  /\ phase \in {"validate", "search", "sort", "load", "serve", "aborted"}
  /\ SearchTypeOK
  /\ waiting \in [Plugins -> Nat]
  /\ ready \subseteq Plugins
  /\ order \in Seq(Plugins)
  /\ closure \in [Plugins -> SUBSET Plugins]
  /\ at \in 0 .. Len(order)
  /\ begun \subseteq Plugins
  /\ records \in [Plugins -> Seq(Status)]
  /\ live \subseteq Names \X Plugins
  /\ hosted \subseteq Names \X Plugins

PluginInit ==
  /\ manifest \in Inputs
  /\ phase = "validate"
  /\ valid = {}
  /\ graph = [p \in Plugins |-> {}]
  /\ NoSearch /\ cycles = << >>
  /\ waiting = [p \in Plugins |-> 0]
  /\ ready = {}
  /\ order = << >>
  /\ closure = [p \in Plugins |-> {}]
  /\ at = 0
  /\ begun = {}
  /\ records = [p \in Plugins |-> << >>]
  /\ live = {}
  /\ hosted = {}

-----------------------------------------------------------------------------
(* Validation: each stage looks at what the stage before it left.  A plugin *)
(* that a stage removes gets one record.                                    *)

Place(p)  == CHOOSE i \in DOMAIN Declared : Declared[i] = p
Chosen    == {Declared[i] : i \in DOMAIN Declared}
Resolved  == {p \in Chosen : manifest[p].fit}

\* The first declared plugin owns a namespace.
Unique == {p \in Resolved : ~ \E q \in Resolved :
             Place(q) < Place(p) /\ manifest[q].ns = manifest[p].ns}

Needs(p) == {manifest[p].deps[i] : i \in DOMAIN manifest[p].deps}

\* One pass: a dependency counts as present if the stages before this one kept
\* it, even when this stage removes it.
Valid == {p \in Unique : \A d \in Needs(p) : d.on \in Unique /\ d.fits}

\* What the early stages record of a plugin; no record for one that goes on.
EarlyRecords(p) ==
  CASE p \notin Chosen   -> << >>
    [] p \in Chosen \ Resolved -> << "load-error" >>
    [] p \in Resolved \ Unique -> << "disabled-by-namespace-conflict" >>
    [] p \in Unique \ Valid    -> << "disabled-by-dep-missing" >>
    [] p \in Valid       -> << >>

-----------------------------------------------------------------------------
(* The graph of what is left.  An edge to oneself or to a plugin that is    *)
(* not left is dropped; one declared twice counts twice.                    *)

KeptAll(p) == {<<i, manifest[p].deps[i].on>> : i \in DOMAIN manifest[p].deps}
Kept(p)    == {e \in KeptAll(p) : e[2] # p /\ e[2] \in Valid}
KeptGraph  == [p \in Plugins |-> IF p \in Valid THEN Kept(p) ELSE {}]

Validate ==
  /\ phase = "validate"
  /\ valid' = Valid
  /\ graph' = KeptGraph
  /\ phase' = "search"
  /\ records' = [p \in Plugins |-> EarlyRecords(p)]
  /\ waiting' = [p \in Plugins |-> Cardinality(KeptGraph[p])]
  /\ ready' = {p \in Valid : KeptGraph[p] = {}}
  /\ UNCHANGED <<manifest, search, cycles, order, closure, at, begun, live, hosted>>

\* findCycles, step by step.
Search ==
  /\ phase = "search"
  /\ SearchStep
  /\ UNCHANGED <<manifest, phase, waiting, ready, order, closure, loading>>

\* findCycles returns.  A cycle is an error, which ends startup.
Searched ==
  /\ phase = "search"
  /\ SearchEnds
  /\ phase' = IF cycles = << >> THEN "sort" ELSE "aborted"
  /\ UNCHANGED <<manifest, waiting, ready, order, closure, loading>>

\* Broken variant: an edge declared twice is counted off once.
TimesOnce(p, q) == IF q \in Edges(graph, p) THEN 1 ELSE 0

\* How often p depends on q.
Times(p, q) == Cardinality({e \in graph[p] : e[2] = q})

\* The plugins whose last missing dependency is q.
Freed(q) == {p \in valid : waiting[p] > 0 /\ waiting[p] = Times(p, q)}

Sort ==
  /\ phase = "sort"
  /\ \E q \in ready :
       /\ \A r \in ready : Rank[q] <= Rank[r]
       /\ order' = Append(order, q)
       /\ ready' = (ready \ {q}) \cup Freed(q)
       /\ waiting' = [p \in Plugins |-> waiting[p] - Times(p, q)]
  /\ UNCHANGED <<manifest, phase, valid, graph, search, cycles, closure, loading>>

\* computeTransitiveDeps: closures of the dependencies come first in the order.
Closures ==
  LET upTo[i \in 0 .. Len(order)] ==
        IF i = 0 THEN [p \in Plugins |-> {}]
        ELSE [upTo[i - 1] EXCEPT ![order[i]] =
                UNION {{d} \cup upTo[i - 1][d] : d \in Edges(graph, order[i])}]
  IN  upTo[Len(order)]

Sorted ==
  /\ phase = "sort"
  /\ ready = {}
  /\ IF Len(order) = Cardinality(valid)
     THEN phase' = "load" /\ closure' = Closures
     ELSE phase' = "aborted" /\ UNCHANGED closure
  /\ UNCHANGED <<manifest, valid, graph, search, cycles, waiting, ready, order, loading>>

-----------------------------------------------------------------------------
(* Loading, one plugin after the other.                                     *)

Current    == order[at + 1]
Loading(p) == phase = "load" /\ at < Len(order) /\ p = Current /\ p \in begun

\* A plugin that misses a capability keeps its place in the order.
Skip ==
  /\ phase = "load"
  /\ at < Len(order)
  /\ ~ manifest[Current].caps
  /\ records' = [records EXCEPT ![Current] = Append(@, "disabled-by-capability-mismatch")]
  /\ at' = at + 1
  /\ UNCHANGED <<manifest, phase, sorting, begun, live, hosted>>

Begin ==
  /\ phase = "load"
  /\ at < Len(order)
  /\ manifest[Current].caps
  /\ begun' = begun \cup {Current}
  /\ Current \notin begun
  /\ UNCHANGED <<manifest, phase, sorting, at, records, live, hosted>>

Taken(t) == \E p \in Plugins : <<t, p>> \in live

\* api.registerTool: the prefix is the plugin's own and the name is free.  A
\* refused registration throws and changes nothing.
MayRegister(p, t) == t[1] = manifest[p].ns /\ ~ Taken(t)

RegisterTool(p, t) ==
  /\ p \in begun
  /\ MayRegister(p, t)
  /\ live' = live \cup {<<t, p>>}
  /\ hosted' = hosted \cup {<<t, p>>}
  /\ UNCHANGED <<manifest, phase, sorting, at, begun, records>>

\* The host refuses the schema after the runtime noted the tool.
RegisterMalformed(p, t) ==
  /\ p \in begun
  /\ MayRegister(p, t)
  /\ live' = live \cup {<<t, p>>}
  /\ UNCHANGED <<manifest, phase, sorting, at, begun, records, hosted>>

Finish(p, status) ==
  /\ Loading(p)
  /\ records' = [records EXCEPT ![p] = Append(@, status)]
  /\ at' = at + 1
  /\ UNCHANGED <<manifest, phase, sorting, begun, live, hosted>>

LoadOK(p)   == Finish(p, "loaded")
LoadFail(p) == Finish(p, "load-error")      \* what it registered stays

Serve ==
  /\ phase = "load"
  /\ at = Len(order)
  /\ phase' = "serve"
  /\ UNCHANGED <<manifest, sorting, loading>>

-----------------------------------------------------------------------------
(* api.callTool, open from the moment a plugin has its api: a call changes    *)
(* nothing here; its verdict is looked up when it is made.  Core tools are    *)
(* open to all.                                                               *)

\* Broken variant: a plugin may call whoever may call it.
MayCallBack(p, owner) == owner = p \/ owner \in closure[p] \/ p \in closure[owner]
MayCall(p, owner) == owner = p \/ owner \in closure[p]

PluginNext ==
  \/ Validate \/ Search \/ Searched \/ Sort \/ Sorted \/ Skip \/ Begin \/ Serve
  \/ \E p \in Plugins :
       \/ LoadOK(p) \/ LoadFail(p)
       \/ \E t \in Names : RegisterTool(p, t) \/ RegisterMalformed(p, t)

PluginSpec == PluginInit /\ [][PluginNext]_pluginVars

-----------------------------------------------------------------------------
(* Properties.                                                              *)

\* The search finds, for every graph and in whatever order it goes, exactly the
\* plugins that reach themselves, each component once and whole (findCycles).
SearchFindsCycles ==
  phase \notin {"validate", "search"} =>
    /\ UNION {cycles[i] : i \in DOMAIN cycles} = InCycle(graph)
    /\ \A i, j \in DOMAIN cycles : i # j => cycles[i] \cap cycles[j] = {}
    /\ \A i \in DOMAIN cycles : \A p \in cycles[i] :
         cycles[i] = {q \in valid : q \in Reach(graph, p) /\ p \in Reach(graph, q)}

\* A plugin is placed in the load order after everything it depends on, however
\* the graph looks, and no plugin is placed twice (topoSort).
DepsFirst ==
  /\ \A i, j \in DOMAIN order : order[i] = order[j] => i = j
  /\ \A j \in DOMAIN order : \A d \in Edges(graph, order[j]) :
       \E i \in DOMAIN order : i < j /\ order[i] = d

\* Startup is refused exactly when some of the plugins left depend on each
\* other: a cycle never loads anything, and the sort never gives up on a graph
\* without one (findCycles and the check at the end of topoSort).
CyclesRefused ==
  /\ phase \in {"load", "serve"} => InCycle(graph) = {}
  /\ phase = "aborted" => InCycle(graph) # {} /\ begun = {}

\* Startup orders what can be ordered and refuses the rest.
LoadOrderSound == DepsFirst /\ CyclesRefused

\* What dependsOn leads to from p, whatever became of the plugins on the way.
DeclaredReach(p) == Reached([q \in Plugins |-> {d.on : d \in Needs(q)}], p)

\* A plugin that has its api can get a call of another plugin's tool dispatched
\* only if the manifests lead from the one to the other, and always if they do
\* and the tool's owner was let into the graph (makeCallTool): what loads or
\* registers later opens nothing to plugins that did not declare it.
CallsFollowManifests ==
  \A p \in begun : \A e \in live :
    e[2] # p => /\ MayCall(p, e[2]) => e[2] \in DeclaredReach(p)
                /\ e[2] \in Reach(graph, p) => MayCall(p, e[2])

\* A namespace belongs to one plugin: whatever was registered under it, at any
\* time, by a plugin that loaded or that failed to, is that plugin's, and it is
\* the one declared first (namespaceOwner and the prefix check).
NamespacesExclusive ==
  \A e, f \in live :
    e[1][1] = f[1][1] =>
      /\ e[2] = f[2]
      /\ \A q \in Resolved : manifest[q].ns = e[1][1] => Place(e[2]) <= Place(q)

\* What plugins can do to each other: call what the manifests lead to, and take
\* no name from each other.
PluginsKeepApart == CallsFollowManifests /\ NamespacesExclusive

\* Documented: a tool whose declaration the host refuses leaves nothing behind
\* (registerPluginTool).  The runtime has noted the name by then.
NoHalfRegistered == live = hosted

\* Documented: a plugin with a dependency that is not there is not loaded.
\* The check is one pass, so a dependency removed in the same pass counts.
NoDanglingDependents ==
  phase = "serve" =>
    \A p \in Chosen : records[p] = <<"loaded">> =>
      \A d \in Needs(p) : records[d.on] # <<"disabled-by-dep-missing">>
=============================================================================

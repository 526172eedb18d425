------------------------------ MODULE DepGraph ------------------------------
(***************************************************************************)
(* The dependency graph of the plugins that are left and the search for    *)
(* its cycles (findCycles of src/plugin/depgraph.ts): Tarjan's, as the     *)
(* code runs it.  A step is one turn of a loop of strongconnect, or its    *)
(* end; the calls of strongconnect that run are kept on a stack of their   *)
(* own.  PluginRuntime begins the search and acts on what it found.        *)
(*                                                                         *)
(* The loops take nodes and successors in any order here: the code's only  *)
(* decides how the error lists the cycles.  A successor declared twice is  *)
(* looked at twice by the code, the second time to no effect.              *)
(***************************************************************************)
EXTENDS SequencesExt

CONSTANT Plugins  \* npm names

ASSUME PluginsAssumption == IsFiniteSet(Plugins)

VARIABLES
  valid,    \* validResolved: the nodes, plugins that validation kept
  graph,    \* edges: plugin -> {<<n, q>> : its n-th dependency is q}
  index,    \* how many nodes were numbered
  indexOf,  \* plugin -> its number, from 1, or 0 when it has none
  lowlink,  \* plugin -> the least number it is known to lead to on the stack
  stack,    \* the nodes whose component is not known yet, as numbered
  calls,    \* the calls of strongconnect that run, the innermost last, with
            \*   the successors each has still to look at
  cycles    \* the components of more than one node, as found

search == <<index, indexOf, lowlink, stack, calls>>

Call == [node : Plugins, left : SUBSET Plugins]

SearchTypeOK ==
  /\ valid \subseteq Plugins
  /\ graph \in [Plugins -> SUBSET (Nat \X Plugins)]
  /\ index \in Nat
  /\ indexOf \in [Plugins -> Nat]
  /\ lowlink \in [Plugins -> Nat]
  /\ stack \in Seq(Plugins)
  /\ calls \in Seq(Call)
  /\ cycles \in Seq(SUBSET Plugins)

Edges(g, p) == {e[2] : e \in g[p]}

\* Nothing of a search is there: none has begun, or it is over.
NoSearch ==
  /\ index = 0
  /\ indexOf = [p \in Plugins |-> 0] /\ lowlink = [p \in Plugins |-> 0]
  /\ stack = << >> /\ calls = << >>

-----------------------------------------------------------------------------
(* Reachability, which the search is to agree with.                          *)

\* Every plugin to which one or more steps of next (plugin -> plugins) lead.
Reached(next, p) ==
  LET within[k \in 0 .. Cardinality(Plugins)] ==
        IF k = 0 THEN next[p]
        ELSE within[k - 1] \cup UNION {next[q] : q \in within[k - 1]}
  IN  within[Cardinality(Plugins)]

\* Every plugin reached over one or more edges.
Reach(g, p) == Reached([q \in Plugins |-> Edges(g, q)], p)

\* The plugins in a cycle.
InCycle(g) == {p \in Plugins : p \in Reach(g, p)}

-----------------------------------------------------------------------------
(* The search.                                                               *)

Numbered(p) == indexOf[p] # 0

\* Broken variant: a node whose component is known still counts.
NumberedAtAll(p) == Numbered(p)
OnStack(p) == \E i \in DOMAIN stack : stack[i] = p

\* strongconnect is called: the node gets the next number.
Enter(p) ==
  /\ index' = index + 1
  /\ indexOf' = [indexOf EXCEPT ![p] = index + 1]
  /\ stack' = Append(stack, p)

CallOn(p) == [node |-> p, left |-> Edges(graph, p)]

\* The loop over all nodes.
SearchFrom(p) ==
  /\ calls = << >>
  /\ p \in valid /\ ~ Numbered(p)
  /\ Enter(p)
  /\ lowlink' = [lowlink EXCEPT ![p] = index + 1]
  /\ calls' = << CallOn(p) >>
  /\ UNCHANGED <<valid, graph, cycles>>

\* The loop over the successors of the node of the innermost call.
Looked(q) == [calls EXCEPT ![Len(calls)].left = @ \ {q}]

Descend(q) ==
  /\ calls # << >>
  /\ q \in Last(calls).left /\ ~ Numbered(q)
  /\ Enter(q)
  /\ lowlink' = [lowlink EXCEPT ![q] = index + 1]
  /\ calls' = Append(Looked(q), CallOn(q))
  /\ UNCHANGED <<valid, graph, cycles>>

LookAt(q) ==
  /\ calls # << >>
  /\ q \in Last(calls).left /\ Numbered(q)
  /\ lowlink' = IF OnStack(q)
                THEN [lowlink EXCEPT ![Last(calls).node] = Min({@, indexOf[q]})]
                ELSE lowlink
  /\ calls' = Looked(q)
  /\ UNCHANGED <<valid, graph, index, indexOf, stack, cycles>>

\* What the loop that pops takes from the stack, and what it leaves.
PlaceOf(p)   == CHOOSE i \in DOMAIN stack : stack[i] = p
Component(p) == {stack[i] : i \in PlaceOf(p) .. Len(stack)}
Below(p)     == SubSeq(stack, 1, PlaceOf(p) - 1)

\* A single node is no cycle, as edges to oneself were dropped.
IsCycle(C) == Cardinality(C) > 1

\* strongconnect ends, and its caller learns how far down it leads.
Return ==
  /\ calls # << >> /\ Last(calls).left = {}
  /\ LET p == Last(calls).node
     IN  /\ IF lowlink[p] = indexOf[p]
            THEN /\ stack' = Below(p)
                 /\ cycles' = IF IsCycle(Component(p)) THEN Append(cycles, Component(p))
                                                       ELSE cycles
            ELSE UNCHANGED <<stack, cycles>>
         /\ calls' = Front(calls)
         /\ lowlink' = IF calls' = << >> THEN lowlink
                       ELSE [lowlink EXCEPT ![Last(calls').node] = Min({@, lowlink[p]})]
  /\ UNCHANGED <<valid, graph, index, indexOf>>

SearchStep ==
  \/ \E p \in Plugins : SearchFrom(p) \/ Descend(p) \/ LookAt(p)
  \/ Return

\* Every node has its component, and the variables of findCycles go.
SearchEnds ==
  /\ calls = << >> /\ \A p \in valid : Numbered(p)
  /\ index' = 0
  /\ indexOf' = [p \in Plugins |-> 0] /\ lowlink' = [p \in Plugins |-> 0]
  /\ stack' = << >> /\ calls' = << >>
  /\ UNCHANGED <<valid, graph, cycles>>
=============================================================================

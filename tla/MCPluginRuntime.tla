------------------------- MODULE MCPluginRuntime -------------------------
(* Model-checking instance of PluginRuntime. *)
EXTENDS PluginRuntime

CONSTANTS a, b, c

InNameOrder == a :> 1 @@ b :> 2 @@ c :> 3
InFileOrder == <<b, a, c>>

On(p, ok) == [on |-> p, fits |-> ok]

\* Graphs of three plugins with up to two declared dependencies each, loops
\* and repeats among them, nothing else being wrong.
DepLists(p) ==
  {<< >>} \cup {<<On(q, TRUE)>> : q \in Plugins}
          \cup {<<On(q, TRUE), On(r, TRUE)>> : q, r \in Plugins \ {p}}
OwnSpace == a :> "na" @@ b :> "nb" @@ c :> "nc"
Graphs ==
  {[p \in Plugins |-> [fit |-> TRUE, ns |-> OwnSpace[p], deps |-> <<x, y, z>>[InNameOrder[p]],
                       caps |-> TRUE]] :
     x \in DepLists(a), y \in DepLists(b), z \in DepLists(c)}

\* A chain, with anything wrong with any plugin.
Chain == a :> b @@ b :> c @@ c :> a
Flawed ==
  {[p \in Plugins |->
      [fit |-> k[p], ns |-> n[p],
       deps |-> IF p = c THEN << >> ELSE <<On(Chain[p], f[p])>>, caps |-> p # h]] :
     k \in [Plugins -> BOOLEAN],
     n \in [Plugins -> {"na", "nb"}],
     f \in [Plugins -> BOOLEAN],
     h \in Plugins \cup {"none"}}

Everything == Graphs \cup Flawed
=============================================================================

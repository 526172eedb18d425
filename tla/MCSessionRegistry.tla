------------------------ MODULE MCSessionRegistry ------------------------
(* Model-checking instance of SessionRegistry. *)
EXTENDS SessionRegistry, TLC

\* Calls are interchangeable.  Used by the runs that check safety only.
Symmetry == Permutations(Calls)
=============================================================================

------------------------- MODULE MCOperatorChannel -------------------------
(* Model-checking instance of OperatorChannel. *)
EXTENDS OperatorChannel, TLC

CONSTANTS a1, a2, a3, b1, b2

\* Two bridges of two session ids.
TwoSessions == b1 :> "s" @@ b2 :> "t"

SmallClasses == [hook |-> 1, human |-> 1, page |-> 1]
SmallSessions == [hook |-> 1, human |-> 1, page |-> 1]
=============================================================================

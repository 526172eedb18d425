---------------------------- MODULE HumanAnswer ----------------------------
(***************************************************************************)
(* What a caller that asks a human is promised, whoever carries the        *)
(* question: a request settles once, with a human decision or a refusal,   *)
(* and it always settles.  OperatorChannel implements this.                *)
(***************************************************************************)
CONSTANT Asks  \* the calls that ask

VARIABLE fate  \* ask -> "unasked", "waiting", or how it settled

Decisions == {"approved", "denied"}

TypeOK == fate \in [Asks -> {"unasked", "waiting", "refused"} \cup Decisions]

Init == fate = [a \in Asks |-> "unasked"]

\* A caller asks.  It may be refused on the spot.
Raise(a) ==
  /\ fate[a] = "unasked"
  /\ \E f \in {"waiting", "refused"} : fate' = [fate EXCEPT ![a] = f]

\* Waiting callers settle: several at once when they asked the same question,
\* or when the channel goes away.  Nobody else moves.
Settle(S, f) ==
  /\ S # {} /\ \A a \in S : fate[a] = "waiting"
  /\ fate' = [a \in Asks |-> IF a \in S THEN f ELSE fate[a]]

SettleOne(a) == \E S \in SUBSET Asks, f \in {"refused"} \cup Decisions : a \in S /\ Settle(S, f)

Next == \E a \in Asks : Raise(a) \/ SettleOne(a)

Spec == Init /\ [][Next]_fate

FairSpec == Spec /\ \A a \in Asks : WF_fate(SettleOne(a))
=============================================================================

--------------------------- MODULE CaptureStream ---------------------------
(***************************************************************************)
(* What a replay log promises: lines are taken in order and reach the file *)
(* in the order they were taken; a write that fails loses its lines and is *)
(* never forgotten; the end of the log is reported once nothing is left to *)
(* write, as a success only if no write failed.  The one loss it does not  *)
(* notice is of lines a write cut off.                                     *)
(***************************************************************************)
EXTENDS Sequences, Naturals

VARIABLES held, written, lost, outcome
vars == <<held, written, lost, outcome>>

Init == held = << >> /\ written = << >> /\ lost = FALSE /\ outcome = "none"

\* One more line, whatever it is.
Take ==
  /\ outcome = "none"
  /\ Len(held') = Len(held) + 1
  /\ SubSeq(held', 1, Len(held)) = held
  /\ UNCHANGED <<written, lost, outcome>>

\* The first k lines leave together; of these the first j are written.
Write(j, k) ==
  /\ written' = written \o SubSeq(held, 1, j)
  /\ held' = SubSeq(held, k + 1, Len(held))
  /\ UNCHANGED <<lost, outcome>>

Lose(k) ==
  /\ lost' = TRUE
  /\ held' = SubSeq(held, k + 1, Len(held))
  /\ UNCHANGED <<written, outcome>>

End ==
  /\ outcome = "none"
  /\ held = << >>
  /\ outcome' = IF lost THEN "threw" ELSE "stats"
  /\ UNCHANGED <<held, written, lost>>

Next == \/ Take
        \/ \E k \in 1 .. Len(held) : Lose(k) \/ \E j \in 0 .. k : Write(j, k)
        \/ End

Spec == Init /\ [][Next]_vars
=============================================================================

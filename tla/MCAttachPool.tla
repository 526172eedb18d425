---------------------------- MODULE MCAttachPool ----------------------------
(* Small instances of AttachPool for TLC. *)
EXTENDS AttachPool, TLC

CONSTANTS n1, n2, n3, a, b

\* n1 and n2 are two openings of one name; n3 is another session.
TwoOfA == [n \in Sessions |-> IF n = n3 THEN b ELSE a]

\* One server, which admits one of them at a time ...
OneServer == [n \in Sessions |-> "A"]

\* ... or a server for each.
OwnServers == [n \in Sessions |-> IF n = n2 THEN "B" ELSE "A"]
=============================================================================

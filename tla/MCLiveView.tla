---------------------------- MODULE MCLiveView ----------------------------
(* Small instances of LiveView for TLC. *)
EXTENDS LiveView

CONSTANTS s1, s2

OneSession  == {s1}
TwoSessions == {s1, s2}
=============================================================================

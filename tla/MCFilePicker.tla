---------------------------- MODULE MCFilePicker ----------------------------
(* FilePicker for TLC, with frames that are alike to the code: it is enough   *)
(* to look at one of the states that differ only in their names.              *)
EXTENDS FilePicker, TLC

FrameSymmetry == Permutations(Frames)
=============================================================================

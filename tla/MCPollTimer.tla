----------------------------- MODULE MCPollTimer -----------------------------
(***************************************************************************)
(* Instances of PollTimer for TLC.                                         *)
(***************************************************************************)
EXTENDS PollTimer

\* a little and much, ahead and back
Jumps == {-7, -2, 2, 7}
=============================================================================

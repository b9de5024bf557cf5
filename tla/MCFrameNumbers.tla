--------------------------- MODULE MCFrameNumbers ---------------------------
(* The instance of FrameNumbers for TLC.  The process before has searched  *)
(* for nodes, or sent a frame, with a number that this one will use for a  *)
(* command of SetMacAddr, or for its first frame.                          *)
EXTENDS FrameNumbers

MCUnanswered == {[no |-> 1, job |-> "ND"], [no |-> 3, job |-> "transmit"]}
=============================================================================

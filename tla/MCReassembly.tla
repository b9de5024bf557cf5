---------------------------- MODULE MCReassembly ----------------------------
(* Instances of Reassembly for TLC. *)
EXTENDS Reassembly, TLC

CONSTANTS s1, s2
SenderSymmetry == Permutations({s1, s2})

(* vxbee, which tries a fragment again, has many more states than the      *)
(* others.                                                                 *)
UpToThree == [d \in Drivers |-> IF d = "vxbee" THEN 2 ELSE 3]
OneMessage == [d \in Drivers |-> 1]
OneRestart == [d \in Drivers |-> IF d = "xbee" THEN 1 ELSE 0]
NoRestart == [d \in Drivers |-> 0]
TwoMessages == [d \in Drivers |-> 2]
=============================================================================

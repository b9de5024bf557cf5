-------------------------------- MODULE MCNfd --------------------------------
(* Instances of Nfd for TLC: how many Writes each node makes, to whom, and *)
(* how many neighbours its node discovery finds.                           *)
EXTENDS Nfd

CONSTANTS a  \* the node that writes more than the others

OneEach == [n \in Nodes |-> 1]
TwoByA == [n \in Nodes |-> IF n = a THEN 2 ELSE 0]
TwoByAOneElse == [n \in Nodes |-> IF n = a THEN 2 ELSE 1]

NoneFound == [n \in Nodes |-> 0]
OneFound == [n \in Nodes |-> 1]
OneFoundByA == [n \in Nodes |-> IF n = a THEN 1 ELSE 0]

Anyone == [n \in Nodes |-> Ips \cup {BCST_IPv4}]
EachOther == [n \in Nodes |-> Nodes \ {n}]
Elsewhere == [n \in Nodes |-> IF n = a THEN Nodes \ {a} ELSE Foreign]
AnyOther == [n \in Nodes |-> (Ips \ {n}) \cup {BCST_IPv4}]
===============================================================================

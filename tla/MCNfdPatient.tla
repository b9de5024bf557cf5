----------------------------- MODULE MCNfdPatient -----------------------------
(* An instance of NfdPatient for TLC: how many Writes each node makes.     *)
EXTENDS NfdPatient

CONSTANTS a  \* the node that discovers a neighbour

TwoEach == [n \in Nodes |-> 2]
OneFoundByA == [n \in Nodes |-> IF n = a THEN 1 ELSE 0]
EachOther == [n \in Nodes |-> Nodes \ {n}]
===============================================================================

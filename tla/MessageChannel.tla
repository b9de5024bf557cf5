---------------------------- MODULE MessageChannel ----------------------------
(***************************************************************************)
(* What SendPacket and ReceivePacket of a driver promise the packet layer: *)
(* a message that is received was begun by its sender, and those of one    *)
(* sender are received in order, none twice; any of them may be lost.  A   *)
(* channel that is ambiguous may also hand over what nobody sent.          *)
(***************************************************************************)
EXTENDS Integers, Sequences

CONSTANT Senders

VARIABLES
  begun,     \* how many messages each sender has begun
  received,  \* what was received: the set of the one message it is, or {}
  ambiguous  \* may parts of different messages be taken for one?

channelVars == <<begun, received, ambiguous>>

Init ==
  /\ begun = [s \in Senders |-> 0]
  /\ received = <<>>
  /\ ambiguous \in BOOLEAN

(* A sender begins message begun[s] + 1, which may be one too many. *)
Begin(s) ==
  /\ begun' = [begun EXCEPT ![s] = @ + 1]
  /\ ambiguous' \in {ambiguous, TRUE}
  /\ UNCHANGED received

GetAmbiguous ==
  /\ ambiguous' = TRUE
  /\ UNCHANGED <<begun, received>>

(* Nothing received so far is message id of s, or a later one. *)
Newest(s, id) ==
  \A k \in DOMAIN received : \A m \in received[k] : m[1] = s => m[2] < id

Receive(s) ==
  /\ \E id \in 1 .. begun[s] :
       /\ Newest(s, id)
       /\ received' = Append(received, {<<s, id>>})
  /\ UNCHANGED <<begun, ambiguous>>

ReceiveGarbled ==
  /\ ambiguous
  /\ received' = Append(received, {})
  /\ UNCHANGED <<begun, ambiguous>>

Next ==
  \/ \E s \in Senders : Begin(s) \/ Receive(s)
  \/ GetAmbiguous \/ ReceiveGarbled

Spec == Init /\ [][Next]_channelVars
=============================================================================

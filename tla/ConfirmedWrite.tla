---------------------------- MODULE ConfirmedWrite ----------------------------
(***************************************************************************)
(* What Write of nfd/nfd.go promises its callers: a call that returns      *)
(* without an error has put its data into the receive buffer of some node, *)
(* once.  A call that returns an error says nothing: the data may have     *)
(* arrived, may still arrive, or may be lost.                              *)
(***************************************************************************)
EXTENDS Integers, Sequences

CONSTANTS Writers, Readers

VARIABLES
  status,   \* for each writer, the state of each of its calls
  arrived   \* <<writer, call, reader>>: that data is in that buffer

abstractVars == <<status, arrived>>

Init ==
  /\ status = [n \in Writers |-> <<>>]
  /\ arrived = {}

(* A writer makes one call at a time. *)
Idle(n) == \A w \in DOMAIN status[n] : status[n][w] # "calling"

Start(n) ==
  /\ Idle(n)
  /\ status' = [status EXCEPT ![n] = Append(@, "calling")]
  /\ UNCHANGED arrived

Refuse(n) ==
  /\ Idle(n)
  /\ status' = [status EXCEPT ![n] = Append(@, "failed")]
  /\ UNCHANGED arrived

HasArrived(n, w) == \E m \in Readers : <<n, w, m>> \in arrived

(* The data arrives during the call, or after the call gave up on it. *)
Arrive(n, w, m) ==
  /\ status[n][w] \in {"calling", "failed"}
  /\ ~HasArrived(n, w)
  /\ arrived' = arrived \cup {<<n, w, m>>}
  /\ UNCHANGED status

Succeed(n, w) ==
  /\ status[n][w] = "calling"
  /\ HasArrived(n, w)
  /\ status' = [status EXCEPT ![n][w] = "ok"]
  /\ UNCHANGED arrived

Fail(n, w) ==
  /\ status[n][w] = "calling"
  /\ status' = [status EXCEPT ![n][w] = "failed"]
  /\ UNCHANGED arrived

Next ==
  \E n \in Writers :
    \/ Start(n) \/ Refuse(n)
    \/ \E w \in DOMAIN status[n] :
         Succeed(n, w) \/ Fail(n, w) \/ \E m \in Readers : Arrive(n, w, m)

Spec == Init /\ [][Next]_abstractVars
=============================================================================

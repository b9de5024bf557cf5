------------------------------ MODULE MCLifecycle ------------------------------
(***************************************************************************)
(* The uses of a device that Lifecycle.cfg looks at.                       *)
(***************************************************************************)
EXTENDS Lifecycle

Use(config, r, p, w, q) ==
  [config |-> config, runs |-> r, packets |-> p, writes |-> w, requests |-> q]

MCUses ==
  {Use(FALSE, 2, 0, 0, 0),   \* Run and Stop, twice
   Use(FALSE, 1, 4, 0, 0),   \* every queue full
   Use(FALSE, 1, 2, 1, 0),   \* a Write that empties AckQueue
   Use(TRUE, 1, 1, 1, 1)}    \* a search, a Write and a STATUS_REQ
=============================================================================

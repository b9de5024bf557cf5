------------------------------- MODULE MCFraming -------------------------------
(***************************************************************************)
(* The lengths at which something changes for one of the drivers: one and  *)
(* two fragments, the most that fit, one fragment too many, and two.       *)
(***************************************************************************)
EXTENDS Framing

Around(n) == {n - 1, n, n + 1}

EncodedSizes ==
  UNION {Around(n) : n \in
    {40, 235, 238, 2 * 238, 1004, 2 * 1004, 255 * 238, 256 * 238,
     255 * 1004, 256 * 1004}}

MCSizes == {n - HEADSIZE : n \in EncodedSizes}
=============================================================================

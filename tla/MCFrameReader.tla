--------------------------- MODULE MCFrameReader ---------------------------
(***************************************************************************)
(* The frames for the instance of FrameReader: one whose payload and    *)
(* checksum are delimiters, one without.                                   *)
(***************************************************************************)
EXTENDS FrameReader

MCShapes ==
  {[kind |-> "packet", payload |-> <<Delimiter>>, sum |-> Delimiter],
   [kind |-> "status", payload |-> <<>>, sum |-> 0]}
=============================================================================

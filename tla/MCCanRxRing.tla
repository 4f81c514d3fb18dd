---------------------------- MODULE MCCanRxRing ----------------------------
(* A ring of three cells: it is full with two messages, and nine overrun it  *)
(* several times within one call.                                            *)
EXTENDS CanRxRing
=============================================================================

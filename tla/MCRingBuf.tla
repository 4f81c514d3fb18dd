----------------------------- MODULE MCRingBuf -----------------------------
(***************************************************************************)
(* RingBuf, for TLC: a ring of three cells, two of them usable.            *)
(***************************************************************************)
EXTENDS RingBuf
=============================================================================

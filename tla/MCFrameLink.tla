---------------------------- MODULE MCFrameLink ----------------------------
(***************************************************************************)
(* FrameLink with bytes 0 .. 15: the head is 15, the tail 14.              *)
(***************************************************************************)
EXTENDS FrameLink

\* A payload that holds a whole frame, and none.
MCPayloads == {<<15, 4, 4, 14>>, <<>>}

\* From another node: heads that begin no frame, and then a length no buffer holds.
MCNoise == {<<15, 15, 15, 15>>, <<15, 15, 15, 9>>}
=============================================================================

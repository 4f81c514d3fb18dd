---------------------------- MODULE MCNodeParams ----------------------------
(* A board of a kind that adds the dial switch to its base ID. *)
EXTENDS NodeParams

MCIdOf == [s \in Settings |-> IF s = Default THEN "base" ELSE "second"]
=============================================================================

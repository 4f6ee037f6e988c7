--------------------------- MODULE MCLoweredFlow ----------------------------
(* Every program of a few statements, lowered. *)
EXTENDS LoweredFlow

CONSTANTS a, c, none

MCAssigns == {a}
MCConditions == {c}
=============================================================================

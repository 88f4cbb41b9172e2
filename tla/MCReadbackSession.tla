-------------------------- MODULE MCReadbackSession --------------------------
(***************************************************************************)
(* Instances of ReadbackSession for TLC: one word value is enough, since   *)
(* the properties are about which words are in which place at which time,  *)
(* not about their values; port B is left to the operation.                *)
(***************************************************************************)
EXTENDS ReadbackSession

CONSTANT w1

MCWord == {w1}
Never  == {}
=============================================================================

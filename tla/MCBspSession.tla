---------------------------- MODULE MCBspSession ----------------------------
(***************************************************************************)
(* Instances of BspSession for TLC: the RAM is reduced to a minimum, the   *)
(* library never uses it.                                                  *)
(***************************************************************************)
EXTENDS BspSession

CONSTANT w1

MCWord  == {w1}
Never   == {}
AllOps  == 0 .. 2
=============================================================================

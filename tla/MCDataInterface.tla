-------------------------- MODULE MCDataInterface --------------------------
(***************************************************************************)
(* Instances of DataInterface for TLC.                                     *)
(***************************************************************************)
EXTENDS DataInterfaceMapping, TLC

CONSTANTS w1, w2

MCWord == {w1, w2}
Always == ReadState
InIdle == {"IDLE"}
InSend == {"SEND"}
Symmetry == Permutations(MCWord)
=============================================================================

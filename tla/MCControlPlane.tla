--------------------------- MODULE MCControlPlane ---------------------------
(***************************************************************************)
(* Instances of ControlPlane for TLC: one word value, so that the memory   *)
(* stays out of the way of the control.                                    *)
(***************************************************************************)
EXTENDS ControlPlane

CONSTANT w1

MCWord == {w1}
Always == ReadState
Never  == {}

(* Every field of every register takes its values, not every combination. *)
MCWritten ==
  {Write("CMD", [enable |-> TRUE, op |-> o, start |-> s]) : o \in {0, 3}, s \in BOOLEAN}
    \cup {Write("CMD", ClearedRegisters.CMD), Write("STATUS", ClearedRegisters.STATUS)}
    \cup {Write("DATA_SC", [start |-> s, busy |-> x, done |-> x]) : s, x \in BOOLEAN}
    \cup {Write("DATA_READ", [addr |-> 0, length |-> n]) : n \in 0 .. MaxLength}
=============================================================================

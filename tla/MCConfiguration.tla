--------------------------- MODULE MCConfiguration ---------------------------
(***************************************************************************)
(* Instances of Configuration for TLC: the RAM is reduced to a minimum,    *)
(* the library never uses it.  Of the arguments of a call some are         *)
(* ordinary, some beyond either end of the range, and some beyond the      *)
(* field; two numbers of channels are beyond the ports and within the      *)
(* wires.  The registers the program has not yet written hold zeros.       *)
(***************************************************************************)
EXTENDS Configuration

CONSTANT w1

MCWord == {w1}
Never  == {}
SomeOps == {0, 6}

MCConvConfigs ==
  {[kernel_size |-> 2, stride |-> 300, padding |-> 3, input_channels |-> -1, output_channels |-> 2]}
MCPoolConfigs ==
  {[pool_size |-> 4, stride |-> 0, pool_type |-> 3, channels |-> 5]}
MCActivationConfigs ==
  {[activation_type |-> 6, tensor_size |-> 65538, alpha |-> 7]}
MCBatchSizes == {5}
=============================================================================

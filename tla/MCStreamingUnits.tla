--------------------------- MODULE MCStreamingUnits ---------------------------
(***************************************************************************)
(* Instances of StreamingUnits for TLC: a plane with sides of different    *)
(* length under every combination of small pooling settings, and tensors   *)
(* shorter and longer than the activation pipeline.                        *)
(***************************************************************************)
EXTENDS StreamingUnits

MCConfigs ==
  [pool_size : 1 .. 2, stride : 1 .. 2, channels : 1 .. 2, batch_size : 1 .. 2,
   tensor_size : {1}]
  \cup
  [pool_size : {2}, stride : {1}, channels : {1}, batch_size : {1}, tensor_size : 2 .. 8]
=============================================================================

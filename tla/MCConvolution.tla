---------------------------- MODULE MCConvolution ----------------------------
(***************************************************************************)
(* Instances of Convolution for TLC: an input plane with sides of          *)
(* different length, and every combination of small settings that leaves   *)
(* an output position.                                                     *)
(***************************************************************************)
EXTENDS Convolution

MCConfigs ==
  {c \in [kernel_size : 1 .. 2, stride : 1 .. 2, padding : 0 .. 1,
          input_channels : 1 .. 2, output_channels : 1 .. 2, batch_size : 1 .. 2] :
     {Height, Width} \subseteq {d \in Nat : d + 2 * c.padding >= c.kernel_size}}
=============================================================================

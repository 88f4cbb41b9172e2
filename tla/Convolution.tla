----------------------------- MODULE Convolution -----------------------------
(***************************************************************************)
(* A convolution on the accelerator: convolution_block.vhd, the sequencer  *)
(* of FPGA_accelerator.vhd that fetches its operands one after another     *)
(* through port B of the shared RAM, and the top-level state machine       *)
(* around them.  One step is one rising clock edge.                        *)
(*                                                                         *)
(* Data is symbolic: a word that was streamed in is known by the address   *)
(* it was loaded at, a product by its two operands, a result by the        *)
(* products summed and the bias.  What the block does with the numbers     *)
(* (shift, saturate) is a function of exactly these.                       *)
(***************************************************************************)
EXTENDS Integers, Sequences

CONSTANTS
  Height, Width,                     (* INPUT_HEIGHT, INPUT_WIDTH.         *)
  WeightBase, BiasBase, OutputBase,  (* Where the regions of the RAM begin *)
                                     (* (the input at 0) ...               *)
  Size,                              (* ... and where it ends.             *)
  Configs                            (* Settings of the registers.         *)

OutDim(dim, c) == (dim + 2 * c.padding - c.kernel_size) \div c.stride + 1

ASSUME RegionAssumption ==
  /\ {Height, Width} \subseteq Nat \ {0}
  /\ {WeightBase, BiasBase, OutputBase, Size} \subseteq Nat
  /\ 0 < WeightBase /\ WeightBase < BiasBase /\ BiasBase < OutputBase /\ OutputBase < Size

(* Every setting fits the input plane: there is an output position. *)
ASSUME ConfigAssumption ==
  /\ Configs \subseteq [kernel_size : 1 .. 5, stride : 1 .. 4, padding : 0 .. 2,
                        input_channels : 1 .. 16, output_channels : 1 .. 16,
                        batch_size : 1 .. 4]
  /\ \A c \in Configs : {Height, Width} \subseteq {d \in Nat : d + 2 * c.padding >= c.kernel_size}

VARIABLES
  ram,              (* The RAM, and port B's address and output registers. *)
  address_b,
  q_b,
  config,           (* The registers that parameterise the convolution.    *)
  top_state,        (* FPGA_accelerator: its state machine, ...            *)
  conv_read_phase,  (* ... where the sequencer is (the operand and which of
                       its four clocks: address, capture, settle, sample)  *)
  data_reg,         (* ... and the operands fetched.                       *)
  current_state,    (* convolution_block: its state machine, ...           *)
  cnt,              (* ... the counters of its seven loops, ...            *)
  conv_accumulator, (* ... the products added so far, ...                  *)
  mult_result,      (* ... the product (or none) not yet added ...         *)
  bias_reg          (* ... and the bias.                                   *)

ports == <<ram, address_b, q_b>>
mac   == <<cnt, conv_accumulator, mult_result, bias_reg>>
vars  == <<ports, config, top_state, conv_read_phase, data_reg, current_state, mac>>

Addr      == 0 .. Size - 1
Loaded(a) == [at |-> a]

At(operand, clock) == <<operand, clock>>
Ready  == At("READY", 0)
Done   == At("DONE", 0)
Phases == {Ready, Done} \cup ({"INPUT", "WEIGHT", "BIAS"} \X (1 .. 4))

-----------------------------------------------------------------------------
(* Dimensions, positions and addresses.  Addresses have 16 bits. *)
output_height == OutDim(Height, config)
output_width  == OutDim(Width, config)

in_h_pos == cnt.out_h * config.stride + cnt.kh - config.padding
in_w_pos == cnt.out_w * config.stride + cnt.kw - config.padding

input_in_bounds == in_h_pos \in 0 .. Height - 1 /\ in_w_pos \in 0 .. Width - 1

input_addr ==
  IF input_in_bounds
    THEN ((cnt.batch * Height + in_h_pos) * Width + in_w_pos) * config.input_channels + cnt.in_ch
    ELSE 0
weight_addr ==
  ((cnt.kh * config.kernel_size + cnt.kw) * config.input_channels + cnt.in_ch)
    * config.output_channels + cnt.out_ch
(* Fault: rows of the result are as long as its columns. *)
output_addr_swapped ==
  ((cnt.batch * output_height + cnt.out_h) * output_height + cnt.out_w)
    * config.output_channels + cnt.out_ch

output_addr ==
  ((cnt.batch * output_height + cnt.out_h) * output_width + cnt.out_w)
    * config.output_channels + cnt.out_ch

kernel_done ==
  /\ cnt.kh = config.kernel_size - 1 /\ cnt.kw = config.kernel_size - 1
  /\ cnt.in_ch = config.input_channels - 1

last_output ==
  /\ cnt.batch = config.batch_size - 1 /\ cnt.out_ch = config.output_channels - 1
  /\ cnt.out_h = output_height - 1 /\ cnt.out_w = output_width - 1

first_of_kernel == cnt.in_ch = 0 /\ cnt.kh = 0 /\ cnt.kw = 0

NoCount == [batch |-> 0, out_ch |-> 0, out_h |-> 0, out_w |-> 0, in_ch |-> 0, kh |-> 0, kw |-> 0]

-----------------------------------------------------------------------------
(* Port B on one edge: the address is registered, and so is the word at the
   address registered before.  Of a 16-bit address the RAM decodes what it
   needs.                                                                  *)
Read(a) ==
  /\ address_b' = a % Size
  /\ q_b' = ram[address_b]
  /\ UNCHANGED ram

WriteRam(a, w) ==
  /\ address_b' = a % Size
  /\ q_b' = ram[address_b]
  /\ ram' = [ram EXCEPT ![a % Size] = w]

(* The address the sequencer's phase puts on port B. *)
rdaddress ==
  CASE conv_read_phase[1] = "INPUT"  -> input_addr
    [] conv_read_phase[1] = "WEIGHT" -> weight_addr + WeightBase
    [] conv_read_phase[1] = "BIAS"   -> cnt.out_ch + BiasBase
    [] OTHER                         -> 0

(* Fault: whether the bias is needed is asked again after it was fetched. *)
AfterSampleAgain(operand) ==
  CASE operand = "INPUT"                   -> At("WEIGHT", 1)
    [] operand # "INPUT" /\ first_of_kernel -> At("BIAS", 1)
    [] OTHER                               -> Ready

(* The phase after the one that samples an operand. *)
AfterSample(operand) ==
  CASE operand = "INPUT"                      -> At("WEIGHT", 1)
    [] operand = "WEIGHT" /\ first_of_kernel  -> At("BIAS", 1)
    [] OTHER                                  -> Ready

(* Fault: the operand is sampled on the clock after its address. *)
NextPhaseShort ==
  CASE conv_read_phase = Done   -> At("INPUT", 1)
    [] conv_read_phase[2] = 4   -> AfterSample(conv_read_phase[1])
    [] OTHER                    -> At(conv_read_phase[1], 4)

NextPhase ==
  CASE conv_read_phase = Done   -> At("INPUT", 1)
    [] conv_read_phase[2] = 4   -> AfterSample(conv_read_phase[1])
    [] OTHER                    -> At(conv_read_phase[1], conv_read_phase[2] + 1)

(* The three inner loops, kernel column, kernel row, channel, stop at their
   ends; the outer ones, column, row, channel, image, follow a result.     *)
NextTap ==
  IF cnt.kw < config.kernel_size - 1 THEN [cnt EXCEPT !.kw = @ + 1]
  ELSE IF cnt.kh < config.kernel_size - 1 THEN [cnt EXCEPT !.kw = 0, !.kh = @ + 1]
  ELSE IF cnt.in_ch < config.input_channels - 1
    THEN [cnt EXCEPT !.kw = 0, !.kh = 0, !.in_ch = @ + 1]
  ELSE cnt

(* Fault: the counters move on after the last result. *)
NextOutputOnce ==
  LET c == [cnt EXCEPT !.kw = 0, !.kh = 0, !.in_ch = 0] IN
  IF c.out_w < output_width - 1 THEN [c EXCEPT !.out_w = @ + 1]
  ELSE IF c.out_h < output_height - 1 THEN [c EXCEPT !.out_w = 0, !.out_h = @ + 1]
  ELSE IF c.out_ch < config.output_channels - 1
    THEN [c EXCEPT !.out_w = 0, !.out_h = 0, !.out_ch = @ + 1]
  ELSE [c EXCEPT !.out_w = 0, !.out_h = 0, !.out_ch = 0, !.batch = @ + 1]

NextOutput ==
  LET c == [cnt EXCEPT !.kw = 0, !.kh = 0, !.in_ch = 0] IN
  IF last_output THEN c
  ELSE IF c.out_w < output_width - 1 THEN [c EXCEPT !.out_w = @ + 1]
  ELSE IF c.out_h < output_height - 1 THEN [c EXCEPT !.out_w = 0, !.out_h = @ + 1]
  ELSE IF c.out_ch < config.output_channels - 1
    THEN [c EXCEPT !.out_w = 0, !.out_h = 0, !.out_ch = @ + 1]
  ELSE [c EXCEPT !.out_w = 0, !.out_h = 0, !.out_ch = 0, !.batch = @ + 1]

-----------------------------------------------------------------------------
(* A register that holds no word of the RAM, but zero. *)
Zero == [reset |-> 0]

NoOperands == [INPUT |-> Zero, WEIGHT |-> Zero, BIAS |-> Zero]

Init ==
  /\ ram = [a \in Addr |-> Loaded(a)] /\ address_b = 0 /\ q_b = Zero
  /\ config \in Configs
  /\ top_state = "IDLE" /\ conv_read_phase = Done /\ data_reg = NoOperands
  /\ current_state = "IDLE" /\ cnt = NoCount
  /\ conv_accumulator = <<>> /\ mult_result = <<>> /\ bias_reg = Zero

(* CMD.START in IDLE.  By then the processor has streamed the tensors in and
   set the registers, which it leaves alone until the operation is over.   *)
Launch ==
  /\ top_state = "IDLE"
  /\ top_state' = "CONV_OP" /\ current_state' = "CONV_COMPUTE"
  /\ config' \in Configs
  /\ ram' = [a \in Addr |-> Loaded(a)]
  /\ address_b' = 0 /\ q_b' = ram[address_b]
  /\ cnt' = NoCount /\ conv_accumulator' = <<>> /\ mult_result' = <<>>
  /\ conv_read_phase' = Done
  /\ UNCHANGED <<data_reg, bias_reg>>

(* CONV_COMPUTE while the sequencer fetches an operand. *)
Fetch ==
  /\ current_state = "CONV_COMPUTE" /\ conv_read_phase # Ready
  /\ Read(rdaddress)
  /\ conv_read_phase' = NextPhase
  /\ data_reg' = IF conv_read_phase[2] = 4
                   THEN [data_reg EXCEPT ![conv_read_phase[1]] = q_b] ELSE data_reg
  /\ UNCHANGED <<config, top_state, current_state, mac>>

(* CONV_COMPUTE with the operands valid: multiply, add the product before. *)
Accumulate ==
  /\ current_state = "CONV_COMPUTE" /\ conv_read_phase = Ready
  /\ Read(rdaddress)
  /\ mult_result' = IF input_in_bounds THEN << <<data_reg.INPUT, data_reg.WEIGHT>> >> ELSE <<>>
  /\ conv_accumulator' = conv_accumulator \o mult_result
  /\ bias_reg' = IF first_of_kernel THEN data_reg.BIAS ELSE bias_reg
  /\ cnt' = NextTap
  /\ current_state' = IF kernel_done THEN "WRITE_OUTPUT" ELSE "CONV_COMPUTE"
  /\ conv_read_phase' = Done
  /\ UNCHANGED <<config, top_state, data_reg>>

(* Fault: the product still in the pipeline is left out. *)
output_data_early == [sum |-> conv_accumulator, bias |-> bias_reg]

output_data == [sum |-> conv_accumulator \o mult_result, bias |-> bias_reg]

WriteOutput ==
  /\ current_state = "WRITE_OUTPUT"
  /\ WriteRam(output_addr + OutputBase, output_data)
  /\ cnt' = NextOutput
  /\ conv_accumulator' = <<>> /\ mult_result' = <<>>
  /\ current_state' = IF last_output THEN "DONE_ST" ELSE "CONV_COMPUTE"
  /\ conv_read_phase' = Done
  /\ UNCHANGED <<config, top_state, data_reg, bias_reg>>

(* conv_done for one clock takes the top level to DONE_ST ... *)
Finish ==
  /\ current_state = "DONE_ST"
  /\ Read(0)
  /\ current_state' = "IDLE" /\ top_state' = "DONE_ST"
  /\ conv_read_phase' = Done
  /\ UNCHANGED <<config, data_reg, mac>>

(* ... and on the next one both are idle, and the counters are cleared. *)
Settle ==
  /\ top_state = "DONE_ST"
  /\ Read(0)
  /\ top_state' = "IDLE"
  /\ cnt' = NoCount /\ conv_accumulator' = <<>> /\ mult_result' = <<>>
  /\ UNCHANGED <<config, conv_read_phase, data_reg, current_state, bias_reg>>

(* The asynchronous reset leaves the RAM and bias_reg as they are. *)
Reset ==
  /\ top_state' = "IDLE" /\ conv_read_phase' = Done /\ data_reg' = NoOperands
  /\ current_state' = "IDLE" /\ cnt' = NoCount
  /\ conv_accumulator' = <<>> /\ mult_result' = <<>>
  /\ Read(0)
  /\ UNCHANGED <<config, bias_reg>>

Clock == Launch \/ Fetch \/ Accumulate \/ WriteOutput \/ Finish \/ Settle

Next == Clock \/ Reset

Spec == Init /\ [][Next]_vars

(* The clock runs. *)
FairSpec == Spec /\ WF_vars(Clock)

-----------------------------------------------------------------------------
(* The tensors, independently of the counters: row-major, an image by image,
   row, column and channel, the kernels by row, column, input and output
   channel.                                                                *)
RowMajor(index, shape) ==
  LET offset[i \in 0 .. Len(index)] ==
        IF i = 0 THEN 0 ELSE offset[i - 1] * shape[i] + index[i]
  IN  offset[Len(index)]

ImageShape  == <<config.batch_size, Height, Width, config.input_channels>>
KernelShape == <<config.kernel_size, config.kernel_size,
                 config.input_channels, config.output_channels>>
ResultShape == <<config.batch_size, output_height, output_width, config.output_channels>>

Pixel(i)  == Loaded(RowMajor(i, ImageShape))
Weight(i) == Loaded(WeightBase + RowMajor(i, KernelShape))
Bias(o)   == Loaded(BiasBase + o)
Result(i) == ram[OutputBase + RowMajor(i, ResultShape)]

Volume(shape) == shape[1] * shape[2] * shape[3] * shape[4]

(* The registers let a program choose tensors the regions have no room for;
   the correctness of a result is claimed of those that fit.               *)
Fits ==
  /\ Volume(ImageShape) <= WeightBase
  /\ Volume(KernelShape) <= BiasBase - WeightBase
  /\ config.output_channels <= OutputBase - BiasBase
  /\ Volume(ResultShape) <= Size - OutputBase

(* The products of one result. *)
Taps(b, h, w, o) ==
  LET row(t)    == h * config.stride + t[1] - config.padding
      column(t) == w * config.stride + t[2] - config.padding
  IN  {<<Pixel(<<b, row(t), column(t), t[3]>>), Weight(<<t[1], t[2], t[3], o>>)>> :
         t \in {u \in (0 .. config.kernel_size - 1) \X (0 .. config.kernel_size - 1)
                        \X (0 .. config.input_channels - 1) :
                  row(u) \in 0 .. Height - 1 /\ column(u) \in 0 .. Width - 1}}

Elements(s) == {s[i] : i \in 1 .. Len(s)}

(* Type invariant. *)
TypeOK ==
  /\ DOMAIN ram = Addr /\ address_b \in Addr
  /\ config \in Configs
  /\ top_state \in {"IDLE", "CONV_OP", "DONE_ST"}
  /\ conv_read_phase \in Phases
  /\ DOMAIN data_reg = {"INPUT", "WEIGHT", "BIAS"}
  /\ current_state \in {"IDLE", "CONV_COMPUTE", "WRITE_OUTPUT", "DONE_ST"}
  /\ cnt \in [batch  : 0 .. config.batch_size - 1,
              out_ch : 0 .. config.output_channels - 1,
              out_h  : 0 .. output_height - 1, out_w : 0 .. output_width - 1,
              in_ch  : 0 .. config.input_channels - 1,
              kh     : 0 .. config.kernel_size - 1, kw : 0 .. config.kernel_size - 1]
  /\ Len(mult_result) <= 1

(* Every operand the multiplier consumes is the word at the address the block
   asks for: the address is held for as long as the two registers of port B
   need, and the results written in between do not get in the way.         *)
OperandsAreAddressed ==
  conv_read_phase = Ready =>
    /\ data_reg.INPUT = ram[input_addr % Size]
    /\ data_reg.WEIGHT = ram[(weight_addr + WeightBase) % Size]
    /\ first_of_kernel => data_reg.BIAS = ram[(cnt.out_ch + BiasBase) % Size]

(* When the operation is reported done, every word of the result is the sum of
   exactly the products of the convolution, each once, and its own channel's
   bias: none is lost in the multiplier's pipeline, none is left over from
   the output, the operation or the reset before.                          *)
ResultIsConvolution ==
  top_state = "DONE_ST" /\ Fits =>
    \A b \in 0 .. config.batch_size - 1, h \in 0 .. output_height - 1,
       w \in 0 .. output_width - 1, o \in 0 .. config.output_channels - 1 :
      LET r == Result(<<b, h, w, o>>)
          t == Taps(b, h, w, o)
      IN  /\ r \notin {Loaded(a) : a \in Addr}
          /\ Elements(r.sum) = t
          /\ \A i, j \in 1 .. Len(r.sum) : r.sum[i] = r.sum[j] => i = j
          /\ r.bias = Bias(o)

(* The operands stay as they were loaded while the operation runs, and nothing
   behind the result is written.                                           *)
OperandsAreKept ==
  Fits => \A a \in Addr : a < OutputBase \/ a >= OutputBase + Volume(ResultShape)
                            => ram[a] = Loaded(a)

(* The operation ends, unless a reset ends it. *)
OperationEnds == top_state = "CONV_OP" ~> top_state # "CONV_OP"
=============================================================================

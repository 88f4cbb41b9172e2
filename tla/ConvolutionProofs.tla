------------------------- MODULE ConvolutionProofs -------------------------
(***************************************************************************)
(* The convolution for every size of plane, kernel and RAM, every stride   *)
(* and padding and every number of channels and images: the counters stay  *)
(* within their loops, the multiplier gets the words the block asks for,   *)
(* a result that fits its region disturbs nothing outside, and each of its *)
(* words is the sum of exactly the products of the convolution.            *)
(***************************************************************************)
EXTENDS Convolution, TLAPS

(* What the sequencer has done in each of its phases: the address is on port
   B's register from the second clock on, the word is at its output from the
   third, and what was sampled is still the operand asked for.             *)
AddressHeld ==
  conv_read_phase \notin {Ready, Done} =>
    /\ conv_read_phase[2] > 1 => address_b = rdaddress % Size
    /\ conv_read_phase[2] > 2 => q_b = ram[rdaddress % Size]

InputSampled  == data_reg.INPUT = ram[input_addr % Size]
WeightSampled == data_reg.WEIGHT = ram[(weight_addr + WeightBase) % Size]

OperandsHeld ==
  /\ conv_read_phase[1] \in {"WEIGHT", "BIAS"} => InputSampled
  /\ conv_read_phase[1] = "BIAS" => WeightSampled

(* Operands are fetched in CONV_COMPUTE only. *)
FetchesWhileComputing ==
  /\ conv_read_phase # Done => current_state = "CONV_COMPUTE"
  /\ current_state # "IDLE" => top_state = "CONV_OP"

FetchInv == AddressHeld /\ OperandsHeld /\ FetchesWhileComputing /\ OperandsAreAddressed

-----------------------------------------------------------------------------
(* There is an output position in each direction. *)
LEMMA OutDimPositive ==
  ASSUME NEW c \in Configs, NEW d \in {Height, Width}
  PROVE  OutDim(d, c) \in Nat \ {0}
<1>1. /\ c.kernel_size \in 1 .. 5 /\ c.stride \in 1 .. 4 /\ c.padding \in 0 .. 2
      /\ d \in Nat /\ d + 2 * c.padding >= c.kernel_size
  BY ConfigAssumption, RegionAssumption
<1> DEFINE x == d + 2 * c.padding - c.kernel_size
<1>2. x \in Nat
  BY <1>1
<1> HIDE DEF x
<1>3. x \div c.stride \in Nat
  <2>1. CASE c.stride = 1
    BY <1>2, <2>1
  <2>2. CASE c.stride = 2
    BY <1>2, <2>2
  <2>3. CASE c.stride = 3
    BY <1>2, <2>3
  <2>4. CASE c.stride = 4
    BY <1>2, <2>4
  <2> QED
    BY <1>1, <2>1, <2>2, <2>3, <2>4
<1> QED
  BY <1>3 DEF OutDim, x

(* The settings are numbers. *)
LEMMA ConfigResult ==
  ASSUME NEW c \in Configs
  PROVE  /\ {c.kernel_size, c.stride, c.input_channels, c.output_channels, c.batch_size}
              \subseteq Nat \ {0}
         /\ c.padding \in Nat
BY ConfigAssumption

(* One more digit of a row-major address. *)
LEMMA Digit ==
  ASSUME NEW X \in Nat, NEW Y \in Nat, NEW x \in 0 .. X - 1, NEW y \in 0 .. Y - 1
  PROVE  (x * Y) + y \in 0 .. (X * Y) - 1
<1>1. (x * Y) + y < (x + 1) * Y
  OBVIOUS
<1>2. (x + 1) * Y <= X * Y
  OBVIOUS
<1>3. x * Y \in Nat /\ X * Y \in Nat
  OBVIOUS
<1> QED
  BY <1>1, <1>2, <1>3

(* Port B decodes an address of the RAM as itself. *)
LEMMA Decoded ==
  ASSUME NEW a \in Int
  PROVE  /\ a % Size \in Addr
         /\ a \in Addr => a % Size = a
<1> DEFINE q == a \div Size
           r == a % Size
<1>1. Size \in Nat /\ Size > 0
  BY RegionAssumption
<1>2. r \in 0 .. Size - 1
  BY <1>1
<1>3. q \in Int
  BY <1>1
<1>4. a = (Size * q) + r
  BY <1>1
<1> HIDE DEF q, r
<1>5. ASSUME a \in Addr PROVE r = a
  <2>1. Size * q < Size /\ -Size < Size * q
    BY <1>1, <1>2, <1>3, <1>4, <1>5 DEF Addr
  <2>2. ~(q >= 1)
    BY <1>1, <1>3, <2>1
  <2>3. ~(q <= -1)
    BY <1>1, <1>3, <2>1
  <2> QED
    BY <1>1, <1>2, <1>3, <1>4, <2>2, <2>3
<1> QED
  BY <1>2, <1>5 DEF r, Addr

-----------------------------------------------------------------------------
(* The counters in range, and what follows of the addresses they make. *)
Counters ==
  [batch  : 0 .. config.batch_size - 1,
   out_ch : 0 .. config.output_channels - 1,
   out_h  : 0 .. output_height - 1, out_w : 0 .. output_width - 1,
   in_ch  : 0 .. config.input_channels - 1,
   kh     : 0 .. config.kernel_size - 1, kw : 0 .. config.kernel_size - 1]

LEMMA Dimensions ==
  ASSUME config \in Configs
  PROVE  {output_height, output_width} \subseteq Nat \ {0}
<1>1. output_height \in Nat \ {0}
  BY OutDimPositive DEF output_height
<1>2. output_width \in Nat \ {0}
  BY OutDimPositive DEF output_width
<1> QED
  BY <1>1, <1>2

LEMMA NoCountResult ==
  ASSUME config \in Configs
  PROVE  NoCount \in Counters
BY ConfigResult, Dimensions DEF NoCount, Counters

(* Counters that advance or start again stay what they count, whatever the
   ranges are.                                                             *)
LEMMA Advance ==
  ASSUME NEW B, NEW O, NEW H, NEW W, NEW I, NEW K,
         NEW c \in [batch : B, out_ch : O, out_h : H, out_w : W, in_ch : I, kh : K, kw : K],
         0 \in O, 0 \in H, 0 \in W, 0 \in I, 0 \in K
  PROVE  LET R == [batch : B, out_ch : O, out_h : H, out_w : W, in_ch : I, kh : K, kw : K]
         IN  /\ c.kw + 1 \in K => [c EXCEPT !.kw = @ + 1] \in R
             /\ c.kh + 1 \in K => [c EXCEPT !.kw = 0, !.kh = @ + 1] \in R
             /\ c.in_ch + 1 \in I => [c EXCEPT !.kw = 0, !.kh = 0, !.in_ch = @ + 1] \in R
             /\ [c EXCEPT !.kw = 0, !.kh = 0, !.in_ch = 0] \in R
             /\ c.out_w + 1 \in W => [c EXCEPT !.out_w = @ + 1] \in R
             /\ c.out_h + 1 \in H => [c EXCEPT !.out_w = 0, !.out_h = @ + 1] \in R
             /\ c.out_ch + 1 \in O =>
                  [c EXCEPT !.out_w = 0, !.out_h = 0, !.out_ch = @ + 1] \in R
             /\ c.batch + 1 \in B =>
                  [c EXCEPT !.out_w = 0, !.out_h = 0, !.out_ch = 0, !.batch = @ + 1] \in R
OBVIOUS

LEMMA Ranges ==
  ASSUME config \in Configs
  PROVE  /\ 0 \in 0 .. config.output_channels - 1 /\ 0 \in 0 .. output_height - 1
         /\ 0 \in 0 .. output_width - 1 /\ 0 \in 0 .. config.input_channels - 1
         /\ 0 \in 0 .. config.kernel_size - 1
BY ConfigResult, Dimensions

LEMMA NextTapResult ==
  ASSUME config \in Configs, cnt \in Counters
  PROVE  NextTap \in Counters
<1>1. /\ cnt.kw \in 0 .. config.kernel_size - 1 /\ cnt.kh \in 0 .. config.kernel_size - 1
      /\ cnt.in_ch \in 0 .. config.input_channels - 1
  BY DEF Counters
<1>2. {config.kernel_size, config.input_channels} \subseteq Nat \ {0}
  BY ConfigResult
<1>3. /\ cnt.kw < config.kernel_size - 1 => cnt.kw + 1 \in 0 .. config.kernel_size - 1
      /\ cnt.kh < config.kernel_size - 1 => cnt.kh + 1 \in 0 .. config.kernel_size - 1
      /\ cnt.in_ch < config.input_channels - 1 => cnt.in_ch + 1 \in 0 .. config.input_channels - 1
  BY <1>1, <1>2
<1>4. /\ cnt.kw + 1 \in 0 .. config.kernel_size - 1 => [cnt EXCEPT !.kw = @ + 1] \in Counters
      /\ cnt.kh + 1 \in 0 .. config.kernel_size - 1 =>
           [cnt EXCEPT !.kw = 0, !.kh = @ + 1] \in Counters
      /\ cnt.in_ch + 1 \in 0 .. config.input_channels - 1 =>
           [cnt EXCEPT !.kw = 0, !.kh = 0, !.in_ch = @ + 1] \in Counters
  BY Ranges, Advance DEF Counters
<1> QED
  BY <1>3, <1>4 DEF NextTap

LEMMA NextOutputResult ==
  ASSUME config \in Configs, cnt \in Counters
  PROVE  NextOutput \in Counters
<1> DEFINE c == [cnt EXCEPT !.kw = 0, !.kh = 0, !.in_ch = 0]
<1>1. c \in Counters
  BY Ranges, Advance DEF Counters
<1>2. /\ c.batch = cnt.batch /\ c.out_ch = cnt.out_ch
      /\ c.out_h = cnt.out_h /\ c.out_w = cnt.out_w
  BY DEF Counters
<1>3. NextOutput =
        IF last_output THEN c
        ELSE IF c.out_w < output_width - 1 THEN [c EXCEPT !.out_w = @ + 1]
        ELSE IF c.out_h < output_height - 1 THEN [c EXCEPT !.out_w = 0, !.out_h = @ + 1]
        ELSE IF c.out_ch < config.output_channels - 1
          THEN [c EXCEPT !.out_w = 0, !.out_h = 0, !.out_ch = @ + 1]
        ELSE [c EXCEPT !.out_w = 0, !.out_h = 0, !.out_ch = 0, !.batch = @ + 1]
  BY DEF NextOutput
<1> HIDE DEF c
<1>4. /\ c.batch \in 0 .. config.batch_size - 1
      /\ c.out_ch \in 0 .. config.output_channels - 1
      /\ c.out_h \in 0 .. output_height - 1 /\ c.out_w \in 0 .. output_width - 1
  BY <1>1 DEF Counters
<1>5. {output_height, output_width, config.output_channels, config.batch_size} \subseteq Nat \ {0}
  BY ConfigResult, Dimensions
<1>6. /\ c.out_w < output_width - 1 => c.out_w + 1 \in 0 .. output_width - 1
      /\ c.out_h < output_height - 1 => c.out_h + 1 \in 0 .. output_height - 1
      /\ c.out_ch < config.output_channels - 1 => c.out_ch + 1 \in 0 .. config.output_channels - 1
  BY <1>4, <1>5
<1>7. ASSUME ~last_output, ~(c.out_w < output_width - 1), ~(c.out_h < output_height - 1),
             ~(c.out_ch < config.output_channels - 1)
      PROVE  c.batch + 1 \in 0 .. config.batch_size - 1
  <2>1. c.batch # config.batch_size - 1
    BY <1>2, <1>4, <1>5, <1>7 DEF last_output
  <2> QED
    BY <1>4, <1>5, <2>1
<1>8. /\ c.out_w + 1 \in 0 .. output_width - 1 => [c EXCEPT !.out_w = @ + 1] \in Counters
      /\ c.out_h + 1 \in 0 .. output_height - 1 =>
           [c EXCEPT !.out_w = 0, !.out_h = @ + 1] \in Counters
      /\ c.out_ch + 1 \in 0 .. config.output_channels - 1 =>
           [c EXCEPT !.out_w = 0, !.out_h = 0, !.out_ch = @ + 1] \in Counters
      /\ c.batch + 1 \in 0 .. config.batch_size - 1 =>
           [c EXCEPT !.out_w = 0, !.out_h = 0, !.out_ch = 0, !.batch = @ + 1] \in Counters
  BY <1>1, Ranges, Advance DEF Counters
<1> QED
  BY <1>1, <1>3, <1>6, <1>7, <1>8

(* The four counters of an output position address a word of the result. *)
LEMMA OutputAddress ==
  ASSUME config \in Configs, cnt \in Counters
  PROVE  output_addr \in 0 .. Volume(ResultShape) - 1
<1> DEFINE B == config.batch_size
           H == output_height
           W == output_width
           O == config.output_channels
           x == (cnt.batch * H) + cnt.out_h
           y == (x * W) + cnt.out_w
<1>1. B \in Nat /\ H \in Nat /\ W \in Nat /\ O \in Nat
  BY ConfigResult, Dimensions
<1>2. /\ cnt.batch \in 0 .. B - 1 /\ cnt.out_h \in 0 .. H - 1
      /\ cnt.out_w \in 0 .. W - 1 /\ cnt.out_ch \in 0 .. O - 1
  BY DEF Counters
<1>3. output_addr = (y * O) + cnt.out_ch
  BY DEF output_addr
<1>4. Volume(ResultShape) = ((B * H) * W) * O
  BY DEF Volume, ResultShape
<1> HIDE DEF B, H, W, O
<1>5. x \in 0 .. (B * H) - 1 /\ B * H \in Nat
  BY <1>1, <1>2, Digit
<1> HIDE DEF x
<1>6. y \in 0 .. ((B * H) * W) - 1 /\ (B * H) * W \in Nat
  BY <1>1, <1>2, <1>5, Digit
<1> HIDE DEF y
<1>7. (y * O) + cnt.out_ch \in 0 .. (((B * H) * W) * O) - 1
  BY <1>1, <1>2, <1>6, Digit
<1> QED
  BY <1>3, <1>4, <1>7

(* A result that fits its region is written inside it. *)
LEMMA WrittenAddress ==
  ASSUME config \in Configs, cnt \in Counters, Fits
  PROVE  /\ (output_addr + OutputBase) % Size = output_addr + OutputBase
         /\ output_addr + OutputBase >= OutputBase
         /\ output_addr + OutputBase < OutputBase + Volume(ResultShape)
<1> DEFINE v == Volume(ResultShape)
<1>1. output_addr \in 0 .. v - 1
  BY OutputAddress
<1>2. v <= Size - OutputBase /\ OutputBase \in Nat /\ Size \in Nat
  BY RegionAssumption DEF Fits
<1>3. v \in Int
  <2>1. {output_height, output_width, config.output_channels, config.batch_size} \subseteq Int
    BY ConfigResult, Dimensions
  <2> QED
    BY <2>1 DEF Volume, ResultShape
<1> HIDE DEF v
<1>4. output_addr + OutputBase \in Addr
  BY <1>1, <1>2, <1>3 DEF Addr
<1>5. output_addr + OutputBase \in Int
  BY <1>4 DEF Addr
<1> QED
  BY <1>1, <1>2, <1>3, <1>4, <1>5, Decoded DEF v

(* The addresses are numbers. *)
LEMMA Addresses ==
  ASSUME config \in Configs, cnt \in Counters
  PROVE  {input_addr, weight_addr, output_addr, cnt.out_ch, rdaddress} \subseteq Int
<1>1. {cnt.batch, cnt.out_ch, cnt.out_h, cnt.out_w, cnt.in_ch, cnt.kh, cnt.kw} \subseteq Int
  BY DEF Counters
<1>2. {config.kernel_size, config.stride, config.padding, config.input_channels,
       config.output_channels, output_height, output_width, Height, Width,
       WeightBase, BiasBase} \subseteq Int
  BY ConfigResult, Dimensions, RegionAssumption
<1>3. in_h_pos \in Int /\ in_w_pos \in Int
  BY <1>1, <1>2 DEF in_h_pos, in_w_pos
<1>4. input_addr \in Int
  BY <1>1, <1>2, <1>3 DEF input_addr
<1>5. weight_addr \in Int
  BY <1>1, <1>2 DEF weight_addr
<1>6. output_addr \in Int
  BY <1>1, <1>2 DEF output_addr
<1>7. rdaddress \in Int
  <2>1. /\ input_addr \in Int /\ weight_addr + WeightBase \in Int
        /\ cnt.out_ch + BiasBase \in Int
    BY <1>1, <1>2, <1>4, <1>5
  <2> QED
    BY <2>1 DEF rdaddress
<1> QED
  BY <1>1, <1>4, <1>5, <1>6, <1>7

(* The type invariant in the terms of the lemmas. *)
LEMMA TypeResult == TypeOK => config \in Configs /\ cnt \in Counters
BY DEF TypeOK, Counters

-----------------------------------------------------------------------------
(* Types. *)
LEMMA PhaseResult ==
  ASSUME conv_read_phase \in Phases, conv_read_phase # Ready
  PROVE  NextPhase \in Phases
BY DEF Phases, Ready, Done, At, NextPhase, AfterSample

LEMMA ReadResult ==
  ASSUME TypeOK, NEW a \in Int, Read(a)
  PROVE  ram' = ram /\ address_b' \in Addr
BY Decoded DEF Read

LEMMA InitType == Init => TypeOK
<1> SUFFICES ASSUME Init PROVE TypeOK
  OBVIOUS
<1>1. cnt \in Counters
  BY NoCountResult DEF Init
<1>2. 0 \in Addr
  BY RegionAssumption DEF Addr
<1> QED
  BY <1>1, <1>2 DEF Init, TypeOK, Counters, Phases, Done, Ready, At, NoOperands

LEMMA LaunchType == TypeOK /\ Launch => TypeOK'
<1> SUFFICES ASSUME TypeOK, Launch PROVE TypeOK'
  OBVIOUS
<1>1. config' \in Configs /\ cnt' = NoCount
  BY DEF Launch
<1>2. NoCount \in Counters'
  BY <1>1, OutDimPositive, ConfigResult
     DEF NoCount, Counters, output_height, output_width
<1>3. 0 \in Addr
  BY RegionAssumption DEF Addr
<1> QED
  BY <1>1, <1>2, <1>3 DEF Launch, TypeOK, Counters, Phases, Done, Ready, At

LEMMA FetchType == TypeOK /\ Fetch => TypeOK'
<1> SUFFICES ASSUME TypeOK, Fetch PROVE TypeOK'
  OBVIOUS
<1>1. ram' = ram /\ address_b' \in Addr
  BY TypeResult, Addresses, ReadResult DEF Fetch
<1>2. conv_read_phase' \in Phases
  BY PhaseResult DEF Fetch, TypeOK
<1>3. DOMAIN data_reg' = DOMAIN data_reg
  BY DEF Fetch
<1>4. UNCHANGED <<config, top_state, current_state, cnt, mult_result>>
  BY DEF Fetch, mac
<1> QED
  BY <1>1, <1>2, <1>3, <1>4 DEF TypeOK, output_height, output_width

LEMMA AccumulateType == TypeOK /\ Accumulate => TypeOK'
<1> SUFFICES ASSUME TypeOK, Accumulate PROVE TypeOK'
  OBVIOUS
<1>1. ram' = ram /\ address_b' \in Addr
  BY TypeResult, Addresses, ReadResult DEF Accumulate
<1>2. cnt' \in Counters
  BY TypeResult, NextTapResult DEF Accumulate
<1>3. Len(mult_result') <= 1
  <2>1. mult_result' = <<>> \/ mult_result' = << <<data_reg.INPUT, data_reg.WEIGHT>> >>
    BY DEF Accumulate
  <2> QED
    BY <2>1
<1>4. /\ UNCHANGED <<config, top_state, data_reg>>
      /\ conv_read_phase' = Done
      /\ current_state' \in {"WRITE_OUTPUT", "CONV_COMPUTE"}
  BY DEF Accumulate
<1> QED
  BY <1>1, <1>2, <1>3, <1>4
     DEF TypeOK, Counters, output_height, output_width, Phases, Done, Ready, At

LEMMA WriteOutputType == TypeOK /\ WriteOutput => TypeOK'
<1> SUFFICES ASSUME TypeOK, WriteOutput PROVE TypeOK'
  OBVIOUS
<1>1. output_addr + OutputBase \in Int
  BY TypeResult, Addresses, RegionAssumption
<1>2. DOMAIN ram' = DOMAIN ram /\ address_b' \in Addr
  BY <1>1, Decoded DEF WriteOutput, WriteRam
<1>3. cnt' \in Counters
  BY TypeResult, NextOutputResult DEF WriteOutput
<1>4. /\ UNCHANGED <<config, top_state, data_reg>>
      /\ conv_read_phase' = Done /\ mult_result' = <<>>
      /\ current_state' \in {"DONE_ST", "CONV_COMPUTE"}
  BY DEF WriteOutput
<1> QED
  BY <1>2, <1>3, <1>4
     DEF TypeOK, Counters, output_height, output_width, Phases, Done, Ready, At

LEMMA EndType == TypeOK /\ (Finish \/ Settle \/ Reset) => TypeOK'
<1> SUFFICES ASSUME TypeOK, Finish \/ Settle \/ Reset PROVE TypeOK'
  OBVIOUS
<1>1. ram' = ram /\ address_b' \in Addr
  BY ReadResult DEF Finish, Settle, Reset
<1>2. cnt' \in Counters
  BY TypeResult, NoCountResult DEF Finish, Settle, Reset, mac
<1>3. config' = config /\ config \in Configs
  BY DEF Finish, Settle, Reset, TypeOK
<1>4. conv_read_phase' \in Phases
  BY DEF Finish, Settle, Reset, TypeOK, Phases
<1>5. Len(mult_result') <= 1
  BY DEF Finish, Settle, Reset, mac, TypeOK
<1>6. DOMAIN data_reg' = {"INPUT", "WEIGHT", "BIAS"}
  BY DEF Finish, Settle, Reset, TypeOK, NoOperands
<1>7. /\ current_state' \in {"IDLE", "CONV_COMPUTE", "WRITE_OUTPUT", "DONE_ST"}
      /\ top_state' \in {"IDLE", "CONV_OP", "DONE_ST"}
  BY DEF Finish, Settle, Reset, TypeOK
<1>8. DOMAIN ram' = Addr
  BY <1>1 DEF TypeOK
<1>9. Counters' = Counters
  BY <1>3 DEF Counters, output_height, output_width
<1> QED
  BY <1>1, <1>2, <1>3, <1>4, <1>5, <1>6, <1>7, <1>8, <1>9, Zenon
     DEF TypeOK, Counters

LEMMA TypeStep == TypeOK /\ [Next]_vars => TypeOK'
<1> SUFFICES ASSUME TypeOK, [Next]_vars PROVE TypeOK'
  OBVIOUS
<1>1. CASE Next
  BY <1>1, LaunchType, FetchType, AccumulateType, WriteOutputType, EndType DEF Next, Clock
<1>2. CASE UNCHANGED vars
  BY <1>2 DEF vars, ports, mac, TypeOK, output_height, output_width
<1> QED
  BY <1>1, <1>2

(* The counters stay within their loops, the sequencer within its phases. *)
THEOREM TypeCorrect == Spec => []TypeOK
BY InitType, TypeStep, PTL DEF Spec

-----------------------------------------------------------------------------
(* Operands. *)
LEMMA InitFetch == Init => FetchInv
BY DEF Init, FetchInv, AddressHeld, OperandsHeld, FetchesWhileComputing, OperandsAreAddressed,
       Done, Ready, At

(* The addresses stay while the sequencer is at work. *)
LEMMA AddressesStay ==
  ASSUME UNCHANGED <<config, cnt>>
  PROVE  /\ UNCHANGED <<input_addr, weight_addr, first_of_kernel>>
         /\ conv_read_phase'[1] = conv_read_phase[1] => UNCHANGED rdaddress
BY DEF input_addr, input_in_bounds, in_h_pos, in_w_pos, weight_addr, first_of_kernel, rdaddress

(* A clock of the fetch: the address, the word behind it, or the sample. *)
LEMMA FetchStep == TypeOK /\ FetchInv /\ Fetch => FetchInv'
<1> SUFFICES ASSUME TypeOK, FetchInv, Fetch PROVE FetchInv'
  OBVIOUS
<1>1. /\ UNCHANGED <<config, cnt, ram, top_state, current_state>>
      /\ current_state = "CONV_COMPUTE"
      /\ conv_read_phase # Ready /\ conv_read_phase' = NextPhase
      /\ address_b' = rdaddress % Size /\ q_b' = ram[address_b]
      /\ data_reg' = IF conv_read_phase[2] = 4
                       THEN [data_reg EXCEPT ![conv_read_phase[1]] = q_b] ELSE data_reg
  BY DEF Fetch, Read, mac
<1>2. FetchesWhileComputing'
  BY <1>1 DEF FetchInv, FetchesWhileComputing
<1>3. /\ UNCHANGED <<input_addr, weight_addr, first_of_kernel>>
      /\ conv_read_phase'[1] = conv_read_phase[1] => UNCHANGED rdaddress
  BY <1>1, AddressesStay
<1>4. CASE conv_read_phase = Done
  <2>1. conv_read_phase' = <<"INPUT", 1>>
    BY <1>1, <1>4 DEF NextPhase, Done, At
  <2> QED
    BY <1>2, <2>1 DEF FetchInv, AddressHeld, OperandsHeld, OperandsAreAddressed, Ready, Done, At
<1>5. ASSUME NEW op \in {"INPUT", "WEIGHT", "BIAS"}, NEW n \in 1 .. 3,
             conv_read_phase = <<op, n>>
      PROVE  FetchInv'
  <2>1. conv_read_phase' = <<op, n + 1>>
    BY <1>1, <1>5 DEF NextPhase, Done, At
  <2>2. UNCHANGED <<rdaddress, data_reg>>
    BY <1>1, <1>3, <1>5, <2>1
  <2>3. AddressHeld'
    BY <1>1, <1>5, <2>1, <2>2 DEF FetchInv, AddressHeld, Ready, Done, At
  <2>4. OperandsHeld'
    BY <1>1, <1>3, <1>5, <2>1, <2>2 DEF FetchInv, OperandsHeld, InputSampled, WeightSampled
  <2>5. OperandsAreAddressed'
    BY <1>5, <2>1 DEF OperandsAreAddressed, Ready, At
  <2> QED
    BY <1>2, <2>3, <2>4, <2>5 DEF FetchInv
<1>6. ASSUME NEW op \in {"INPUT", "WEIGHT", "BIAS"}, conv_read_phase = <<op, 4>>
      PROVE  FetchInv'
  <2>1. q_b = ram[rdaddress % Size]
    BY <1>6 DEF FetchInv, AddressHeld, Ready, Done, At
  <2>2. conv_read_phase' = AfterSample(op)
    BY <1>1, <1>6 DEF NextPhase, Done, At
  <2>3. data_reg' = [data_reg EXCEPT ![op] = q_b] /\ DOMAIN data_reg = {"INPUT", "WEIGHT", "BIAS"}
    BY <1>1, <1>6 DEF TypeOK
  <2>4. CASE op = "INPUT"
    <3>1. conv_read_phase' = <<"WEIGHT", 1>>
      BY <2>2, <2>4 DEF AfterSample, At
    <3>2. InputSampled'
      BY <1>1, <1>3, <1>6, <2>1, <2>3, <2>4 DEF InputSampled, rdaddress
    <3> QED
      BY <1>2, <3>1, <3>2
         DEF FetchInv, AddressHeld, OperandsHeld, OperandsAreAddressed, Ready, Done, At
  <2>5. CASE op = "WEIGHT"
    <3>1. conv_read_phase' = IF first_of_kernel THEN <<"BIAS", 1>> ELSE <<"READY", 0>>
      BY <2>2, <2>5 DEF AfterSample, Ready, At
    <3>2. InputSampled'
      BY <1>1, <1>3, <1>6, <2>3, <2>5 DEF InputSampled, FetchInv, OperandsHeld
    <3>3. WeightSampled'
      BY <1>1, <1>3, <1>6, <2>1, <2>3, <2>5 DEF WeightSampled, rdaddress
    <3> QED
      BY <1>2, <1>3, <3>1, <3>2, <3>3
         DEF FetchInv, AddressHeld, OperandsHeld, OperandsAreAddressed, InputSampled,
             WeightSampled, Ready, Done, At
  <2>6. CASE op = "BIAS"
    <3>1. conv_read_phase' = <<"READY", 0>>
      BY <2>2, <2>6 DEF AfterSample, Ready, At
    <3>2. InputSampled' /\ WeightSampled'
      BY <1>1, <1>3, <1>6, <2>3, <2>6 DEF InputSampled, WeightSampled, FetchInv, OperandsHeld
    <3>3. data_reg'.BIAS = ram'[(cnt'.out_ch + BiasBase) % Size]
      BY <1>1, <1>6, <2>1, <2>3, <2>6 DEF rdaddress
    <3> QED
      BY <1>2, <3>1, <3>2, <3>3
         DEF FetchInv, AddressHeld, OperandsHeld, OperandsAreAddressed, InputSampled,
             WeightSampled, Ready, Done, At
  <2> QED
    BY <2>4, <2>5, <2>6
<1> QED
  <2>1. \/ conv_read_phase = Done
        \/ \E op \in {"INPUT", "WEIGHT", "BIAS"}, n \in 1 .. 4 : conv_read_phase = <<op, n>>
    BY <1>1 DEF TypeOK, Phases
  <2> QED
    BY <1>4, <1>5, <1>6, <2>1

(* Every other step ends the fetch, or finds it ended. *)
LEMMA OtherFetch ==
  TypeOK /\ FetchInv /\ (Launch \/ Accumulate \/ WriteOutput \/ Finish \/ Settle \/ Reset)
    => FetchInv'
<1> SUFFICES ASSUME TypeOK, FetchInv,
                    Launch \/ Accumulate \/ WriteOutput \/ Finish \/ Settle \/ Reset
             PROVE  FetchInv'
  OBVIOUS
<1>1. conv_read_phase' = Done
  BY DEF Launch, Accumulate, WriteOutput, Finish, Settle, Reset, FetchInv, FetchesWhileComputing
<1>2. current_state' # "IDLE" => top_state' = "CONV_OP"
  BY DEF Launch, Accumulate, WriteOutput, Finish, Settle, Reset, FetchInv, FetchesWhileComputing
<1> QED
  BY <1>1, <1>2
     DEF FetchInv, AddressHeld, OperandsHeld, FetchesWhileComputing, OperandsAreAddressed,
         Done, Ready, At

LEMMA FetchInvStep == TypeOK /\ FetchInv /\ [Next]_vars => FetchInv'
<1> SUFFICES ASSUME TypeOK, FetchInv, [Next]_vars PROVE FetchInv'
  OBVIOUS
<1>1. CASE Next
  BY <1>1, FetchStep, OtherFetch DEF Next, Clock
<1>2. CASE UNCHANGED vars
  <2>1. /\ UNCHANGED <<config, cnt, ram, top_state, current_state, conv_read_phase, address_b, q_b,
                       data_reg>>
        /\ UNCHANGED <<input_addr, weight_addr, first_of_kernel, rdaddress>>
    BY <1>2, AddressesStay DEF vars, ports, mac
  <2> QED
    BY <2>1 DEF FetchInv, AddressHeld, OperandsHeld, FetchesWhileComputing, OperandsAreAddressed,
                InputSampled, WeightSampled
<1> QED
  BY <1>1, <1>2

(* Every product is of the two words at the addresses the block asks for, and
   the bias of its own channel, however the sequencer's fetches and the
   RAM's latency interleave with resets and results.                       *)
THEOREM OperandsCorrect == Spec => []OperandsAreAddressed
<1>1. FetchInv => OperandsAreAddressed
  BY DEF FetchInv
<1> QED
  BY <1>1, InitType, TypeStep, InitFetch, FetchInvStep, PTL DEF Spec

-----------------------------------------------------------------------------
(* The RAM around the result. *)
LEMMA KeptStep == TypeOK /\ OperandsAreKept /\ [Next]_vars => OperandsAreKept'
<1> SUFFICES ASSUME TypeOK, OperandsAreKept, [Next]_vars PROVE OperandsAreKept'
  OBVIOUS
<1>1. CASE Launch
  BY <1>1 DEF Launch, OperandsAreKept
<1>2. CASE WriteOutput
  <2>1. config' = config /\ Fits' = Fits /\ Volume(ResultShape)' = Volume(ResultShape)
    BY <1>2 DEF WriteOutput, Fits, Volume, ImageShape, KernelShape, ResultShape,
                output_height, output_width
  <2>2. ram' = [ram EXCEPT ![(output_addr + OutputBase) % Size] = output_data]
    BY <1>2 DEF WriteOutput, WriteRam
  <2>3. DOMAIN ram = Addr
    BY DEF TypeOK
  <2>4. ASSUME Fits, NEW a \in Addr, a < OutputBase \/ a >= OutputBase + Volume(ResultShape)
        PROVE  ram'[a] = Loaded(a)
    <3>1. a # (output_addr + OutputBase) % Size
      <4> DEFINE v == Volume(ResultShape)
                 o == output_addr + OutputBase
      <4>1. o % Size = o /\ o >= OutputBase /\ o < OutputBase + v
        BY <2>4, TypeResult, WrittenAddress
      <4>2. a < OutputBase \/ a >= OutputBase + v
        BY <2>4
      <4>3. {a, o, v, OutputBase} \subseteq Int
        <5>1. output_addr \in Int
          BY TypeResult, Addresses
        <5>2. {output_height, output_width, config.output_channels, config.batch_size} \subseteq Int
          BY TypeResult, ConfigResult, Dimensions
        <5>3. v \in Int
          BY <5>2 DEF Volume, ResultShape
        <5> QED
          BY <5>1, <5>3, RegionAssumption DEF Addr
      <4> HIDE DEF v, o
      <4>4. a # o
        BY <4>1, <4>2, <4>3
      <4> QED
        BY <4>1, <4>4 DEF o
    <3>2. ram'[a] = ram[a]
      BY <2>2, <2>3, <3>1
    <3> QED
      BY <2>4, <3>2 DEF OperandsAreKept
  <2> QED
    BY <2>1, <2>4 DEF OperandsAreKept
<1>3. CASE Fetch \/ Accumulate \/ Finish \/ Settle \/ Reset \/ UNCHANGED vars
  <2>1. UNCHANGED <<ram, config>>
    BY <1>3 DEF Fetch, Accumulate, Finish, Settle, Reset, Read, vars, ports
  <2> QED
    BY <2>1 DEF OperandsAreKept, Fits, Volume, ImageShape, KernelShape, ResultShape,
                output_height, output_width
<1> QED
  BY <1>1, <1>2, <1>3 DEF Next, Clock

(* An operation whose tensors fit their regions writes nothing but its
   result, for every plane, kernel, stride, padding and number of channels. *)
THEOREM OperandsUntouched == Spec => []OperandsAreKept
<1>1. Init => OperandsAreKept
  BY DEF Init, OperandsAreKept
<1> QED
  BY <1>1, InitType, TypeStep, KeptStep, PTL DEF Spec
-----------------------------------------------------------------------------
(* The sum under way.  A tap is <<row, column, channel>> of the kernel; of an
   output position it contributes the product of one pixel and one weight if
   it falls on the image.                                                  *)
Kernel == (0 .. config.kernel_size - 1) \X (0 .. config.kernel_size - 1)
            \X (0 .. config.input_channels - 1)

Inside(h, w, t) ==
  /\ h * config.stride + t[1] - config.padding \in 0 .. Height - 1
  /\ w * config.stride + t[2] - config.padding \in 0 .. Width - 1

Product(b, h, w, o, t) ==
  <<Pixel(<<b, h * config.stride + t[1] - config.padding,
            w * config.stride + t[2] - config.padding, t[3]>>),
    Weight(<<t[1], t[2], t[3], o>>)>>

(* The taps behind the three inner counters, in the order of the loops. *)
TapBefore(t) ==
  \/ t[3] < cnt.in_ch
  \/ t[3] = cnt.in_ch /\ t[1] < cnt.kh
  \/ t[3] = cnt.in_ch /\ t[1] = cnt.kh /\ t[2] < cnt.kw

(* The output positions behind the four outer ones. *)
OutputBefore(b, h, w, o) ==
  \/ b < cnt.batch
  \/ b = cnt.batch /\ o < cnt.out_ch
  \/ b = cnt.batch /\ o = cnt.out_ch /\ h < cnt.out_h
  \/ b = cnt.batch /\ o = cnt.out_ch /\ h = cnt.out_h /\ w < cnt.out_w

Distinct(s) == \A i, j \in 1 .. Len(s) : s[i] = s[j] => i = j

CurrentProduct(t) == Product(cnt.batch, cnt.out_h, cnt.out_w, cnt.out_ch, t)
CurrentTaps       == Taps(cnt.batch, cnt.out_h, cnt.out_w, cnt.out_ch)

Gathered ==
  {t \in Kernel : /\ Inside(cnt.out_h, cnt.out_w, t)
                  /\ current_state = "CONV_COMPUTE" => TapBefore(t)}

(* What is added and what is still in the multiplier are the products of the
   taps gathered, each once.                                               *)
SumSoFar ==
  Fits /\ current_state \in {"CONV_COMPUTE", "WRITE_OUTPUT"} =>
    /\ conv_accumulator \in Seq(CurrentTaps) /\ mult_result \in Seq(CurrentTaps)
    /\ Elements(conv_accumulator \o mult_result) = {CurrentProduct(t) : t \in Gathered}
    /\ Distinct(conv_accumulator \o mult_result)

(* The bias is taken with the first tap. *)
BiasTaken ==
  /\ Fits
  /\ \/ current_state = "WRITE_OUTPUT"
     \/ current_state = "CONV_COMPUTE" /\ ~first_of_kernel
  => bias_reg = Bias(cnt.out_ch)

(* A position's word is its convolution. *)
Convolved(b, h, w, o) ==
  LET r == Result(<<b, h, w, o>>)
  IN  /\ r \notin {Loaded(a) : a \in Addr}
      /\ Elements(r.sum) = Taps(b, h, w, o)
      /\ Distinct(r.sum)
      /\ r.bias = Bias(o)

Written(b, h, w, o) ==
  \/ current_state \in {"CONV_COMPUTE", "WRITE_OUTPUT"} /\ OutputBefore(b, h, w, o)
  \/ current_state = "DONE_ST"
  \/ top_state = "DONE_ST"

ResultsSoFar ==
  Fits => \A b \in 0 .. config.batch_size - 1, h \in 0 .. output_height - 1,
             w \in 0 .. output_width - 1, o \in 0 .. config.output_channels - 1 :
            Written(b, h, w, o) => Convolved(b, h, w, o)

SumInv == SumSoFar /\ BiasTaken /\ ResultsSoFar

(* The four coordinates of a position in row-major order, the address of a
   position as the tensors define it, and the words of a tensor.           *)
Offset(a, b, c, d, q, r, s)       == (((((a * q) + b) * r) + c) * s) + d
AddressOf(a, b, c, d, p, q, r, s) == RowMajor(<<a, b, c, d>>, <<p, q, r, s>>)
Words(p, q, r, s)                 == Volume(<<p, q, r, s>>)
Digits(a, b, c, d, q, r, s) ==
  /\ q \in Nat /\ r \in Nat /\ s \in Nat
  /\ a \in Int /\ b \in 0 .. q - 1 /\ c \in 0 .. r - 1 /\ d \in 0 .. s - 1

LEMMA RowMajorOfFour ==
  ASSUME NEW a \in Int, NEW b \in Int, NEW c \in Int, NEW d \in Int,
         NEW p \in Int, NEW q \in Int, NEW r \in Int, NEW s \in Int
  PROVE  RowMajor(<<a, b, c, d>>, <<p, q, r, s>>) = Offset(a, b, c, d, q, r, s)
<1> DEFINE index == <<a, b, c, d>>
           shape == <<p, q, r, s>>
           Rec(f) == f = [i \in 0 .. Len(index) |->
                            IF i = 0 THEN 0 ELSE f[i - 1] * shape[i] + index[i]]
           x == (a * q) + b
           y == (x * r) + c
           g == [i \in 0 .. 4 |-> IF i = 0 THEN 0 ELSE IF i = 1 THEN a ELSE IF i = 2 THEN x
                                  ELSE IF i = 3 THEN y ELSE (y * s) + d]
           f == CHOOSE h : Rec(h)
<1>1. Len(index) = 4
  OBVIOUS
<1>2. RowMajor(<<a, b, c, d>>, <<p, q, r, s>>) = f[4]
  BY <1>1 DEF RowMajor
<1>3. Rec(g)
  <2>1. ASSUME NEW i \in 0 .. 4
        PROVE  g[i] = IF i = 0 THEN 0 ELSE g[i - 1] * shape[i] + index[i]
    <3> HIDE DEF x, y
    <3>1. x \in Int /\ y \in Int
      BY DEF x, y
    <3>2. CASE i = 0
      BY <3>2
    <3>3. CASE i = 1
      BY <3>3
    <3>4. CASE i = 2
      BY <3>4 DEF x
    <3>5. CASE i = 3
      BY <3>5 DEF y
    <3>6. CASE i = 4
      BY <3>6
    <3> QED
      BY <3>2, <3>3, <3>4, <3>5, <3>6
  <2> HIDE DEF index, shape, x, y
  <2> QED
    BY <1>1, <2>1
<1>4. Rec(f)
  BY <1>3
<1> HIDE DEF f, g
<1>5. ASSUME NEW i \in 0 .. 4
      PROVE  f[i] = IF i = 0 THEN 0 ELSE f[i - 1] * shape[i] + index[i]
  BY <1>1, <1>4, <1>5
<1>6. f[0] = 0
  BY <1>5
<1>7. f[1] = a
  BY <1>5, <1>6
<1>8. f[2] = (a * q) + b
  BY <1>5, <1>7
<1>9. f[3] = ((((a * q) + b) * r) + c)
  BY <1>5, <1>8
<1>10. f[4] = f[3] * s + d
  BY <1>5
<1> QED
  BY <1>2, <1>9, <1>10 DEF Offset

(* The digits of a row-major address are those of one position only. *)
LEMMA DigitsOnce ==
  ASSUME NEW Y \in Nat, NEW x \in Int, NEW z \in Int, NEW y \in 0 .. Y - 1, NEW v \in 0 .. Y - 1,
         (x * Y) + y = (z * Y) + v
  PROVE  x = z /\ y = v
<1>1. (x - z) * Y = v - y
  OBVIOUS
<1>2. -Y < (x - z) * Y /\ (x - z) * Y < Y
  BY <1>1
<1> DEFINE e == x - z
<1>3. e \in Int /\ -Y < e * Y /\ e * Y < Y
  BY <1>2
<1> HIDE DEF e
<1>4. ~(e >= 1)
  BY <1>3
<1>5. ~(e <= -1)
  BY <1>3
<1>6. e = 0
  BY <1>3, <1>4, <1>5
<1>7. x = z
  BY <1>6 DEF e
<1> QED
  BY <1>7

(* Four digits address a word of the tensor ... *)
LEMMA TensorAddress ==
  ASSUME NEW p \in Nat, NEW q \in Nat, NEW r \in Nat, NEW s \in Nat,
         NEW a \in 0 .. p - 1, NEW b \in 0 .. q - 1, NEW c \in 0 .. r - 1, NEW d \in 0 .. s - 1
  PROVE  /\ AddressOf(a, b, c, d, p, q, r, s) = Offset(a, b, c, d, q, r, s)
         /\ Offset(a, b, c, d, q, r, s) \in 0 .. Words(p, q, r, s) - 1
         /\ Words(p, q, r, s) \in Nat
<1>1. AddressOf(a, b, c, d, p, q, r, s) = Offset(a, b, c, d, q, r, s)
  <2>1. a \in Int /\ b \in Int /\ c \in Int /\ d \in Int
    OBVIOUS
  <2>2. p \in Int /\ q \in Int /\ r \in Int /\ s \in Int
    OBVIOUS
  <2> QED
    BY <2>1, <2>2, RowMajorOfFour DEF AddressOf
<1> DEFINE x == (a * q) + b
           y == (x * r) + c
<1>2. x \in 0 .. (p * q) - 1 /\ p * q \in Nat
  BY Digit
<1> HIDE DEF x
<1>3. y \in 0 .. ((p * q) * r) - 1 /\ (p * q) * r \in Nat
  BY <1>2, Digit
<1> HIDE DEF y
<1>4. (y * s) + d \in 0 .. (((p * q) * r) * s) - 1
  BY <1>3, Digit
<1>5. Words(p, q, r, s) = ((p * q) * r) * s /\ ((p * q) * r) * s \in Nat
  BY <1>3 DEF Words, Volume
<1> QED
  BY <1>1, <1>4, <1>5 DEF x, y, Offset

(* ... and no other position has it. *)
LEMMA TensorPosition ==
  ASSUME NEW q, NEW r, NEW s, NEW a, NEW b, NEW c, NEW d, NEW e, NEW f, NEW g, NEW h,
         Digits(a, b, c, d, q, r, s), Digits(e, f, g, h, q, r, s),
         Offset(a, b, c, d, q, r, s) = Offset(e, f, g, h, q, r, s)
  PROVE  a = e /\ b = f /\ c = g /\ d = h
<1>1. /\ q \in Nat /\ r \in Nat /\ s \in Nat
      /\ a \in Int /\ b \in 0 .. q - 1 /\ c \in 0 .. r - 1 /\ d \in 0 .. s - 1
      /\ e \in Int /\ f \in 0 .. q - 1 /\ g \in 0 .. r - 1 /\ h \in 0 .. s - 1
  BY DEF Digits
<1> DEFINE x == (a * q) + b
           y == (x * r) + c
           u == (e * q) + f
           v == (u * r) + g
<1>2. (y * s) + d = (v * s) + h
  BY Zenon DEF Offset
<1>3. x \in Int /\ u \in Int
  BY <1>1
<1>4. y \in Int /\ v \in Int
  <2> HIDE DEF x, u
  <2> QED
    BY <1>3, <1>1
<1>5. y = v /\ d = h
  <2> HIDE DEF y, v
  <2> QED
    BY <1>1, <1>2, <1>4, DigitsOnce
<1>6. x = u /\ c = g
  <2> HIDE DEF x, u
  <2> QED
    BY <1>1, <1>3, <1>5, DigitsOnce
<1>7. a = e /\ b = f
  BY <1>1, <1>6, DigitsOnce
<1> QED
  BY <1>5, <1>6, <1>7

(* One more product behind a sum of different ones. *)
LEMMA OneMore ==
  ASSUME NEW S, NEW s \in Seq(S), NEW p, p \notin Elements(s), Distinct(s)
  PROVE  Elements(s \o <<p>>) = Elements(s) \cup {p} /\ Distinct(s \o <<p>>)
<1> DEFINE u == s \o <<p>>
<1>1. /\ Len(u) = Len(s) + 1 /\ u[Len(s) + 1] = p
      /\ \A i \in 1 .. Len(s) : u[i] = s[i]
      /\ Len(s) \in Nat
  OBVIOUS
<1> HIDE DEF u
<1>2. Elements(u) = Elements(s) \cup {p}
  BY <1>1 DEF Elements
<1>3. Distinct(u)
  BY <1>1 DEF Distinct, Elements
<1> QED
  BY <1>2, <1>3 DEF u

-----------------------------------------------------------------------------
(* The block's addresses are those of the tensors. *)
LEMMA SettingsAreNumbers ==
  ASSUME config \in Configs
  PROVE  /\ config.batch_size \in Nat /\ config.input_channels \in Nat
         /\ config.output_channels \in Nat /\ config.kernel_size \in Nat
         /\ config.stride \in Nat /\ config.padding \in Nat
         /\ Height \in Nat /\ Width \in Nat
         /\ output_height \in Nat /\ output_width \in Nat
BY ConfigResult, Dimensions, RegionAssumption

LEMMA PixelAddress ==
  ASSUME config \in Configs, cnt \in Counters, input_in_bounds
  PROVE  /\ Loaded(input_addr) = Pixel(<<cnt.batch, in_h_pos, in_w_pos, cnt.in_ch>>)
         /\ input_addr \in 0 .. Volume(ImageShape) - 1
         /\ Volume(ImageShape) \in Nat
<1>1. /\ cnt.batch \in 0 .. config.batch_size - 1 /\ in_h_pos \in 0 .. Height - 1
      /\ in_w_pos \in 0 .. Width - 1 /\ cnt.in_ch \in 0 .. config.input_channels - 1
  BY DEF Counters, input_in_bounds
<1>2. /\ config.batch_size \in Nat /\ Height \in Nat /\ Width \in Nat
      /\ config.input_channels \in Nat
  BY SettingsAreNumbers
<1>3. input_addr = Offset(cnt.batch, in_h_pos, in_w_pos, cnt.in_ch,
                          Height, Width, config.input_channels)
  BY Zenon DEF input_addr, Offset
<1>4. /\ AddressOf(cnt.batch, in_h_pos, in_w_pos, cnt.in_ch,
                   config.batch_size, Height, Width, config.input_channels) = input_addr
      /\ input_addr \in 0 .. Words(config.batch_size, Height, Width, config.input_channels) - 1
      /\ Words(config.batch_size, Height, Width, config.input_channels) \in Nat
  <2> DEFINE a == cnt.batch
             b == in_h_pos
             c == in_w_pos
             d == cnt.in_ch
             p == config.batch_size
             s == config.input_channels
  <2>1. /\ a \in 0 .. p - 1 /\ b \in 0 .. Height - 1 /\ c \in 0 .. Width - 1 /\ d \in 0 .. s - 1
        /\ p \in Nat /\ Height \in Nat /\ Width \in Nat /\ s \in Nat
    BY <1>1, <1>2
  <2> HIDE DEF a, b, c, d, p, s
  <2>2. /\ AddressOf(a, b, c, d, p, Height, Width, s) = Offset(a, b, c, d, Height, Width, s)
        /\ Offset(a, b, c, d, Height, Width, s) \in 0 .. Words(p, Height, Width, s) - 1
        /\ Words(p, Height, Width, s) \in Nat
    BY <2>1, TensorAddress
  <2> QED
    BY <1>3, <2>2, Zenon DEF a, b, c, d, p, s
<1> QED
  BY <1>4, Zenon DEF Pixel, ImageShape, AddressOf, Words

LEMMA WeightAddress ==
  ASSUME config \in Configs, NEW o \in 0 .. config.output_channels - 1, NEW t \in Kernel
  PROVE  LET a == Offset(t[1], t[2], t[3], o, config.kernel_size, config.input_channels,
                         config.output_channels)
         IN  /\ Weight(<<t[1], t[2], t[3], o>>) = Loaded(WeightBase + a)
             /\ a \in 0 .. Volume(KernelShape) - 1
             /\ Volume(KernelShape) \in Nat
<1>1. /\ t[1] \in 0 .. config.kernel_size - 1 /\ t[2] \in 0 .. config.kernel_size - 1
      /\ t[3] \in 0 .. config.input_channels - 1
  BY DEF Kernel
<1>2. /\ config.kernel_size \in Nat /\ config.input_channels \in Nat
      /\ config.output_channels \in Nat
  BY SettingsAreNumbers
<1> DEFINE a == Offset(t[1], t[2], t[3], o, config.kernel_size, config.input_channels,
                       config.output_channels)
<1>3. /\ AddressOf(t[1], t[2], t[3], o, config.kernel_size, config.kernel_size,
                   config.input_channels, config.output_channels) = a
      /\ a \in 0 .. Words(config.kernel_size, config.kernel_size,
                          config.input_channels, config.output_channels) - 1
      /\ Words(config.kernel_size, config.kernel_size,
               config.input_channels, config.output_channels) \in Nat
  BY <1>1, <1>2, TensorAddress
<1> QED
  BY <1>3, Zenon DEF Weight, KernelShape, AddressOf, Words

(* A word is known by its address. *)
LEMMA LoadedOnce ==
  ASSUME NEW a, NEW b, Loaded(a) = Loaded(b)
  PROVE  a = b
<1>1. Loaded(a).at = a /\ Loaded(b).at = b
  BY DEF Loaded
<1> QED
  BY <1>1

(* A tap is known by its weight. *)
LEMMA ProductsDiffer ==
  ASSUME config \in Configs, NEW o \in 0 .. config.output_channels - 1,
         NEW b, NEW h, NEW w, NEW t \in Kernel, NEW u \in Kernel,
         Product(b, h, w, o, t) = Product(b, h, w, o, u)
  PROVE  t = u
<1> DEFINE q == config.kernel_size
           r == config.input_channels
           s == config.output_channels
           x == Offset(t[1], t[2], t[3], o, q, r, s)
           y == Offset(u[1], u[2], u[3], o, q, r, s)
<1>1. Weight(<<t[1], t[2], t[3], o>>) = Weight(<<u[1], u[2], u[3], o>>)
  BY DEF Product
<1>2. /\ Weight(<<t[1], t[2], t[3], o>>) = Loaded(WeightBase + x)
      /\ Weight(<<u[1], u[2], u[3], o>>) = Loaded(WeightBase + y)
      /\ x \in 0 .. Volume(KernelShape) - 1 /\ y \in 0 .. Volume(KernelShape) - 1
      /\ Volume(KernelShape) \in Nat
  BY WeightAddress, Zenon
<1>3. x = y
  <2> HIDE DEF x, y
  <2>1. WeightBase + x = WeightBase + y
    BY <1>1, <1>2, LoadedOnce, Zenon
  <2> QED
    BY <1>2, <2>1, RegionAssumption
<1>4. ASSUME NEW v \in Kernel
      PROVE  Digits(v[1], v[2], v[3], o, q, r, s) /\ v = <<v[1], v[2], v[3]>>
  BY <1>4, SettingsAreNumbers DEF Kernel, Digits
<1>5. t[1] = u[1] /\ t[2] = u[2] /\ t[3] = u[3]
  BY <1>3, <1>4, TensorPosition
<1> QED
  BY <1>4, <1>5

(* The taps by their products. *)
LEMMA TapsResult ==
  ASSUME NEW b, NEW h, NEW w, NEW o
  PROVE  Taps(b, h, w, o) = {Product(b, h, w, o, t) : t \in {u \in Kernel : Inside(h, w, u)}}
BY DEF Taps, Product, Inside, Kernel

(* Below the result, the RAM holds what was loaded. *)
LEMMA KeptWord ==
  ASSUME Fits, OperandsAreKept, NEW a \in Int, 0 <= a, a < OutputBase
  PROVE  ram[a % Size] = Loaded(a)
<1>1. a \in Addr
  BY RegionAssumption DEF Addr
<1>2. a % Size = a
  BY <1>1, Decoded
<1>3. ram[a] = Loaded(a)
  BY <1>1 DEF OperandsAreKept
<1> QED
  BY <1>2, <1>3

(* The tap the counters are at. *)
CurrentTap == <<cnt.kh, cnt.kw, cnt.in_ch>>

LEMMA CurrentTapResult ==
  ASSUME config \in Configs, cnt \in Counters
  PROVE  /\ CurrentTap \in Kernel
         /\ input_in_bounds <=> Inside(cnt.out_h, cnt.out_w, CurrentTap)
<1>1. CurrentTap \in Kernel
  BY DEF Counters, Kernel, CurrentTap
<1>2. input_in_bounds <=> Inside(cnt.out_h, cnt.out_w, CurrentTap)
  BY DEF input_in_bounds, in_h_pos, in_w_pos, Inside, CurrentTap
<1> QED
  BY <1>1, <1>2

(* What the multiplier gets is the product of the tap the counters are at, and
   the bias is the channel's.                                              *)
LEMMA OperandsWanted ==
  ASSUME TypeOK, OperandsAreAddressed, OperandsAreKept, Fits, conv_read_phase = Ready
  PROVE  /\ input_in_bounds => <<data_reg.INPUT, data_reg.WEIGHT>> = CurrentProduct(CurrentTap)
         /\ first_of_kernel => data_reg.BIAS = Bias(cnt.out_ch)
<1>1. config \in Configs /\ cnt \in Counters
  BY TypeResult
<1>2. /\ data_reg.INPUT = ram[input_addr % Size]
      /\ data_reg.WEIGHT = ram[(weight_addr + WeightBase) % Size]
      /\ first_of_kernel => data_reg.BIAS = ram[(cnt.out_ch + BiasBase) % Size]
  BY DEF OperandsAreAddressed
<1>3. /\ WeightBase \in Nat /\ BiasBase \in Nat /\ OutputBase \in Nat
      /\ WeightBase < BiasBase /\ BiasBase < OutputBase
  BY RegionAssumption
<1>4. /\ Volume(ImageShape) <= WeightBase
      /\ Volume(KernelShape) <= BiasBase - WeightBase
      /\ config.output_channels <= OutputBase - BiasBase
  BY DEF Fits
<1>5. cnt.out_ch \in 0 .. config.output_channels - 1 /\ config.output_channels \in Nat
  BY <1>1, SettingsAreNumbers DEF Counters
<1>6. ASSUME input_in_bounds
      PROVE  data_reg.INPUT = Pixel(<<cnt.batch, in_h_pos, in_w_pos, cnt.in_ch>>)
  <2>1. /\ Loaded(input_addr) = Pixel(<<cnt.batch, in_h_pos, in_w_pos, cnt.in_ch>>)
        /\ input_addr \in 0 .. Volume(ImageShape) - 1 /\ Volume(ImageShape) \in Nat
    BY <1>1, <1>6, PixelAddress
  <2>2. input_addr \in Int /\ 0 <= input_addr /\ input_addr < OutputBase
    BY <1>3, <1>4, <2>1
  <2>3. ram[input_addr % Size] = Loaded(input_addr)
    BY <2>2, KeptWord
  <2> QED
    BY <1>2, <2>1, <2>3
<1>7. data_reg.WEIGHT = Weight(<<cnt.kh, cnt.kw, cnt.in_ch, cnt.out_ch>>)
  <2> DEFINE a == weight_addr
             v == Volume(KernelShape)
  <2>1. /\ Weight(<<cnt.kh, cnt.kw, cnt.in_ch, cnt.out_ch>>) = Loaded(WeightBase + a)
        /\ a \in 0 .. v - 1 /\ v \in Nat
    <3>1. CurrentTap \in Kernel /\ CurrentTap[1] = cnt.kh /\ CurrentTap[2] = cnt.kw
          /\ CurrentTap[3] = cnt.in_ch
      BY <1>1, CurrentTapResult DEF CurrentTap
    <3>2. weight_addr = Offset(cnt.kh, cnt.kw, cnt.in_ch, cnt.out_ch, config.kernel_size,
                               config.input_channels, config.output_channels)
      BY Zenon DEF weight_addr, Offset
    <3>3. LET x == Offset(CurrentTap[1], CurrentTap[2], CurrentTap[3], cnt.out_ch,
                          config.kernel_size, config.input_channels, config.output_channels)
          IN  /\ Weight(<<CurrentTap[1], CurrentTap[2], CurrentTap[3], cnt.out_ch>>)
                   = Loaded(WeightBase + x)
              /\ x \in 0 .. v - 1 /\ v \in Nat
      BY <1>1, <1>5, <3>1, WeightAddress, Zenon
    <3> QED
      BY <3>1, <3>2, <3>3, Zenon
  <2> HIDE DEF a, v
  <2>2. WeightBase + a \in Int /\ 0 <= WeightBase + a /\ WeightBase + a < OutputBase
    BY <1>3, <1>4, <2>1 DEF v
  <2>3. ram[(WeightBase + a) % Size] = Loaded(WeightBase + a)
    BY <2>2, KeptWord
  <2>4. WeightBase + a = weight_addr + WeightBase
    BY <1>3, <2>1 DEF a
  <2> QED
    BY <1>2, <2>1, <2>3, <2>4
<1>8. ASSUME first_of_kernel PROVE data_reg.BIAS = Bias(cnt.out_ch)
  <2> DEFINE a == cnt.out_ch + BiasBase
  <2>1. a \in Int /\ 0 <= a /\ a < OutputBase /\ a = BiasBase + cnt.out_ch
    BY <1>3, <1>4, <1>5
  <2> HIDE DEF a
  <2>2. ram[a % Size] = Loaded(a)
    BY <2>1, KeptWord
  <2> QED
    BY <1>2, <1>8, <2>1, <2>2 DEF a, Bias
<1>9. CurrentProduct(CurrentTap) = <<Pixel(<<cnt.batch, in_h_pos, in_w_pos, cnt.in_ch>>),
                                     Weight(<<cnt.kh, cnt.kw, cnt.in_ch, cnt.out_ch>>)>>
  BY DEF CurrentProduct, Product, CurrentTap, in_h_pos, in_w_pos
<1> QED
  BY <1>6, <1>7, <1>8, <1>9

-----------------------------------------------------------------------------
(* What depends on the settings only stays with them. *)
LEMMA SettingsStay ==
  ASSUME config' = config
  PROVE  /\ Fits' = Fits /\ Kernel' = Kernel
         /\ output_height' = output_height /\ output_width' = output_width
         /\ Volume(ResultShape)' = Volume(ResultShape)
         /\ \A h, w, t : Inside(h, w, t)' = Inside(h, w, t)
         /\ \A b, h, w, o : Taps(b, h, w, o)' = Taps(b, h, w, o)
         /\ \A b, h, w, o, t : Product(b, h, w, o, t)' = Product(b, h, w, o, t)
<1>1. /\ output_height' = output_height /\ output_width' = output_width
      /\ ImageShape' = ImageShape /\ KernelShape' = KernelShape
  BY DEF output_height, output_width, ImageShape, KernelShape
<1>2. ResultShape' = ResultShape
  BY <1>1 DEF ResultShape
<1>3. Fits' = Fits /\ Volume(ResultShape)' = Volume(ResultShape)
  BY <1>1, <1>2 DEF Fits, Volume
<1>4. Kernel' = Kernel
  BY DEF Kernel
<1>5. \A i : Pixel(i)' = Pixel(i) /\ Weight(i)' = Weight(i)
  BY <1>1 DEF Pixel, Weight
<1>6. \A h, w, t : Inside(h, w, t)' = Inside(h, w, t)
  BY DEF Inside
<1>7. \A b, h, w, o, t : Product(b, h, w, o, t)' = Product(b, h, w, o, t)
  BY <1>5 DEF Product
<1>8. \A b, h, w, o : Taps(b, h, w, o)' = Taps(b, h, w, o)
  <2> SUFFICES ASSUME NEW b, NEW h, NEW w, NEW o
               PROVE  Taps(b, h, w, o)' = Taps(b, h, w, o)
    OBVIOUS
  <2>1. Taps(b, h, w, o)
          = {Product(b, h, w, o, t) : t \in {u \in Kernel : Inside(h, w, u)}}
    BY TapsResult
  <2>2. Taps(b, h, w, o)'
          = {Product(b, h, w, o, t)' : t \in {u \in Kernel' : Inside(h, w, u)'}}
    BY DEF Taps, Product, Inside, Kernel
  <2> QED
    BY <1>4, <1>6, <1>7, <2>1, <2>2
<1> QED
  BY <1>1, <1>3, <1>4, <1>6, <1>7, <1>8

(* A new output position starts with nothing gathered. *)
StartsOver ==
  /\ config \in Configs /\ cnt \in Counters
  /\ cnt.in_ch = 0 /\ cnt.kh = 0 /\ cnt.kw = 0
  /\ current_state # "WRITE_OUTPUT"
  /\ conv_accumulator = <<>> /\ mult_result = <<>>

LEMMA NothingGathered == StartsOver => SumSoFar /\ BiasTaken
<1> SUFFICES ASSUME StartsOver PROVE SumSoFar /\ BiasTaken
  OBVIOUS
<1> USE DEF StartsOver
<1>1. ASSUME current_state = "CONV_COMPUTE" PROVE Gathered = {}
  <2>1. \A t \in Kernel : t[1] >= 0 /\ t[2] >= 0 /\ t[3] >= 0
                          /\ t[1] \in Int /\ t[2] \in Int /\ t[3] \in Int
    BY SettingsAreNumbers DEF Kernel
  <2>2. \A t \in Kernel : ~TapBefore(t)
    BY <2>1 DEF TapBefore
  <2> QED
    BY <1>1, <2>2 DEF Gathered
<1>2. /\ <<>> \o <<>> = <<>> /\ Elements(<<>>) = {} /\ Distinct(<<>>)
      /\ \A S : <<>> \in Seq(S)
  BY DEF Elements, Distinct
<1>3. SumSoFar
  BY <1>1, <1>2 DEF SumSoFar
<1>4. BiasTaken
  BY DEF BiasTaken, first_of_kernel
<1> QED
  BY <1>3, <1>4

(* The counters after a tap, in the order of the loops. *)
LEMMA TapAdvances ==
  ASSUME config \in Configs, cnt \in Counters
  PROVE  /\ NextTap.batch = cnt.batch /\ NextTap.out_ch = cnt.out_ch
         /\ NextTap.out_h = cnt.out_h /\ NextTap.out_w = cnt.out_w
         /\ kernel_done =>
              \A t \in Kernel : TapBefore(t) \/ t = CurrentTap
         /\ ~kernel_done =>
              /\ ~(NextTap.in_ch = 0 /\ NextTap.kh = 0 /\ NextTap.kw = 0)
              /\ \A t \in Kernel :
                   (\/ t[3] < NextTap.in_ch
                    \/ t[3] = NextTap.in_ch /\ t[1] < NextTap.kh
                    \/ t[3] = NextTap.in_ch /\ t[1] = NextTap.kh /\ t[2] < NextTap.kw)
                   <=> TapBefore(t) \/ t = CurrentTap
         /\ ~TapBefore(CurrentTap)
<1> DEFINE k == config.kernel_size
           n == config.input_channels
           x == cnt.kh
           y == cnt.kw
           z == cnt.in_ch
<1>1. /\ k \in Nat \ {0} /\ n \in Nat \ {0}
      /\ x \in 0 .. k - 1 /\ y \in 0 .. k - 1 /\ z \in 0 .. n - 1
  BY ConfigResult DEF Counters
<1>2. ASSUME NEW t \in Kernel
      PROVE  /\ t[1] \in 0 .. k - 1 /\ t[2] \in 0 .. k - 1 /\ t[3] \in 0 .. n - 1
             /\ t = CurrentTap <=> t[1] = x /\ t[2] = y /\ t[3] = z
             /\ TapBefore(t) <=> \/ t[3] < z
                                 \/ t[3] = z /\ t[1] < x
                                 \/ t[3] = z /\ t[1] = x /\ t[2] < y
  <2>1. /\ t[1] \in 0 .. k - 1 /\ t[2] \in 0 .. k - 1 /\ t[3] \in 0 .. n - 1
        /\ t = <<t[1], t[2], t[3]>>
    BY DEF Kernel
  <2> QED
    BY <2>1 DEF CurrentTap, TapBefore
<1>3. ~TapBefore(CurrentTap)
  <2>1. CurrentTap \in Kernel /\ CurrentTap[1] = x /\ CurrentTap[2] = y /\ CurrentTap[3] = z
    BY CurrentTapResult DEF CurrentTap
  <2> QED
    BY <1>1, <2>1 DEF TapBefore
<1>4. kernel_done <=> x = k - 1 /\ y = k - 1 /\ z = n - 1
  BY DEF kernel_done
<1>5. /\ NextTap.batch = cnt.batch /\ NextTap.out_ch = cnt.out_ch
      /\ NextTap.out_h = cnt.out_h /\ NextTap.out_w = cnt.out_w
      /\ NextTap.kw = IF y < k - 1 THEN y + 1 ELSE IF x < k - 1 \/ z < n - 1 THEN 0 ELSE y
      /\ NextTap.kh = IF y < k - 1 THEN x ELSE IF x < k - 1 THEN x + 1
                      ELSE IF z < n - 1 THEN 0 ELSE x
      /\ NextTap.in_ch = IF y < k - 1 \/ x < k - 1 \/ ~(z < n - 1) THEN z ELSE z + 1
  BY DEF NextTap, Counters
<1> HIDE DEF k, n, x, y, z
<1>6. ASSUME kernel_done, NEW t \in Kernel PROVE TapBefore(t) \/ t = CurrentTap
  BY <1>1, <1>2, <1>4, <1>6
<1>7. ASSUME ~kernel_done
      PROVE  ~(NextTap.in_ch = 0 /\ NextTap.kh = 0 /\ NextTap.kw = 0)
  BY <1>1, <1>4, <1>5, <1>7
<1>8. ASSUME ~kernel_done, NEW t \in Kernel
      PROVE  (\/ t[3] < NextTap.in_ch
              \/ t[3] = NextTap.in_ch /\ t[1] < NextTap.kh
              \/ t[3] = NextTap.in_ch /\ t[1] = NextTap.kh /\ t[2] < NextTap.kw)
             <=> TapBefore(t) \/ t = CurrentTap
  <2> DEFINE d == t[1]
             e == t[2]
             f == t[3]
             g == NextTap.kh
             h == NextTap.kw
             i == NextTap.in_ch
  <2>1. /\ d \in 0 .. k - 1 /\ e \in 0 .. k - 1 /\ f \in 0 .. n - 1
        /\ TapBefore(t) \/ t = CurrentTap <=>
             f < z \/ (f = z /\ (d < x \/ (d = x /\ (e < y \/ e = y))))
    BY <1>2
  <2>2. /\ h = IF y < k - 1 THEN y + 1 ELSE IF x < k - 1 \/ z < n - 1 THEN 0 ELSE y
        /\ g = IF y < k - 1 THEN x ELSE IF x < k - 1 THEN x + 1
               ELSE IF z < n - 1 THEN 0 ELSE x
        /\ i = IF y < k - 1 \/ x < k - 1 \/ ~(z < n - 1) THEN z ELSE z + 1
    BY <1>5
  <2>3. ~(x = k - 1 /\ y = k - 1 /\ z = n - 1)
    BY <1>4, <1>8
  <2> HIDE DEF d, e, f, g, h, i
  <2>4. f < i \/ (f = i /\ d < g) \/ (f = i /\ d = g /\ e < h)
          <=> f < z \/ (f = z /\ (d < x \/ (d = x /\ (e < y \/ e = y))))
    <3>1. CASE y < k - 1
      BY <1>1, <2>1, <2>2, <3>1
    <3>2. CASE ~(y < k - 1) /\ x < k - 1
      BY <1>1, <2>1, <2>2, <3>2
    <3>3. CASE ~(y < k - 1) /\ ~(x < k - 1)
      <4>1. z < n - 1
        BY <1>1, <2>3, <3>3
      <4> QED
        BY <1>1, <2>1, <2>2, <3>3, <4>1
    <3> QED
      BY <3>1, <3>2, <3>3
  <2> QED
    BY <2>1, <2>4 DEF d, e, f, g, h, i
<1> QED
  BY <1>3, <1>5, <1>6, <1>7, <1>8

(* A tap adds its product, if it has one, to those gathered. *)
LEMMA GatheredAdvances ==
  ASSUME TypeOK, Accumulate
  PROVE  /\ CurrentTaps' = CurrentTaps
         /\ \A t : CurrentProduct(t)' = CurrentProduct(t)
         /\ Gathered' = Gathered \cup IF input_in_bounds THEN {CurrentTap} ELSE {}
         /\ CurrentTap \notin Gathered
<1>1. /\ config' = config /\ cnt' = NextTap /\ current_state = "CONV_COMPUTE"
      /\ current_state' = IF kernel_done THEN "WRITE_OUTPUT" ELSE "CONV_COMPUTE"
      /\ config \in Configs /\ cnt \in Counters
  BY TypeResult DEF Accumulate
<1>2. /\ cnt'.batch = cnt.batch /\ cnt'.out_ch = cnt.out_ch
      /\ cnt'.out_h = cnt.out_h /\ cnt'.out_w = cnt.out_w
  BY <1>1, TapAdvances
<1>3. CurrentTaps' = CurrentTaps
  BY <1>1, <1>2, SettingsStay DEF CurrentTaps
<1>4. \A t : CurrentProduct(t)' = CurrentProduct(t)
  BY <1>1, <1>2, SettingsStay DEF CurrentProduct
<1>5. Gathered = {t \in Kernel : Inside(cnt.out_h, cnt.out_w, t) /\ TapBefore(t)}
  BY <1>1 DEF Gathered
<1>6. Gathered' = {t \in Kernel : Inside(cnt.out_h, cnt.out_w, t)
                                  /\ (TapBefore(t) \/ t = CurrentTap)}
  <2>1. Gathered' = {t \in Kernel : /\ Inside(cnt.out_h, cnt.out_w, t)
                                    /\ current_state' = "CONV_COMPUTE" => TapBefore(t)'}
    BY <1>1, <1>2, SettingsStay DEF Gathered
  <2>2. \A t \in Kernel : (current_state' = "CONV_COMPUTE" => TapBefore(t)')
                            <=> TapBefore(t) \/ t = CurrentTap
    BY <1>1, TapAdvances DEF TapBefore
  <2> QED
    BY <2>1, <2>2
<1>7. CurrentTap \in Kernel /\ (input_in_bounds <=> Inside(cnt.out_h, cnt.out_w, CurrentTap))
  BY <1>1, CurrentTapResult
<1>8. ~TapBefore(CurrentTap)
  BY <1>1, TapAdvances
<1> QED
  BY <1>3, <1>4, <1>5, <1>6, <1>7, <1>8

LEMMA AccumulateSum ==
  ASSUME TypeOK, OperandsAreAddressed, OperandsAreKept, SumSoFar, BiasTaken, Accumulate
  PROVE  SumSoFar' /\ BiasTaken'
<1>1. /\ config' = config /\ cnt' = NextTap /\ current_state = "CONV_COMPUTE"
      /\ conv_read_phase = Ready
      /\ mult_result' = IF input_in_bounds THEN << <<data_reg.INPUT, data_reg.WEIGHT>> >> ELSE <<>>
      /\ conv_accumulator' = conv_accumulator \o mult_result
      /\ bias_reg' = IF first_of_kernel THEN data_reg.BIAS ELSE bias_reg
      /\ current_state' = IF kernel_done THEN "WRITE_OUTPUT" ELSE "CONV_COMPUTE"
      /\ config \in Configs /\ cnt \in Counters
  BY TypeResult DEF Accumulate
<1>2. Fits' = Fits
  BY <1>1, SettingsStay
<1>3. ASSUME Fits PROVE SumSoFar'
  <2> DEFINE s == conv_accumulator \o mult_result
             p == CurrentProduct(CurrentTap)
             T == CurrentTaps
  <2>1. /\ conv_accumulator \in Seq(T) /\ mult_result \in Seq(T)
        /\ Elements(s) = {CurrentProduct(t) : t \in Gathered}
        /\ Distinct(s)
    BY <1>1, <1>3 DEF SumSoFar
  <2>2. s \in Seq(T)
    BY <2>1
  <2>3. /\ T' = T
        /\ \A t : CurrentProduct(t)' = CurrentProduct(t)
        /\ Gathered' = Gathered \cup IF input_in_bounds THEN {CurrentTap} ELSE {}
        /\ CurrentTap \notin Gathered
    BY GatheredAdvances
  <2>4. {CurrentProduct(t) : t \in Gathered}'
          = {CurrentProduct(t) : t \in Gathered} \cup IF input_in_bounds THEN {p} ELSE {}
    <3>1. {CurrentProduct(t) : t \in Gathered}' = {CurrentProduct(t)' : t \in Gathered'}
      OBVIOUS
    <3> HIDE DEF s, T
    <3> QED
      BY <2>3, <3>1
  <2>5. CASE ~input_in_bounds
    <3>1. mult_result' = <<>> /\ conv_accumulator' = s
      BY <1>1, <2>5
    <3>2. s \o <<>> = s /\ <<>> \in Seq(T)
      BY <2>2
    <3> HIDE DEF s, T
    <3> QED
      BY <2>1, <2>2, <2>3, <2>4, <2>5, <3>1, <3>2 DEF SumSoFar, s, T
  <2>6. CASE input_in_bounds
    <3>1. mult_result' = <<p>> /\ conv_accumulator' = s
      BY <1>1, <1>3, <2>6, OperandsWanted
    <3>2. CurrentTap \in Kernel /\ Inside(cnt.out_h, cnt.out_w, CurrentTap)
      BY <1>1, <2>6, CurrentTapResult
    <3>3. p \in T
      BY <3>2, TapsResult DEF CurrentTaps, CurrentProduct
    <3>4. p \notin Elements(s)
      <4>1. ASSUME NEW t \in Gathered, p = CurrentProduct(t) PROVE FALSE
        <5>1. t \in Kernel
          BY DEF Gathered
        <5>2. cnt.out_ch \in 0 .. config.output_channels - 1
          BY <1>1 DEF Counters
        <5>3. t = CurrentTap
          BY <1>1, <3>2, <4>1, <5>1, <5>2, ProductsDiffer DEF CurrentProduct
        <5> QED
          BY <2>3, <4>1, <5>3
      <4> QED
        BY <2>1, <4>1
    <3>5. Elements(s \o <<p>>) = Elements(s) \cup {p} /\ Distinct(s \o <<p>>)
      <4> HIDE DEF s, p, T
      <4> QED
        BY <2>1, <2>2, <3>4, OneMore
    <3>6. <<p>> \in Seq(T)
      <4> HIDE DEF p, T
      <4> QED
        BY <3>3
    <3> HIDE DEF s, T, p
    <3> QED
      BY <2>1, <2>2, <2>3, <2>4, <2>6, <3>1, <3>5, <3>6 DEF SumSoFar, s, T
  <2> QED
    BY <2>5, <2>6
<1>4. ASSUME Fits PROVE BiasTaken'
  <2>1. cnt'.out_ch = cnt.out_ch
    BY <1>1, TapAdvances
  <2>2. CASE first_of_kernel
    BY <1>1, <1>3, <1>4, <2>1, <2>2, OperandsWanted DEF BiasTaken, Bias
  <2>3. CASE ~first_of_kernel
    BY <1>1, <1>4, <2>1, <2>3 DEF BiasTaken, Bias
  <2> QED
    BY <2>2, <2>3
<1> QED
  BY <1>2, <1>3, <1>4 DEF SumSoFar, BiasTaken

-----------------------------------------------------------------------------
(* Every output position has a word of its own. *)
Position(b, h, w, o) ==
  /\ b \in 0 .. config.batch_size - 1 /\ h \in 0 .. output_height - 1
  /\ w \in 0 .. output_width - 1 /\ o \in 0 .. config.output_channels - 1

ResultOffset(b, h, w, o) ==
  Offset(b, h, w, o, output_height, output_width, config.output_channels)

LEMMA ResultAddress ==
  ASSUME config \in Configs, NEW b, NEW h, NEW w, NEW o, Position(b, h, w, o)
  PROVE  /\ RowMajor(<<b, h, w, o>>, ResultShape) = ResultOffset(b, h, w, o)
         /\ Result(<<b, h, w, o>>) = ram[OutputBase + ResultOffset(b, h, w, o)]
         /\ Fits => OutputBase + ResultOffset(b, h, w, o) \in Addr
<1> DEFINE p == config.batch_size
           q == output_height
           r == output_width
           s == config.output_channels
           x == ResultOffset(b, h, w, o)
<1>1. /\ b \in 0 .. p - 1 /\ h \in 0 .. q - 1 /\ w \in 0 .. r - 1 /\ o \in 0 .. s - 1
      /\ p \in Nat /\ q \in Nat /\ r \in Nat /\ s \in Nat
  BY SettingsAreNumbers DEF Position
<1>2. x = Offset(b, h, w, o, q, r, s)
  BY Zenon DEF ResultOffset
<1>3. /\ RowMajor(<<b, h, w, o>>, ResultShape) = AddressOf(b, h, w, o, p, q, r, s)
      /\ Volume(ResultShape) = Words(p, q, r, s)
  BY Zenon DEF ResultShape, AddressOf, Words
<1> HIDE DEF p, q, r, s, x
<1>4. /\ AddressOf(b, h, w, o, p, q, r, s) = x /\ x \in 0 .. Words(p, q, r, s) - 1
      /\ Words(p, q, r, s) \in Nat
  <2>1. /\ AddressOf(b, h, w, o, p, q, r, s) = Offset(b, h, w, o, q, r, s)
        /\ Offset(b, h, w, o, q, r, s) \in 0 .. Words(p, q, r, s) - 1
        /\ Words(p, q, r, s) \in Nat
    BY <1>1, TensorAddress
  <2> QED
    BY <1>2, <2>1, Zenon
<1>5. Result(<<b, h, w, o>>) = ram[OutputBase + x]
  BY <1>3, <1>4, Zenon DEF Result
<1>6. ASSUME Fits PROVE OutputBase + x \in Addr
  <2>1. Words(p, q, r, s) <= Size - OutputBase
    BY <1>3, <1>6 DEF Fits
  <2> QED
    BY <1>4, <2>1, RegionAssumption DEF Addr
<1> QED
  BY <1>3, <1>4, <1>5, <1>6 DEF x

(* ... and shares it with none. *)
LEMMA ResultsApart ==
  ASSUME config \in Configs, NEW b, NEW h, NEW w, NEW o, Position(b, h, w, o),
         NEW c, NEW i, NEW x, NEW p, Position(c, i, x, p),
         OutputBase + ResultOffset(b, h, w, o) = OutputBase + ResultOffset(c, i, x, p)
  PROVE  b = c /\ h = i /\ w = x /\ o = p
<1>1. /\ Digits(b, h, w, o, output_height, output_width, config.output_channels)
      /\ Digits(c, i, x, p, output_height, output_width, config.output_channels)
  BY SettingsAreNumbers DEF Position, Digits
<1> DEFINE y == ResultOffset(b, h, w, o)
           z == ResultOffset(c, i, x, p)
<1>2. y \in Int /\ z \in Int
  <2>1. ASSUME NEW a, NEW d, NEW e, NEW f, NEW q, NEW r, NEW s, Digits(a, d, e, f, q, r, s)
        PROVE  Offset(a, d, e, f, q, r, s) \in Int
    <3>1. /\ a \in Int /\ d \in Int /\ e \in Int /\ f \in Int
          /\ q \in Int /\ r \in Int /\ s \in Int
      BY <2>1 DEF Digits
    <3> QED
      BY <3>1 DEF Offset
  <2> QED
    BY <1>1, <2>1, Zenon DEF ResultOffset
<1>3. y = z
  <2> HIDE DEF y, z
  <2> QED
    BY <1>2, RegionAssumption DEF y, z
<1> QED
  BY <1>1, <1>3, TensorPosition DEF ResultOffset

(* The counters after a result, in the order of the loops. *)
LEMMA OutputAdvances ==
  ASSUME config \in Configs, cnt \in Counters,
         NEW b, NEW h, NEW w, NEW o, Position(b, h, w, o)
  PROVE  LET n == NextOutput
             current == b = cnt.batch /\ h = cnt.out_h /\ w = cnt.out_w /\ o = cnt.out_ch
         IN  /\ last_output => OutputBefore(b, h, w, o) \/ current
             /\ ~last_output /\ (\/ b < n.batch
                                 \/ b = n.batch /\ o < n.out_ch
                                 \/ b = n.batch /\ o = n.out_ch /\ h < n.out_h
                                 \/ b = n.batch /\ o = n.out_ch /\ h = n.out_h /\ w < n.out_w)
                  => OutputBefore(b, h, w, o) \/ current
             /\ n.in_ch = 0 /\ n.kh = 0 /\ n.kw = 0
<1> DEFINE B == config.batch_size
           H == output_height
           W == output_width
           O == config.output_channels
           x == cnt.batch
           y == cnt.out_ch
           z == cnt.out_h
           v == cnt.out_w
           n == NextOutput
<1>1. /\ b \in 0 .. B - 1 /\ h \in 0 .. H - 1 /\ w \in 0 .. W - 1 /\ o \in 0 .. O - 1
      /\ x \in 0 .. B - 1 /\ z \in 0 .. H - 1 /\ v \in 0 .. W - 1 /\ y \in 0 .. O - 1
      /\ B \in Nat /\ H \in Nat /\ W \in Nat /\ O \in Nat
  BY SettingsAreNumbers DEF Position, Counters
<1>2. last_output <=> x = B - 1 /\ y = O - 1 /\ z = H - 1 /\ v = W - 1
  BY DEF last_output
<1>3. /\ n.in_ch = 0 /\ n.kh = 0 /\ n.kw = 0
      /\ ~last_output =>
           /\ n.out_w = IF v < W - 1 THEN v + 1 ELSE 0
           /\ n.out_h = IF v < W - 1 THEN z ELSE IF z < H - 1 THEN z + 1 ELSE 0
           /\ n.out_ch = IF v < W - 1 \/ z < H - 1 THEN y ELSE IF y < O - 1 THEN y + 1 ELSE 0
           /\ n.batch = IF v < W - 1 \/ z < H - 1 \/ y < O - 1 THEN x ELSE x + 1
  BY DEF NextOutput, Counters
<1> HIDE DEF B, H, W, O, x, y, z, v, n
<1>4. OutputBefore(b, h, w, o) <=> \/ b < x
                                   \/ b = x /\ o < y
                                   \/ b = x /\ o = y /\ h < z
                                   \/ b = x /\ o = y /\ h = z /\ w < v
  BY DEF OutputBefore, x, y, z, v
<1>5. ASSUME last_output
      PROVE  OutputBefore(b, h, w, o) \/ (b = x /\ h = z /\ w = v /\ o = y)
  BY <1>1, <1>2, <1>4, <1>5
<1>6. ASSUME ~last_output, \/ b < n.batch
                           \/ b = n.batch /\ o < n.out_ch
                           \/ b = n.batch /\ o = n.out_ch /\ h < n.out_h
                           \/ b = n.batch /\ o = n.out_ch /\ h = n.out_h /\ w < n.out_w
      PROVE  OutputBefore(b, h, w, o) \/ (b = x /\ h = z /\ w = v /\ o = y)
  <2>1. CASE v < W - 1
    BY <1>1, <1>3, <1>4, <1>6, <2>1
  <2>2. CASE ~(v < W - 1) /\ z < H - 1
    BY <1>1, <1>3, <1>4, <1>6, <2>2
  <2>3. CASE ~(v < W - 1) /\ ~(z < H - 1) /\ y < O - 1
    BY <1>1, <1>3, <1>4, <1>6, <2>3
  <2>4. CASE ~(v < W - 1) /\ ~(z < H - 1) /\ ~(y < O - 1)
    BY <1>1, <1>3, <1>4, <1>6, <2>4
  <2> QED
    BY <2>1, <2>2, <2>3, <2>4
<1> QED
  BY <1>3, <1>5, <1>6 DEF x, y, z, v, n

(* What the write puts into the RAM is the convolution of its position. *)
LEMMA SumComplete ==
  ASSUME Fits, SumSoFar, BiasTaken, current_state = "WRITE_OUTPUT"
  PROVE  /\ Elements(output_data.sum) = CurrentTaps /\ Distinct(output_data.sum)
         /\ output_data.bias = Bias(cnt.out_ch)
         /\ output_data \notin {Loaded(a) : a \in Addr}
<1>1. /\ output_data.sum = conv_accumulator \o mult_result /\ output_data.bias = bias_reg
      /\ DOMAIN output_data = {"sum", "bias"}
  BY DEF output_data
<1>2. Gathered = {t \in Kernel : Inside(cnt.out_h, cnt.out_w, t)}
  BY DEF Gathered
<1>3. Elements(output_data.sum) = {CurrentProduct(t) : t \in Gathered}
  BY <1>1 DEF SumSoFar
<1>4. CurrentTaps = {CurrentProduct(t) : t \in Gathered}
  BY <1>2, TapsResult DEF CurrentTaps, CurrentProduct
<1>5. \A a : output_data # Loaded(a)
  <2>1. \A a : DOMAIN Loaded(a) = {"at"}
    BY DEF Loaded
  <2> QED
    BY <1>1, <2>1
<1> QED
  BY <1>1, <1>3, <1>4, <1>5 DEF SumSoFar, BiasTaken

(* A result goes to its own word and leaves the ones before as they are. *)
LEMMA WriteOutputResults ==
  ASSUME TypeOK, FetchesWhileComputing, SumSoFar, BiasTaken, ResultsSoFar, WriteOutput
  PROVE  ResultsSoFar'
<1>1. /\ current_state = "WRITE_OUTPUT" /\ config' = config /\ cnt' = NextOutput
      /\ ram' = [ram EXCEPT ![(output_addr + OutputBase) % Size] = output_data]
      /\ current_state' = IF last_output THEN "DONE_ST" ELSE "CONV_COMPUTE"
      /\ top_state' = top_state
      /\ config \in Configs /\ cnt \in Counters /\ DOMAIN ram = Addr
  BY TypeResult DEF WriteOutput, WriteRam, TypeOK
<1>2. top_state' # "DONE_ST"
  BY <1>1 DEF FetchesWhileComputing
<1> SUFFICES ASSUME Fits', NEW b \in 0 .. config'.batch_size - 1,
                    NEW h \in 0 .. output_height' - 1, NEW w \in 0 .. output_width' - 1,
                    NEW o \in 0 .. config'.output_channels - 1, Written(b, h, w, o)'
             PROVE  Convolved(b, h, w, o)'
  BY DEF ResultsSoFar
<1>3. Fits /\ Position(b, h, w, o) /\ Taps(b, h, w, o)' = Taps(b, h, w, o)
  BY <1>1, SettingsStay DEF Position
<1> DEFINE a == OutputBase + ResultOffset(b, h, w, o)
           e == OutputBase + ResultOffset(cnt.batch, cnt.out_h, cnt.out_w, cnt.out_ch)
           current == b = cnt.batch /\ h = cnt.out_h /\ w = cnt.out_w /\ o = cnt.out_ch
<1>4. OutputBefore(b, h, w, o) \/ current
  <2>1. CASE last_output
    BY <1>1, <1>3, <2>1, OutputAdvances
  <2>2. CASE ~last_output
    <3>1. current_state' = "CONV_COMPUTE"
      BY <1>1, <2>2
    <3>2. OutputBefore(b, h, w, o)'
      BY <1>2, <3>1 DEF Written
    <3> QED
      BY <1>1, <1>3, <2>2, <3>2, OutputAdvances DEF OutputBefore
  <2> QED
    BY <2>1, <2>2
<1>5. Position(cnt.batch, cnt.out_h, cnt.out_w, cnt.out_ch)
  BY <1>1 DEF Counters, Position
<1>6. a \in Addr /\ e \in Addr /\ Result(<<b, h, w, o>>) = ram[a]
  BY <1>1, <1>3, <1>5, ResultAddress
<1>7. Result(<<b, h, w, o>>)' = ram'[a]
  <2>1. Result(<<b, h, w, o>>)' = ram'[OutputBase + RowMajor(<<b, h, w, o>>, ResultShape)]
    BY <1>1, SettingsStay DEF Result, ResultShape
  <2>2. RowMajor(<<b, h, w, o>>, ResultShape) = ResultOffset(b, h, w, o)
    BY <1>1, <1>3, ResultAddress
  <2> QED
    BY <2>1, <2>2, Zenon
<1>8. (output_addr + OutputBase) % Size = e
  <2>1. output_addr = ResultOffset(cnt.batch, cnt.out_h, cnt.out_w, cnt.out_ch)
    BY Zenon DEF output_addr, ResultOffset, Offset
  <2>2. output_addr \in Int /\ OutputBase \in Int
    BY <1>1, Addresses, RegionAssumption
  <2>3. output_addr + OutputBase = e
    BY <2>1, <2>2
  <2> HIDE DEF e
  <2>4. e \in Int /\ e % Size = e
    BY <1>6, RegionAssumption, Decoded DEF Addr
  <2> QED
    BY <2>3, <2>4
<1>9. ram'[a] = IF a = e THEN output_data ELSE ram[a]
  <2> HIDE DEF a, e
  <2> QED
    BY <1>1, <1>6, <1>8
<1>10. CASE current
  <2>1. ram'[a] = output_data
    BY <1>9, <1>10
  <2>2. /\ Elements(output_data.sum) = Taps(b, h, w, o) /\ Distinct(output_data.sum)
        /\ output_data.bias = Bias(o)
        /\ output_data \notin {Loaded(x) : x \in Addr}
    BY <1>1, <1>3, <1>10, SumComplete DEF CurrentTaps
  <2> HIDE DEF a
  <2>3. Result(<<b, h, w, o>>)' = output_data
    BY <1>7, <2>1
  <2> QED
    BY <1>3, <2>2, <2>3, Zenon DEF Convolved, Bias
<1>11. CASE ~current
  <2>1. a # e
    BY <1>1, <1>3, <1>5, <1>11, ResultsApart
  <2>2. Written(b, h, w, o)
    BY <1>1, <1>4, <1>11 DEF Written
  <2>3. Convolved(b, h, w, o)
    BY <1>3, <2>2 DEF ResultsSoFar, Position
  <2>4. Result(<<b, h, w, o>>)' = Result(<<b, h, w, o>>)
    BY <1>6, <1>7, <1>9, <2>1, Zenon
  <2> QED
    BY <1>3, <2>3, <2>4, Zenon DEF Convolved, Bias
<1> QED
  BY <1>10, <1>11

(* A word once right stays right while RAM and settings do. *)
LEMMA ConvolvedStays ==
  ASSUME UNCHANGED <<ram, config>>, NEW b, NEW h, NEW w, NEW o, Convolved(b, h, w, o)
  PROVE  Convolved(b, h, w, o)'
<1>1. Taps(b, h, w, o)' = Taps(b, h, w, o)
  BY SettingsStay
<1>2. Result(<<b, h, w, o>>)' = Result(<<b, h, w, o>>)
  BY SettingsStay DEF Result, ResultShape
<1> QED
  BY <1>1, <1>2, Zenon DEF Convolved, Bias

(* Steps that leave the operation where it is, or outside of one. *)
LEMMA UndisturbedSum ==
  ASSUME SumInv, UNCHANGED <<ram, config, cnt, conv_accumulator, mult_result, bias_reg>>,
         current_state' = current_state, top_state' = top_state
  PROVE  SumInv'
<1>1. Fits' = Fits /\ output_height' = output_height /\ output_width' = output_width
  BY SettingsStay
<1>2. /\ CurrentTaps' = CurrentTaps /\ Gathered' = Gathered
      /\ \A t : CurrentProduct(t)' = CurrentProduct(t)
  BY SettingsStay DEF CurrentTaps, Gathered, CurrentProduct, TapBefore
<1>3. SumSoFar'
  <2>1. {CurrentProduct(t) : t \in Gathered}' = {CurrentProduct(t) : t \in Gathered}
    <3>1. {CurrentProduct(t) : t \in Gathered}' = {CurrentProduct(t)' : t \in Gathered'}
      OBVIOUS
    <3> QED
      BY <1>2, <3>1
  <2> QED
    BY <1>1, <1>2, <2>1 DEF SumInv, SumSoFar
<1>4. BiasTaken'
  BY <1>1 DEF SumInv, BiasTaken, first_of_kernel, Bias
<1>5. ResultsSoFar'
  <2> SUFFICES ASSUME Fits, NEW b \in 0 .. config.batch_size - 1, NEW h \in 0 .. output_height - 1,
                      NEW w \in 0 .. output_width - 1, NEW o \in 0 .. config.output_channels - 1,
                      Written(b, h, w, o)
               PROVE  Convolved(b, h, w, o)'
    BY <1>1 DEF ResultsSoFar, Written, OutputBefore
  <2>1. Convolved(b, h, w, o)
    BY DEF SumInv, ResultsSoFar
  <2> QED
    BY <2>1, ConvolvedStays
<1> QED
  BY <1>3, <1>4, <1>5 DEF SumInv

(* No operation has begun, or a new one with nothing written. *)
LEMMA InitSum == Init => SumInv
BY DEF Init, SumInv, SumSoFar, BiasTaken, ResultsSoFar, Written

LEMMA LaunchSum == TypeOK /\ Launch => SumInv'
<1> SUFFICES ASSUME TypeOK, Launch PROVE SumInv'
  OBVIOUS
<1>1. /\ config' \in Configs /\ cnt' = NoCount /\ current_state' = "CONV_COMPUTE"
      /\ top_state' = "CONV_OP"
      /\ conv_accumulator' = <<>> /\ mult_result' = <<>>
  BY DEF Launch
<1>2. TypeOK'
  BY LaunchType
<1>3. SumSoFar' /\ BiasTaken'
  <2>1. StartsOver'
    BY <1>1, <1>2 DEF StartsOver, NoCount, TypeOK, Counters
  <2> QED
    BY <2>1, NothingGathered, PTL
<1>4. ResultsSoFar'
  <2>1. ASSUME NEW b \in 0 .. config'.batch_size - 1, NEW h \in 0 .. output_height' - 1,
               NEW w \in 0 .. output_width' - 1, NEW o \in 0 .. config'.output_channels - 1
        PROVE  ~OutputBefore(b, h, w, o)'
    <3>1. /\ cnt'.batch = 0 /\ cnt'.out_ch = 0 /\ cnt'.out_h = 0 /\ cnt'.out_w = 0
      BY <1>1 DEF NoCount
    <3>2. b >= 0 /\ h >= 0 /\ w >= 0 /\ o >= 0
          /\ b \in Int /\ h \in Int /\ w \in Int /\ o \in Int
      OBVIOUS
    <3> QED
      BY <3>1, <3>2 DEF OutputBefore
  <2> QED
    BY <1>1, <2>1 DEF ResultsSoFar, Written
<1> QED
  BY <1>3, <1>4 DEF SumInv

(* Between two results the words written stay. *)
LEMMA AccumulateResults ==
  ASSUME TypeOK, FetchesWhileComputing, ResultsSoFar, Accumulate
  PROVE  ResultsSoFar'
<1>1. /\ config' = config /\ cnt' = NextTap /\ current_state = "CONV_COMPUTE"
      /\ current_state' \in {"CONV_COMPUTE", "WRITE_OUTPUT"}
      /\ ram' = ram /\ top_state' = top_state
      /\ config \in Configs /\ cnt \in Counters
  BY TypeResult DEF Accumulate, Read
<1>2. /\ cnt'.batch = cnt.batch /\ cnt'.out_ch = cnt.out_ch
      /\ cnt'.out_h = cnt.out_h /\ cnt'.out_w = cnt.out_w
  BY <1>1, TapAdvances
<1>3. Fits' = Fits /\ output_height' = output_height /\ output_width' = output_width
  BY <1>1, SettingsStay
<1> SUFFICES ASSUME Fits, NEW b \in 0 .. config.batch_size - 1, NEW h \in 0 .. output_height - 1,
                    NEW w \in 0 .. output_width - 1, NEW o \in 0 .. config.output_channels - 1,
                    Written(b, h, w, o)'
             PROVE  Convolved(b, h, w, o)'
  BY <1>1, <1>3 DEF ResultsSoFar
<1>4. Written(b, h, w, o)
  BY <1>1, <1>2 DEF Written, OutputBefore
<1>5. Convolved(b, h, w, o)
  BY <1>4 DEF ResultsSoFar
<1> QED
  BY <1>1, <1>5, ConvolvedStays

(* After a result the next sum starts over. *)
LEMMA WriteOutputSum ==
  ASSUME TypeOK, WriteOutput
  PROVE  SumSoFar' /\ BiasTaken'
<1>1. TypeOK'
  BY WriteOutputType
<1>2. /\ cnt'.in_ch = 0 /\ cnt'.kh = 0 /\ cnt'.kw = 0
      /\ current_state' # "WRITE_OUTPUT"
      /\ conv_accumulator' = <<>> /\ mult_result' = <<>>
  BY TypeResult DEF WriteOutput, NextOutput, Counters
<1>3. StartsOver'
  BY <1>1, <1>2 DEF StartsOver, TypeOK, Counters
<1> QED
  BY <1>3, NothingGathered, PTL

(* The end of the operation, and a reset. *)
LEMMA EndSum ==
  ASSUME SumInv, FetchesWhileComputing, Finish \/ Settle \/ Reset
  PROVE  SumInv'
<1>1. current_state' = "IDLE"
  BY DEF Finish, Settle, Reset, FetchesWhileComputing
<1>2. SumSoFar' /\ BiasTaken'
  BY <1>1 DEF SumSoFar, BiasTaken
<1>3. CASE Finish
  <2>1. config' = config /\ ram' = ram /\ current_state = "DONE_ST"
    BY <1>3 DEF Finish, Read
  <2>2. Fits' = Fits /\ output_height' = output_height /\ output_width' = output_width
    BY <2>1, SettingsStay
  <2> SUFFICES ASSUME Fits, NEW b \in 0 .. config.batch_size - 1,
                      NEW h \in 0 .. output_height - 1, NEW w \in 0 .. output_width - 1,
                      NEW o \in 0 .. config.output_channels - 1
               PROVE  Convolved(b, h, w, o)'
    BY <1>2, <2>1, <2>2 DEF SumInv, ResultsSoFar
  <2>3. Convolved(b, h, w, o)
    BY <2>1 DEF SumInv, ResultsSoFar, Written
  <2> QED
    BY <2>1, <2>3, ConvolvedStays
<1>4. CASE Settle \/ Reset
  <2>1. top_state' = "IDLE"
    BY <1>4 DEF Settle, Reset
  <2> QED
    BY <1>1, <1>2, <2>1 DEF SumInv, ResultsSoFar, Written
<1> QED
  BY <1>3, <1>4

(* All steps. *)
LEMMA SumStep ==
  TypeOK /\ FetchInv /\ OperandsAreKept /\ SumInv /\ [Next]_vars => SumInv'
<1> SUFFICES ASSUME TypeOK, FetchInv, OperandsAreKept, SumInv, [Next]_vars PROVE SumInv'
  OBVIOUS
<1>1. OperandsAreAddressed /\ FetchesWhileComputing /\ SumSoFar /\ BiasTaken /\ ResultsSoFar
  BY DEF FetchInv, SumInv
<1>2. CASE Launch
  BY <1>2, LaunchSum
<1>3. CASE Fetch
  <2>1. /\ UNCHANGED <<ram, config, cnt, conv_accumulator, mult_result, bias_reg>>
        /\ current_state' = current_state /\ top_state' = top_state
    BY <1>3 DEF Fetch, Read, mac
  <2> QED
    BY <2>1, UndisturbedSum
<1>4. CASE Accumulate
  BY <1>1, <1>4, AccumulateSum, AccumulateResults DEF SumInv
<1>5. CASE WriteOutput
  BY <1>1, <1>5, WriteOutputSum, WriteOutputResults DEF SumInv
<1>6. CASE Finish \/ Settle \/ Reset
  BY <1>1, <1>6, EndSum
<1>7. CASE UNCHANGED vars
  <2>1. /\ UNCHANGED <<ram, config, cnt, conv_accumulator, mult_result, bias_reg>>
        /\ current_state' = current_state /\ top_state' = top_state
    BY <1>7 DEF vars, ports, mac
  <2> QED
    BY <2>1, UndisturbedSum
<1> QED
  BY <1>2, <1>3, <1>4, <1>5, <1>6, <1>7 DEF Next, Clock

(* When an operation is reported done, each word of its result is the sum of
   exactly the products of the convolution, each once, and the bias of its
   channel, for every plane, kernel, stride, padding and number of channels
   and images that fit the RAM.                                            *)
THEOREM ResultCorrect == Spec => []ResultIsConvolution
<1>1. SumInv => ResultIsConvolution
  <2> SUFFICES ASSUME SumInv, top_state = "DONE_ST", Fits,
                      NEW b \in 0 .. config.batch_size - 1, NEW h \in 0 .. output_height - 1,
                      NEW w \in 0 .. output_width - 1, NEW o \in 0 .. config.output_channels - 1
               PROVE  LET r == Result(<<b, h, w, o>>)
                          t == Taps(b, h, w, o)
                      IN  /\ r \notin {Loaded(a) : a \in Addr}
                          /\ Elements(r.sum) = t
                          /\ \A i, j \in 1 .. Len(r.sum) : r.sum[i] = r.sum[j] => i = j
                          /\ r.bias = Bias(o)
    BY Zenon DEF ResultIsConvolution
  <2>1. Convolved(b, h, w, o)
    BY DEF SumInv, ResultsSoFar, Written
  <2> QED
    BY <2>1, Zenon DEF Convolved, Distinct
<1>2. Init => OperandsAreKept
  BY DEF Init, OperandsAreKept
<1> QED
  BY <1>1, <1>2, InitType, TypeStep, InitFetch, FetchInvStep, KeptStep, InitSum, SumStep, PTL
     DEF Spec
=============================================================================

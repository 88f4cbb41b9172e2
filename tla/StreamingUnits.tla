---------------------------- MODULE StreamingUnits ----------------------------
(***************************************************************************)
(* Pooling and activation on the accelerator: pooling_block.vhd,           *)
(* activation_block.vhd, the two read pipelines of FPGA_accelerator.vhd    *)
(* that feed them a word per clock through port B of the shared RAM, and   *)
(* the top-level state machine around them.  One step is one rising clock  *)
(* edge.                                                                   *)
(*                                                                         *)
(* Data is symbolic, as in Convolution: a word that was streamed in is     *)
(* known by the address it was loaded at, a pooled word by the sequence of *)
(* words that went into its window, an activation by its argument.  The    *)
(* kind of pooling and of activation, and the width of the numbers, are    *)
(* functions of exactly these.  PARALLEL_UNITS is 1, as it is built.       *)
(***************************************************************************)
EXTENDS Integers, Sequences

CONSTANTS
  Height, Width,       (* INPUT_HEIGHT, INPUT_WIDTH.                       *)
  OutputBase, Size,    (* The RAM: operands at 0, results, its end.        *)
  LutSize,             (* Entries of a table of the activation block.      *)
  Configs              (* Settings of the registers.                       *)

PIPELINE_STAGES == 3

OutDim(dim, c) == (dim - c.pool_size) \div c.stride + 1

ASSUME SizeAssumption ==
  /\ {Height, Width, LutSize} \subseteq Nat \ {0}
  /\ {OutputBase, Size} \subseteq Nat /\ 0 < OutputBase /\ OutputBase < Size

(* A setting of the pooling registers fits the plane, and has more than one
   sample to read: on a plane of 28 by 28 every setting does.              *)
ASSUME ConfigAssumption ==
  /\ Configs \subseteq [pool_size : 1 .. 8, stride : 1 .. 8, channels : 1 .. 64,
                        batch_size : 1 .. 16, tensor_size : Nat \ {0}]
  /\ \A c \in Configs :
       /\ c.pool_size <= Height /\ c.pool_size <= Width
       /\ c.pool_size > 1 \/ OutDim(Height, c) > 1 \/ OutDim(Width, c) > 1

VARIABLES
  ram, address_b, q_b,  (* The RAM, port B's address and output registers. *)
  config,               (* The registers that parameterise the operations. *)
  top_state,            (* FPGA_accelerator: its state machine, ...        *)
  selected_operation,   (* ... the operation it latched, ...               *)
  feed,                 (* ... and each unit's read pipeline.              *)
  pool_state,           (* pooling_block: its state machine, ...           *)
  cnt,                  (* ... the counters of its six loops, ...          *)
  window,               (* ... and the samples in its accumulator.         *)
  act_state,            (* activation_block: its state machine, ...        *)
  element_counter,      (* ... the elements asked for, ...                 *)
  stages,               (* ... the pipeline (stage 0 is stages[1]), ...    *)
  output_data,          (* ... the register behind the last stage, ...     *)
  lut_init_counter, lut_initialized,
  lut                   (* ... and the entries of the tables written.      *)

port == <<ram, address_b, q_b>>
top  == <<config, top_state, selected_operation>>
pool == <<pool_state, cnt, window>>
tabs == <<lut_init_counter, lut_initialized, lut>>
act  == <<act_state, element_counter, stages, output_data, tabs>>
vars == <<port, top, feed, pool, act>>

Addr == 0 .. Size - 1

Loaded(a)    == [at |-> a]
Pooled(s)    == [window |-> s]
Activated(w) == [of |-> w]
Zero         == [zero |-> 0]

NoCount == [batch |-> 0, channel |-> 0, out_h |-> 0, out_w |-> 0, pool_h |-> 0, pool_w |-> 0]
NoFeed  == [pending |-> FALSE, valid |-> FALSE, data |-> Zero]
NoStage == [valid |-> FALSE, data |-> Zero]
Empty   == [i \in 1 .. PIPELINE_STAGES |-> NoStage]

-----------------------------------------------------------------------------
(* The loops of the pooling block. *)
output_height == OutDim(Height, config)
output_width  == OutDim(Width, config)

window_complete == cnt.pool_h = config.pool_size - 1 /\ cnt.pool_w = config.pool_size - 1

last_output ==
  /\ cnt.batch = config.batch_size - 1 /\ cnt.channel + 1 >= config.channels
  /\ cnt.out_h = output_height - 1 /\ cnt.out_w = output_width - 1

pool_input_addr ==
  ((cnt.batch * Height + cnt.out_h * config.stride + cnt.pool_h) * Width
     + cnt.out_w * config.stride + cnt.pool_w) * config.channels + cnt.channel
pool_output_addr ==
  ((cnt.batch * output_height + cnt.out_h) * output_width + cnt.out_w)
    * config.channels + cnt.channel

(* Fault: the column is compared with the width instead of its last index. *)
NextPositionLate ==
  LET c == [cnt EXCEPT !.pool_w = 0, !.pool_h = 0] IN
  IF c.out_w < output_width THEN [c EXCEPT !.out_w = @ + 1]
  ELSE IF c.out_h < output_height - 1 THEN [c EXCEPT !.out_w = 0, !.out_h = @ + 1]
  ELSE IF c.channel + 1 < config.channels
    THEN [c EXCEPT !.out_w = 0, !.out_h = 0, !.channel = @ + 1]
  ELSE IF c.batch < config.batch_size - 1
    THEN [c EXCEPT !.out_w = 0, !.out_h = 0, !.channel = 0, !.batch = @ + 1]
  ELSE c

(* After a window: next column, row, channel, image; the last stays. *)
NextPosition ==
  LET c == [cnt EXCEPT !.pool_w = 0, !.pool_h = 0] IN
  IF c.out_w < output_width - 1 THEN [c EXCEPT !.out_w = @ + 1]
  ELSE IF c.out_h < output_height - 1 THEN [c EXCEPT !.out_w = 0, !.out_h = @ + 1]
  ELSE IF c.channel + 1 < config.channels
    THEN [c EXCEPT !.out_w = 0, !.out_h = 0, !.channel = @ + 1]
  ELSE IF c.batch < config.batch_size - 1
    THEN [c EXCEPT !.out_w = 0, !.out_h = 0, !.channel = 0, !.batch = @ + 1]
  ELSE c

(* After a sample. *)
NextSample ==
  IF cnt.pool_w < config.pool_size - 1 THEN [cnt EXCEPT !.pool_w = @ + 1]
  ELSE IF cnt.pool_h < config.pool_size - 1 THEN [cnt EXCEPT !.pool_w = 0, !.pool_h = @ + 1]
  ELSE NextPosition

(* Fault: the block leaves when the last output is reached, not its window. *)
PoolIsOverEarly == last_output /\ cnt.pool_h = config.pool_size - 1

(* POOL_COMPUTE is left at the last sample, whether or not it is valid. *)
PoolIsOver == last_output /\ window_complete

-----------------------------------------------------------------------------
(* The activation block's counters and pipeline. *)

NextElement ==
  IF element_counter + 1 < config.tensor_size THEN element_counter + 1
  ELSE config.tensor_size

(* Fault: the first results get no address of their own. *)
act_output_addr_negative == element_counter - PIPELINE_STAGES

act_output_addr ==
  IF element_counter >= PIPELINE_STAGES THEN element_counter - PIPELINE_STAGES ELSE 0

Shift(first) == [i \in 1 .. PIPELINE_STAGES |-> IF i = 1 THEN first ELSE stages[i - 1]]

output_valid == stages[PIPELINE_STAGES].valid

(* Fault: the flush waits for a result instead of for the end of them. *)
FlushedOnResult == output_valid

Flushed == ~output_valid

(* What the register behind the pipeline takes on every clock. *)
Result == IF output_valid THEN Activated(stages[PIPELINE_STAGES].data) ELSE Zero

(* Fault: the tables are left before their last entry is written. *)
LutIsFullEarly == lut_init_counter >= LutSize - 2

LutIsFull == lut_init_counter >= LutSize

-----------------------------------------------------------------------------
(* Port B on one edge.  It has one address: that of a write goes before that
   of a read.  The address is registered, and so is the word at the address
   registered before.  Of a 16-bit address the RAM decodes what it needs.  *)
Read(a) ==
  /\ address_b' = a % Size
  /\ q_b' = ram[address_b]
  /\ UNCHANGED ram

ReadUnlessWritten(a, wren, wraddress, w) ==
  /\ address_b' = (IF wren THEN wraddress + OutputBase ELSE a) % Size
  /\ q_b' = ram[address_b]
  /\ ram' = IF wren THEN [ram EXCEPT ![(wraddress + OutputBase) % Size] = w] ELSE ram

(* The read pipelines on one edge: a read asked for is pending on the next
   clock, and on the one after its word is valid.  enabled is the unit that
   asks for a word, if any does.                                           *)
Feed(enabled) ==
  feed' = [u \in {"POOL", "ACT"} |->
             [pending |-> u = enabled, valid |-> feed[u].pending,
              data |-> IF feed[u].pending THEN q_b ELSE feed[u].data]]

-----------------------------------------------------------------------------
Init ==
  /\ ram = [a \in Addr |-> Loaded(a)] /\ address_b = 0 /\ q_b = Loaded(0)
  /\ config \in Configs
  /\ top_state = "IDLE" /\ selected_operation = "CONV"
  /\ feed = [u \in {"POOL", "ACT"} |-> NoFeed]
  /\ pool_state = "IDLE" /\ cnt = NoCount /\ window = <<>>
  /\ act_state = "IDLE" /\ element_counter = 0
  /\ stages = Empty /\ output_data = Zero
  /\ lut_init_counter = 0 /\ lut_initialized = FALSE /\ lut = {}

(* CMD.START in IDLE.  By then the processor has streamed the operands in and
   set the registers, which it leaves alone until the operation is over.
   The unit that is not selected stays IDLE.                               *)
Launch(u) ==
  /\ top_state = "IDLE"
  /\ selected_operation' = u
  /\ config' \in Configs
  /\ ram' = [a \in Addr |-> Loaded(a)]
  /\ address_b' = 0 /\ q_b' = ram[address_b]
  /\ Feed("NONE")
  /\ cnt' = NoCount /\ window' = <<>>
  /\ element_counter' = 0 /\ lut_init_counter' = 0
  /\ output_data' = Result
  /\ UNCHANGED <<stages, lut_initialized, lut>>

LaunchPooling ==
  /\ Launch("POOL")
  /\ top_state' = "POOL_OP" /\ pool_state' = "SETUP_DIMS"
  /\ UNCHANGED act_state

LaunchActivation ==
  /\ Launch("ACT")
  /\ top_state' = "ACT_OP"
  /\ act_state' = IF lut_initialized THEN "PROCESSING" ELSE "INIT_LUT"
  /\ UNCHANGED pool_state

(* The activation block's registers while it stays IDLE. *)
ActIdle ==
  /\ element_counter' = 0 /\ lut_init_counter' = 0
  /\ output_data' = Result
  /\ UNCHANGED <<act_state, stages, lut_initialized, lut>>

PoolIdle == cnt' = NoCount /\ window' = <<>> /\ UNCHANGED pool_state

SetupDims ==
  /\ pool_state = "SETUP_DIMS"
  /\ Read(0)
  /\ Feed("NONE")
  /\ pool_state' = "POOL_COMPUTE" /\ window' = <<>>
  /\ UNCHANGED <<top, cnt>>
  /\ ActIdle

(* A word is asked for on every clock, and the one that is valid joins the
   window; the last of a window is written with the others at once.        *)
PoolCompute ==
  /\ pool_state = "POOL_COMPUTE"
  /\ LET valid  == feed["POOL"].valid
         filled == IF valid THEN Append(window, feed["POOL"].data) ELSE window
     IN  /\ ReadUnlessWritten(pool_input_addr, window_complete /\ valid,
                              pool_output_addr, Pooled(filled))
         /\ cnt' = IF valid THEN NextSample ELSE cnt
         /\ window' = IF window_complete /\ valid THEN <<>> ELSE filled
  /\ Feed("POOL")
  /\ pool_state' = IF PoolIsOver THEN "WRITE_OUTPUT" ELSE "POOL_COMPUTE"
  /\ UNCHANGED top
  /\ ActIdle

WriteOutput ==
  /\ pool_state = "WRITE_OUTPUT"
  /\ Read(0)
  /\ Feed("NONE")
  /\ pool_state' = "DONE_ST"
  /\ UNCHANGED <<top, cnt, window>>
  /\ ActIdle

(* An edge with the activation block at work: what the last stage holds when
   it is valid was computed on the edge before.                            *)
ActEdge(a) ==
  /\ ReadUnlessWritten(a, output_valid, act_output_addr, output_data)
  /\ output_data' = Result
  /\ PoolIdle

InitLut ==
  /\ act_state = "INIT_LUT"
  /\ ActEdge(0)
  /\ Feed("NONE")
  /\ act_state' = IF LutIsFull THEN "PROCESSING" ELSE "INIT_LUT"
  /\ lut_init_counter' = IF lut_init_counter < LutSize
                           THEN lut_init_counter + 1 ELSE lut_init_counter
  /\ lut' = IF lut_init_counter < LutSize THEN lut \cup {lut_init_counter} ELSE lut
  /\ lut_initialized' = (lut_initialized \/ lut_init_counter >= LutSize)
  /\ UNCHANGED <<top, element_counter, stages>>

(* The counter moves with the clock, not with the words that arrive. *)
Process ==
  /\ act_state = "PROCESSING"
  /\ ActEdge(element_counter)
  /\ Feed("ACT")
  /\ stages' = Shift(IF feed["ACT"].valid /\ element_counter < config.tensor_size
                       THEN [valid |-> TRUE, data |-> feed["ACT"].data]
                       ELSE [stages[1] EXCEPT !.valid = FALSE])
  /\ element_counter' = NextElement
  /\ act_state' = IF element_counter >= config.tensor_size THEN "PIPELINE_FLUSH" ELSE "PROCESSING"
  /\ UNCHANGED <<top, tabs>>

PipelineFlush ==
  /\ act_state = "PIPELINE_FLUSH"
  /\ ActEdge(0)
  /\ Feed("NONE")
  /\ stages' = Shift([stages[1] EXCEPT !.valid = FALSE])
  /\ act_state' = IF Flushed THEN "DONE_ST" ELSE "PIPELINE_FLUSH"
  /\ UNCHANGED <<top, element_counter, tabs>>

(* done for one clock takes the top level to DONE_ST ... *)
FinishPooling ==
  /\ pool_state = "DONE_ST"
  /\ Read(0)
  /\ Feed("NONE")
  /\ pool_state' = "IDLE" /\ top_state' = "DONE_ST"
  /\ UNCHANGED <<config, selected_operation, cnt, window>>
  /\ ActIdle

FinishActivation ==
  /\ act_state = "DONE_ST"
  /\ ActEdge(0)
  /\ Feed("NONE")
  /\ act_state' = "IDLE" /\ top_state' = "DONE_ST"
  /\ UNCHANGED <<config, selected_operation, element_counter, stages, tabs>>

(* ... and on the next one all are idle. *)
Settle ==
  /\ top_state = "DONE_ST"
  /\ Read(0)
  /\ Feed("NONE")
  /\ top_state' = "IDLE"
  /\ UNCHANGED <<config, selected_operation>>
  /\ PoolIdle /\ ActIdle

(* The asynchronous reset leaves the RAM and the tables as they are. *)
Reset ==
  /\ top_state' = "IDLE" /\ selected_operation' = "CONV"
  /\ feed' = [u \in {"POOL", "ACT"} |-> NoFeed]
  /\ pool_state' = "IDLE" /\ cnt' = NoCount /\ window' = <<>>
  /\ act_state' = "IDLE" /\ element_counter' = 0
  /\ stages' = Empty /\ output_data' = Zero
  /\ lut_init_counter' = 0 /\ lut_initialized' = FALSE
  /\ Read(0)
  /\ UNCHANGED <<config, lut>>

Clock ==
  \/ LaunchPooling \/ SetupDims \/ PoolCompute \/ WriteOutput \/ FinishPooling
  \/ LaunchActivation \/ InitLut \/ Process \/ PipelineFlush \/ FinishActivation
  \/ Settle

Next == Clock \/ Reset

Spec == Init /\ [][Next]_vars

(* The clock runs. *)
FairSpec == Spec /\ WF_vars(Clock)

-----------------------------------------------------------------------------
Volume == config.batch_size * output_height * output_width * config.channels

ResultSize == IF selected_operation = "POOL" THEN Volume ELSE config.tensor_size

(* The registers let a program choose tensors the regions have no room for;
   results are claimed of those that fit.                                  *)
Fits ==
  /\ config.batch_size * Height * Width * config.channels <= OutputBase
  /\ config.tensor_size <= OutputBase
  /\ Volume <= Size - OutputBase /\ config.tensor_size <= Size - OutputBase

(* The pooled words, independently of the counters: image, row, column and
   channel, and the words of the window of each.                           *)
Positions ==
  (0 .. config.batch_size - 1) \X (0 .. output_height - 1) \X (0 .. output_width - 1)
    \X (0 .. config.channels - 1)

PooledWord(p) ==
  ram[OutputBase + ((p[1] * output_height + p[2]) * output_width + p[3]) * config.channels + p[4]]

WindowOf(p) ==
  {Loaded(((p[1] * Height + p[2] * config.stride + i) * Width + p[3] * config.stride + j)
            * config.channels + p[4]) :
     i, j \in 0 .. config.pool_size - 1}

Elements(s) == {s[i] : i \in 1 .. Len(s)}

(* Type invariant. *)
UnitsTypeOK ==
  /\ DOMAIN ram = Addr /\ address_b \in Addr
  /\ config \in Configs
  /\ top_state \in {"IDLE", "POOL_OP", "ACT_OP", "DONE_ST"}
  /\ selected_operation \in {"CONV", "POOL", "ACT"}
  /\ DOMAIN feed = {"POOL", "ACT"}
  /\ pool_state \in {"IDLE", "SETUP_DIMS", "POOL_COMPUTE", "WRITE_OUTPUT", "DONE_ST"}
  /\ cnt \in [batch : 0 .. config.batch_size - 1, channel : 0 .. config.channels - 1,
              out_h : 0 .. output_height - 1, out_w : 0 .. output_width - 1,
              pool_h : 0 .. config.pool_size - 1, pool_w : 0 .. config.pool_size - 1]
  /\ Len(window) < config.pool_size * config.pool_size
  /\ act_state \in {"IDLE", "INIT_LUT", "PROCESSING", "PIPELINE_FLUSH", "DONE_ST"}
  /\ element_counter \in 0 .. config.tensor_size
  /\ DOMAIN stages = 1 .. PIPELINE_STAGES
  /\ lut_init_counter \in 0 .. LutSize /\ lut_initialized \in BOOLEAN
  /\ lut \subseteq 0 .. LutSize - 1

(* When pooling is reported done, every word of the result has been written,
   from exactly as many samples as its window has: the block leaves its loop
   at the last position without asking whether a sample is there, and none
   may be missing, left over from the window or the operation before, or
   counted twice.                                                          *)
PooledWindowsAreWhole ==
  top_state = "DONE_ST" /\ selected_operation = "POOL" /\ Fits =>
    \A p \in Positions :
      /\ PooledWord(p) \notin {Loaded(a) : a \in Addr}
      /\ Len(PooledWord(p).window) = config.pool_size * config.pool_size

(* The operands stay as they were loaded, and nothing beyond the result is
   written, though results take their addresses from counters that move with
   the clock and the pipeline may hold a word of the operation before.     *)
OutsideResultIsKept ==
  Fits /\ selected_operation # "CONV" =>
    \A a \in Addr : a < OutputBase \/ a >= OutputBase + ResultSize => ram[a] = Loaded(a)

(* No element is looked up before every entry of the tables is written, also
   when a reset ended an earlier initialisation half-way.                  *)
TablesAreFilled ==
  act_state \in {"PROCESSING", "PIPELINE_FLUSH"} => lut = 0 .. LutSize - 1

(* The operation ends, unless a reset ends it. *)
OperationEnds == top_state \in {"POOL_OP", "ACT_OP"} ~> top_state \in {"DONE_ST", "IDLE"}

(* When an operation is reported done, every pooled word is made of exactly
   the words of its window, and every activation is that of its element.
   The read pipelines take a word one clock after it is asked for.         *)
ResultsAreOfTheirInputs ==
  top_state = "DONE_ST" /\ Fits =>
    /\ selected_operation = "POOL" =>
         \A p \in Positions : Elements(PooledWord(p).window) = WindowOf(p)
    /\ selected_operation = "ACT" =>
         \A i \in 0 .. config.tensor_size - 1 : ram[OutputBase + i] = Activated(Loaded(i))
=============================================================================

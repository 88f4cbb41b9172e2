---------------------------- MODULE Configuration ----------------------------
(***************************************************************************)
(* The settings of the compute units: from the configuration calls of      *)
(* software/bsp/neurax_bsp.c, through the configuration registers of       *)
(* neurax_register_block.vhd, to the wires the units read on every clock   *)
(* of an operation.  A call that writes two registers does so on two clock *)
(* edges, and nothing in the hardware keeps a call away from a running     *)
(* operation: only the program's waiting does.                             *)
(***************************************************************************)
EXTENDS BspSession

CONSTANTS
  ConvConfigs,        (* The arguments the program configures with: of     *)
  PoolConfigs,        (* neurax_config_conv, neurax_config_pool,           *)
  ActivationConfigs,  (* neurax_config_activation                          *)
  BatchSizes,         (* and neurax_set_batch_size.                        *)
  MAX_KERNEL_SIZE, MAX_CHANNELS, MAX_POOL_SIZE, MAX_TENSOR_SIZE, MAX_BATCH_SIZE

Arguments(fields) == [fields -> Int]

ConvFields       == {"kernel_size", "stride", "padding", "input_channels", "output_channels"}
PoolFields       == {"pool_size", "stride", "pool_type", "channels"}
ActivationFields == {"activation_type", "tensor_size", "alpha"}

ASSUME ArgumentAssumption ==
  /\ ConvConfigs \subseteq Arguments(ConvFields)
  /\ PoolConfigs \subseteq Arguments(PoolFields)
  /\ ActivationConfigs \subseteq Arguments(ActivationFields)
  /\ BatchSizes \subseteq Int

ASSUME MaximaAssumption ==
  {MAX_KERNEL_SIZE, MAX_CHANNELS, MAX_POOL_SIZE, MAX_TENSOR_SIZE, MAX_BATCH_SIZE}
    \subseteq Nat \ {0}

VARIABLES
  config,  (* The configuration registers, by field.                       *)
  call,    (* The call whose second register is not yet written, or none.  *)
  (* History, read by the properties only: *)
  given,   (* The arguments of the last call of each kind.                 *)
  ran      (* What the operation since neurax_start has seen on its wires: *)
           (* nothing yet, only what was asked for, or something else.     *)

configVars == <<bspVars, config, call, given, ran>>

-----------------------------------------------------------------------------
(* Fields of a register hold the low bits of an argument. *)
Bytes  == 0 .. 255
Halves == 0 .. 65535

Byte(n) == n % 256

(* Fault: the field is not cut to its width. *)
HalfWhole(n) == n

Half(n) == n % 65536

Cleared(fields) == [f \in fields |-> 0]

Conv0(c) == [kernel_size |-> Byte(c.kernel_size), groups |-> Byte(c.input_channels),
             padding |-> Byte(c.padding), stride |-> Byte(c.stride)]
(* Fault: input and output channels change places. *)
Conv1Swapped(c) == [input_channels  |-> Byte(c.output_channels),
                    output_channels |-> Byte(c.input_channels)]

Conv1(c) == [input_channels  |-> Byte(c.input_channels),
             output_channels |-> Byte(c.output_channels)]
Pool(c)  == [f \in PoolFields |-> Byte(c[f])]
Act(c)   == [activation_type |-> Byte(c.activation_type), tensor_size |-> Half(c.tensor_size)]

(* What a field says, within the range of the wire. *)
limit_range(n, min, max) == IF n < min \/ n = 0 THEN min ELSE IF n > max THEN max ELSE n

(* int_to_pooling_type, int_to_activation_type: the kinds there are, or the first. *)
KindOf(n, last) == IF n \in 0 .. last THEN n ELSE 0

(* The wires that the maximum of the register block, MAX_CHANNELS, bounds end at
   ports of the accelerator that are built for PortChannels: for the numbers
   up to it, three bits.                                                   *)
PortChannels == 4
Port(n)      == n % 8

(* The wires to the units. *)
Wires ==
  [kernel_size     |-> limit_range(config.conv0.kernel_size, 1, MAX_KERNEL_SIZE),
   stride          |-> limit_range(config.conv0.stride, 1, 4),
   padding         |-> limit_range(config.conv0.padding, 0, MAX_KERNEL_SIZE \div 2),
   input_channels  |-> Port(limit_range(config.conv1.input_channels, 1, MAX_CHANNELS)),
   output_channels |-> Port(limit_range(config.conv1.output_channels, 1, MAX_CHANNELS)),
   pool_size       |-> limit_range(config.pool.pool_size, 1, MAX_POOL_SIZE),
   pool_stride     |-> limit_range(config.pool.stride, 1, MAX_POOL_SIZE),
   pool_type       |-> KindOf(config.pool.pool_type, 3),
   pool_channels   |-> Port(limit_range(config.pool.channels, 1, MAX_CHANNELS)),
   activation_type |-> KindOf(config.act.activation_type, 5),
   tensor_size     |-> limit_range(config.act.tensor_size, 1, MAX_TENSOR_SIZE),
   alpha           |-> config.alpha,
   batch_size      |-> limit_range(config.batch, 1, MAX_BATCH_SIZE)]

(* What the program asked for: of each argument, as far as the field holds it,
   the nearest value the unit can have.                                    *)
Distance(m, n) == IF m < n THEN n - m ELSE m - n
Nearest(n, values) == CHOOSE v \in values : \A u \in values : Distance(v, n) <= Distance(u, n)

Asked ==
  [kernel_size     |-> Nearest(Byte(given.conv.kernel_size), 1 .. MAX_KERNEL_SIZE),
   stride          |-> Nearest(Byte(given.conv.stride), 1 .. 4),
   padding         |-> Nearest(Byte(given.conv.padding), 0 .. MAX_KERNEL_SIZE \div 2),
   input_channels  |-> Nearest(Byte(given.conv.input_channels), 1 .. MAX_CHANNELS),
   output_channels |-> Nearest(Byte(given.conv.output_channels), 1 .. MAX_CHANNELS),
   pool_size       |-> Nearest(Byte(given.pool.pool_size), 1 .. MAX_POOL_SIZE),
   pool_stride     |-> Nearest(Byte(given.pool.stride), 1 .. MAX_POOL_SIZE),
   pool_type       |-> KindOf(Byte(given.pool.pool_type), 3),
   pool_channels   |-> Nearest(Byte(given.pool.channels), 1 .. MAX_CHANNELS),
   activation_type |-> KindOf(Byte(given.act.activation_type), 5),
   tensor_size     |-> Nearest(Half(given.act.tensor_size), 1 .. MAX_TENSOR_SIZE),
   alpha           |-> given.act.alpha,
   batch_size      |-> Nearest(Byte(given.batch), 1 .. MAX_BATCH_SIZE)]

-----------------------------------------------------------------------------
NoCall == [kind |-> "none"]

(* Every setting is as asked for, but the channels that the ports are too small
   for.                                                                    *)
ChannelWires == {"input_channels", "output_channels", "pool_channels"}

WiresAsAsked ==
  LET w == Wires
      a == Asked
  IN  \A f \in DOMAIN a : w[f] = a[f] \/ (f \in ChannelWires /\ a[f] > PortChannels)

(* What the operation that a neurax_start launches sees on its wires on every
   clock edge up to its end.                                               *)
Watched == operations = before + 1 /\ current_state \in Ops

Watch ==
  ran' = IF pc = "caller" /\ pc' = "starting" THEN "nothing"
         ELSE IF ~Watched THEN ran
         ELSE IF WiresAsAsked /\ ran # "other" THEN "asked" ELSE "other"

(* A step of the library as before: between two calls, or time that passes. *)
Library ==
  /\ IF call = NoCall THEN BspNext ELSE Sleep
  /\ Watch
  /\ UNCHANGED <<config, call, given>>

(* An edge on which the program writes a configuration register. *)
Configures ==
  /\ pc = "caller"
  /\ Sleep
  /\ Watch

neurax_config_conv ==
  /\ Configures /\ call = NoCall
  /\ \E c \in ConvConfigs :
       /\ config' = [config EXCEPT !.conv0 = Conv0(c)]
       /\ call' = [kind |-> "conv", with |-> c]
       /\ given' = [given EXCEPT !.conv = c]

ConvSecond ==
  /\ Configures /\ call.kind = "conv"
  /\ config' = [config EXCEPT !.conv1 = Conv1(call.with)]
  /\ call' = NoCall
  /\ UNCHANGED given

neurax_config_pool ==
  /\ Configures /\ call = NoCall
  /\ \E c \in PoolConfigs :
       /\ config' = [config EXCEPT !.pool = Pool(c)]
       /\ given' = [given EXCEPT !.pool = c]
  /\ UNCHANGED call

neurax_config_activation ==
  /\ Configures /\ call = NoCall
  /\ \E c \in ActivationConfigs :
       /\ config' = [config EXCEPT !.act = Act(c)]
       /\ call' = [kind |-> "activation", with |-> c]
       /\ given' = [given EXCEPT !.act = c]

ActivationSecond ==
  /\ Configures /\ call.kind = "activation"
  /\ config' = [config EXCEPT !.alpha = call.with.alpha]
  /\ call' = NoCall
  /\ UNCHANGED given

neurax_set_batch_size ==
  /\ Configures /\ call = NoCall
  /\ \E n \in BatchSizes :
       /\ config' = [config EXCEPT !.batch = Byte(n)]
       /\ given' = [given EXCEPT !.batch = n]
  /\ UNCHANGED call

-----------------------------------------------------------------------------
(* The registers are cleared by the hardware reset, which is before the first
   step; neurax_reset leaves them alone.                                   *)
ConfigInit ==
  /\ BspInit
  /\ config = [conv0 |-> Cleared({"kernel_size", "groups", "padding", "stride"}),
               conv1 |-> Cleared({"input_channels", "output_channels"}),
               pool  |-> Cleared(PoolFields),
               act   |-> Cleared({"activation_type", "tensor_size"}),
               alpha |-> 0, batch |-> 0]
  /\ call = NoCall
  /\ given = [conv |-> Cleared(ConvFields), pool |-> Cleared(PoolFields),
              act |-> Cleared(ActivationFields), batch |-> 0]
  /\ ran = "nothing"

ConfigNext ==
  \/ Library
  \/ neurax_config_conv \/ ConvSecond
  \/ neurax_config_pool
  \/ neurax_config_activation \/ ActivationSecond
  \/ neurax_set_batch_size

ConfigSpec == ConfigInit /\ [][ConfigNext]_configVars

(* The clock runs, units end, and the program is scheduled. *)
ConfigFairSpec == ConfigSpec /\ BspFairness

-----------------------------------------------------------------------------
(* Type invariant. *)
ConfigTypeOK ==
  /\ config \in [conv0 : [{"kernel_size", "groups", "padding", "stride"} -> Bytes],
                  conv1 : [{"input_channels", "output_channels"} -> Bytes],
                  pool  : [PoolFields -> Bytes],
                  act   : [activation_type : Bytes, tensor_size : Halves],
                  alpha : Int, batch : Bytes]
  /\ call \in {NoCall} \cup [kind : {"conv"}, with : ConvConfigs]
                       \cup [kind : {"activation"}, with : ActivationConfigs]
  /\ given \in [conv : Arguments(ConvFields), pool : Arguments(PoolFields),
                 act : Arguments(ActivationFields), batch : Int]
  /\ ran \in {"nothing", "asked", "other"}

(* An operation that the program has waited for has run, on every clock of it,
   with what the program configured before neurax_start: each argument where
   it belongs, those out of range at the nearest end, and no call in
   between, its own or of an earlier set, taking effect half-way.  As with
   WaitDoneIsCurrent, of an accelerator that was idle at neurax_start; and of
   the operation launched by neurax_start, not of one that the same START
   launches again, which may see the settings of the next.                 *)
OperationHasItsSettings == waited = "done" /\ free => ran = "asked"
=============================================================================

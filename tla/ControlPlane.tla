----------------------------- MODULE ControlPlane -----------------------------
(***************************************************************************)
(* The control side of the accelerator, one rising clock edge per step:    *)
(* the register block (neurax_register_block.vhd), the top-level state     *)
(* machine (FPGA_accelerator.vhd) and the data interface, wired together   *)
(* as in neurax.vhd.  The three compute blocks are inputs here: all that   *)
(* the control sees of them is the pulse that says they are done.          *)
(*                                                                         *)
(* Registers that only parameterise a computation are in Configuration.    *)
(* The Avalon master reads and writes whole 32-bit registers.              *)
(***************************************************************************)
EXTENDS DataInterface

CONSTANTS
  Written,    (* The register writes an unconstrained master makes.        *)
  MaxStarts   (* Bound: commands written, of each kind, and operations.    *)

ASSUME StartsAssumption == MaxStarts \in Nat

VARIABLES
  reg,                 (* The register file.                               *)
  current_state,       (* The top-level state machine.                     *)
  selected_operation,
  done_latch,
  (* History, read by the properties only: *)
  opStarts,            (* Writes to CMD that set START.                    *)
  operations,          (* Operations launched.                             *)
  dataStarts,          (* Writes to DATA_SC that set START.                *)
  packets,             (* Packets launched.                                *)
  wroteDataSc          (* The last edge wrote DATA_SC.                     *)

topVars == <<current_state, selected_operation, done_latch>>
history == <<opStarts, operations, dataStarts, packets, wroteDataSc>>
controlVars == <<vars, topVars, reg, history>>

Units == <<"CONV_OP", "POOL_OP", "ACT_OP">>
Ops   == {"CONV_OP", "POOL_OP", "ACT_OP"}

-----------------------------------------------------------------------------
(* Registers, by field. *)
Cmd      == [enable : BOOLEAN, op : 0 .. 3, start : BOOLEAN]
Status   == [done : BOOLEAN, busy : BOOLEAN, op : 0 .. 3]
DataSc   == [start : BOOLEAN, busy : BOOLEAN, done : BOOLEAN]
DataRead == [addr : Addr, length : 0 .. MaxLength]

Registers == [CMD : Cmd, STATUS : Status, DATA_SC : DataSc, DATA_READ : DataRead]

ClearedRegisters ==
  [CMD       |-> [enable |-> FALSE, op |-> 0, start |-> FALSE],
   STATUS    |-> [done |-> FALSE, busy |-> FALSE, op |-> 0],
   DATA_SC   |-> [start |-> FALSE, busy |-> FALSE, done |-> FALSE],
   DATA_READ |-> [addr |-> 0, length |-> 0]]

(* What the Avalon master does on an edge.  A read returns the register as it
   is before the edge and changes nothing.                                 *)
NoWrite        == [write |-> FALSE]
Write(r, v)    == [write |-> TRUE, register |-> r, value |-> v]
Writes(bus, r) == bus.write /\ bus.register = r

AnyWrite ==
  {Write("CMD", v) : v \in Cmd} \cup {Write("STATUS", v) : v \in Status}
    \cup {Write("DATA_SC", v) : v \in DataSc} \cup {Write("DATA_READ", v) : v \in DataRead}

ASSUME WrittenAssumption == Written \subseteq AnyWrite

(* Faults: the operation is numbered from 1; START does not clear itself; START
   clears itself without waiting for the data interface.                   *)
CopiedInFromOne ==
  [reg EXCEPT
     !.STATUS  = [done |-> done_latch, busy |-> current_state \in Ops,
                  op |-> selected_operation + 1],
     !.DATA_SC = [start |-> @.start /\ rd_state = "IDLE",
                  busy  |-> rd_state # "IDLE", done |-> rd_state = "FLUSH"]]

CopiedInSticky ==
  [reg EXCEPT
     !.STATUS  = [done |-> done_latch, busy |-> current_state \in Ops,
                  op |-> selected_operation],
     !.DATA_SC = [start |-> @.start, busy |-> rd_state # "IDLE", done |-> rd_state = "FLUSH"]]

CopiedInOneClock ==
  [reg EXCEPT
     !.STATUS  = [done |-> done_latch, busy |-> current_state \in Ops,
                  op |-> selected_operation],
     !.DATA_SC = [start |-> FALSE, busy |-> rd_state # "IDLE", done |-> rd_state = "FLUSH"]]

(* The write process: status is copied in on every edge, START clears itself
   once the data interface is busy, and a write, which STATUS ignores, comes
   last.                                                                   *)
CopiedIn ==
  [reg EXCEPT
     !.STATUS  = [done |-> done_latch, busy |-> current_state \in Ops,
                  op |-> selected_operation],
     !.DATA_SC = [start |-> @.start /\ rd_state = "IDLE",
                  busy  |-> rd_state # "IDLE", done |-> rd_state = "FLUSH"]]

RegisterEdge(bus) ==
  reg' = IF bus.write /\ bus.register # "STATUS"
           THEN [CopiedIn EXCEPT ![bus.register] = bus.value] ELSE CopiedIn

(* The top-level state machine. *)
Launches == current_state = "IDLE" /\ reg.CMD.enable /\ reg.CMD.start

(* Faults: a launch leaves the DONE of the operation before; DONE is never set. *)
TopEdgeKeepsDone(unit_done) ==
  \/ /\ Launches
     /\ selected_operation' = reg.CMD.op
     /\ current_state' = IF reg.CMD.op = 3 THEN "IDLE" ELSE Units[reg.CMD.op + 1]
     /\ UNCHANGED done_latch
  \/ current_state = "IDLE" /\ ~Launches /\ UNCHANGED topVars
  \/ /\ current_state \in Ops
     /\ current_state' = IF unit_done THEN "DONE_ST" ELSE current_state
     /\ done_latch' = (done_latch \/ unit_done)
     /\ UNCHANGED selected_operation
  \/ /\ current_state = "DONE_ST" /\ current_state' = "IDLE"
     /\ UNCHANGED <<selected_operation, done_latch>>

TopEdgeForgetsDone(unit_done) ==
  \/ /\ Launches
     /\ selected_operation' = reg.CMD.op /\ done_latch' = FALSE
     /\ current_state' = IF reg.CMD.op = 3 THEN "IDLE" ELSE Units[reg.CMD.op + 1]
  \/ current_state = "IDLE" /\ ~Launches /\ UNCHANGED topVars
  \/ /\ current_state \in Ops
     /\ current_state' = IF unit_done THEN "DONE_ST" ELSE current_state
     /\ UNCHANGED <<selected_operation, done_latch>>
  \/ /\ current_state = "DONE_ST" /\ current_state' = "IDLE"
     /\ UNCHANGED <<selected_operation, done_latch>>

TopEdge(unit_done) ==
  \/ /\ Launches
     /\ selected_operation' = reg.CMD.op
     /\ done_latch' = FALSE
     /\ current_state' = IF reg.CMD.op = 3 THEN "IDLE" ELSE Units[reg.CMD.op + 1]
  \/ /\ current_state = "IDLE" /\ ~Launches
     /\ UNCHANGED topVars
  \/ /\ current_state \in Ops
     /\ current_state' = IF unit_done THEN "DONE_ST" ELSE current_state
     /\ done_latch' = (done_latch \/ unit_done)
     /\ UNCHANGED selected_operation
  \/ /\ current_state = "DONE_ST"
     /\ current_state' = "IDLE"
     /\ UNCHANGED <<selected_operation, done_latch>>

(* The data interface with the command wired to the registers. *)
DataEdge(asi, ready, b) ==
  \/ Idle(asi, [start |-> reg.DATA_SC.start, addr |-> reg.DATA_READ.addr,
                length |-> reg.DATA_READ.length], b)
  \/ Prefetch(asi, b)
  \/ ~ready /\ Stall(asi, b)
  \/ ready /\ Send(asi, b)
  \/ Flush(asi, b)

Count(bus) ==
  /\ opStarts' = opStarts + (IF Writes(bus, "CMD") /\ bus.value.start THEN 1 ELSE 0)
  /\ dataStarts' = dataStarts + (IF Writes(bus, "DATA_SC") /\ bus.value.start THEN 1 ELSE 0)
  /\ operations' = operations + (IF current_state = "IDLE" /\ current_state' \in Ops
                                   THEN 1 ELSE 0)
  /\ packets' = packets + (IF rd_state = "IDLE" /\ rd_state' = "PREFETCH" THEN 1 ELSE 0)
  /\ wroteDataSc' = Writes(bus, "DATA_SC")

(* Bound: MaxStarts commands of each kind; and after as many operations none is
   launched again by a START that is still set, because the last does not end
   before: the clock is never held up.                                     *)
Bounded(bus, unit_done) ==
  /\ Writes(bus, "CMD") /\ bus.value.start => opStarts < MaxStarts
  /\ Writes(bus, "DATA_SC") /\ bus.value.start => dataStarts < MaxStarts
  /\ unit_done /\ reg.CMD.start => operations < MaxStarts

Edge(bus, unit_done, asi, ready, b) ==
  /\ Bounded(bus, unit_done)
  /\ RegisterEdge(bus)
  /\ TopEdge(unit_done)
  /\ DataEdge(asi, ready, b)
  /\ Count(bus)

-----------------------------------------------------------------------------
ControlInit ==
  /\ Init
  /\ reg = ClearedRegisters
  /\ current_state = "IDLE" /\ selected_operation = 0 /\ done_latch = FALSE
  /\ opStarts = 0 /\ operations = 0 /\ dataStarts = 0 /\ packets = 0
  /\ wroteDataSc = FALSE

ControlReset ==
  /\ Reset
  /\ reg' = ClearedRegisters
  /\ current_state' = "IDLE" /\ selected_operation' = 0 /\ done_latch' = FALSE
  /\ opStarts' = 0 /\ operations' = 0 /\ dataStarts' = 0 /\ packets' = 0
  /\ wroteDataSc' = FALSE

(* A master that writes the registers at any time, and an accelerator that
   writes its results only during an operation.                            *)
Results == IF current_state \in Ops THEN PortB ELSE {[wren |-> FALSE]}

Runs(ready) ==
  \E bus \in Written \cup {NoWrite}, unit_done \in BOOLEAN, asi \in Beat, b \in Results :
    Edge(bus, unit_done, asi, ready, b)

ControlNext == Runs(TRUE) \/ Runs(FALSE) \/ ControlReset

ControlSpec == ControlInit /\ [][ControlNext]_controlVars

(* The clock runs, and the DMA a packet is meant for takes its words. *)
ControlFairSpec ==
  /\ ControlSpec
  /\ WF_controlVars(rd_state \in {"PREFETCH", "FLUSH"} /\ (Runs(TRUE) \/ Runs(FALSE)))
  /\ WF_controlVars(rd_state = "SEND" /\ Runs(TRUE))

-----------------------------------------------------------------------------
(* Type invariant. *)
ControlTypeOK ==
  /\ TypeOK
  /\ reg \in Registers
  /\ current_state \in Ops \cup {"IDLE", "DONE_ST"}
  /\ selected_operation \in 0 .. 3
  /\ done_latch \in BOOLEAN
  /\ {opStarts, operations, dataStarts, packets} \subseteq Nat
  /\ wroteDataSc \in BOOLEAN

(* The self-clearing START of DATA_SC is a pulse: however the master times its
   writes, one that sets START sends one packet at most.                   *)
DataStartIsPulse ==
  packets + (IF reg.DATA_SC.start /\ rd_state = "IDLE" THEN 1 ELSE 0) <= dataStarts

(* DATA_SC has no gap: from the write of START until the packet is over either
   START or BUSY reads 1, although BUSY is a clock late, as long as nobody
   writes DATA_SC meanwhile.                                               *)
PacketIsVisible ==
  rd_state # "IDLE" /\ ~wroteDataSc => reg.DATA_SC.start \/ reg.DATA_SC.busy

(* STATUS never shows an operation both done and in progress, and DONE refers
   to no operation but the last: it is gone before the unit can finish.    *)
DoneIsNotBusy ==
  /\ ~(reg.STATUS.done /\ reg.STATUS.busy)
  /\ current_state \in Ops => ~done_latch
=============================================================================

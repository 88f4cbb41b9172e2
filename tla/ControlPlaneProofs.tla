------------------------- MODULE ControlPlaneProofs -------------------------
(***************************************************************************)
(* The control side of the accelerator, for every RAM size, every set of   *)
(* register writes a master may make and any number of start commands: the *)
(* data interface is used as it is specified, so that what is proved of it *)
(* alone holds in the composition, and the status the software polls is    *)
(* right.                                                                  *)
(***************************************************************************)
EXTENDS ControlPlane, DataInterfaceProofs

(* The types of the control side, the histories' included. *)
ControlTyped ==
  /\ reg \in Registers
  /\ current_state \in Ops \cup {"IDLE", "DONE_ST"}
  /\ selected_operation \in 0 .. 3
  /\ done_latch \in BOOLEAN
  /\ {opStarts, operations, dataStarts, packets} \subseteq Nat
  /\ wroteDataSc \in BOOLEAN

(* The inductive invariant. *)
ControlInv == ControlTyped /\ DataStartIsPulse /\ PacketIsVisible /\ DoneIsNotBusy

-----------------------------------------------------------------------------
(* A write names a register and a value of its width. *)
LEMMA BusShape ==
  ASSUME NEW bus \in AnyWrite \cup {NoWrite}, bus.write
  PROVE  \/ bus.register = "CMD" /\ bus.value \in Cmd
         \/ bus.register = "STATUS" /\ bus.value \in Status
         \/ bus.register = "DATA_SC" /\ bus.value \in DataSc
         \/ bus.register = "DATA_READ" /\ bus.value \in DataRead
<1>1. bus # NoWrite
  BY DEF NoWrite
<1> QED
  BY <1>1 DEF AnyWrite, Write

(* The register file after an edge. *)
LEMMA RegisterResult ==
  ASSUME ControlTyped, NEW bus \in AnyWrite \cup {NoWrite}, RegisterEdge(bus)
  PROVE  /\ reg' \in Registers
         /\ reg'.STATUS.done = done_latch
         /\ reg'.STATUS.busy = (current_state \in Ops)
         /\ Writes(bus, "CMD") => reg'.CMD = bus.value
         /\ ~Writes(bus, "CMD") => reg'.CMD = reg.CMD
         /\ Writes(bus, "DATA_SC") => reg'.DATA_SC = bus.value
         /\ ~Writes(bus, "DATA_SC") =>
              /\ reg'.DATA_SC.start = (reg.DATA_SC.start /\ rd_state = "IDLE")
              /\ reg'.DATA_SC.busy = (rd_state # "IDLE")
<1> DEFINE going == current_state \in Ops
           start == reg.DATA_SC.start /\ rd_state = "IDLE"
           busy == rd_state # "IDLE"
           done == rd_state = "FLUSH"
           status == [done |-> done_latch, busy |-> going, op |-> selected_operation]
           datasc == [start |-> start, busy |-> busy, done |-> done]
<1>1. CopiedIn = [reg EXCEPT !.STATUS = status, !.DATA_SC = datasc]
  BY DEF CopiedIn
<1>2. /\ going \in BOOLEAN /\ start \in BOOLEAN /\ busy \in BOOLEAN /\ done \in BOOLEAN
      /\ done_latch \in BOOLEAN /\ selected_operation \in 0 .. 3
  BY DEF ControlTyped
<1> HIDE DEF going, start, busy, done
<1>3. status \in Status /\ status.done = done_latch /\ status.busy = going
  BY <1>2, Zenon DEF Status
<1>4. datasc \in DataSc /\ datasc.start = start /\ datasc.busy = busy
  BY <1>2, Zenon DEF DataSc
<1> HIDE DEF status, datasc
<1>5. reg \in Registers
  BY DEF ControlTyped
<1>6. /\ CopiedIn \in Registers /\ CopiedIn.STATUS = status /\ CopiedIn.DATA_SC = datasc
      /\ CopiedIn.CMD = reg.CMD
  BY <1>1, <1>3, <1>4, <1>5 DEF Registers
<1> HIDE DEF CopiedIn
<1>7. CASE bus.write /\ bus.register # "STATUS"
  <2>1. reg' = [CopiedIn EXCEPT ![bus.register] = bus.value]
    BY <1>7 DEF RegisterEdge
  <2>2. reg' \in Registers
    BY <1>6, <1>7, <2>1, BusShape DEF Registers
  <2>3. reg'.STATUS = status
    BY <1>6, <1>7, <2>1 DEF Registers
  <2>4. /\ Writes(bus, "CMD") => reg'.CMD = bus.value
        /\ ~Writes(bus, "CMD") => reg'.CMD = reg.CMD
    BY <1>6, <1>7, <2>1 DEF Registers, Writes
  <2>5. CASE bus.register = "DATA_SC"
    BY <1>3, <1>6, <1>7, <2>1, <2>2, <2>3, <2>4, <2>5 DEF Registers, Writes, going
  <2>6. CASE bus.register # "DATA_SC"
    <3>1. reg'.DATA_SC = datasc
      BY <1>6, <2>1, <2>6 DEF Registers
    <3> QED
      BY <1>3, <1>4, <2>2, <2>3, <2>4, <2>6, <3>1 DEF Writes, going, start, busy
  <2> QED
    BY <2>5, <2>6
<1>8. CASE ~(bus.write /\ bus.register # "STATUS")
  <2>1. reg' = CopiedIn /\ ~Writes(bus, "DATA_SC") /\ ~Writes(bus, "CMD")
    BY <1>8 DEF RegisterEdge, Writes
  <2> QED
    BY <1>3, <1>4, <1>6, <2>1 DEF going, start, busy
<1> QED
  BY <1>7, <1>8

(* The command wired to the registers is one the data interface knows, or none. *)
LEMMA WiredCommand ==
  ASSUME ControlTyped, NEW asi, NEW b,
         Idle(asi, [start |-> reg.DATA_SC.start, addr |-> reg.DATA_READ.addr,
                    length |-> reg.DATA_READ.length], b)
  PROVE  /\ \E cmd \in Command : Idle(asi, cmd, b)
         /\ \/ reg.DATA_SC.start /\ rd_state' = "PREFETCH"
            \/ rd_state' = "IDLE"
<1>1. /\ reg.DATA_SC.start \in BOOLEAN
      /\ reg.DATA_READ.addr \in Addr /\ reg.DATA_READ.length \in 0 .. MaxLength
  BY DEF ControlTyped, Registers, DataSc, DataRead
<1>2. CASE reg.DATA_SC.start = TRUE
  <2> DEFINE cmd == [start |-> TRUE, addr |-> reg.DATA_READ.addr,
                     length |-> reg.DATA_READ.length]
  <2>1. cmd \in Command
    BY <1>1 DEF Command
  <2>2. Idle(asi, cmd, b)
    BY <1>2
  <2>3. rd_state' = "PREFETCH" \/ rd_state' = "IDLE"
    BY <2>2 DEF Idle, rdVars
  <2> QED
    BY <1>2, <2>1, <2>2, <2>3
<1>3. CASE reg.DATA_SC.start = FALSE
  <2> DEFINE cmd == [start |-> FALSE]
  <2>1. cmd \in Command
    BY DEF Command
  <2>2. Idle(asi, cmd, b) /\ rd_state' = "IDLE"
    BY <1>3 DEF Idle, rdVars
  <2> QED
    BY <2>1, <2>2
<1> QED
  BY <1>1, <1>2, <1>3

(* An edge of the control side is an edge of the data interface, which leaves
   IDLE only for a packet that DATA_SC asks for.                           *)
LEMMA DataEdgeResult ==
  ASSUME ControlTyped, NEW asi \in Beat, NEW ready \in BOOLEAN, NEW b \in Results,
         DataEdge(asi, ready, b)
  PROVE  /\ Clock
         /\ \/ rd_state = "IDLE" /\ rd_state' = "PREFETCH" /\ reg.DATA_SC.start
            \/ rd_state = "IDLE" /\ rd_state' = "IDLE"
            \/ rd_state # "IDLE" /\ rd_state' # "PREFETCH"
<1>1. b \in PortB
  BY DEF Results, PortB
<1>2. CASE Idle(asi, [start |-> reg.DATA_SC.start, addr |-> reg.DATA_READ.addr,
                      length |-> reg.DATA_READ.length], b)
  <2>1. rd_state = "IDLE"
    BY <1>2 DEF Idle
  <2> QED
    BY <1>1, <1>2, <2>1, WiredCommand DEF Clock
<1>3. CASE Prefetch(asi, b) \/ Stall(asi, b) \/ Send(asi, b) \/ Flush(asi, b)
  <2>1. rd_state # "IDLE" /\ rd_state' # "PREFETCH"
    BY <1>3 DEF Prefetch, Stall, Send, Flush, rdVars
  <2> QED
    BY <1>1, <1>3, <2>1 DEF Clock
<1> QED
  BY <1>2, <1>3 DEF DataEdge

-----------------------------------------------------------------------------
(* After power-up everything is idle and cleared. *)
LEMMA ControlInitially == ControlInit => ControlInv
<1> SUFFICES ASSUME ControlInit PROVE ControlInv
  OBVIOUS
<1>1. ClearedRegisters \in Registers
  <2>1. 0 \in Addr /\ 0 \in 0 .. MaxLength
    BY SizeAssumption, BoundAssumption DEF Addr
  <2> QED
    BY <2>1 DEF ClearedRegisters, Registers, Cmd, Status, DataSc, DataRead
<1>2. ~reg.DATA_SC.start /\ ~reg.STATUS.done /\ rd_state = "IDLE" /\ current_state = "IDLE"
  BY DEF ControlInit, Init, ClearedRegisters
<1>3. ControlTyped
  <2>1. reg \in Registers /\ current_state \in Ops \cup {"IDLE", "DONE_ST"}
    BY <1>1 DEF ControlInit
  <2>2. done_latch \in BOOLEAN /\ wroteDataSc \in BOOLEAN
    BY Zenon DEF ControlInit
  <2>3. /\ selected_operation \in 0 .. 3
        /\ {opStarts, operations, dataStarts, packets} \subseteq Nat
    BY DEF ControlInit
  <2> QED
    BY <2>1, <2>2, <2>3 DEF ControlTyped
<1>4. DataStartIsPulse
  BY <1>2 DEF ControlInit, DataStartIsPulse
<1>5. PacketIsVisible /\ DoneIsNotBusy
  BY <1>2 DEF PacketIsVisible, DoneIsNotBusy, Ops
<1> QED
  BY <1>3, <1>4, <1>5 DEF ControlInv

(* A reset leaves them so too. *)
LEMMA ControlResetStep == ASSUME ControlReset PROVE ControlInv'
<1>1. ClearedRegisters \in Registers
  <2>1. 0 \in Addr /\ 0 \in 0 .. MaxLength
    BY SizeAssumption, BoundAssumption DEF Addr
  <2> QED
    BY <2>1 DEF ClearedRegisters, Registers, Cmd, Status, DataSc, DataRead
<1>2. ~reg'.DATA_SC.start /\ ~reg'.STATUS.done /\ rd_state' = "IDLE" /\ current_state' = "IDLE"
  BY DEF ControlReset, Reset, ClearedRegisters
<1>3. ControlTyped'
  <2>1. reg' \in Registers /\ current_state' \in Ops \cup {"IDLE", "DONE_ST"}
    BY <1>1 DEF ControlReset
  <2>2. done_latch' \in BOOLEAN /\ wroteDataSc' \in BOOLEAN
    BY Zenon DEF ControlReset
  <2>3. /\ selected_operation' \in 0 .. 3
        /\ {opStarts', operations', dataStarts', packets'} \subseteq Nat
    BY DEF ControlReset
  <2> QED
    BY <2>1, <2>2, <2>3 DEF ControlTyped
<1>4. DataStartIsPulse'
  BY <1>2 DEF ControlReset, DataStartIsPulse
<1>5. PacketIsVisible' /\ DoneIsNotBusy'
  BY <1>2 DEF PacketIsVisible, DoneIsNotBusy, Ops
<1> QED
  BY <1>3, <1>4, <1>5 DEF ControlInv

(* The top-level state machine on an edge. *)
LEMMA TopEdgeResult ==
  ASSUME ControlTyped, DoneIsNotBusy, NEW unit_done \in BOOLEAN, TopEdge(unit_done)
  PROVE  /\ current_state' \in Ops \cup {"IDLE", "DONE_ST"}
         /\ selected_operation' \in 0 .. 3
         /\ done_latch' \in BOOLEAN
         /\ current_state' \in Ops => ~done_latch'
<1>1. reg.CMD.op \in 0 .. 3
  BY DEF ControlTyped, Registers, Cmd
<1>2. CASE Launches /\ selected_operation' = reg.CMD.op /\ done_latch' = FALSE
           /\ current_state' = IF reg.CMD.op = 3 THEN "IDLE" ELSE Units[reg.CMD.op + 1]
  <2>1. reg.CMD.op # 3 => Units[reg.CMD.op + 1] \in Ops
    BY <1>1 DEF Units, Ops
  <2> QED
    BY <1>1, <1>2, <2>1
<1>3. CASE UNCHANGED topVars
  BY <1>3 DEF topVars, ControlTyped, DoneIsNotBusy
<1>4. CASE /\ current_state \in Ops
           /\ current_state' = IF unit_done THEN "DONE_ST" ELSE current_state
           /\ done_latch' = (done_latch \/ unit_done)
           /\ UNCHANGED selected_operation
  BY <1>4 DEF ControlTyped, DoneIsNotBusy, Ops
<1>5. CASE current_state' = "IDLE" /\ UNCHANGED <<selected_operation, done_latch>>
  BY <1>5 DEF ControlTyped, Ops
<1> QED
  BY <1>2, <1>3, <1>4, <1>5 DEF TopEdge

(* A clock edge: the registers are a clock behind the data interface and the
   state machine, and the properties hold although they are.               *)
LEMMA EdgeStep ==
  ASSUME ControlInv, NEW bus \in AnyWrite \cup {NoWrite}, NEW unit_done \in BOOLEAN,
         NEW asi \in Beat, NEW ready \in BOOLEAN, NEW b \in Results,
         Edge(bus, unit_done, asi, ready, b)
  PROVE  ControlInv'
<1>1. ControlTyped /\ DataStartIsPulse /\ DoneIsNotBusy
  BY DEF ControlInv
<1>2. /\ reg' \in Registers
      /\ reg'.STATUS.done = done_latch
      /\ reg'.STATUS.busy = (current_state \in Ops)
      /\ Writes(bus, "DATA_SC") => reg'.DATA_SC = bus.value
      /\ ~Writes(bus, "DATA_SC") =>
           /\ reg'.DATA_SC.start = (reg.DATA_SC.start /\ rd_state = "IDLE")
           /\ reg'.DATA_SC.busy = (rd_state # "IDLE")
  BY <1>1, RegisterResult DEF Edge
<1>3. /\ current_state' \in Ops \cup {"IDLE", "DONE_ST"}
      /\ selected_operation' \in 0 .. 3
      /\ done_latch' \in BOOLEAN
      /\ current_state' \in Ops => ~done_latch'
  BY <1>1, TopEdgeResult DEF Edge
<1>4. \/ rd_state = "IDLE" /\ rd_state' = "PREFETCH" /\ reg.DATA_SC.start
      \/ rd_state = "IDLE" /\ rd_state' = "IDLE"
      \/ rd_state # "IDLE" /\ rd_state' # "PREFETCH"
  BY <1>1, DataEdgeResult DEF Edge
<1>5. /\ dataStarts' = dataStarts + (IF Writes(bus, "DATA_SC") /\ bus.value.start THEN 1 ELSE 0)
      /\ packets' = packets + (IF rd_state = "IDLE" /\ rd_state' = "PREFETCH" THEN 1 ELSE 0)
      /\ wroteDataSc' = Writes(bus, "DATA_SC")
      /\ opStarts' = opStarts + (IF Writes(bus, "CMD") /\ bus.value.start THEN 1 ELSE 0)
      /\ operations' = operations + (IF current_state = "IDLE" /\ current_state' \in Ops
                                       THEN 1 ELSE 0)
  BY DEF Edge, Count
<1>6. {opStarts, operations, dataStarts, packets} \subseteq Nat
  BY <1>1 DEF ControlTyped
<1>7. ControlTyped'
  <2>1. {opStarts', operations', dataStarts', packets'} \subseteq Nat
    BY <1>5, <1>6
  <2>2. wroteDataSc' \in BOOLEAN
    BY <1>5 DEF Writes
  <2> QED
    BY <1>2, <1>3, <1>5, <2>1, <2>2 DEF ControlTyped
<1>8. DataStartIsPulse'
  <2>1. CASE Writes(bus, "DATA_SC")
    BY <1>1, <1>2, <1>4, <1>5, <1>6, <2>1 DEF DataStartIsPulse
  <2>2. CASE ~Writes(bus, "DATA_SC")
    <3> DEFINE start == reg.DATA_SC.start
    <3>1. reg'.DATA_SC.start => start /\ rd_state = "IDLE"
      BY <1>2, <2>2
    <3>2. dataStarts' = dataStarts
      BY <1>5, <1>6, <2>2
    <3>3. packets + (IF start /\ rd_state = "IDLE" THEN 1 ELSE 0) <= dataStarts
      BY <1>1 DEF DataStartIsPulse
    <3>4. CASE rd_state = "IDLE" /\ rd_state' = "PREFETCH" /\ start
      BY <1>5, <1>6, <3>2, <3>3, <3>4 DEF DataStartIsPulse
    <3>5. CASE rd_state' # "PREFETCH"
      BY <1>5, <1>6, <3>1, <3>2, <3>3, <3>5 DEF DataStartIsPulse
    <3> QED
      BY <1>4, <3>4, <3>5
  <2> QED
    BY <2>1, <2>2
<1>9. PacketIsVisible'
  BY <1>2, <1>4, <1>5 DEF PacketIsVisible
<1>10. DoneIsNotBusy'
  BY <1>1, <1>2, <1>3 DEF DoneIsNotBusy
<1> QED
  BY <1>7, <1>8, <1>9, <1>10 DEF ControlInv

(* Every clock edge and every reset keeps the invariant. *)
LEMMA ControlInductive == ControlInv /\ [ControlNext]_controlVars => ControlInv'
<1> SUFFICES ASSUME ControlInv, [ControlNext]_controlVars PROVE ControlInv'
  OBVIOUS
<1>1. CASE UNCHANGED controlVars
  BY <1>1 DEF controlVars, vars, topVars, history, rdVars, ControlInv, ControlTyped,
              DataStartIsPulse, PacketIsVisible, DoneIsNotBusy
<1>2. CASE ControlReset
  BY <1>2, ControlResetStep
<1>3. CASE \E ready \in BOOLEAN : Runs(ready)
  BY <1>3, EdgeStep, WrittenAssumption DEF Runs
<1> QED
  BY <1>1, <1>2, <1>3 DEF ControlNext

(* The invariant of the control side holds whatever the master writes. *)
THEOREM ControlInvariance == ControlSpec => []ControlInv
<1> QED
  BY ControlInitially, ControlInductive, PTL DEF ControlSpec

(* A START of DATA_SC sends one packet at most, however it is timed. *)
THEOREM StartSendsOnePacket == ControlSpec => []DataStartIsPulse
<1>1. ControlInv => DataStartIsPulse
  BY DEF ControlInv
<1> QED
  BY <1>1, ControlInvariance, PTL

(* Polling DATA_SC finds a packet under way, from the write on. *)
THEOREM PollingFindsPacket == ControlSpec => []PacketIsVisible
<1>1. ControlInv => PacketIsVisible
  BY DEF ControlInv
<1> QED
  BY <1>1, ControlInvariance, PTL

(* STATUS shows DONE of the last operation only, never beside BUSY. *)
THEOREM DoneIsOfTheLastOperation == ControlSpec => []DoneIsNotBusy
<1>1. ControlInv => DoneIsNotBusy
  BY DEF ControlInv
<1> QED
  BY <1>1, ControlInvariance, PTL

-----------------------------------------------------------------------------
(* The composition gives the data interface only the commands and the port-B
   writes it is specified for: every behaviour of the control side is one of
   the data interface.                                                     *)
THEOREM DataInterfaceImplemented == ControlSpec => Spec
<1>1. ControlInit => Init
  BY DEF ControlInit
<1>2. ControlInv /\ [ControlNext]_controlVars => [Next]_vars
  <2> SUFFICES ASSUME ControlInv, [ControlNext]_controlVars PROVE [Next]_vars
    OBVIOUS
  <2>1. CASE UNCHANGED controlVars
    BY <2>1 DEF controlVars
  <2>2. CASE ControlReset
    BY <2>2 DEF ControlReset, Next
  <2>3. CASE \E ready \in BOOLEAN : Runs(ready)
    BY <2>3, DataEdgeResult DEF Runs, ControlInv, Edge, Next
  <2> QED
    BY <2>1, <2>2, <2>3 DEF ControlNext
<1> QED
  BY <1>1, <1>2, ControlInvariance, PTL DEF Spec, ControlSpec

(* Every variable of the composition stays within its type. *)
THEOREM ControlTypeCorrect == ControlSpec => []ControlTypeOK
<1>1. ControlInv /\ TypeOK => ControlTypeOK
  BY DEF ControlInv, ControlTyped, ControlTypeOK
<1> QED
  BY <1>1, ControlInvariance, DataInterfaceImplemented, TypeCorrect, PTL
=============================================================================

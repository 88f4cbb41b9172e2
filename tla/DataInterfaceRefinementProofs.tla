------------------- MODULE DataInterfaceRefinementProofs -------------------
(***************************************************************************)
(* The clocked DataInterface implements PacketBuffer, for every RAM size   *)
(* and whatever the accelerator writes and when: each edge is a step of    *)
(* PacketBuffer or none.                                                   *)
(***************************************************************************)
EXTENDS DataInterfaceProofs, DataInterfaceMapping

(* The word on offer is the next one of the commanded region. *)
NextWord ==
  /\ rd_state # "IDLE" => cmd_length > 0
  /\ rd_state \in {"PREFETCH", "SEND"} => rd_ptr = (cmd_start_addr + Len(packet)) % Size

-----------------------------------------------------------------------------
(* Between packets both ports may write, in which case the accelerator's word
   is the last, or any word if the two share the address.                  *)
LEMMA TwoWrites ==
  ASSUME NEW a \in Addr, NEW d \in Word, NEW b \in PortB,
         ram \in [Addr -> Word], RamEdge(a, {d}, b)
  PROVE  LET m == [ram EXCEPT ![a] = d]
         IN  ram' = m \/ \E c \in Addr, w \in Word : ram' = [m EXCEPT ![c] = w]
<1> DEFINE m    == [ram EXCEPT ![a] = d]
           hit  == b.wren /\ b.addr = a
           bRam == IF b.wren THEN [ram EXCEPT ![b.addr] = b.data] ELSE ram
<1>1. b.wren \in BOOLEAN /\ (b.wren => b.addr \in Addr /\ b.data \in Word)
  <2>1. CASE b = [wren |-> FALSE]
    BY <2>1
  <2>2. CASE b \in [wren : {TRUE}, addr : Addr, data : Word]
    BY <2>2
  <2> QED
    BY <2>1, <2>2 DEF PortB
<1>2. PICK w \in IF hit THEN Word ELSE {d} : ram' = [bRam EXCEPT ![a] = w]
  BY DEF RamEdge
<1>3. CASE ~b.wren
  BY <1>2, <1>3
<1>4. CASE hit
  <2>1. ram' = [m EXCEPT ![a] = w] /\ w \in Word
    BY <1>1, <1>2, <1>4
  <2> QED
    BY <2>1
<1>5. CASE b.wren /\ ~hit
  <2>1. ram' = [m EXCEPT ![b.addr] = b.data]
    BY <1>1, <1>2, <1>5
  <2>2. b.addr \in Addr /\ b.data \in Word
    BY <1>1, <1>5
  <2> QED
    BY <2>1, <2>2
<1> QED
  BY <1>1, <1>3, <1>4, <1>5

(* When port A only reads, the RAM changes by what port B writes, and port A's
   output is in doubt only if that is the word it reads.                   *)
LEMMA OneWrite ==
  ASSUME NEW a \in Addr, NEW b \in PortB, ram \in [Addr -> Word], RamEdge(a, {}, b)
  PROVE  /\ ram' = ram \/ \E c \in Addr, w \in Word : ram' = [ram EXCEPT ![c] = w]
         /\ clash' => \E w \in Word : ram' = [ram EXCEPT ![a] = w]
         /\ ~b.wren => ram' = ram
<1> DEFINE bRam == IF b.wren THEN [ram EXCEPT ![b.addr] = b.data] ELSE ram
<1>1. b.wren \in BOOLEAN /\ (b.wren => b.addr \in Addr /\ b.data \in Word)
  <2>1. CASE b = [wren |-> FALSE]
    BY <2>1
  <2>2. CASE b \in [wren : {TRUE}, addr : Addr, data : Word]
    BY <2>2
  <2> QED
    BY <2>1, <2>2 DEF PortB
<1>2. bRam \in [Addr -> Word]
  BY <1>1
<1>3. ram' = [bRam EXCEPT ![a] = bRam[a]]
  BY DEF RamEdge
<1>4. ram' = bRam
  BY <1>2, <1>3
<1>5. clash' => b.wren /\ b.addr = a
  BY DEF RamEdge
<1>6. CASE b.wren
  <2>1. ram' = [ram EXCEPT ![b.addr] = b.data] /\ b.addr \in Addr /\ b.data \in Word
    BY <1>1, <1>4, <1>6
  <2> QED
    BY <1>5, <1>6, <2>1
<1>7. CASE ~b.wren
  BY <1>4, <1>5, <1>7
<1> QED
  BY <1>1, <1>6, <1>7

(* During a packet the sink takes nothing. *)
LEMMA SinkRests ==
  ASSUME NEW asi \in Beat, rd_state # "IDLE", Sink(asi)
  PROVE  Stored(asi) = {} /\ wr_ptr' = wr_ptr
BY DEF Stored, Sink, sink_ready

(* What is known of the word on offer holds from edge to edge. *)
LEMMA NextWordStep ==
  ASSUME IInv, NextWord, [Next]_vars
  PROVE  NextWord'
<1>1. CASE Reset
  BY <1>1 DEF Reset, NextWord
<1>2. CASE UNCHANGED vars
  BY <1>2 DEF vars, cmdVars, rdVars, NextWord
<1>3. ASSUME NEW asi \in Beat, NEW b \in PortB, NEW cmd \in Command, Idle(asi, cmd, b)
      PROVE  NextWord'
  <2>1. CASE /\ cmd.start /\ cmd.length # 0 /\ rd_state' = "PREFETCH"
             /\ cmd_start_addr' = cmd.addr /\ cmd_length' = cmd.length
             /\ rd_ptr' = cmd.addr /\ packet' = <<>>
    <3>1. cmd.addr \in Addr /\ cmd.length \in Addr
      BY <2>1, CommandResult
    <3>2. /\ cmd.addr \in Nat /\ cmd.addr \in 0 .. Size - 1
          /\ cmd.addr = (Size * 0) + cmd.addr /\ cmd.length > 0
      BY <2>1, <3>1, SizeAssumption DEF Addr
    <3>3. cmd.addr % Size = cmd.addr
      BY <3>2, RemainderIs
    <3>4. Len(packet') = 0 /\ cmd.addr + 0 = cmd.addr
      BY <2>1, <3>2
    <3> QED
      BY <2>1, <3>2, <3>3, <3>4 DEF NextWord
  <2>2. CASE UNCHANGED <<cmdVars, rdVars, packet>>
    BY <1>3, <2>2 DEF Idle, NextWord, cmdVars, rdVars
  <2> QED
    BY <1>3, <2>1, <2>2 DEF Idle
<1>4. ASSUME NEW asi \in Beat, NEW b \in PortB,
             Prefetch(asi, b) \/ Stall(asi, b) \/ Flush(asi, b)
      PROVE  NextWord'
  BY <1>4 DEF Prefetch, Stall, Flush, rdVars, cmdVars, NextWord
<1>5. ASSUME NEW asi \in Beat, NEW b \in PortB, Send(asi, b)
      PROVE  NextWord'
  <2>1. /\ rd_state = "SEND"
        /\ Len(packet) \in Nat /\ Len(packet') = Len(packet) + 1
        /\ cmd_start_addr' = cmd_start_addr /\ cmd_length' = cmd_length
        /\ rd_ptr \in Addr /\ cmd_start_addr \in Nat
    BY <1>5, SizeAssumption DEF Send, cmdVars, IInv, TypeOK, Addr
  <2>2. CASE rd_state' = "FLUSH"
    BY <2>1, <2>2 DEF NextWord
  <2>3. CASE rd_state' = "SEND" /\ rd_ptr' = Inc(rd_ptr)
    <3>1. rd_ptr' = (cmd_start_addr + Len(packet) + 1) % Size
      BY <2>1, <2>3, IncCounts DEF NextWord
    <3> QED
      BY <2>1, <2>3, <3>1 DEF NextWord
  <2> QED
    BY <1>5, <2>1, <2>2, <2>3 DEF Send
<1> QED
  BY <1>1, <1>2, <1>3, <1>4, <1>5 DEF Next, Clock

-----------------------------------------------------------------------------
(* An edge in IDLE stores, starts over, writes and commands in one step. *)
LEMMA IdleImplements ==
  ASSUME IInv, IInv', NextWord,
         NEW asi \in Beat, NEW cmd \in Command, NEW b \in PortB, Idle(asi, cmd, b)
  PROVE  [Abstract!Next]_(Abstract!vars)
<1>1. rd_state = "IDLE" /\ PortA(asi, b) /\ Sink(asi)
  BY DEF Idle
<1>2. /\ ram \in [Addr -> Word] /\ wr_ptr \in Addr /\ rd_ptr \in Addr
  BY DEF IInv, TypeOK
<1>3. \E m \in {ram} \cup {[ram EXCEPT ![wr_ptr] = w] : w \in Word} :
        /\ Abstract!Stream(m)
        /\ ram' = m \/ \E a \in Addr, w \in Word : ram' = [m EXCEPT ![a] = w]
  <2>1. CASE asi.valid /\ sink_ready /\ asi.channel = 1 /\ wr_ptr' = 0
    <3>1. RamEdge(rd_ptr, {}, b)
      BY <1>1, <2>1 DEF PortA, Stored
    <3>2. Abstract!Stream(ram)
      BY <2>1 DEF Abstract!Stream
    <3> QED
      BY <1>2, <3>1, <3>2, OneWrite
  <2>2. CASE Stored(asi) # {} /\ wr_ptr' = Inc(wr_ptr)
    <3>1. asi.valid /\ asi.channel = 0 /\ Stored(asi) = {asi.data}
      BY <2>2 DEF Stored
    <3>2. asi.data \in Word
      BY <3>1, BeatShape
    <3>3. RamEdge(wr_ptr, {asi.data}, b)
      BY <1>1, <2>2, <3>1 DEF PortA
    <3> DEFINE m == [ram EXCEPT ![wr_ptr] = asi.data]
    <3>4. Abstract!Stream(m)
      BY <2>2, <3>2 DEF Abstract!Stream, Inc
    <3>5. ram' = m \/ \E a \in Addr, w \in Word : ram' = [m EXCEPT ![a] = w]
      BY <1>2, <3>2, <3>3, TwoWrites
    <3> QED
      BY <3>2, <3>4, <3>5
  <2>3. CASE ~(asi.valid /\ sink_ready) /\ wr_ptr' = wr_ptr
    <3>1. RamEdge(rd_ptr, {}, b)
      BY <1>1, <2>3 DEF PortA, Stored
    <3>2. Abstract!Stream(ram)
      BY <2>3 DEF Abstract!Stream
    <3> QED
      BY <1>2, <3>1, <3>2, OneWrite
  <2> QED
    BY <1>1, <2>1, <2>2, <2>3 DEF Sink
<1> DEFINE want == IF rd_state = "IDLE" THEN [start |-> 0, length |-> 0]
                   ELSE [start |-> cmd_start_addr, length |-> cmd_length]
           out  == IF rd_state = "IDLE" THEN <<>>
                   ELSE [i \in 1 .. Len(packet) |-> packet[i].data]
           torn == rd_state = "SEND" /\ clash
<1>4. want = Abstract!NoPacket /\ out = <<>> /\ ~torn
  BY <1>1 DEF Abstract!NoPacket
<1>5. want' \in Abstract!Packets \cup {Abstract!NoPacket} /\ out' = <<>> /\ ~torn'
  <2>1. CASE /\ cmd.start /\ cmd.length # 0 /\ rd_state' = "PREFETCH"
             /\ cmd_start_addr' = cmd.addr /\ cmd_length' = cmd.length
             /\ packet' = <<>>
    <3>1. cmd.addr \in Addr /\ cmd.length \in Addr \ {0}
      BY <2>1, CommandResult
    <3>2. want' = [start |-> cmd.addr, length |-> cmd.length]
      BY <2>1
    <3>3. want' \in Abstract!Packets
      BY <3>1, <3>2 DEF Abstract!Packets, Abstract!Addr, Addr
    <3>4. out' = <<>>
      BY <2>1
    <3> QED
      BY <2>1, <3>3, <3>4
  <2>2. CASE UNCHANGED <<cmdVars, rdVars, packet>>
    <3>1. rd_state' = "IDLE"
      BY <1>1, <2>2 DEF rdVars
    <3> QED
      BY <3>1 DEF Abstract!NoPacket
  <2> QED
    BY <2>1, <2>2 DEF Idle
<1>6. torn' = torn
  BY <1>4, <1>5, Zenon
<1> HIDE DEF want, out, torn
<1>7. Abstract!Between
  BY <1>3, <1>4, <1>5, <1>6
     DEF Abstract!Between, Abstract!Result, Abstract!Addr, Addr, want, out, torn
<1> QED
  BY <1>7 DEF Abstract!Next

(* During a packet the accelerator's word is all that changes in the RAM, and
   the next word of the packet is torn only if it is the one.              *)
LEMMA ResultImplements ==
  ASSUME NEW n \in Nat, NEW a \in Addr, NEW b \in PortB,
         rd_state # "IDLE", ram \in [Addr -> Word], RamEdge(a, {}, b),
         rd_state' = "SEND" => a = (cmd_start_addr + n) % Size
  PROVE  Abstract!ResultDuring(n)
<1> DEFINE torn == rd_state = "SEND" /\ clash
<1>1. Abstract!Result(ram)
  BY OneWrite DEF Abstract!Result, Abstract!Addr, Addr
<1>2. torn' \in BOOLEAN
  BY Zenon
<1>3. torn' => \E w \in Word : ram' = [ram EXCEPT ![(cmd_start_addr + n) % Size] = w]
  BY OneWrite
<1> HIDE DEF torn
<1> QED
  BY <1>1, <1>2, <1>3 DEF Abstract!ResultDuring, torn

(* A handshake delivers the next word of the region. *)
LEMMA SendImplements ==
  ASSUME IInv, NextWord, NEW asi \in Beat, NEW b \in PortB, Send(asi, b)
  PROVE  [Abstract!Next]_(Abstract!vars)
<1> DEFINE n    == Len(packet)
           out  == [i \in 1 .. Len(packet) |-> packet[i].data]
           beat == [addr |-> rd_ptr, data |-> q_a, sop |-> rd_first,
                    eop |-> rd_remaining = 1]
           P    == [addr : Addr, data : Word, sop : BOOLEAN, eop : BOOLEAN]
<1>1. /\ rd_state = "SEND" /\ rd_state' # "IDLE" /\ Sink(asi)
      /\ RamEdge(Inc(rd_ptr), {}, b) /\ packet' = Append(packet, beat)
      /\ cmd_start_addr' = cmd_start_addr /\ cmd_length' = cmd_length
  BY DEF Send, cmdVars
<1>2. wr_ptr' = wr_ptr
  BY <1>1, SinkRests
<1>3. packet \in Seq(P) /\ n \in Nat /\ beat \in P /\ cmd_start_addr \in Nat
      /\ rd_ptr \in Addr /\ ram \in [Addr -> Word] /\ q_a \in Word
  BY SizeAssumption DEF IInv, TypeOK, Addr
<1>4. n < cmd_length
  BY <1>1, <1>3, SizeAssumption DEF IInv, TypeOK, Position, Addr
<1>5. clash \/ q_a = ram[(cmd_start_addr + n) % Size]
  BY <1>1 DEF NextWord, IInv, OfferedWordIsStored
<1>6. beat.data = q_a
  OBVIOUS
<1> HIDE DEF beat, P
<1>7. /\ Len(packet') = n + 1 /\ packet'[n + 1] = beat
      /\ \A i \in 1 .. n : packet'[i] = packet[i]
  BY <1>1, <1>3
<1>8. Len(out) = n
  BY <1>3
<1>9. out' = Append(out, q_a)
  <2>1. out' = [i \in 1 .. n + 1 |-> packet'[i].data]
    BY <1>7
  <2>2. Append(out, q_a) = [i \in 1 .. n + 1 |-> IF i = n + 1 THEN q_a ELSE out[i]]
    BY <1>8, <1>3
  <2>3. \A i \in 1 .. n + 1 : packet'[i].data = IF i = n + 1 THEN q_a ELSE out[i]
    BY <1>3, <1>6, <1>7
  <2> QED
    BY <2>1, <2>2, <2>3
<1>10. Abstract!ResultDuring(n + 1)
  <2>1. Inc(rd_ptr) = (cmd_start_addr + (n + 1)) % Size
    BY <1>1, <1>3, IncCounts DEF NextWord
  <2>2. Inc(rd_ptr) \in Addr /\ n + 1 \in Nat
    BY <1>3, IncInAddr
  <2> QED
    BY <1>1, <1>3, <2>1, <2>2, ResultImplements
<1> HIDE DEF n, out
<1>11. Abstract!Deliver
  BY <1>1, <1>2, <1>3, <1>4, <1>5, <1>8, <1>9, <1>10 DEF Abstract!Deliver, out
<1> QED
  BY <1>11 DEF Abstract!Next

(* Every edge is a step of PacketBuffer, or none. *)
LEMMA StepImplements ==
  ASSUME IInv, IInv', NextWord, [Next]_vars
  PROVE  [Abstract!Next]_(Abstract!vars)
<1>1. CASE Reset
  <2>1. ram' = ram
    <3>1. 0 \in Addr /\ [wren |-> FALSE] \in PortB /\ ram \in [Addr -> Word]
      BY SizeAssumption DEF Addr, PortB, IInv, TypeOK
    <3>2. RamEdge(0, {}, [wren |-> FALSE])
      BY <1>1 DEF Reset
    <3> QED
      BY <3>1, <3>2, OneWrite
  <2>2. Abstract!Abort
    BY <1>1, <2>1 DEF Reset, Abstract!Abort, Abstract!NoPacket
  <2> QED
    BY <2>2 DEF Abstract!Next
<1>2. CASE UNCHANGED vars
  BY <1>2 DEF vars, cmdVars, rdVars, Abstract!vars
<1>3. ASSUME NEW asi \in Beat, NEW b \in PortB, NEW cmd \in Command, Idle(asi, cmd, b)
      PROVE  [Abstract!Next]_(Abstract!vars)
  BY <1>3, IdleImplements
<1>4. ASSUME NEW asi \in Beat, NEW b \in PortB, Prefetch(asi, b) \/ Stall(asi, b)
      PROVE  [Abstract!Next]_(Abstract!vars)
  <2>1. /\ PortA(asi, b) /\ Sink(asi) /\ rd_state \in {"PREFETCH", "SEND"}
        /\ rd_state' # "IDLE" /\ UNCHANGED <<cmdVars, packet>> /\ rd_ptr \in Addr
        /\ ram \in [Addr -> Word] /\ Len(packet) \in Nat
    BY <1>4 DEF Prefetch, Stall, rdVars, IInv, TypeOK
  <2>2. wr_ptr' = wr_ptr /\ RamEdge(rd_ptr, {}, b)
    BY <2>1, SinkRests DEF PortA
  <2>3. rd_ptr = (cmd_start_addr + Len(packet)) % Size /\ cmd_length > 0
    BY <2>1 DEF NextWord
  <2>4. Abstract!ResultDuring(Len(packet))
    BY <2>1, <2>2, <2>3, ResultImplements
  <2>5. Len([i \in 1 .. Len(packet) |-> packet[i].data]) = Len(packet)
    BY <2>1
  <2>6. [start |-> cmd_start_addr, length |-> cmd_length] # [start |-> 0, length |-> 0]
    BY <2>3
  <2>7. Abstract!Hold
    BY <2>1, <2>2, <2>4, <2>5, <2>6 DEF Abstract!Hold, Abstract!NoPacket, cmdVars
  <2> QED
    BY <2>7 DEF Abstract!Next
<1>5. ASSUME NEW asi \in Beat, NEW b \in PortB, Flush(asi, b)
      PROVE  [Abstract!Next]_(Abstract!vars)
  <2>1. /\ PortA(asi, b) /\ Sink(asi) /\ rd_state = "FLUSH" /\ rd_state' = "IDLE"
        /\ rd_ptr \in Addr /\ ram \in [Addr -> Word]
    BY <1>5 DEF Flush, IInv, TypeOK
  <2>2. wr_ptr' = wr_ptr /\ RamEdge(rd_ptr, {}, b)
    BY <2>1, SinkRests DEF PortA
  <2>3. cmd_length > 0 /\ Len(packet) = cmd_length
    BY <2>1 DEF NextWord, IInv, Position
  <2>4. [start |-> cmd_start_addr, length |-> cmd_length] # [start |-> 0, length |-> 0]
    BY <2>3
  <2>5. Len([i \in 1 .. Len(packet) |-> packet[i].data]) = Len(packet)
    BY DEF IInv, TypeOK
  <2>6. Abstract!Result(ram)
    BY <2>1, <2>2, OneWrite DEF Abstract!Result, Abstract!Addr, Addr
  <2>7. Abstract!Close
    BY <2>1, <2>2, <2>3, <2>4, <2>5, <2>6 DEF Abstract!Close, Abstract!NoPacket
  <2> QED
    BY <2>7 DEF Abstract!Next
<1>6. ASSUME NEW asi \in Beat, NEW b \in PortB, Send(asi, b)
      PROVE  [Abstract!Next]_(Abstract!vars)
  BY <1>6, SendImplements
<1> QED
  BY <1>1, <1>2, <1>3, <1>4, <1>5, <1>6 DEF Next, Clock

(* A packet delivers the words of the commanded region, as many as commanded and
   each as it is stored when it is taken, for every RAM size, every pattern of
   stalls and any writes of the accelerator.                               *)
THEOREM Refinement == Spec => ImplementsPacketBuffer
<1>1. Init => Abstract!Init
  <2> SUFFICES ASSUME Init PROVE Abstract!Init
    OBVIOUS
  <2>1. \E w \in Word : ram = [a \in Abstract!Addr |-> w]
    BY DEF Init, Addr, Abstract!Addr
  <2> QED
    BY <2>1 DEF Init, Abstract!Init, Abstract!NoPacket
<1>2. Init => NextWord
  BY DEF Init, NextWord
<1>3. IInv /\ NextWord /\ [Next]_vars => NextWord'
  BY NextWordStep
<1>4. IInv /\ IInv' /\ NextWord /\ [Next]_vars => [Abstract!Next]_(Abstract!vars)
  BY StepImplements
<1> QED
  BY <1>1, <1>2, <1>3, <1>4, Invariance, PTL DEF Spec, ImplementsPacketBuffer, Abstract!Spec
=============================================================================

------------------------ MODULE DataInterfaceProofs ------------------------
(***************************************************************************)
(* The safety invariants of DataInterface, its source half first and then  *)
(* its sink half, for every RAM size, every set of words, every stream and *)
(* every use of port B.                                                    *)
(***************************************************************************)
EXTENDS DataInterface, TLAPS

(* How the state machine's registers and the packet sent so far correspond. *)
Position ==
  /\ rd_state \in {"IDLE", "FLUSH"} => Len(packet) = cmd_length
  /\ rd_state = "PREFETCH" => packet = <<>>
  /\ rd_state \in {"PREFETCH", "SEND"} =>
       /\ rd_remaining > 0
       /\ Len(packet) = cmd_length - rd_remaining
       /\ rd_first <=> packet = <<>>
       /\ rd_ptr = IF packet = <<>> THEN cmd_start_addr
                   ELSE Inc(packet[Len(packet)].addr)

(* The inductive invariant. *)
IInv == TypeOK /\ Position /\ OfferedWordIsStored /\ PacketAddresses /\ PacketFraming

-----------------------------------------------------------------------------
(* Incrementing an address wraps within the RAM. *)
LEMMA IncInAddr == ASSUME NEW a \in Addr PROVE Inc(a) \in Addr
<1>1. a + 1 \in 1 .. Size
  BY SizeAssumption DEF Addr
<1>2. CASE a + 1 = Size
  BY <1>2, SizeAssumption DEF Inc, Addr
<1>3. CASE a + 1 < Size
  BY <1>3, SizeAssumption DEF Inc, Addr
<1> QED
  BY <1>1, <1>2, <1>3, SizeAssumption DEF Addr

(* An edge of the RAM writes words only, and port A's output afterwards is the
   word at port A's address unless port B wrote it on the same edge.       *)
LEMMA RamEdgeResult ==
  ASSUME NEW a \in Addr, NEW wa \in SUBSET Word, NEW b \in PortB,
         wa = {} \/ \E w \in Word : wa = {w},
         ram \in [Addr -> Word], foreign \in SUBSET Addr,
         RamEdge(a, wa, b)
  PROVE  /\ ram' \in [Addr -> Word] /\ q_a' \in Word
         /\ foreign' \in SUBSET Addr /\ clash' \in BOOLEAN
         /\ ~clash' => q_a' = ram'[a]
<1> DEFINE hit  == b.wren /\ b.addr = a
           bRam == IF b.wren THEN [ram EXCEPT ![b.addr] = b.data] ELSE ram
<1>1. b.wren \in BOOLEAN /\ (b.wren => b.addr \in Addr /\ b.data \in Word)
  <2>1. CASE b = [wren |-> FALSE]
    BY <2>1
  <2>2. CASE b \in [wren : {TRUE}, addr : Addr, data : Word]
    BY <2>2
  <2> QED
    BY <2>1, <2>2 DEF PortB
<1>2. bRam \in [Addr -> Word]
  BY <1>1
<1>3. PICK w \in IF wa = {} THEN {bRam[a]} ELSE IF hit THEN Word ELSE wa :
        ram' = [bRam EXCEPT ![a] = w]
  BY DEF RamEdge
<1>4. w \in Word
  BY <1>2, <1>3
<1>5. ram' \in [Addr -> Word]
  BY <1>2, <1>3, <1>4
<1>6. q_a' \in IF hit THEN Word ELSE {ram'[a]}
  BY DEF RamEdge
<1>7. clash' = hit
  BY DEF RamEdge
<1>8. foreign' \in SUBSET Addr
  BY <1>1 DEF RamEdge
<1> QED
  BY <1>1, <1>5, <1>6, <1>7, <1>8

(* A beat is absent, a marker on channel 1 or a word on channel 0. *)
LEMMA BeatShape ==
  ASSUME NEW asi \in Beat
  PROVE  \/ ~asi.valid
         \/ asi.channel = 1
         \/ asi.data \in Word
<1>1. CASE asi = [valid |-> FALSE]
  BY <1>1
<1>2. CASE asi \in [valid : {TRUE}, channel : {1}]
  BY <1>2
<1>3. CASE asi \in [valid : {TRUE}, channel : {0}, data : Word]
  BY <1>3
<1> QED
  BY <1>1, <1>2, <1>3 DEF Beat

(* The sink only moves the write pointer, within the RAM. *)
LEMMA SinkResult ==
  ASSUME NEW asi \in Beat, wr_ptr \in Addr, stream \in Seq(Word), Sink(asi)
  PROVE  wr_ptr' \in Addr /\ stream' \in Seq(Word)
<1>1. CASE wr_ptr' = 0 /\ stream' = <<>>
  BY <1>1, SizeAssumption DEF Addr
<1>2. CASE Stored(asi) # {} /\ wr_ptr' = Inc(wr_ptr) /\ stream' = Append(stream, asi.data)
  <2>1. asi.valid /\ asi.channel = 0
    BY <1>2 DEF Stored
  <2>3. asi.data \in Word
    BY <2>1, BeatShape
  <2> QED
    BY <1>2, <2>3, IncInAddr
<1> QED
  BY <1>1, <1>2 DEF Sink

(* Outside a handshake port A addresses the write pointer, and writes one word,
   or the read pointer, and writes none.                                   *)
LEMMA PortAResult ==
  ASSUME NEW asi \in Beat, NEW b \in PortB, TypeOK, PortA(asi, b)
  PROVE  /\ ram' \in [Addr -> Word] /\ q_a' \in Word
         /\ foreign' \in SUBSET Addr /\ clash' \in BOOLEAN
         /\ ~sink_ready /\ ~clash' => q_a' = ram'[rd_ptr]
<1> DEFINE a == IF Stored(asi) = {} THEN rd_ptr ELSE wr_ptr
<1>1. a \in Addr /\ (~sink_ready => Stored(asi) = {} /\ a = rd_ptr)
  BY DEF TypeOK, Stored
<1>2. Stored(asi) = {} \/ (Stored(asi) = {asi.data} /\ asi.data \in Word)
  <2>1. CASE ~asi.valid
    BY <2>1 DEF Stored
  <2>2. CASE asi.channel = 1
    BY <2>2 DEF Stored
  <2>3. CASE asi.data \in Word
    BY <2>3 DEF Stored
  <2> QED
    BY <2>1, <2>2, <2>3, BeatShape
<1>3. RamEdge(a, Stored(asi), b)
  BY DEF PortA
<1> QED
  BY <1>1, <1>2, <1>3, RamEdgeResult DEF TypeOK

(* Every command the interface is given fits its registers. *)
LEMMA CommandResult ==
  ASSUME NEW cmd \in Command, cmd.start
  PROVE  cmd.addr \in Addr /\ cmd.length \in Addr
<1>1. cmd # [start |-> FALSE]
  OBVIOUS
<1>2. cmd \in [start : {TRUE}, addr : Addr, length : 0 .. MaxLength]
  BY <1>1 DEF Command
<1> QED
  BY <1>2, BoundAssumption, SizeAssumption DEF Addr

(* The registers have their types after power-up. *)
LEMMA InitType == Init => TypeOK
<1> SUFFICES ASSUME Init PROVE TypeOK
  OBVIOUS
<1>1. 0 \in Addr
  BY SizeAssumption DEF Addr
<1>2. ram \in [Addr -> Word] /\ q_a \in Word
  BY DEF Init
<1> QED
  BY <1>1, <1>2 DEF Init, TypeOK, ReadState

-----------------------------------------------------------------------------
(* One lemma for each state of the source.  In IDLE, a word or a marker may be
   stored and a command accepted, which starts an empty packet.            *)
LEMMA IdleStep ==
  ASSUME IInv, NEW asi \in Beat, NEW cmd \in Command, NEW b \in PortB, Idle(asi, cmd, b)
  PROVE  IInv'
<1> USE DEF IInv
<1>1. CASE cmd.start /\ cmd.length # 0 /\ rd_state' = "PREFETCH"
  <2>1. /\ cmd_start_addr' = cmd.addr /\ cmd_length' = cmd.length
        /\ rd_ptr' = cmd.addr /\ rd_remaining' = cmd.length
        /\ rd_first' = TRUE /\ packet' = <<>>
        /\ cmd.addr \in Addr /\ cmd.length \in Addr /\ cmd.length > 0
    BY <1>1, CommandResult DEF Idle, Addr
  <2>2. TypeOK'
    <3>1. PortA(asi, b) /\ Sink(asi)
      BY DEF Idle
    <3>2. wr_ptr' \in Addr /\ stream' \in Seq(Word)
      BY <3>1, SinkResult DEF TypeOK
    <3>3. /\ ram' \in [Addr -> Word] /\ q_a' \in Word
          /\ foreign' \in SUBSET Addr /\ clash' \in BOOLEAN
      BY <3>1, PortAResult
    <3> QED
      BY <1>1, <2>1, <3>2, <3>3 DEF TypeOK, ReadState
  <2>3. Position'
    BY <1>1, <2>1 DEF Position, Addr
  <2>4. OfferedWordIsStored' /\ PacketAddresses'
    BY <1>1, <2>1 DEF OfferedWordIsStored, PacketAddresses
  <2>5. PacketFraming'
    BY <1>1, <2>1 DEF PacketFraming, Addr
  <2> QED
    BY <2>2, <2>3, <2>4, <2>5
<1>2. CASE UNCHANGED <<cmdVars, rdVars, packet>>
  <2>1. TypeOK'
    BY <1>2, PortAResult, SinkResult DEF Idle, TypeOK, cmdVars, rdVars
  <2>2. Position' /\ PacketAddresses' /\ PacketFraming'
    BY <1>2 DEF Position, PacketAddresses, PacketFraming, cmdVars, rdVars
  <2>3. OfferedWordIsStored'
    BY <1>2 DEF Idle, OfferedWordIsStored, rdVars
  <2> QED
    BY <2>1, <2>2, <2>3
<1> QED
  BY <1>1, <1>2 DEF Idle

(* A reset empties the packet and forgets the command. *)
LEMMA ResetStep == ASSUME IInv, Reset PROVE IInv'
<1>1. 0 \in Addr
  BY SizeAssumption DEF Addr
<1>2. /\ ram' \in [Addr -> Word] /\ q_a' \in Word
      /\ foreign' \in SUBSET Addr /\ clash' \in BOOLEAN
  <2>1. [wren |-> FALSE] \in PortB
    BY DEF PortB
  <2> QED
    BY <1>1, <2>1, RamEdgeResult DEF Reset, IInv, TypeOK
<1>3. TypeOK'
  BY <1>1, <1>2 DEF Reset, TypeOK, ReadState
<1>4. Position' /\ OfferedWordIsStored' /\ PacketAddresses' /\ PacketFraming'
  BY DEF Reset, Position, OfferedWordIsStored, PacketAddresses, PacketFraming
<1> QED
  BY <1>3, <1>4 DEF IInv

(* The edges on which no word is handed over: the source at most moves between
   its states.                                                             *)
LEMMA QuietStep ==
  ASSUME IInv, NEW asi \in Beat, NEW b \in PortB,
         Prefetch(asi, b) \/ Stall(asi, b) \/ Flush(asi, b)
  PROVE  IInv'
<1>1. PortA(asi, b) /\ Sink(asi) /\ ~sink_ready
  BY DEF Prefetch, Stall, Flush, sink_ready
<1>2. UNCHANGED <<cmdVars, rd_ptr, rd_remaining, rd_first, packet>>
  BY DEF Prefetch, Stall, Flush, rdVars
<1>3. \/ rd_state = "PREFETCH" /\ rd_state' = "SEND"
      \/ rd_state = "SEND" /\ rd_state' = "SEND"
      \/ rd_state = "FLUSH" /\ rd_state' = "IDLE"
  BY DEF Prefetch, Stall, Flush, rdVars
<1>4. TypeOK'
  BY <1>1, <1>2, <1>3, PortAResult, SinkResult DEF IInv, TypeOK, ReadState, cmdVars
<1>5. OfferedWordIsStored'
  BY <1>1, <1>2, PortAResult DEF IInv, OfferedWordIsStored
<1>6. Position'
  BY <1>2, <1>3 DEF IInv, Position, cmdVars
<1>7. PacketAddresses' /\ PacketFraming'
  BY <1>2, <1>3 DEF IInv, PacketAddresses, PacketFraming, Position, cmdVars
<1> QED
  BY <1>4, <1>5, <1>6, <1>7 DEF IInv

(* A handshake appends the word on offer to the packet, framed by what is left
   of it, and port A fetches the next one.                                 *)
LEMMA SendStep ==
  ASSUME IInv, NEW asi \in Beat, NEW b \in PortB, Send(asi, b)
  PROVE  IInv'
<1> DEFINE beat == [addr |-> rd_ptr, data |-> q_a, sop |-> rd_first,
                    eop |-> rd_remaining = 1]
           n == Len(packet)
<1> USE DEF IInv
<1>1. /\ rd_state = "SEND" /\ Sink(asi) /\ RamEdge(Inc(rd_ptr), {}, b)
      /\ rd_first' = FALSE /\ packet' = Append(packet, beat)
      /\ cmd_start_addr' = cmd_start_addr /\ cmd_length' = cmd_length
  BY DEF Send, cmdVars
<1>2. \/ rd_remaining = 1 /\ rd_state' = "FLUSH" /\ UNCHANGED <<rd_ptr, rd_remaining>>
      \/ /\ rd_remaining # 1 /\ rd_state' = "SEND"
         /\ rd_ptr' = Inc(rd_ptr) /\ rd_remaining' = rd_remaining - 1
  BY <1>1 DEF Send
<1>3. /\ rd_ptr \in Addr /\ rd_remaining \in Addr /\ rd_remaining > 0
      /\ cmd_length \in Addr /\ n = cmd_length - rd_remaining
      /\ Addr \subseteq Int
  BY <1>1, SizeAssumption DEF TypeOK, Position, Addr
<1>4. beat \in [addr : Addr, data : Word, sop : BOOLEAN, eop : BOOLEAN]
  BY DEF TypeOK
<1>5. /\ n \in Nat /\ Len(packet') = n + 1
      /\ packet'[n + 1] = beat
      /\ \A i \in 1 .. n : packet'[i] = packet[i]
      /\ packet' # <<>>
  BY <1>1, <1>4 DEF TypeOK
<1>6. /\ ram' \in [Addr -> Word] /\ q_a' \in Word
      /\ foreign' \in SUBSET Addr /\ clash' \in BOOLEAN
      /\ ~clash' => q_a' = ram'[Inc(rd_ptr)]
  BY <1>1, <1>3, IncInAddr, RamEdgeResult DEF TypeOK
<1>7. TypeOK'
  <2>1. rd_ptr' \in Addr /\ rd_remaining' \in Addr /\ rd_state' \in ReadState
    BY <1>2, <1>3, IncInAddr, SizeAssumption DEF Addr, ReadState
  <2>2. wr_ptr' \in Addr /\ stream' \in Seq(Word)
    BY <1>1, SinkResult DEF TypeOK
  <2>3. packet' \in Seq([addr : Addr, data : Word, sop : BOOLEAN, eop : BOOLEAN])
    <3> HIDE DEF beat
    <3> QED
      BY <1>1, <1>4 DEF TypeOK
  <2> QED
    BY <1>1, <1>6, <2>1, <2>2, <2>3 DEF TypeOK
<1>8. OfferedWordIsStored'
  BY <1>2, <1>6 DEF OfferedWordIsStored
<1>9. Position'
  BY <1>1, <1>2, <1>3, <1>5 DEF Position
<1>10. PacketAddresses'
  <2> SUFFICES ASSUME NEW i \in 1 .. n + 1
               PROVE  packet'[i].addr = IF i = 1 THEN cmd_start_addr
                                        ELSE Inc(packet'[i - 1].addr)
    BY <1>1, <1>5 DEF PacketAddresses
  <2>1. CASE i \in 1 .. n
    BY <2>1, <1>5 DEF PacketAddresses
  <2>2. CASE i = n + 1
    <3>1. packet'[i].addr = rd_ptr
      BY <2>2, <1>5
    <3>2. CASE n = 0
      BY <2>2, <3>1, <3>2, <1>1 DEF Position, TypeOK
    <3>3. CASE n # 0
      <4>1. packet'[i - 1] = packet[n] /\ packet # <<>>
        BY <2>2, <3>3, <1>5
      <4>2. rd_ptr = Inc(packet[n].addr)
        BY <4>1, <1>1 DEF Position
      <4> QED
        BY <2>2, <3>1, <3>3, <4>1, <4>2, <1>5
    <3> QED
      BY <3>2, <3>3
  <2> QED
    BY <1>5, <2>1, <2>2
<1>11. PacketFraming'
  <2>1. Len(packet') <= cmd_length' /\ (rd_state' = "FLUSH" => Len(packet') = cmd_length')
    BY <1>1, <1>2, <1>3, <1>5
  <2> SUFFICES ASSUME NEW i \in 1 .. n + 1
               PROVE  (packet'[i].sop <=> i = 1) /\ (packet'[i].eop <=> i = cmd_length)
    BY <1>1, <1>5, <2>1 DEF PacketFraming
  <2>2. CASE i \in 1 .. n
    BY <2>2, <1>5 DEF PacketFraming
  <2>3. CASE i = n + 1
    <3>1. rd_first <=> n = 0
      BY <1>1 DEF Position, TypeOK
    <3>2. rd_remaining = 1 <=> i = cmd_length
      BY <2>3, <1>3, <1>5
    <3>3. packet'[i].sop <=> rd_first
      BY <2>3, <1>5
    <3>4. packet'[i].eop <=> rd_remaining = 1
      <4>1. beat.eop <=> rd_remaining = 1
        BY Zenon
      <4> QED
        BY <2>3, <1>5, <4>1
    <3>5. i = 1 <=> n = 0
      BY <2>3, <1>5
    <3> QED
      BY <3>1, <3>2, <3>3, <3>4, <3>5
  <2> QED
    BY <1>5, <2>2, <2>3
<1> QED
  BY <1>7, <1>8, <1>9, <1>10, <1>11

-----------------------------------------------------------------------------
(* After power-up no packet is under way. *)
LEMMA Initially == Init => IInv
<1> SUFFICES ASSUME Init PROVE IInv
  OBVIOUS
<1>1. TypeOK
  BY InitType
<1>2. Position /\ OfferedWordIsStored /\ PacketAddresses /\ PacketFraming
  BY DEF Init, Position, OfferedWordIsStored, PacketAddresses, PacketFraming
<1> QED
  BY <1>1, <1>2 DEF IInv

(* Every clock edge and every reset keeps the invariant. *)
LEMMA Inductive == IInv /\ [Next]_vars => IInv'
<1> SUFFICES ASSUME IInv, [Next]_vars PROVE IInv'
  OBVIOUS
<1>1. CASE Reset
  BY <1>1, ResetStep
<1>2. CASE Clock
  <2> PICK asi \in Beat, b \in PortB :
        \/ \E cmd \in Command : Idle(asi, cmd, b)
        \/ Prefetch(asi, b) \/ Stall(asi, b) \/ Flush(asi, b)
        \/ Send(asi, b)
    BY <1>2 DEF Clock
  <2>1. CASE \E cmd \in Command : Idle(asi, cmd, b)
    BY <2>1, IdleStep
  <2>2. CASE Prefetch(asi, b) \/ Stall(asi, b) \/ Flush(asi, b)
    BY <2>2, QuietStep
  <2>3. CASE Send(asi, b)
    BY <2>3, SendStep
  <2> QED
    BY <2>1, <2>2, <2>3
<1>3. CASE UNCHANGED vars
  BY <1>3 DEF vars, cmdVars, rdVars, IInv, TypeOK, Position, OfferedWordIsStored,
              PacketAddresses, PacketFraming
<1> QED
  BY <1>1, <1>2, <1>3 DEF Next

(* The data interface keeps its invariant whatever its neighbours do. *)
THEOREM Invariance == Spec => []IInv
<1> QED
  BY Initially, Inductive, PTL DEF Spec

(* Every register stays within its width and every history is well formed. *)
THEOREM TypeCorrect == Spec => []TypeOK
<1>1. IInv => TypeOK
  BY DEF IInv
<1> QED
  BY <1>1, Invariance, PTL

(* The look-ahead read works for every stall pattern: the word offered
   downstream is the word stored at rd_ptr.                                *)
THEOREM OfferedWordCorrect == Spec => []OfferedWordIsStored
<1>1. IInv => OfferedWordIsStored
  BY DEF IInv
<1> QED
  BY <1>1, Invariance, PTL

(* A packet is made of the commanded addresses in order ... *)
THEOREM AddressesCorrect == Spec => []PacketAddresses
<1>1. IInv => PacketAddresses
  BY DEF IInv
<1> QED
  BY <1>1, Invariance, PTL

(* ... framed at its first and last word, and done exactly at its length.  *)
THEOREM FramingCorrect == Spec => []PacketFraming
<1>1. IInv => PacketFraming
  BY DEF IInv
<1> QED
  BY <1>1, Invariance, PTL

(* A word downstream does not take is still there on the next edge, however
   long the stall and whatever the look-ahead has fetched meanwhile.       *)
THEOREM OfferHeld == Spec => OfferIsHeld
<1> DEFINE held ==
      rd_state = "SEND" /\ packet' = packet /\ rd_state' # "IDLE" =>
        /\ rd_state' = "SEND"
        /\ UNCHANGED <<rd_ptr, rd_remaining, rd_first>>
        /\ ram'[rd_ptr] = ram[rd_ptr] /\ ~clash /\ ~clash' => q_a' = q_a
<1>1. IInv /\ [Next]_vars => [held]_vars
  <2> SUFFICES ASSUME IInv, Next, rd_state = "SEND", packet' = packet, rd_state' # "IDLE"
               PROVE  /\ rd_state' = "SEND"
                      /\ UNCHANGED <<rd_ptr, rd_remaining, rd_first>>
                      /\ ram'[rd_ptr] = ram[rd_ptr] /\ ~clash /\ ~clash' => q_a' = q_a
    OBVIOUS
  <2>1. PICK asi \in Beat, b \in PortB : Stall(asi, b) \/ Send(asi, b)
    BY DEF Next, Clock, Idle, Prefetch, Flush, Reset
  <2>2. ~Send(asi, b)
    <3>1. packet \in Seq([addr : Addr, data : Word, sop : BOOLEAN, eop : BOOLEAN])
      BY DEF IInv, TypeOK
    <3>2. \A e : packet # Append(packet, e)
      <4>1. \A e : Len(Append(packet, e)) = Len(packet) + 1 /\ Len(packet) \in Nat
        BY <3>1
      <4> QED
        BY <4>1
    <3> QED
      BY <3>2 DEF Send
  <2>3. PortA(asi, b) /\ ~sink_ready /\ UNCHANGED rdVars
    BY <2>1, <2>2 DEF Stall, sink_ready
  <2>4. ~clash' => q_a' = ram'[rd_ptr]
    BY <2>3, PortAResult DEF IInv
  <2>5. ~clash => q_a = ram[rd_ptr]
    BY DEF IInv, OfferedWordIsStored
  <2> QED
    BY <2>3, <2>4, <2>5 DEF rdVars
<1> QED
  BY <1>1, Invariance, PTL DEF Spec, OfferIsHeld

-----------------------------------------------------------------------------
(***************************************************************************)
(* The sink half: a streamed word is where the marker puts it, for every   *)
(* stream and every packet sent meanwhile.  The write pointer is the       *)
(* length of the stream modulo Size.                                       *)
(***************************************************************************)

(* The write pointer counts the words of the stream, and wraps. *)
PointerCounts == wr_ptr = Len(stream) % Size

SinkInv == PointerCounts /\ StreamIsStored

-----------------------------------------------------------------------------
(* A remainder is within the RAM, and is what the quotient leaves. *)
LEMMA Remainder ==
  ASSUME NEW x \in Nat
  PROVE  /\ x % Size \in 0 .. Size - 1
         /\ x \div Size \in Int
         /\ x = (Size * (x \div Size)) + (x % Size)
<1>1. x % Size \in 0 .. Size - 1
  BY SizeAssumption
<1>2. x \div Size \in Int
  BY SizeAssumption
<1>3. x = (Size * (x \div Size)) + (x % Size)
  BY SizeAssumption
<1> QED
  BY <1>1, <1>2, <1>3

(* A multiple of Size between its negative and itself is zero. *)
LEMMA SmallMultiple ==
  ASSUME NEW d \in Int, -Size < Size * d, Size * d < Size
  PROVE  d = 0
<1>1. CASE d >= 1
  <2>1. Size * d >= Size
    BY <1>1, SizeAssumption
  <2> QED
    BY <2>1, SizeAssumption
<1>2. CASE d =< -1
  <2>1. Size * d =< -Size
    BY <1>2, SizeAssumption
  <2> QED
    BY <2>1, SizeAssumption
<1> QED
  BY <1>1, <1>2

(* The remainder is the only address that differs by a multiple of Size. *)
LEMMA RemainderIs ==
  ASSUME NEW x \in Nat, NEW q \in Int, NEW r \in 0 .. Size - 1, x = (Size * q) + r
  PROVE  x % Size = r
<1> DEFINE p == x \div Size
           s == x % Size
<1>1. p \in Int /\ s \in 0 .. Size - 1 /\ x = (Size * p) + s
  BY Remainder
<1> HIDE DEF p, s
<1>2. Size * (p - q) = r - s
  BY <1>1, SizeAssumption
<1>3. p - q = 0
  <2>1. -Size < r - s /\ r - s < Size /\ p - q \in Int
    BY <1>1, SizeAssumption
  <2> QED
    BY <1>2, <2>1, SmallMultiple
<1>4. p = q
  BY <1>1, <1>3
<1>5. s = r
  BY <1>1, <1>4, SizeAssumption
<1> QED
  BY <1>5 DEF s

(* Incrementing a pointer counts one more word. *)
LEMMA IncCounts == ASSUME NEW n \in Nat PROVE (n + 1) % Size = Inc(n % Size)
<1> DEFINE q == n \div Size
           r == n % Size
<1>1. q \in Int /\ r \in 0 .. Size - 1 /\ n = (Size * q) + r
  BY Remainder
<1> HIDE DEF q, r
<1>2. CASE r + 1 = Size
  <2>1. Size \in Nat /\ Size = (Size * 1) + 0 /\ 0 \in 0 .. Size - 1
    BY SizeAssumption
  <2>2. (r + 1) % Size = 0
    BY <1>2, <2>1, RemainderIs
  <2>3. n + 1 = (Size * (q + 1)) + 0
    BY <1>1, <1>2, SizeAssumption
  <2>4. (n + 1) % Size = 0
    BY <1>1, <2>1, <2>3, RemainderIs
  <2> QED
    BY <2>2, <2>4 DEF Inc, r
<1>3. CASE r + 1 # Size
  <2>1. r + 1 \in 0 .. Size - 1 /\ r + 1 \in Nat
    BY <1>1, <1>3, SizeAssumption
  <2>2. r + 1 = (Size * 0) + (r + 1)
    BY <2>1, SizeAssumption
  <2>3. (r + 1) % Size = r + 1
    BY <2>1, <2>2, RemainderIs
  <2>4. n + 1 = (Size * q) + (r + 1)
    BY <1>1, SizeAssumption
  <2>5. (n + 1) % Size = r + 1
    BY <1>1, <2>1, <2>4, RemainderIs
  <2> QED
    BY <2>3, <2>5 DEF Inc, r
<1> QED
  BY <1>2, <1>3

(* Two words of the stream share an address only when they are at least a whole
   RAM apart.                                                              *)
LEMMA Apart ==
  ASSUME NEW m \in Nat, NEW n \in Nat, m < n, n < m + Size
  PROVE  m % Size # n % Size
<1> SUFFICES ASSUME m % Size = n % Size PROVE FALSE
  OBVIOUS
<1> DEFINE p == m \div Size
           q == n \div Size
           r == n % Size
<1>1. p \in Int /\ q \in Int /\ r \in 0 .. Size - 1
      /\ m = (Size * p) + r /\ n = (Size * q) + r
  BY Remainder
<1> HIDE DEF p, q, r
<1>2. Size * (q - p) = n - m
  BY <1>1, SizeAssumption
<1>3. q - p = 0
  <2>1. -Size < n - m /\ n - m < Size /\ q - p \in Int
    BY <1>1, SizeAssumption
  <2> QED
    BY <1>2, <2>1, SmallMultiple
<1>4. n = m
  BY <1>1, <1>3, SizeAssumption
<1> QED
  BY <1>4

-----------------------------------------------------------------------------
(* What an edge leaves in the RAM where port B wrote nothing: the word port A
   writes at its address, the old words elsewhere.                         *)
LEMMA RamEdgeKeeps ==
  ASSUME NEW a \in Addr, NEW wa \in SUBSET Word, NEW b \in PortB,
         ram \in [Addr -> Word], RamEdge(a, wa, b),
         NEW c \in Addr, c \notin foreign'
  PROVE  /\ c # a \/ wa = {} => c \notin foreign /\ ram'[c] = ram[c]
         /\ \A w \in Word : c = a /\ wa = {w} => ram'[c] = w
<1> DEFINE hit  == b.wren /\ b.addr = a
           bRam == IF b.wren THEN [ram EXCEPT ![b.addr] = b.data] ELSE ram
<1>1. b.wren \in BOOLEAN /\ (b.wren => b.addr \in Addr /\ b.data \in Word)
  <2>1. CASE b = [wren |-> FALSE]
    BY <2>1
  <2>2. CASE b \in [wren : {TRUE}, addr : Addr, data : Word]
    BY <2>2
  <2> QED
    BY <2>1, <2>2 DEF PortB
<1>2. bRam \in [Addr -> Word]
  BY <1>1
<1>3. PICK w \in IF wa = {} THEN {bRam[a]} ELSE IF hit THEN Word ELSE wa :
        ram' = [bRam EXCEPT ![a] = w]
  BY DEF RamEdge
<1>4. b.wren => c # b.addr
  BY DEF RamEdge
<1>5. c # a \/ wa = {} => c \notin foreign
  BY DEF RamEdge
<1>6. bRam[c] = ram[c]
  BY <1>1, <1>4
<1>7. CASE wa = {}
  BY <1>2, <1>3, <1>5, <1>6, <1>7
<1>8. CASE wa # {}
  <2>1. c # a => ram'[c] = ram[c]
    BY <1>2, <1>3, <1>6
  <2>2. c = a => ~hit
    BY <1>4
  <2>3. \A v \in Word : c = a /\ wa = {v} => ram'[c] = v
    BY <1>2, <1>3, <1>8, <2>2
  <2> QED
    BY <1>5, <1>8, <2>1, <2>3
<1> QED
  BY <1>7, <1>8

(* Edges on which the sink stores nothing keep the stream where it is. *)
LEMMA NothingStored ==
  ASSUME IInv, SinkInv, NEW a \in Addr, NEW b \in PortB, RamEdge(a, {}, b),
         UNCHANGED <<wr_ptr, stream>>
  PROVE  SinkInv'
<1>1. PointerCounts'
  BY DEF SinkInv, PointerCounts
<1>2. StreamIsStored'
  <2> SUFFICES ASSUME NEW i \in 1 .. Len(stream),
                      i + Size > Len(stream), (i - 1) % Size \notin foreign'
               PROVE  ram'[(i - 1) % Size] = stream[i]
    BY DEF StreamIsStored
  <2>1. i - 1 \in Nat
    OBVIOUS
  <2>2. (i - 1) % Size \in Addr
    BY <2>1, Remainder DEF Addr
  <2>3. (i - 1) % Size \notin foreign /\ ram'[(i - 1) % Size] = ram[(i - 1) % Size]
    BY <2>2, RamEdgeKeeps DEF IInv, TypeOK
  <2> QED
    BY <2>3 DEF SinkInv, StreamIsStored
<1> QED
  BY <1>1, <1>2 DEF SinkInv

(* A marker, like a reset, starts an empty stream at address 0. *)
LEMMA StreamStarts == ASSUME wr_ptr' = 0, stream' = <<>> PROVE SinkInv'
<1>1. 0 \in Nat /\ 0 = (Size * 0) + 0 /\ 0 \in 0 .. Size - 1
  BY SizeAssumption
<1>2. 0 % Size = 0
  BY <1>1, RemainderIs
<1> QED
  BY <1>2 DEF SinkInv, PointerCounts, StreamIsStored

(* A word is stored at the write pointer, which no word of the stream still
   held by the RAM has for its address.                                    *)
LEMMA WordStored ==
  ASSUME IInv, SinkInv, NEW d \in Word, NEW b \in PortB, RamEdge(wr_ptr, {d}, b),
         wr_ptr' = Inc(wr_ptr), stream' = Append(stream, d)
  PROVE  SinkInv'
<1> DEFINE n == Len(stream)
<1>1. /\ n \in Nat /\ Len(stream') = n + 1 /\ stream'[n + 1] = d
      /\ \A i \in 1 .. n : stream'[i] = stream[i]
  BY DEF IInv, TypeOK
<1>2. wr_ptr = n % Size /\ wr_ptr \in Addr
  BY DEF SinkInv, PointerCounts, IInv, TypeOK
<1>3. PointerCounts'
  BY <1>1, <1>2, IncCounts DEF PointerCounts
<1> HIDE DEF n
<1>4. StreamIsStored'
  <2> SUFFICES ASSUME NEW i \in 1 .. n + 1,
                      i + Size > n + 1, (i - 1) % Size \notin foreign'
               PROVE  ram'[(i - 1) % Size] = stream'[i]
    BY <1>1 DEF StreamIsStored
  <2>1. i - 1 \in Nat
    BY <1>1
  <2>2. (i - 1) % Size \in Addr
    BY <2>1, Remainder DEF Addr
  <2>3. CASE i = n + 1
    <3>1. (i - 1) % Size = wr_ptr
      BY <2>3, <1>1, <1>2
    <3>2. ram'[wr_ptr] = d
      BY <1>2, <3>1, RamEdgeKeeps DEF IInv, TypeOK
    <3> QED
      BY <2>3, <3>1, <3>2, <1>1
  <2>4. CASE i # n + 1
    <3>1. i \in 1 .. n /\ i + Size > n
      BY <2>4, <1>1, SizeAssumption
    <3>2. (i - 1) % Size # wr_ptr
      <4>1. i - 1 < n /\ n < (i - 1) + Size
        BY <3>1, <1>1, SizeAssumption
      <4> QED
        BY <2>1, <4>1, <1>1, <1>2, Apart
    <3>3. (i - 1) % Size \notin foreign /\ ram'[(i - 1) % Size] = ram[(i - 1) % Size]
      <4> DEFINE c == (i - 1) % Size
      <4>1. c \in Addr /\ c # wr_ptr /\ c \notin foreign' /\ {d} \in SUBSET Word
        BY <2>2, <3>2
      <4> HIDE DEF c
      <4>2. c \notin foreign /\ ram'[c] = ram[c]
        BY <1>2, <4>1, RamEdgeKeeps DEF IInv, TypeOK
      <4> QED
        BY <4>2 DEF c
    <3>4. ram[(i - 1) % Size] = stream[i]
      BY <3>1, <3>3 DEF SinkInv, StreamIsStored, n
    <3> QED
      BY <3>1, <3>3, <3>4, <1>1
  <2> QED
    BY <2>3, <2>4
<1> QED
  BY <1>3, <1>4 DEF SinkInv

-----------------------------------------------------------------------------
(* Every edge on which port A serves the sink first. *)
LEMMA PortAStep ==
  ASSUME IInv, SinkInv, NEW asi \in Beat, NEW b \in PortB, PortA(asi, b), Sink(asi)
  PROVE  SinkInv'
<1>1. CASE asi.valid /\ sink_ready /\ asi.channel = 1 /\ wr_ptr' = 0 /\ stream' = <<>>
  BY <1>1, StreamStarts
<1>2. CASE Stored(asi) # {} /\ wr_ptr' = Inc(wr_ptr) /\ stream' = Append(stream, asi.data)
  <2>1. asi.valid /\ asi.channel = 0 /\ Stored(asi) = {asi.data}
    BY <1>2 DEF Stored
  <2>2. asi.data \in Word
    BY <2>1, BeatShape
  <2>3. RamEdge(wr_ptr, {asi.data}, b)
    BY <1>2, <2>1 DEF PortA
  <2> QED
    BY <1>2, <2>2, <2>3, WordStored
<1>3. CASE ~(asi.valid /\ sink_ready) /\ UNCHANGED <<wr_ptr, stream>>
  <2>1. Stored(asi) = {}
    BY <1>3 DEF Stored
  <2>2. RamEdge(rd_ptr, {}, b) /\ rd_ptr \in Addr
    BY <2>1 DEF PortA, IInv, TypeOK
  <2> QED
    BY <1>3, <2>2, NothingStored
<1> QED
  BY <1>1, <1>2, <1>3 DEF Sink

(* While a word is handed over the sink is closed. *)
LEMMA SendKeepsStream ==
  ASSUME IInv, SinkInv, NEW asi \in Beat, NEW b \in PortB, Send(asi, b)
  PROVE  SinkInv'
<1>1. ~sink_ready /\ RamEdge(Inc(rd_ptr), {}, b) /\ Sink(asi)
  BY DEF Send, sink_ready
<1>2. UNCHANGED <<wr_ptr, stream>>
  BY <1>1 DEF Sink, Stored
<1>3. Inc(rd_ptr) \in Addr
  BY IncInAddr DEF IInv, TypeOK
<1> QED
  BY <1>1, <1>2, <1>3, NothingStored

LEMMA SinkInductive == IInv /\ SinkInv /\ [Next]_vars => SinkInv'
<1> SUFFICES ASSUME IInv, SinkInv, [Next]_vars PROVE SinkInv'
  OBVIOUS
<1>1. CASE Reset
  BY <1>1, StreamStarts DEF Reset
<1>2. CASE Clock
  <2> PICK asi \in Beat, b \in PortB :
        \/ \E cmd \in Command : Idle(asi, cmd, b)
        \/ Prefetch(asi, b) \/ Stall(asi, b) \/ Flush(asi, b)
        \/ Send(asi, b)
    BY <1>2 DEF Clock
  <2>1. CASE Send(asi, b)
    BY <2>1, SendKeepsStream
  <2>2. CASE ~Send(asi, b)
    <3>1. PortA(asi, b) /\ Sink(asi)
      BY <2>2 DEF Idle, Prefetch, Stall, Flush
    <3> QED
      BY <3>1, PortAStep
  <2> QED
    BY <2>1, <2>2
<1>3. CASE UNCHANGED vars
  BY <1>3 DEF vars, SinkInv, PointerCounts, StreamIsStored
<1> QED
  BY <1>1, <1>2, <1>3 DEF Next

(* A streamed word stays where the marker put it until the stream wraps over it
   or the accelerator writes there, for every RAM size.                    *)
THEOREM StreamCorrect == Spec => []StreamIsStored
<1>1. Init => SinkInv
  <2> SUFFICES ASSUME Init PROVE SinkInv
    OBVIOUS
  <2>1. 0 \in Nat /\ 0 = (Size * 0) + 0 /\ 0 \in 0 .. Size - 1
    BY SizeAssumption
  <2>2. 0 % Size = 0
    BY <2>1, RemainderIs
  <2> QED
    BY <2>2 DEF Init, SinkInv, PointerCounts, StreamIsStored
<1>2. SinkInv => StreamIsStored
  BY DEF SinkInv
<1> QED
  BY <1>1, <1>2, Invariance, SinkInductive, PTL DEF Spec
=============================================================================

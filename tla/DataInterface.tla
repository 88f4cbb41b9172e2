---------------------------- MODULE DataInterface ----------------------------
(***************************************************************************)
(* hardware/hdl/neurax_data_interface.vhd: the RAM buffer between the two  *)
(* mSGDMAs and the accelerator.  Port A of the RAM is shared by the        *)
(* Avalon-ST sink (words from memory) and the Avalon-ST source (packets    *)
(* back to memory); port B belongs to the accelerator.                     *)
(*                                                                         *)
(* One step is one rising clock edge.  The inputs of the entity (a beat on *)
(* the sink, a read command, ready from downstream, a write on port B) are *)
(* chosen afresh for every edge.  A beat of channel 1 is the marker of a   *)
(* new stream; the generated system lets none through (ReadbackSession).   *)
(***************************************************************************)
EXTENDS Integers, Sequences

CONSTANTS
  Size,        (* Words in the RAM: 2**g_ADDR_WIDTH.                       *)
  Word,        (* The values of a data word.                               *)
  PortBWhile,  (* The read states in which the accelerator may write.      *)
  MaxWords,    (* Bound: words accepted by the sink after one marker.      *)
  MaxLength    (* Bound: the longest packet commanded.                     *)

ReadState == {"IDLE", "PREFETCH", "SEND", "FLUSH"}
Addr      == 0 .. Size - 1
Inc(a)    == (a + 1) % Size

ASSUME SizeAssumption  == Size \in Nat /\ Size > 1
ASSUME WordAssumption  == Word # {}
ASSUME PortBAssumption == PortBWhile \subseteq ReadState
ASSUME BoundAssumption == MaxWords \in Nat /\ MaxLength \in Addr

VARIABLES
  ram,             (* The memory array.                                    *)
  q_a,             (* Port A's unregistered output.                        *)
  wr_ptr,          (* Where the sink stores its next word.                 *)
  rd_state,        (* The source's state machine ...                       *)
  cmd_start_addr,  (* ... the latched command ...                          *)
  cmd_length,
  rd_ptr,          (* ... the word on offer ...                            *)
  rd_remaining,    (* ... and how many are left, that one included.        *)
  rd_first,
  (* History, read by the properties only: *)
  stream,          (* The words the sink accepted since the last marker.   *)
  packet,          (* The beats accepted downstream for the last command.  *)
  foreign,         (* Addresses last written through port B.               *)
  clash            (* The last edge wrote on port B what port A accessed.  *)

cmdVars == <<cmd_start_addr, cmd_length>>
rdVars  == <<rd_state, rd_ptr, rd_remaining, rd_first>>
vars    == <<ram, q_a, wr_ptr, cmdVars, rdVars, stream, packet, foreign, clash>>

-----------------------------------------------------------------------------
(* Inputs of one edge. *)

Beat    == {[valid |-> FALSE]} \cup [valid : {TRUE}, channel : {1}]
             \cup [valid : {TRUE}, channel : {0}, data : Word]
Command == {[start |-> FALSE]}
             \cup [start : {TRUE}, addr : Addr, length : 0 .. MaxLength]
PortB   == {[wren |-> FALSE]}
             \cup (IF rd_state \in PortBWhile
                     THEN [wren : {TRUE}, addr : Addr, data : Word] ELSE {})

-----------------------------------------------------------------------------
(* Both ports of the RAM on one edge: port A writes the set wa (empty or a  *)
(* single word) at a, or reads there; port B performs b.  The altsyncram    *)
(* leaves read-during-write between ports, and two writes to one word,      *)
(* undefined: any word may come out.                                        *)
RamEdge(a, wa, b) ==
  LET hit  == b.wren /\ b.addr = a
      bRam == IF b.wren THEN [ram EXCEPT ![b.addr] = b.data] ELSE ram
  IN  /\ \E w \in IF wa = {} THEN {bRam[a]} ELSE IF hit THEN Word ELSE wa :
           ram' = [bRam EXCEPT ![a] = w]
      /\ q_a' \in IF hit THEN Word ELSE {ram'[a]}
      /\ clash' = hit
      /\ foreign' = (IF wa = {} THEN foreign ELSE foreign \ {a})
                      \cup (IF b.wren THEN {b.addr} ELSE {})

(* Fault: the sink stays open during a packet. *)
sink_ready_always == TRUE

sink_ready == rd_state = "IDLE"

(* The sink's half of an edge, with the words port A writes for it.         *)
Stored(asi) == IF asi.valid /\ sink_ready /\ asi.channel = 0 THEN {asi.data} ELSE {}

(* Fault: the write pointer does not wrap. *)
SinkNoWrap(asi) ==
  \/ asi.valid /\ sink_ready /\ asi.channel = 1 /\ wr_ptr' = 0 /\ stream' = <<>>
  \/ /\ Stored(asi) # {} /\ Len(stream) < MaxWords
     /\ wr_ptr' = wr_ptr + 1 /\ stream' = Append(stream, asi.data)
  \/ ~(asi.valid /\ sink_ready) /\ UNCHANGED <<wr_ptr, stream>>

Sink(asi) ==
  \/ /\ asi.valid /\ sink_ready /\ asi.channel = 1
     /\ wr_ptr' = 0
     /\ stream' = <<>>
  \/ /\ Stored(asi) # {}
     /\ Len(stream) < MaxWords
     /\ wr_ptr' = Inc(wr_ptr)
     /\ stream' = Append(stream, asi.data)
  \/ /\ ~(asi.valid /\ sink_ready)
     /\ UNCHANGED <<wr_ptr, stream>>

(* Fault: port A looks ahead although the word on offer is not taken. *)
PortALooksAhead(asi, b) ==
  RamEdge(IF Stored(asi) = {} THEN Inc(rd_ptr) ELSE wr_ptr, Stored(asi), b)

(* Port A's address when the source is not looking ahead.                   *)
PortA(asi, b) == RamEdge(IF Stored(asi) = {} THEN rd_ptr ELSE wr_ptr, Stored(asi), b)

-----------------------------------------------------------------------------
(* The RAM powers up with one word (zero) everywhere. *)
Init ==
  /\ \E w \in Word : ram = [a \in Addr |-> w] /\ q_a = w
  /\ wr_ptr = 0 /\ rd_state = "IDLE" /\ rd_ptr = 0 /\ rd_remaining = 0
  /\ cmd_start_addr = 0 /\ cmd_length = 0 /\ rd_first = TRUE
  /\ stream = <<>> /\ packet = <<>> /\ foreign = {} /\ clash = FALSE

(* The asynchronous reset, held over an edge on which no master is active.
   It clears the registers and leaves the RAM alone.                       *)
Reset ==
  /\ wr_ptr' = 0 /\ rd_state' = "IDLE" /\ rd_ptr' = 0 /\ rd_remaining' = 0
  /\ cmd_start_addr' = 0 /\ cmd_length' = 0 /\ rd_first' = TRUE
  /\ RamEdge(0, {}, [wren |-> FALSE])
  /\ stream' = <<>> /\ packet' = <<>>

(* Fault: a command of length 0 is accepted. *)
IdleAnyLength(asi, cmd, b) ==
  /\ rd_state = "IDLE"
  /\ PortA(asi, b)
  /\ Sink(asi)
  /\ \/ /\ cmd.start
        /\ cmd_start_addr' = cmd.addr /\ cmd_length' = cmd.length
        /\ rd_ptr' = cmd.addr /\ rd_remaining' = cmd.length
        /\ rd_first' = TRUE /\ rd_state' = "PREFETCH"
        /\ packet' = <<>>
     \/ ~cmd.start /\ UNCHANGED <<cmdVars, rdVars, packet>>

(* IDLE: the sink is open, and a command with a length other than 0 is
   accepted on the same edge.                                              *)
Idle(asi, cmd, b) ==
  /\ rd_state = "IDLE"
  /\ PortA(asi, b)
  /\ Sink(asi)
  /\ \/ /\ cmd.start /\ cmd.length # 0
        /\ cmd_start_addr' = cmd.addr /\ cmd_length' = cmd.length
        /\ rd_ptr' = cmd.addr /\ rd_remaining' = cmd.length
        /\ rd_first' = TRUE /\ rd_state' = "PREFETCH"
        /\ packet' = <<>>
     \/ /\ ~(cmd.start /\ cmd.length # 0)
        /\ UNCHANGED <<cmdVars, rdVars, packet>>

(* PREFETCH: port A reads the first word. *)
Prefetch(asi, b) ==
  /\ rd_state = "PREFETCH"
  /\ PortA(asi, b)
  /\ Sink(asi)
  /\ rd_state' = "SEND"
  /\ UNCHANGED <<cmdVars, rd_ptr, rd_remaining, rd_first, packet>>

(* Fault: the pointer moves on without ready. *)
StallAdvances(asi, b) ==
  /\ rd_state = "SEND"
  /\ PortA(asi, b)
  /\ Sink(asi)
  /\ rd_ptr' = Inc(rd_ptr)
  /\ UNCHANGED <<cmdVars, rd_state, rd_remaining, rd_first, packet>>

(* SEND without ready from downstream: the word stays on offer. *)
Stall(asi, b) ==
  /\ rd_state = "SEND"
  /\ PortA(asi, b)
  /\ Sink(asi)
  /\ UNCHANGED <<cmdVars, rdVars, packet>>

(* Fault: the packet ends when nothing is left, one word late. *)
SendOneMore(asi, b) ==
  /\ rd_state = "SEND"
  /\ RamEdge(Inc(rd_ptr), {}, b)
  /\ Sink(asi)
  /\ rd_first' = FALSE
  /\ packet' = Append(packet, [addr |-> rd_ptr, data |-> q_a,
                               sop |-> rd_first, eop |-> rd_remaining = 1])
  /\ \/ rd_remaining = 0 /\ rd_state' = "FLUSH" /\ UNCHANGED <<rd_ptr, rd_remaining>>
     \/ /\ rd_remaining # 0
        /\ rd_ptr' = Inc(rd_ptr) /\ rd_remaining' = rd_remaining - 1
        /\ UNCHANGED rd_state
  /\ UNCHANGED cmdVars

(* SEND with ready: the word is taken, and port A reads the one after it. *)
Send(asi, b) ==
  /\ rd_state = "SEND"
  /\ RamEdge(Inc(rd_ptr), {}, b)
  /\ Sink(asi)
  /\ rd_first' = FALSE
  /\ packet' = Append(packet, [addr |-> rd_ptr, data |-> q_a,
                               sop |-> rd_first, eop |-> rd_remaining = 1])
  /\ \/ /\ rd_remaining = 1
        /\ rd_state' = "FLUSH"
        /\ UNCHANGED <<rd_ptr, rd_remaining>>
     \/ /\ rd_remaining # 1
        /\ rd_ptr' = Inc(rd_ptr) /\ rd_remaining' = rd_remaining - 1
        /\ UNCHANGED rd_state
  /\ UNCHANGED cmdVars

(* Fault: FLUSH has no way out. *)
FlushStays(asi, b) ==
  /\ rd_state = "FLUSH" /\ PortA(asi, b) /\ Sink(asi)
  /\ UNCHANGED <<cmdVars, rdVars, packet>>

(* FLUSH: rd_done_o for one clock. *)
Flush(asi, b) ==
  /\ rd_state = "FLUSH"
  /\ PortA(asi, b)
  /\ Sink(asi)
  /\ rd_state' = "IDLE"
  /\ UNCHANGED <<cmdVars, rd_ptr, rd_remaining, rd_first, packet>>

Clock ==
  \E asi \in Beat, b \in PortB :
    \/ \E cmd \in Command : Idle(asi, cmd, b)
    \/ Prefetch(asi, b)
    \/ Stall(asi, b)
    \/ Send(asi, b)
    \/ Flush(asi, b)

Next == Clock \/ Reset

Spec == Init /\ [][Next]_vars

(* The clock runs, and the DMA a packet is meant for takes its words. *)
Ticks    == \E asi \in Beat, b \in PortB : Prefetch(asi, b) \/ Flush(asi, b)
Taken    == \E asi \in Beat, b \in PortB : Send(asi, b)
FairSpec == Spec /\ WF_vars(Ticks) /\ WF_vars(Taken)

-----------------------------------------------------------------------------
(* Type invariant. *)
TypeOK ==
  /\ ram \in [Addr -> Word]
  /\ q_a \in Word
  /\ wr_ptr \in Addr
  /\ rd_state \in ReadState
  /\ cmd_start_addr \in Addr /\ cmd_length \in Addr
  /\ rd_ptr \in Addr /\ rd_remaining \in Addr
  /\ rd_first \in BOOLEAN
  /\ stream \in Seq(Word)
  /\ packet \in Seq([addr : Addr, data : Word, sop : BOOLEAN, eop : BOOLEAN])
  /\ foreign \in SUBSET Addr
  /\ clash \in BOOLEAN

(* The word on offer is the one stored at rd_ptr: the look-ahead address and
   the unregistered output of the RAM fit together over every pattern of
   stalls, unless the accelerator wrote that very word on the last edge.   *)
OfferedWordIsStored ==
  rd_state = "SEND" /\ ~clash => q_a = ram[rd_ptr]

(* The words of a packet are the commanded ones: consecutive addresses,
   wrapping, from the start address, none skipped or sent twice.           *)
PacketAddresses ==
  \A i \in 1 .. Len(packet) :
    packet[i].addr = IF i = 1 THEN cmd_start_addr ELSE Inc(packet[i - 1].addr)

(* Start-of-packet marks the first word only, end-of-packet the last of the
   commanded length only, and rd_done_o comes after exactly that many.     *)
PacketFraming ==
  /\ Len(packet) <= cmd_length
  /\ rd_state = "FLUSH" => Len(packet) = cmd_length
  /\ \A i \in 1 .. Len(packet) :
       /\ packet[i].sop <=> i = 1
       /\ packet[i].eop <=> i = cmd_length

(* A word the sink accepted after the marker is where the marker puts it
   (address 0 onwards) until the stream itself wraps over it or the
   accelerator writes there, whatever packets are sent meanwhile.  This is
   about the beats at the ports of the entity, and the VHDL alone: on the
   board neurax_uio_test_conv.c found the words of its image one address
   further on than it had sent them, which nothing here accounts for.      *)
StreamIsStored ==
  \A i \in 1 .. Len(stream) :
    LET a == (i - 1) % Size
    IN  i + Size > Len(stream) /\ a \notin foreign => ram[a] = stream[i]

(* Avalon-ST: a word not yet taken stays on offer, unchanged but for a write
   of the accelerator to that word; only a reset withdraws it.             *)
OfferIsHeld ==
  [][rd_state = "SEND" /\ packet' = packet /\ rd_state' # "IDLE" =>
       /\ rd_state' = "SEND"
       /\ UNCHANGED <<rd_ptr, rd_remaining, rd_first>>
       /\ ram'[rd_ptr] = ram[rd_ptr] /\ ~clash /\ ~clash' => q_a' = q_a]_vars

(* A packet that was started is sent to its last word, unless a reset (which
   clears the latched command) withdraws it.                               *)
PacketIsSent ==
  rd_state = "PREFETCH" ~> (rd_state = "IDLE" /\ Len(packet) = cmd_length)
=============================================================================

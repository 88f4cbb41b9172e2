------------------------ MODULE DataInterfaceMapping ------------------------
(***************************************************************************)
(* The mapping under which the clocked DataInterface implements            *)
(* PacketBuffer: the latched command is the packet being sent until the    *)
(* source is back in IDLE, and the beats taken downstream are the words    *)
(* out.                                                                    *)
(***************************************************************************)
EXTENDS DataInterface

Abstract == INSTANCE PacketBuffer WITH
  mem  <- ram,
  next <- wr_ptr,
  want <- IF rd_state = "IDLE" THEN [start |-> 0, length |-> 0]
          ELSE [start |-> cmd_start_addr, length |-> cmd_length],
  out  <- IF rd_state = "IDLE" THEN <<>> ELSE [i \in 1 .. Len(packet) |-> packet[i].data],
  torn <- rd_state = "SEND" /\ clash

(* The clocked interface is a PacketBuffer: a packet delivers the words of the
   commanded region, as many as commanded and each as it is stored when it
   is taken, whatever the accelerator writes meanwhile.                    *)
ImplementsPacketBuffer == Abstract!Spec
=============================================================================

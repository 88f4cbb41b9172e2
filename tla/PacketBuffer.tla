---------------------------- MODULE PacketBuffer ----------------------------
(***************************************************************************)
(* What the data interface promises to its neighbours, without clock, RAM  *)
(* ports or look-ahead: a store that a word stream fills from address 0,   *)
(* and that sends the words of a commanded region, in order, each as it is *)
(* stored when it is sent.  While a packet is being sent the stream stores *)
(* nothing; the accelerator may still store results, and a word that it    *)
(* writes just as it is to be sent may come out as anything.               *)
(***************************************************************************)
EXTENDS Integers, Sequences

CONSTANTS Size, Word

VARIABLES
  mem,   (* The stored words.                                              *)
  next,  (* Where the stream stores its next word.                         *)
  want,  (* The packet being sent; its length is 0 when there is none.     *)
  out,   (* Its words delivered so far.                                    *)
  torn   (* The accelerator has just written the next of them.             *)

vars == <<mem, next, want, out, torn>>

Addr     == 0 .. Size - 1
NoPacket == [start |-> 0, length |-> 0]
Packets  == [start : Addr, length : Addr \ {0}]

Init ==
  /\ \E w \in Word : mem = [a \in Addr |-> w]
  /\ next = 0 /\ want = NoPacket /\ out = <<>> /\ torn = FALSE

(* The stream stores a word or starts over, or neither; m is the memory after. *)
Stream(m) ==
  \/ \E w \in Word : m = [mem EXCEPT ![next] = w] /\ next' = (next + 1) % Size
  \/ m = mem /\ next' = 0
  \/ m = mem /\ next' = next

(* The accelerator writes a word or none; m is the memory before. *)
Result(m) == mem' = m \/ \E a \in Addr, w \in Word : mem' = [m EXCEPT ![a] = w]

(* Between packets: the stream, the accelerator's results and the command for
   the next packet may all arrive together.                                *)
Between ==
  /\ want = NoPacket
  /\ \E m \in {mem} \cup {[mem EXCEPT ![next] = w] : w \in Word} : Stream(m) /\ Result(m)
  /\ want' \in Packets \cup {NoPacket}
  /\ UNCHANGED <<out, torn>>

(* During a packet, of which n words are delivered: the accelerator writes a
   word or none, and only by that can the next word be torn.               *)
ResultDuring(n) ==
  /\ Result(mem)
  /\ torn' \in BOOLEAN
  /\ torn' => \E w \in Word : mem' = [mem EXCEPT ![(want.start + n) % Size] = w]

Hold ==
  /\ want # NoPacket
  /\ ResultDuring(Len(out))
  /\ UNCHANGED <<next, want, out>>

Deliver ==
  /\ Len(out) < want.length
  /\ \E w \in Word : /\ torn \/ w = mem[(want.start + Len(out)) % Size]
                     /\ out' = Append(out, w)
  /\ ResultDuring(Len(out) + 1)
  /\ UNCHANGED <<next, want>>

Close ==
  /\ want # NoPacket /\ Len(out) = want.length
  /\ Result(mem)
  /\ want' = NoPacket /\ out' = <<>> /\ torn' = FALSE
  /\ UNCHANGED next

(* A reset forgets the packet and the position, not the words. *)
Abort ==
  /\ next' = 0 /\ want' = NoPacket /\ out' = <<>> /\ torn' = FALSE
  /\ UNCHANGED mem

Next == Between \/ Hold \/ Deliver \/ Close \/ Abort

Spec == Init /\ [][Next]_vars
=============================================================================

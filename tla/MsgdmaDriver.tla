----------------------------- MODULE MsgdmaDriver -----------------------------
(***************************************************************************)
(* software/driver/dma/msgdma.c: the character device in front of the two  *)
(* mSGDMAs, from probe to remove, with any number of open files, and the   *)
(* DMAs themselves as far as the driver sees them.  write() sends a marker *)
(* and then the user's bytes through the memory-to-stream DMA (m2s);       *)
(* read() takes words from the stream-to-memory DMA (s2m).  Each direction *)
(* has one buffer and one descriptor queue, and no lock.                   *)
(*                                                                         *)
(* The words of a write are known by the call and their position in it;    *)
(* those the accelerator streams out are numbered.  A deadline may pass at *)
(* any poll.  What m2s delivers is followed to its stream output; the      *)
(* adapter behind it, which loses the marker, is in ReadbackSession.  The  *)
(* waiting flags (wr_in_progress, rd_in_progress) are set and cleared but  *)
(* never read, and are left out; so are the errors of a transfer, which    *)
(* these DMAs have no source of.                                           *)
(***************************************************************************)
EXTENDS Integers, Sequences

CONSTANTS
  Files,        (* Files that may be open, each used by one thread.        *)
  WordBytes,    (* sizeof(u32).                                            *)
  Span,         (* 2^LENGTH_WIDTH: what the length of a descriptor is      *)
                (* counted modulo.                                         *)
  BufSize,      (* DMA_BUF_SIZE.                                           *)
  OutputSize,   (* FPGA_OUTPUT_SIZE.                                       *)
  FifoWords,    (* Words a DMA holds between memory and stream.            *)
  Lengths,      (* The len of a call.                                      *)
  MayUnbind,    (* The device may be unbound while files are open.         *)
  MaxCalls,     (* Bound: calls of read and write.                         *)
  MaxStreamed   (* Bound: words the accelerator streams out.               *)

ASSUME SizeAssumption ==
  /\ {WordBytes, Span, BufSize, OutputSize, FifoWords} \subseteq Nat \ {0}
  /\ Span % WordBytes = 0 /\ BufSize % WordBytes = 0
  /\ Lengths \subseteq Nat /\ MayUnbind \in BOOLEAN
  /\ {MaxCalls, MaxStreamed} \subseteq Nat

VARIABLES
  stage,      (* The last step of probe or remove that is over.            *)
  bufs,       (* The DMA buffers allocated.                                *)
  wrbuf,      (* dma_buf_wr, and dma_buf_rd, by words.                     *)
  rdbuf,
  dma,        (* Each DMA: its queue of descriptors, csr_status.IRQ, and
                 whether its interrupts are enabled.                       *)
  fifo,       (* What m2s has read and not delivered.                      *)
  held,       (* How many words s2m has taken and not yet written.         *)
  file,       (* The open files.                                           *)
  calls,      (* Calls so far.                                             *)
  sink,       (* Data words m2s delivered since the last marker.           *)
  streamed    (* Words streamed out so far.                                *)

device  == <<stage, bufs>>
buffers == <<wrbuf, rdbuf>>
streams == <<fifo, held, sink, streamed>>
vars    == <<device, buffers, dma, streams, file, calls>>

Buffers == {"wr", "rd"}
Dmas    == {"m2s", "s2m"}
BufferOf(d) == IF d = "m2s" THEN "wr" ELSE "rd"

(* Word i of call n is <<n, i>>; no call has the number 0. *)
NoData == <<0, 1>>
Marker == <<0, 0>>
Slots  == 1 .. BufSize \div WordBytes

NoWords   == [i \in Slots |-> NoData]
NoResults == [i \in Slots |-> 0]

Idle == [queue |-> <<>>, irq |-> FALSE, inten |-> FALSE]

(* A file: where its thread is, and of the call under way the DMA, the bytes,
   the status read last, the position, its number, how many streamed words
   had been used up when it began, and whether it was the only one in its
   direction so far.                                                       *)
Closed == [pc |-> "closed", dir |-> "m2s", len |-> 0, status |-> "unread",
           off |-> 0, id |-> 0, from |-> 0, alone |-> FALSE]

InCall(c) == file[c].pc \notin {"closed", "open"}

(* What is left of a call that has returned: how far the file has been read. *)
Returned(c, off) == [file EXCEPT ![c] = [Closed EXCEPT !.pc = "open", !.off = off]]

-----------------------------------------------------------------------------
(* Lengths. *)
Least(S) == CHOOSE n \in S : \A m \in S : n <= m

Align(n) == ((n + WordBytes - 1) \div WordBytes) * WordBytes

(* A descriptor of n bytes: the DMA counts the length in LENGTH_WIDTH bits. *)
Descriptor(n, mark, int) ==
  [left |-> (n % Span) \div WordBytes, at |-> 1, mark |-> mark, int |-> int]

-----------------------------------------------------------------------------
(* The DMAs. *)
Busy(d) == dma[d].queue # <<>>

(* Fault: the reset leaves the descriptors. *)
ResetKeepsQueue(d) == [dma[d] EXCEPT !.irq = FALSE, !.inten = FALSE]

(* msgdma_reset: the queue and the status are cleared, the interrupt enable
   and the two stop-on conditions with them, and what the DMA holds is lost.
   Its loop on RESETTING, which has no deadline, is taken to end at once.  *)
AfterReset(d) == Idle

ResetOf(d) ==
  /\ dma' = [dma EXCEPT ![d] = AfterReset(d)]
  /\ fifo' = IF d = "m2s" THEN <<>> ELSE fifo
  /\ held' = IF d = "s2m" THEN 0 ELSE held
  /\ UNCHANGED <<sink, streamed>>

(* msgdma_push_descr. *)
Pushed(d, descriptor) == [dma EXCEPT ![d].queue = Append(@, descriptor)]

(* A word of the transfer under way in d; with the last of them it is done. *)
Moved(d) ==
  LET h == Head(dma[d].queue) IN
  IF h.left > 1
    THEN [dma EXCEPT ![d].queue[1] = [h EXCEPT !.left = @ - 1, !.at = @ + 1]]
    ELSE [dma EXCEPT ![d].queue = Tail(@), ![d].irq = @ \/ (h.int /\ dma[d].inten)]

Moving(d) == Busy(d) /\ Head(dma[d].queue).left > 0

(* m2s reads a word; it is done when it has read the last one. *)
ReadWord ==
  /\ Moving("m2s") /\ Len(fifo) < FifoWords
  /\ LET h == Head(dma["m2s"].queue)
     IN  fifo' = Append(fifo, IF h.mark THEN Marker ELSE wrbuf[h.at])
  /\ dma' = Moved("m2s")
  /\ UNCHANGED <<device, buffers, held, sink, streamed, file, calls>>

(* What follows m2s takes a word, in its own time. *)
SinkTakes ==
  /\ fifo # <<>>
  /\ fifo' = Tail(fifo)
  /\ sink' = IF Head(fifo) = Marker THEN <<>> ELSE Append(sink, Head(fifo))
  /\ UNCHANGED <<device, buffers, dma, held, streamed, file, calls>>

(* The data interface streams a word out; s2m takes it, asked for or not. *)
SourceSends ==
  /\ held < FifoWords /\ streamed < MaxStreamed
  /\ streamed' = streamed + 1 /\ held' = held + 1
  /\ UNCHANGED <<device, buffers, dma, fifo, sink, file, calls>>

(* s2m writes a word; it is done when it has written the last one. *)
WriteWord ==
  /\ Moving("s2m") /\ held > 0
  /\ rdbuf' = [rdbuf EXCEPT ![Head(dma["s2m"].queue).at] = streamed - held + 1]
  /\ held' = held - 1
  /\ dma' = Moved("s2m")
  /\ UNCHANGED <<device, wrbuf, fifo, sink, streamed, file, calls>>

-----------------------------------------------------------------------------
(* msgdma_probe.  Where a step after the allocations fails it returns, and the
   buffers are lost.                                                       *)
OnlyDevice == UNCHANGED <<buffers, dma, streams, file, calls>>

Reach(from, to) == stage = from /\ stage' = to

(* dma_alloc_coherent clears what it allocates. *)
AllocRd ==
  /\ Reach("unbound", "rd") /\ bufs' = {"rd"}
  /\ rdbuf' = NoResults
  /\ UNCHANGED <<wrbuf, dma, streams, file, calls>>

AllocWr ==
  /\ Reach("rd", "wr") /\ bufs' = bufs \cup {"wr"}
  /\ wrbuf' = NoWords
  /\ UNCHANGED <<rdbuf, dma, streams, file, calls>>

(* Where one of the two fails msgdma_remove is called: it unregisters what was
   never registered, of which only the kernel's part is affected and nothing
   here, finds no registers to reset the DMAs by, and frees the buffers.   *)
AllocFails ==
  /\ Reach("unbound", "failed") \/ Reach("rd", "failed")
  /\ UNCHANGED bufs /\ OnlyDevice

RemoveFailed == Reach("failed", "unbound") /\ bufs' = {} /\ OnlyDevice

Map == Reach("wr", "mapped") /\ UNCHANGED bufs /\ OnlyDevice

(* Fault: the device is used as the boot loader left it. *)
StartDmasAsFound ==
  /\ Reach("mapped", "started")
  /\ dma' = [d \in Dmas |-> [dma[d] EXCEPT !.inten = TRUE]]
  /\ UNCHANGED <<bufs, buffers, streams, file, calls>>

StartDmas ==
  /\ Reach("mapped", "started")
  /\ dma' = [d \in Dmas |-> [AfterReset(d) EXCEPT !.inten = TRUE]]
  /\ fifo' = <<>> /\ held' = 0
  /\ UNCHANGED <<bufs, buffers, sink, streamed, file, calls>>

RequestIrqs == Reach("started", "irqs") /\ UNCHANGED bufs /\ OnlyDevice
InitQueues  == Reach("irqs", "queues") /\ UNCHANGED bufs /\ OnlyDevice
Register    == Reach("queues", "bound") /\ UNCHANGED bufs /\ OnlyDevice

ProbeFails ==
  /\ stage \in {"wr", "mapped", "started", "irqs", "queues"} /\ stage' = "unbound"
  /\ UNCHANGED bufs /\ OnlyDevice

(* msgdma_remove, when the module goes, which an open file prevents, or the
   device is unbound, which none does.  Calls on files that were open then go
   on without their device; here they find the DMAs as before.             *)
Unregister ==
  /\ Reach("bound", "unregistered")
  /\ ~MayUnbind => \A c \in Files : file[c].pc = "closed"
  /\ UNCHANGED bufs /\ OnlyDevice

Quiesce ==
  /\ Reach("unregistered", "quiet")
  /\ dma' = [d \in Dmas |-> AfterReset(d)]
  /\ fifo' = <<>> /\ held' = 0
  /\ UNCHANGED <<bufs, buffers, sink, streamed, file, calls>>

Free == Reach("quiet", "unbound") /\ bufs' = {} /\ OnlyDevice

Device ==
  \/ AllocRd \/ AllocWr \/ AllocFails \/ RemoveFailed \/ Map \/ StartDmas \/ RequestIrqs \/ InitQueues
  \/ Register \/ ProbeFails \/ Unregister \/ Quiesce \/ Free

(* msgdma_irq_handler: one for both DMAs. *)
Listening == stage \in {"irqs", "queues", "bound", "unregistered", "quiet"}

Interrupt ==
  /\ Listening /\ \E d \in Dmas : dma[d].irq
  /\ dma' = [d \in Dmas |-> [dma[d] EXCEPT !.irq = FALSE]]
  /\ UNCHANGED <<device, buffers, streams, file, calls>>

-----------------------------------------------------------------------------
(* Calls. *)
Goto(c, pc) == file' = [file EXCEPT ![c].pc = pc]

OnlyFile == UNCHANGED <<device, buffers, dma, streams, calls>>

Open ==
  \E c \in Files :
    /\ stage = "bound" /\ file[c].pc = "closed"
    /\ Goto(c, "open")
    /\ OnlyFile

Release ==
  \E c \in Files :
    /\ file[c].pc = "open"
    /\ file' = [file EXCEPT ![c] = Closed]
    /\ OnlyFile

(* File c enters a call in direction d for n bytes. *)
Enter(c, d, pc, n) ==
  LET others == {o \in Files \ {c} : InCall(o) /\ file[o].dir = d} IN
  /\ file[c].pc = "open" /\ calls < MaxCalls
  /\ calls' = calls + 1
  /\ file' = [o \in Files |->
                IF o = c
                  THEN [file[c] EXCEPT !.pc = pc, !.dir = d, !.len = n, !.status = "unread",
                          !.id = calls + 1, !.from = streamed - held, !.alone = others = {}]
                  ELSE [file[o] EXCEPT !.alone = @ /\ o \notin others]]

(* msgdma_write, up to the marker of msgdma_send_sof. *)
WriteCall(c, n) ==
  /\ Enter(c, "m2s", "sof", Least({n, BufSize}))
  /\ dma' = Pushed("m2s", Descriptor(WordBytes, TRUE, FALSE))
  /\ UNCHANGED <<device, buffers, streams>>

(* The loop of msgdma_send_sof: it ends when a status is not BUSY ... *)
SofPoll(c) ==
  /\ file[c].pc = "sof"
  /\ file' = [file EXCEPT ![c].pc = IF Busy("m2s") THEN "sof" ELSE "copy",
                          ![c].status = IF Busy("m2s") THEN "busy" ELSE "idle"]
  /\ OnlyFile

(* ... or at its deadline: with the status read last, or with an
   uninitialised one when there was no time to read any.                   *)
SofDeadline(c) ==
  /\ file[c].pc = "sof"
  /\ \/ file' = Returned(c, file[c].off) /\ ResetOf("m2s")
     \/ /\ file[c].status = "unread"
        /\ Goto(c, "copy") /\ UNCHANGED <<dma, streams>>
  /\ UNCHANGED <<device, buffers, calls>>

(* copy_from_user, and the padding up to a whole word. *)
Copy(c) ==
  /\ file[c].pc = "copy"
  /\ wrbuf' = [i \in Slots |-> IF i <= Align(file[c].len) \div WordBytes
                                 THEN <<file[c].id, i>> ELSE wrbuf[i]]
  /\ Goto(c, "push")
  /\ UNCHANGED <<device, rdbuf, dma, streams, calls>>

(* copy_from_user has copied some words, and cleared the others. *)
CopyFaults(c) ==
  /\ file[c].pc = "copy"
  /\ \E copied \in 0 .. Align(file[c].len) \div WordBytes :
       wrbuf' = [i \in Slots |-> IF i <= copied THEN <<file[c].id, i>>
                                 ELSE IF i <= Align(file[c].len) \div WordBytes THEN NoData
                                 ELSE wrbuf[i]]
  /\ file' = Returned(c, file[c].off)
  /\ UNCHANGED <<device, rdbuf, dma, streams, calls>>

(* "Push single descriptor for entire transfer". *)
Push(c) ==
  /\ file[c].pc = "push"
  /\ dma' = Pushed("m2s", Descriptor(Align(file[c].len), FALSE, TRUE))
  /\ Goto(c, "log")
  /\ UNCHANGED <<device, buffers, streams, calls>>

(* Fault: the whole buffer is asked for, however long the call. *)
ReadCallUncut(c, n) ==
  /\ file[c].off < OutputSize
  /\ Enter(c, "s2m", "log", Least({n, BufSize}))
  /\ dma' = Pushed("s2m", Descriptor(Align(Least({n, BufSize})), FALSE, TRUE))
  /\ UNCHANGED <<device, buffers, streams>>

(* msgdma_read, up to the descriptor.  At the end of the output it returns 0
   and does nothing.                                                       *)
ReadCall(c, n) ==
  LET cut == Least({n, BufSize, OutputSize - file[c].off}) IN
  /\ file[c].off < OutputSize
  /\ Enter(c, "s2m", "log", cut)
  /\ dma' = Pushed("s2m", Descriptor(Align(cut), FALSE, TRUE))
  /\ UNCHANGED <<device, buffers, streams>>

(* Both calls: the status logged after the push, the poll loop, and the
   deadline, which decides by the status read last.                        *)
Log(c) ==
  /\ file[c].pc = "log"
  /\ file' = [file EXCEPT ![c].pc = "poll",
                          ![c].status = IF Busy(file[c].dir) THEN "busy" ELSE "idle"]
  /\ OnlyFile

Poll(c) ==
  /\ file[c].pc = "poll"
  /\ file' = [file EXCEPT ![c].pc = IF Busy(file[c].dir) THEN "poll" ELSE "ok",
                          ![c].status = IF Busy(file[c].dir) THEN "busy" ELSE "idle"]
  /\ OnlyFile

(* Fault: an expired deadline is not told from the end of the transfer. *)
DeadlineIsDone(c) ==
  /\ file[c].pc = "poll"
  /\ Goto(c, "ok") /\ UNCHANGED <<dma, streams>>
  /\ UNCHANGED <<device, buffers, calls>>

(* Fault: the poll has no deadline. *)
NoDeadline(c) == FALSE /\ UNCHANGED vars

Deadline(c) ==
  /\ file[c].pc = "poll"
  /\ \/ /\ file[c].status = "busy"
        /\ file' = Returned(c, file[c].off) /\ ResetOf(file[c].dir)
     \/ /\ file[c].status = "idle"
        /\ Goto(c, "ok") /\ UNCHANGED <<dma, streams>>
  /\ UNCHANGED <<device, buffers, calls>>

(* The call returns: a read after copy_to_user, which may fault. *)
Return(c) ==
  /\ file[c].pc = "ok"
  /\ \/ /\ file[c].dir = "m2s"
        /\ file' = Returned(c, file[c].off)
     \/ /\ file[c].dir = "s2m"
        /\ \E copied \in {0, file[c].len} : file' = Returned(c, file[c].off + copied)
  /\ OnlyFile

Caller(c) ==
  SofPoll(c) \/ Copy(c) \/ CopyFaults(c) \/ Push(c) \/ Log(c) \/ Poll(c) \/ Return(c)

Expires(c) == SofDeadline(c) \/ Deadline(c)

-----------------------------------------------------------------------------
(* Before the driver is bound first the DMAs may have an interrupt left from
   the boot loader's use, but nothing to do.                               *)
Init ==
  /\ stage = "unbound" /\ bufs = {}
  /\ wrbuf = NoWords /\ rdbuf = NoResults
  /\ dma \in [Dmas -> [queue : {<<>>}, irq : BOOLEAN, inten : {FALSE}]]
  /\ fifo = <<>> /\ held = 0 /\ sink = <<>> /\ streamed = 0
  /\ file = [c \in Files |-> Closed] /\ calls = 0

Transfer == ReadWord \/ SinkTakes \/ SourceSends \/ WriteWord

Next ==
  \/ Device \/ Interrupt \/ Transfer \/ Open \/ Release
  \/ \E c \in Files :
       \/ \E n \in Lengths : WriteCall(c, n) \/ ReadCall(c, n)
       \/ Caller(c) \/ Expires(c)

Spec == Init /\ [][Next]_vars

(* Threads in the driver are scheduled, and time passes; nobody need call, and
   neither stream need move.                                               *)
FairSpec ==
  /\ Spec
  /\ \A c \in Files : WF_vars(Caller(c)) /\ WF_vars(Expires(c))

-----------------------------------------------------------------------------
SinceMarker(s) ==
  LET marks == {i \in 1 .. Len(s) : s[i] = Marker}
  IN  IF marks = {} THEN s
      ELSE SubSeq(s, 1 + (CHOOSE i \in marks : \A j \in marks : j <= i), Len(s))

Words(c) == Align(file[c].len) \div WordBytes

(* Type invariant. *)
DriverTypeOK ==
  /\ stage \in {"unbound", "rd", "wr", "failed", "mapped", "started", "irqs", "queues", "bound",
                "unregistered", "quiet"}
  /\ bufs \subseteq Buffers
  /\ DOMAIN wrbuf = Slots /\ DOMAIN rdbuf = Slots
  /\ \A d \in Dmas :
       /\ Len(dma[d].queue) <= 2 * MaxCalls
       /\ \A i \in 1 .. Len(dma[d].queue) :
            dma[d].queue[i].at + dma[d].queue[i].left - 1 \in Slots \cup {0}
  /\ Len(fifo) <= FifoWords /\ held \in 0 .. FifoWords
  /\ \A c \in Files :
       /\ file[c].pc \in {"closed", "open", "sof", "copy", "push", "log", "poll", "ok"}
       /\ file[c].dir \in Dmas
       /\ file[c].status \in {"unread", "busy", "idle"}
       /\ file[c].len \in 0 .. BufSize /\ file[c].off \in 0 .. OutputSize

(* A write that returns its length has handed over exactly its own words, in
   order and right behind a marker, to what follows the DMA, though the DMA may
   still hold some of them.  This needs what the code does not enforce: no other write at the
   same time, and a length the DMA can count.                              *)
WriteIsDelivered ==
  \A c \in Files :
    file[c].pc = "ok" /\ file[c].dir = "m2s" /\ file[c].alone /\ Align(file[c].len) < Span =>
      SinceMarker(sink \o fifo) = [i \in 1 .. Words(c) |-> <<file[c].id, i>>]

(* A read that succeeds copies out the very next words of the stream, none of
   them left in the buffer or in the DMA by a call before it, also after a
   transfer that timed out; under the same two conditions.                 *)
ReadIsOfItsTime ==
  \A c \in Files :
    file[c].pc = "ok" /\ file[c].dir = "s2m" /\ file[c].alone /\ Align(file[c].len) < Span =>
      \A i \in 1 .. Words(c) : rdbuf[i] = file[c].from + i

(* "Stop any in-flight DMA before freeing buffers": a DMA with a descriptor
   has its buffer, whatever the calls and the deadlines left behind, unless
   the device is unbound under an open file.                               *)
BuffersOutliveDma == \A d \in Dmas : Busy(d) => BufferOf(d) \in bufs

(* The interrupt handler wakes queues that are initialised: none arrives
   between request_irq and init_waitqueue_head.                            *)
InterruptFindsQueue == Listening /\ stage = "irqs" => \A d \in Dmas : ~dma[d].irq

(* Every call returns, whatever the stream does, if the DMA it resets comes
   out of its reset.                                                       *)
CallsReturn == \A c \in Files : InCall(c) ~> ~InCall(c)

(* "Push single descriptor for entire transfer": a write that returns its
   length has handed over that many bytes, with no other write around.     *)
TransferIsWhole ==
  \A c \in Files :
    file[c].pc = "ok" /\ file[c].dir = "m2s" /\ file[c].alone =>
      Len(SinceMarker(sink \o fifo)) = Words(c)
=============================================================================

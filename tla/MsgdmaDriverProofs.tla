-------------------------- MODULE MsgdmaDriverProofs --------------------------
(***************************************************************************)
(* What MsgdmaDriver promises of memory and interrupts, and of the calls   *)
(* that succeed, for any number of open files and calls, any lengths and   *)
(* any sizes of buffers and DMAs, provided that the device is not unbound  *)
(* under an open file (~MayUnbind): rmmod cannot do that, sysfs can, and   *)
(* then remove frees the buffers that the calls go on using.               *)
(*                                                                         *)
(* First the invariant of the device and what follows from it; then the    *)
(* words, and how long the queues get; then whose descriptors are in the   *)
(* queues; then how far a call has come that is alone in its direction, a  *)
(* read and a write.                                                       *)
(***************************************************************************)
EXTENDS MsgdmaDriver, FiniteSetTheorems, SequenceTheorems, TLAPS

Stages   == {"unbound", "rd", "wr", "failed", "mapped", "started", "irqs", "queues", "bound",
             "unregistered", "quiet"}
Pcs      == {"closed", "open", "sof", "copy", "push", "log", "poll", "ok"}
Statuses == {"unread", "busy", "idle"}
Sizes    == 0 .. BufSize
Offsets  == 0 .. OutputSize
Last     == BufSize \div WordBytes

(* A descriptor stays within the buffer. *)
DescriptorFields == [left : Nat, at : Nat, mark : BOOLEAN, int : BOOLEAN]
DescriptorType   == {desc \in DescriptorFields : desc.at > 0 /\ desc.at + desc.left - 1 <= Last}
DmaType          == [queue : Seq(DescriptorType), irq : BOOLEAN, inten : BOOLEAN]

(* A read under way stays within the output. *)
FileFields == [pc : Pcs, dir : Dmas, len : Sizes, status : Statuses, off : Offsets, id : Nat,
               from : Int, alone : BOOLEAN]
FileType   == {f \in FileFields :
                 f.pc \notin {"closed", "open"} /\ f.dir = "s2m" => f.off + f.len <= OutputSize}

(* As much of the state's types as the argument needs. *)
Typed ==
  /\ stage \in Stages
  /\ dma \in [Dmas -> DmaType]
  /\ file \in [Files -> FileType]

(* What is counted. *)
Counted == calls \in 0 .. MaxCalls /\ held \in 0 .. FifoWords /\ streamed \in Nat

(* Files are open, and descriptors pushed, only while the device is bound; a
   descriptor may outlive the call that pushed it, but not the reset in
   remove.                                                                 *)
OpenWhileBound == \A c \in Files : file[c].pc # "closed" => stage = "bound"
BusyWhileBound == \A d \in Dmas : Busy(d) => stage \in {"bound", "unregistered"}

(* Both buffers are there from the second allocation to the end of remove. *)
BothAllocated ==
  /\ stage = "rd" => bufs = {"rd"}
  /\ stage \notin {"unbound", "rd", "failed"} => bufs = Buffers

(* No interrupt is left from before the reset in probe. *)
NoneLeft == stage \in {"started", "irqs"} => \A d \in Dmas : ~dma[d].irq

(* The inductive invariant. *)
IInv == Typed /\ Counted /\ OpenWhileBound /\ BusyWhileBound /\ BothAllocated /\ NoneLeft

-----------------------------------------------------------------------------
(* The DMAs after each thing that may happen to one. *)
LEMMA IdleType == Idle \in DmaType /\ Idle.queue = <<>> /\ Idle.irq = FALSE
BY DEF Idle, DmaType

(* A length rounded up to whole words: how many, and how many fit. *)
LEMMA AlignResult ==
  ASSUME NEW n \in Sizes
  PROVE  /\ Align(n) \in Nat /\ Align(n) \div WordBytes \in 0 .. Last
         /\ Align(n) = (Align(n) \div WordBytes) * WordBytes
<1> DEFINE q == (n + WordBytes - 1) \div WordBytes
           r == (n + WordBytes - 1) % WordBytes
<1>1. WordBytes \in Nat /\ WordBytes > 0 /\ BufSize \in Nat /\ n \in Nat /\ n <= BufSize
  BY SizeAssumption DEF Sizes
<1>2. q \in Nat /\ r \in 0 .. WordBytes - 1 /\ n + WordBytes - 1 = (WordBytes * q) + r
  BY <1>1
<1>3. Last \in Nat /\ BufSize = WordBytes * Last
  BY <1>1, SizeAssumption DEF Last
<1> HIDE DEF q, r, Last
<1>4. q <= Last
  <2>1. WordBytes * q < WordBytes * (Last + 1)
    BY <1>1, <1>2, <1>3
  <2>2. ~(q >= Last + 1)
    BY <1>1, <1>2, <1>3, <2>1
  <2> QED
    BY <1>2, <1>3, <2>2
<1>5. Align(n) = WordBytes * q
  BY <1>1, <1>2 DEF Align, q
<1>6. (WordBytes * q) \div WordBytes = q
  BY <1>1, <1>2
<1> QED
  BY <1>1, <1>2, <1>3, <1>4, <1>5, <1>6

(* Division keeps the order. *)
LEMMA Quotients ==
  ASSUME NEW a \in Nat, NEW b \in Nat, a <= b
  PROVE  a \div WordBytes \in Nat /\ a \div WordBytes <= b \div WordBytes
<1> DEFINE p == a \div WordBytes
           q == b \div WordBytes
           r == a % WordBytes
           s == b % WordBytes
<1>1. WordBytes \in Nat /\ WordBytes > 0
  BY SizeAssumption
<1>2. /\ p \in Nat /\ r \in 0 .. WordBytes - 1 /\ a = (WordBytes * p) + r
      /\ q \in Nat /\ s \in 0 .. WordBytes - 1 /\ b = (WordBytes * q) + s
  BY <1>1
<1> HIDE DEF p, q, r, s
<1>3. WordBytes * p < WordBytes * (q + 1)
  BY <1>1, <1>2
<1>4. ~(p >= q + 1)
  BY <1>1, <1>2, <1>3
<1> QED
  BY <1>2, <1>4 DEF p, q

(* A descriptor of any length that fits the buffer; all of it when the DMA can
   count it.                                                               *)
LEMMA DescriptorResult ==
  ASSUME NEW n \in Sizes, NEW mark \in BOOLEAN, NEW int \in BOOLEAN
  PROVE  /\ Descriptor(n, mark, int) \in DescriptorType
         /\ n < Span => Descriptor(n, mark, int).left = n \div WordBytes
<1>1. /\ n \in Nat /\ n <= BufSize /\ BufSize \in Nat /\ Span \in Nat /\ Span > 0
  BY SizeAssumption DEF Sizes
<1>2. n % Span \in Nat /\ n % Span <= n /\ (n < Span => n % Span = n)
  <2> DEFINE q == n \div Span
             r == n % Span
  <2>1. q \in Nat /\ r \in 0 .. Span - 1 /\ n = (Span * q) + r
    BY <1>1
  <2> HIDE DEF q, r
  <2>2. Span * q \in Nat /\ (q >= 1 => Span * q >= Span)
    BY <1>1, <2>1
  <2>3. q = 0 => Span * q = 0
    BY <1>1
  <2>4. r \in Nat /\ r <= n /\ (n < Span => r = n)
    BY <1>1, <2>1, <2>2, <2>3
  <2> QED
    BY <2>4 DEF r
<1> DEFINE left == (n % Span) \div WordBytes
<1>3. left \in Nat /\ left <= Last
  <2>1. n % Span <= BufSize
    BY <1>1, <1>2
  <2> QED
    BY <1>1, <1>2, <2>1, Quotients DEF Last
<1>4. Last \in Nat
  BY <1>1, Quotients DEF Last
<1>5. n < Span => left = n \div WordBytes
  BY <1>2
<1> HIDE DEF left, Last
<1>6. Descriptor(n, mark, int) = [left |-> left, at |-> 1, mark |-> mark, int |-> int]
  BY DEF Descriptor, left
<1> QED
  BY <1>3, <1>4, <1>5, <1>6 DEF DescriptorType, DescriptorFields

LEMMA AlignedDescriptor ==
  ASSUME NEW n \in Sizes, NEW mark \in BOOLEAN, NEW int \in BOOLEAN
  PROVE  /\ Descriptor(Align(n), mark, int) \in DescriptorType
         /\ Align(n) < Span => Descriptor(Align(n), mark, int).left = Align(n) \div WordBytes
<1>1. Align(n) \in Sizes
  <2> DEFINE q == Align(n) \div WordBytes
  <2>1. q \in 0 .. Last /\ Align(n) = q * WordBytes
    BY AlignResult
  <2>2. /\ WordBytes \in Nat /\ WordBytes > 0 /\ BufSize \in Nat /\ Last \in Nat
        /\ BufSize = Last * WordBytes
    BY SizeAssumption DEF Last
  <2> HIDE DEF q, Last
  <2>3. q * WordBytes <= Last * WordBytes /\ q * WordBytes \in Nat
    BY <2>1, <2>2
  <2> QED
    BY <2>1, <2>2, <2>3 DEF Sizes
<1> QED
  BY <1>1, DescriptorResult

(* The marker is a word, and fits. *)
LEMMA MarkerSize == WordBytes \in Sizes
<1>1. /\ WordBytes \in Nat /\ BufSize \in Nat /\ BufSize > 0 /\ WordBytes > 0
      /\ BufSize % WordBytes = 0
  BY SizeAssumption
<1>2. BufSize >= WordBytes
  BY <1>1
<1> QED
  BY <1>1, <1>2 DEF Sizes

(* The least of the lengths a call is cut by. *)
LEMMA LeastResult ==
  ASSUME NEW a \in Nat, NEW b \in Nat, NEW c \in Nat
  PROVE  /\ Least({a, b}) \in Nat /\ Least({a, b}) <= b
         /\ Least({a, b, c}) \in Nat /\ Least({a, b, c}) <= b /\ Least({a, b, c}) <= c
<1>1. \E n \in {a, b} : \A m \in {a, b} : n <= m
  OBVIOUS
<1>2. \E n \in {a, b, c} : \A m \in {a, b, c} : n <= m
  <2>1. (a <= b /\ a <= c) \/ (b <= a /\ b <= c) \/ (c <= a /\ c <= b)
    OBVIOUS
  <2> QED
    BY <2>1
<1> QED
  BY <1>1, <1>2 DEF Least

(* Pushing a descriptor. *)
LEMMA PushedResult ==
  ASSUME dma \in [Dmas -> DmaType], NEW d \in Dmas, NEW desc \in DescriptorType
  PROVE  Pushed(d, desc) \in [Dmas -> DmaType]
<1>1. Append(dma[d].queue, desc) \in Seq(DescriptorType)
  BY DEF DmaType
<1> QED
  BY <1>1 DEF Pushed, DmaType

(* A word less to move. *)
LEMMA CutDescriptor ==
  ASSUME NEW h \in DescriptorType, h.left > 1
  PROVE  [h EXCEPT !.left = @ - 1, !.at = @ + 1] \in DescriptorType
<1> DEFINE l == h.left - 1
           a == h.at + 1
           g == [h EXCEPT !.left = l, !.at = a]
<1>1. h \in DescriptorFields /\ h.at > 0 /\ h.at + h.left - 1 <= Last
  BY DEF DescriptorType
<1>2. l \in Nat /\ a \in Nat /\ a > 0 /\ a + l - 1 = h.at + h.left - 1
  BY <1>1 DEF DescriptorFields
<1> HIDE DEF l, a
<1>3. g \in DescriptorFields
  BY <1>1, <1>2, Zenon DEF DescriptorFields
<1>4. g.left = l /\ g.at = a
  BY <1>1 DEF DescriptorFields
<1> HIDE DEF g
<1>5. g \in DescriptorType
  BY <1>1, <1>2, <1>3, <1>4 DEF DescriptorType
<1> QED
  BY <1>5 DEF g, l, a

(* A word moved: the other DMA is as it was, and the descriptors stay as typed. *)
LEMMA MovedResult ==
  ASSUME dma \in [Dmas -> DmaType], NEW d \in Dmas, Busy(d)
  PROVE  /\ Moved(d) \in [Dmas -> DmaType]
         /\ \A e \in Dmas : e # d => Moved(d)[e] = dma[e]
<1> DEFINE q == dma[d].queue
           h == Head(q)
<1>1. q \in Seq(DescriptorType) /\ q # <<>> /\ h \in DescriptorType
  BY DEF Busy, DmaType
<1>2. CASE h.left > 1
  <2> DEFINE g == [h EXCEPT !.left = @ - 1, !.at = @ + 1]
  <2>1. g \in DescriptorType
    BY <1>1, <1>2, CutDescriptor
  <2>2. [q EXCEPT ![1] = g] \in Seq(DescriptorType)
    <3> HIDE DEF g, h
    <3> QED
      BY <1>1, <2>1
  <2>3. Moved(d) = [dma EXCEPT ![d].queue = [q EXCEPT ![1] = g]]
    BY <1>2 DEF Moved
  <2> HIDE DEF g, h, q
  <2> QED
    BY <2>2, <2>3 DEF DmaType
<1>3. CASE ~(h.left > 1)
  <2> DEFINE i == dma[d].irq \/ (h.int /\ dma[d].inten)
  <2>1. Tail(q) \in Seq(DescriptorType)
    BY <1>1
  <2>2. i \in BOOLEAN
    OBVIOUS
  <2>3. Moved(d) = [dma EXCEPT ![d].queue = Tail(q), ![d].irq = i]
    BY <1>3 DEF Moved
  <2> HIDE DEF i, h, q
  <2> QED
    BY <2>1, <2>2, <2>3 DEF DmaType
<1> QED
  BY <1>2, <1>3

(* A file that is closed. *)
LEMMA ClosedType == Closed \in FileType
<1>1. /\ 0 \in Sizes /\ 0 \in Offsets /\ 0 \in Nat /\ 0 \in Int /\ FALSE \in BOOLEAN
      /\ "m2s" \in Dmas /\ "closed" \in Pcs /\ "unread" \in Statuses
  BY SizeAssumption DEF Sizes, Offsets, Dmas, Pcs, Statuses
<1>2. Closed \in FileFields
  BY <1>1, Zenon DEF Closed, FileFields
<1>3. Closed.pc = "closed"
  BY DEF Closed
<1> QED
  BY <1>2, <1>3 DEF FileType

-----------------------------------------------------------------------------
(* Before the driver is bound first. *)
LEMMA Initially == Init => IInv
<1> SUFFICES ASSUME Init PROVE IInv
  OBVIOUS
<1>1. dma \in [Dmas -> DmaType]
  <2>1. <<>> \in Seq(DescriptorType)
    OBVIOUS
  <2>2. [queue : {<<>>}, irq : BOOLEAN, inten : {FALSE}] \subseteq DmaType
    BY <2>1, Zenon DEF DmaType
  <2> QED
    BY <2>2, Zenon DEF Init
<1>2. \A d \in Dmas : dma[d].queue = <<>>
  BY DEF Init
<1>3. file \in [Files -> FileType] /\ \A c \in Files : file[c].pc = "closed"
  <2>1. Closed.pc = "closed"
    BY DEF Closed
  <2> QED
    BY <2>1, ClosedType DEF Init
<1>4. Counted
  BY SizeAssumption DEF Init, Counted
<1> QED
  BY <1>1, <1>2, <1>3, <1>4
  DEF Init, IInv, Typed, Stages, OpenWhileBound, BusyWhileBound, Busy, BothAllocated, NoneLeft

(* While the device is bound, and stays so, nothing but the types can break. *)
LEMMA BoundStep ==
  ASSUME IInv, stage = "bound", UNCHANGED device, Typed', Counted'
  PROVE  IInv'
BY DEF IInv, device, OpenWhileBound, BusyWhileBound, BothAllocated, NoneLeft

(* Counting what the DMA s2m holds, outside the calls. *)
LEMMA OutsideCounts == ASSUME Counted, Device \/ Transfer \/ Interrupt PROVE Counted'
<1>1. FifoWords \in Nat
  BY SizeAssumption
<1>2. CASE Device \/ Interrupt
  <2>1. UNCHANGED <<calls, streamed>> /\ (held' = held \/ held' = 0)
    BY <1>2 DEF Device, AllocRd, AllocWr, AllocFails, RemoveFailed, Map, StartDmas, RequestIrqs, InitQueues,
                Register, ProbeFails, Unregister, Quiesce, Free, OnlyDevice, Interrupt, streams
  <2> QED
    BY <1>1, <2>1 DEF Counted
<1>3. CASE Transfer
  BY <1>1, <1>3 DEF Counted, Transfer, ReadWord, SinkTakes, SourceSends, WriteWord
<1> QED
  BY <1>2, <1>3

(* A step of probe or of remove. *)
LEMMA DeviceStep == ASSUME ~MayUnbind, IInv, Device PROVE IInv'
<1> USE DEF IInv, Typed
<1>0. Counted'
  BY OutsideCounts
<1>1. file' = file
  BY DEF Device, AllocRd, AllocWr, AllocFails, RemoveFailed, Map, StartDmas, RequestIrqs, InitQueues, Register,
         ProbeFails, Unregister, Quiesce, Free, OnlyDevice
<1>2. stage' \in Stages
  BY DEF Device, AllocRd, AllocWr, AllocFails, RemoveFailed, Map, StartDmas, RequestIrqs, InitQueues, Register,
         ProbeFails, Unregister, Quiesce, Free, Reach, Stages
<1>3. stage # "bound" \/ \A c \in Files : file[c].pc = "closed"
  BY DEF Device, AllocRd, AllocWr, AllocFails, RemoveFailed, Map, StartDmas, RequestIrqs, InitQueues, Register,
         ProbeFails, Unregister, Quiesce, Free, Reach
<1>4. OpenWhileBound'
  BY <1>1, <1>3 DEF OpenWhileBound
<1>5. BothAllocated'
  BY DEF Device, AllocRd, AllocWr, AllocFails, RemoveFailed, Map, StartDmas, RequestIrqs, InitQueues, Register,
         ProbeFails, Unregister, Quiesce, Free, Reach, BothAllocated, Buffers
<1>6. CASE StartDmas
  <2>1. /\ dma' \in [Dmas -> DmaType]
        /\ \A d \in Dmas : dma'[d].queue = <<>> /\ ~dma'[d].irq
    BY <1>6, IdleType DEF StartDmas, AfterReset, DmaType
  <2> QED
    BY <1>0, <1>1, <1>2, <1>4, <1>5, <2>1 DEF BusyWhileBound, Busy, NoneLeft
<1>7. CASE Quiesce
  <2>1. /\ dma' \in [Dmas -> DmaType]
        /\ \A d \in Dmas : dma'[d].queue = <<>> /\ ~dma'[d].irq
    BY <1>7, IdleType DEF Quiesce, AfterReset
  <2> QED
    BY <1>0, <1>1, <1>2, <1>4, <1>5, <2>1 DEF BusyWhileBound, Busy, NoneLeft
<1>8. CASE AllocRd \/ AllocWr \/ AllocFails \/ RemoveFailed \/ Map \/ RequestIrqs \/ InitQueues \/ Register
             \/ ProbeFails \/ Unregister \/ Free
  <2>1. dma' = dma
    BY <1>8 DEF AllocRd, AllocWr, AllocFails, RemoveFailed, Map, RequestIrqs, InitQueues, Register,
                ProbeFails, Unregister, Free, OnlyDevice
  <2>2. BusyWhileBound'
    BY <1>8, <2>1 DEF BusyWhileBound, Busy, AllocRd, AllocWr, AllocFails, RemoveFailed, Map, RequestIrqs,
                      InitQueues, Register, ProbeFails, Unregister, Free, Reach
  <2>3. NoneLeft'
    BY <1>8, <2>1 DEF NoneLeft, AllocRd, AllocWr, AllocFails, RemoveFailed, Map, RequestIrqs, InitQueues,
                      Register, ProbeFails, Unregister, Free, Reach
  <2> QED
    BY <1>0, <1>1, <1>2, <1>4, <1>5, <2>1, <2>2, <2>3
<1> QED
  BY <1>6, <1>7, <1>8 DEF Device

(* A word that moves in the streams or the memory. *)
LEMMA TransferStep == ASSUME IInv, Transfer PROVE IInv'
<1> USE DEF IInv, Typed
<1>0. Counted'
  BY OutsideCounts
<1>1. UNCHANGED device /\ file' = file
  BY DEF Transfer, ReadWord, SinkTakes, SourceSends, WriteWord
<1>2. OpenWhileBound' /\ BothAllocated'
  BY <1>1 DEF device, OpenWhileBound, BothAllocated
<1>3. CASE dma' = dma
  BY <1>0, <1>1, <1>2, <1>3 DEF device, BusyWhileBound, Busy, NoneLeft
<1>4. ASSUME NEW d \in Dmas, Moving(d), dma' = Moved(d)
      PROVE  IInv'
  <2>1. Busy(d) /\ stage \in {"bound", "unregistered"}
    BY <1>4 DEF Moving, BusyWhileBound
  <2>2. dma' \in [Dmas -> DmaType]
    BY <1>4, <2>1, MovedResult
  <2> QED
    BY <1>0, <1>1, <1>2, <2>1, <2>2 DEF device, BusyWhileBound, NoneLeft
<1>5. CASE ReadWord
  BY <1>4, <1>5 DEF ReadWord, Dmas
<1>6. CASE WriteWord
  BY <1>4, <1>6 DEF WriteWord, Dmas
<1>7. CASE SinkTakes \/ SourceSends
  BY <1>3, <1>7 DEF SinkTakes, SourceSends
<1> QED
  BY <1>5, <1>6, <1>7 DEF Transfer

(* The interrupt handler clears the interrupts and nothing else. *)
LEMMA InterruptStep == ASSUME IInv, Interrupt PROVE IInv'
<1> USE DEF IInv, Typed
<1>0. Counted'
  BY OutsideCounts
<1>1. UNCHANGED device /\ file' = file
  BY DEF Interrupt
<1>2. /\ dma' \in [Dmas -> DmaType]
      /\ \A d \in Dmas : dma'[d].queue = dma[d].queue /\ ~dma'[d].irq
  BY DEF Interrupt, DmaType
<1> QED
  BY <1>0, <1>1, <1>2 DEF device, OpenWhileBound, BusyWhileBound, Busy, BothAllocated, NoneLeft

(* What a reset leaves of the DMAs. *)
LEMMA ResetResult ==
  ASSUME dma \in [Dmas -> DmaType], NEW d, ResetOf(d)
  PROVE  dma' \in [Dmas -> DmaType]
BY IdleType DEF ResetOf, AfterReset

(* What a step of a call leaves of the files: where its thread goes, and the
   status it read last, which are the only things that change until it returns. *)
LEMMA AdvanceResult ==
  ASSUME file \in [Files -> FileType], NEW c \in Files, NEW pc \in Pcs, NEW status \in Statuses,
         InCall(c) \/ pc = "open",
         file' = [file EXCEPT ![c].pc = pc, ![c].status = status]
  PROVE  file' \in [Files -> FileType]
<1> DEFINE f == file[c]
           g == [f EXCEPT !.pc = pc, !.status = status]
<1>1. f \in FileFields
  BY DEF FileType
<1>2. f.pc \notin {"closed", "open"} /\ f.dir = "s2m" => f.off + f.len <= OutputSize
  BY DEF FileType
<1>3. file' = [file EXCEPT ![c] = g]
  OBVIOUS
<1>4. f.pc \notin {"closed", "open"} \/ pc = "open"
  BY DEF InCall
<1> HIDE DEF f
<1>5. g \in FileFields
  BY <1>1, Zenon DEF FileFields
<1>6. g.pc = pc /\ g.dir = f.dir /\ g.off = f.off /\ g.len = f.len
  BY <1>1 DEF FileFields
<1> HIDE DEF g
<1>7. g \in FileType
  BY <1>2, <1>4, <1>5, <1>6 DEF FileType
<1> QED
  BY <1>3, <1>7

LEMMA GotoResult ==
  ASSUME file \in [Files -> FileType], NEW c \in Files, NEW pc \in Pcs, InCall(c) \/ pc = "open",
         Goto(c, pc)
  PROVE  file' \in [Files -> FileType]
<1>1. file[c].status \in Statuses
  BY DEF FileType, FileFields
<1>2. file' = [file EXCEPT ![c].pc = pc, ![c].status = file[c].status]
  BY DEF Goto, FileType, FileFields
<1> QED
  BY <1>1, <1>2, AdvanceResult

LEMMA ReturnedResult ==
  ASSUME file \in [Files -> FileType], NEW c \in Files, NEW off \in Offsets,
         file' = Returned(c, off)
  PROVE  file' \in [Files -> FileType]
<1> DEFINE g == [Closed EXCEPT !.pc = "open", !.off = off]
<1>1. Closed \in FileFields
  BY ClosedType DEF FileType
<1>2. g \in FileFields /\ g.pc = "open"
  <2> HIDE DEF Closed
  <2>1. g \in FileFields
    BY <1>1, Zenon DEF FileFields, Pcs
  <2>2. g.pc = "open"
    BY <1>1 DEF FileFields
  <2> QED
    BY <2>1, <2>2
<1>3. file' = [file EXCEPT ![c] = g]
  BY DEF Returned
<1> HIDE DEF g
<1>4. g \in FileType
  BY <1>2 DEF FileType
<1> QED
  BY <1>3, <1>4

(* Entering a call: the caller's file is filled in, and of the others only
   "alone" may change.                                                     *)
LEMMA EnterResult ==
  ASSUME file \in [Files -> FileType], calls \in Nat, streamed - held \in Int,
         NEW c \in Files, NEW d \in Dmas, NEW pc \in Pcs, NEW n \in Sizes,
         d = "s2m" => file[c].off + n <= OutputSize, Enter(c, d, pc, n)
  PROVE  file' \in [Files -> FileType]
<1> DEFINE others == {o \in Files \ {c} : InCall(o) /\ file[o].dir = d}
           first == others = {}
           still == [o \in Files |-> file[o].alone /\ o \notin others]
           id == calls + 1
           from == streamed - held
           f == file[c]
           entered == [f EXCEPT !.pc = pc, !.dir = d, !.len = n, !.status = "unread",
                         !.id = id, !.from = from, !.alone = first]
           other == [o \in Files |-> [file[o] EXCEPT !.alone = still[o]]]
<1>1. file' = [o \in Files |-> IF o = c THEN entered ELSE other[o]]
  BY Zenon DEF Enter
<1>2. first \in BOOLEAN /\ id \in Nat /\ from \in Int /\ "unread" \in Statuses
  BY DEF Statuses
<1>3. \A o \in Files : still[o] \in BOOLEAN
  OBVIOUS
<1> HIDE DEF others, first, still, id, from
<1>4. entered \in FileType
  <2>1. f \in FileFields
    BY DEF FileType
  <2>2. d = "s2m" => f.off + n <= OutputSize
    OBVIOUS
  <2> HIDE DEF f
  <2>3. entered \in FileFields
    BY <1>2, <2>1, Zenon DEF FileFields
  <2>4. entered.dir = d /\ entered.off = f.off /\ entered.len = n
    BY <2>1 DEF FileFields
  <2> HIDE DEF entered
  <2> QED
    BY <2>2, <2>3, <2>4 DEF FileType
<1>5. ASSUME NEW o \in Files PROVE other[o] \in FileType
  <2> DEFINE g == file[o]
             h == [g EXCEPT !.alone = still[o]]
  <2>1. g \in FileFields
    BY DEF FileType
  <2>2. g.pc \notin {"closed", "open"} /\ g.dir = "s2m" => g.off + g.len <= OutputSize
    BY DEF FileType
  <2>3. other[o] = h
    OBVIOUS
  <2> HIDE DEF g
  <2>4. h \in FileFields
    BY <1>3, <2>1, Zenon DEF FileFields
  <2>5. h.pc = g.pc /\ h.dir = g.dir /\ h.off = g.off /\ h.len = g.len
    BY <2>1 DEF FileFields
  <2> HIDE DEF h, other
  <2> QED
    BY <2>2, <2>3, <2>4, <2>5 DEF FileType
<1> HIDE DEF entered, other
<1> QED
  BY <1>1, <1>4, <1>5

(* Counting the calls, and what the DMA s2m holds. *)
LEMMA CalledResult ==
  ASSUME Counted, NEW c, NEW d, NEW pc, NEW n, Enter(c, d, pc, n), UNCHANGED streams
  PROVE  Counted'
<1>1. MaxCalls \in Nat
  BY SizeAssumption
<1>2. calls < MaxCalls /\ calls' = calls + 1 /\ UNCHANGED <<held, streamed>>
  BY Zenon DEF Enter, streams
<1> QED
  BY <1>1, <1>2 DEF Counted

LEMMA CallerCounts == ASSUME Counted, NEW c, Caller(c) \/ Expires(c) PROVE Counted'
<1>1. FifoWords \in Nat
  BY SizeAssumption
<1>2. UNCHANGED <<calls, streamed>> /\ (held' = held \/ held' = 0)
  BY DEF Caller, Expires, SofPoll, SofDeadline, Copy, CopyFaults, Push, Log, Poll, Deadline,
         Return, OnlyFile, ResetOf, streams
<1> QED
  BY <1>1, <1>2 DEF Counted

(* A call is entered, advances, returns or gives up. *)
LEMMA CallStep ==
  ASSUME IInv, NEW c \in Files,
         \/ \E n \in Lengths : WriteCall(c, n) \/ ReadCall(c, n)
         \/ Caller(c) \/ Expires(c)
  PROVE  IInv'
<1>1. UNCHANGED device
  BY DEF WriteCall, ReadCall, Caller, Expires, SofPoll, SofDeadline, Copy, CopyFaults, Push, Log,
         Poll, Deadline, Return, OnlyFile
<1>2. stage' \in Stages
  BY <1>1 DEF device, IInv, Typed
<1>3. stage = "bound"
  BY DEF WriteCall, ReadCall, Caller, Expires, SofPoll, SofDeadline, Copy, CopyFaults, Push, Log,
         Poll, Deadline, Return, Enter, OpenWhileBound, IInv
<1>4. /\ dma \in [Dmas -> DmaType] /\ file \in [Files -> FileType] /\ Counted
      /\ calls \in Nat /\ streamed - held \in Int
  BY DEF IInv, Typed, Counted
<1>5. /\ file[c].len \in Sizes /\ file[c].off \in Offsets /\ file[c].dir \in Dmas
      /\ InCall(c) /\ file[c].dir = "s2m" => file[c].off + file[c].len <= OutputSize
  BY <1>4 DEF FileType, FileFields, InCall
<1>6. /\ {"open", "sof", "copy", "push", "log", "poll", "ok"} \subseteq Pcs
      /\ {"unread", "busy", "idle"} \subseteq Statuses /\ {"m2s", "s2m"} \subseteq Dmas
  BY DEF Pcs, Statuses, Dmas
<1>7. SUFFICES dma' \in [Dmas -> DmaType] /\ file' \in [Files -> FileType] /\ Counted'
  BY <1>1, <1>2, <1>3, BoundStep DEF Typed
<1>8. ASSUME NEW n \in Lengths, WriteCall(c, n)
      PROVE  dma' \in [Dmas -> DmaType] /\ file' \in [Files -> FileType] /\ Counted'
  <2> DEFINE cut == Least({n, BufSize})
  <2>1. cut \in Sizes
    <3>1. n \in Nat /\ BufSize \in Nat
      BY SizeAssumption
    <3>2. cut \in Nat /\ cut <= BufSize
      BY <3>1, LeastResult
    <3> QED
      BY <3>1, <3>2 DEF Sizes
  <2>2. Enter(c, "m2s", "sof", cut) /\ dma' = Pushed("m2s", Descriptor(WordBytes, TRUE, FALSE))
    BY <1>8 DEF WriteCall
  <2> HIDE DEF cut
  <2>3. Descriptor(WordBytes, TRUE, FALSE) \in DescriptorType
    BY MarkerSize, DescriptorResult
  <2>4. dma' \in [Dmas -> DmaType]
    BY <1>4, <1>6, <2>2, <2>3, PushedResult
  <2>5. file' \in [Files -> FileType]
    BY <1>4, <1>6, <2>1, <2>2, EnterResult
  <2> QED
    BY <1>4, <1>8, <2>2, <2>4, <2>5, CalledResult DEF WriteCall
<1>9. ASSUME NEW n \in Lengths, ReadCall(c, n)
      PROVE  dma' \in [Dmas -> DmaType] /\ file' \in [Files -> FileType] /\ Counted'
  <2> DEFINE cut == Least({n, BufSize, OutputSize - file[c].off})
  <2>1. cut \in Sizes /\ file[c].off + cut <= OutputSize
    <3>1. n \in Nat /\ BufSize \in Nat /\ OutputSize \in Nat
      BY SizeAssumption
    <3>2. file[c].off \in Nat /\ OutputSize - file[c].off \in Nat
      BY <1>5, <3>1 DEF Offsets
    <3>3. cut \in Nat /\ cut <= BufSize /\ cut <= OutputSize - file[c].off
      BY <3>1, <3>2, LeastResult
    <3> HIDE DEF cut
    <3> QED
      BY <3>1, <3>2, <3>3 DEF Sizes
  <2>2. Enter(c, "s2m", "log", cut) /\ dma' = Pushed("s2m", Descriptor(Align(cut), FALSE, TRUE))
    BY <1>9 DEF ReadCall
  <2> HIDE DEF cut
  <2>3. Descriptor(Align(cut), FALSE, TRUE) \in DescriptorType
    BY <2>1, AlignedDescriptor
  <2>4. dma' \in [Dmas -> DmaType]
    BY <1>4, <1>6, <2>2, <2>3, PushedResult
  <2>5. file' \in [Files -> FileType]
    BY <1>4, <1>6, <2>1, <2>2, EnterResult
  <2> QED
    BY <1>4, <1>9, <2>2, <2>4, <2>5, CalledResult DEF ReadCall
<1>10. CASE Caller(c) \/ Expires(c)
  <2>1. Counted'
    BY <1>4, <1>10, CallerCounts
  <2>2. InCall(c)
    BY <1>10 DEF Caller, Expires, SofPoll, SofDeadline, Copy, CopyFaults, Push, Log, Poll,
                 Deadline, Return, InCall
  <2>3. CASE Push(c)
    <3>1. Descriptor(Align(file[c].len), FALSE, TRUE) \in DescriptorType
      BY <1>5, AlignedDescriptor
    <3>2. dma' \in [Dmas -> DmaType]
      BY <1>4, <1>6, <2>3, <3>1, PushedResult DEF Push
    <3> QED
      BY <1>4, <1>6, <2>1, <2>2, <2>3, <3>2, GotoResult DEF Push
  <2>4. CASE Expires(c)
    <3>1. /\ dma' = dma \/ \E d : ResetOf(d)
          /\ file' = Returned(c, file[c].off) \/ Goto(c, "copy") \/ Goto(c, "ok")
      BY <2>4 DEF Expires, SofDeadline, Deadline
    <3>2. dma' \in [Dmas -> DmaType]
      BY <1>4, <3>1, ResetResult
    <3> QED
      BY <1>4, <1>5, <1>6, <2>1, <2>2, <3>1, <3>2, GotoResult, ReturnedResult
  <2>5. CASE Copy(c)
    BY <1>4, <1>6, <2>1, <2>2, <2>5, GotoResult DEF Copy
  <2>6. CASE SofPoll(c) \/ Log(c) \/ Poll(c)
    <3>1. \E pc \in Pcs, status \in Statuses :
            file' = [file EXCEPT ![c].pc = pc, ![c].status = status]
      BY <1>6, <2>6 DEF SofPoll, Log, Poll
    <3>2. dma' = dma
      BY <2>6 DEF SofPoll, Log, Poll, OnlyFile
    <3> QED
      BY <1>4, <2>1, <2>2, <3>1, <3>2, AdvanceResult
  <2>7. CASE CopyFaults(c) \/ Return(c)
    <3>1. \E off \in Offsets : file' = Returned(c, off)
      <4>1. CASE CopyFaults(c)
        BY <1>5, <4>1 DEF CopyFaults
      <4>2. CASE Return(c)
        <5>1. file[c].dir = "s2m" => file[c].off + file[c].len \in Offsets
          BY <1>5, <2>2, SizeAssumption DEF Offsets, Sizes
        <5>2. file[c].off + 0 = file[c].off
          BY <1>5 DEF Offsets
        <5> QED
          BY <1>5, <4>2, <5>1, <5>2 DEF Return
      <4> QED
        BY <2>7, <4>1, <4>2
    <3>2. dma' = dma
      BY <2>7 DEF CopyFaults, Return, OnlyFile
    <3> QED
      BY <1>4, <2>1, <3>1, <3>2, ReturnedResult
  <2> QED
    BY <1>10, <2>3, <2>4, <2>5, <2>6, <2>7 DEF Caller
<1> QED
  BY <1>8, <1>9, <1>10

(* A file is opened or released. *)
LEMMA FileStep == ASSUME IInv, Open \/ Release PROVE IInv'
<1>1. PICK c \in Files :
        \/ stage = "bound" /\ Goto(c, "open")
        \/ stage = "bound" /\ file' = [file EXCEPT ![c] = Closed]
  BY DEF Open, Release, IInv, OpenWhileBound
<1>2. stage = "bound" /\ UNCHANGED <<device, dma, calls, held, streamed>>
  BY <1>1 DEF Open, Release, OnlyFile, streams
<1>3. file \in [Files -> FileType]
  BY DEF IInv, Typed
<1>4. file' \in [Files -> FileType]
  <2>1. CASE Goto(c, "open")
    BY <1>3, <2>1, GotoResult DEF Pcs
  <2>2. CASE file' = [file EXCEPT ![c] = Closed]
    BY <1>3, <2>2, ClosedType
  <2> QED
    BY <1>1, <2>1, <2>2
<1>5. Typed' /\ Counted'
  BY <1>2, <1>4 DEF IInv, Typed, Counted, device
<1> QED
  BY <1>2, <1>5, BoundStep

(* Every step keeps the invariant. *)
LEMMA Inductive ==
  ASSUME ~MayUnbind
  PROVE  IInv /\ [Next]_vars => IInv'
<1> SUFFICES ASSUME IInv, [Next]_vars PROVE IInv'
  OBVIOUS
<1>1. CASE UNCHANGED vars
  BY <1>1 DEF vars, device, buffers, streams, IInv, Typed, Counted, OpenWhileBound,
              BusyWhileBound, Busy, BothAllocated, NoneLeft
<1>2. CASE Device
  BY <1>2, DeviceStep
<1>3. CASE Interrupt
  BY <1>3, InterruptStep
<1>4. CASE Transfer
  BY <1>4, TransferStep
<1>5. CASE Open \/ Release
  BY <1>5, FileStep
<1>6. CASE \E c \in Files :
             \/ \E n \in Lengths : WriteCall(c, n) \/ ReadCall(c, n)
             \/ Caller(c) \/ Expires(c)
  BY <1>6, CallStep
<1> QED
  BY <1>1, <1>2, <1>3, <1>4, <1>5, <1>6 DEF Next

(* The invariant holds throughout: whatever calls, deadlines, interrupts and
   steps of probe and remove follow one another, if no file is open when the
   device is unbound.                                                      *)
THEOREM Invariance ==
  ASSUME ~MayUnbind
  PROVE  Spec => []IInv
<1> QED
  BY Initially, Inductive, PTL DEF Spec

-----------------------------------------------------------------------------
(* "Stop any in-flight DMA before freeing buffers": no DMA has a descriptor
   without the buffer it moves words to or from, for any number of open
   files, and though a call may have given up waiting for its transfer, if
   all files are closed before the device is unbound.                      *)
THEOREM NoDmaIntoFreedMemory ==
  ASSUME ~MayUnbind
  PROVE  Spec => []BuffersOutliveDma
<1>1. IInv => BuffersOutliveDma
  BY DEF IInv, Typed, BusyWhileBound, BothAllocated, BuffersOutliveDma, Dmas, Buffers, BufferOf
<1> QED
  BY <1>1, Invariance, PTL

(* No interrupt arrives between request_irq and init_waitqueue_head: the reset
   in probe left none, and nothing is pushed before the device is registered,
   if none of the files of an earlier binding is still open.               *)
THEOREM NoInterruptBeforeQueues ==
  ASSUME ~MayUnbind
  PROVE  Spec => []InterruptFindsQueue
<1>1. IInv => InterruptFindsQueue
  BY DEF IInv, NoneLeft, InterruptFindsQueue
<1> QED
  BY <1>1, Invariance, PTL

-----------------------------------------------------------------------------
(* The words of the buffers and of the streams. *)
Word == Nat \X Nat

WordsTyped ==
  /\ bufs \subseteq Buffers
  /\ wrbuf \in [Slots -> Word] /\ rdbuf \in [Slots -> Int]
  /\ fifo \in Seq(Word) /\ Len(fifo) <= FifoWords /\ sink \in Seq(Word)

(* No read pushes more than one descriptor, and no write more than two. *)
Queue(d) == dma[d].queue
Pending  == {c \in Files : file[c].pc \in {"sof", "copy", "push"}}

QueuesBounded ==
  /\ IsFiniteSet(Pending)
  /\ Len(Queue("s2m")) <= calls
  /\ Len(Queue("m2s")) + Cardinality(Pending) <= 2 * calls

(* What each kind of step leaves in the queues. *)
LEMMA PushedQueue ==
  ASSUME dma \in [Dmas -> DmaType], NEW d \in Dmas, NEW desc \in DescriptorType,
         dma' = Pushed(d, desc)
  PROVE  /\ Queue(d)' = Append(Queue(d), desc)
         /\ \A e \in Dmas : e # d => Queue(e)' = Queue(e)
BY DEF Pushed, Queue, DmaType

LEMMA MovedQueue ==
  ASSUME dma \in [Dmas -> DmaType], NEW d \in Dmas, Moving(d), dma' = Moved(d)
  PROVE  /\ Queue(d) \in Seq(DescriptorType) /\ Queue(d) # <<>> /\ Queue(d)[1].left > 0
         /\ Queue(d)[1].left > 1 =>
              Queue(d)' = [Queue(d) EXCEPT ![1] = [Queue(d)[1] EXCEPT !.left = @ - 1, !.at = @ + 1]]
         /\ ~(Queue(d)[1].left > 1) => Queue(d)' = Tail(Queue(d))
         /\ \A e \in Dmas : e # d => Queue(e)' = Queue(e)
<1> DEFINE q == dma[d].queue
           h == Head(q)
<1>1. q \in Seq(DescriptorType) /\ q # <<>> /\ h.left > 0
  BY DEF Moving, Busy, DmaType
<1>2. h = q[1]
  BY <1>1
<1>3. \A e \in Dmas : e # d => Queue(e)' = Queue(e)
  BY MovedResult DEF Moving, Queue
<1>4. ASSUME h.left > 1 PROVE Queue(d)' = [q EXCEPT ![1] = [h EXCEPT !.left = @ - 1, !.at = @ + 1]]
  <2> DEFINE g == [h EXCEPT !.left = @ - 1, !.at = @ + 1]
  <2>1. dma' = [dma EXCEPT ![d].queue = [q EXCEPT ![1] = g]]
    BY <1>4 DEF Moved
  <2>2. SUFFICES Queue(d)' = [q EXCEPT ![1] = g]
    OBVIOUS
  <2> HIDE DEF g, h, q
  <2> QED
    BY <2>1 DEF Queue, DmaType
<1>5. ASSUME ~(h.left > 1) PROVE Queue(d)' = Tail(q)
  <2> DEFINE i == dma[d].irq \/ (h.int /\ dma[d].inten)
  <2>1. dma' = [dma EXCEPT ![d].queue = Tail(q), ![d].irq = i]
    BY <1>5 DEF Moved
  <2> HIDE DEF i, h, q
  <2> QED
    BY <2>1 DEF Queue, DmaType
<1> HIDE DEF h
<1> QED
  BY <1>1, <1>2, <1>3, <1>4, <1>5 DEF Queue

LEMMA ResetQueue ==
  ASSUME dma \in [Dmas -> DmaType], NEW d \in Dmas, ResetOf(d)
  PROVE  Queue(d)' = <<>> /\ \A e \in Dmas : e # d => Queue(e)' = Queue(e)
BY IdleType DEF ResetOf, AfterReset, Queue

LEMMA DeviceQueue ==
  ASSUME dma \in [Dmas -> DmaType], Device \/ Interrupt, NEW d \in Dmas
  PROVE  Queue(d)' = Queue(d) \/ Queue(d)' = <<>>
<1>1. CASE StartDmas \/ Quiesce
  BY <1>1, IdleType DEF StartDmas, Quiesce, AfterReset, Queue, DmaType
<1>2. CASE Interrupt
  BY <1>2 DEF Interrupt, Queue, DmaType
<1> QED
  BY <1>1, <1>2 DEF Device, AllocRd, AllocWr, AllocFails, RemoveFailed, Map, RequestIrqs, InitQueues,
                    Register, ProbeFails, Unregister, Free, OnlyDevice, Queue

(* What each kind of step leaves of the files: Steps(c, pc, status) is what an
   operation that goes on does, and Leaves(c) what one that returns does.     *)
Kept(o) ==
  /\ file'[o].dir = file[o].dir /\ file'[o].len = file[o].len /\ file'[o].off = file[o].off
  /\ file'[o].id = file[o].id /\ file'[o].from = file[o].from

Others(c) == \A o \in Files \ {c} : file'[o] = file[o]

Steps(c, pc, status) ==
  /\ Others(c) /\ Kept(c) /\ file'[c].alone = file[c].alone
  /\ file'[c].pc = pc /\ file'[c].status = status

Leaves(c) == Others(c) /\ file'[c].pc = "open"

LEMMA StepsResult ==
  ASSUME file \in [Files -> FileType], NEW c \in Files, NEW pc, NEW status,
         file' = [file EXCEPT ![c].pc = pc, ![c].status = status]
  PROVE  Steps(c, pc, status)
BY DEF Steps, Others, Kept, FileType, FileFields

LEMMA GotoSteps ==
  ASSUME file \in [Files -> FileType], NEW c \in Files, NEW pc, Goto(c, pc)
  PROVE  Steps(c, pc, file[c].status)
BY DEF Steps, Others, Kept, FileType, FileFields, Goto

LEMMA LeavesResult ==
  ASSUME file \in [Files -> FileType], NEW c \in Files, NEW off, file' = Returned(c, off)
  PROVE  Leaves(c)
BY DEF Leaves, Others, Returned, Closed

(* What a call that is entered does: the others in its direction are no longer
   alone, and nor is it.                                                      *)
Sharing(c, d) == InCall(c) /\ file[c].dir = d

Enters(c, d, pc, n) ==
  /\ file[c].pc = "open" /\ calls < MaxCalls /\ calls' = calls + 1
  /\ file'[c].pc = pc /\ file'[c].dir = d /\ file'[c].len = n /\ file'[c].from = streamed - held
  /\ file'[c].alone = (\A o \in Files \ {c} : ~Sharing(o, d))
  /\ \A o \in Files \ {c} :
       /\ Kept(o) /\ file'[o].pc = file[o].pc /\ file'[o].status = file[o].status
       /\ file'[o].alone = (file[o].alone /\ ~Sharing(o, d))

LEMMA EntersResult ==
  ASSUME file \in [Files -> FileType], NEW c \in Files, NEW d, NEW pc, NEW n, Enter(c, d, pc, n)
  PROVE  Enters(c, d, pc, n)
<1> DEFINE others == {o \in Files \ {c} : InCall(o) /\ file[o].dir = d}
           first == others = {}
           still == [o \in Files |-> file[o].alone /\ o \notin others]
           id == calls + 1
           from == streamed - held
           f == file[c]
           entered == [f EXCEPT !.pc = pc, !.dir = d, !.len = n, !.status = "unread",
                         !.id = id, !.from = from, !.alone = first]
           other == [o \in Files |-> [file[o] EXCEPT !.alone = still[o]]]
<1>1. file' = [o \in Files |-> IF o = c THEN entered ELSE other[o]]
  BY Zenon DEF Enter
<1>2. file[c].pc = "open" /\ calls < MaxCalls /\ calls' = calls + 1
  BY DEF Enter
<1>3. first = (\A o \in Files \ {c} : ~Sharing(o, d))
  BY DEF Sharing
<1>4. \A o \in Files \ {c} : still[o] = (file[o].alone /\ ~Sharing(o, d))
  BY DEF Sharing
<1> HIDE DEF others, first, still, id
<1>5. /\ file'[c].pc = pc /\ file'[c].dir = d /\ file'[c].len = n
      /\ file'[c].from = from /\ file'[c].alone = first
  <2>1. file'[c] = entered /\ f \in FileFields
    BY <1>1 DEF FileType
  <2> HIDE DEF f, from
  <2> QED
    BY <2>1 DEF FileFields
<1>6. ASSUME NEW o \in Files \ {c}
      PROVE  /\ Kept(o) /\ file'[o].pc = file[o].pc /\ file'[o].status = file[o].status
             /\ file'[o].alone = still[o]
  <2>1. file'[o] = [file[o] EXCEPT !.alone = still[o]] /\ file[o] \in FileFields
    BY <1>1 DEF FileType
  <2> QED
    BY <2>1 DEF FileFields, Kept
<1> QED
  BY <1>2, <1>3, <1>4, <1>5, <1>6 DEF Enters

(* Each step of a call that is under way. *)
Dma(c) == file[c].dir

CallSteps(c) ==
  \/ file[c].pc = "sof" /\ Steps(c, "sof", "busy") /\ Busy("m2s") /\ OnlyFile
  \/ file[c].pc = "sof" /\ Steps(c, "copy", "idle") /\ OnlyFile
  \/ file[c].pc = "sof" /\ Steps(c, "copy", "unread") /\ OnlyFile
  \/ file[c].pc = "sof" /\ Leaves(c) /\ ResetOf("m2s") /\ UNCHANGED <<device, buffers, calls>>
  \/ file[c].pc = "copy" /\ Steps(c, "push", file[c].status) /\ Copy(c)
  \/ file[c].pc = "copy" /\ Leaves(c) /\ CopyFaults(c)
  \/ file[c].pc = "push" /\ Steps(c, "log", file[c].status) /\ Push(c)
  \/ file[c].pc \in {"log", "poll"} /\ Steps(c, "poll", "busy") /\ Busy(Dma(c)) /\ OnlyFile
  \/ file[c].pc = "log" /\ Steps(c, "poll", "idle") /\ ~Busy(Dma(c)) /\ OnlyFile
  \/ file[c].pc = "poll" /\ Steps(c, "ok", "idle") /\ ~Busy(Dma(c)) /\ OnlyFile
  \/ /\ file[c].pc = "poll" /\ file[c].status = "busy" /\ Leaves(c)
     /\ ResetOf(Dma(c)) /\ UNCHANGED <<device, buffers, calls>>
  \/ file[c].pc = "poll" /\ file[c].status = "idle" /\ Steps(c, "ok", "idle") /\ OnlyFile
  \/ file[c].pc = "ok" /\ Leaves(c) /\ OnlyFile

LEMMA CallStepsResult ==
  ASSUME file \in [Files -> FileType], NEW c \in Files, Caller(c) \/ Expires(c)
  PROVE  CallSteps(c)
<1>1. CASE SofPoll(c)
  BY <1>1, StepsResult DEF SofPoll, CallSteps
<1>2. CASE Copy(c)
  BY <1>2, GotoSteps DEF Copy, CallSteps
<1>3. CASE CopyFaults(c)
  BY <1>3, LeavesResult DEF CopyFaults, CallSteps
<1>4. CASE Push(c)
  BY <1>4, GotoSteps DEF Push, CallSteps
<1>5. CASE Log(c)
  BY <1>5, StepsResult DEF Log, CallSteps, Dma
<1>6. CASE Poll(c)
  BY <1>6, StepsResult DEF Poll, CallSteps, Dma
<1>7. CASE Return(c)
  BY <1>7, LeavesResult DEF Return, CallSteps
<1>8. CASE SofDeadline(c)
  BY <1>8, LeavesResult, GotoSteps DEF SofDeadline, CallSteps, OnlyFile
<1>9. CASE Deadline(c)
  BY <1>9, LeavesResult, GotoSteps DEF Deadline, CallSteps, OnlyFile, Dma
<1> QED
  BY <1>1, <1>2, <1>3, <1>4, <1>5, <1>6, <1>7, <1>8, <1>9 DEF Caller, Expires

-----------------------------------------------------------------------------
(* A DMA moves words only within its buffer. *)
LEMMA MovingWithin ==
  ASSUME dma \in [Dmas -> DmaType], NEW d \in Dmas, Moving(d)
  PROVE  Head(dma[d].queue).at \in Slots
<1> DEFINE q == dma[d].queue
           h == Head(q)
<1>1. h \in DescriptorType /\ h.left > 0
  BY DEF Moving, Busy, DmaType
<1>2. Last \in Int
  BY SizeAssumption DEF Last
<1> HIDE DEF h, Last
<1>3. h.at \in 1 .. Last
  BY <1>1, <1>2 DEF DescriptorType, DescriptorFields
<1> QED
  BY <1>3 DEF h, Last, Slots

(* The words of the buffers and the streams stay words, where they are. *)
LEMMA WordsInductive == IInv /\ WordsTyped /\ [Next]_vars => WordsTyped'
<1> SUFFICES ASSUME IInv, WordsTyped, [Next]_vars PROVE WordsTyped'
  OBVIOUS
<1>1. /\ dma \in [Dmas -> DmaType] /\ file \in [Files -> FileType]
      /\ calls \in Nat /\ streamed - held \in Int /\ "m2s" \in Dmas /\ "s2m" \in Dmas
  BY DEF IInv, Typed, Counted, Dmas
<1>2. FifoWords \in Nat /\ <<>> \in Seq(Word) /\ Len(<<>>) = 0 /\ Marker \in Word
  BY SizeAssumption DEF Word, Marker
<1>3. CASE Device \/ Interrupt
  <2>1. sink' = sink /\ (fifo' = fifo \/ fifo' = <<>>)
    BY <1>3 DEF Device, AllocRd, AllocWr, AllocFails, RemoveFailed, Map, StartDmas, RequestIrqs, InitQueues,
                Register, ProbeFails, Unregister, Quiesce, Free, OnlyDevice, Interrupt, streams
  <2>2. bufs' \subseteq Buffers
    BY <1>3 DEF Device, AllocRd, AllocWr, AllocFails, RemoveFailed, Map, StartDmas, RequestIrqs, InitQueues,
                Register, ProbeFails, Unregister, Quiesce, Free, OnlyDevice, Interrupt, device,
                WordsTyped, Buffers
  <2>3. NoWords \in [Slots -> Word] /\ NoResults \in [Slots -> Int]
    BY DEF NoWords, NoResults, NoData, Word
  <2>4. wrbuf' \in {wrbuf, NoWords} /\ rdbuf' \in {rdbuf, NoResults}
    BY <1>3 DEF Device, AllocRd, AllocWr, AllocFails, RemoveFailed, Map, StartDmas, RequestIrqs, InitQueues,
                Register, ProbeFails, Unregister, Quiesce, Free, OnlyDevice, Interrupt, buffers
  <2>5. fifo' \in Seq(Word) /\ Len(fifo') <= FifoWords
    <3>1. CASE fifo' = fifo
      BY <3>1 DEF WordsTyped
    <3>2. CASE fifo' = <<>>
      BY <1>2, <3>2
    <3> QED
      BY <2>1, <3>1, <3>2
  <2>6. wrbuf' \in [Slots -> Word] /\ rdbuf' \in [Slots -> Int]
    BY <2>3, <2>4 DEF WordsTyped
  <2>7. sink' \in Seq(Word)
    BY <2>1 DEF WordsTyped
  <2> QED
    BY <2>2, <2>5, <2>6, <2>7 DEF WordsTyped
<1>4. CASE ReadWord
  <2> DEFINE h == Head(dma["m2s"].queue)
             w == IF h.mark THEN Marker ELSE wrbuf[h.at]
  <2>1. h.at \in Slots
    BY <1>1, <1>4, MovingWithin DEF ReadWord
  <2>2. w \in Word
    BY <1>2, <2>1 DEF WordsTyped
  <2>3. fifo' = Append(fifo, w) /\ Len(fifo) < FifoWords /\ UNCHANGED <<bufs, wrbuf, rdbuf, sink>>
    BY <1>4 DEF ReadWord, device, buffers
  <2> HIDE DEF w, h
  <2> QED
    BY <1>2, <2>2, <2>3 DEF WordsTyped
<1>5. CASE SinkTakes
  <2>1. Head(fifo) \in Word /\ Tail(fifo) \in Seq(Word) /\ Len(Tail(fifo)) <= FifoWords
    BY <1>2, <1>5 DEF SinkTakes, WordsTyped
  <2>2. UNCHANGED <<bufs, wrbuf, rdbuf>> /\ fifo' = Tail(fifo)
        /\ sink' \in {<<>>, Append(sink, Head(fifo))}
    BY <1>5 DEF SinkTakes, device, buffers
  <2>3. sink' \in Seq(Word)
    <3>1. Append(sink, Head(fifo)) \in Seq(Word)
      BY <2>1 DEF WordsTyped
    <3> QED
      BY <1>2, <2>2, <3>1
  <2>4. fifo' \in Seq(Word) /\ Len(fifo') <= FifoWords
    BY <2>1, <2>2
  <2>5. UNCHANGED <<bufs, wrbuf, rdbuf>>
    BY <2>2
  <2> QED
    BY <2>3, <2>4, <2>5 DEF WordsTyped
<1>6. CASE SourceSends
  BY <1>6 DEF SourceSends, device, buffers, WordsTyped
<1>7. CASE WriteWord
  <2>1. streamed - held + 1 \in Int
    BY <1>1
  <2> QED
    BY <1>7, <2>1 DEF WriteWord, device, WordsTyped
<1>8. CASE Open \/ Release
  BY <1>8 DEF Open, Release, OnlyFile, device, buffers, streams, WordsTyped
<1>9. ASSUME NEW c \in Files, NEW n \in Lengths, WriteCall(c, n) \/ ReadCall(c, n)
      PROVE  WordsTyped'
  BY <1>9 DEF WriteCall, ReadCall, device, buffers, streams, WordsTyped
<1>10. ASSUME NEW c \in Files, Caller(c) \/ Expires(c)
       PROVE  WordsTyped'
  <2>1. CallSteps(c)
    BY <1>1, <1>10, CallStepsResult
  <2>2. CASE Copy(c)
    <3>1. file[c].id \in Nat
      BY <1>1 DEF FileType, FileFields
    <3>2. \A i \in Slots : <<file[c].id, i>> \in Word
      BY <3>1 DEF Slots, Word
    <3>3. wrbuf' \in [Slots -> Word]
      BY <2>2, <3>2 DEF Copy, WordsTyped
    <3> QED
      BY <2>2, <3>3 DEF Copy, device, streams, WordsTyped
  <2>3. CASE Push(c) \/ OnlyFile
    BY <2>3 DEF Push, OnlyFile, device, buffers, streams, WordsTyped
  <2>4. CASE (\E d : ResetOf(d)) /\ UNCHANGED <<device, buffers, calls>>
    BY <1>2, <2>4 DEF ResetOf, device, buffers, WordsTyped
  <2>5. CASE CopyFaults(c)
    <3>1. PICK copied \in 0 .. Align(file[c].len) \div WordBytes :
            wrbuf' = [i \in Slots |-> IF i <= copied THEN <<file[c].id, i>>
                                      ELSE IF i <= Align(file[c].len) \div WordBytes THEN NoData
                                      ELSE wrbuf[i]]
      BY <2>5 DEF CopyFaults
    <3>2. file[c].id \in Nat
      BY <1>1 DEF FileType, FileFields
    <3>3. NoData \in Word /\ \A i \in Slots : <<file[c].id, i>> \in Word
      BY <3>2 DEF Slots, Word, NoData
    <3>4. \A i \in Slots : wrbuf[i] \in Word
      BY <1>2 DEF WordsTyped
    <3> HIDE DEF NoData
    <3>5. wrbuf' \in [Slots -> Word]
      BY <3>1, <3>3, <3>4
    <3> QED
      BY <1>2, <2>5, <3>5 DEF CopyFaults, device, streams, WordsTyped
  <2> QED
    BY <2>1, <2>2, <2>3, <2>4, <2>5 DEF CallSteps
<1>11. CASE UNCHANGED vars
  BY <1>11 DEF vars, device, buffers, streams, WordsTyped
<1> QED
  BY <1>3, <1>4, <1>5, <1>6, <1>7, <1>8, <1>9, <1>10, <1>11 DEF Next, Transfer

(* What a read is cut to. *)
LEMMA CutResult ==
  ASSUME file \in [Files -> FileType], NEW c \in Files, NEW n \in Lengths, ReadCall(c, n)
  PROVE  Least({n, BufSize, OutputSize - file[c].off}) \in Sizes
<1> DEFINE cut == Least({n, BufSize, OutputSize - file[c].off})
<1>1. n \in Nat /\ BufSize \in Nat /\ OutputSize \in Nat
  BY SizeAssumption
<1>2. OutputSize - file[c].off \in Nat
  BY <1>1 DEF FileType, FileFields, Offsets, ReadCall
<1>3. cut \in Nat /\ cut <= BufSize
  BY <1>1, <1>2, LeastResult
<1> HIDE DEF cut
<1>4. cut \in Sizes
  BY <1>1, <1>3 DEF Sizes
<1> QED
  BY <1>4 DEF cut

(* Counting the writes that have yet to push their data. *)
LEMMA PendingAfter ==
  ASSUME IsFiniteSet(Pending), NEW c \in Files,
         \A o \in Files \ {c} : file'[o].pc = file[o].pc
  PROVE  /\ IsFiniteSet(Pending')
         /\ Cardinality(Pending') \in Nat /\ Cardinality(Pending) \in Nat
         /\ c \notin Pending' /\ c \notin Pending => Cardinality(Pending') = Cardinality(Pending)
         /\ c \in Pending' /\ c \in Pending => Cardinality(Pending') = Cardinality(Pending)
         /\ c \in Pending' /\ c \notin Pending => Cardinality(Pending') = Cardinality(Pending) + 1
         /\ c \notin Pending' /\ c \in Pending => Cardinality(Pending') = Cardinality(Pending) - 1
<1>1. Pending' = Pending \/ Pending' = Pending \cup {c} \/ Pending' = Pending \ {c}
  BY DEF Pending
<1>2. (c \notin Pending' /\ c \notin Pending) \/ (c \in Pending' /\ c \in Pending) =>
        Pending' = Pending
  BY <1>1
<1>3. c \in Pending' /\ c \notin Pending => Pending' = Pending \cup {c}
  BY <1>1
<1>4. c \notin Pending' /\ c \in Pending => Pending' = Pending \ {c}
  BY <1>1
<1> HIDE DEF Pending
<1>6. IsFiniteSet(Pending \cup {c}) /\ IsFiniteSet(Pending \ {c})
  BY FS_AddElement, FS_RemoveElement
<1>7. IsFiniteSet(Pending')
  BY <1>1, <1>6
<1>8. Cardinality(Pending') \in Nat /\ Cardinality(Pending) \in Nat
  BY <1>7, FS_CardinalityType
<1>9. c \notin Pending => Cardinality(Pending \cup {c}) = Cardinality(Pending) + 1
  BY FS_AddElement
<1>10. c \in Pending => Cardinality(Pending \ {c}) = Cardinality(Pending) - 1
  BY FS_RemoveElement
<1>11. c \in Pending' /\ c \notin Pending => Cardinality(Pending') = Cardinality(Pending) + 1
  BY <1>3, <1>9
<1>12. c \notin Pending' /\ c \in Pending => Cardinality(Pending') = Cardinality(Pending) - 1
  BY <1>4, <1>10
<1>13. (c \notin Pending' /\ c \notin Pending) \/ (c \in Pending' /\ c \in Pending) =>
        Cardinality(Pending') = Cardinality(Pending)
  BY <1>2
<1> QED
  BY <1>7, <1>8, <1>11, <1>12, <1>13, Zenon

(* The queues stay short. *)
LEMMA QueuesInductive == IInv /\ QueuesBounded /\ [Next]_vars => QueuesBounded'
<1> SUFFICES ASSUME IInv, QueuesBounded, [Next]_vars PROVE QueuesBounded'
  OBVIOUS
<1>1. /\ dma \in [Dmas -> DmaType] /\ file \in [Files -> FileType]
      /\ calls \in Nat /\ "m2s" \in Dmas /\ "s2m" \in Dmas
  BY DEF IInv, Typed, Counted, Dmas
<1>2. \A d \in Dmas : Queue(d) \in Seq(DescriptorType) /\ Len(Queue(d)) \in Nat
  BY <1>1 DEF Queue, DmaType
<1>3. /\ Cardinality(Pending) \in Nat /\ IsFiniteSet(Pending)
      /\ Len(Queue("s2m")) <= calls /\ Len(Queue("m2s")) + Cardinality(Pending) <= 2 * calls
  BY FS_CardinalityType DEF QueuesBounded
<1>4. ASSUME \A d \in Dmas : Len(Queue(d)') \in Nat /\ Len(Queue(d)') <= Len(Queue(d)),
             UNCHANGED <<file, calls>>
      PROVE  QueuesBounded'
  <2>1. Pending' = Pending
    BY <1>4 DEF Pending
  <2>2. Len(Queue("s2m")') <= Len(Queue("s2m")) /\ Len(Queue("m2s")') <= Len(Queue("m2s"))
    BY <1>1, <1>4
  <2>3. Len(Queue("s2m")') \in Nat /\ Len(Queue("m2s")') \in Nat /\ calls' = calls
    BY <1>1, <1>4
  <2>4. Cardinality(Pending') = Cardinality(Pending) /\ IsFiniteSet(Pending')
    BY <1>3, <2>1
  <2> QED
    BY <1>1, <1>2, <1>3, <2>2, <2>3, <2>4 DEF QueuesBounded
<1>5. CASE Device \/ Interrupt
  <2>1. UNCHANGED <<file, calls>>
    BY <1>5 DEF Device, AllocRd, AllocWr, AllocFails, RemoveFailed, Map, StartDmas, RequestIrqs, InitQueues,
                Register, ProbeFails, Unregister, Quiesce, Free, OnlyDevice, Interrupt
  <2>2. ASSUME NEW d \in Dmas PROVE Len(Queue(d)') \in Nat /\ Len(Queue(d)') <= Len(Queue(d))
    <3>1. Len(<<>>) = 0
      OBVIOUS
    <3> QED
      BY <1>1, <1>2, <1>5, <3>1, DeviceQueue
  <2> QED
    BY <1>4, <2>1, <2>2
<1>6. CASE Transfer
  <2>1. UNCHANGED <<file, calls>>
    BY <1>6 DEF Transfer, ReadWord, SinkTakes, SourceSends, WriteWord
  <2>2. ASSUME NEW d \in Dmas, Moving(d), dma' = Moved(d), NEW e \in Dmas
        PROVE  Len(Queue(e)') \in Nat /\ Len(Queue(e)') <= Len(Queue(e))
    <3>1. CASE e # d
      <4>1. Queue(e)' = Queue(e)
        BY <1>1, <2>2, <3>1, MovedQueue
      <4>2. Len(Queue(e)) \in Nat
        BY <1>2
      <4> QED
        BY <4>1, <4>2
    <3>2. CASE e = d
      <4> DEFINE q == Queue(d)
                 g == [q[1] EXCEPT !.left = @ - 1, !.at = @ + 1]
      <4>1. q \in Seq(DescriptorType) /\ q # <<>> /\ Len(q) \in Nat
        BY <1>1, <1>2, <2>2, MovedQueue
      <4>2. Queue(d)' = [q EXCEPT ![1] = g] \/ Queue(d)' = Tail(q)
        BY <1>1, <2>2, MovedQueue
      <4> HIDE DEF q, g
      <4>3. Len([q EXCEPT ![1] = g]) = Len(q) /\ Len(Tail(q)) \in Nat /\ Len(Tail(q)) <= Len(q)
        BY <4>1
      <4>4. Len(Queue(d)') \in Nat /\ Len(Queue(d)') <= Len(q)
        BY <4>1, <4>2, <4>3
      <4> QED
        BY <3>2, <4>4 DEF q
    <3> QED
      BY <3>1, <3>2
  <2>3. ASSUME dma' = dma PROVE \A d \in Dmas : Queue(d)' = Queue(d)
    BY <2>3 DEF Queue
  <2>4. \/ dma' = dma
        \/ \E d \in Dmas : Moving(d) /\ dma' = Moved(d)
    BY <1>1, <1>6 DEF Transfer, ReadWord, SinkTakes, SourceSends, WriteWord
  <2>5. \A d \in Dmas : Len(Queue(d)') \in Nat /\ Len(Queue(d)') <= Len(Queue(d))
    <3>1. CASE dma' = dma
      BY <1>2, <2>3, <3>1
    <3>2. CASE \E d \in Dmas : Moving(d) /\ dma' = Moved(d)
      BY <2>2, <3>2
    <3> QED
      BY <2>4, <3>1, <3>2
  <2> QED
    BY <1>4, <2>1, <2>5
<1>7. CASE Open \/ Release
  <2>1. PICK c \in Files : \/ file' = [file EXCEPT ![c].pc = "open"] /\ file[c].pc = "closed"
                           \/ file' = [file EXCEPT ![c] = Closed] /\ file[c].pc = "open"
    BY <1>7 DEF Open, Release, Goto
  <2>2. file'[c].pc \in {"open", "closed"} /\ \A o \in Files \ {c} : file'[o].pc = file[o].pc
    BY <1>1, <2>1 DEF Closed, FileType, FileFields
  <2>3. c \notin Pending /\ c \notin Pending'
    BY <2>1, <2>2 DEF Pending
  <2>4. IsFiniteSet(Pending') /\ Cardinality(Pending') = Cardinality(Pending)
    BY <1>3, <2>2, <2>3, PendingAfter
  <2>5. UNCHANGED <<dma, calls>>
    BY <1>7 DEF Open, Release, OnlyFile
  <2> QED
    BY <1>3, <2>4, <2>5 DEF QueuesBounded, Queue
<1>8. ASSUME NEW c \in Files, NEW n \in Lengths, WriteCall(c, n) PROVE QueuesBounded'
  <2> DEFINE desc == Descriptor(WordBytes, TRUE, FALSE)
  <2>1. Enters(c, "m2s", "sof", Least({n, BufSize})) /\ dma' = Pushed("m2s", desc)
    BY <1>1, <1>8, EntersResult DEF WriteCall
  <2>2. desc \in DescriptorType
    BY MarkerSize, DescriptorResult
  <2> HIDE DEF desc
  <2>3. Queue("m2s")' = Append(Queue("m2s"), desc) /\ Queue("s2m")' = Queue("s2m")
    BY <1>1, <2>1, <2>2, PushedQueue
  <2>4. Len(Queue("m2s")') = Len(Queue("m2s")) + 1
    BY <1>1, <1>2, <2>2, <2>3
  <2>5. c \in Pending' /\ c \notin Pending /\ \A o \in Files \ {c} : file'[o].pc = file[o].pc
    BY <2>1 DEF Enters, Pending
  <2>6. IsFiniteSet(Pending') /\ Cardinality(Pending') = Cardinality(Pending) + 1
    BY <1>3, <2>5, PendingAfter
  <2>7. calls' = calls + 1
    BY <2>1 DEF Enters
  <2>8. Len(Queue("s2m")') <= calls' /\ Len(Queue("m2s")') + Cardinality(Pending') <= 2 * calls'
    BY <1>1, <1>2, <1>3, <2>3, <2>4, <2>6, <2>7
  <2> QED
    BY <2>6, <2>8 DEF QueuesBounded
<1>9. ASSUME NEW c \in Files, NEW n \in Lengths, ReadCall(c, n) PROVE QueuesBounded'
  <2> DEFINE cut == Least({n, BufSize, OutputSize - file[c].off})
             desc == Descriptor(Align(cut), FALSE, TRUE)
  <2>1. Enters(c, "s2m", "log", cut) /\ dma' = Pushed("s2m", desc)
    BY <1>1, <1>9, EntersResult DEF ReadCall
  <2>2. desc \in DescriptorType
    BY <1>1, <1>9, CutResult, AlignedDescriptor
  <2> HIDE DEF desc, cut
  <2>3. Queue("s2m")' = Append(Queue("s2m"), desc) /\ Queue("m2s")' = Queue("m2s")
    BY <1>1, <2>1, <2>2, PushedQueue
  <2>4. Len(Queue("s2m")') = Len(Queue("s2m")) + 1
    BY <1>1, <1>2, <2>2, <2>3
  <2>5. c \notin Pending' /\ c \notin Pending /\ \A o \in Files \ {c} : file'[o].pc = file[o].pc
    BY <2>1 DEF Enters, Pending
  <2>6. IsFiniteSet(Pending') /\ Cardinality(Pending') = Cardinality(Pending)
    BY <1>3, <2>5, PendingAfter
  <2>7. calls' = calls + 1
    BY <2>1 DEF Enters
  <2>8. Len(Queue("s2m")') <= calls' /\ Len(Queue("m2s")') + Cardinality(Pending') <= 2 * calls'
    BY <1>1, <1>2, <1>3, <2>3, <2>4, <2>6, <2>7
  <2> QED
    BY <2>6, <2>8 DEF QueuesBounded
<1>10. ASSUME NEW c \in Files, Caller(c) \/ Expires(c) PROVE QueuesBounded'
  <2>1. CallSteps(c)
    BY <1>1, <1>10, CallStepsResult
  <2>2. /\ calls' = calls /\ \A o \in Files \ {c} : file'[o].pc = file[o].pc
        /\ c \in Pending' => c \in Pending
    BY <2>1 DEF CallSteps, Steps, Leaves, Others, OnlyFile, Copy, CopyFaults, Push, Pending
  <2>3. /\ IsFiniteSet(Pending') /\ Cardinality(Pending') \in Nat
        /\ Cardinality(Pending') <= Cardinality(Pending)
    BY <1>3, <2>2, PendingAfter
  <2>4. CASE Push(c) /\ file[c].pc = "push" /\ Steps(c, "log", file[c].status)
    <3> DEFINE desc == Descriptor(Align(file[c].len), FALSE, TRUE)
    <3>1. file[c].len \in Sizes
      BY <1>1 DEF FileType, FileFields
    <3>2. desc \in DescriptorType
      BY <3>1, AlignedDescriptor
    <3>3. dma' = Pushed("m2s", desc)
      BY <2>4 DEF Push
    <3> HIDE DEF desc
    <3>4. Queue("m2s")' = Append(Queue("m2s"), desc) /\ Queue("s2m")' = Queue("s2m")
      BY <1>1, <3>2, <3>3, PushedQueue
    <3>5. Len(Queue("m2s")') = Len(Queue("m2s")) + 1
      BY <1>1, <1>2, <3>2, <3>4
    <3>6. c \notin Pending' /\ c \in Pending
      BY <2>4 DEF Steps, Pending
    <3>7. Cardinality(Pending') = Cardinality(Pending) - 1
      BY <1>3, <2>2, <3>6, PendingAfter
    <3> QED
      BY <1>1, <1>2, <1>3, <2>2, <2>3, <3>4, <3>5, <3>7 DEF QueuesBounded
  <2>5. CASE dma' = dma
    <3>1. Queue("m2s")' = Queue("m2s") /\ Queue("s2m")' = Queue("s2m")
      BY <2>5 DEF Queue
    <3> QED
      BY <1>1, <1>2, <1>3, <2>2, <2>3, <3>1 DEF QueuesBounded
  <2>6. ASSUME NEW d \in Dmas, ResetOf(d) PROVE QueuesBounded'
    <3>1. \A e \in Dmas : Queue(e)' = Queue(e) \/ Queue(e)' = <<>>
      BY <1>1, <2>6, ResetQueue
    <3>2. Len(<<>>) = 0
      OBVIOUS
    <3>3. Len(Queue("m2s")') <= Len(Queue("m2s")) /\ Len(Queue("m2s")') \in Nat
      BY <1>1, <1>2, <3>1, <3>2
    <3>4. Len(Queue("s2m")') <= Len(Queue("s2m")) /\ Len(Queue("s2m")') \in Nat
      BY <1>1, <1>2, <3>1, <3>2
    <3> QED
      BY <1>1, <1>2, <1>3, <2>2, <2>3, <3>3, <3>4 DEF QueuesBounded
  <2>7. Dma(c) \in Dmas
    BY <1>1 DEF Dma, FileType, FileFields
  <2> QED
    BY <1>1, <2>1, <2>4, <2>5, <2>6, <2>7 DEF CallSteps, OnlyFile, Copy, CopyFaults
<1>11. CASE UNCHANGED vars
  BY <1>2, <1>4, <1>11 DEF vars, Queue
<1> QED
  BY <1>5, <1>6, <1>7, <1>8, <1>9, <1>10, <1>11 DEF Next
LEMMA InitiallyTyped == Init => WordsTyped /\ QueuesBounded
<1> SUFFICES ASSUME Init PROVE WordsTyped /\ QueuesBounded
  OBVIOUS
<1>1. WordsTyped
  <2>1. NoWords \in [Slots -> Word] /\ NoResults \in [Slots -> Int]
    BY DEF NoWords, NoResults, NoData, Word
  <2>2. <<>> \in Seq(Word) /\ Len(<<>>) <= FifoWords
    BY SizeAssumption
  <2> QED
    BY <2>1, <2>2 DEF Init, WordsTyped
<1>2. Pending = {}
  BY DEF Init, Pending, Closed
<1>3. IsFiniteSet(Pending) /\ Cardinality(Pending) = 0
  BY <1>2, FS_EmptySet
<1>4. \A d \in Dmas : Queue(d) = <<>>
  BY DEF Init, Queue
<1>5. Len(Queue("m2s")) = 0 /\ Len(Queue("s2m")) = 0
  BY <1>4 DEF Dmas
<1>6. calls = 0
  BY DEF Init
<1> QED
  BY <1>1, <1>3, <1>5, <1>6 DEF QueuesBounded

(* A descriptor of the DMAs stays within the buffer it is about, a length
   within it too, and no queue grows beyond two descriptors a call: for any
   lengths, and though calls that have given up leave theirs behind, if the
   device is not unbound under an open file.                               *)
THEOREM DriverTypeCorrect ==
  ASSUME ~MayUnbind
  PROVE  Spec => []DriverTypeOK
<1>1. IInv /\ WordsTyped /\ QueuesBounded => DriverTypeOK
  <2> SUFFICES ASSUME IInv, WordsTyped, QueuesBounded PROVE DriverTypeOK
    OBVIOUS
  <2>1. /\ dma \in [Dmas -> DmaType] /\ file \in [Files -> FileType]
        /\ calls \in Nat /\ calls <= MaxCalls /\ MaxCalls \in Nat /\ Last \in Nat
    BY SizeAssumption DEF IInv, Typed, Counted, Last
  <2>2. ASSUME NEW d \in Dmas
        PROVE  /\ Len(dma[d].queue) <= 2 * MaxCalls
               /\ \A i \in 1 .. Len(dma[d].queue) :
                    dma[d].queue[i].at + dma[d].queue[i].left - 1 \in Slots \cup {0}
    <3>1. dma[d].queue \in Seq(DescriptorType)
      BY <2>1 DEF DmaType
    <3>2. Len(dma[d].queue) <= 2 * MaxCalls
      <4>1. Len(Queue("s2m")) <= calls /\ Len(Queue("m2s")) + Cardinality(Pending) <= 2 * calls
        BY DEF QueuesBounded
      <4>2. Cardinality(Pending) \in Nat
        BY FS_CardinalityType DEF QueuesBounded
      <4>3. Len(Queue(d)) \in Nat
        BY <3>1 DEF Queue
      <4>4. d = "s2m" \/ d = "m2s"
        BY DEF Dmas
      <4>5. Len(Queue(d)) <= 2 * calls
        BY <2>1, <4>1, <4>2, <4>3, <4>4
      <4> QED
        BY <2>1, <4>3, <4>5 DEF Queue
    <3>3. ASSUME NEW i \in 1 .. Len(dma[d].queue)
          PROVE  dma[d].queue[i].at + dma[d].queue[i].left - 1 \in Slots \cup {0}
      <4> DEFINE desc == dma[d].queue[i]
      <4>1. desc \in DescriptorType
        BY <3>1
      <4> HIDE DEF desc
      <4>2. desc.at + desc.left - 1 \in 0 .. Last
        BY <2>1, <4>1 DEF DescriptorType, DescriptorFields
      <4>3. desc.at + desc.left - 1 \in Slots \cup {0}
        BY <2>1, <4>2 DEF Slots, Last
      <4> QED
        BY <4>3 DEF desc
    <3> QED
      BY <3>2, <3>3
  <2>3. ASSUME NEW c \in Files
        PROVE  /\ file[c].pc \in {"closed", "open", "sof", "copy", "push", "log", "poll", "ok"}
               /\ file[c].dir \in Dmas
               /\ file[c].status \in {"unread", "busy", "idle"}
               /\ file[c].len \in 0 .. BufSize /\ file[c].off \in 0 .. OutputSize
    <3>1. file[c] \in FileFields
      BY <2>1 DEF FileType
    <3> QED
      BY <3>1 DEF FileFields, Pcs, Statuses, Sizes, Offsets
  <2>4. stage \in Stages /\ bufs \subseteq Buffers /\ DOMAIN wrbuf = Slots /\ DOMAIN rdbuf = Slots
        /\ Len(fifo) <= FifoWords /\ held \in 0 .. FifoWords
    BY DEF IInv, Typed, Counted, WordsTyped
  <2> QED
    BY <2>2, <2>3, <2>4 DEF DriverTypeOK, Stages
<1>2. Spec => [](WordsTyped /\ QueuesBounded)
  BY InitiallyTyped, WordsInductive, QueuesInductive, Invariance, PTL DEF Spec
<1> QED
  BY <1>1, <1>2, Invariance, PTL

-----------------------------------------------------------------------------
(* A call that has pushed its data and not seen it moved. *)
Waiting(c) == file[c].pc = "log" \/ (file[c].pc = "poll" /\ file[c].status = "busy")

MarkDescriptor == Descriptor(WordBytes, TRUE, FALSE)

HasData(q)    == \E i \in 1 .. Len(q) : ~q[i].mark
MarksWhole(q) == \A i \in 1 .. Len(q) : q[i].mark => q[i] = MarkDescriptor
NoMarks(q)    == \A i \in 1 .. Len(q) : ~q[i].mark

(* Only a write sends a marker, and copies. *)
WritesOnly == \A c \in Files : file[c].pc \in {"sof", "copy", "push"} => file[c].dir = "m2s"

(* A call that is alone shares its direction with no other. *)
AloneMeansAlone ==
  \A c \in Files : InCall(c) /\ file[c].alone =>
    \A o \in Files \ {c} : ~Sharing(o, file[c].dir)

(* Data in a queue has a call that waits for it: the deadline that gives a
   transfer up clears the queue.                                           *)
DataIsAwaited == \A d \in Dmas : HasData(Queue(d)) => \E c \in Files : Dma(c) = d /\ Waiting(c)

MarksAreWhole == MarksWhole(Queue("m2s")) /\ NoMarks(Queue("s2m"))

Orderly == WritesOnly /\ AloneMeansAlone /\ DataIsAwaited /\ MarksAreWhole

-----------------------------------------------------------------------------
(* What any step does to the files. *)
LEMMA FilesMove ==
  ASSUME IInv, [Next]_vars
  PROVE  \/ file' = file
         \/ \E c \in Files : Others(c) /\ file'[c].pc \in {"closed", "open"}
         \/ \E c \in Files :
              /\ CallSteps(c) /\ InCall(c) /\ Others(c) /\ Kept(c) /\ file'[c].alone = file[c].alone
              /\ file'[c].pc \in {"sof", "copy", "push"} => file[c].pc \in {"sof", "copy", "push"}
         \/ \E c \in Files, n \in Lengths :
              \/ WriteCall(c, n) /\ Enters(c, "m2s", "sof", Least({n, BufSize}))
              \/ /\ ReadCall(c, n)
                 /\ Enters(c, "s2m", "log", Least({n, BufSize, OutputSize - file[c].off}))
<1>1. file \in [Files -> FileType]
  BY DEF IInv, Typed
<1>2. CASE Device \/ Interrupt \/ Transfer \/ UNCHANGED vars
  BY <1>2 DEF Device, AllocRd, AllocWr, AllocFails, RemoveFailed, Map, StartDmas, RequestIrqs, InitQueues,
              Register, ProbeFails, Unregister, Quiesce, Free, OnlyDevice, Interrupt,
              Transfer, ReadWord, SinkTakes, SourceSends, WriteWord, vars
<1>3. CASE Open \/ Release
  <2>1. PICK c \in Files : \/ file' = [file EXCEPT ![c].pc = "open"]
                           \/ file' = [file EXCEPT ![c] = Closed]
    BY <1>3 DEF Open, Release, Goto
  <2>2. file'[c].pc \in {"open", "closed"} /\ Others(c)
    BY <1>1, <2>1 DEF Closed, FileType, FileFields, Others
  <2> QED
    BY <2>2
<1>4. ASSUME NEW c \in Files, NEW n \in Lengths, WriteCall(c, n)
      PROVE  Enters(c, "m2s", "sof", Least({n, BufSize}))
  BY <1>1, <1>4, EntersResult DEF WriteCall
<1>5. ASSUME NEW c \in Files, NEW n \in Lengths, ReadCall(c, n)
      PROVE  Enters(c, "s2m", "log", Least({n, BufSize, OutputSize - file[c].off}))
  BY <1>1, <1>5, EntersResult DEF ReadCall
<1>6. ASSUME NEW c \in Files, Caller(c) \/ Expires(c)
      PROVE  \/ Others(c) /\ file'[c].pc = "open"
             \/ /\ CallSteps(c) /\ InCall(c) /\ Others(c) /\ Kept(c) /\ file'[c].alone = file[c].alone
                /\ file'[c].pc \in {"sof", "copy", "push"} => file[c].pc \in {"sof", "copy", "push"}
  <2>1. CallSteps(c)
    BY <1>1, <1>6, CallStepsResult
  <2>2. InCall(c)
    BY <2>1 DEF CallSteps, InCall
  <2>3. \/ Leaves(c)
        \/ \E pc, status :
             /\ Steps(c, pc, status)
             /\ pc \in {"sof", "copy", "push"} => file[c].pc \in {"sof", "copy", "push"}
    BY <2>1 DEF CallSteps
  <2> QED
    BY <2>1, <2>2, <2>3 DEF Leaves, Steps
<1> QED
  BY <1>2, <1>3, <1>4, <1>5, <1>6 DEF Next

(* Writes stay writes, and a call that is alone stays so until another enters. *)
LEMMA CallsApart ==
  ASSUME IInv, WritesOnly, AloneMeansAlone, [Next]_vars
  PROVE  WritesOnly' /\ AloneMeansAlone'
<1>1. CASE file' = file
  BY <1>1 DEF WritesOnly, AloneMeansAlone, Sharing, InCall
<1>2. ASSUME NEW c \in Files, Others(c), file'[c].pc \in {"closed", "open"}
      PROVE  WritesOnly' /\ AloneMeansAlone'
  BY <1>2 DEF WritesOnly, AloneMeansAlone, Sharing, InCall, Others
<1>3. ASSUME NEW c \in Files, InCall(c), Others(c), Kept(c), file'[c].alone = file[c].alone,
             file'[c].pc \in {"sof", "copy", "push"} => file[c].pc \in {"sof", "copy", "push"}
      PROVE  WritesOnly' /\ AloneMeansAlone'
  <2>1. WritesOnly'
    BY <1>3 DEF WritesOnly, Others, Kept
  <2>2. \A o \in Files : /\ InCall(o)' => InCall(o)
                         /\ file'[o].dir = file[o].dir /\ file'[o].alone = file[o].alone
    BY <1>3 DEF InCall, Others, Kept
  <2>3. AloneMeansAlone'
    BY <2>2 DEF AloneMeansAlone, Sharing
  <2> QED
    BY <2>1, <2>3
<1>4. ASSUME NEW c \in Files, NEW d, NEW pc, NEW n, Enters(c, d, pc, n),
             pc \in {"sof", "copy", "push"} => d = "m2s"
      PROVE  WritesOnly' /\ AloneMeansAlone'
  <2>1. WritesOnly'
    BY <1>4 DEF Enters, Kept, WritesOnly
  <2>2. ASSUME NEW o \in Files \ {c}
        PROVE  /\ InCall(o)' <=> InCall(o)
               /\ file'[o].dir = file[o].dir
               /\ file'[o].alone => file[o].alone /\ ~Sharing(o, d)
    BY <1>4 DEF Enters, Kept, InCall
  <2>3. ASSUME NEW o \in Files, InCall(o)', file'[o].alone, NEW p \in Files \ {o}, InCall(p)',
               file'[p].dir = file'[o].dir
        PROVE  FALSE
    <3>1. CASE o = c
      <4>1. ~Sharing(p, d) /\ file'[o].dir = d
        BY <1>4, <2>3, <3>1 DEF Enters
      <4> QED
        BY <2>2, <2>3, <3>1, <4>1 DEF Sharing
    <3>2. CASE o # c /\ p # c
      <4>1. InCall(o) /\ file[o].alone /\ InCall(p) /\ file[p].dir = file[o].dir
        BY <2>2, <2>3, <3>2
      <4> QED
        BY <3>2, <4>1 DEF AloneMeansAlone, Sharing
    <3>3. CASE o # c /\ p = c
      <4>1. InCall(o) /\ file'[o].dir = file[o].dir /\ ~Sharing(o, d)
        BY <2>2, <2>3, <3>3
      <4>2. file'[p].dir = d
        BY <1>4, <3>3 DEF Enters
      <4> QED
        BY <2>3, <4>1, <4>2 DEF Sharing
    <3> QED
      BY <3>1, <3>2, <3>3
  <2>4. AloneMeansAlone'
    BY <2>3 DEF AloneMeansAlone, Sharing
  <2> QED
    BY <2>1, <2>4
<1>5. ASSUME NEW c \in Files, NEW n, Enters(c, "m2s", "sof", n) PROVE WritesOnly' /\ AloneMeansAlone'
  BY <1>4, <1>5
<1>6. ASSUME NEW c \in Files, NEW n, Enters(c, "s2m", "log", n) PROVE WritesOnly' /\ AloneMeansAlone'
  BY <1>4, <1>6
<1> QED
  BY <1>1, <1>2, <1>3, <1>5, <1>6, FilesMove

-----------------------------------------------------------------------------
(* What moving and pushing does to the marks of a queue. *)
LEMMA MarkResult ==
  /\ MarkDescriptor \in DescriptorType /\ MarkDescriptor.mark = TRUE
  /\ MarkDescriptor.left <= 1 /\ MarkDescriptor.at = 1
<1> DEFINE left == (WordBytes % Span) \div WordBytes
<1>1. MarkDescriptor \in DescriptorType
  BY MarkerSize, DescriptorResult DEF MarkDescriptor
<1>2. MarkDescriptor = [left |-> left, at |-> 1, mark |-> TRUE, int |-> FALSE]
  BY DEF MarkDescriptor, Descriptor
<1>3. left <= 1
  <2>1. WordBytes \in Nat /\ WordBytes > 0 /\ Span \in Nat /\ Span > 0
    BY SizeAssumption
  <2>2. WordBytes % Span \in Nat /\ WordBytes % Span <= WordBytes
    <3> DEFINE q == WordBytes \div Span
               r == WordBytes % Span
    <3>1. q \in Nat /\ r \in 0 .. Span - 1 /\ WordBytes = (Span * q) + r
      BY <2>1
    <3> HIDE DEF q, r
    <3>2. Span * q \in Nat
      BY <2>1, <3>1
    <3>3. r \in Nat /\ r <= WordBytes
      BY <2>1, <3>1, <3>2
    <3> QED
      BY <3>3 DEF r
  <2>3. WordBytes \div WordBytes = 1
    BY <2>1
  <2> QED
    BY <2>1, <2>2, <2>3, Quotients
<1> HIDE DEF left
<1> QED
  BY <1>1, <1>2, <1>3

LEMMA MovedMarks ==
  ASSUME NEW q \in Seq(DescriptorType), q # <<>>,
         NEW r, NEW g \in DescriptorType, g.mark = q[1].mark,
         \/ r = [q EXCEPT ![1] = g] /\ q[1].left > 1
         \/ r = Tail(q)
  PROVE  /\ HasData(r) => HasData(q)
         /\ MarksWhole(q) => MarksWhole(r)
         /\ NoMarks(q) => NoMarks(r)
<1>1. Len(q) \in Nat /\ Len(q) >= 1
  OBVIOUS
<1>2. CASE r = Tail(q)
  <2>1. Len(r) = Len(q) - 1 /\ \A i \in 1 .. Len(r) : r[i] = q[i + 1]
    BY <1>2
  <2>2. \A i \in 1 .. Len(r) : i + 1 \in 1 .. Len(q)
    BY <1>1, <2>1
  <2> QED
    BY <2>1, <2>2 DEF HasData, MarksWhole, NoMarks
<1>3. CASE r = [q EXCEPT ![1] = g] /\ q[1].left > 1
  <2>1. Len(r) = Len(q) /\ r[1] = g /\ \A i \in 1 .. Len(r) : i # 1 => r[i] = q[i]
    BY <1>1, <1>3
  <2>2. \A i \in 1 .. Len(r) : r[i].mark = q[i].mark
    BY <2>1
  <2>3. 1 \in 1 .. Len(q)
    BY <1>1
  <2>4. MarksWhole(q) => ~q[1].mark
    <3>1. q[1] = MarkDescriptor => ~(q[1].left > 1)
      BY MarkResult DEF DescriptorType, DescriptorFields
    <3> QED
      BY <1>3, <2>3, <3>1 DEF MarksWhole
  <2>5. HasData(r) => HasData(q)
    BY <2>1, <2>2 DEF HasData
  <2>6. NoMarks(q) => NoMarks(r)
    BY <2>1, <2>2 DEF NoMarks
  <2>7. ASSUME MarksWhole(q), NEW i \in 1 .. Len(r), r[i].mark PROVE r[i] = MarkDescriptor
    BY <2>1, <2>2, <2>4, <2>7 DEF MarksWhole
  <2> QED
    BY <2>5, <2>6, <2>7 DEF MarksWhole
<1> QED
  BY <1>2, <1>3

LEMMA PushedMarks ==
  ASSUME NEW q \in Seq(DescriptorType), NEW desc \in DescriptorType
  PROVE  /\ desc.mark => (HasData(Append(q, desc)) => HasData(q))
         /\ MarksWhole(q) /\ (desc.mark => desc = MarkDescriptor) => MarksWhole(Append(q, desc))
         /\ NoMarks(q) /\ ~desc.mark => NoMarks(Append(q, desc))
<1> DEFINE r == Append(q, desc)
<1>1. /\ Len(q) \in Nat /\ Len(r) = Len(q) + 1 /\ r[Len(q) + 1] = desc
      /\ \A i \in 1 .. Len(q) : r[i] = q[i]
  OBVIOUS
<1>2. \A i \in 1 .. Len(r) : i = Len(q) + 1 \/ i \in 1 .. Len(q)
  BY <1>1
<1> HIDE DEF r
<1>3. desc.mark => (HasData(r) => HasData(q))
  BY <1>1, <1>2 DEF HasData
<1>4. MarksWhole(q) /\ (desc.mark => desc = MarkDescriptor) => MarksWhole(r)
  BY <1>1, <1>2 DEF MarksWhole
<1>5. NoMarks(q) /\ ~desc.mark => NoMarks(r)
  BY <1>1, <1>2 DEF NoMarks
<1> QED
  BY <1>3, <1>4, <1>5 DEF r

LEMMA EmptyMarks == ~HasData(<<>>) /\ MarksWhole(<<>>) /\ NoMarks(<<>>)
<1>1. Len(<<>>) = 0 /\ 1 .. 0 = {}
  OBVIOUS
<1> QED
  BY <1>1 DEF HasData, MarksWhole, NoMarks

(* What any step does to the queues, as far as it is about marks. *)
QueueKept(d) ==
  /\ HasData(Queue(d)') => HasData(Queue(d))
  /\ MarksWhole(Queue(d)) => MarksWhole(Queue(d)')
  /\ NoMarks(Queue(d)) => NoMarks(Queue(d)') \/ d = "m2s"

LEMMA QueuesMove ==
  ASSUME IInv, WritesOnly, [Next]_vars
  PROVE  \/ \A d \in Dmas : QueueKept(d)
         \/ \E c \in Files, e \in Dmas :
              /\ file'[c].pc = "log" /\ file'[c].dir = e
              /\ \A d \in Dmas \ {e} : QueueKept(d)
              /\ MarksWhole(Queue(e)) => MarksWhole(Queue(e)')
              /\ NoMarks(Queue(e)) => NoMarks(Queue(e)')
<1>1. /\ dma \in [Dmas -> DmaType] /\ file \in [Files -> FileType]
      /\ "m2s" \in Dmas /\ "s2m" \in Dmas
  BY DEF IInv, Typed, Dmas
<1>2. \A d \in Dmas : Queue(d) \in Seq(DescriptorType)
  BY <1>1 DEF Queue, DmaType
<1>3. ASSUME NEW d \in Dmas, Queue(d)' = Queue(d) \/ Queue(d)' = <<>> PROVE QueueKept(d)
  BY <1>3, EmptyMarks DEF QueueKept
<1>4. CASE Device \/ Interrupt
  BY <1>1, <1>3, <1>4, DeviceQueue
<1>5. CASE dma' = dma
  <2>1. \A d \in Dmas : Queue(d)' = Queue(d)
    BY <1>5 DEF Queue
  <2> QED
    BY <1>3, <2>1
<1>6. ASSUME NEW d \in Dmas, Moving(d), dma' = Moved(d), NEW e \in Dmas PROVE QueueKept(e)
  <2>1. CASE e # d
    BY <1>1, <1>3, <1>6, <2>1, MovedQueue
  <2>2. CASE e = d
    <3> DEFINE q == Queue(d)
               g == [q[1] EXCEPT !.left = @ - 1, !.at = @ + 1]
               r == Queue(d)'
    <3>0. /\ q \in Seq(DescriptorType) /\ q # <<>>
          /\ q[1].left > 1 => r = [q EXCEPT ![1] = g]
          /\ ~(q[1].left > 1) => r = Tail(q)
      BY <1>1, <1>6, MovedQueue, Zenon
    <3>1. /\ q \in Seq(DescriptorType) /\ q # <<>> /\ q[1] \in DescriptorType
          /\ q[1].left > 1 => r = [q EXCEPT ![1] = g]
          /\ ~(q[1].left > 1) => r = Tail(q)
      <4> HIDE DEF q, g, r
      <4> QED
        BY <3>0
    <3>2. q[1].left > 1 => g \in DescriptorType /\ g.mark = q[1].mark
      <4> DEFINE h == q[1]
      <4>1. h \in DescriptorType
        BY <3>1
      <4> HIDE DEF h
      <4>2. h.left > 1 => [h EXCEPT !.left = @ - 1, !.at = @ + 1] \in DescriptorType
        BY <4>1, CutDescriptor
      <4>3. [h EXCEPT !.left = @ - 1, !.at = @ + 1].mark = h.mark
        BY <4>1 DEF DescriptorType, DescriptorFields
      <4> QED
        BY <4>2, <4>3 DEF h
    <3> HIDE DEF q, g, r
    <3>3. /\ HasData(r) => HasData(q)
          /\ MarksWhole(q) => MarksWhole(r)
          /\ NoMarks(q) => NoMarks(r)
      <4>1. CASE q[1].left > 1
        BY <3>1, <3>2, <4>1, MovedMarks
      <4>2. CASE ~(q[1].left > 1)
        BY <3>1, <4>2, MovedMarks
      <4> QED
        BY <4>1, <4>2
    <3> QED
      BY <2>2, <3>3 DEF QueueKept, q, r
  <2> QED
    BY <2>1, <2>2
<1>7. CASE Transfer
  <2>1. \/ dma' = dma
        \/ \E d \in Dmas : Moving(d) /\ dma' = Moved(d)
    BY <1>1, <1>7 DEF Transfer, ReadWord, SinkTakes, SourceSends, WriteWord
  <2> QED
    BY <1>5, <1>6, <2>1
<1>8. ASSUME NEW c \in Files, NEW n \in Lengths, WriteCall(c, n)
      PROVE  \A d \in Dmas : QueueKept(d)
  <2>1. dma' = Pushed("m2s", MarkDescriptor)
    BY <1>8 DEF WriteCall, MarkDescriptor
  <2>2. /\ Queue("m2s")' = Append(Queue("m2s"), MarkDescriptor)
        /\ \A e \in Dmas : e # "m2s" => Queue(e)' = Queue(e)
    BY <1>1, <2>1, MarkResult, PushedQueue
  <2>3. QueueKept("m2s")
    BY <1>1, <1>2, <2>2, MarkResult, PushedMarks DEF QueueKept
  <2> QED
    BY <1>3, <2>2, <2>3
<1>9. ASSUME NEW e \in Dmas, NEW n \in Sizes, dma' = Pushed(e, Descriptor(Align(n), FALSE, TRUE))
      PROVE  /\ \A d \in Dmas \ {e} : QueueKept(d)
             /\ MarksWhole(Queue(e)) => MarksWhole(Queue(e)')
             /\ NoMarks(Queue(e)) => NoMarks(Queue(e)')
  <2> DEFINE desc == Descriptor(Align(n), FALSE, TRUE)
  <2>1. desc \in DescriptorType /\ ~desc.mark
    <3>1. ~desc.mark
      BY DEF Descriptor
    <3> QED
      BY <3>1, AlignedDescriptor
  <2>2. dma' = Pushed(e, desc)
    BY <1>9
  <2> HIDE DEF desc
  <2>3. /\ Queue(e)' = Append(Queue(e), desc)
        /\ \A d \in Dmas : d # e => Queue(d)' = Queue(d)
    BY <1>1, <2>1, <2>2, PushedQueue
  <2> QED
    BY <1>2, <1>3, <2>1, <2>3, PushedMarks
<1>10. ASSUME NEW c \in Files, NEW n \in Lengths, ReadCall(c, n)
       PROVE  /\ file'[c].pc = "log" /\ file'[c].dir = "s2m"
              /\ \A d \in Dmas \ {"s2m"} : QueueKept(d)
              /\ MarksWhole(Queue("s2m")) => MarksWhole(Queue("s2m")')
              /\ NoMarks(Queue("s2m")) => NoMarks(Queue("s2m")')
  <2> DEFINE cut == Least({n, BufSize, OutputSize - file[c].off})
  <2>1. cut \in Sizes
    BY <1>1, <1>10, CutResult
  <2>2. Enters(c, "s2m", "log", cut) /\ dma' = Pushed("s2m", Descriptor(Align(cut), FALSE, TRUE))
    BY <1>1, <1>10, EntersResult DEF ReadCall
  <2> HIDE DEF cut
  <2>3. file'[c].pc = "log" /\ file'[c].dir = "s2m"
    BY <2>2 DEF Enters
  <2> QED
    BY <1>1, <1>9, <2>1, <2>2, <2>3
<1>11. ASSUME NEW c \in Files, Caller(c) \/ Expires(c), ~Push(c)
       PROVE  \A d \in Dmas : QueueKept(d)
  <2>1. CallSteps(c)
    BY <1>1, <1>11, CallStepsResult
  <2>2. Dma(c) \in Dmas
    BY <1>1 DEF Dma, FileType, FileFields
  <2>3. dma' = dma \/ \E e \in Dmas : ResetOf(e)
    BY <1>1, <1>11, <2>1, <2>2 DEF CallSteps, OnlyFile, Copy, CopyFaults
  <2> QED
    BY <1>1, <1>3, <1>5, <2>3, ResetQueue DEF Queue
<1>12. ASSUME NEW c \in Files, Push(c)
       PROVE  /\ file'[c].pc = "log" /\ file'[c].dir = "m2s"
              /\ \A d \in Dmas \ {"m2s"} : QueueKept(d)
              /\ MarksWhole(Queue("m2s")) => MarksWhole(Queue("m2s")')
              /\ NoMarks(Queue("m2s")) => NoMarks(Queue("m2s")')
  <2>1. file[c].len \in Sizes /\ file[c].dir = "m2s"
    BY <1>1, <1>12 DEF Push, WritesOnly, FileType, FileFields
  <2>2. Steps(c, "log", file[c].status) /\ dma' = Pushed("m2s", Descriptor(Align(file[c].len), FALSE, TRUE))
    BY <1>1, <1>12, GotoSteps DEF Push
  <2>3. file'[c].pc = "log" /\ file'[c].dir = "m2s"
    BY <2>1, <2>2 DEF Steps, Kept
  <2> QED
    BY <1>1, <1>9, <2>1, <2>2, <2>3
<1>13. CASE Open \/ Release \/ UNCHANGED vars
  BY <1>5, <1>13 DEF Open, Release, OnlyFile, vars
<1> QED
  BY <1>1, <1>4, <1>7, <1>8, <1>10, <1>11, <1>12, <1>13 DEF Next

(* Data is awaited as long as it is in its queue, and markers stay whole. *)
LEMMA DataStaysAwaited ==
  ASSUME IInv, Orderly, [Next]_vars
  PROVE  DataIsAwaited' /\ MarksAreWhole'
<1>1. /\ dma \in [Dmas -> DmaType] /\ file \in [Files -> FileType]
      /\ "m2s" \in Dmas /\ "s2m" \in Dmas /\ "m2s" # "s2m"
  BY DEF IInv, Typed, Dmas
<1>2. MarksAreWhole'
  BY <1>1, QueuesMove DEF Orderly, MarksAreWhole, QueueKept
<1>3. ASSUME NEW d \in Dmas, HasData(Queue(d)')
      PROVE  \E c \in Files : Dma(c)' = d /\ Waiting(c)'
  <2>1. CASE HasData(Queue(d))
    <3>1. PICK c \in Files : Dma(c) = d /\ Waiting(c)
      BY <2>1 DEF Orderly, DataIsAwaited
    <3>2. ASSUME file'[c].dir = file[c].dir, file'[c].pc = file[c].pc, file'[c].status = file[c].status
          PROVE  Dma(c)' = d /\ Waiting(c)'
      BY <3>1, <3>2 DEF Dma, Waiting
    <3>3. CASE file' = file
      BY <3>2, <3>3
    <3>4. CASE Open \/ Release
      <4>1. PICK m \in Files : \/ file' = [file EXCEPT ![m].pc = "open"] /\ file[m].pc = "closed"
                               \/ file' = [file EXCEPT ![m] = Closed] /\ file[m].pc = "open"
        BY <3>4 DEF Open, Release, Goto
      <4>2. m # c
        BY <3>1, <4>1 DEF Waiting
      <4> QED
        BY <1>1, <3>2, <4>1, <4>2
    <3>5. ASSUME NEW m \in Files, NEW e, NEW pc, NEW n, Enters(m, e, pc, n)
          PROVE  Dma(c)' = d /\ Waiting(c)'
      <4>1. m # c
        BY <3>1, <3>5 DEF Waiting, Enters
      <4> QED
        BY <3>2, <3>5, <4>1 DEF Enters, Kept
    <3>6. ASSUME NEW m \in Files, Caller(m) \/ Expires(m)
          PROVE  Dma(c)' = d /\ Waiting(c)'
      <4>1. CallSteps(m)
        BY <1>1, <3>6, CallStepsResult
      <4>2. CASE m # c
        BY <3>2, <4>1, <4>2 DEF CallSteps, Steps, Leaves, Others
      <4>3. CASE m = c
        <5>1. Queue(d) # <<>> /\ Queue(d)' # <<>>
          BY <1>3, <2>1, EmptyMarks
        <5>2. Busy(Dma(c)) /\ ~ResetOf(Dma(c))
          <6>1. Dma(c) = d
            BY <3>1
          <6>2. Busy(Dma(c))
            BY <5>1, <6>1 DEF Busy, Queue
          <6>3. ~ResetOf(Dma(c))
            BY <1>1, <1>3, <5>1, <6>1, ResetQueue
          <6> QED
            BY <6>2, <6>3
        <5>3. file[c].pc \in {"log", "poll"} /\ Steps(c, "poll", "busy")
          BY <3>1, <4>1, <4>3, <5>2 DEF CallSteps, Waiting
        <5> QED
          BY <3>1, <5>3 DEF Steps, Kept, Dma, Waiting
      <4> QED
        BY <4>2, <4>3
    <3>7. CASE Device \/ Interrupt \/ Transfer \/ UNCHANGED vars
      BY <3>3, <3>7 DEF Device, AllocRd, AllocWr, AllocFails, RemoveFailed, Map, StartDmas, RequestIrqs,
            InitQueues, Register, ProbeFails, Unregister, Quiesce, Free, OnlyDevice, Interrupt,
            Transfer, ReadWord, SinkTakes, SourceSends, WriteWord, vars
    <3>8. ASSUME NEW m \in Files, NEW n \in Lengths, WriteCall(m, n) \/ ReadCall(m, n)
          PROVE  Dma(c)' = d /\ Waiting(c)'
      BY <1>1, <3>5, <3>8, EntersResult DEF WriteCall, ReadCall
    <3> QED
      BY <3>4, <3>6, <3>7, <3>8 DEF Next
  <2>2. CASE ~HasData(Queue(d))
    <3>1. ~QueueKept(d)
      BY <1>3, <2>2 DEF QueueKept
    <3>2. PICK c \in Files, e \in Dmas :
            file'[c].pc = "log" /\ file'[c].dir = e /\ \A b \in Dmas \ {e} : QueueKept(b)
      BY <1>3, <3>1, QueuesMove DEF Orderly
    <3>3. e = d
      BY <1>3, <3>1, <3>2
    <3> QED
      BY <3>2, <3>3 DEF Dma, Waiting
  <2> QED
    BY <2>1, <2>2
<1> QED
  BY <1>2, <1>3 DEF DataIsAwaited

LEMMA OrderlyInductive == IInv /\ Orderly /\ [Next]_vars => Orderly'
BY CallsApart, DataStaysAwaited DEF Orderly

LEMMA InitiallyOrderly == Init => Orderly
<1> SUFFICES ASSUME Init PROVE Orderly
  OBVIOUS
<1>1. \A c \in Files : file[c].pc = "closed"
  BY DEF Init, Closed
<1>2. \A d \in Dmas : Queue(d) = <<>>
  BY DEF Init, Queue
<1> QED
  BY <1>1, <1>2, EmptyMarks
  DEF Orderly, WritesOnly, AloneMeansAlone, InCall, DataIsAwaited, MarksAreWhole, Dmas

-----------------------------------------------------------------------------
(* The stream s ends in the first k words of write id, and nothing is between
   them and the marker before, if there is one.                            *)
After(s, id, k) ==
  \E m \in 0 .. Len(s) :
    /\ m > 0 => s[m] = Marker
    /\ Len(s) = m + k
    /\ \A i \in 1 .. k : s[m + i] = <<id, i>>

(* A word of a write is no marker, since the words are counted from 1. *)
LEMMA NoMarker == ASSUME NEW id, NEW i \in Nat, i >= 1 PROVE <<id, i>> # Marker
BY DEF Marker

LEMMA MarkerAfter ==
  ASSUME NEW s \in Seq(Word), NEW id
  PROVE  After(Append(s, Marker), id, 0)
<1>1. Marker \in Word
  BY DEF Marker, Word
<1> DEFINE r == Append(s, Marker)
<1>2. Len(s) \in Nat /\ Len(r) = Len(s) + 1 /\ r[Len(s) + 1] = Marker
  BY <1>1
<1> HIDE DEF r
<1>3. After(r, id, 0)
  BY <1>2 DEF After
<1> QED
  BY <1>3 DEF r

LEMMA WordAfter ==
  ASSUME NEW s \in Seq(Word), NEW id \in Nat, NEW k \in Nat, After(s, id, k)
  PROVE  After(Append(s, <<id, k + 1>>), id, k + 1)
<1> DEFINE w == <<id, k + 1>>
           r == Append(s, w)
<1>1. w \in Word
  BY DEF Word
<1>2. PICK m \in 0 .. Len(s) : /\ m > 0 => s[m] = Marker
                               /\ Len(s) = m + k
                               /\ \A i \in 1 .. k : s[m + i] = <<id, i>>
  BY DEF After
<1>3. /\ Len(s) \in Nat /\ Len(r) = Len(s) + 1 /\ r[Len(s) + 1] = w
      /\ \A i \in 1 .. Len(s) : r[i] = s[i]
  BY <1>1
<1>4. m \in 0 .. Len(r) /\ Len(r) = m + (k + 1) /\ (m > 0 => r[m] = Marker)
  <2> HIDE DEF r, w
  <2>1. m \in 0 .. Len(r) /\ Len(r) = m + (k + 1)
    BY <1>2, <1>3
  <2>2. ASSUME m > 0 PROVE r[m] = Marker
    <3>1. m \in 1 .. Len(s)
      BY <1>2, <1>3, <2>2
    <3> QED
      BY <1>2, <1>3, <2>2, <3>1
  <2> QED
    BY <2>1, <2>2
<1>5. ASSUME NEW i \in 1 .. k + 1 PROVE r[m + i] = <<id, i>>
  <2>1. CASE i = k + 1
    <3>1. m + i = Len(s) + 1
      BY <1>2, <1>3, <2>1
    <3> HIDE DEF r
    <3> QED
      BY <1>3, <2>1, <3>1
  <2>2. CASE i \in 1 .. k
    <3>1. m + i \in 1 .. Len(s)
      BY <1>2, <1>3, <2>2
    <3> QED
      BY <1>2, <1>3, <2>2, <3>1
  <2>3. i = k + 1 \/ i \in 1 .. k
    OBVIOUS
  <2> HIDE DEF r
  <2> QED
    BY <2>1, <2>2, <2>3
<1> HIDE DEF r
<1>6. After(r, id, k + 1)
  BY <1>4, <1>5 DEF After
<1> QED
  BY <1>6 DEF r

(* Nothing is lost or reordered on the way through the DMA. *)
LEMMA Streamed ==
  ASSUME NEW a \in Seq(Word), NEW b \in Seq(Word)
  PROVE  /\ a \o b \in Seq(Word)
         /\ Len(a \o b) = Len(a) + Len(b)
         /\ \A i \in 1 .. Len(a) : (a \o b)[i] = a[i]
         /\ \A i \in 1 .. Len(b) : (a \o b)[Len(a) + i] = b[i]
         /\ \A w \in Word : a \o Append(b, w) = Append(a \o b, w)
<1>1. /\ a \o b \in Seq(Word)
      /\ Len(a \o b) = Len(a) + Len(b)
      /\ \A i \in 1 .. Len(a) : (a \o b)[i] = a[i]
      /\ \A i \in 1 .. Len(b) : (a \o b)[Len(a) + i] = b[i]
  OBVIOUS
<1>2. ASSUME NEW w \in Word PROVE a \o Append(b, w) = Append(a \o b, w)
  <2>1. a \o (b \o <<w>>) = (a \o b) \o <<w>>
    <3>1. <<w>> \in Seq(Word)
      OBVIOUS
    <3> QED
      BY <3>1, ConcatAssociative
  <2>2. Append(b, w) = b \o <<w>> /\ Append(a \o b, w) = (a \o b) \o <<w>>
    BY <1>1, AppendIsConcat
  <2> QED
    BY <2>1, <2>2
<1> QED
  BY <1>1, <1>2

(* What the sink takes changes where the words are, and no more. *)
LEMMA TakenAfter ==
  ASSUME NEW a \in Seq(Word), NEW b \in Seq(Word), b # <<>>, NEW id, NEW k \in Nat,
         After(a \o b, id, k)
  PROVE  After((IF Head(b) = Marker THEN <<>> ELSE Append(a, Head(b))) \o Tail(b), id, k)
<1> DEFINE s == a \o b
<1>1. /\ Head(b) \in Word /\ Head(b) = b[1] /\ Tail(b) \in Seq(Word)
      /\ Len(b) \in Nat /\ Len(b) >= 1 /\ Len(Tail(b)) = Len(b) - 1
      /\ \A i \in 1 .. Len(b) - 1 : Tail(b)[i] = b[i + 1]
  OBVIOUS
<1>2. CASE Head(b) # Marker
  <2>1. Append(a, Head(b)) \o Tail(b) = a \o b
    <3>1. Append(a, Head(b)) = a \o <<Head(b)>> /\ <<Head(b)>> \in Seq(Word)
      BY <1>1, AppendIsConcat
    <3>2. (a \o <<Head(b)>>) \o Tail(b) = a \o (<<Head(b)>> \o Tail(b))
      BY <1>1, <3>1, ConcatAssociative
    <3>3. <<Head(b)>> \o Tail(b) = b
      BY <1>1
    <3> QED
      BY <3>1, <3>2, <3>3
  <2> QED
    BY <1>2, <2>1
<1>3. CASE Head(b) = Marker
  <2> DEFINE t == Tail(b)
             n == Len(a) + 1
  <2>1. <<>> \o t = t
    BY <1>1, ConcatEmptySeq
  <2>2. /\ Len(a) \in Nat /\ Len(s) = Len(a) + Len(b) /\ s[n] = Marker
        /\ \A i \in 1 .. Len(t) : s[n + i] = t[i]
    <3>1. Len(a) \in Nat /\ Len(s) = Len(a) + Len(b)
      OBVIOUS
    <3>2. \A i \in 1 .. Len(b) : s[Len(a) + i] = b[i]
      BY Streamed
    <3>3. 1 \in 1 .. Len(b)
      BY <1>1
    <3> HIDE DEF s
    <3>4. s[n] = Marker
      BY <1>1, <1>3, <3>2, <3>3
    <3>5. ASSUME NEW i \in 1 .. Len(t) PROVE s[n + i] = t[i]
      <4>1. i + 1 \in 1 .. Len(b) /\ n + i = Len(a) + (i + 1) /\ i \in 1 .. Len(b) - 1
        BY <1>1, <3>1
      <4> QED
        BY <1>1, <3>2, <4>1
    <3> QED
      BY <3>1, <3>4, <3>5
  <2>3. PICK m \in 0 .. Len(s) : /\ m > 0 => s[m] = Marker
                                 /\ Len(s) = m + k
                                 /\ \A i \in 1 .. k : s[m + i] = <<id, i>>
    BY DEF After
  <2> HIDE DEF s
  <2>4. ~(m < n)
    <3>1. SUFFICES ASSUME m < n PROVE FALSE
      OBVIOUS
    <3>2. n - m \in 1 .. k /\ n - m \in Nat /\ m + (n - m) = n
      BY <1>1, <2>2, <2>3, <3>1
    <3>3. s[n] = <<id, n - m>>
      BY <2>3, <3>2
    <3> HIDE DEF n
    <3> QED
      BY <2>2, <3>2, <3>3, NoMarker
  <2>5. m - n \in 0 .. Len(t) /\ Len(t) = (m - n) + k
    <3>1. Len(t) = Len(b) - 1 /\ Len(b) \in Nat /\ Len(a) \in Nat /\ m >= n
      BY <1>1, <2>2, <2>3, <2>4
    <3>2. Len(s) = m + k /\ Len(s) = Len(a) + Len(b)
      BY <2>2, <2>3, Zenon
    <3>3. m \in Nat
      BY <3>1, <3>2
    <3> HIDE DEF t
    <3> QED
      BY <3>1, <3>2, <3>3
  <2>6. m - n > 0 => t[m - n] = Marker
    <3>1. m - n > 0 => m - n \in 1 .. Len(t) /\ n + (m - n) = m /\ m > 0
      <4>1. Len(a) \in Nat /\ m - n \in 0 .. Len(t)
        BY <2>2, <2>5, Zenon
      <4>2. m \in Int
        OBVIOUS
      <4> HIDE DEF t
      <4> QED
        BY <4>1, <4>2
    <3> HIDE DEF n, t
    <3> QED
      BY <2>2, <2>3, <3>1
  <2>7. ASSUME NEW i \in 1 .. k PROVE t[(m - n) + i] = <<id, i>>
    <3>1. (m - n) + i \in 1 .. Len(t) /\ n + ((m - n) + i) = m + i
      BY <2>2, <2>5
    <3> HIDE DEF n, t
    <3> QED
      BY <2>2, <2>3, <3>1
  <2> HIDE DEF t, n
  <2>8. After(t, id, k)
    BY <2>5, <2>6, <2>7 DEF After
  <2> QED
    BY <1>3, <2>1, <2>8 DEF t
<1> QED
  BY <1>2, <1>3

(* The words since the last marker, when the stream ends so. *)
LEMMA SinceMarkerResult ==
  ASSUME NEW s \in Seq(Word), NEW id \in Nat, NEW k \in Nat, After(s, id, k)
  PROVE  SinceMarker(s) = [i \in 1 .. k |-> <<id, i>>]
<1> DEFINE marks == {i \in 1 .. Len(s) : s[i] = Marker}
           own == [i \in 1 .. k |-> <<id, i>>]
<1>1. PICK m \in 0 .. Len(s) : /\ m > 0 => s[m] = Marker
                               /\ Len(s) = m + k
                               /\ \A i \in 1 .. k : s[m + i] = <<id, i>>
  BY DEF After
<1>2. Len(s) \in Nat
  OBVIOUS
<1>3. ASSUME NEW j \in marks PROVE j <= m
  <2>1. SUFFICES ASSUME j > m PROVE FALSE
    BY <1>2
  <2>2. j - m \in 1 .. k /\ j - m \in Nat /\ m + (j - m) = j
    BY <1>1, <1>2, <2>1
  <2>3. s[j] = <<id, j - m>> /\ s[j] = Marker
    BY <1>1, <2>2
  <2>4. <<id, j - m>> # Marker
    BY <2>2, NoMarker
  <2> QED
    BY <2>3, <2>4
<1>4. own \in Seq(Word) /\ Len(own) = k
  <2>1. \A i \in 1 .. k : <<id, i>> \in Word
    BY DEF Word
  <2> QED
    BY <2>1
<1>5. CASE m = 0
  <2>1. marks = {}
    BY <1>3, <1>5
  <2>2. SinceMarker(s) = s
    BY <2>1 DEF SinceMarker
  <2>3. \A i \in 1 .. Len(s) : s[i] = own[i]
    BY <1>1, <1>2, <1>5
  <2> HIDE DEF own
  <2>4. s = own
    BY <1>1, <1>2, <1>4, <1>5, <2>3, SeqEqual
  <2> QED
    BY <2>2, <2>4 DEF own
<1>6. CASE m > 0
  <2>1. m \in marks
    BY <1>1, <1>2, <1>6
  <2> DEFINE last == CHOOSE i \in marks : \A j \in marks : j <= i
  <2>2. last \in marks /\ \A j \in marks : j <= last
    <3> HIDE DEF marks
    <3> QED
      BY <1>3, <2>1
  <2>3. last = m
    BY <1>2, <1>3, <2>1, <2>2
  <2>4. SinceMarker(s) = SubSeq(s, 1 + last, Len(s))
    BY <2>1 DEF SinceMarker
  <2> HIDE DEF last
  <2> DEFINE t == SubSeq(s, 1 + m, Len(s))
  <2>5. t \in Seq(Word) /\ Len(t) = k /\ \A i \in 1 .. k : t[i] = s[m + i]
    BY <1>1, <1>2
  <2> HIDE DEF t, marks
  <2>6. \A i \in 1 .. k : t[i] = own[i]
    BY <1>1, <2>5
  <2> HIDE DEF own
  <2>7. t = own
    BY <1>4, <2>5, <2>6, SeqEqual
  <2> QED
    BY <2>3, <2>4, <2>7 DEF t, own
<1> QED
  BY <1>2, <1>5, <1>6

-----------------------------------------------------------------------------
(* What a call may rely on while it is alone. *)
Untouched(d) ==
  /\ Queue(d)' = Queue(d)
  /\ d = "s2m" => UNCHANGED <<held, streamed, rdbuf>>
  /\ d = "m2s" => UNCHANGED <<fifo, sink, wrbuf>>

(* A call that is alone after a step was so before, and is the same call. *)
LEMMA SameCall ==
  ASSUME IInv, [Next]_vars, NEW c \in Files, InCall(c), InCall(c)', file'[c].alone
  PROVE  Kept(c) /\ file[c].alone
<1>1. CASE file' = file
  BY <1>1 DEF Kept
<1>2. ASSUME NEW m \in Files, Others(m), file'[m].pc \in {"closed", "open"}
      PROVE  Kept(c) /\ file[c].alone
  BY <1>2 DEF Others, Kept, InCall
<1>3. ASSUME NEW m \in Files, Others(m), Kept(m), file'[m].alone = file[m].alone
      PROVE  Kept(c) /\ file[c].alone
  BY <1>3 DEF Others, Kept
<1>4. ASSUME NEW m \in Files, NEW d, NEW pc, NEW n, Enters(m, d, pc, n)
      PROVE  Kept(c) /\ file[c].alone
  BY <1>4 DEF Enters, InCall
<1> QED
  BY <1>1, <1>2, <1>3, <1>4, FilesMove

(* Around a call that is alone, only words move in its direction. *)
LEMMA Around ==
  ASSUME ~MayUnbind, IInv, Orderly, [Next]_vars, NEW c \in Files, InCall(c), InCall(c)', file'[c].alone,
         NEW dir \in Dmas, Dma(c) = dir
  PROVE  \/ CallSteps(c)
         \/ /\ file'[c].pc = file[c].pc /\ file'[c].status = file[c].status
            /\ Transfer \/ Untouched(dir)
<1>1. /\ dma \in [Dmas -> DmaType] /\ file \in [Files -> FileType]
      /\ "m2s" \in Dmas /\ "s2m" \in Dmas /\ "m2s" # "s2m" /\ file[c].dir = dir
  BY DEF IInv, Typed, Dmas, Dma
<1>2. Kept(c) /\ file[c].alone
  BY SameCall
<1>3. \A o \in Files \ {c} : ~Sharing(o, dir)
  BY <1>2 DEF Orderly, AloneMeansAlone, Dma
<1>4. stage = "bound" /\ file[c].pc # "closed"
  BY DEF IInv, OpenWhileBound, InCall
<1>5. CASE Device
  BY <1>4, <1>5 DEF Device, AllocRd, AllocWr, AllocFails, RemoveFailed, Map, StartDmas,
                    RequestIrqs, InitQueues, Register, ProbeFails, Unregister, Quiesce, Free, Reach
<1>6. CASE Interrupt
  <2>1. Queue(dir)' = Queue(dir)
    BY <1>1, <1>6 DEF Interrupt, Queue, DmaType
  <2>2. UNCHANGED <<file, held, streamed, rdbuf, fifo, sink, wrbuf>>
    BY <1>6 DEF Interrupt, buffers, streams
  <2> QED
    BY <2>1, <2>2 DEF Untouched
<1>7. CASE Transfer
  BY <1>7 DEF Transfer, ReadWord, SinkTakes, SourceSends, WriteWord
<1>8. CASE UNCHANGED vars
  BY <1>8 DEF vars, buffers, streams, Untouched, Queue
<1>9. CASE Open \/ Release
  <2>1. PICK m \in Files : \/ file' = [file EXCEPT ![m].pc = "open"] /\ file[m].pc = "closed"
                           \/ file' = [file EXCEPT ![m] = Closed] /\ file[m].pc = "open"
    BY <1>9 DEF Open, Release, Goto
  <2>2. m # c
    BY <2>1 DEF InCall
  <2>3. file'[c] = file[c]
    BY <1>1, <2>1, <2>2
  <2>4. UNCHANGED <<dma, held, streamed, rdbuf, fifo, sink, wrbuf>>
    BY <1>9 DEF Open, Release, OnlyFile, buffers, streams
  <2> QED
    BY <2>3, <2>4 DEF Untouched, Queue
<1>10. ASSUME NEW m \in Files, NEW d \in Dmas, NEW pc, NEW n, Enters(m, d, pc, n),
              NEW desc \in DescriptorType, dma' = Pushed(d, desc), UNCHANGED <<buffers, streams>>
       PROVE  /\ file'[c].pc = file[c].pc /\ file'[c].status = file[c].status
              /\ Untouched(dir)
  <2>1. m # c
    BY <1>10 DEF Enters, InCall
  <2>2. file'[c].pc = file[c].pc /\ file'[c].status = file[c].status /\ ~Sharing(c, d)
    BY <1>10, <2>1 DEF Enters
  <2>3. d # dir
    BY <2>2 DEF Sharing, Dma
  <2>4. Queue(dir)' = Queue(dir)
    BY <1>1, <1>10, <2>3, PushedQueue
  <2> QED
    BY <1>10, <2>2, <2>4 DEF Untouched, buffers, streams
<1>11. ASSUME NEW m \in Files, NEW n \in Lengths, WriteCall(m, n)
       PROVE  /\ file'[c].pc = file[c].pc /\ file'[c].status = file[c].status
              /\ Untouched(dir)
  <2>1. Enters(m, "m2s", "sof", Least({n, BufSize}))
    BY <1>1, <1>11, EntersResult DEF WriteCall
  <2>2. dma' = Pushed("m2s", MarkDescriptor) /\ UNCHANGED <<buffers, streams>>
    BY <1>11 DEF WriteCall, MarkDescriptor
  <2> QED
    BY <1>1, <1>10, <2>1, <2>2, MarkResult
<1>12. ASSUME NEW m \in Files, NEW n \in Lengths, ReadCall(m, n)
       PROVE  /\ file'[c].pc = file[c].pc /\ file'[c].status = file[c].status
              /\ Untouched(dir)
  <2> DEFINE cut == Least({n, BufSize, OutputSize - file[m].off})
  <2>1. cut \in Sizes
    BY <1>1, <1>12, CutResult
  <2>2. Enters(m, "s2m", "log", cut)
    BY <1>1, <1>12, EntersResult DEF ReadCall
  <2>3. dma' = Pushed("s2m", Descriptor(Align(cut), FALSE, TRUE)) /\ UNCHANGED <<buffers, streams>>
    BY <1>12 DEF ReadCall
  <2> HIDE DEF cut
  <2>4. Descriptor(Align(cut), FALSE, TRUE) \in DescriptorType
    BY <2>1, AlignedDescriptor
  <2> QED
    BY <1>1, <1>10, <2>2, <2>3, <2>4
<1>13. ASSUME NEW m \in Files \ {c}, Caller(m) \/ Expires(m)
       PROVE  /\ file'[c].pc = file[c].pc /\ file'[c].status = file[c].status
              /\ Untouched(dir)
  <2>1. CallSteps(m)
    BY <1>1, <1>13, CallStepsResult
  <2>2. file'[c] = file[c]
    BY <1>13, <2>1 DEF CallSteps, Steps, Leaves, Others
  <2>3. Dma(m) # dir /\ Dma(m) \in Dmas
    <3>1. InCall(m)
      BY <2>1 DEF CallSteps, InCall
    <3> QED
      BY <1>1, <1>3, <1>13, <3>1 DEF Sharing, Dma, FileType, FileFields
  <2>4. file[m].pc \in {"sof", "copy", "push"} => Dma(m) = "m2s" /\ dir = "s2m"
    BY <1>1, <2>3 DEF Orderly, WritesOnly, Dma, Dmas
  <2>5. CASE OnlyFile
    BY <2>2, <2>5 DEF OnlyFile, Untouched, Queue, buffers, streams
  <2>6. ASSUME ResetOf(Dma(m)), UNCHANGED <<device, buffers, calls>> PROVE Untouched(dir)
    <3>1. Queue(dir)' = Queue(dir)
      BY <1>1, <2>3, <2>6, ResetQueue
    <3>2. /\ dir = "s2m" => UNCHANGED <<held, streamed>>
          /\ dir = "m2s" => UNCHANGED <<fifo, sink>>
      BY <2>3, <2>6 DEF ResetOf
    <3>3. UNCHANGED <<rdbuf, wrbuf>>
      BY <2>6 DEF buffers
    <3> QED
      BY <3>1, <3>2, <3>3, Zenon DEF Untouched
  <2>7. ASSUME Copy(m) \/ CopyFaults(m) PROVE Untouched(dir)
    BY <2>4, <2>7 DEF Copy, CopyFaults, Untouched, Queue, streams
  <2>8. ASSUME Push(m) PROVE Untouched(dir)
    <3> DEFINE desc == Descriptor(Align(file[m].len), FALSE, TRUE)
    <3>1. desc \in DescriptorType
      <4>1. file[m].len \in Sizes
        BY <1>1 DEF FileType, FileFields
      <4> QED
        BY <4>1, AlignedDescriptor
    <3>2. dma' = Pushed("m2s", desc) /\ UNCHANGED <<buffers, streams>>
      BY <2>8 DEF Push
    <3> HIDE DEF desc
    <3>3. dir = "s2m"
      BY <2>4, <2>8 DEF Push
    <3>4. Queue("s2m")' = Queue("s2m")
      BY <1>1, <3>1, <3>2, PushedQueue
    <3> QED
      BY <3>2, <3>3, <3>4 DEF Untouched, buffers, streams
  <2>9. \/ OnlyFile \/ Copy(m) \/ CopyFaults(m) \/ Push(m)
        \/ ResetOf(Dma(m)) /\ UNCHANGED <<device, buffers, calls>>
    BY <2>1, <2>4 DEF CallSteps
  <2> QED
    BY <2>2, <2>5, <2>6, <2>7, <2>8, <2>9
<1>14. ASSUME Caller(c) \/ Expires(c) PROVE CallSteps(c)
  BY <1>1, <1>14, CallStepsResult
<1> QED
  BY <1>5, <1>6, <1>7, <1>8, <1>9, <1>11, <1>12, <1>13, <1>14 DEF Next

-----------------------------------------------------------------------------
(* The conditions of ReadIsOfItsTime and WriteIsDelivered, from the start of a
   call to its end; and the data descriptor of a call with k words moved.  *)
Undisturbed(c) == InCall(c) /\ file[c].alone /\ Align(file[c].len) < Span

Data(c, k) == [left |-> Words(c) - k, at |-> k + 1, mark |-> FALSE, int |-> TRUE]

(* The call has seen its DMA idle. *)
SeesEmpty(c) == file[c].pc = "ok" \/ (file[c].pc = "poll" /\ file[c].status = "idle")

(* A read so far: the queue holds its descriptor and no other, and the k words
   that are in the buffer are the next ones of the stream.                 *)
HasRead(c, k) ==
  streamed - held = file[c].from + k /\ \A i \in 1 .. k : rdbuf[i] = file[c].from + i

ReadSoFar(c) ==
  \/ Queue("s2m") = <<>> /\ HasRead(c, Words(c))
  \/ /\ ~SeesEmpty(c)
     /\ \E k \in 0 .. Words(c) : Queue("s2m") = <<Data(c, k)>> /\ HasRead(c, k)

ReadProgress == \A c \in Files : Undisturbed(c) /\ file[c].dir = "s2m" => ReadSoFar(c)

(* The number of words of a call. *)
LEMMA WordsResult ==
  ASSUME file \in [Files -> FileType], NEW c \in Files
  PROVE  Words(c) \in Nat /\ Words(c) <= Last /\ Last \in Nat /\ \A i \in 1 .. Words(c) : i \in Slots
<1>1. file[c].len \in Sizes
  BY DEF FileType, FileFields
<1>2. Words(c) \in 0 .. Last
  BY <1>1, AlignResult DEF Words
<1>3. Last \in Nat
  BY SizeAssumption DEF Last
<1>4. Words(c) \in Nat /\ Words(c) <= Last
  BY <1>2, <1>3
<1> QED
  BY <1>3, <1>4 DEF Slots, Last

(* The descriptor of n bytes, when the DMA can count them. *)
LEMMA DataResult ==
  ASSUME NEW n \in Sizes, Align(n) < Span
  PROVE  Descriptor(Align(n), FALSE, TRUE) =
           [left |-> (Align(n) \div WordBytes) - 0, at |-> 0 + 1, mark |-> FALSE, int |-> TRUE]
<1> DEFINE desc == Descriptor(Align(n), FALSE, TRUE)
           left == (Align(n) % Span) \div WordBytes
           words == Align(n) \div WordBytes
<1>1. desc.left = words
  BY AlignedDescriptor
<1>2. words \in 0 .. Last
  BY AlignResult
<1>3. desc = [left |-> left, at |-> 1, mark |-> FALSE, int |-> TRUE]
  BY DEF Descriptor
<1> HIDE DEF left, desc, words
<1>4. left = words
  BY <1>1, <1>3
<1>5. words - 0 = words /\ 0 + 1 = 1
  BY <1>2
<1> QED
  BY <1>3, <1>4, <1>5, Zenon DEF desc, words

(* The queue of one descriptor. *)
LEMMA Single ==
  ASSUME NEW h
  PROVE  /\ <<h>> # <<>> /\ <<h>>[1] = h /\ Head(<<h>>) = h /\ Tail(<<h>>) = <<>> /\ Len(<<h>>) = 1
         /\ Append(<<>>, h) = <<h>>
         /\ \A g : [<<h>> EXCEPT ![1] = g] = <<g>>
OBVIOUS

(* A word moved for a call. *)
LEMMA DataMoved ==
  ASSUME file \in [Files -> FileType], NEW c \in Files, NEW k \in 0 .. Words(c), Data(c, k).left > 0
  PROVE  /\ k \in Nat /\ k + 1 \in 1 .. Words(c) /\ k + 1 \in Slots
         /\ [Data(c, k) EXCEPT !.left = @ - 1, !.at = @ + 1] = Data(c, k + 1)
         /\ ~(Data(c, k).left > 1) => k + 1 = Words(c)
<1>1. Words(c) \in Nat /\ \A i \in 1 .. Words(c) : i \in Slots
  BY WordsResult
<1>2. Data(c, k).left = Words(c) - k
  BY DEF Data
<1>3. k \in Nat /\ k + 1 \in 1 .. Words(c) /\ (~(Data(c, k).left > 1) => k + 1 = Words(c))
  BY <1>1, <1>2
<1>4. [Data(c, k) EXCEPT !.left = @ - 1, !.at = @ + 1] = Data(c, k + 1)
  <2> DEFINE l == Words(c) - k
             a == k + 1
  <2>1. l - 1 = Words(c) - (k + 1) /\ a + 1 = (k + 1) + 1
    BY <1>1, <1>3
  <2>2. Data(c, k) = [left |-> l, at |-> a, mark |-> FALSE, int |-> TRUE]
    BY DEF Data
  <2>3. Data(c, k + 1) = [left |-> l - 1, at |-> a + 1, mark |-> FALSE, int |-> TRUE]
    BY <2>1, Zenon DEF Data
  <2> DEFINE d == Data(c, k)
  <2> HIDE DEF l, a, d
  <2>4. d = [left |-> l, at |-> a, mark |-> FALSE, int |-> TRUE]
    BY <2>2 DEF d
  <2>5. [d EXCEPT !.left = @ - 1, !.at = @ + 1] =
          [left |-> l - 1, at |-> a + 1, mark |-> FALSE, int |-> TRUE]
    <3> DEFINE mark == FALSE
               int == TRUE
               l1 == l - 1
               a1 == a + 1
    <3>1. d = [left |-> l, at |-> a, mark |-> mark, int |-> int]
      BY <2>4
    <3>2. d.left = l /\ d.at = a
      BY <2>4
    <3>3. [d EXCEPT !.left = @ - 1, !.at = @ + 1] = [d EXCEPT !.left = l1, !.at = a1]
      BY <3>2
    <3> HIDE DEF mark, int, l1, a1
    <3>4. [d EXCEPT !.left = l1, !.at = a1] = [left |-> l1, at |-> a1, mark |-> mark, int |-> int]
      <4> DEFINE e == [d EXCEPT !.left = l1]
      <4>1. e = [left |-> l1, at |-> a, mark |-> mark, int |-> int]
        BY <3>1
      <4>2. [d EXCEPT !.left = l1, !.at = a1] = [e EXCEPT !.at = a1]
        OBVIOUS
      <4> HIDE DEF e
      <4>3. [e EXCEPT !.at = a1] = [left |-> l1, at |-> a1, mark |-> mark, int |-> int]
        BY <4>1
      <4> QED
        BY <4>2, <4>3
    <3> QED
      BY <3>3, <3>4 DEF mark, int, l1, a1
  <2> QED
    BY <2>3, <2>5, Zenon DEF d
<1> QED
  BY <1>1, <1>3, <1>4

(* Words move from the stream to the buffer. *)
LEMMA ReadMoves ==
  ASSUME IInv, WordsTyped, NEW c \in Files, Transfer, ReadSoFar(c), file[c].dir = "s2m"
  PROVE  ReadSoFar(c)'
<1>1. /\ dma \in [Dmas -> DmaType] /\ file \in [Files -> FileType] /\ "s2m" \in Dmas /\ "m2s" \in Dmas
      /\ held \in Nat /\ streamed \in Nat /\ file[c].from \in Int /\ rdbuf \in [Slots -> Int]
  BY SizeAssumption DEF IInv, Typed, Counted, Dmas, FileType, FileFields, WordsTyped
<1>2. file' = file
  BY DEF Transfer, ReadWord, SinkTakes, SourceSends, WriteWord
<1>3. /\ Words(c)' = Words(c) /\ file'[c].from = file[c].from /\ SeesEmpty(c)' = SeesEmpty(c)
      /\ \A k : Data(c, k)' = Data(c, k)
  BY <1>2 DEF Words, Data, SeesEmpty
<1>4. ASSUME Queue("s2m")' = Queue("s2m"), \A k : HasRead(c, k)' = HasRead(c, k)
      PROVE  ReadSoFar(c)'
  BY <1>3, <1>4 DEF ReadSoFar
<1>5. CASE ReadWord \/ SinkTakes
  <2>1. Queue("s2m")' = Queue("s2m")
    <3>1. CASE ReadWord
      <4>1. Moving("m2s") /\ dma' = Moved("m2s") /\ "s2m" # "m2s"
        BY <3>1 DEF ReadWord
      <4> QED
        BY <1>1, <4>1, MovedQueue
    <3>2. CASE SinkTakes
      BY <3>2 DEF SinkTakes, Queue
    <3> QED
      BY <1>5, <3>1, <3>2
  <2>2. \A k : HasRead(c, k)' = HasRead(c, k)
    BY <1>2, <1>5 DEF ReadWord, SinkTakes, HasRead, buffers
  <2> QED
    BY <1>4, <2>1, <2>2
<1>6. CASE SourceSends
  <2>1. Queue("s2m")' = Queue("s2m") /\ rdbuf' = rdbuf
    BY <1>6 DEF SourceSends, Queue, buffers
  <2>2. streamed' - held' = streamed - held
    BY <1>1, <1>6 DEF SourceSends
  <2>3. \A k : HasRead(c, k)' = HasRead(c, k)
    BY <1>2, <2>1, <2>2 DEF HasRead
  <2> QED
    BY <1>4, <2>1, <2>3
<1>7. CASE WriteWord
  <2>1. /\ Queue("s2m") # <<>> /\ Queue("s2m")[1].left > 0
        /\ Queue("s2m")[1].left > 1 => Queue("s2m")' =
             [Queue("s2m") EXCEPT ![1] = [Queue("s2m")[1] EXCEPT !.left = @ - 1, !.at = @ + 1]]
        /\ ~(Queue("s2m")[1].left > 1) => Queue("s2m")' = Tail(Queue("s2m"))
    BY <1>1, <1>7, MovedQueue DEF WriteWord
  <2>2. PICK k \in 0 .. Words(c) : Queue("s2m") = <<Data(c, k)>> /\ HasRead(c, k)
    BY <2>1 DEF ReadSoFar
  <2>3. ~SeesEmpty(c)
    BY <2>1 DEF ReadSoFar
  <2>4. Data(c, k).left > 0
    BY <2>1, <2>2, Single
  <2>5. /\ k \in Nat /\ k + 1 \in 1 .. Words(c) /\ k + 1 \in Slots
        /\ [Data(c, k) EXCEPT !.left = @ - 1, !.at = @ + 1] = Data(c, k + 1)
        /\ ~(Data(c, k).left > 1) => k + 1 = Words(c)
    BY <1>1, <2>4, DataMoved
  <2>6. /\ Data(c, k).left > 1 => Queue("s2m")' = <<Data(c, k + 1)>>
        /\ ~(Data(c, k).left > 1) => Queue("s2m")' = <<>> /\ k + 1 = Words(c)
    <3> DEFINE q == Queue("s2m")
               d == Data(c, k)
               e == Data(c, k + 1)
               r == Queue("s2m")'
    <3>1. q = <<d>> /\ q[1] = d
      BY <2>2, Single
    <3>2. d.left > 1 => r = [q EXCEPT ![1] = e]
      BY <2>1, <2>5, <3>1, Zenon
    <3>3. ~(d.left > 1) => r = Tail(q)
      BY <2>1, <3>1, Zenon
    <3> HIDE DEF q, d, e, r
    <3>4. /\ d.left > 1 => r = <<e>>
          /\ ~(d.left > 1) => r = <<>>
      BY <3>1, <3>2, <3>3, Single
    <3> QED
      BY <2>5, <3>4 DEF d, e, r
  <2>7. HasRead(c, k + 1)'
    <3>1. Head(Queue("s2m")).at = k + 1
      BY <2>2, Single DEF Data
    <3>2. rdbuf' = [rdbuf EXCEPT ![k + 1] = streamed - held + 1] /\ held > 0
          /\ held' = held - 1 /\ streamed' = streamed
      BY <1>7, <3>1 DEF WriteWord, Queue
    <3>3. streamed' - held' = file[c].from + (k + 1) /\ streamed - held + 1 = file[c].from + (k + 1)
      BY <1>1, <2>2, <2>5, <3>2 DEF HasRead
    <3>4. ASSUME NEW i \in 1 .. k + 1 PROVE rdbuf'[i] = file[c].from + i
      <4>1. CASE i = k + 1
        BY <1>1, <2>5, <3>2, <3>3, <4>1
      <4>2. CASE i # k + 1
        <5>1. i \in 1 .. k
          BY <2>5, <4>2
        <5>2. i \in Slots
          BY <1>1, <2>5, <5>1, WordsResult
        <5> QED
          BY <1>1, <2>2, <3>2, <4>2, <5>1, <5>2 DEF HasRead
      <4> QED
        BY <4>1, <4>2
    <3> QED
      BY <1>3, <3>3, <3>4 DEF HasRead
  <2>8. k + 1 \in 0 .. Words(c)
    BY <1>1, <2>5, WordsResult
  <2>9. CASE Data(c, k).left > 1
    BY <1>3, <2>3, <2>6, <2>7, <2>8, <2>9 DEF ReadSoFar
  <2>10. CASE ~(Data(c, k).left > 1)
    BY <1>3, <2>6, <2>7, <2>10 DEF ReadSoFar
  <2> QED
    BY <2>9, <2>10
<1> QED
  BY <1>5, <1>6, <1>7 DEF Transfer

(* A read that is alone goes on as it began. *)
LEMMA ReadGoesOn ==
  ASSUME ~MayUnbind, IInv, WordsTyped, Orderly, [Next]_vars, NEW c \in Files,
         file[c].dir = "s2m", InCall(c), InCall(c)', file'[c].alone, ReadSoFar(c)
  PROVE  ReadSoFar(c)'
<1>1. file \in [Files -> FileType] /\ "s2m" \in Dmas /\ Dma(c) = "s2m"
  BY DEF IInv, Typed, Dmas, Dma
<1>2. Kept(c)
  BY SameCall
<1>3. /\ Words(c)' = Words(c) /\ file'[c].from = file[c].from
      /\ \A k : Data(c, k)' = Data(c, k)
  BY <1>2 DEF Kept, Words, Data
<1>4. ASSUME Untouched("s2m"), SeesEmpty(c)' => SeesEmpty(c) \/ Queue("s2m") = <<>>
      PROVE  ReadSoFar(c)'
  <2>1. Queue("s2m")' = Queue("s2m")
    BY <1>4 DEF Untouched
  <2>2. \A k : HasRead(c, k)' = HasRead(c, k)
    BY <1>3, <1>4 DEF Untouched, HasRead
  <2>3. CASE Queue("s2m") = <<>> /\ HasRead(c, Words(c))
    BY <1>3, <2>1, <2>2, <2>3 DEF ReadSoFar
  <2>4. ASSUME ~SeesEmpty(c), NEW k \in 0 .. Words(c), Queue("s2m") = <<Data(c, k)>>, HasRead(c, k)
        PROVE  ReadSoFar(c)'
    <3>1. ~SeesEmpty(c)'
      BY <1>4, <2>4, Single
    <3> QED
      BY <1>3, <2>1, <2>2, <2>4, <3>1 DEF ReadSoFar
  <2> QED
    BY <2>3, <2>4 DEF ReadSoFar
<1>5. CASE CallSteps(c)
  <2>1. file[c].pc \notin {"sof", "copy", "push"}
    BY DEF Orderly, WritesOnly
  <2>2. OnlyFile
    BY <1>5, <2>1 DEF CallSteps, Leaves, InCall
  <2>3. Untouched("s2m")
    BY <2>2 DEF OnlyFile, Untouched, Queue, buffers, streams
  <2>4. SeesEmpty(c)' => SeesEmpty(c) \/ Queue("s2m") = <<>>
    BY <1>1, <1>5, <2>1 DEF CallSteps, Leaves, Steps, InCall, SeesEmpty, Busy, Queue
  <2> QED
    BY <1>4, <2>3, <2>4
<1>6. CASE Transfer
  BY <1>6, ReadMoves
<1>7. CASE file'[c].pc = file[c].pc /\ file'[c].status = file[c].status /\ Untouched("s2m")
  <2>1. SeesEmpty(c)' => SeesEmpty(c)
    BY <1>7 DEF SeesEmpty
  <2> QED
    BY <1>4, <1>7, <2>1
<1> QED
  BY <1>1, <1>5, <1>6, <1>7, Around

(* A queue without markers, when nobody waits for its data. *)
LEMMA NothingLeft ==
  ASSUME IInv, Orderly, NEW d \in Dmas, \A o \in Files : ~(Sharing(o, d) /\ Waiting(o))
  PROVE  ~HasData(Queue(d)) /\ (NoMarks(Queue(d)) => Queue(d) = <<>>)
<1>1. ~HasData(Queue(d))
  BY DEF Orderly, DataIsAwaited, Dma, Waiting, Sharing, InCall
<1>2. Queue(d) \in Seq(DescriptorType)
  BY DEF IInv, Typed, Queue, DmaType
<1>3. ASSUME NoMarks(Queue(d)) PROVE Queue(d) = <<>>
  <2>1. ~(1 \in 1 .. Len(Queue(d)))
    BY <1>1, <1>3 DEF NoMarks, HasData
  <2> DEFINE q == Queue(d)
  <2> HIDE DEF q
  <2>2. q \in Seq(DescriptorType) /\ ~(1 \in 1 .. Len(q)) => q = <<>>
    OBVIOUS
  <2> QED
    BY <1>2, <2>1, <2>2 DEF q
<1> QED
  BY <1>1, <1>3

(* A call begins with its own entry. *)
LEMMA CallBegins ==
  ASSUME IInv, [Next]_vars, NEW c \in Files, ~InCall(c), InCall(c)'
  PROVE  \E n \in Lengths :
           \/ WriteCall(c, n) /\ Enters(c, "m2s", "sof", Least({n, BufSize}))
           \/ /\ ReadCall(c, n)
              /\ Enters(c, "s2m", "log", Least({n, BufSize, OutputSize - file[c].off}))
<1>1. CASE file' = file
  BY <1>1 DEF InCall
<1>2. ASSUME NEW m \in Files, Others(m), InCall(m) \/ ~InCall(m)' PROVE FALSE
  BY <1>2 DEF Others, InCall
<1>3. ASSUME NEW m \in Files, NEW d, NEW pc, NEW n, Enters(m, d, pc, n) PROVE m = c
  BY <1>3 DEF Enters, InCall
<1> QED
  BY <1>1, <1>2, <1>3, FilesMove DEF InCall

(* A read that is alone finds the queue empty. *)
LEMMA ReadBegins ==
  ASSUME IInv, Orderly, [Next]_vars, NEW c \in Files, ~InCall(c), Undisturbed(c)',
         file'[c].dir = "s2m"
  PROVE  ReadSoFar(c)'
<1>1. /\ dma \in [Dmas -> DmaType] /\ file \in [Files -> FileType] /\ "s2m" \in Dmas
      /\ held \in Nat /\ streamed \in Nat
  BY SizeAssumption DEF IInv, Typed, Counted, Dmas
<1>2. PICK n \in Lengths : /\ ReadCall(c, n)
                           /\ Enters(c, "s2m", "log", Least({n, BufSize, OutputSize - file[c].off}))
  <2>1. ASSUME NEW n, Enters(c, "m2s", "sof", n) PROVE FALSE
    BY <2>1 DEF Enters
  <2>2. InCall(c)'
    BY DEF Undisturbed
  <2> QED
    BY <2>1, <2>2, CallBegins
<1> DEFINE cut == Least({n, BufSize, OutputSize - file[c].off})
           desc == Descriptor(Align(cut), FALSE, TRUE)
<1>3. cut \in Sizes
  BY <1>1, <1>2, CutResult
<1>4. dma' = Pushed("s2m", desc) /\ UNCHANGED streams
  BY <1>2 DEF ReadCall
<1>5. desc \in DescriptorType
  BY <1>3, AlignedDescriptor
<1>6. Enters(c, "s2m", "log", cut)
  BY <1>2
<1> HIDE DEF cut, desc
<1>7. /\ file'[c].pc = "log" /\ file'[c].len = cut /\ file'[c].from = streamed - held
      /\ \A o \in Files \ {c} : ~Sharing(o, "s2m")
  BY <1>6 DEF Enters, Undisturbed
<1>8. Queue("s2m") = <<>>
  <2>1. \A o \in Files : ~(Sharing(o, "s2m") /\ Waiting(o))
    BY <1>7 DEF Sharing
  <2>2. NoMarks(Queue("s2m"))
    BY DEF Orderly, MarksAreWhole
  <2> QED
    BY <1>1, <2>1, <2>2, NothingLeft
<1>9. Queue("s2m")' = <<desc>>
  <2>1. Queue("s2m")' = Append(Queue("s2m"), desc)
    BY <1>1, <1>4, <1>5, PushedQueue
  <2> QED
    BY <1>8, <2>1, Single
<1>10. Align(cut) < Span
  BY <1>7 DEF Undisturbed
<1>11. desc = Data(c, 0)'
  <2>1. Words(c)' = Align(cut) \div WordBytes
    BY <1>7 DEF Words
  <2>2. Data(c, 0)' = [left |-> Words(c)' - 0, at |-> 0 + 1, mark |-> FALSE, int |-> TRUE]
    BY DEF Data
  <2> QED
    BY <1>3, <1>10, <2>1, <2>2, DataResult, Zenon DEF desc
<1>12. HasRead(c, 0)'
  <2>1. streamed' - held' = file'[c].from + 0
    BY <1>1, <1>4, <1>7 DEF streams
  <2> QED
    BY <2>1 DEF HasRead
<1>13. 0 \in 0 .. Words(c)'
  <2>1. Words(c)' \in 0 .. Last
    BY <1>3, <1>7, AlignResult DEF Words
  <2> QED
    BY <2>1
<1>14. ~SeesEmpty(c)'
  BY <1>7 DEF SeesEmpty
<1> QED
  BY <1>9, <1>11, <1>12, <1>13, <1>14 DEF ReadSoFar

(* The reads that are alone. *)
LEMMA ReadInductive ==
  ASSUME ~MayUnbind, IInv, WordsTyped, Orderly, ReadProgress, [Next]_vars
  PROVE  ReadProgress'
<1> SUFFICES ASSUME NEW c \in Files, Undisturbed(c)', file'[c].dir = "s2m"
             PROVE  ReadSoFar(c)'
  BY DEF ReadProgress
<1>1. InCall(c)' /\ file'[c].alone
  BY DEF Undisturbed
<1>2. CASE InCall(c)
  <2>1. Kept(c) /\ file[c].alone
    BY <1>1, <1>2, SameCall
  <2>2. file[c].dir = "s2m" /\ Undisturbed(c)
    BY <1>2, <2>1 DEF Kept, Undisturbed
  <2>3. ReadSoFar(c)
    BY <2>2 DEF ReadProgress
  <2> QED
    BY <1>1, <1>2, <2>2, <2>3, ReadGoesOn
<1>3. CASE ~InCall(c)
  BY <1>3, ReadBegins
<1> QED
  BY <1>2, <1>3

-----------------------------------------------------------------------------
(* A write so far.  Until its data is pushed there are but markers in the
   queue, its own among them or gone through last; then its data is the last
   in the queue, and what is behind the last marker in the stream are the k
   words of it that the DMA has read.                                      *)
Handed(c, k) == After(sink \o fifo, file[c].id, k)

LastIs(q, desc) == q # <<>> /\ q[Len(q)] = desc /\ \A i \in 1 .. Len(q) - 1 : q[i].mark

Opening(c) == file[c].pc \in {"sof", "copy", "push"}
Copied(c)  == file[c].pc \in {"push", "log", "poll", "ok"}
Sending(c) == file[c].pc \in {"log", "poll", "ok"}

Opened(c) == ~HasData(Queue("m2s")) /\ (Queue("m2s") = <<>> => Handed(c, 0))

HoldsOwn(c) == \A i \in 1 .. Words(c) : wrbuf[i] = <<file[c].id, i>>

SentSoFar(c) ==
  \/ Queue("m2s") = <<>> /\ Handed(c, Words(c))
  \/ /\ ~SeesEmpty(c)
     /\ \E k \in 0 .. Words(c) :
          /\ LastIs(Queue("m2s"), Data(c, k))
          /\ IF Len(Queue("m2s")) = 1 THEN Handed(c, k) ELSE k = 0

WriteSoFar(c) ==
  /\ Opening(c) => Opened(c)
  /\ Copied(c) => HoldsOwn(c)
  /\ Sending(c) => SentSoFar(c)

WriteProgress == \A c \in Files : Undisturbed(c) /\ file[c].dir = "m2s" => WriteSoFar(c)

(* The words of the streams, around a step of the DMA m2s. *)
LEMMA HandedGrows ==
  ASSUME WordsTyped, NEW w \in Word, fifo' = Append(fifo, w), sink' = sink,
         NEW id \in Nat, NEW k \in Nat
  PROVE  /\ w = Marker => After(sink' \o fifo', id, 0)
         /\ w = <<id, k + 1>> /\ After(sink \o fifo, id, k) => After(sink' \o fifo', id, k + 1)
<1>1. sink \in Seq(Word) /\ fifo \in Seq(Word)
  BY DEF WordsTyped
<1>2. sink' \o fifo' = Append(sink \o fifo, w) /\ sink \o fifo \in Seq(Word)
  BY <1>1, Streamed
<1> DEFINE s == sink \o fifo
<1> HIDE DEF s
<1>3. w = Marker => After(Append(s, w), id, 0)
  BY <1>2, MarkerAfter DEF s
<1>4. w = <<id, k + 1>> /\ After(s, id, k) => After(Append(s, w), id, k + 1)
  BY <1>2, WordAfter DEF s
<1> QED
  BY <1>2, <1>3, <1>4 DEF s

LEMMA HandedStays ==
  ASSUME WordsTyped, SinkTakes, NEW id, NEW k \in Nat, After(sink \o fifo, id, k)
  PROVE  After(sink' \o fifo', id, k)
<1>1. sink \in Seq(Word) /\ fifo \in Seq(Word)
  BY DEF WordsTyped
<1>2. /\ fifo # <<>> /\ fifo' = Tail(fifo)
      /\ sink' = IF Head(fifo) = Marker THEN <<>> ELSE Append(sink, Head(fifo))
  BY DEF SinkTakes
<1> QED
  BY <1>1, <1>2, TakenAfter

(* A queue of one, or of more. *)
LEMMA OnlyOne ==
  ASSUME NEW q \in Seq(DescriptorType), q # <<>>
  PROVE  /\ Len(q) \in Nat /\ Len(q) >= 1 /\ (Len(q) # 1 => Len(q) > 1)
         /\ Len(q) = 1 => q = <<q[1]>>
<1>1. Len(q) \in Nat /\ Len(q) >= 1
  <2>1. Len(q) \in Nat \ {0}
    BY EmptySeq
  <2> QED
    BY <2>1
<1>2. Len(q) = 1 => q = <<q[1]>>
  OBVIOUS
<1>3. \A n \in Nat : n >= 1 /\ n # 1 => n > 1
  OBVIOUS
<1> QED
  BY <1>1, <1>2, <1>3, Zenon

(* A word is read for a write that is alone. *)
LEMMA WriteMoves ==
  ASSUME IInv, WordsTyped, Orderly, NEW c \in Files, file[c].dir = "m2s", ReadWord, WriteSoFar(c)
  PROVE  WriteSoFar(c)'
<1>1. /\ dma \in [Dmas -> DmaType] /\ file \in [Files -> FileType] /\ "m2s" \in Dmas
      /\ file[c].id \in Nat /\ wrbuf \in [Slots -> Word] /\ Marker \in Word
  BY DEF IInv, Typed, Dmas, FileType, FileFields, WordsTyped, Word, Marker
<1>2. file' = file /\ wrbuf' = wrbuf /\ sink' = sink
  BY DEF ReadWord, buffers
<1>3. /\ Words(c)' = Words(c) /\ SeesEmpty(c)' = SeesEmpty(c) /\ file'[c].id = file[c].id
      /\ \A k : Data(c, k)' = Data(c, k)
      /\ Opening(c)' = Opening(c) /\ Copied(c)' = Copied(c) /\ Sending(c)' = Sending(c)
  BY <1>2 DEF Words, Data, SeesEmpty, Opening, Copied, Sending
<1> DEFINE q == Queue("m2s")
           h == q[1]
           r == Queue("m2s")'
           w == IF h.mark THEN Marker ELSE wrbuf[h.at]
<1>4. /\ q \in Seq(DescriptorType) /\ q # <<>> /\ h.left > 0
      /\ h.left > 1 => r = [q EXCEPT ![1] = [h EXCEPT !.left = @ - 1, !.at = @ + 1]]
      /\ ~(h.left > 1) => r = Tail(q)
  BY <1>1, MovedQueue DEF ReadWord
<1>5. fifo' = Append(fifo, w)
  <2>1. Head(dma["m2s"].queue) = h
    BY <1>1, <1>4 DEF Queue
  <2> QED
    BY <2>1, Zenon DEF ReadWord
<1>6. h.mark => h = MarkDescriptor /\ ~(h.left > 1)
  <2>1. MarksWhole(q)
    BY DEF Orderly, MarksAreWhole
  <2>2. 1 \in 1 .. Len(q) /\ h \in DescriptorType
    BY <1>4
  <2>3. h.mark => h = MarkDescriptor
    <3> HIDE DEF q
    <3> QED
      BY <2>1, <2>2 DEF MarksWhole
  <2>4. MarkDescriptor.left <= 1 /\ MarkDescriptor.left \in Nat
    BY MarkResult DEF DescriptorType, DescriptorFields
  <2> HIDE DEF h
  <2> QED
    BY <2>3, <2>4
<1>7. h.mark => r = Tail(q) /\ Handed(c, 0)'
  <2>1. h.mark => w = Marker
    OBVIOUS
  <2>2. h.mark => r = Tail(q)
    BY <1>4, <1>6
  <2> HIDE DEF w, h, q, r
  <2>3. ASSUME h.mark PROVE Handed(c, 0)'
    <3>1. fifo' = Append(fifo, Marker)
      BY <1>5, <2>1, <2>3
    <3>2. After(sink' \o fifo', file[c].id, 0)
      BY <1>1, <1>2, <3>1, HandedGrows
    <3> QED
      BY <1>3, <3>2 DEF Handed
  <2> QED
    BY <2>2, <2>3
<1> HIDE DEF h, r, w
<1>8. Opening(c)' => Opened(c)'
  <2>1. SUFFICES ASSUME Opening(c) PROVE Opened(c)'
    BY <1>3
  <2>2. ~HasData(q)
    BY <2>1 DEF WriteSoFar, Opened
  <2>3. h.mark
    <3>1. 1 \in 1 .. Len(q)
      BY <1>4
    <3> QED
      BY <2>2, <3>1 DEF HasData, h
  <2>4. r = Tail(q) /\ Handed(c, 0)'
    BY <1>7, <2>3
  <2>5. ~HasData(r)
    <3> HIDE DEF q
    <3>1. Len(Tail(q)) = Len(q) - 1 /\ \A i \in 1 .. Len(q) - 1 : Tail(q)[i] = q[i + 1]
      BY <1>4
    <3>2. \A i \in 1 .. Len(q) - 1 : i + 1 \in 1 .. Len(q)
      BY <1>4
    <3> QED
      BY <2>2, <2>4, <3>1, <3>2 DEF HasData
  <2> QED
    BY <2>4, <2>5 DEF Opened, r
<1>9. Copied(c)' => HoldsOwn(c)'
  BY <1>2, <1>3 DEF WriteSoFar, HoldsOwn
<1>10. Sending(c)' => SentSoFar(c)'
  <2>1. SUFFICES ASSUME Sending(c) PROVE SentSoFar(c)'
    BY <1>3
  <2>2. ~SeesEmpty(c)
    BY <1>4, <2>1 DEF WriteSoFar, SentSoFar
  <2>3. PICK k \in 0 .. Words(c) : /\ LastIs(q, Data(c, k))
                                   /\ IF Len(q) = 1 THEN Handed(c, k) ELSE k = 0
    BY <1>4, <2>1 DEF WriteSoFar, SentSoFar
  <2>4. CASE Len(q) = 1
    <3>1. h = Data(c, k) /\ q = <<h>>
      BY <1>4, <2>3, <2>4, OnlyOne DEF LastIs, h
    <3>2. ~h.mark /\ h.at = k + 1
      BY <3>1 DEF Data
    <3>3. Data(c, k).left > 0
      BY <1>4, <3>1
    <3>4. /\ k \in Nat /\ k + 1 \in 1 .. Words(c) /\ k + 1 \in Slots
          /\ [Data(c, k) EXCEPT !.left = @ - 1, !.at = @ + 1] = Data(c, k + 1)
          /\ ~(Data(c, k).left > 1) => k + 1 = Words(c)
      BY <1>1, <3>3, DataMoved
    <3>5. w = <<file[c].id, k + 1>>
      <4>1. HoldsOwn(c)
        BY <2>1 DEF WriteSoFar, Sending, Copied
      <4> QED
        BY <3>2, <3>4, <4>1 DEF HoldsOwn, w
    <3>6. Handed(c, k + 1)'
      <4>1. w \in Word
        BY <1>1, <3>4, <3>5 DEF Word
      <4>2. After(sink \o fifo, file[c].id, k)
        BY <2>3, <2>4 DEF Handed
      <4>3. After(sink' \o fifo', file[c].id, k + 1)
        BY <1>1, <1>2, <1>5, <3>4, <3>5, <4>1, <4>2, HandedGrows
      <4> QED
        BY <1>3, <4>3 DEF Handed
    <3> DEFINE d == Data(c, k)
               e == Data(c, k + 1)
    <3>7. d.left > 1 => r = [q EXCEPT ![1] = e]
      BY <1>4, <3>1, <3>4, Zenon
    <3>8. ~(d.left > 1) => r = Tail(q) /\ k + 1 = Words(c)
      BY <1>4, <3>1, <3>4, Zenon
    <3>9. q = <<d>>
      BY <3>1
    <3> HIDE DEF d, e, q
    <3>10. /\ d.left > 1 => r = <<e>>
           /\ ~(d.left > 1) => r = <<>>
      BY <3>7, <3>8, <3>9, Single
    <3>11. CASE d.left > 1
      <4>1. r = <<e>>
        BY <3>10, <3>11
      <4>2. r # <<>> /\ Len(r) = 1 /\ r[1] = e
        BY <4>1, Single
      <4> HIDE DEF r
      <4>3. LastIs(r, e)
        BY <4>2 DEF LastIs
      <4>4. k + 1 \in 0 .. Words(c)
        BY <3>4
      <4> QED
        BY <1>3, <2>2, <3>6, <4>2, <4>3, <4>4 DEF SentSoFar, r, e
    <3>12. CASE ~(d.left > 1)
      BY <1>3, <3>6, <3>8, <3>10, <3>12 DEF SentSoFar, r
    <3> QED
      BY <3>11, <3>12
  <2>5. CASE Len(q) # 1
    <3>1. k = 0 /\ Len(q) \in Nat /\ Len(q) > 1
      <4>1. q \in Seq(DescriptorType) /\ q # <<>> /\ Len(q) # 1
        BY <1>4, <2>5
      <4>2. k = 0
        BY <2>3, <2>5
      <4> HIDE DEF q
      <4> QED
        BY <4>1, <4>2, OnlyOne
    <3>2. h.mark
      BY <2>3, <3>1 DEF LastIs, h
    <3>3. r = Tail(q) /\ Handed(c, 0)'
      BY <1>7, <3>2
    <3>4. LastIs(r, Data(c, 0))
      <4> HIDE DEF q
      <4>1. Len(r) = Len(q) - 1 /\ \A i \in 1 .. Len(q) - 1 : r[i] = q[i + 1]
        <5>1. q \in Seq(DescriptorType) /\ q # <<>> /\ r = Tail(q)
          BY <1>4, <3>3, Zenon
        <5> QED
          BY <5>1
      <4>2. r # <<>> /\ r[Len(r)] = q[Len(q)]
        <5>1. Len(q) - 1 \in 1 .. Len(q) - 1 /\ (Len(q) - 1) + 1 = Len(q)
          BY <3>1
        <5>2. Len(<<>>) = 0
          OBVIOUS
        <5> QED
          BY <3>1, <4>1, <5>1, <5>2
      <4>3. \A i \in 1 .. Len(r) - 1 : r[i].mark
        <5>1. \A i \in 1 .. Len(r) - 1 : i \in 1 .. Len(q) - 1 /\ i + 1 \in 1 .. Len(q) - 1
          BY <3>1, <4>1
        <5> QED
          BY <2>3, <4>1, <5>1 DEF LastIs
      <4> QED
        BY <2>3, <3>1, <4>2, <4>3 DEF LastIs
    <3> QED
      BY <1>3, <2>2, <2>3, <3>1, <3>3, <3>4 DEF SentSoFar, r
  <2> QED
    BY <2>4, <2>5
<1> QED
  BY <1>8, <1>9, <1>10 DEF WriteSoFar

(* The data of a write joins the markers in the queue. *)
LEMMA DataPushed ==
  ASSUME NEW q \in Seq(DescriptorType), ~HasData(q), NEW desc \in DescriptorType
  PROVE  /\ LastIs(Append(q, desc), desc)
         /\ Len(Append(q, desc)) = 1 => q = <<>>
<1> DEFINE r == Append(q, desc)
<1>1. /\ Len(q) \in Nat /\ Len(r) = Len(q) + 1 /\ r[Len(q) + 1] = desc
      /\ \A i \in 1 .. Len(q) : r[i] = q[i]
  OBVIOUS
<1> HIDE DEF r
<1>2. r # <<>>
  <2>1. Len(<<>>) = 0
    OBVIOUS
  <2> QED
    BY <1>1, <2>1
<1>3. Len(r) = 1 => q = <<>>
  <2>1. q # <<>> => Len(q) >= 1
    BY OnlyOne, Zenon
  <2>2. Len(q) >= 1 => Len(r) # 1
    BY <1>1
  <2> QED
    BY <2>1, <2>2, Zenon
<1>4. \A i \in 1 .. Len(r) - 1 : i \in 1 .. Len(q)
  BY <1>1
<1>5. \A i \in 1 .. Len(r) - 1 : r[i].mark
  BY <1>1, <1>4 DEF HasData
<1>6. LastIs(r, desc)
  BY <1>1, <1>2, <1>5 DEF LastIs
<1> QED
  BY <1>3, <1>6 DEF r

(* A write that is alone goes on as it began. *)
LEMMA WriteGoesOn ==
  ASSUME ~MayUnbind, IInv, WordsTyped, Orderly, [Next]_vars, NEW c \in Files,
         file[c].dir = "m2s", InCall(c), InCall(c)', file'[c].alone, Align(file[c].len) < Span, WriteSoFar(c)
  PROVE  WriteSoFar(c)'
<1>1. /\ dma \in [Dmas -> DmaType] /\ file \in [Files -> FileType]
      /\ "m2s" \in Dmas /\ Dma(c) = "m2s" /\ wrbuf \in [Slots -> Word]
  BY DEF IInv, Typed, Dmas, Dma, WordsTyped
<1>2. Kept(c)
  BY SameCall
<1>3. /\ Words(c)' = Words(c) /\ file'[c].id = file[c].id /\ file'[c].len = file[c].len
      /\ \A k : Data(c, k)' = Data(c, k)
  BY <1>2 DEF Kept, Words, Data
<1>4. Words(c) \in Nat /\ \A i \in 1 .. Words(c) : i \in Slots
  BY <1>1, WordsResult
<1>5. ASSUME Queue("m2s")' = Queue("m2s"), wrbuf' = wrbuf,
             \A k \in Nat : Handed(c, k) => Handed(c, k)',
             Opening(c)' => Opening(c), Copied(c)' => Copied(c), Sending(c)' => Sending(c),
             SeesEmpty(c)' => SeesEmpty(c) \/ Queue("m2s") = <<>>
      PROVE  WriteSoFar(c)'
  <2>1. Opening(c)' => Opened(c)'
    BY <1>5 DEF WriteSoFar, Opened
  <2>2. Copied(c)' => HoldsOwn(c)'
    BY <1>3, <1>5 DEF WriteSoFar, HoldsOwn
  <2>3. ASSUME Sending(c)' PROVE SentSoFar(c)'
    <3>1. SentSoFar(c)
      BY <1>5, <2>3 DEF WriteSoFar
    <3>2. CASE Queue("m2s") = <<>> /\ Handed(c, Words(c))
      BY <1>3, <1>4, <1>5, <3>2 DEF SentSoFar
    <3>3. ASSUME ~SeesEmpty(c), NEW k \in 0 .. Words(c), LastIs(Queue("m2s"), Data(c, k)),
                 IF Len(Queue("m2s")) = 1 THEN Handed(c, k) ELSE k = 0
          PROVE  SentSoFar(c)'
      <4>1. k \in Nat
        BY <1>4
      <4>2. ~SeesEmpty(c)'
        BY <1>5, <3>3 DEF LastIs
      <4>3. LastIs(Queue("m2s")', Data(c, k)')
        BY <1>3, <1>5, <3>3
      <4>4. IF Len(Queue("m2s")') = 1 THEN Handed(c, k)' ELSE k = 0
        BY <1>5, <3>3, <4>1
      <4>5. k \in 0 .. Words(c)'
        BY <1>3
      <4> QED
        BY <4>2, <4>3, <4>4, <4>5 DEF SentSoFar
    <3> QED
      BY <3>1, <3>2, <3>3 DEF SentSoFar
  <2> QED
    BY <2>1, <2>2, <2>3 DEF WriteSoFar
<1>6. ASSUME Untouched("m2s"),
             Opening(c)' => Opening(c), Copied(c)' => Copied(c), Sending(c)' => Sending(c),
             SeesEmpty(c)' => SeesEmpty(c) \/ Queue("m2s") = <<>>
      PROVE  WriteSoFar(c)'
  <2>1. Queue("m2s")' = Queue("m2s") /\ wrbuf' = wrbuf
    BY <1>6 DEF Untouched
  <2>2. \A k \in Nat : Handed(c, k) => Handed(c, k)'
    BY <1>3, <1>6 DEF Untouched, Handed
  <2> QED
    BY <1>5, <1>6, <2>1, <2>2
<1>7. CASE CallSteps(c)
  <2>1. CASE file[c].pc = "copy"
    <3>1. Copy(c) /\ file'[c].pc = "push"
      BY <1>7, <2>1 DEF CallSteps, Leaves, Steps, InCall
    <3>2. HoldsOwn(c)'
      <4>1. wrbuf' = [i \in Slots |-> IF i <= Words(c) THEN <<file[c].id, i>> ELSE wrbuf[i]]
        BY <3>1 DEF Copy, Words
      <4>2. \A i \in 1 .. Words(c) : wrbuf'[i] = <<file[c].id, i>>
        BY <1>4, <4>1
      <4> QED
        BY <1>3, <4>2 DEF HoldsOwn
    <3>3. Opened(c)'
      <4>1. Opened(c)
        BY <2>1 DEF WriteSoFar, Opening
      <4>2. Queue("m2s")' = Queue("m2s") /\ UNCHANGED <<fifo, sink>>
        BY <3>1 DEF Copy, Queue, streams
      <4> QED
        BY <1>3, <4>1, <4>2 DEF Opened, Handed
    <3>4. ~Sending(c)'
      BY <3>1 DEF Sending
    <3> QED
      BY <3>2, <3>3, <3>4 DEF WriteSoFar
  <2>2. CASE file[c].pc = "push"
    <3>1. Push(c) /\ file'[c].pc = "log"
      BY <1>7, <2>2 DEF CallSteps, Leaves, Steps, InCall
    <3> DEFINE desc == Descriptor(Align(file[c].len), FALSE, TRUE)
               q == Queue("m2s")
               r == Queue("m2s")'
    <3>2. dma' = Pushed("m2s", desc) /\ UNCHANGED <<buffers, streams>>
      BY <3>1 DEF Push
    <3>3. file[c].len \in Sizes
      BY <1>1 DEF FileType, FileFields
    <3>4. desc = Data(c, 0)
      BY <3>3, DataResult, Zenon DEF Data, Words
    <3>5. desc \in DescriptorType
      BY <3>3, AlignedDescriptor
    <3> HIDE DEF desc
    <3>6. r = Append(q, desc) /\ q \in Seq(DescriptorType)
      BY <1>1, <3>2, <3>5, PushedQueue DEF Queue, DmaType
    <3>7. Opened(c) 
      BY <2>2 DEF WriteSoFar, Opening
    <3>8. LastIs(r, desc) /\ (Len(r) = 1 => Handed(c, 0))
      <4>1. ~HasData(q) /\ (q = <<>> => Handed(c, 0))
        BY <3>7 DEF Opened
      <4> HIDE DEF q, r
      <4> QED
        BY <3>5, <3>6, <4>1, DataPushed
    <3>9. Handed(c, 0) => Handed(c, 0)'
      BY <1>3, <3>2 DEF streams, Handed
    <3>10. SentSoFar(c)'
      <4>1. ~SeesEmpty(c)'
        BY <3>1 DEF SeesEmpty
      <4>2. LastIs(Queue("m2s")', Data(c, 0)')
        BY <1>3, <3>4, <3>8
      <4>3. IF Len(Queue("m2s")') = 1 THEN Handed(c, 0)' ELSE 0 = 0
        BY <3>8, <3>9
      <4>4. 0 \in 0 .. Words(c)'
        BY <1>3, <1>4
      <4> HIDE DEF r, q
      <4> QED
        BY <4>1, <4>2, <4>3, <4>4 DEF SentSoFar
    <3>11. HoldsOwn(c)'
      <4>1. HoldsOwn(c)
        BY <2>2 DEF WriteSoFar, Copied
      <4> QED
        BY <1>3, <3>2, <4>1 DEF HoldsOwn, buffers
    <3>12. ~Opening(c)'
      BY <3>1 DEF Opening
    <3> QED
      BY <3>10, <3>11, <3>12 DEF WriteSoFar
  <2>3. CASE file[c].pc \notin {"copy", "push"}
    <3>1. OnlyFile
      BY <1>7, <2>3 DEF CallSteps, Leaves, InCall
    <3>2. Untouched("m2s")
      BY <3>1 DEF OnlyFile, Untouched, Queue, buffers, streams
    <3>3. /\ Opening(c)' => Opening(c)
          /\ Copied(c)' => Copied(c)
          /\ Sending(c)' => Sending(c)
      BY <1>7, <2>3 DEF CallSteps, Leaves, Steps, InCall, Opening, Copied, Sending
    <3>4. SeesEmpty(c)' => SeesEmpty(c) \/ Queue("m2s") = <<>>
      BY <1>1, <1>7, <2>3 DEF CallSteps, Leaves, Steps, InCall, SeesEmpty, Busy, Queue
    <3> QED
      BY <1>6, <3>2, <3>3, <3>4
  <2> QED
    BY <2>1, <2>2, <2>3
<1>8. ASSUME file'[c].pc = file[c].pc, file'[c].status = file[c].status
      PROVE  /\ Opening(c)' => Opening(c)
             /\ Copied(c)' => Copied(c)
             /\ Sending(c)' => Sending(c)
             /\ SeesEmpty(c)' => SeesEmpty(c)
  BY <1>8 DEF Opening, Copied, Sending, SeesEmpty
<1>9. ASSUME file'[c].pc = file[c].pc, file'[c].status = file[c].status, Untouched("m2s")
      PROVE  WriteSoFar(c)'
  BY <1>6, <1>8, <1>9
<1>10. ASSUME file'[c].pc = file[c].pc, file'[c].status = file[c].status, Transfer
       PROVE  WriteSoFar(c)'
  <2>1. CASE ReadWord
    BY <2>1, WriteMoves
  <2>2. CASE SinkTakes
    <3>1. Queue("m2s")' = Queue("m2s") /\ wrbuf' = wrbuf
      BY <2>2 DEF SinkTakes, Queue, buffers
    <3>2. \A k \in Nat : Handed(c, k) => Handed(c, k)'
      BY <1>3, <2>2, HandedStays DEF Handed
    <3> QED
      BY <1>5, <1>8, <1>10, <3>1, <3>2
  <2>3. CASE SourceSends
    BY <1>9, <1>10, <2>3 DEF SourceSends, Untouched, Queue, buffers
  <2>4. CASE WriteWord
    <3>1. Queue("m2s")' = Queue("m2s")
      <4>1. Moving("s2m") /\ dma' = Moved("s2m") /\ "s2m" # "m2s" /\ "s2m" \in Dmas
        BY <2>4 DEF WriteWord, Dmas
      <4> QED
        BY <1>1, <4>1, MovedQueue
    <3>2. UNCHANGED <<fifo, sink, wrbuf>>
      BY <2>4 DEF WriteWord
    <3>3. Untouched("m2s")
      BY <3>1, <3>2 DEF Untouched
    <3> QED
      BY <1>9, <1>10, <3>3
  <2> QED
    BY <1>10, <2>1, <2>2, <2>3, <2>4 DEF Transfer
<1> QED
  BY <1>1, <1>7, <1>9, <1>10, Around

(* A write that is alone finds but markers in the queue, and adds its own. *)
LEMMA WriteBegins ==
  ASSUME IInv, Orderly, [Next]_vars, NEW c \in Files, ~InCall(c), Undisturbed(c)',
         file'[c].dir = "m2s"
  PROVE  WriteSoFar(c)'
<1>1. dma \in [Dmas -> DmaType] /\ "m2s" \in Dmas
  BY DEF IInv, Typed, Dmas
<1>2. PICK n \in Lengths : WriteCall(c, n) /\ Enters(c, "m2s", "sof", Least({n, BufSize}))
  <2>1. ASSUME NEW n, Enters(c, "s2m", "log", n) PROVE FALSE
    BY <2>1 DEF Enters
  <2>2. InCall(c)'
    BY DEF Undisturbed
  <2> QED
    BY <2>1, <2>2, CallBegins
<1>3. /\ file'[c].pc = "sof" /\ \A o \in Files \ {c} : ~Sharing(o, "m2s")
  BY <1>2 DEF Enters, Undisturbed
<1> DEFINE q == Queue("m2s")
           r == Queue("m2s")'
<1>4. ~HasData(q)
  <2>1. \A o \in Files : ~(Sharing(o, "m2s") /\ Waiting(o))
    BY <1>3 DEF Sharing
  <2> QED
    BY <1>1, <2>1, NothingLeft
<1>5. r = Append(q, MarkDescriptor) /\ q \in Seq(DescriptorType)
  <2>1. dma' = Pushed("m2s", MarkDescriptor)
    BY <1>2 DEF WriteCall, MarkDescriptor
  <2> QED
    BY <1>1, <2>1, MarkResult, PushedQueue DEF Queue, DmaType
<1> HIDE DEF q, r
<1>6. ~HasData(r) /\ r # <<>>
  <2>1. MarkDescriptor \in DescriptorType /\ MarkDescriptor.mark
    BY MarkResult
  <2> HIDE DEF MarkDescriptor
  <2>2. /\ Len(r) = Len(q) + 1 /\ Len(q) \in Nat /\ r[Len(q) + 1] = MarkDescriptor
        /\ \A i \in 1 .. Len(q) : r[i] = q[i]
    BY <1>5, <2>1
  <2>3. \A i \in 1 .. Len(r) : i \in 1 .. Len(q) \/ i = Len(q) + 1
    BY <2>2
  <2>4. Len(<<>>) = 0
    OBVIOUS
  <2>5. r # <<>>
    BY <2>2, <2>4
  <2>6. ~HasData(r)
    BY <1>4, <2>1, <2>2, <2>3 DEF HasData
  <2> QED
    BY <2>5, <2>6
<1>7. Opened(c)'
  BY <1>6 DEF Opened, r
<1>8. ~Copied(c)' /\ ~Sending(c)'
  BY <1>3 DEF Copied, Sending
<1> QED
  BY <1>7, <1>8 DEF WriteSoFar

(* The writes that are alone. *)
LEMMA WriteInductive ==
  ASSUME ~MayUnbind, IInv, WordsTyped, Orderly, WriteProgress, [Next]_vars
  PROVE  WriteProgress'
<1> SUFFICES ASSUME NEW c \in Files, Undisturbed(c)', file'[c].dir = "m2s"
             PROVE  WriteSoFar(c)'
  BY DEF WriteProgress
<1>1. InCall(c)' /\ file'[c].alone /\ Align(file'[c].len) < Span
  BY DEF Undisturbed
<1>2. CASE InCall(c)
  <2>1. Kept(c) /\ file[c].alone
    BY <1>1, <1>2, SameCall
  <2>2. file[c].dir = "m2s" /\ Undisturbed(c) /\ Align(file[c].len) < Span
    BY <1>1, <1>2, <2>1 DEF Kept, Undisturbed
  <2>3. WriteSoFar(c)
    BY <2>2 DEF WriteProgress
  <2> QED
    BY <1>1, <1>2, <2>2, <2>3, WriteGoesOn
<1>3. CASE ~InCall(c)
  BY <1>3, WriteBegins
<1> QED
  BY <1>2, <1>3

-----------------------------------------------------------------------------
CallsInv == IInv /\ WordsTyped /\ Orderly /\ ReadProgress /\ WriteProgress

LEMMA CallsInvariance ==
  ASSUME ~MayUnbind
  PROVE  Spec => []CallsInv
<1>1. Init => CallsInv
  <2>1. Init => ReadProgress /\ WriteProgress
    BY DEF Init, Closed, ReadProgress, WriteProgress, Undisturbed, InCall
  <2> QED
    BY <2>1, Initially, InitiallyTyped, InitiallyOrderly DEF CallsInv
<1>2. CallsInv /\ [Next]_vars => CallsInv'
  BY Inductive, WordsInductive, OrderlyInductive, ReadInductive, WriteInductive DEF CallsInv
<1> QED
  BY <1>1, <1>2, PTL DEF Spec

(* A read that returns data returns the next words of the stream: none that an
   earlier read left in the buffer or in the DMA, if the read was alone, its
   length one the DMA can count, and the device not unbound meanwhile.     *)
THEOREM ReadsAreOfTheirTime ==
  ASSUME ~MayUnbind
  PROVE  Spec => []ReadIsOfItsTime
<1>1. CallsInv => ReadIsOfItsTime
  <2> SUFFICES ASSUME CallsInv, NEW c \in Files, file[c].pc = "ok", file[c].dir = "s2m",
                      file[c].alone, Align(file[c].len) < Span, NEW i \in 1 .. Words(c)
               PROVE  rdbuf[i] = file[c].from + i
    BY DEF ReadIsOfItsTime
  <2>1. Undisturbed(c) /\ SeesEmpty(c)
    BY DEF Undisturbed, InCall, SeesEmpty
  <2>2. HasRead(c, Words(c))
    BY <2>1 DEF CallsInv, ReadProgress, ReadSoFar
  <2> QED
    BY <2>2 DEF HasRead
<1> QED
  BY <1>1, CallsInvariance, PTL

(* A write that returns its length has handed its own words over at the DMA's
   stream output, all of them, in order and right behind a marker, if it was
   alone, its length one the DMA can count, and the device not unbound
   meanwhile.                                                              *)
THEOREM WritesAreDelivered ==
  ASSUME ~MayUnbind
  PROVE  Spec => []WriteIsDelivered
<1>1. CallsInv => WriteIsDelivered
  <2> SUFFICES ASSUME CallsInv, NEW c \in Files, file[c].pc = "ok", file[c].dir = "m2s",
                      file[c].alone, Align(file[c].len) < Span
               PROVE  SinceMarker(sink \o fifo) = [i \in 1 .. Words(c) |-> <<file[c].id, i>>]
    BY DEF WriteIsDelivered
  <2>1. Undisturbed(c) /\ SeesEmpty(c) /\ Sending(c)
    BY DEF Undisturbed, InCall, SeesEmpty, Sending
  <2>2. After(sink \o fifo, file[c].id, Words(c))
    BY <2>1 DEF CallsInv, WriteProgress, WriteSoFar, SentSoFar, Handed
  <2>3. sink \o fifo \in Seq(Word)
    <3>1. sink \in Seq(Word) /\ fifo \in Seq(Word)
      BY DEF CallsInv, WordsTyped
    <3> QED
      BY <3>1, Streamed
  <2>4. file[c].id \in Nat /\ Words(c) \in Nat
    <3>1. file \in [Files -> FileType]
      BY DEF CallsInv, IInv, Typed
    <3> QED
      BY <3>1, WordsResult DEF FileType, FileFields
  <2> QED
    BY <2>2, <2>3, <2>4, SinceMarkerResult
<1> QED
  BY <1>1, CallsInvariance, PTL
=============================================================================

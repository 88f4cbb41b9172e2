--------------------------- MODULE ReadbackSession ---------------------------
(***************************************************************************)
(* software/driver/uio/neurax_uio_test_conv.c against the hardware of      *)
(* ControlPlane: load the RAM image through the memory-to-stream DMA, run  *)
(* a convolution, and read the RAM back chunk by chunk, each chunk a       *)
(* packet of the data interface paired with a descriptor of the            *)
(* stream-to-memory DMA.  The program may be run again after it ends; the  *)
(* hardware is never reset in between.  The memory belongs to the kernel   *)
(* module neurax_uio.c, which may come and go between two runs.            *)
(*                                                                         *)
(* The marker that is to make an image start at address 0 is lost on its   *)
(* way from the DMA to the sink, so every image follows the one before.    *)
(*                                                                         *)
(* Every register access falls on a clock edge; any number of edges passes *)
(* between two of them.  A deadline may pass at any poll that has not yet  *)
(* seen what it waits for.                                                 *)
(***************************************************************************)
EXTENDS ControlPlane

CONSTANTS
  RamWords,      (* FPGA_RAM_WORDS, the words to read back ...             *)
  ChunkWords,    (* ... and how many fit one descriptor.                   *)
  ImageChunks,   (* Descriptors of the image to load, a beat of it each.   *)
  M2sDepth,      (* Beats the memory-to-stream DMA holds, ...              *)
  S2mDepth,      (* ... and words the stream-to-memory DMA holds.          *)
  Hold,          (* Edges for which START is held (usleep_ms(1)).          *)
  MayBeKilled    (* The program may be killed at any point.                *)

ASSUME ReadbackAssumption ==
  /\ RamWords \in 1 .. Size - 1
  /\ ChunkWords \in 1 .. MaxLength
  /\ Hold \in Nat /\ MayBeKilled \in BOOLEAN
  /\ {ImageChunks, M2sDepth, S2mDepth} \subseteq Nat \ {0}

VARIABLES
  m2s,       (* Memory-to-stream DMA: the beats it still has to deliver.   *)
  s2m,       (* Stream-to-memory DMA: words its descriptor still wants,    *)
             (* words it holds, BUSY, which outlasts the last write, and   *)
             (* whether the memory of the descriptor has been freed.       *)
  pc,        (* Where the program is; "unloaded" is "ended" without the    *)
             (* kernel module.                                             *)
  sent,      (* Descriptors of the image pushed.                           *)
  slept,     (* Edges since START was set, up to Hold.                     *)
  word,      (* start_word: the next word to read back.                    *)
  drained,   (* s2m was not busy when poll_readback_complete read it.      *)
  passed,    (* The run that ended last passed; during a run, the one      *)
             (* before it.                                                 *)
  earlier    (* History: words the sink had taken when the run began.      *)

programVars  == <<pc, sent, slept, word, drained, passed, earlier>>
readbackVars == <<controlVars, m2s, s2m, programVars>>

NoBeats == <<>>
NoWords == [left |-> 0, held |-> 0, busy |-> FALSE, freed |-> FALSE]

-----------------------------------------------------------------------------
(* One edge with the access bus.  The convolution outlasts the START pulse of a
   program that runs; the DMAs run on.  The memory-to-stream DMA is busy until
   what is left fits its FIFO, whether or not the sink takes it; between it
   and the sink an adapter takes the beats of channel 1, when the sink is
   open, and shows the sink none of them; the stream-to-memory DMA takes
   words with and without a descriptor, but not the first of a packet while
   it holds some and has no descriptor, and writes them to memory when it
   has one; after its last write BUSY falls some time later.               *)
Offered ==
  IF m2s # NoBeats /\ Head(m2s) = "data" THEN [valid : {TRUE}, channel : {0}, data : Word]
  ELSE {[valid |-> FALSE]}

M2sBusy == Len(m2s) > M2sDepth

(* What is left of the beats after an edge. *)
M2sRest == IF sink_ready /\ m2s # NoBeats THEN Tail(m2s) ELSE m2s

M2sRuns == m2s' = M2sRest

S2mEdge(ready, freed) ==
  \E writes \in 0 .. 1, b \in {s2m.busy, s2m.left > 0} :
    /\ writes <= s2m.left /\ writes <= s2m.held
    /\ s2m' = [left |-> s2m.left - writes, busy |-> b,
                held |-> s2m.held - writes + (IF rd_state = "SEND" /\ ready THEN 1 ELSE 0),
                freed |-> freed /\ s2m.left > writes]

S2mRuns(ready) == S2mEdge(ready, s2m.freed)

(* The DMA, free from its descriptor, is given one of n words. *)
S2mArmed(n) == [s2m EXCEPT !.left = n, !.busy = TRUE]

Hardware(bus, ready) ==
  /\ ready => s2m.held < S2mDepth /\ ~(rd_first /\ s2m.held > 0 /\ ~s2m.busy)
  /\ \E unit_done \in (IF pc = "clear" THEN {FALSE} ELSE BOOLEAN), asi \in Offered :
       Edge(bus, unit_done, asi, ready, [wren |-> FALSE])

Access(bus) ==
  /\ \E ready \in BOOLEAN : Hardware(bus, ready) /\ S2mRuns(ready)
  /\ M2sRuns

Running == pc \notin {"ended", "unloaded"}

Goto(from, to) == pc = from /\ pc' = to
Fail(from) == Goto(from, "ended") /\ passed' = FALSE

-----------------------------------------------------------------------------
Sleep ==
  /\ Access(NoWrite)
  /\ slept' = IF pc = "clear" /\ slept < Hold THEN slept + 1 ELSE slept
  /\ UNCHANGED <<pc, sent, word, drained, passed, earlier>>

(* neurax_uio_remove frees the buffers, and leaves the DMAs alone; the module
   cannot go while a program has its device open.                          *)
Remove ==
  /\ Goto("ended", "unloaded")
  /\ \E ready \in BOOLEAN : Hardware(NoWrite, ready) /\ S2mEdge(ready, TRUE)
  /\ M2sRuns
  /\ UNCHANGED <<sent, slept, word, drained, passed, earlier>>

(* neurax_uio_probe: new buffers, and both DMAs reset if their registers can be
   mapped.  It may fail before that, or after it.                          *)
Probe ==
  /\ Goto("unloaded", "ended") \/ Goto("unloaded", "unloaded")
  /\ \/ Hardware(NoWrite, FALSE) /\ m2s' = NoBeats /\ s2m' = NoWords
     \/ Access(NoWrite)
  /\ UNCHANGED <<sent, slept, word, drained, passed, earlier>>

(* Bound: room for the words and the commands of one more run. *)
Chunks == (RamWords + ChunkWords - 1) \div ChunkWords
Room ==
  /\ Len(stream') + ImageChunks <= MaxWords
  /\ opStarts < MaxStarts /\ dataStarts + Chunks <= MaxStarts

(* Fault: the DMAs are left as the program before left them. *)
BeginAsFound ==
  /\ Goto("ended", "disable")
  /\ Access(NoWrite)
  /\ Room
  /\ sent' = 0 /\ slept' = 0 /\ word' = 0 /\ drained' = FALSE /\ earlier' = Len(stream')
  /\ UNCHANGED passed

(* neurax_uio_init resets both DMAs, and what they hold. *)
Begin ==
  /\ Goto("ended", "disable")
  /\ Hardware(NoWrite, FALSE)
  /\ Room
  /\ m2s' = NoBeats /\ s2m' = NoWords
  /\ sent' = 0 /\ slept' = 0 /\ word' = 0 /\ drained' = FALSE /\ earlier' = Len(stream')
  /\ UNCHANGED passed

(* A register write that only moves the program on. *)
Step(from, to, bus) ==
  /\ Goto(from, to)
  /\ Access(bus)
  /\ UNCHANGED <<sent, slept, word, drained, passed, earlier>>

Disable == Step("disable", "enable", Write("CMD", ClearedRegisters.CMD))
Enable  == Step("enable", "sof", Write("CMD", [ClearedRegisters.CMD EXCEPT !.enable = TRUE]))

(* neurax_dma_write: the marker of msgdma_send_sof and then the image, chunk
   by chunk, each a descriptor pushed and polled until the DMA is not busy. *)
Push(from, to, beat) ==
  /\ Goto(from, to)
  /\ \E ready \in BOOLEAN : Hardware(NoWrite, ready) /\ S2mRuns(ready)
  /\ m2s' = Append(M2sRest, beat)
  /\ sent' = IF beat = "data" THEN sent + 1 ELSE sent
  /\ UNCHANGED <<slept, word, drained, passed, earlier>>

PushSof   == Push("sof", "sofwait", "mark")
SofDone   == ~M2sBusy /\ Step("sofwait", "image", NoWrite)
PushImage == sent < ImageChunks /\ Push("image", "imagewait", "data")

(* Fault: the last chunk is forgotten. *)
ImageDoneEarly == sent >= ImageChunks - 1 /\ Step("image", "start", NoWrite)

ChunkDone == ~M2sBusy /\ Step("imagewait", "image", NoWrite)
ImageDone == sent = ImageChunks /\ Step("image", "start", NoWrite)

(* Fault: the write polls have no deadline. *)
NeverTimesOut == FALSE

(* The write poll resets its DMA, and its caller then resets the other. *)
WriteTimesOut ==
  /\ m2s # NoBeats
  /\ Fail("sofwait") \/ Fail("imagewait")
  /\ Hardware(NoWrite, FALSE)
  /\ m2s' = NoBeats /\ s2m' = NoWords
  /\ UNCHANGED <<sent, slept, word, drained, earlier>>

(* run_image_convolution: START, a sleep, START cleared; DONE must be gone and
   then come back.                                                         *)
Conv(start) == [enable |-> TRUE, op |-> 0, start |-> start]

(* Fault: the program does not wait for DONE. *)
ConvDoneUnchecked == Step("conv", "chunk", NoWrite)

SetStart   == Step("start", "clear", Write("CMD", Conv(TRUE)))
ClearStart == slept = Hold /\ Step("clear", "check", Write("CMD", Conv(FALSE)))
Accepted   == ~reg.STATUS.done /\ Step("check", "conv", NoWrite)
ConvDone   == reg.STATUS.done /\ Step("conv", "chunk", NoWrite)

ConvFails ==
  /\ \/ reg.STATUS.done /\ Fail("check")
     \/ ~reg.STATUS.done /\ Fail("conv")
  /\ Access(NoWrite)
  /\ UNCHANGED <<sent, slept, word, drained, earlier>>

(* readback_ram_chunk: the command, the descriptor, which has to be seen
   armed, START, BUSY.                                                     *)
(* Fault: the last chunk is as long as the others. *)
word_count_full == ChunkWords

word_count == IF RamWords - word < ChunkWords THEN RamWords - word ELSE ChunkWords

ClearDataSc == word < RamWords
               /\ Step("chunk", "command", Write("DATA_SC", ClearedRegisters.DATA_SC))
SetDataRead == Step("command", "arm", Write("DATA_READ", [addr |-> word, length |-> word_count]))

ArmS2m ==
  /\ Goto("arm", "armed")
  /\ Hardware(NoWrite, FALSE)
  /\ s2m' = S2mArmed(word_count)
  /\ M2sRuns
  /\ UNCHANGED <<sent, slept, word, drained, passed, earlier>>

Armed     == s2m.busy /\ Step("armed", "go", NoWrite)
StartData == Step("go", "begun", Write("DATA_SC", [start |-> TRUE, busy |-> FALSE, done |-> FALSE]))
Begun     == reg.DATA_SC.busy /\ Step("begun", "drain", NoWrite)

ReadbackFails ==
  /\ \/ ~s2m.busy /\ Fail("armed")
     \/ ~reg.DATA_SC.busy /\ Fail("begun")
     \/ ~(drained /\ ~reg.DATA_SC.busy) /\ Fail("drain2")
  /\ Access(NoWrite)
  /\ UNCHANGED <<sent, slept, word, drained, earlier>>

(* poll_readback_complete reads the DMA's status and then the FPGA's. *)
ReadCsr ==
  /\ Goto("drain", "drain2")
  /\ drained' = ~s2m.busy
  /\ Access(NoWrite)
  /\ UNCHANGED <<sent, slept, word, passed, earlier>>

(* Fault: only the FPGA's side is asked whether the chunk is complete. *)
ReadDataScOnly ==
  /\ IF ~reg.DATA_SC.busy
       THEN Goto("drain2", "chunk") /\ word' = word + word_count
       ELSE Goto("drain2", "drain") /\ word' = word
  /\ Access(NoWrite)
  /\ UNCHANGED <<sent, slept, drained, passed, earlier>>

ReadDataSc ==
  /\ IF drained /\ ~reg.DATA_SC.busy
       THEN Goto("drain2", "chunk") /\ word' = word + word_count
       ELSE Goto("drain2", "drain") /\ word' = word
  /\ Access(NoWrite)
  /\ UNCHANGED <<sent, slept, drained, passed, earlier>>

Pass ==
  /\ word = RamWords
  /\ Goto("chunk", "ended") /\ passed' = TRUE
  /\ Access(NoWrite)
  /\ UNCHANGED <<sent, slept, word, drained, earlier>>

Killed ==
  /\ MayBeKilled /\ Running
  /\ Fail(pc)
  /\ Access(NoWrite)
  /\ UNCHANGED <<sent, slept, word, drained, earlier>>

ReadbackInit ==
  /\ ControlInit
  /\ m2s = NoBeats /\ s2m = NoWords
  /\ pc = "ended" /\ sent = 0 /\ slept = 0 /\ word = 0 /\ drained = FALSE /\ passed = TRUE
  /\ earlier = 0

Program ==
  \/ Disable \/ Enable
  \/ PushSof \/ SofDone \/ PushImage \/ ChunkDone \/ ImageDone \/ WriteTimesOut
  \/ SetStart \/ ClearStart \/ Accepted \/ ConvDone \/ ConvFails
  \/ ClearDataSc \/ SetDataRead \/ ArmS2m \/ Armed \/ StartData \/ Begun
  \/ ReadCsr \/ ReadDataSc \/ ReadbackFails \/ Pass

ReadbackNext == Begin \/ Program \/ Killed \/ Sleep \/ Remove \/ Probe

ReadbackSpec == ReadbackInit /\ [][ReadbackNext]_readbackVars

(* The clock runs, the program is scheduled, the deadline of a poll that is
   repeated for ever passes, the unit ends its operation, and the DMA takes
   the words it is offered, writes them and ends its transfer.             *)
ReadbackFairSpec ==
  /\ ReadbackSpec
  /\ WF_readbackVars(Sleep)
  /\ WF_readbackVars(Begin) /\ WF_readbackVars(Program)
  /\ SF_readbackVars(ReadbackFails)
  /\ WF_readbackVars(ReadbackNext /\ done_latch' # done_latch)
  /\ WF_readbackVars(ReadbackNext /\ packet' # packet)
  /\ WF_readbackVars(ReadbackNext /\ s2m'.left < s2m.left)
  /\ WF_readbackVars(ReadbackNext /\ s2m.busy /\ ~s2m'.busy)

-----------------------------------------------------------------------------
(* Type invariant. *)
ReadbackTypeOK ==
  /\ ControlTypeOK
  /\ m2s \in Seq({"mark", "data"}) /\ Len(m2s) <= M2sDepth + 1
  /\ s2m \in [left : 0 .. ChunkWords, held : 0 .. S2mDepth, busy : BOOLEAN, freed : BOOLEAN]
  /\ sent \in 0 .. ImageChunks
  /\ slept \in 0 .. Hold
  /\ word \in 0 .. RamWords
  /\ {drained, passed} \subseteq BOOLEAN
  /\ earlier \in Nat

(* "Wait for accelerator writes to finish before starting RAM readback": no
   word is read out while an operation runs, in this run of the program or
   left over from another.                                                 *)
ReadbackIsOfResults == rd_state # "IDLE" => current_state \notin Ops

(* An operation runs on a whole image, right behind the images of the runs
   before: the DMA is not busy long before the sink has taken everything, and
   what it still holds must be in the RAM when the operation starts.  This is
   claimed of a run after one that passed, which leaves nothing in flight.  *)
ImageIsLoaded ==
  current_state \in Ops /\ passed => m2s = NoBeats /\ Len(stream) = earlier + ImageChunks

(* When the program moves past a chunk the packet has reached memory whole: the
   words of the chunk and no others, both ends are idle, and none is held
   back.  A run that ends early may leave a packet behind that the DMA takes
   without a descriptor, so this too is claimed after one that passed.     *)
ChunkIsComplete ==
  pc = "chunk" /\ word > 0 /\ passed =>
    /\ rd_state = "IDLE" /\ s2m = NoWords
    /\ Len(packet) = cmd_length
    /\ cmd_start_addr + cmd_length = word
    /\ packets = dataStarts

(* No word arrives in memory the kernel has taken back while a program runs,
   though one that was killed may leave a transfer behind, and the module be
   removed and loaded again under it.                                      *)
TransferHasItsBuffer == Running => ~s2m.freed

(* Each run ends, whichever deadlines pass.                                *)
ProgramEnds == pc = "disable" ~> pc = "ended"

(* The marker is sent before the image because the data interface "resets
   write_index and clears buffer_full" on it, "to guarantee the FPGA side is
   ready": when its descriptor is reported done and the image may follow, the
   sink is open and, with nothing left on the way, stores from address 0.  *)
SofMeansReady ==
  pc = "image" /\ sent = 0 => sink_ready /\ (m2s = NoBeats => wr_ptr = 0)
=============================================================================

# Neurax, verified

A TLA+ development for the Neurax CNN accelerator: a DE1-SoC design in which a
processor (HPS) streams tensors into a RAM in the FPGA, an accelerator computes
on that RAM, and the processor streams the results back.  Hardware is modelled
one rising clock edge per step; software one register access per step, each of
which falls on a clock edge of the same hardware model.

## The system

| Part | Source | State | Operations | Interacts with |
|---|---|---|---|---|
| Data interface | `neurax_data_interface.vhd` | RAM, write pointer, read state machine and latched command | sink beat, start-of-frame marker, read command, packet word, reset | DMAs (Avalon-ST), registers (command, BUSY, DONE), accelerator (RAM port B) |
| Register block | `neurax_register_block.vhd`, `neurax_register_pkg.vhd` | 16 registers | Avalon read and write, status copy-in, self-clearing START | processor, top level, data interface |
| Top-level control | `FPGA_accelerator.vhd`, `neurax.vhd` | state machine, DONE latch, operand sequencer, pool/act read pipelines | launch, finish; fetch input, weight, bias | registers, the three units, RAM port B |
| Convolution block | `convolution_block.vhd` | seven counters, accumulator, product and bias registers | multiply-accumulate, write output | sequencer, RAM port B |
| Pooling block | `pooling_block.vhd` | counters, window accumulator | accumulate, write output | read pipeline, RAM port B |
| Activation block | `activation_block.vhd` | three-stage pipeline, counters | feed, drain, write output | read pipeline, RAM port B |
| Support library | `software/bsp/neurax_bsp.c` | none but the registers | reset, start, wait, configure, deinit | registers |
| UIO programs | `software/driver/uio/neurax_uio_test_conv.c` and two earlier ones | program counter, DMA descriptors | load, convolve, read back in chunks | registers, both DMAs |
| UIO kernel module | `software/driver/uio/neurax_uio.c` | DMA buffers | probe, remove | UIO programs |
| Character device driver | `software/driver/dma/msgdma.c` | one buffer per direction, in-progress flags | open, read, write, interrupt, probe, remove | both DMAs, concurrent callers |

What is hard in it: two masters on one RAM port and two ports on one RAM;
look-ahead reads against stalls; status that lags by a clock, seen by polling
software; levels meant as pulses; time-outs that leave the hardware running;
programs that end, crash and restart over hardware that does not.  The
`hazards` of PROJECT.json place each of these in the source.

What makes each part correct, in a sentence:

- data interface: a packet is the commanded words, as stored, framed and
  finished; a streamed word is stored behind the one before it;
- registers and control: a start command launches one packet, DONE and BUSY
  never mislead;
- convolution: every result is the sum of exactly its products and its bias,
  and nothing else is written;
- library and programs: what they report about the hardware is true, and they
  return.

## Modules

**DataInterface** models `neurax_data_interface.vhd`.  A step is a clock edge
with arbitrary inputs: a sink beat (`Beat`), a read command (`Command`), a
write on port B (`PortB`), and whether downstream is ready (`Send` or `Stall`).
One action per state of the read machine; `Sink` is the write side, which runs
in parallel; `RamEdge` is the dual-port altsyncram with its unregistered port A
output (the output after an edge is the word at the address registered on it)
and its undefined read-during-write between ports.  `stream`, `packet`,
`foreign` and `clash` are history, read only by properties.

**PacketBuffer** is what the data interface promises, without clock, ports or
look-ahead: a store filled from address 0 that delivers commanded regions word
by word.  The accelerator may store results at any time, and a word it writes
just as it is to be sent may come out as anything (`torn`).
**DataInterfaceMapping** holds the refinement mapping.

**ControlPlane** extends DataInterface with the register block and the
top-level state machine, wired as in `neurax.vhd`: `Edge` is one clock edge of
all three.  `CopiedIn` and `RegisterEdge` keep the order of the VHDL process
(status in, START self-clear, then the processor's write).  The compute units
are represented by the pulse that says they are done.  `ControlNext` lets a
master write any of the control registers on any clock; `Count` and `Bounded`
count commands, and stop operations from being launched again without end.

**BspSession** runs `neurax_bsp.c` on ControlPlane.  Its caller calls
`neurax_reset`, `neurax_enable`, `neurax_start` followed by `neurax_wait_done`,
and `neurax_bsp_deinit` in any order.  A sleep is at least `Hold` clocks, and
any number more.  An operation may end on any clock, while START is still held
too: then it is launched again (`FPGA_accelerator.vhd:425`).  The poll loop is
the code's: after a read that finds no DONE the program sleeps (`NotDone`), and
then polls again or gives up, though DONE may have come meanwhile.

**Configuration** extends BspSession with the calls that configure the units
and the registers they write.  A call that writes two registers is two actions,
between which clocks pass.  `Wires` is what arrives at the units on every clock:
what the register block makes of the registers (`limit_range`, the kinds of
pooling and activation) and, of the channels, what fits the ports of the
accelerator.  Those are built for four (`neurax.vhd:374`), three bits, while
`limit_range` lets 16 through and `neurax_bsp.h:139-147` allows them.  `Asked` is what the caller asked for, as far as a field can hold it, and is
defined without `limit_range`.  `given` and `ran` are history: the arguments of
the last calls, and whether the operation since `neurax_start` has seen on every
clock what was asked for.

**ReadbackSession** runs `neurax_uio_test_conv.c` on ControlPlane with both
DMAs: marker, image in several descriptors, START, DONE, and the chunked
readback.  The DMAs follow `read_master.v` and `write_master.v`: the
memory-to-stream DMA is done when all words are in its FIFO, not when the sink
has them; the stream-to-memory DMA takes words of the stream with and without a
descriptor; a reset drops what either holds.  Between the memory-to-stream DMA
and the sink is the channel adapter of the generated system (`Offered`), in
which the marker is lost.  Between runs the kernel module
`neurax_uio.c` may be removed, which frees the buffer a transfer left behind
still goes to, and probed again, which resets the DMAs if it can map them.

**Convolution** models `convolution_block.vhd` with the sequencer and the
multiplexer of `FPGA_accelerator.vhd` and the two-clock read latency of RAM
port B.  Data is symbolic: a loaded word is known by its address, a result by
the sequence of products summed and the bias.  The numeric function applied to
these (shift by eight, add the bias, saturate) is the same for every result.

**StreamingUnits** models `pooling_block.vhd` and `activation_block.vhd` with
their read pipelines, the top-level state machine that starts them and the one
address of RAM port B, a clock edge per step.  A pooled word is the sequence of
words that went into its accumulator, an activation its argument.

**MsgdmaDriver** models `software/driver/dma/msgdma.c`: `probe` step by step
with a failure after each, the interrupt handler, `open`, `release`, `read` and
`write` as threads that interleave at every register access, and `remove`.  A
deadline may pass at any poll.  The two DMAs read and write memory a word at a
time while the threads run, and count a length modulo `Span`.  What
memory-to-stream sends is followed to its stream output; the adapter behind it
is in ReadbackSession.  `MayUnbind` says whether sysfs may unbind the device
under an open file, as `msgdma.h:170-177` allows; the runs and theorems have it
FALSE, since removal then is by `rmmod`, which waits for the files.  With TRUE,
TLC finds `BuffersOutliveDma` violated: a write on a file left open pushes a
descriptor on the freed buffer.

Definitions named as a *Fault* in a comment are altered versions of the
definition that follows them; no action uses them.  They document which
mistake each property detects (`mutants` in PROJECT.json).

## What the board showed

Two observations in the repository bear on how an image reaches the RAM.

*The marker is lost.*  Programs and driver send a beat of channel 1 before each
image, on which `neurax_data_interface.vhd:264` sets `wr_ptr` to 0.  In the
generated system in `hardware/quartus/qsys` it does not get there: the sink is
declared with `maxChannel 0` (`neurax_avalon_accelerator_hw.tcl:177`), so Qsys
put a channel adapter before it (`soc_system.vhd:1093-1124`), which accepts a
beat of a higher channel and shows the sink none
(`soc_system_avalon_st_adapter_001_channel_adapter_0.sv:81-95`).  Only the
hardware reset clears `wr_ptr`; every image is stored behind whatever was
streamed before.  ReadbackSession models this, `readback_sof` shows it, and
`ImageIsLoaded` is stated accordingly: the image is whole, behind the earlier
ones.  DataInterface and ControlPlane keep the marker as an input of the VHDL
entity, which does handle it.

*A word further on.*  `neurax_uio_test_conv.c` sends every word of its image one
position early (lines 551-554 and 584-586: "one-word shift compensate for the
currently observed board behavior"), leaves RAM[0] out as "a known independent
first-word issue" (line 696), and expects to read each word one address after
the position it was sent at.  `StreamIsStored` says that the k-th beat of data
the sink accepts after its reset is stored at address k.  The two do not
contradict each other, as one is about the beats at the ports of the entity and
the other about descriptors of a program, but a beat that nothing in the
committed sources accounts for must come first for both to be true.  One
possible cause is a DMA built without channels: `read_master.v:659` then sends
the marker on channel 0, and the sink stores its word as the first of the image.
The committed `soc_system.qsys` and `soc_system_DMA_neurax_read.v` have
`CHANNEL_ENABLE` 1, so whether the board ran such a build cannot be told from
the repository.  No property here claims that a program finds its words at the
addresses it intended; what is shown is the path from the sink's ports into the
RAM and back out.

## Runs

| Run | Shows | Bounds |
|---|---|---|
| `data_interface` | storing, offering, addressing and framing, and the refinement of PacketBuffer, with resets and accelerator writes on any clock | 3 words of RAM, 2 values, 4 streamed words (the pointer wraps), packets up to 2 words (they wrap) |
| `control_plane` | START of DATA_SC is a pulse; DATA_SC has no gap; DONE and BUSY exclude each other; packets finish | any write of CMD, STATUS, DATA_SC, DATA_READ on any clock; two start commands of each kind, packets up to 2 words |
| `bsp_session` | a wait returns, and reports the operation of its own start, which ran with the settings made before it, also when START outlasts the operation | three operations launched, of two kinds, sleeps of two clocks or more, time-outs at any poll; one set of arguments per call next to the zeros of reset: in range, too large, zero, negative, wider than the field |
| `readback` | the operation runs on a whole image, chunks are complete and of results, no word goes to freed memory while a program runs, and the program ends | RAM of 5 words, 4 read back in chunks of 3 and 1, image in two descriptors, DMAs that hold one word, three images in a row (they wrap around the RAM), killed at any point, the kernel module removed and loaded between them |
| `convolution` | results, operands and addresses, termination | 3 by 2 plane; kernel 1-2, stride 1-2, padding 0-1, channels 1-2, batch 1-2: all 64 settings, some of which do not fit the regions |
| `streaming_units` | what pooling and activation write and where, that the tables are filled, termination | 3 by 2 plane; window 1-2, stride 1-2, channels 1-2, batch 1-2; tensors of 1 to 8 elements around the three stages; tables of 3; one operation after another, reset on any clock |
| `msgdma_driver` | calls deliver their own words, buffers outlive the DMAs, the interrupt finds its queue, every call returns | two files, two calls; words of 2 bytes, descriptors that count to 8; calls of 3 bytes (padded) and of 20 (cut to the buffer, a length the DMA takes for zero), three streamed words, any probe step failing, any number of rebinds |
| `bsp_reset` | *violated*: "Not busy after reset" | as `bsp_session`, operations 0 to 2 |
| `start_once` | *violated*: START "is edge-detected in HW" | as `bsp_reset` |
| `readback_sof` | *violated*: the marker resets the write index, and "the FPGA side is ready" | as `readback`, two images, no program killed |
| `streaming_units_inputs` | *violated*: the pipelines use a "1 cycle read latency" | as `streaming_units` |
| `msgdma_whole` | *violated*: "Push single descriptor for entire transfer" | as `msgdma_driver`, calls of 3 and of 10 bytes (two more than a descriptor counts) |

The bounds are where behaviour stops being new: three words of RAM are the
fewest in which a packet can wrap and still leave a word out; two data values
distinguish a right word from a wrong one (no operation compares words, and
they are interchangeable, hence the symmetry); two images, rows, columns,
channels and taps make every counter both advance and carry.  `MaxWords`,
`MaxLength`, `MaxStarts`, `MaxCalls` and `MaxStreamed` bound what would
otherwise count without end (`MaxStarts` the commands of each kind, and the
operations, after which none is launched again); all are named constants.  Where a bound stops the inputs the
hardware still runs, so no run disables the deadlock check.

Conditions under which properties are stated, each because the code does not
give more:

- `WaitDoneIsCurrent`: the accelerator was idle when `neurax_start` was called.
  The other case arises after a time-out, a reset in the middle of an operation
  (the finding of `bsp_reset`), or a START that launched an operation again (the
  finding of `start_once`), and there the library does report the old operation.
- `OperationHasItsSettings`: the same, the wait of its operation succeeded, and
  it is about the operation `neurax_start` launched.  After a time-out the
  caller may configure while the operation runs, and one launched again may run
  on into the next settings; nothing in the hardware keeps them apart.  Of
  channel settings above four it says nothing, since their ports cannot hold
  them.
- `ResultIsConvolution`, `OperandsAreKept`, `PooledWindowsAreWhole`,
  `OutsideResultIsKept`: tensors the RAM regions have room for (`Fits`); the
  registers allow others, for which the addresses wrap and operands or other
  regions are overwritten.  Nothing in the code checks the sizes.
- `PooledWindowsAreWhole`: more than one sample to read.  The pooling block
  leaves its loop at the last position without asking whether a sample is
  there; with a single sample it would leave before the first arrives, which
  takes a plane of one pixel.
- `OutsideResultIsKept` says nothing of the words inside the result: the
  address of an activation is a count of clocks, and which element it belongs
  to is the finding of `streaming_units_inputs`.  An activation of three
  elements leaves a valid stage behind that the next operation writes.
- `StreamIsStored`, `OfferedWordIsStored`, `OfferIsHeld`: but for a word that
  the accelerator writes on the clock on which port A accesses it, whose value
  the RAM leaves undefined (`clash`).  `ImplementsPacketBuffer` says how far
  that goes: the next word out, or the word just stored, and no other.
- `ImageIsLoaded`, `ChunkIsComplete`: the run before passed.  A program killed
  during a readback leaves the source in SEND, and the DMA, without a
  descriptor, still takes its words: the next run may read them as its own.
- `WriteIsDelivered`, `ReadIsOfItsTime`: no other call in the same direction
  meanwhile, and a length the DMA can count.  The driver enforces neither: two
  writers share one buffer without a lock (`msgdma.c:100`, "TODO : protect
  single openness").  Under both conditions the properties hold across
  time-outs, calls that fail and rebinding of the driver.  What is delivered is
  what leaves the DMA, the marker included; the adapter behind it takes that.
- All of `msgdma_driver`: a file open keeps the device bound (`MayUnbind`
  FALSE), and `msgdma_reset` ends: its loop on RESETTING has no deadline, and
  hangs if the hardware does.

A packet that is sent between two polls of BUSY is reported by
`neurax_uio_test_conv.c:443` as one that did not start; whether that happens
is a matter of speed, and the model contains it as a failed run.

## Fairness

Only what the hardware and the scheduler give: the clock runs (weak fairness of
the edges that advance a state machine), a compute unit ends its operation, an
armed DMA takes the words it is offered and eventually clears BUSY, and the
program is scheduled.  In BspSession all of it is weak: a poll reads STATUS, and
is repeated or given up, and DONE, once set, stays until an operation is
launched (`BspFairness`).  In ReadbackSession the deadline of a poll is strongly
fair: the poll alternates between two reads, and time passes whichever is next.
In MsgdmaDriver threads are scheduled and deadlines pass; neither stream need
ever move, so `CallsReturn` rests on the deadlines alone.  Nothing is assumed of
downstream readiness except in `PacketIsSent` (the DMA a packet is meant for
takes its words, `ControlFairSpec`) and of a killed program nothing at all.  A
reset may end anything, and the liveness properties say so.

## Proofs

**DataInterfaceProofs** proves, for every RAM size above one, every word set
and every bound, that DataInterface keeps `TypeOK`, `OfferedWordIsStored`,
`PacketAddresses` and `PacketFraming`, whatever sink, source, registers, reset
and port B do.  Assumed are only the named ASSUMEs of DataInterface.

None of the last three is inductive.  The inductive invariant `IInv` adds
`Position`: during a packet the length is not zero, `rd_ptr` is the address
after the last word delivered (or the start), words delivered and
`rd_remaining` add up to the commanded length, and `rd_first` holds exactly
before the first word.  With it each edge is one lemma: `SendStep` appends a
word whose address and framing `Position` determines; `QuietStep` covers the
edges that hand nothing over, where `RamEdgeResult` shows that port A's
output is again the word at `rd_ptr` unless port B wrote it.  The action
property `OfferIsHeld` follows: a stall reads the word again that is on offer.

Its second half proves `StreamIsStored`.  The strengthening is that `wr_ptr` counts the streamed words modulo the RAM size; what it takes is
arithmetic the solver has no rule for, a remainder by a constant of unknown
value, so `RemainderIs`, `IncCounts` and `Apart` first establish that addresses
of words less than a RAM size apart differ.

**DataInterfaceRefinementProofs** proves `Spec => ImplementsPacketBuffer`, with
no assumption on when the accelerator writes.  The extra invariant `NextWord`
says that port A reads ahead the word the abstract buffer sends next, and
`StepImplements` that each concrete edge is a delivery, a command, stored words, the
end of a packet, or a stutter.  Where both ports write on an edge, `TwoWrites`
shows that the abstract buffer may do as the RAM does.

**ControlPlaneProofs** proves `ControlTypeOK`, `DataStartIsPulse`,
`PacketIsVisible` and `DoneIsNotBusy` for any master.  `ControlInv` relates
the registers, which are a clock behind, to the state machines they report: a
START that is still set has not been looked at or is about to clear, BUSY is the
state of the clock before.  `DataInterfaceImplemented` shows that the control
plane is a data interface, so the theorems above hold in it.

**BspSessionProofs** proves `BspTypeOK` and `ConfigTypeOK` outright, and
`WaitDoneIsCurrent` and `OperationHasItsSettings` under one assumption: that
START is held more than one clock (`Hold > 1`; the code holds it ten
microseconds).  It is needed: with `Hold = 1` TLC finds a wait that reports the
operation before.  How long an operation takes is not assumed.  `SessionInv`
follows the clocks of a start: when START has reached the register, when an
operation was launched, when DONE of the one before is gone, and that an
operation launched again clears DONE of the first without being mistaken for it.
For `OperationHasItsSettings`, what the registers hold is what the calls
completed so far have asked for (`Held`), no call is half-way between a start
and its wait (`CallsBetween`), and `limit_range` yields the nearest value of its
range (`NearestResult`), which the channel ports keep if it is at most four; so
on every clock of the operation the wires carry what was asked for
(`WiresResult`).

**ReadbackSessionProofs** proves `ReadbackTypeOK`, `ReadbackIsOfResults`,
`TransferHasItsBuffer`, `ImageIsLoaded` and `ChunkIsComplete` under `M2sDepth <= ImageChunks`: the image is larger than
what the DMA's FIFO holds.  That is needed too: with a FIFO of three and an
image of two TLC finds a program that starts an operation while its image is
still in the FIFO, the sink closed by a packet left from a killed run.
The argument is that reading and computing exclude each other (`Exclusive`):
the program lowers START of CMD before it reads (`Lowered`), a packet in
progress was sent by a command that is still visible (`PacketIsTaken`), and
while a packet of a killed run lasts the sink takes no word of the new image, so
that the load cannot complete (`LoadingWaits`).

The last two properties follow a word through both DMAs, and rest on what a run
that passed leaves behind.  `Settled` holds of all runs: from the START of an
operation to the next START of DATA_SC the source rests (`Quiet`), BUSY, though a
clock late, is never missed (`Shown`), and no START is written to a busy source
(`EveryStart`).  So a run that passes ends with everything at rest (`Resting`),
even if the one before it failed.  From there `Beats` follows the image, each
beat of data stored the edge after its push (`EarlierCounted` says how many the
sink had taken before), and `Received` a chunk: what the descriptor
still wants and what the packet has sent add up to its length and what the DMA
holds.  When both ends are seen idle, the first has to be zero and the packet
whole (`Position` of the data interface), so nothing is held back.

**MsgdmaDriverProofs** proves all five safety invariants of the character
device driver, for any number of files, calls and lengths and any sizes of
buffer, descriptor and FIFO, given that the device is not unbound under an open
file (`~MayUnbind`, without which the first does not hold).  For `BuffersOutliveDma` and `InterruptFindsQueue`,
`IInv` adds the types of the descriptors and of the calls; that a file is open
only while the driver is bound, and a DMA busy only then or until removal resets
it (`OpenWhileBound`, `BusyWhileBound`); that both buffers are allocated all
that time (`BothAllocated`); and that no interrupt of an earlier binding is
pending when probe requests its own (`NoneLeft`).  `DriverTypeOK` needs a count
besides: descriptors in a queue and calls that have yet to push one are at most
two for each call made (`QueuesBounded`).

`ReadIsOfItsTime` and `WriteIsDelivered` speak of the moment a call returns, and
say nothing of the queues.  Two invariants connect them.  `Orderly` says whose
descriptors are in a queue: data has a call in that direction that still waits
for it (`DataIsAwaited`), because the deadline that gives a transfer up clears
the queue, so a call that is alone finds at most markers left by earlier ones;
the two time-outs, of the marker and of the data, are why markers may be left
and data may not.  `ReadSoFar` and `WriteSoFar` then say how far a call has come:
its descriptor has k words moved, and the k words are where they belong, in the
buffer or at the end of the stream behind the last marker (`After`); the call
sees an idle DMA only when all are.  `Around` is the argument that nothing else
intervenes: what other files, interrupts and the other DMA do leaves this
direction's queue, buffer and stream as they are.  That the length is one the
DMA can count is used once, where the descriptor is pushed (`DataResult`).

**ConvolutionProofs** proves all four invariants for every plane, RAM layout
and set of register values that `RegionAssumption` and `ConfigAssumption` allow.  `FetchInv` follows an operand
through the sequencer's four clocks: the address is on port B from the second,
the word at its output from the third, and what was sampled before stays the
operand asked for, since counters and RAM rest while the sequencer works.  That
a result stays in its region is `Digit`, applied to the three products of a
row-major address (`OutputAddress`).

`ResultIsConvolution` needs no arithmetic on the sums: a sum is a sequence of
products, and `SumSoFar` says which.  In the accumulator and the multiplier
together are the products of the taps behind the three inner counters
(`TapBefore`, `Gathered`), each once; a tap is known by the address of its weight
(`ProductsDiffer`), so the next product is a new one.  `BiasTaken` is the channel's
bias from the first tap on.  When the result is written the counters stand at the
last tap, and what is gathered is everything (`SumComplete`).  `ResultsSoFar` says
that the words of the positions behind the four outer counters are right; the
next word disturbs none of them, as no two positions share one (`ResultsApart`).
The tensors are the model's own definition, `RowMajor`, a recursive function of
any number of coordinates; for four, its value is exhibited (`RowMajorOfFour`),
which takes no induction.

**StreamingUnitsProofs** proves the four invariants of pooling and activation
for every plane, window, table and tensor that `SizeAssumption` and
`ConfigAssumption` allow, with a reset on any clock; `OutsideResultIsKept` and
`PooledWindowsAreWhole` say something only of tensors that fit their regions.  `TablesAreFilled` needs
that the two units are never out of IDLE together (`Control`) and that the
initialisation has written all entries below its counter (`Tables`).
`OutsideResultIsKept` rests on the types, on an address being a row-major number
of its region (`Digit`, `InResult`), and on the valid bits of the pipeline, which
may hold stages of an operation before.  `PooledWindowsAreWhole` is the hard
one, since the block leaves its loop at the last position without asking whether
a sample is there.  `Sampled` says that the window has exactly the samples of
the positions before, and `Fed` that a sample is valid on every clock from the
third; as `ConfigAssumption` gives every operation more than one sample, the
last position is reached on such a clock (`OverIsValid`).  `WholeSoFar` then
follows the positions in order: what is passed is written and whole, and what
is written is whole wherever its address falls.

Every invariant a passing run checks is thus a theorem too, and so are the
action property `OfferIsHeld` and the refinement.  Model-checked only are the
liveness properties: the prover handles neither fairness nor ENABLED.

## Plan

Done: the data interface with its refinement, the control plane with the
register block's settings, both programs that drive it, the three compute
units, and the character device driver, with proofs about each.  Left:

1. Pure functions: output dimensions, saturation, table indices of the
   activations, over bounded inputs.

## Not modelled

- Wiring and pin assignment (`de1_soc_top.vhd`), the unused `st.vhd`, the draft
  `neurax_data_interface_new.vhd` and the backup files: no behaviour of their
  own, or not built.
- The HPS boot code under `hps_isw_handoff` and `submodules/sequencer` (some
  28000 lines of C, most of the C in the repository): the vendor's DDR
  calibration, generated by Qsys, the same in every design for this chip.
- `software/driver/dma/original/`: the upstream Altera driver, kept for
  reference and built by no makefile.
- The Qsys output but for what the DMAs do, simulation scripts and test benches.
- Arithmetic on data words is symbolic.  In Convolution and StreamingUnits the
  settings are constant while an operation runs, which
  `OperationHasItsSettings` shows of a caller that waits.
- The kernel's part of `msgdma_probe` failing at an allocation: it calls
  `msgdma_remove`, which unregisters a device, class and cdev that were never
  registered (`msgdma.c:398-412`, 535-546).  The model keeps what that does to
  the buffers.
- The byte swap of words in the DMA, and the words of the image: what a program
  puts where is left out (see above).
- Writes of single bytes of a register: the register block takes them, no
  program makes them.

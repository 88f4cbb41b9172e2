----------------------- MODULE ReadbackSessionProofs -----------------------
(***************************************************************************)
(* The readback program against hardware that is never reset, for any RAM, *)
(* any chunking and any number of runs, killed wherever they may be: the   *)
(* RAM is never read out while an operation runs, the DMA has memory to    *)
(* write to whenever a program runs, and a run after one that passed has   *)
(* its image loaded and its chunks complete.  Assumed is that the image is *)
(* larger than what the memory-to-stream DMA holds; if it were not, a run  *)
(* could start an operation beside a packet that a killed run left behind. *)
(***************************************************************************)
EXTENDS ReadbackSession, ControlPlaneProofs

(* The program is past its operation. *)
Reading == {"chunk", "command", "arm", "armed", "go", "begun", "drain", "drain2"}

SessionTyped ==
  /\ m2s \in Seq({"mark", "data"}) /\ Len(m2s) <= M2sDepth + 1
  /\ s2m \in [left : 0 .. ChunkWords, held : 0 .. S2mDepth, busy : BOOLEAN, freed : BOOLEAN]
  /\ sent \in 0 .. ImageChunks
  /\ slept \in 0 .. Hold
  /\ word \in 0 .. RamWords
  /\ drained \in BOOLEAN /\ passed \in BOOLEAN

(* A packet and an operation exclude each other, those asked for included. *)
Exclusive ==
  reg.CMD.start \/ current_state \in Ops => rd_state = "IDLE" /\ ~reg.DATA_SC.start

(* START is down once the program has lowered it, and the DONE it then waits
   for is not stale.                                                       *)
Lowered ==
  /\ pc \in {"check", "conv"} \cup Reading => ~reg.CMD.start
  /\ pc = "conv" /\ reg.STATUS.done => done_latch
  /\ pc \in Reading => current_state \notin Ops

(* START of DATA_SC is taken by the data interface on the next edge. *)
PacketIsTaken ==
  /\ reg.DATA_SC.start => reg.DATA_READ.length > 0 /\ (pc = "begun" \/ rd_state = "PREFETCH")
  /\ pc = "command" => word < RamWords
  /\ pc \in {"arm", "armed", "go"} => reg.DATA_READ.length > 0

(* While a packet of an earlier run is under way the sink takes nothing, so
   the image cannot have been loaded.                                      *)
LoadingWaits ==
  /\ pc \in {"disable", "enable", "sof"} => m2s = NoBeats /\ sent = 0
  /\ pc \in {"sofwait", "image", "imagewait"} /\ rd_state # "IDLE" => Len(m2s) = sent + 1
  /\ pc = "image" => ~M2sBusy
  /\ pc = "start" => rd_state = "IDLE"

(* The inductive invariant. *)
ReadbackInv ==
  /\ ControlInv /\ SessionTyped
  /\ Exclusive /\ Lowered /\ PacketIsTaken /\ LoadingWaits
  /\ TransferHasItsBuffer

-----------------------------------------------------------------------------
(* A write leaves the read command alone unless it is one. *)
LEMMA ReadCommandResult ==
  ASSUME reg \in Registers, NEW bus \in AnyWrite \cup {NoWrite}, RegisterEdge(bus)
  PROVE  /\ Writes(bus, "DATA_READ") => reg'.DATA_READ = bus.value
         /\ ~Writes(bus, "DATA_READ") => reg'.DATA_READ = reg.DATA_READ
<1>1. /\ CopiedIn.DATA_READ = reg.DATA_READ
      /\ DOMAIN CopiedIn = {"CMD", "STATUS", "DATA_SC", "DATA_READ"}
  BY DEF CopiedIn, Registers
<1> HIDE DEF CopiedIn
<1>2. CASE bus.write /\ bus.register # "STATUS"
  BY <1>1, <1>2 DEF RegisterEdge, Writes
<1>3. CASE ~(bus.write /\ bus.register # "STATUS")
  BY <1>1, <1>3 DEF RegisterEdge, Writes
<1> QED
  BY <1>2, <1>3

(* What the memory-to-stream DMA offers is a beat. *)
LEMMA OfferedBeat == Offered \subseteq Beat
BY DEF Offered, Beat

(* One clock edge with a register access, as the program sees it. *)
LEMMA HardwareResult ==
  ASSUME ControlInv, NEW bus \in AnyWrite \cup {NoWrite}, NEW ready \in BOOLEAN,
         Hardware(bus, ready)
  PROVE  /\ ControlInv'
         /\ Writes(bus, "CMD") => reg'.CMD = bus.value
         /\ ~Writes(bus, "CMD") => reg'.CMD = reg.CMD
         /\ Writes(bus, "DATA_READ") => reg'.DATA_READ = bus.value
         /\ ~Writes(bus, "DATA_READ") => reg'.DATA_READ = reg.DATA_READ
         /\ Writes(bus, "DATA_SC") => reg'.DATA_SC = bus.value
         /\ ~Writes(bus, "DATA_SC") => reg'.DATA_SC.start = (reg.DATA_SC.start /\ rd_state = "IDLE")
         /\ reg'.STATUS.done = done_latch
         /\ ~reg.CMD.start /\ done_latch => done_latch'
         /\ current_state' \in Ops => reg.CMD.start \/ current_state \in Ops
         /\ rd_state = "IDLE" /\ rd_state' # "IDLE" => reg.DATA_SC.start
         /\ rd_state = "IDLE" /\ reg.DATA_SC.start /\ reg.DATA_READ.length > 0 => rd_state' = "PREFETCH"
         /\ ready => s2m.held < S2mDepth
<1> DEFINE b == [wren |-> FALSE]
<1>1. PICK unit_done \in (IF pc = "clear" THEN {FALSE} ELSE BOOLEAN), asi \in Offered :
        Edge(bus, unit_done, asi, ready, b)
  BY DEF Hardware
<1>2. unit_done \in BOOLEAN /\ asi \in Beat /\ b \in Results
  BY OfferedBeat DEF Results, PortB
<1>3. ControlTyped /\ reg \in Registers /\ done_latch \in BOOLEAN
  BY DEF ControlInv, ControlTyped
<1>4. ControlInv'
  BY <1>1, <1>2, EdgeStep
<1>5. RegisterEdge(bus) /\ TopEdge(unit_done) /\ DataEdge(asi, ready, b)
  BY <1>1 DEF Edge
<1>6. /\ ~reg.CMD.start /\ done_latch => done_latch'
      /\ current_state' \in Ops => reg.CMD.start \/ current_state \in Ops
  BY <1>3, <1>5 DEF TopEdge, Launches, topVars, Ops
<1>7. /\ rd_state = "IDLE" /\ rd_state' # "IDLE" => reg.DATA_SC.start
  BY <1>2, <1>3, <1>5, DataEdgeResult
<1>8. rd_state = "IDLE" /\ reg.DATA_SC.start /\ reg.DATA_READ.length > 0 => rd_state' = "PREFETCH"
  <2> SUFFICES ASSUME rd_state = "IDLE", reg.DATA_SC.start, reg.DATA_READ.length > 0
               PROVE  rd_state' = "PREFETCH"
    OBVIOUS
  <2> DEFINE c == [start |-> reg.DATA_SC.start, addr |-> reg.DATA_READ.addr,
                   length |-> reg.DATA_READ.length]
  <2>1. Idle(asi, c, b)
    BY <1>5 DEF DataEdge, Prefetch, Stall, Send, Flush
  <2>2. c.start /\ c.length # 0
    OBVIOUS
  <2> HIDE DEF c
  <2> QED
    BY <2>1, <2>2 DEF Idle
<1>9. ready => s2m.held < S2mDepth
  BY DEF Hardware
<1> QED
  BY <1>3, <1>4, <1>5, <1>6, <1>7, <1>8, <1>9, RegisterResult, ReadCommandResult

(* An edge without a write: what is asked for is kept or taken, and nothing new
   is asked for.                                                           *)
LEMMA QuietEdge ==
  ASSUME ReadbackInv, NEW ready \in BOOLEAN, Hardware(NoWrite, ready)
  PROVE  /\ ControlInv' /\ Exclusive'
         /\ reg'.CMD.start = reg.CMD.start /\ reg'.DATA_READ = reg.DATA_READ
         /\ reg'.DATA_SC.start => reg'.DATA_READ.length > 0 /\ rd_state' = "PREFETCH"
         /\ ~reg.CMD.start /\ reg'.STATUS.done => done_latch'
         /\ ~reg.CMD.start /\ current_state \notin Ops => current_state' \notin Ops
         /\ rd_state = "IDLE" /\ pc # "begun" => rd_state' = "IDLE"
<1>1. /\ ~Writes(NoWrite, "CMD") /\ ~Writes(NoWrite, "DATA_SC") /\ ~Writes(NoWrite, "DATA_READ")
      /\ NoWrite \in AnyWrite \cup {NoWrite}
  BY DEF Writes, NoWrite
<1>2. ControlInv /\ Exclusive /\ PacketIsTaken
  BY DEF ReadbackInv
<1>3. /\ ControlInv'
      /\ reg'.CMD = reg.CMD /\ reg'.DATA_READ = reg.DATA_READ
      /\ reg'.DATA_SC.start = (reg.DATA_SC.start /\ rd_state = "IDLE")
      /\ reg'.STATUS.done = done_latch
      /\ ~reg.CMD.start /\ done_latch => done_latch'
      /\ current_state' \in Ops => reg.CMD.start \/ current_state \in Ops
      /\ rd_state = "IDLE" /\ rd_state' # "IDLE" => reg.DATA_SC.start
      /\ rd_state = "IDLE" /\ reg.DATA_SC.start /\ reg.DATA_READ.length > 0
           => rd_state' = "PREFETCH"
  BY <1>1, <1>2, HardwareResult
<1>4. reg'.DATA_SC.start => reg.DATA_SC.start /\ rd_state = "IDLE"
  BY <1>3
<1>5. Exclusive'
  BY <1>2, <1>3, <1>4 DEF Exclusive
<1>6. reg'.DATA_SC.start => reg'.DATA_READ.length > 0 /\ rd_state' = "PREFETCH"
  BY <1>2, <1>3, <1>4 DEF PacketIsTaken
<1>7. rd_state = "IDLE" /\ pc # "begun" => rd_state' = "IDLE"
  BY <1>2, <1>3 DEF PacketIsTaken
<1> QED
  BY <1>3, <1>5, <1>6, <1>7

(* The stream-to-memory DMA keeps its type, and its memory. *)
LEMMA S2mResult ==
  ASSUME SessionTyped, NEW ready \in BOOLEAN, ready => s2m.held < S2mDepth,
         NEW freed \in BOOLEAN, S2mEdge(ready, freed)
  PROVE  /\ s2m' \in [left : 0 .. ChunkWords, held : 0 .. S2mDepth,
                      busy : BOOLEAN, freed : BOOLEAN]
         /\ ~freed => ~s2m'.freed
<1>1. PICK writes \in 0 .. 1, b \in {s2m.busy, s2m.left > 0} :
        /\ writes <= s2m.left /\ writes <= s2m.held
        /\ s2m' = [left |-> s2m.left - writes, busy |-> b,
                   held |-> s2m.held - writes + (IF rd_state = "SEND" /\ ready THEN 1 ELSE 0),
                   freed |-> freed /\ s2m.left > writes]
  BY DEF S2mEdge
<1>2. /\ s2m.left \in 0 .. ChunkWords /\ s2m.held \in 0 .. S2mDepth
      /\ s2m.busy \in BOOLEAN /\ ChunkWords \in Nat /\ S2mDepth \in Nat
  BY ReadbackAssumption, BoundAssumption, SizeAssumption DEF SessionTyped, Addr
<1> DEFINE l == s2m.left - writes
           h == s2m.held - writes + (IF rd_state = "SEND" /\ ready THEN 1 ELSE 0)
           f == freed /\ s2m.left > writes
<1>3. l \in 0 .. ChunkWords /\ h \in 0 .. S2mDepth /\ b \in BOOLEAN /\ f \in BOOLEAN
  <2>1. l \in 0 .. ChunkWords
    BY <1>1, <1>2
  <2>2. h \in 0 .. S2mDepth
    BY <1>1, <1>2
  <2>3. b \in BOOLEAN /\ f \in BOOLEAN
    <3>1. b = s2m.busy \/ b = (s2m.left > 0)
      BY Zenon
    <3>2. (s2m.left > 0) \in BOOLEAN
      OBVIOUS
    <3>3. f \in BOOLEAN
      OBVIOUS
    <3> QED
      BY <1>2, <3>1, <3>2, <3>3, Zenon
  <2> QED
    BY <2>1, <2>2, <2>3
<1>4. s2m' = [left |-> l, busy |-> b, held |-> h, freed |-> f]
  BY <1>1
<1>5. ~freed => ~f
  OBVIOUS
<1> HIDE DEF l, h, f
<1> QED
  BY <1>3, <1>4, <1>5, Zenon

(* The memory-to-stream DMA delivers a beat only while the sink is open. *)
LEMMA M2sResult ==
  ASSUME SessionTyped
  PROVE  /\ M2sRest \in Seq({"mark", "data"}) /\ Len(M2sRest) <= Len(m2s)
         /\ m2s = NoBeats => M2sRest = NoBeats
         /\ rd_state # "IDLE" => M2sRest = m2s
         /\ Len(m2s) \in Nat /\ Len(M2sRest) \in Nat
<1>1. m2s \in Seq({"mark", "data"}) /\ Len(m2s) \in Nat
  BY DEF SessionTyped
<1>2. CASE sink_ready /\ m2s # NoBeats
  <2>1. Tail(m2s) \in Seq({"mark", "data"}) /\ Len(Tail(m2s)) = Len(m2s) - 1 /\ Len(m2s) > 0
    BY <1>1, <1>2 DEF NoBeats
  <2> QED
    BY <1>1, <1>2, <2>1 DEF M2sRest, sink_ready
<1>3. CASE ~(sink_ready /\ m2s # NoBeats)
  BY <1>1, <1>3 DEF M2sRest
<1> QED
  BY <1>2, <1>3

-----------------------------------------------------------------------------
(* An edge on which the program and both DMAs go on as usual. *)
LEMMA AccessResult ==
  ASSUME ReadbackInv, NEW bus \in AnyWrite \cup {NoWrite}, Access(bus)
  PROVE  /\ \E ready \in BOOLEAN : Hardware(bus, ready)
         /\ m2s' = M2sRest
         /\ s2m' \in [left : 0 .. ChunkWords, held : 0 .. S2mDepth,
                      busy : BOOLEAN, freed : BOOLEAN]
         /\ ~s2m.freed => ~s2m'.freed
<1>1. PICK ready \in BOOLEAN : Hardware(bus, ready) /\ S2mRuns(ready)
  BY DEF Access
<1>2. SessionTyped /\ s2m.freed \in BOOLEAN
  BY DEF ReadbackInv, SessionTyped
<1>3. (ready => s2m.held < S2mDepth) /\ S2mEdge(ready, s2m.freed)
  BY <1>1 DEF Hardware, S2mRuns
<1> QED
  BY <1>1, <1>2, <1>3, S2mResult DEF Access, M2sRuns

(* The moves of the program on which it writes no register and leaves the DMAs
   to themselves, with what it has seen.                                   *)
QuietMove ==
  \/ pc' = pc /\ word' = word
  \/ pc' = "ended" /\ Running
  \/ pc \in {"sofwait", "imagewait"} /\ pc' = "image" /\ ~M2sBusy
  \/ pc = "image" /\ pc' = "start" /\ sent = ImageChunks
  \/ pc = "check" /\ pc' = "conv"
  \/ pc = "conv" /\ pc' = "chunk" /\ reg.STATUS.done
  \/ pc = "armed" /\ pc' = "go"
  \/ pc \in {"begun", "drain", "drain2"} /\ pc' \in {"chunk", "drain", "drain2"}

LEMMA ProgramStep ==
  ASSUME M2sDepth <= ImageChunks, ReadbackInv, Access(NoWrite), QuietMove,
         sent' = sent, slept' \in 0 .. Hold, word' \in 0 .. RamWords,
         drained' \in BOOLEAN, passed' \in BOOLEAN
  PROVE  ReadbackInv'
<1> DEFINE bus == NoWrite
<1>0. /\ \E ready \in BOOLEAN : Hardware(bus, ready)
      /\ m2s' = M2sRest
      /\ s2m' \in [left : 0 .. ChunkWords, held : 0 .. S2mDepth, busy : BOOLEAN, freed : BOOLEAN]
      /\ ~s2m.freed => ~s2m'.freed
  <2>1. bus \in AnyWrite \cup {NoWrite} /\ Access(bus)
    OBVIOUS
  <2> HIDE DEF bus
  <2> QED
    BY <2>1, AccessResult
<1>1. PICK ready \in BOOLEAN : Hardware(NoWrite, ready)
  BY <1>0
<1>2. /\ ControlInv' /\ Exclusive'
      /\ reg'.CMD.start = reg.CMD.start /\ reg'.DATA_READ = reg.DATA_READ
      /\ reg'.DATA_SC.start => reg'.DATA_READ.length > 0 /\ rd_state' = "PREFETCH"
      /\ ~reg.CMD.start /\ reg'.STATUS.done => done_latch'
      /\ ~reg.CMD.start /\ current_state \notin Ops => current_state' \notin Ops
      /\ rd_state = "IDLE" /\ pc # "begun" => rd_state' = "IDLE"
  BY <1>1, QuietEdge
<1>3. /\ m2s' \in Seq({"mark", "data"}) /\ Len(m2s') <= Len(m2s)
      /\ m2s = NoBeats => m2s' = NoBeats
      /\ rd_state # "IDLE" => m2s' = m2s
      /\ s2m' \in [left : 0 .. ChunkWords, held : 0 .. S2mDepth, busy : BOOLEAN, freed : BOOLEAN]
      /\ ~s2m.freed => ~s2m'.freed
      /\ Len(m2s) \in Nat /\ Len(m2s') \in Nat
  BY <1>0, M2sResult DEF ReadbackInv
<1>4. {M2sDepth, ImageChunks} \subseteq Nat
  BY ReadbackAssumption
<1>5. SessionTyped'
  BY <1>3, <1>4 DEF ReadbackInv, SessionTyped
<1>6. Lowered'
  <2>1. Lowered /\ DoneIsNotBusy
    BY DEF ReadbackInv, ControlInv
  <2> QED
    BY <1>2, <2>1 DEF Lowered, QuietMove, Reading, DoneIsNotBusy
<1>7. PacketIsTaken'
  <2>1. PacketIsTaken
    BY DEF ReadbackInv
  <2> QED
    BY <1>2, <2>1 DEF PacketIsTaken, QuietMove
<1>8. LoadingWaits'
  <2>1. LoadingWaits
    BY DEF ReadbackInv
  <2> QED
    BY <1>2, <1>3, <1>4, <2>1 DEF LoadingWaits, QuietMove, M2sBusy
<1>9. TransferHasItsBuffer'
  <2>1. TransferHasItsBuffer
    BY DEF ReadbackInv
  <2>2. Running' => Running
    BY DEF QuietMove, Running
  <2> QED
    BY <1>3, <2>1, <2>2 DEF TransferHasItsBuffer
<1> QED
  BY <1>2, <1>5, <1>6, <1>7, <1>8, <1>9 DEF ReadbackInv

(* The steps that are such moves. *)
LEMMA ProgramSteps ==
  ASSUME M2sDepth <= ImageChunks, ReadbackInv,
         \/ Sleep \/ SofDone \/ ChunkDone \/ ImageDone \/ Accepted \/ ConvDone \/ ConvFails
         \/ Armed \/ Begun \/ ReadCsr \/ ReadDataSc \/ ReadbackFails \/ Pass \/ Killed
  PROVE  ReadbackInv'
<1>1. SessionTyped
  BY DEF ReadbackInv
<1>2. /\ slept \in 0 .. Hold /\ word \in 0 .. RamWords /\ drained \in BOOLEAN /\ passed \in BOOLEAN
      /\ Hold \in Nat /\ RamWords \in Nat /\ s2m.busy \in BOOLEAN /\ ChunkWords \in Nat
  BY <1>1, ReadbackAssumption, BoundAssumption, SizeAssumption DEF SessionTyped, Addr
<1>3. CASE Sleep
  <2>1. /\ Access(NoWrite) /\ UNCHANGED <<pc, sent, word, drained, passed>>
        /\ slept' = slept \/ (slept' = slept + 1 /\ slept < Hold)
    BY <1>3 DEF Sleep
  <2>2. QuietMove /\ slept' \in 0 .. Hold
    BY <1>2, <2>1 DEF QuietMove
  <2> QED
    BY <1>2, <2>1, <2>2, ProgramStep
<1>4. CASE SofDone \/ ChunkDone \/ ImageDone \/ Accepted \/ ConvDone \/ Armed \/ Begun
  <2>1. Access(NoWrite) /\ UNCHANGED <<sent, slept, word, drained, passed>>
    BY <1>4 DEF SofDone, ChunkDone, ImageDone, Accepted, ConvDone, Armed, Begun, Step
  <2>2. QuietMove
    BY <1>4 DEF SofDone, ChunkDone, ImageDone, Accepted, ConvDone, Armed, Begun, Step, Goto,
                QuietMove
  <2> QED
    BY <1>2, <2>1, <2>2, ProgramStep
<1>5. CASE ReadCsr
  <2>1. Access(NoWrite) /\ UNCHANGED <<sent, slept, word, passed>> /\ drained' = ~s2m.busy
    BY <1>5 DEF ReadCsr
  <2>2. QuietMove
    BY <1>5 DEF ReadCsr, Goto, QuietMove
  <2> QED
    BY <1>2, <2>1, <2>2, ProgramStep
<1>6. CASE ReadDataSc
  <2>1. /\ Access(NoWrite) /\ UNCHANGED <<sent, slept, drained, passed>>
        /\ word' = word \/ word' = word + word_count
    BY <1>6 DEF ReadDataSc
  <2>2. word + word_count \in 0 .. RamWords
    BY <1>2 DEF word_count
  <2>3. QuietMove
    BY <1>6 DEF ReadDataSc, Goto, QuietMove
  <2> QED
    BY <1>2, <2>1, <2>2, <2>3, ProgramStep
<1>7. CASE ConvFails \/ ReadbackFails \/ Killed \/ Pass
  <2>1. /\ Access(NoWrite) /\ UNCHANGED <<sent, slept, word, drained>>
        /\ pc' = "ended" /\ passed' \in BOOLEAN
    BY <1>7 DEF ConvFails, ReadbackFails, Killed, Pass, Fail, Goto
  <2>2. QuietMove
    BY <1>7 DEF ConvFails, ReadbackFails, Killed, Pass, Fail, Goto, QuietMove, Running
  <2> QED
    BY <1>2, <2>1, <2>2, ProgramStep
<1> QED
  BY <1>3, <1>4, <1>5, <1>6, <1>7

-----------------------------------------------------------------------------
(* Resets of the DMAs: at the start of a run, at its end, or under none. *)
LEMMA ResetSteps ==
  ASSUME ReadbackInv, Begin \/ WriteTimesOut \/ Remove \/ Probe
  PROVE  ReadbackInv'
<1>1. SessionTyped /\ {ImageChunks, M2sDepth, S2mDepth, Hold, ChunkWords, RamWords} \subseteq Nat
  BY ReadbackAssumption, BoundAssumption, SizeAssumption DEF ReadbackInv, Addr
<1>2. PICK ready \in BOOLEAN : Hardware(NoWrite, ready)
  BY DEF Begin, WriteTimesOut, Remove, Probe, Access
<1>3. /\ ControlInv' /\ Exclusive'
      /\ reg'.CMD.start = reg.CMD.start
      /\ reg'.DATA_SC.start => reg'.DATA_READ.length > 0 /\ rd_state' = "PREFETCH"
  BY <1>2, QuietEdge
<1>4. NoWords \in [left : 0 .. ChunkWords, held : 0 .. S2mDepth, busy : BOOLEAN, freed : BOOLEAN]
  BY <1>1 DEF NoWords
<1>5. NoBeats \in Seq({"mark", "data"}) /\ Len(NoBeats) = 0
  BY DEF NoBeats
<1>6. pc' \in {"disable", "ended", "unloaded"}
  BY DEF Begin, WriteTimesOut, Remove, Probe, Goto, Fail
<1>7. SessionTyped' /\ (pc' = "disable" => m2s' = NoBeats /\ s2m' = NoWords /\ sent' = 0)
  <2>1. CASE Begin
    <3>1. /\ m2s' = NoBeats /\ s2m' = NoWords /\ sent' = 0 /\ slept' = 0 /\ word' = 0
          /\ drained' = FALSE /\ passed' = passed
      BY <2>1 DEF Begin
    <3>2. /\ 0 \in 0 .. ImageChunks /\ 0 \in 0 .. Hold /\ 0 \in 0 .. RamWords
          /\ 0 <= M2sDepth + 1
      BY <1>1
    <3> HIDE DEF NoBeats, NoWords
    <3> QED
      BY <1>1, <1>4, <1>5, <3>1, <3>2 DEF SessionTyped
  <2>2. CASE WriteTimesOut
    <3>1. /\ m2s' = NoBeats /\ s2m' = NoWords /\ UNCHANGED <<sent, slept, word, drained>>
          /\ pc' = "ended" /\ passed' = FALSE /\ 0 <= M2sDepth + 1
      BY <1>1, <2>2 DEF WriteTimesOut, Fail, Goto
    <3> QED
      BY <1>1, <1>4, <1>5, <3>1 DEF SessionTyped
  <2>3. CASE Remove
    <3>1. PICK r \in BOOLEAN : Hardware(NoWrite, r) /\ S2mEdge(r, TRUE)
      BY <2>3 DEF Remove
    <3>2. s2m' \in [left : 0 .. ChunkWords, held : 0 .. S2mDepth, busy : BOOLEAN, freed : BOOLEAN]
      BY <1>1, <3>1, S2mResult DEF Hardware
    <3> QED
      BY <1>1, <2>3, <3>2, M2sResult DEF Remove, SessionTyped, Goto, M2sRuns
  <2>4. CASE Probe
    <3>1. pc' # "disable" /\ UNCHANGED <<sent, slept, word, drained, passed>>
      BY <2>4 DEF Probe, Goto
    <3>2. CASE Access(NoWrite)
      <4>1. /\ m2s' = M2sRest
            /\ s2m' \in [left : 0 .. ChunkWords, held : 0 .. S2mDepth, busy : BOOLEAN, freed : BOOLEAN]
        BY <3>2, AccessResult
      <4> QED
        BY <1>1, <3>1, <4>1, M2sResult DEF SessionTyped
    <3>3. CASE m2s' = NoBeats /\ s2m' = NoWords
      BY <1>1, <1>4, <1>5, <3>1, <3>3 DEF SessionTyped
    <3> QED
      BY <2>4, <3>2, <3>3 DEF Probe
  <2> QED
    BY <2>1, <2>2, <2>3, <2>4
<1>8. Lowered' /\ PacketIsTaken' /\ LoadingWaits'
  BY <1>3, <1>6, <1>7 DEF Lowered, Reading, PacketIsTaken, LoadingWaits
<1>9. TransferHasItsBuffer'
  BY <1>6, <1>7 DEF TransferHasItsBuffer, Running, NoWords
<1> QED
  BY <1>3, <1>7, <1>8, <1>9 DEF ReadbackInv

-----------------------------------------------------------------------------
(* A descriptor pushed is one more beat to deliver. *)
LEMMA PushSteps == ASSUME ReadbackInv, PushSof \/ PushImage PROVE ReadbackInv'
<1> DEFINE beat == IF pc = "sof" THEN "mark" ELSE "data"
<1>1. /\ \/ pc = "sof" /\ pc' = "sofwait" /\ sent' = sent
         \/ pc = "image" /\ pc' = "imagewait" /\ sent < ImageChunks /\ sent' = sent + 1
      /\ m2s' = Append(M2sRest, beat)
      /\ UNCHANGED <<slept, word, drained, passed>>
  BY DEF PushSof, PushImage, Push, Goto
<1>2. PICK ready \in BOOLEAN : Hardware(NoWrite, ready) /\ S2mRuns(ready)
  BY DEF PushSof, PushImage, Push
<1>3. /\ ControlInv' /\ Exclusive' /\ SessionTyped /\ LoadingWaits
      /\ reg'.DATA_SC.start => reg'.DATA_READ.length > 0 /\ rd_state' = "PREFETCH"
      /\ rd_state = "IDLE" => rd_state' = "IDLE"
  BY <1>1, <1>2, QuietEdge DEF ReadbackInv
<1>4. /\ s2m' \in [left : 0 .. ChunkWords, held : 0 .. S2mDepth, busy : BOOLEAN, freed : BOOLEAN]
      /\ ~s2m.freed => ~s2m'.freed
  <2>1. s2m.freed \in BOOLEAN /\ (ready => s2m.held < S2mDepth) /\ S2mEdge(ready, s2m.freed)
    BY <1>2, <1>3 DEF SessionTyped, Hardware, S2mRuns
  <2> QED
    BY <1>3, <2>1, S2mResult
<1>5. /\ M2sDepth \in Nat /\ ImageChunks \in Nat /\ sent \in 0 .. ImageChunks
      /\ M2sRest \in Seq({"mark", "data"}) /\ Len(M2sRest) <= Len(m2s)
      /\ m2s = NoBeats => M2sRest = NoBeats
      /\ rd_state # "IDLE" => M2sRest = m2s
      /\ Len(m2s) \in Nat /\ Len(M2sRest) \in Nat
  BY <1>3, M2sResult, ReadbackAssumption DEF SessionTyped
<1>6. beat \in {"mark", "data"}
  OBVIOUS
<1> HIDE DEF beat
<1>7. m2s' \in Seq({"mark", "data"}) /\ Len(m2s') = Len(M2sRest) + 1
  BY <1>1, <1>5, <1>6
<1>8. /\ pc = "sof" => M2sRest = <<>> /\ sent = 0
      /\ pc = "image" => Len(M2sRest) <= M2sDepth
  BY <1>3, <1>5 DEF LoadingWaits, NoBeats, M2sBusy
<1>9. pc = "sof" => Len(M2sRest) = 0
  BY <1>8
<1>10. SessionTyped'
  <2>1. Len(m2s') <= M2sDepth + 1
    BY <1>1, <1>5, <1>7, <1>8, <1>9
  <2>2. sent' \in 0 .. ImageChunks
    BY <1>1, <1>5
  <2> QED
    BY <1>1, <1>3, <1>4, <1>7, <2>1, <2>2 DEF SessionTyped
<1>11. LoadingWaits'
  <2>1. rd_state' # "IDLE" => Len(m2s') = sent' + 1
    BY <1>1, <1>3, <1>5, <1>7, <1>8, <1>9 DEF LoadingWaits
  <2> QED
    BY <1>1, <2>1 DEF LoadingWaits
<1>12. Lowered' /\ PacketIsTaken'
  BY <1>1, <1>3 DEF Lowered, Reading, PacketIsTaken
<1>13. TransferHasItsBuffer'
  BY <1>1, <1>4 DEF ReadbackInv, TransferHasItsBuffer, Running
<1> QED
  BY <1>3, <1>10, <1>11, <1>12, <1>13 DEF ReadbackInv

(* The descriptor of a chunk. *)
LEMMA ArmStep == ASSUME ReadbackInv, ArmS2m PROVE ReadbackInv'
<1>1. /\ pc = "arm" /\ pc' = "armed" /\ Hardware(NoWrite, FALSE)
      /\ s2m' = S2mArmed(word_count) /\ m2s' = M2sRest
      /\ UNCHANGED <<sent, slept, word, drained, passed>>
  BY DEF ArmS2m, Goto, M2sRuns
<1>2. SessionTyped /\ Lowered /\ PacketIsTaken /\ TransferHasItsBuffer
  BY DEF ReadbackInv
<1>3. /\ ControlInv' /\ Exclusive'
      /\ reg'.CMD.start = reg.CMD.start /\ reg'.DATA_READ = reg.DATA_READ
      /\ reg'.DATA_SC.start => reg'.DATA_READ.length > 0 /\ rd_state' = "PREFETCH"
      /\ ~reg.CMD.start /\ current_state \notin Ops => current_state' \notin Ops
  BY <1>1, QuietEdge
<1>4. word_count \in 0 .. ChunkWords
  <2>1. word \in 0 .. RamWords /\ RamWords \in Nat /\ ChunkWords \in Nat
    BY <1>2, ReadbackAssumption, BoundAssumption, SizeAssumption DEF SessionTyped, Addr
  <2> QED
    BY <2>1 DEF word_count
<1> HIDE DEF word_count
<1>5. /\ s2m' \in [left : 0 .. ChunkWords, held : 0 .. S2mDepth, busy : BOOLEAN, freed : BOOLEAN]
      /\ s2m'.freed = s2m.freed
  BY <1>1, <1>2, <1>4 DEF S2mArmed, SessionTyped
<1>6. SessionTyped'
  <2>1. Len(M2sRest) <= M2sDepth + 1 /\ M2sRest \in Seq({"mark", "data"})
    BY <1>2, M2sResult, ReadbackAssumption DEF SessionTyped
  <2> QED
    BY <1>1, <1>2, <1>5, <2>1 DEF SessionTyped
<1>7. Lowered' /\ PacketIsTaken' /\ LoadingWaits'
  BY <1>1, <1>2, <1>3 DEF Lowered, Reading, PacketIsTaken, LoadingWaits
<1>8. TransferHasItsBuffer'
  BY <1>1, <1>2, <1>5 DEF TransferHasItsBuffer, Running
<1> QED
  BY <1>3, <1>6, <1>7, <1>8 DEF ReadbackInv

-----------------------------------------------------------------------------
(* The register writes leave the DMAs to themselves. *)
LEMMA WriteResult ==
  ASSUME ReadbackInv, NEW bus \in AnyWrite, Access(bus), Running,
         sent' = sent, slept' = slept, word' = word, drained' = drained, passed' = passed
  PROVE  /\ SessionTyped' /\ TransferHasItsBuffer'
         /\ m2s = NoBeats => m2s' = NoBeats
<1>1. /\ m2s' = M2sRest
      /\ s2m' \in [left : 0 .. ChunkWords, held : 0 .. S2mDepth, busy : BOOLEAN, freed : BOOLEAN]
      /\ ~s2m.freed => ~s2m'.freed
  BY AccessResult
<1>2. SessionTyped /\ TransferHasItsBuffer
  BY DEF ReadbackInv
<1>3. /\ Len(M2sRest) <= M2sDepth + 1 /\ M2sRest \in Seq({"mark", "data"})
      /\ m2s = NoBeats => M2sRest = NoBeats
  BY <1>2, M2sResult, ReadbackAssumption DEF SessionTyped
<1>4. SessionTyped'
  BY <1>1, <1>2, <1>3 DEF SessionTyped
<1> QED
  BY <1>1, <1>2, <1>3, <1>4 DEF TransferHasItsBuffer

(* CMD: enabled and disabled without START, and START set and cleared.  START is
   set when no packet is under way: the image could be loaded.             *)
LEMMA CommandSteps ==
  ASSUME ReadbackInv, Disable \/ Enable \/ SetStart \/ ClearStart
  PROVE  ReadbackInv'
<1>1. PICK c \in Cmd :
        /\ Access(Write("CMD", c))
        /\ UNCHANGED <<sent, slept, word, drained, passed>>
        /\ \/ pc = "disable" /\ pc' = "enable" /\ ~c.start
           \/ pc = "enable" /\ pc' = "sof" /\ ~c.start
           \/ pc = "start" /\ pc' = "clear"
           \/ pc = "clear" /\ pc' = "check" /\ ~c.start
  <2>1. /\ ClearedRegisters.CMD \in Cmd /\ ~ClearedRegisters.CMD.start
        /\ [ClearedRegisters.CMD EXCEPT !.enable = TRUE] \in Cmd
        /\ ~[ClearedRegisters.CMD EXCEPT !.enable = TRUE].start
    <3> DEFINE x == ClearedRegisters.CMD
    <3>1. x = [enable |-> FALSE, op |-> 0, start |-> FALSE]
      BY DEF ClearedRegisters
    <3>2. x \in Cmd /\ ~x.start
      BY <3>1 DEF Cmd
    <3> HIDE DEF x
    <3>3. [x EXCEPT !.enable = TRUE] \in Cmd /\ ~[x EXCEPT !.enable = TRUE].start
      BY <3>2 DEF Cmd
    <3> QED
      BY <3>2, <3>3 DEF x
  <2>2. Conv(TRUE) \in Cmd /\ Conv(FALSE) \in Cmd /\ ~Conv(FALSE).start
    BY DEF Conv, Cmd
  <2>3. CASE Disable
    BY <2>1, <2>3 DEF Disable, Step, Goto
  <2>4. CASE Enable
    BY <2>1, <2>4 DEF Enable, Step, Goto
  <2>5. CASE SetStart
    BY <2>2, <2>5 DEF SetStart, Step, Goto
  <2>6. CASE ClearStart
    BY <2>2, <2>6 DEF ClearStart, Step, Goto
  <2> QED
    BY <2>3, <2>4, <2>5, <2>6
<1> DEFINE bus == Write("CMD", c)
<1>2. /\ bus \in AnyWrite /\ bus.value = c
      /\ Writes(bus, "CMD") /\ ~Writes(bus, "DATA_SC") /\ ~Writes(bus, "DATA_READ")
  BY DEF AnyWrite, Write, Writes
<1>3. Access(bus)
  BY <1>1
<1> HIDE DEF bus
<1>4. PICK ready \in BOOLEAN : Hardware(bus, ready)
  BY <1>2, <1>3, AccessResult
<1>5. ControlInv /\ Exclusive /\ Lowered /\ PacketIsTaken /\ LoadingWaits
  BY DEF ReadbackInv
<1>6. /\ ControlInv'
      /\ reg'.CMD = c /\ reg'.DATA_READ = reg.DATA_READ
      /\ reg'.DATA_SC.start = (reg.DATA_SC.start /\ rd_state = "IDLE")
      /\ current_state' \in Ops => reg.CMD.start \/ current_state \in Ops
      /\ rd_state = "IDLE" /\ rd_state' # "IDLE" => reg.DATA_SC.start
      /\ rd_state = "IDLE" /\ reg.DATA_SC.start /\ reg.DATA_READ.length > 0
           => rd_state' = "PREFETCH"
  BY <1>2, <1>4, <1>5, HardwareResult
<1>7. Running
  BY <1>1 DEF Running
<1>8. SessionTyped' /\ TransferHasItsBuffer' /\ (m2s = NoBeats => m2s' = NoBeats)
  BY <1>1, <1>2, <1>3, <1>7, WriteResult
<1>9. ~(reg.DATA_SC.start /\ rd_state = "IDLE")
  BY <1>1, <1>5 DEF PacketIsTaken
<1>10. Exclusive'
  BY <1>1, <1>5, <1>6, <1>9 DEF Exclusive, LoadingWaits
<1>11. Lowered' /\ PacketIsTaken' /\ LoadingWaits'
  BY <1>1, <1>5, <1>6, <1>8, <1>9 DEF Lowered, Reading, PacketIsTaken, LoadingWaits
<1> QED
  BY <1>6, <1>8, <1>10, <1>11 DEF ReadbackInv

(* DATA_READ and DATA_SC: a packet is asked for when no operation is under way. *)
LEMMA DataSteps ==
  ASSUME ReadbackInv, ClearDataSc \/ SetDataRead \/ StartData
  PROVE  ReadbackInv'
<1>1. ControlInv /\ SessionTyped /\ Exclusive /\ Lowered /\ PacketIsTaken /\ LoadingWaits
  BY DEF ReadbackInv
<1>2. UNCHANGED <<sent, slept, word, drained, passed>>
  BY DEF ClearDataSc, SetDataRead, StartData, Step
<1>3. pc \in Reading /\ pc' \in Reading /\ Running
  BY DEF ClearDataSc, SetDataRead, StartData, Step, Goto, Reading, Running
<1>4. CASE SetDataRead
  <2> DEFINE r   == [addr |-> word, length |-> word_count]
             bus == Write("DATA_READ", r)
  <2>1. r \in DataRead /\ r.length > 0
    <3>1. /\ word \in 0 .. RamWords /\ RamWords \in 1 .. Size - 1 /\ word < RamWords
          /\ ChunkWords \in 1 .. MaxLength /\ MaxLength \in Nat /\ Size \in Nat
      BY <1>1, <1>4, ReadbackAssumption, BoundAssumption, SizeAssumption
         DEF SessionTyped, PacketIsTaken, SetDataRead, Step, Goto, Addr
    <3>2. word \in Addr /\ word_count \in 0 .. MaxLength /\ word_count > 0
      BY <3>1 DEF word_count, Addr
    <3> QED
      BY <3>2 DEF DataRead
  <2> HIDE DEF r
  <2>2. /\ bus \in AnyWrite /\ bus.value = r
        /\ Writes(bus, "DATA_READ") /\ ~Writes(bus, "DATA_SC") /\ ~Writes(bus, "CMD")
    BY <2>1 DEF AnyWrite, Write, Writes
  <2>3. Access(bus) /\ pc = "command" /\ pc' = "arm"
    BY <1>4 DEF SetDataRead, Step, Goto, r
  <2> HIDE DEF bus
  <2>4. PICK ready \in BOOLEAN : Hardware(bus, ready)
    BY <2>2, <2>3, AccessResult
  <2>5. /\ ControlInv'
        /\ reg'.CMD = reg.CMD /\ reg'.DATA_READ = r
        /\ reg'.DATA_SC.start = (reg.DATA_SC.start /\ rd_state = "IDLE")
        /\ current_state' \in Ops => reg.CMD.start \/ current_state \in Ops
    BY <1>1, <2>2, <2>4, HardwareResult
  <2>6. SessionTyped' /\ TransferHasItsBuffer'
    BY <1>2, <1>3, <2>2, <2>3, WriteResult
  <2>7. Exclusive' /\ Lowered' /\ PacketIsTaken' /\ LoadingWaits'
    BY <1>1, <1>3, <2>1, <2>3, <2>5 DEF Exclusive, Lowered, Reading, PacketIsTaken, LoadingWaits
  <2> QED
    BY <2>5, <2>6, <2>7 DEF ReadbackInv
<1>5. CASE ClearDataSc \/ StartData
  <2>1. PICK d \in DataSc :
          /\ Access(Write("DATA_SC", d))
          /\ \/ pc = "chunk" /\ pc' = "command" /\ word < RamWords /\ ~d.start
             \/ pc = "go" /\ pc' = "begun"
    <3>1. ClearedRegisters.DATA_SC \in DataSc /\ ~ClearedRegisters.DATA_SC.start
      BY DEF ClearedRegisters, DataSc
    <3>2. [start |-> TRUE, busy |-> FALSE, done |-> FALSE] \in DataSc
      BY DEF DataSc
    <3>3. CASE ClearDataSc
      BY <3>1, <3>3 DEF ClearDataSc, Step, Goto
    <3>4. CASE StartData
      BY <3>2, <3>4 DEF StartData, Step, Goto
    <3> QED
      BY <1>5, <3>3, <3>4
  <2> DEFINE bus == Write("DATA_SC", d)
  <2>2. /\ bus \in AnyWrite /\ bus.value = d
        /\ Writes(bus, "DATA_SC") /\ ~Writes(bus, "DATA_READ") /\ ~Writes(bus, "CMD")
    BY DEF AnyWrite, Write, Writes
  <2>3. Access(bus)
    BY <2>1
  <2> HIDE DEF bus
  <2>4. PICK ready \in BOOLEAN : Hardware(bus, ready)
    BY <2>2, <2>3, AccessResult
  <2>5. /\ ControlInv'
        /\ reg'.CMD = reg.CMD /\ reg'.DATA_READ = reg.DATA_READ
        /\ reg'.DATA_SC = d
        /\ current_state' \in Ops => reg.CMD.start \/ current_state \in Ops
    BY <1>1, <2>2, <2>4, HardwareResult
  <2>6. SessionTyped' /\ TransferHasItsBuffer'
    BY <1>2, <1>3, <2>2, <2>3, WriteResult
  <2>7. Exclusive' /\ Lowered' /\ PacketIsTaken' /\ LoadingWaits'
    BY <1>1, <1>2, <1>3, <2>1, <2>5 DEF Exclusive, Lowered, Reading, PacketIsTaken, LoadingWaits
  <2> QED
    BY <2>5, <2>6, <2>7 DEF ReadbackInv
<1> QED
  BY <1>4, <1>5

-----------------------------------------------------------------------------
LEMMA SessionInitially == ReadbackInit => ReadbackInv
<1> SUFFICES ASSUME ReadbackInit PROVE ReadbackInv
  OBVIOUS
<1>1. ControlInv
  BY ControlInitially DEF ReadbackInit
<1>2. /\ {ImageChunks, M2sDepth, S2mDepth, Hold, ChunkWords, RamWords} \subseteq Nat
  BY ReadbackAssumption, BoundAssumption, SizeAssumption DEF Addr
<1>3. SessionTyped
  <2>1. NoWords \in [left : 0 .. ChunkWords, held : 0 .. S2mDepth, busy : BOOLEAN, freed : BOOLEAN]
    BY <1>2 DEF NoWords
  <2>2. NoBeats \in Seq({"mark", "data"}) /\ Len(NoBeats) <= M2sDepth + 1
    BY <1>2 DEF NoBeats
  <2> QED
    <3>1. /\ 0 \in 0 .. ImageChunks /\ 0 \in 0 .. Hold /\ 0 \in 0 .. RamWords
      BY <1>2
    <3>2. /\ m2s = NoBeats /\ s2m = NoWords /\ sent = 0 /\ slept = 0 /\ word = 0
          /\ drained = FALSE /\ passed = TRUE
      BY DEF ReadbackInit
    <3> QED
      BY <2>1, <2>2, <3>1, <3>2 DEF SessionTyped
<1>4. reg = ClearedRegisters /\ current_state = "IDLE" /\ pc = "ended"
  BY DEF ReadbackInit, ControlInit
<1>5. ~reg.CMD.start /\ ~reg.DATA_SC.start /\ current_state \notin Ops
  BY <1>4 DEF ClearedRegisters, Ops
<1> QED
  BY <1>1, <1>3, <1>4, <1>5 DEF ReadbackInv, Exclusive, Lowered, Reading, PacketIsTaken,
     LoadingWaits, TransferHasItsBuffer, Running

LEMMA SessionInductive ==
  ASSUME M2sDepth <= ImageChunks
  PROVE  ReadbackInv /\ [ReadbackNext]_readbackVars => ReadbackInv'
<1> SUFFICES ASSUME ReadbackInv, [ReadbackNext]_readbackVars PROVE ReadbackInv'
  OBVIOUS
<1>1. CASE UNCHANGED readbackVars
  BY <1>1 DEF readbackVars, programVars, controlVars, vars, cmdVars, rdVars, topVars, history,
     ReadbackInv, SessionTyped, Exclusive, Lowered, PacketIsTaken, LoadingWaits, M2sBusy,
     TransferHasItsBuffer, Running, ControlInv, ControlTyped,
     DataStartIsPulse, PacketIsVisible, DoneIsNotBusy
<1>2. CASE ReadbackNext
  <2>1. CASE Begin \/ WriteTimesOut \/ Remove \/ Probe
    BY <2>1, ResetSteps
  <2>2. CASE PushSof \/ PushImage
    BY <2>2, PushSteps
  <2>3. CASE ArmS2m
    BY <2>3, ArmStep
  <2>4. CASE Disable \/ Enable \/ SetStart \/ ClearStart
    BY <2>4, CommandSteps
  <2>5. CASE ClearDataSc \/ SetDataRead \/ StartData
    BY <2>5, DataSteps
  <2>6. CASE \/ Sleep \/ SofDone \/ ChunkDone \/ ImageDone \/ Accepted \/ ConvDone \/ ConvFails
             \/ Armed \/ Begun \/ ReadCsr \/ ReadDataSc \/ ReadbackFails \/ Pass \/ Killed
    BY <2>6, ProgramSteps
  <2> QED
    BY <1>2, <2>1, <2>2, <2>3, <2>4, <2>5, <2>6 DEF ReadbackNext, Program
<1> QED
  BY <1>1, <1>2

(* The program's invariant, over any number of runs. *)
THEOREM ReadbackInvariance ==
  ASSUME M2sDepth <= ImageChunks
  PROVE  ReadbackSpec => []ReadbackInv
<1>1. ReadbackInv /\ [ReadbackNext]_readbackVars => ReadbackInv'
  BY SessionInductive
<1> QED
  BY <1>1, SessionInitially, PTL DEF ReadbackSpec

(* No word leaves the RAM while an operation runs, in a run of the program or
   left over from one that was killed.                                     *)
THEOREM ReadbackWaitsForResults ==
  ASSUME M2sDepth <= ImageChunks
  PROVE  ReadbackSpec => []ReadbackIsOfResults
<1>1. ReadbackInv => ReadbackIsOfResults
  BY DEF ReadbackInv, Exclusive, ReadbackIsOfResults
<1> QED
  BY <1>1, ReadbackInvariance, PTL

(* While a program runs no DMA writes to memory that the kernel module freed. *)
THEOREM TransfersHaveMemory ==
  ASSUME M2sDepth <= ImageChunks
  PROVE  ReadbackSpec => []TransferHasItsBuffer
<1>1. ReadbackInv => TransferHasItsBuffer
  BY DEF ReadbackInv
<1> QED
  BY <1>1, ReadbackInvariance, PTL

-----------------------------------------------------------------------------
(* Every step of the program is an edge of the data interface. *)
LEMMA StepIsClock == ASSUME ControlInv, ReadbackNext PROVE Clock
<1>1. ASSUME NEW bus, NEW ready \in BOOLEAN, Hardware(bus, ready) PROVE Clock
  <2> DEFINE b == [wren |-> FALSE]
  <2>1. PICK unit_done \in (IF pc = "clear" THEN {FALSE} ELSE BOOLEAN), asi \in Offered :
          Edge(bus, unit_done, asi, ready, b)
    BY <1>1 DEF Hardware
  <2>2. asi \in Beat /\ b \in Results
    BY OfferedBeat DEF Results, PortB
  <2> QED
    BY <1>1, <2>1, <2>2, DataEdgeResult DEF Edge, ControlInv
<1>2. CASE Begin \/ WriteTimesOut \/ ArmS2m
  BY <1>1, <1>2 DEF Begin, WriteTimesOut, ArmS2m
<1>3. CASE Remove \/ Probe \/ PushSof \/ PushImage
  BY <1>1, <1>3 DEF Remove, Probe, PushSof, PushImage, Push, Access
<1>4. CASE \/ Sleep \/ SofDone \/ ChunkDone \/ ImageDone \/ Accepted \/ ConvDone \/ ConvFails
           \/ Armed \/ Begun \/ ReadCsr \/ ReadDataSc \/ ReadbackFails \/ Pass \/ Killed
           \/ Disable \/ Enable \/ SetStart \/ ClearStart \/ ClearDataSc \/ SetDataRead \/ StartData
  BY <1>1, <1>4 DEF Sleep, SofDone, ChunkDone, ImageDone, Accepted, ConvDone, ConvFails, Armed,
     Begun, ReadCsr, ReadDataSc, ReadbackFails, Pass, Killed, Disable, Enable, SetStart,
     ClearStart, ClearDataSc, SetDataRead, StartData, Step, Access
<1> QED
  BY <1>2, <1>3, <1>4 DEF ReadbackNext, Program

(* What is proved of the data interface alone holds under the program. *)
THEOREM ProgramUsesDataInterface ==
  ASSUME M2sDepth <= ImageChunks
  PROVE  ReadbackSpec => Spec
<1>1. ReadbackInit => Init
  BY DEF ReadbackInit, ControlInit
<1>2. ReadbackInv /\ [ReadbackNext]_readbackVars => [Next]_vars
  BY StepIsClock DEF ReadbackInv, Next, readbackVars, controlVars
<1> QED
  BY <1>1, <1>2, ReadbackInvariance, PTL DEF ReadbackSpec, Spec

(* The count of earlier words is the length of the stream as a run begins. *)
Counted == earlier \in Nat

LEMMA CountedStep == TypeOK' /\ Counted /\ [ReadbackNext]_readbackVars => Counted'
<1> SUFFICES ASSUME TypeOK', earlier \in Nat, [ReadbackNext]_readbackVars
             PROVE  earlier' \in Nat
  BY DEF Counted
<1>1. CASE Begin
  <2>1. earlier' = Len(stream') /\ stream' \in Seq(Word)
    BY <1>1 DEF Begin, TypeOK
  <2> QED
    BY <2>1
<1>2. CASE \/ WriteTimesOut \/ ArmS2m \/ Remove \/ Probe \/ PushSof \/ PushImage \/ Sleep
           \/ ConvFails \/ ReadCsr \/ ReadDataSc \/ ReadbackFails \/ Pass \/ Killed
  BY <1>2 DEF WriteTimesOut, ArmS2m, Remove, Probe, PushSof, PushImage, Push, Sleep, ConvFails,
     ReadCsr, ReadDataSc, ReadbackFails, Pass, Killed
<1>3. CASE \/ SofDone \/ ChunkDone \/ ImageDone \/ Accepted \/ ConvDone \/ Armed \/ Begun
           \/ Disable \/ Enable \/ SetStart \/ ClearStart \/ ClearDataSc \/ SetDataRead \/ StartData
  BY <1>3 DEF SofDone, ChunkDone, ImageDone, Accepted, ConvDone, Armed, Begun, Disable, Enable,
     SetStart, ClearStart, ClearDataSc, SetDataRead, StartData, Step
<1>4. CASE UNCHANGED readbackVars
  BY <1>4 DEF readbackVars, programVars
<1> QED
  BY <1>1, <1>2, <1>3, <1>4 DEF ReadbackNext, Program

LEMMA EarlierCounted ==
  ASSUME M2sDepth <= ImageChunks
  PROVE  ReadbackSpec => []Counted
<1>1. ReadbackInit => Counted
  BY DEF ReadbackInit, Counted
<1> QED
  BY <1>1, ProgramUsesDataInterface, TypeCorrect, CountedStep, PTL DEF ReadbackSpec

(* Program, DMAs and hardware keep their types. *)
THEOREM ReadbackTypeCorrect ==
  ASSUME M2sDepth <= ImageChunks
  PROVE  ReadbackSpec => []ReadbackTypeOK
<1>1. ReadbackInv /\ TypeOK /\ Counted => ReadbackTypeOK
  BY DEF ReadbackInv, SessionTyped, ControlInv, ControlTyped, ControlTypeOK, ReadbackTypeOK, Counted
<1> QED
  BY <1>1, ReadbackInvariance, ProgramUsesDataInterface, TypeCorrect, EarlierCounted, PTL

-----------------------------------------------------------------------------
(* What a run that passed owes the next one, which the image in the RAM and the
   chunks in memory are proved from.                                       *)

(* Before START is set, between runs included. *)
Before == {"ended", "unloaded", "disable", "enable", "sof", "sofwait", "image", "imagewait",
           "start"}

(* From the loaded image to the START of a packet the source rests. *)
QuietAt == {"start", "clear", "check", "conv", "chunk", "command", "arm", "armed", "go"}

(* A packet is asked for and not yet launched. *)
Pending == reg.DATA_SC.start /\ rd_state = "IDLE"

Quiet == pc \in QuietAt => rd_state = "IDLE" /\ ~reg.DATA_SC.start

(* From its START to its end a packet can be read off DATA_SC, and BUSY seen means
   that START has done its work.                                           *)
Shown ==
  /\ pc \in {"begun", "drain", "drain2"} =>
       /\ reg.DATA_SC.start => ~reg.DATA_SC.busy
       /\ rd_state # "IDLE" => reg.DATA_SC.start \/ reg.DATA_SC.busy
  /\ pc \in {"drain", "drain2"} => ~reg.DATA_SC.start

(* No START is lost on a busy source. *)
EveryStart == packets + (IF Pending THEN 1 ELSE 0) = dataStarts

(* The places of the program. *)
Known == pc \in Before \cup QuietAt \cup {"begun", "drain", "drain2"}

Settled == Known /\ Quiet /\ Shown /\ EveryStart

(* The image is in the RAM, behind those of the runs before, but for the beat just
   pushed; the marker adds nothing to it.                                  *)
Beats ==
  /\ pc \in {"disable", "enable", "sof"} => Len(stream) = earlier
  /\ pc = "sofwait" => sent = 0 /\ m2s \in {<<"mark">>, NoBeats} /\ Len(stream) = earlier
  /\ pc = "image" => m2s = NoBeats /\ Len(stream) = earlier + sent
  /\ pc = "imagewait" => \/ m2s = <<"data">> /\ Len(stream) = earlier + sent - 1
                         \/ m2s = NoBeats /\ Len(stream) = earlier + sent
  /\ pc \in {"start", "clear", "check", "conv"} =>
       m2s = NoBeats /\ Len(stream) = earlier + ImageChunks

Resting ==
  pc \in Before =>
    /\ rd_state = "IDLE" /\ ~reg.DATA_SC.start
    /\ ~reg.CMD.start /\ current_state \notin Ops

(* The stream-to-memory DMA, reset at the start of the run, has no descriptor. *)
ReceivesNothing ==
  {"disable", "enable", "sof", "sofwait", "image", "imagewait",
   "start", "clear", "check", "conv", "chunk", "command", "arm"}

(* The words of the chunk are in the packet still to send, in the DMA or in memory. *)
Received ==
  /\ pc \in ReceivesNothing => s2m = NoWords /\ (pc \notin Reading => word = 0)
  /\ pc \in {"arm", "armed", "go", "begun"} =>
       reg.DATA_READ.addr = word /\ reg.DATA_READ.length = word_count
  /\ pc \in {"armed", "go"} \/ (pc = "begun" /\ Pending) =>
       s2m.left = word_count /\ s2m.held = 0 /\ s2m.busy
  /\ pc \in {"begun", "drain", "drain2"} /\ ~Pending =>
       /\ cmd_start_addr = word /\ cmd_length = word_count
       /\ s2m.left + Len(packet) = cmd_length + s2m.held
       /\ s2m.left > 0 => s2m.busy
  /\ pc = "drain2" /\ drained => ~s2m.busy
  /\ pc = "chunk" /\ word > 0 => Len(packet) = cmd_length /\ cmd_start_addr + cmd_length = word

AfterPass == passed => Resting /\ Beats /\ Received

-----------------------------------------------------------------------------
(* The source on an edge: it launches what is pending, or goes on. *)
LEMMA SourceMoves ==
  ASSUME ReadbackInv, IInv, NEW bus \in AnyWrite \cup {NoWrite}, NEW ready \in BOOLEAN,
         Hardware(bus, ready)
  PROVE  /\ rd_state = "IDLE" /\ ~Pending =>
              /\ rd_state' = "IDLE" /\ packets' = packets /\ packet' = packet
              /\ cmd_start_addr' = cmd_start_addr /\ cmd_length' = cmd_length
         /\ Pending =>
              /\ rd_state' = "PREFETCH" /\ packets' = packets + 1 /\ packet' = <<>>
              /\ cmd_start_addr' = reg.DATA_READ.addr /\ cmd_length' = reg.DATA_READ.length
         /\ rd_state # "IDLE" =>
              /\ packets' = packets
              /\ cmd_start_addr' = cmd_start_addr /\ cmd_length' = cmd_length
              /\ Len(packet') = Len(packet) + (IF rd_state = "SEND" /\ ready THEN 1 ELSE 0)
<1> DEFINE b == [wren |-> FALSE]
           c == [start |-> reg.DATA_SC.start, addr |-> reg.DATA_READ.addr,
                 length |-> reg.DATA_READ.length]
<1>1. PICK unit_done \in (IF pc = "clear" THEN {FALSE} ELSE BOOLEAN), asi \in Offered :
        Edge(bus, unit_done, asi, ready, b)
  BY DEF Hardware
<1>2. DataEdge(asi, ready, b) /\ Count(bus)
  BY <1>1 DEF Edge
<1>3. packets \in Nat /\ packet \in Seq([addr : Addr, data : Word, sop : BOOLEAN, eop : BOOLEAN])
  BY DEF ReadbackInv, ControlInv, ControlTyped, IInv, TypeOK
<1>4. packets' = packets + (IF rd_state = "IDLE" /\ rd_state' = "PREFETCH" THEN 1 ELSE 0)
  BY <1>2 DEF Count
<1>5. CASE rd_state = "IDLE" /\ ~Pending
  <2>1. Idle(asi, c, b) /\ ~c.start
    BY <1>2, <1>5 DEF DataEdge, Prefetch, Stall, Send, Flush, Pending
  <2> HIDE DEF c
  <2>2. UNCHANGED <<cmdVars, rdVars, packet>>
    BY <2>1 DEF Idle
  <2> QED
    BY <1>3, <1>4, <1>5, <2>2 DEF cmdVars, rdVars, Pending
<1>6. CASE Pending
  <2>1. Idle(asi, c, b) /\ c.start /\ c.length # 0
    <3>1. reg.DATA_READ.length > 0
      BY <1>6 DEF ReadbackInv, PacketIsTaken, Pending
    <3>2. c.length # 0
      BY <3>1
    <3> QED
      BY <1>2, <1>6, <3>2 DEF DataEdge, Prefetch, Stall, Send, Flush, Pending
  <2>2. c.addr = reg.DATA_READ.addr /\ c.length = reg.DATA_READ.length
    OBVIOUS
  <2> HIDE DEF c
  <2>3. /\ cmd_start_addr' = c.addr /\ cmd_length' = c.length /\ packet' = <<>>
        /\ rd_state' = "PREFETCH"
    BY <2>1 DEF Idle
  <2> QED
    BY <1>3, <1>4, <1>6, <2>2, <2>3 DEF Pending
<1>7. CASE rd_state # "IDLE"
  <2>1. Prefetch(asi, b) \/ (~ready /\ Stall(asi, b)) \/ (ready /\ Send(asi, b)) \/ Flush(asi, b)
    BY <1>2, <1>7 DEF DataEdge, Idle
  <2>2. CASE ready /\ Send(asi, b)
    <3>1. rd_state = "SEND" /\ UNCHANGED cmdVars /\ \E e : packet' = Append(packet, e)
      BY <2>2 DEF Send
    <3>2. \A e : Len(Append(packet, e)) = Len(packet) + 1
      BY <1>3
    <3> QED
      BY <1>3, <1>4, <1>7, <2>2, <3>1, <3>2 DEF cmdVars, Pending
  <2>3. CASE Prefetch(asi, b) \/ (~ready /\ Stall(asi, b)) \/ Flush(asi, b)
    <3>1. UNCHANGED <<cmdVars, packet>> /\ ~(rd_state = "SEND" /\ ready) /\ Len(packet) \in Nat
      BY <1>3, <2>3 DEF Prefetch, Stall, Flush
    <3> QED
      BY <1>3, <1>4, <1>7, <3>1 DEF cmdVars, Pending
  <2> QED
    BY <2>1, <2>2, <2>3
<1> QED
  BY <1>5, <1>6, <1>7 DEF Pending

(* DATA_SC and the count of its STARTs after an edge. *)
LEMMA DataScMoves ==
  ASSUME ReadbackInv, NEW bus \in AnyWrite \cup {NoWrite}, NEW ready \in BOOLEAN,
         Hardware(bus, ready)
  PROVE  /\ Writes(bus, "DATA_SC") => reg'.DATA_SC = bus.value
         /\ ~Writes(bus, "DATA_SC") =>
              /\ reg'.DATA_SC.start <=> Pending
              /\ reg'.DATA_SC.busy <=> rd_state # "IDLE"
         /\ dataStarts' = dataStarts + (IF Writes(bus, "DATA_SC") /\ bus.value.start THEN 1 ELSE 0)
<1>1. PICK unit_done \in (IF pc = "clear" THEN {FALSE} ELSE BOOLEAN), asi \in Offered :
        Edge(bus, unit_done, asi, ready, [wren |-> FALSE])
  BY DEF Hardware
<1>2. RegisterEdge(bus) /\ Count(bus)
  BY <1>1 DEF Edge
<1>3. ControlTyped
  BY DEF ReadbackInv, ControlInv
<1> QED
  BY <1>2, <1>3, RegisterResult DEF Pending, Count

(* While the source rests a beat of the image is stored, and the marker lost. *)
LEMMA SinkMoves ==
  ASSUME ReadbackInv, IInv, NEW bus \in AnyWrite \cup {NoWrite}, NEW ready \in BOOLEAN,
         Hardware(bus, ready), rd_state = "IDLE"
  PROVE  /\ m2s = NoBeats => M2sRest = NoBeats /\ stream' = stream
         /\ m2s = <<"mark">> => M2sRest = NoBeats /\ stream' = stream
         /\ m2s = <<"data">> => M2sRest = NoBeats /\ Len(stream') = Len(stream) + 1
<1>1. PICK unit_done \in (IF pc = "clear" THEN {FALSE} ELSE BOOLEAN), asi \in Offered :
        Edge(bus, unit_done, asi, ready, [wren |-> FALSE])
  BY DEF Hardware
<1>2. Sink(asi) /\ sink_ready
  BY <1>1 DEF Edge, DataEdge, Idle, Prefetch, Stall, Send, Flush, sink_ready
<1>3. stream \in Seq(Word)
  BY DEF IInv, TypeOK
<1>4. \A e \in {"mark", "data"} : <<e>> # NoBeats /\ Tail(<<e>>) = NoBeats /\ Head(<<e>>) = e
  <2>1. \A e \in {"mark", "data"} : Len(<<e>>) = 1 /\ Len(NoBeats) = 0
    BY DEF NoBeats
  <2> QED
    BY <2>1 DEF NoBeats
<1>5. CASE m2s = NoBeats \/ m2s = <<"mark">>
  <2>1. ~asi.valid
    <3>1. ~(m2s # NoBeats /\ Head(m2s) = "data")
      BY <1>4, <1>5
    <3>2. asi \in {[valid |-> FALSE]}
      BY <3>1 DEF Offered
    <3> QED
      BY <3>2
  <2>2. stream' = stream
    BY <1>2, <2>1 DEF Sink, Stored
  <2> QED
    BY <1>2, <1>4, <1>5, <2>2 DEF M2sRest
<1>7. CASE m2s = <<"data">>
  <2>1. asi \in [valid : {TRUE}, channel : {0}, data : Word]
    BY <1>1, <1>4, <1>7 DEF Offered
  <2>2. asi.valid /\ asi.channel = 0 /\ asi.data \in Word
    BY <2>1
  <2>3. stream' = Append(stream, asi.data)
    BY <1>2, <2>2 DEF Sink
  <2> QED
    BY <1>2, <1>3, <1>4, <1>7, <2>2, <2>3 DEF M2sRest
<1> QED
  BY <1>4, <1>5, <1>7

(* The stream-to-memory DMA counts what it takes and what it writes. *)
LEMMA S2mMoves ==
  ASSUME SessionTyped, NEW ready \in BOOLEAN, NEW freed \in BOOLEAN, S2mEdge(ready, freed)
  PROVE  /\ \E writes \in 0 .. 1 :
              /\ writes <= s2m.left /\ writes <= s2m.held
              /\ s2m'.left = s2m.left - writes
              /\ s2m'.held = s2m.held - writes + (IF rd_state = "SEND" /\ ready THEN 1 ELSE 0)
         /\ s2m.busy /\ s2m.left > 0 => s2m'.busy
         /\ s2m'.busy => s2m.busy \/ s2m.left > 0
<1>1. PICK writes \in 0 .. 1, b \in {s2m.busy, s2m.left > 0} :
        /\ writes <= s2m.left /\ writes <= s2m.held
        /\ s2m' = [left |-> s2m.left - writes, busy |-> b,
                   held |-> s2m.held - writes + (IF rd_state = "SEND" /\ ready THEN 1 ELSE 0),
                   freed |-> freed /\ s2m.left > writes]
  BY DEF S2mEdge
<1>2. /\ s2m'.left = s2m.left - writes
      /\ s2m'.held = s2m.held - writes + (IF rd_state = "SEND" /\ ready THEN 1 ELSE 0)
  BY <1>1
<1>3. s2m'.busy = b
  BY <1>1
<1>4. b = s2m.busy \/ b = (s2m.left > 0)
  BY Zenon
<1>5. s2m.busy /\ s2m.left > 0 => s2m'.busy
  BY <1>3, <1>4, Zenon
<1>6. s2m'.busy => s2m.busy \/ s2m.left > 0
  BY <1>3, <1>4, Zenon
<1> QED
  BY <1>1, <1>2, <1>5, <1>6

(* Without a descriptor and without words the DMA stays as it is. *)
LEMMA NoWordsStay ==
  ASSUME s2m = NoWords, NEW ready \in BOOLEAN, rd_state # "SEND", S2mRuns(ready)
  PROVE  s2m' = NoWords
<1>1. PICK writes \in 0 .. 1, b \in {FALSE, 0 > 0} :
        /\ writes <= 0
        /\ s2m' = [left |-> 0 - writes, busy |-> b, held |-> 0 - writes + 0,
                   freed |-> FALSE /\ 0 > writes]
  BY DEF S2mRuns, S2mEdge, NoWords
<1>2. writes = 0
  BY <1>1
<1>3. b = FALSE
  <2>1. (0 > 0) = FALSE
    OBVIOUS
  <2>2. b = FALSE \/ b = (0 > 0)
    BY Zenon
  <2> QED
    BY <2>1, <2>2, Zenon
<1>4. (FALSE /\ 0 > writes) = FALSE /\ 0 - writes = 0 /\ 0 - writes + 0 = 0
  BY <1>2
<1> QED
  BY <1>1, <1>3, <1>4 DEF NoWords

-----------------------------------------------------------------------------
(* Where the program goes with what it writes to DATA_SC. *)
Moved(bus) ==
  \/ /\ ~Writes(bus, "DATA_SC")
     /\ \/ pc' = pc
        \/ pc' \in Before
        \/ pc \in QuietAt /\ pc' \in QuietAt
        \/ pc = "begun" /\ pc' = "drain" /\ reg.DATA_SC.busy
        \/ pc \in {"drain", "drain2"} /\ pc' \in {"drain", "drain2"}
        \/ pc = "drain2" /\ pc' = "chunk" /\ ~reg.DATA_SC.busy
  \/ pc = "chunk" /\ pc' = "command" /\ Writes(bus, "DATA_SC") /\ ~bus.value.start
  \/ /\ pc = "go" /\ pc' = "begun" /\ Writes(bus, "DATA_SC")
     /\ bus.value.start /\ ~bus.value.busy

(* The registers a program writes take what it writes to them. *)
LEMMA ProgramWrites ==
  ASSUME ReadbackInv
  PROVE  /\ Write("CMD", ClearedRegisters.CMD) \in AnyWrite
         /\ Write("CMD", [ClearedRegisters.CMD EXCEPT !.enable = TRUE]) \in AnyWrite
         /\ \A s \in BOOLEAN : Write("CMD", Conv(s)) \in AnyWrite
         /\ Write("DATA_SC", ClearedRegisters.DATA_SC) \in AnyWrite
         /\ Write("DATA_SC", [start |-> TRUE, busy |-> FALSE, done |-> FALSE]) \in AnyWrite
         /\ pc = "command" =>
              Write("DATA_READ", [addr |-> word, length |-> word_count]) \in AnyWrite
<1>1. [enable |-> FALSE, op |-> 0, start |-> FALSE] \in Cmd
  BY DEF Cmd
<1>2. \A s \in BOOLEAN : [enable |-> TRUE, op |-> 0, start |-> s] \in Cmd
  BY DEF Cmd
<1>3. /\ ClearedRegisters.CMD = [enable |-> FALSE, op |-> 0, start |-> FALSE]
      /\ ClearedRegisters.DATA_SC = [start |-> FALSE, busy |-> FALSE, done |-> FALSE]
  BY DEF ClearedRegisters
<1>4. \A x \in Cmd : [x EXCEPT !.enable = TRUE] \in Cmd
  BY DEF Cmd
<1>5. \A s \in BOOLEAN : [start |-> s, busy |-> FALSE, done |-> FALSE] \in DataSc
  BY DEF DataSc
<1>6. ASSUME pc = "command" PROVE [addr |-> word, length |-> word_count] \in DataRead
  <2>1. /\ word \in 0 .. RamWords /\ RamWords \in 1 .. Size - 1 /\ word < RamWords
        /\ ChunkWords \in 1 .. MaxLength /\ MaxLength \in Nat /\ Size \in Nat
    BY <1>6, ReadbackAssumption, BoundAssumption, SizeAssumption
       DEF ReadbackInv, SessionTyped, PacketIsTaken, Addr
  <2>2. word \in Addr /\ word_count \in 0 .. MaxLength
    BY <2>1 DEF word_count, Addr
  <2> QED
    BY <2>2 DEF DataRead
<1>7. /\ \A v \in Cmd : Write("CMD", v) \in AnyWrite
      /\ \A v \in DataSc : Write("DATA_SC", v) \in AnyWrite
      /\ \A v \in DataRead : Write("DATA_READ", v) \in AnyWrite
  BY DEF AnyWrite
<1>8. Write("CMD", ClearedRegisters.CMD) \in AnyWrite
  BY <1>1, <1>3, <1>7, Zenon
<1>9. Write("CMD", [ClearedRegisters.CMD EXCEPT !.enable = TRUE]) \in AnyWrite
  BY <1>1, <1>3, <1>4, <1>7, Zenon
<1>10. \A s \in BOOLEAN : Write("CMD", Conv(s)) \in AnyWrite
  BY <1>2, <1>7, Zenon DEF Conv
<1>11. /\ Write("DATA_SC", ClearedRegisters.DATA_SC) \in AnyWrite
       /\ Write("DATA_SC", [start |-> TRUE, busy |-> FALSE, done |-> FALSE]) \in AnyWrite
  BY <1>3, <1>5, <1>7, Zenon
<1> QED
  BY <1>6, <1>7, <1>8, <1>9, <1>10, <1>11

LEMMA ProgramMoves ==
  ASSUME ReadbackInv, ReadbackNext
  PROVE  \E bus \in AnyWrite \cup {NoWrite}, ready \in BOOLEAN : Hardware(bus, ready) /\ Moved(bus)
<1>1. ~Writes(NoWrite, "DATA_SC")
  BY DEF NoWrite, Writes
<1>2. ASSUME NEW ready \in BOOLEAN, Hardware(NoWrite, ready),
             \/ pc' = pc
             \/ pc' \in Before
             \/ pc \in QuietAt /\ pc' \in QuietAt
             \/ pc = "begun" /\ pc' = "drain" /\ reg.DATA_SC.busy
             \/ pc \in {"drain", "drain2"} /\ pc' \in {"drain", "drain2"}
             \/ pc = "drain2" /\ pc' = "chunk" /\ ~reg.DATA_SC.busy
      PROVE  \E bus \in AnyWrite \cup {NoWrite}, r \in BOOLEAN : Hardware(bus, r) /\ Moved(bus)
  BY <1>1, <1>2 DEF Moved
<1>3. ASSUME NEW bus \in AnyWrite, Access(bus), Moved(bus)
      PROVE  \E c \in AnyWrite \cup {NoWrite}, r \in BOOLEAN : Hardware(c, r) /\ Moved(c)
  BY <1>3 DEF Access
<1>4. CASE Begin \/ WriteTimesOut \/ Remove \/ Probe \/ ArmS2m \/ PushSof \/ PushImage
  <2>1. \E r \in BOOLEAN : Hardware(NoWrite, r)
    BY <1>4 DEF Begin, WriteTimesOut, Remove, Probe, ArmS2m, PushSof, PushImage, Push, Access
  <2>2. pc' \in Before \/ (pc \in QuietAt /\ pc' \in QuietAt)
    BY <1>4 DEF Begin, WriteTimesOut, Remove, Probe, ArmS2m, PushSof, PushImage, Push, Goto, Fail,
                Before, QuietAt
  <2> QED
    BY <1>2, <2>1, <2>2
<1>5. CASE \/ Sleep \/ SofDone \/ ChunkDone \/ ImageDone \/ Accepted \/ ConvDone \/ ConvFails
           \/ Armed \/ Begun \/ ReadCsr \/ ReadDataSc \/ ReadbackFails \/ Pass \/ Killed
  <2>1. \E r \in BOOLEAN : Hardware(NoWrite, r)
    BY <1>5 DEF Sleep, SofDone, ChunkDone, ImageDone, Accepted, ConvDone, ConvFails,
                Armed, Begun, ReadCsr, ReadDataSc, ReadbackFails, Pass, Killed, Step, Access
  <2>2. \/ pc' = pc
        \/ pc' \in Before
        \/ pc \in QuietAt /\ pc' \in QuietAt
        \/ pc = "begun" /\ pc' = "drain" /\ reg.DATA_SC.busy
        \/ pc \in {"drain", "drain2"} /\ pc' \in {"drain", "drain2"}
        \/ pc = "drain2" /\ pc' = "chunk" /\ ~reg.DATA_SC.busy
    <3>1. CASE Sleep
      BY <3>1 DEF Sleep
    <3>2. CASE SofDone \/ ChunkDone \/ ImageDone \/ Accepted \/ ConvDone \/ Armed
      BY <3>2 DEF SofDone, ChunkDone, ImageDone, Accepted, ConvDone, Armed, Step, Goto,
                  Before, QuietAt
    <3>3. CASE ConvFails \/ ReadbackFails \/ Pass \/ Killed
      BY <3>3 DEF ConvFails, ReadbackFails, Pass, Killed, Fail, Goto, Before
    <3>4. CASE Begun \/ ReadCsr \/ ReadDataSc
      BY <3>4 DEF Begun, ReadCsr, ReadDataSc, Step, Goto
    <3> QED
      BY <1>5, <3>1, <3>2, <3>3, <3>4
  <2> QED
    BY <1>2, <2>1, <2>2
<1>6. CASE Disable \/ Enable \/ SetStart \/ ClearStart \/ SetDataRead
  <2>1. PICK bus \in AnyWrite : Access(bus) /\ ~Writes(bus, "DATA_SC")
    <3>1. \A v : ~Writes(Write("CMD", v), "DATA_SC") /\ ~Writes(Write("DATA_READ", v), "DATA_SC")
      BY DEF Writes, Write
    <3>2. CASE SetDataRead
      BY <3>1, <3>2, ProgramWrites DEF SetDataRead, Step, Goto
    <3>3. CASE Disable \/ Enable
      BY <3>1, <3>3, ProgramWrites DEF Disable, Enable, Step
    <3>4. CASE SetStart \/ ClearStart
      <4>1. PICK s \in BOOLEAN : Access(Write("CMD", Conv(s)))
        BY <3>4 DEF SetStart, ClearStart, Step
      <4> QED
        BY <3>1, <4>1, ProgramWrites
    <3> QED
      BY <1>6, <3>2, <3>3, <3>4
  <2>2. pc' \in Before \/ (pc \in QuietAt /\ pc' \in QuietAt)
    BY <1>6 DEF Disable, Enable, SetStart, ClearStart, SetDataRead, Step, Goto, Before, QuietAt
  <2> QED
    BY <1>3, <2>1, <2>2 DEF Moved
<1>7. CASE ClearDataSc
  <2> DEFINE bus == Write("DATA_SC", ClearedRegisters.DATA_SC)
  <2>1. bus \in AnyWrite /\ Writes(bus, "DATA_SC") /\ ~bus.value.start
    BY ProgramWrites DEF Write, Writes, ClearedRegisters
  <2>2. Access(bus) /\ pc = "chunk" /\ pc' = "command"
    BY <1>7 DEF ClearDataSc, Step, Goto
  <2> HIDE DEF bus
  <2> QED
    BY <1>3, <2>1, <2>2 DEF Moved
<1>8. CASE StartData
  <2> DEFINE v == [start |-> TRUE, busy |-> FALSE, done |-> FALSE]
             bus == Write("DATA_SC", v)
  <2>1. bus \in AnyWrite /\ Writes(bus, "DATA_SC") /\ bus.value.start /\ ~bus.value.busy
    BY ProgramWrites DEF Write, Writes
  <2>2. Access(bus) /\ pc = "go" /\ pc' = "begun"
    BY <1>8 DEF StartData, Step, Goto
  <2> HIDE DEF bus
  <2> QED
    BY <1>3, <2>1, <2>2 DEF Moved
<1> QED
  BY <1>4, <1>5, <1>6, <1>7, <1>8 DEF ReadbackNext, Program

LEMMA SettledStep ==
  ASSUME ReadbackInv, ReadbackInv', IInv, Settled, ReadbackNext
  PROVE  Settled'
<1>1. PICK bus \in AnyWrite \cup {NoWrite}, ready \in BOOLEAN : Hardware(bus, ready) /\ Moved(bus)
  BY ProgramMoves
<1>2. /\ rd_state = "IDLE" /\ ~Pending => rd_state' = "IDLE" /\ packets' = packets
      /\ Pending => rd_state' = "PREFETCH" /\ packets' = packets + 1
      /\ rd_state # "IDLE" => packets' = packets
  BY <1>1, SourceMoves
<1>3. /\ Writes(bus, "DATA_SC") => reg'.DATA_SC = bus.value
      /\ ~Writes(bus, "DATA_SC") =>
           /\ reg'.DATA_SC.start <=> Pending
           /\ reg'.DATA_SC.busy <=> rd_state # "IDLE"
      /\ dataStarts' = dataStarts + (IF Writes(bus, "DATA_SC") /\ bus.value.start THEN 1 ELSE 0)
  BY <1>1, DataScMoves
<1>4. packets \in Nat /\ dataStarts \in Nat
  BY DEF ReadbackInv, ControlInv, ControlTyped
<1>5. pc' = "start" => rd_state' = "IDLE" /\ ~reg'.DATA_SC.start
  BY DEF ReadbackInv, LoadingWaits, PacketIsTaken
<1>6. Quiet'
  BY <1>1, <1>2, <1>3, <1>5 DEF Moved, Settled, Quiet, QuietAt, Before, Shown, Pending
<1>7. Shown'
  BY <1>1, <1>2, <1>3 DEF Moved, Settled, Quiet, QuietAt, Before, Shown, Pending
<1>8. EveryStart'
  <2>1. CASE ~Writes(bus, "DATA_SC")
    BY <1>2, <1>3, <1>4, <2>1 DEF Settled, EveryStart, Pending
  <2>2. CASE Writes(bus, "DATA_SC")
    <3>1. ~Pending /\ rd_state = "IDLE"
      BY <1>1, <2>2 DEF Moved, Settled, Quiet, QuietAt, Pending
    <3> QED
      BY <1>2, <1>3, <1>4, <2>2, <3>1 DEF Settled, EveryStart, Pending
  <2> QED
    BY <2>1, <2>2
<1>9. Known'
  BY <1>1 DEF Moved, Settled, Known, QuietAt
<1> QED
  BY <1>6, <1>7, <1>8, <1>9 DEF Settled

-----------------------------------------------------------------------------
(* An edge leaves everything at rest if no START is written. *)
LEMMA RestsOn ==
  ASSUME ReadbackInv, IInv, NEW bus \in AnyWrite \cup {NoWrite}, NEW ready \in BOOLEAN,
         Hardware(bus, ready), ~Writes(bus, "DATA_SC"), Writes(bus, "CMD") => ~bus.value.start,
         rd_state = "IDLE", ~reg.DATA_SC.start, ~reg.CMD.start, current_state \notin Ops
  PROVE  /\ rd_state' = "IDLE" /\ ~reg'.DATA_SC.start
         /\ ~reg'.CMD.start /\ current_state' \notin Ops
<1>1. ControlInv
  BY DEF ReadbackInv
<1>2. /\ Writes(bus, "CMD") => reg'.CMD = bus.value
      /\ ~Writes(bus, "CMD") => reg'.CMD = reg.CMD
      /\ current_state' \in Ops => reg.CMD.start \/ current_state \in Ops
  BY <1>1, HardwareResult
<1>3. rd_state' = "IDLE" /\ ~reg'.DATA_SC.start
  BY SourceMoves, DataScMoves DEF Pending
<1> QED
  BY <1>2, <1>3

(* A run that passed leaves the hardware at rest, and it rests until START. *)
LEMMA RestingStep ==
  ASSUME ReadbackInv, IInv, Settled, passed => Resting, passed', ReadbackNext
  PROVE  Resting'
<1> SUFFICES ASSUME pc' \in Before
             PROVE  /\ rd_state' = "IDLE" /\ ~reg'.DATA_SC.start
                    /\ ~reg'.CMD.start /\ current_state' \notin Ops
  BY DEF Resting
<1> DEFINE rests == /\ rd_state = "IDLE" /\ ~reg.DATA_SC.start
                    /\ ~reg.CMD.start /\ current_state \notin Ops
<1>1. passed /\ pc \in Before => rests
  BY DEF Resting
<1>2. pc = "chunk" => rests
  BY DEF ReadbackInv, Lowered, Reading, Settled, Quiet, QuietAt
<1>3. CASE \/ Sleep \/ Begin \/ Remove \/ Probe \/ PushSof \/ SofDone \/ PushImage
           \/ ChunkDone \/ ImageDone \/ Pass
  <2>1. \E r \in BOOLEAN : Hardware(NoWrite, r)
    BY <1>3 DEF Sleep, Begin, Remove, Probe, PushSof, PushImage, Push, SofDone, ChunkDone,
                ImageDone, Pass, Step, Access
  <2>2. (passed /\ pc \in Before) \/ pc = "chunk"
    <3>1. CASE Sleep
      BY <3>1 DEF Sleep
    <3>2. CASE Begin \/ Remove \/ Probe
      BY <3>2 DEF Begin, Remove, Probe, Goto, Before
    <3>3. CASE PushSof \/ PushImage
      BY <3>3 DEF PushSof, PushImage, Push, Goto, Before
    <3>4. CASE SofDone \/ ChunkDone \/ ImageDone
      BY <3>4 DEF SofDone, ChunkDone, ImageDone, Step, Goto, Before
    <3>5. CASE Pass
      BY <3>5 DEF Pass, Goto
    <3> QED
      BY <1>3, <3>1, <3>2, <3>3, <3>4, <3>5
  <2>3. rests
    BY <1>1, <1>2, <2>2
  <2>4. ~Writes(NoWrite, "CMD") /\ ~Writes(NoWrite, "DATA_SC")
    BY DEF Writes, NoWrite
  <2> QED
    BY <2>1, <2>3, <2>4, RestsOn
<1>4. CASE Disable \/ Enable
  <2>1. PICK v : /\ Write("CMD", v) \in AnyWrite /\ ~v.start /\ Access(Write("CMD", v))
    <3>1. ~ClearedRegisters.CMD.start
      BY DEF ClearedRegisters
    <3>2. ~[ClearedRegisters.CMD EXCEPT !.enable = TRUE].start
      <4>1. \A x \in Cmd : ~x.start => ~[x EXCEPT !.enable = TRUE].start
        BY DEF Cmd
      <4>2. ClearedRegisters.CMD \in Cmd
        BY DEF ClearedRegisters, Cmd
      <4> QED
        BY <3>1, <4>1, <4>2
    <3> QED
      BY <1>4, <3>1, <3>2, ProgramWrites DEF Disable, Enable, Step
  <2> DEFINE bus == Write("CMD", v)
  <2>2. /\ bus \in AnyWrite /\ Access(bus) /\ ~Writes(bus, "DATA_SC")
        /\ Writes(bus, "CMD") => ~bus.value.start
    BY <2>1 DEF Writes, Write
  <2> HIDE DEF bus
  <2>3. \E r \in BOOLEAN : Hardware(bus, r)
    BY <2>2 DEF Access
  <2>4. passed /\ pc \in Before
    BY <1>4 DEF Disable, Enable, Step, Goto, Before
  <2> QED
    BY <1>1, <2>2, <2>3, <2>4, RestsOn
<1>5. ~(WriteTimesOut \/ ConvFails \/ ReadbackFails \/ Killed)
  BY DEF WriteTimesOut, ConvFails, ReadbackFails, Killed, Fail
<1>6. ~(\/ SetStart \/ ClearStart \/ Accepted \/ ConvDone \/ ClearDataSc \/ SetDataRead
        \/ ArmS2m \/ Armed \/ StartData \/ Begun \/ ReadCsr \/ ReadDataSc)
  BY DEF SetStart, ClearStart, Accepted, ConvDone, ClearDataSc, SetDataRead, ArmS2m, Armed,
         StartData, Begun, ReadCsr, ReadDataSc, Step, Goto, Before
<1> QED
  BY <1>3, <1>4, <1>5, <1>6 DEF ReadbackNext, Program

(* While everything rests a beat is stored, or lost, the edge after its push. *)
LEMMA BeatsStep ==
  ASSUME ReadbackInv, IInv, Counted, Settled, passed => Resting /\ Beats, passed', ReadbackNext
  PROVE  Beats'
<1> DEFINE at == {"disable", "enable", "sof", "sofwait", "image", "imagewait",
                  "start", "clear", "check", "conv"}
<1>1. SessionTyped /\ sent \in Nat /\ ImageChunks \in Nat /\ earlier \in Nat
  BY ReadbackAssumption DEF ReadbackInv, SessionTyped, Counted
<1>2. Len(stream) \in Nat
  BY DEF IInv, TypeOK
<1>3. Len(NoBeats) = 0 /\ NoBeats # <<"mark">> /\ NoBeats # <<"data">>
  <2>1. Len(<<"mark">>) = 1 /\ Len(<<"data">>) = 1 /\ Len(NoBeats) = 0
    BY DEF NoBeats
  <2> QED
    BY <2>1
<1>4. CASE \/ Sleep \/ Disable \/ Enable \/ SofDone \/ ChunkDone \/ ImageDone
           \/ SetStart \/ ClearStart \/ Accepted
  <2> SUFFICES ASSUME pc' \in at PROVE Beats'
    BY DEF Beats
  <2>1. PICK bus \in AnyWrite \cup {NoWrite} : Access(bus)
    BY <1>4, ProgramWrites
       DEF Sleep, Disable, Enable, SofDone, ChunkDone, ImageDone, SetStart, ClearStart, Accepted,
           Step
  <2>2. PICK ready \in BOOLEAN : Hardware(bus, ready)
    BY <2>1 DEF Access
  <2>3. m2s' = M2sRest /\ sent' = sent /\ earlier' = earlier /\ passed
    BY <1>4, <2>1 DEF Sleep, Disable, Enable, SofDone, ChunkDone, ImageDone, SetStart, ClearStart,
       Accepted, Step, Access, M2sRuns
  <2>4. \/ pc' = pc
        \/ pc \in {"disable", "enable"} /\ pc' \in {"enable", "sof"}
        \/ pc = "sofwait" /\ pc' = "image"
        \/ pc = "imagewait" /\ pc' = "image"
        \/ pc = "image" /\ pc' = "start" /\ sent = ImageChunks
        \/ pc \in {"start", "clear", "check"} /\ pc' \in {"clear", "check", "conv"}
    BY <1>4 DEF Sleep, Disable, Enable, SofDone, ChunkDone, ImageDone, SetStart, ClearStart,
       Accepted, Step, Goto
  <2>5. rd_state = "IDLE"
    <3>1. pc \in Before \/ pc \in QuietAt
      BY <2>4 DEF Before, QuietAt
    <3> QED
      BY <2>3, <3>1 DEF Resting, Settled, Quiet
  <2>6. /\ m2s = NoBeats => m2s' = NoBeats /\ stream' = stream
        /\ m2s = <<"mark">> => m2s' = NoBeats /\ stream' = stream
        /\ m2s = <<"data">> => m2s' = NoBeats /\ Len(stream') = Len(stream) + 1
    BY <2>2, <2>3, <2>5, SinkMoves
  <2>7. Beats /\ (pc \in {"disable", "enable", "sof"} => m2s = NoBeats)
    BY <2>3 DEF ReadbackInv, LoadingWaits
  <2> QED
    BY <1>1, <1>2, <1>3, <2>3, <2>4, <2>6, <2>7 DEF Beats
<1>5. CASE PushSof \/ PushImage
  <2> DEFINE beat == IF pc = "sof" THEN "mark" ELSE "data"
  <2>1. /\ \/ pc = "sof" /\ pc' = "sofwait" /\ sent' = sent
           \/ pc = "image" /\ pc' = "imagewait" /\ sent' = sent + 1
        /\ m2s' = Append(M2sRest, beat) /\ earlier' = earlier /\ passed
        /\ \E ready \in BOOLEAN : Hardware(NoWrite, ready)
    BY <1>5 DEF PushSof, PushImage, Push, Goto
  <2>2. m2s = NoBeats /\ (pc = "sof" => sent = 0)
    BY <2>1 DEF ReadbackInv, LoadingWaits, Beats
  <2>3. rd_state = "IDLE"
    BY <2>1 DEF Resting, Before
  <2>4. M2sRest = NoBeats /\ stream' = stream
    BY <2>1, <2>2, <2>3, SinkMoves
  <2>5. \A e : Append(<<>>, e) = <<e>>
    OBVIOUS
  <2>6. m2s' = <<beat>>
    BY <2>1, <2>4, <2>5 DEF NoBeats
  <2>7. Beats
    BY <2>1
  <2>8. CASE pc = "sof"
    <3>1. m2s' = <<"mark">> /\ pc' = "sofwait" /\ sent' = 0 /\ stream' = stream
      BY <2>1, <2>2, <2>4, <2>6, <2>8
    <3>2. Len(stream') = earlier'
      BY <2>1, <2>7, <2>8, <3>1 DEF Beats
    <3> QED
      BY <3>1, <3>2 DEF Beats
  <2>9. CASE pc = "image"
    <3>1. m2s' = <<"data">>
      BY <2>6, <2>9
    <3>2. Len(stream) = earlier + sent
      BY <2>7, <2>9 DEF Beats
    <3>3. pc' = "imagewait" /\ sent' = sent + 1
      BY <2>1, <2>9
    <3>4. Len(stream') = earlier' + sent' - 1
      BY <1>1, <2>1, <2>4, <3>2, <3>3
    <3> QED
      BY <3>1, <3>3, <3>4 DEF Beats
  <2> QED
    BY <2>1, <2>8, <2>9
<1>6. ~(WriteTimesOut \/ ConvFails \/ ReadbackFails \/ Killed)
  BY DEF WriteTimesOut, ConvFails, ReadbackFails, Killed, Fail
<1>7. CASE \/ Remove \/ Probe \/ ConvDone \/ ClearDataSc
           \/ SetDataRead \/ ArmS2m \/ Armed \/ StartData \/ Begun \/ ReadCsr \/ ReadDataSc \/ Pass
  <2>1. pc' \notin at
    BY <1>7 DEF Remove, Probe, ConvDone, ClearDataSc, SetDataRead, ArmS2m, Armed, StartData, Begun, ReadCsr, ReadDataSc, Pass, Step, Goto
  <2> QED
    BY <2>1 DEF Beats
<1>8. CASE Begin
  BY <1>8 DEF Begin, Goto, Beats
<1> QED
  BY <1>4, <1>5, <1>6, <1>7, <1>8 DEF ReadbackNext, Program

-----------------------------------------------------------------------------
(* The settings of DATA_READ stay until they are written. *)
LEMMA DataReadMoves ==
  ASSUME ReadbackInv, NEW bus \in AnyWrite \cup {NoWrite}, NEW ready \in BOOLEAN,
         Hardware(bus, ready)
  PROVE  /\ Writes(bus, "DATA_READ") => reg'.DATA_READ = bus.value
         /\ ~Writes(bus, "DATA_READ") => reg'.DATA_READ = reg.DATA_READ
BY HardwareResult DEF ReadbackInv

(* The DMA runs on in every step that gives it no descriptor and no reset. *)
LEMMA DmaRuns ==
  ASSUME ReadbackInv,
         \/ Sleep \/ Disable \/ Enable \/ PushSof \/ SofDone \/ PushImage \/ ChunkDone
         \/ ImageDone \/ SetStart \/ ClearStart \/ Accepted \/ ConvDone \/ ClearDataSc
         \/ SetDataRead \/ Armed \/ StartData \/ Begun \/ ReadCsr \/ ReadDataSc
  PROVE  /\ passed' = passed
         /\ \E bus \in AnyWrite \cup {NoWrite}, ready \in BOOLEAN :
              /\ Hardware(bus, ready) /\ S2mRuns(ready)
              /\ SetDataRead => bus = Write("DATA_READ", [addr |-> word, length |-> word_count])
              /\ ~SetDataRead => ~Writes(bus, "DATA_READ")
<1>1. /\ ~Writes(NoWrite, "DATA_READ")
      /\ \A v : ~Writes(Write("CMD", v), "DATA_READ") /\ ~Writes(Write("DATA_SC", v), "DATA_READ")
  BY DEF Writes, NoWrite, Write
<1>2. ASSUME NEW bus \in AnyWrite \cup {NoWrite}, Access(bus), passed' = passed,
             /\ SetDataRead => bus = Write("DATA_READ", [addr |-> word, length |-> word_count])
             /\ ~SetDataRead => ~Writes(bus, "DATA_READ")
      PROVE  /\ passed' = passed
             /\ \E c \in AnyWrite \cup {NoWrite}, ready \in BOOLEAN :
                  /\ Hardware(c, ready) /\ S2mRuns(ready)
                  /\ SetDataRead => c = Write("DATA_READ", [addr |-> word, length |-> word_count])
                  /\ ~SetDataRead => ~Writes(c, "DATA_READ")
  BY <1>2 DEF Access
<1>3. CASE SetDataRead
  <2>1. /\ pc = "command" /\ passed' = passed
        /\ Access(Write("DATA_READ", [addr |-> word, length |-> word_count]))
    BY <1>3 DEF SetDataRead, Step, Goto
  <2> QED
    BY <1>2, <1>3, <2>1, ProgramWrites
<1>4. CASE ~SetDataRead
  <2>1. CASE PushSof \/ PushImage
    <3>1. /\ passed' = passed
          /\ \E ready \in BOOLEAN : Hardware(NoWrite, ready) /\ S2mRuns(ready)
      BY <2>1 DEF PushSof, PushImage, Push
    <3> QED
      BY <1>1, <1>4, <3>1
  <2>2. CASE Sleep \/ ReadCsr \/ ReadDataSc
    BY <1>1, <1>2, <1>4, <2>2 DEF Sleep, ReadCsr, ReadDataSc
  <2>3. CASE \/ SofDone \/ ChunkDone \/ ImageDone \/ Accepted \/ ConvDone \/ Armed \/ Begun
    <3>1. passed' = passed /\ Access(NoWrite)
      BY <2>3 DEF SofDone, ChunkDone, ImageDone, Accepted, ConvDone, Armed, Begun, Step
    <3> QED
      BY <1>1, <1>2, <1>4, <3>1
  <2>4. CASE Disable \/ Enable \/ SetStart \/ ClearStart
    <3>1. passed' = passed /\ \E v : Write("CMD", v) \in AnyWrite /\ Access(Write("CMD", v))
      BY <2>4, ProgramWrites DEF Disable, Enable, SetStart, ClearStart, Step
    <3> QED
      BY <1>1, <1>2, <1>4, <3>1
  <2>5. CASE ClearDataSc \/ StartData
    <3>1. passed' = passed /\ \E v : Write("DATA_SC", v) \in AnyWrite /\ Access(Write("DATA_SC", v))
      BY <2>5, ProgramWrites DEF ClearDataSc, StartData, Step
    <3> QED
      BY <1>1, <1>2, <1>4, <3>1
  <2> QED
    BY <1>4, <2>1, <2>2, <2>3, <2>4, <2>5
<1> QED
  BY <1>3, <1>4

(* Until a descriptor is given the DMA has nothing to do. *)
LEMMA NothingReceived ==
  ASSUME ReadbackInv, IInv, Settled, Resting, Received, pc \in ReceivesNothing,
         \/ Sleep \/ Disable \/ Enable \/ PushSof \/ SofDone \/ PushImage \/ ChunkDone
         \/ ImageDone \/ SetStart \/ ClearStart \/ Accepted \/ ConvDone \/ ClearDataSc
         \/ SetDataRead
  PROVE  Received'
<1>1. PICK bus \in AnyWrite \cup {NoWrite}, ready \in BOOLEAN :
        /\ Hardware(bus, ready) /\ S2mRuns(ready)
        /\ SetDataRead => bus = Write("DATA_READ", [addr |-> word, length |-> word_count])
        /\ ~SetDataRead => ~Writes(bus, "DATA_READ")
  BY DmaRuns
<1>2. /\ pc' \in ReceivesNothing /\ word' = word /\ (pc' \notin Reading => pc \notin Reading)
      /\ pc' = "chunk" => pc = "chunk" \/ (pc = "conv" /\ word = 0)
      /\ pc' = "arm" => SetDataRead \/ (pc = "arm" /\ ~SetDataRead)
  <2>1. pc \notin Reading => word = 0
    BY DEF Received
  <2>2. CASE Sleep
    BY <2>2 DEF Sleep, SetDataRead, Step, Goto
  <2>3. CASE Disable \/ Enable \/ SofDone \/ ChunkDone \/ ImageDone \/ SetStart \/ ClearStart
             \/ Accepted \/ ConvDone \/ ClearDataSc \/ SetDataRead
    BY <2>1, <2>3 DEF Disable, Enable, SofDone, ChunkDone, ImageDone, SetStart, ClearStart,
                Accepted, ConvDone, ClearDataSc, SetDataRead, Step, Goto, Reading, ReceivesNothing
  <2>4. CASE PushSof \/ PushImage
    BY <2>4 DEF PushSof, PushImage, Push, Goto, Reading, ReceivesNothing
  <2> QED
    BY <2>2, <2>3, <2>4
<1>3. rd_state = "IDLE" /\ ~Pending
  <2>1. pc \in Before \/ pc \in QuietAt
    BY DEF ReceivesNothing, Before, QuietAt
  <2> QED
    BY <2>1 DEF Resting, Settled, Quiet, Pending
<1>4. s2m' = NoWords
  BY <1>1, <1>3, NoWordsStay DEF Received
<1>5. packet' = packet /\ cmd_start_addr' = cmd_start_addr /\ cmd_length' = cmd_length
  BY <1>1, <1>3, SourceMoves
<1>6. pc' = "arm" => reg'.DATA_READ.addr = word' /\ reg'.DATA_READ.length = word_count'
  <2>1. word_count' = word_count
    BY <1>2 DEF word_count
  <2>2. CASE SetDataRead
    <3>1. /\ Writes(bus, "DATA_READ")
          /\ bus.value = [addr |-> word, length |-> word_count]
      BY <1>1, <2>2 DEF Write, Writes
    <3>2. reg'.DATA_READ = [addr |-> word, length |-> word_count]
      BY <1>1, <3>1, DataReadMoves
    <3> QED
      BY <1>2, <2>1, <3>2
  <2>3. CASE pc = "arm" /\ ~SetDataRead
    <3>1. reg'.DATA_READ = reg.DATA_READ
      BY <1>1, <2>3, DataReadMoves
    <3> QED
      BY <1>2, <2>1, <2>3, <3>1 DEF Received
  <2> QED
    BY <1>2, <2>2, <2>3
<1>7. pc' = "chunk" /\ word' > 0 =>
        Len(packet') = cmd_length' /\ cmd_start_addr' + cmd_length' = word'
  <2>1. ~(0 > 0)
    OBVIOUS
  <2> QED
    BY <1>2, <1>5, <2>1 DEF Received
<1>8. pc' \notin {"armed", "go", "begun", "drain", "drain2"}
  BY <1>2 DEF ReceivesNothing
<1>9. word' = 0 \/ pc' \in Reading
  BY <1>2 DEF Received
<1> QED
  BY <1>4, <1>6, <1>7, <1>8, <1>9 DEF Received

(* The descriptor is as long as the packet that is asked for, and waits for it. *)
LEMMA ChunkAsked ==
  ASSUME ReadbackInv, IInv, Settled, Received,
         pc \in {"armed", "go"} \/ (pc = "begun" /\ Pending),
         Sleep \/ Armed \/ StartData \/ Begun
  PROVE  Received'
<1>1. PICK bus \in AnyWrite \cup {NoWrite}, ready \in BOOLEAN :
        /\ Hardware(bus, ready) /\ S2mRuns(ready) /\ ~Writes(bus, "DATA_READ")
        /\ StartData => Writes(bus, "DATA_SC") /\ bus.value.start
  <2>1. CASE StartData
    <3> DEFINE v == [start |-> TRUE, busy |-> FALSE, done |-> FALSE]
               bus == Write("DATA_SC", v)
    <3>1. /\ bus \in AnyWrite /\ Writes(bus, "DATA_SC") /\ bus.value.start
          /\ ~Writes(bus, "DATA_READ")
      BY ProgramWrites DEF Write, Writes
    <3>2. Access(bus)
      BY <2>1 DEF StartData, Step
    <3> HIDE DEF bus
    <3> QED
      BY <3>1, <3>2 DEF Access
  <2>2. CASE ~StartData
    <3>1. ~SetDataRead
      BY DEF SetDataRead, Step, Goto
    <3> QED
      BY <2>2, <3>1, DmaRuns
  <2> QED
    BY <2>1, <2>2
<1>2. /\ word' = word
      /\ \/ pc' = pc \/ (pc = "armed" /\ pc' = "go")
         \/ pc = "go" /\ pc' = "begun" /\ StartData
  <2>1. ~Begun
    BY DEF Begun, Step, Goto, Settled, Shown, Pending
  <2> QED
    BY <2>1 DEF Sleep, Armed, StartData, Step, Goto
<1>3. /\ rd_state = "IDLE"
      /\ pc \in {"armed", "go"} => ~Pending
      /\ reg.DATA_READ.length > 0
  BY DEF Settled, Quiet, QuietAt, Pending, ReadbackInv, PacketIsTaken
<1>4. /\ s2m.left = word_count /\ s2m.held = 0 /\ s2m.busy
      /\ reg.DATA_READ.addr = word /\ reg.DATA_READ.length = word_count
  BY DEF Received
<1>5. word_count \in Int /\ SessionTyped /\ s2m.freed \in BOOLEAN
  BY <1>4, ReadbackAssumption, BoundAssumption, SizeAssumption DEF ReadbackInv, SessionTyped
<1>6. word_count' = word_count
  BY <1>2 DEF word_count
<1> HIDE DEF word_count
<1>7. s2m'.left = word_count /\ s2m'.held = 0 /\ s2m'.busy
  <2>1. S2mEdge(ready, s2m.freed) /\ ~(rd_state = "SEND")
    BY <1>1, <1>3 DEF S2mRuns
  <2>2. /\ \E writes \in 0 .. 1 :
             /\ writes <= s2m.left /\ writes <= s2m.held
             /\ s2m'.left = s2m.left - writes
             /\ s2m'.held = s2m.held - writes + (IF rd_state = "SEND" /\ ready THEN 1 ELSE 0)
        /\ s2m.busy /\ s2m.left > 0 => s2m'.busy
    BY <1>5, <2>1, S2mMoves
  <2> QED
    BY <1>3, <1>4, <1>5, <2>1, <2>2
<1>8. reg'.DATA_READ = reg.DATA_READ
  BY <1>1, DataReadMoves
<1>9. CASE ~Pending
  <2>1. rd_state' = "IDLE"
    BY <1>1, <1>3, <1>9, SourceMoves
  <2>2. StartData => reg'.DATA_SC.start
    BY <1>1, DataScMoves
  <2>3. pc' = "begun" => Pending'
    BY <1>2, <1>9, <2>1, <2>2 DEF Pending
  <2>4. pc' \in {"armed", "go", "begun"}
    BY <1>2
  <2> QED
    BY <1>2, <1>4, <1>6, <1>7, <1>8, <2>3, <2>4 DEF Received, ReceivesNothing
<1>10. CASE Pending
  <2>1. /\ rd_state' = "PREFETCH" /\ packet' = <<>>
        /\ cmd_start_addr' = word /\ cmd_length' = word_count
    BY <1>1, <1>4, <1>10, SourceMoves
  <2>2. pc' = "begun" /\ ~Pending'
    BY <1>2, <1>3, <1>10, <2>1 DEF Pending
  <2>3. s2m'.left + Len(packet') = cmd_length' + s2m'.held
    <3>1. Len(packet') = 0
      BY <2>1
    <3> QED
      BY <1>5, <1>7, <2>1, <3>1
  <2> QED
    BY <1>2, <1>4, <1>6, <1>7, <1>8, <2>1, <2>2, <2>3 DEF Received, ReceivesNothing
<1> QED
  BY <1>9, <1>10

(* Every word of the packet is still to send, in the DMA or written; when both ends
   are seen idle all are written, and none is held back.                   *)
LEMMA ChunkReceived ==
  ASSUME ReadbackInv, IInv, Settled, Received,
         pc \in {"begun", "drain", "drain2"}, ~Pending,
         Sleep \/ Begun \/ ReadCsr \/ ReadDataSc
  PROVE  Received'
<1>1. Access(NoWrite) /\ ~Writes(NoWrite, "DATA_READ") /\ ~Writes(NoWrite, "DATA_SC")
  BY DEF NoWrite, Writes, Sleep, Begun, ReadCsr, ReadDataSc, Step
<1>2. PICK bus \in AnyWrite \cup {NoWrite}, ready \in BOOLEAN :
        /\ Hardware(bus, ready) /\ S2mRuns(ready)
        /\ ~Writes(bus, "DATA_READ") /\ ~Writes(bus, "DATA_SC")
  BY <1>1 DEF Access
<1>3. /\ cmd_start_addr = word /\ cmd_length = word_count
      /\ s2m.left + Len(packet) = cmd_length + s2m.held
      /\ s2m.left > 0 => s2m.busy
      /\ pc = "begun" => reg.DATA_READ.addr = word /\ reg.DATA_READ.length = word_count
      /\ pc = "drain2" /\ drained => ~s2m.busy
  BY DEF Received
<1>4. /\ SessionTyped /\ s2m.freed \in BOOLEAN
      /\ s2m.left \in Nat /\ s2m.held \in Nat /\ s2m.busy \in BOOLEAN
  BY ReadbackAssumption, BoundAssumption, SizeAssumption DEF ReadbackInv, SessionTyped, Addr
<1>5. Len(packet) \in Nat /\ cmd_length \in Nat /\ cmd_start_addr \in Nat
  BY SizeAssumption DEF IInv, TypeOK, Addr
<1>6. S2mEdge(ready, s2m.freed)
  BY <1>2 DEF S2mRuns
<1>7. PICK writes \in 0 .. 1 :
        /\ writes <= s2m.left /\ writes <= s2m.held
        /\ s2m'.left = s2m.left - writes
        /\ s2m'.held = s2m.held - writes + (IF rd_state = "SEND" /\ ready THEN 1 ELSE 0)
  BY <1>4, <1>6, S2mMoves
<1>8. /\ s2m.busy /\ s2m.left > 0 => s2m'.busy
      /\ s2m'.busy => s2m.busy \/ s2m.left > 0
  BY <1>4, <1>6, S2mMoves
<1>9. /\ cmd_start_addr' = cmd_start_addr /\ cmd_length' = cmd_length
      /\ Len(packet') = Len(packet) + (IF rd_state = "SEND" /\ ready THEN 1 ELSE 0)
      /\ rd_state = "IDLE" => rd_state' = "IDLE" /\ packet' = packet
  <2>1. CASE rd_state = "IDLE"
    BY <1>2, <1>5, <2>1, SourceMoves
  <2>2. CASE rd_state # "IDLE"
    BY <1>2, <2>2, SourceMoves
  <2> QED
    BY <2>1, <2>2
<1>10. s2m'.left + Len(packet') = cmd_length' + s2m'.held
  <2> DEFINE l == s2m.left
             h == s2m.held
             n == Len(packet)
  <2>1. PICK taken \in 0 .. 1 : s2m'.held = (h - writes) + taken /\ Len(packet') = n + taken
    BY <1>7, <1>9
  <2>2. cmd_length' = cmd_length /\ s2m'.left = l - writes
    BY <1>7, <1>9
  <2>3. l + n = cmd_length + h
    BY <1>3, Zenon
  <2>4. l \in Int /\ h \in Int /\ n \in Int /\ cmd_length \in Int
    BY <1>4, <1>5
  <2> HIDE DEF l, h, n
  <2>5. (l - writes) + (n + taken) = cmd_length + ((h - writes) + taken)
    BY <2>3, <2>4
  <2> QED
    BY <2>1, <2>2, <2>5, Zenon
<1>11. s2m'.left > 0 => s2m'.busy
  BY <1>3, <1>4, <1>7, <1>8
<1>12. CASE pc' \in {"begun", "drain", "drain2"}
  <2>1. word' = word /\ (pc' = "begun" => pc = "begun")
    BY <1>12 DEF Sleep, Begun, ReadCsr, ReadDataSc, Step, Goto
  <2>2. word_count' = word_count
    BY <2>1 DEF word_count
  <2>3. reg'.DATA_READ = reg.DATA_READ
    BY <1>2, DataReadMoves
  <2>4. ~Pending'
    <3>1. ~Writes(bus, "DATA_SC") => ~reg'.DATA_SC.start
      BY <1>2, DataScMoves
    <3> QED
      BY <1>2, <3>1 DEF Pending
  <2>5. pc' = "drain2" /\ drained' => ~s2m'.busy
    <3>1. pc' = "drain2" /\ drained' => ~s2m.busy
      BY <1>3, <1>12 DEF Sleep, Begun, ReadCsr, ReadDataSc, Step, Goto
    <3> QED
      BY <1>3, <1>8, <3>1
  <2> QED
    BY <1>3, <1>9, <1>10, <1>11, <1>12, <2>1, <2>2, <2>3, <2>4, <2>5 DEF Received, ReceivesNothing
<1>13. CASE pc' \notin {"begun", "drain", "drain2"}
  <2>1. /\ pc = "drain2" /\ pc' = "chunk" /\ word' = word + word_count
        /\ drained /\ ~reg.DATA_SC.busy
    BY <1>13 DEF Sleep, Begun, ReadCsr, ReadDataSc, Step, Goto
  <2>2. rd_state = "IDLE"
    BY <2>1 DEF Settled, Shown
  <2>3. Len(packet) = cmd_length
    BY <2>2 DEF IInv, Position
  <2>4. ~s2m.busy /\ s2m.left = 0 /\ s2m.held = 0
    BY <1>3, <1>4, <1>5, <2>1, <2>3
  <2>5. ~s2m.freed
    BY <2>1 DEF ReadbackInv, TransferHasItsBuffer, Running
  <2>6. s2m = NoWords
    BY <1>4, <2>4, <2>5 DEF SessionTyped, NoWords
  <2>7. s2m' = NoWords
    BY <1>2, <2>2, <2>6, NoWordsStay
  <2>8. Len(packet') = cmd_length' /\ cmd_start_addr' + cmd_length' = word'
    BY <1>3, <1>9, <2>1, <2>2, <2>3
  <2> QED
    BY <2>1, <2>7, <2>8 DEF Received, Reading
<1> QED
  BY <1>12, <1>13

(* The descriptor is given for the words that are asked for. *)
LEMMA DescriptorGiven ==
  ASSUME ReadbackInv, IInv, Received, ArmS2m
  PROVE  Received'
<1>1. /\ pc = "arm" /\ pc' = "armed" /\ word' = word /\ Hardware(NoWrite, FALSE)
      /\ s2m' = S2mArmed(word_count)
  BY DEF ArmS2m, Goto
<1>2. ~Writes(NoWrite, "DATA_READ")
  BY DEF Writes, NoWrite
<1>3. reg'.DATA_READ = reg.DATA_READ
  BY <1>1, <1>2, DataReadMoves
<1>4. word_count' = word_count
  BY <1>1 DEF word_count
<1>5. s2m = NoWords /\ reg.DATA_READ.addr = word /\ reg.DATA_READ.length = word_count
  BY <1>1 DEF Received, ReceivesNothing
<1> HIDE DEF word_count
<1>6. s2m'.left = word_count /\ s2m'.held = 0 /\ s2m'.busy
  BY <1>1, <1>5 DEF S2mArmed, NoWords
<1> QED
  BY <1>1, <1>3, <1>4, <1>5, <1>6 DEF Received, ReceivesNothing

LEMMA ReceivedStep ==
  ASSUME ReadbackInv, IInv, Settled, passed => Resting /\ Received, passed', ReadbackNext
  PROVE  Received'
<1> DEFINE steps == \/ Sleep \/ Disable \/ Enable \/ PushSof \/ SofDone \/ PushImage \/ ChunkDone
                    \/ ImageDone \/ SetStart \/ ClearStart \/ Accepted \/ ConvDone \/ ClearDataSc
                    \/ SetDataRead
           readings == Sleep \/ Begun \/ ReadCsr \/ ReadDataSc
           asking == {"armed", "go"}
           ending == {"begun", "drain", "drain2"}
<1>1. ASSUME pc' \in {"ended", "unloaded"} PROVE Received'
  BY <1>1 DEF Received, ReceivesNothing
<1>2. CASE Pass \/ Remove \/ Probe
  BY <1>1, <1>2 DEF Pass, Remove, Probe, Goto
<1>3. CASE Begin
  <2>1. pc' = "disable" /\ s2m' = NoWords /\ word' = 0
    BY <1>3 DEF Begin, Goto
  <2> QED
    BY <2>1 DEF Received, ReceivesNothing
<1>4. ~(WriteTimesOut \/ ConvFails \/ ReadbackFails \/ Killed)
  BY DEF WriteTimesOut, ConvFails, ReadbackFails, Killed, Fail
<1>5. CASE ArmS2m
  BY <1>5, DescriptorGiven DEF ArmS2m
<1>6. CASE steps \/ Armed \/ StartData \/ Begun \/ ReadCsr \/ ReadDataSc
  <2>1. passed
    BY <1>6, DmaRuns
  <2>2. Resting /\ Received
    BY <2>1
  <2>3. CASE pc \in ReceivesNothing
    <3>1. steps
      BY <1>6, <2>3 DEF Armed, StartData, Begun, ReadCsr, ReadDataSc, Step, Goto, ReceivesNothing
    <3> QED
      BY <2>2, <2>3, <3>1, NothingReceived
  <2>4. CASE pc \in asking
    <3>1. Sleep \/ Armed \/ StartData
      BY <1>6, <2>4 DEF Begun, ReadCsr, ReadDataSc, Disable, Enable, SofDone, ChunkDone,
         ImageDone, SetStart, ClearStart, Accepted, ConvDone, ClearDataSc, SetDataRead, PushSof,
         PushImage, Push, Step, Goto
    <3> QED
      BY <2>2, <2>4, <3>1, ChunkAsked
  <2>5. CASE pc \in ending
    <3>1. readings
      BY <1>6, <2>5 DEF Armed, StartData, Disable, Enable, SofDone, ChunkDone,
         ImageDone, SetStart, ClearStart, Accepted, ConvDone, ClearDataSc, SetDataRead, PushSof,
         PushImage, Push, Step, Goto
    <3>2. CASE ~Pending
      BY <2>2, <2>5, <3>1, <3>2, ChunkReceived
    <3>3. CASE Pending
      <4>1. pc = "begun"
        BY <2>5, <3>3 DEF Settled, Shown, Pending
      <4>2. Sleep \/ Begun
        BY <3>1, <4>1 DEF ReadCsr, ReadDataSc, Goto
      <4> QED
        BY <2>2, <3>3, <4>1, <4>2, ChunkAsked
    <3> QED
      BY <3>2, <3>3
  <2>6. CASE pc \notin ReceivesNothing \cup asking \cup ending
    <3>1. Sleep
      BY <1>6, <2>6 DEF Armed, StartData, Begun, ReadCsr, ReadDataSc, Disable, Enable, SofDone,
         ChunkDone, ImageDone, SetStart, ClearStart, Accepted, ConvDone, ClearDataSc, SetDataRead,
         PushSof, PushImage, Push, Step, Goto, ReceivesNothing
    <3> QED
      BY <2>6, <3>1 DEF Sleep, Received, ReceivesNothing
  <2> QED
    BY <2>3, <2>4, <2>5, <2>6
<1> QED
  BY <1>2, <1>3, <1>4, <1>5, <1>6 DEF ReadbackNext, Program

(* Whatever the run before left is gone when it passed. *)
LEMMA RunInductive ==
  ASSUME M2sDepth <= ImageChunks
  PROVE  /\ ReadbackInv /\ IInv /\ Counted /\ Settled /\ AfterPass /\ [ReadbackNext]_readbackVars
              => Settled' /\ AfterPass'
<1> SUFFICES ASSUME ReadbackInv, IInv, Counted, Settled, AfterPass, [ReadbackNext]_readbackVars
             PROVE  Settled' /\ AfterPass'
  OBVIOUS
<1>1. CASE UNCHANGED readbackVars
  BY <1>1 DEF readbackVars, programVars, controlVars, vars, cmdVars, rdVars, topVars, history,
     Settled, Known, Quiet, Shown, EveryStart, Pending, AfterPass, Resting, Beats, Received, word_count
<1>2. CASE ReadbackNext
  <2>1. ReadbackInv'
    BY <1>2, SessionInductive
  <2>2. Settled'
    BY <1>2, <2>1, SettledStep
  <2>3. ASSUME passed' PROVE Resting' /\ Beats' /\ Received'
    BY <1>2, <2>3, RestingStep, BeatsStep, ReceivedStep DEF AfterPass
  <2> QED
    BY <2>2, <2>3 DEF AfterPass
<1> QED
  BY <1>1, <1>2

LEMMA RunInitially == ReadbackInit => Settled /\ AfterPass
<1> SUFFICES ASSUME ReadbackInit PROVE Settled /\ AfterPass
  OBVIOUS
<1>1. /\ pc = "ended" /\ reg = ClearedRegisters /\ current_state = "IDLE" /\ rd_state = "IDLE"
      /\ packets = 0 /\ dataStarts = 0
  BY DEF ReadbackInit, ControlInit, Init
<1>2. ~reg.CMD.start /\ ~reg.DATA_SC.start /\ current_state \notin Ops
  BY <1>1 DEF ClearedRegisters, Ops
<1>3. Settled
  BY <1>1, <1>2 DEF Settled, Known, Before, Quiet, QuietAt, Shown, EveryStart, Pending
<1>4. Resting /\ Beats /\ Received
  BY <1>1, <1>2 DEF Resting, Beats, Received, ReceivesNothing
<1> QED
  BY <1>3, <1>4 DEF AfterPass

(* The hardware is at rest between a run that passed and the START of the next,
   which has its image in the RAM and its chunks on their way; for any RAM, any
   chunking and any number of runs.                                        *)
THEOREM RunInvariance ==
  ASSUME M2sDepth <= ImageChunks
  PROVE  ReadbackSpec => [](Settled /\ AfterPass)
<1>1. /\ ReadbackInv /\ IInv /\ Counted /\ (Settled /\ AfterPass) /\ [ReadbackNext]_readbackVars
           => (Settled /\ AfterPass)'
  BY RunInductive
<1> QED
  BY <1>1, RunInitially, ReadbackInvariance, ProgramUsesDataInterface, Invariance,
     EarlierCounted, PTL
     DEF ReadbackSpec

(* After a run that passed an operation finds the whole image in the RAM, and no
   beat of it in the DMA.                                                  *)
THEOREM ImageLoaded ==
  ASSUME M2sDepth <= ImageChunks
  PROVE  ReadbackSpec => []ImageIsLoaded
<1>1. ReadbackInv /\ Settled /\ AfterPass => ImageIsLoaded
  <2> SUFFICES ASSUME ReadbackInv, Settled, AfterPass, current_state \in Ops, passed
               PROVE  m2s = NoBeats /\ Len(stream) = earlier + ImageChunks
    BY DEF ImageIsLoaded
  <2>1. pc \notin Before
    BY DEF AfterPass, Resting
  <2>2. pc \notin Reading
    BY DEF ReadbackInv, Lowered
  <2>3. pc \in {"clear", "check", "conv"}
    BY <2>1, <2>2 DEF Settled, Known, Before, QuietAt, Reading
  <2> QED
    BY <2>3 DEF AfterPass, Beats
<1> QED
  BY <1>1, RunInvariance, ReadbackInvariance, PTL

(* A chunk the program has counted is in memory whole, and neither end holds
   anything back for the next.                                             *)
THEOREM ChunkComplete ==
  ASSUME M2sDepth <= ImageChunks
  PROVE  ReadbackSpec => []ChunkIsComplete
<1>1. ReadbackInv /\ Settled /\ AfterPass => ChunkIsComplete
  <2> SUFFICES ASSUME ReadbackInv, Settled, AfterPass, pc = "chunk", word > 0, passed
               PROVE  /\ rd_state = "IDLE" /\ s2m = NoWords
                      /\ Len(packet) = cmd_length
                      /\ cmd_start_addr + cmd_length = word
                      /\ packets = dataStarts
    BY DEF ChunkIsComplete
  <2>1. rd_state = "IDLE" /\ ~Pending
    BY DEF Settled, Quiet, QuietAt, Pending
  <2>2. packets = dataStarts
    <3>1. packets \in Nat
      BY DEF ReadbackInv, ControlInv, ControlTyped
    <3> QED
      BY <2>1, <3>1 DEF Settled, EveryStart
  <2> QED
    BY <2>1, <2>2 DEF AfterPass, Received, ReceivesNothing
<1> QED
  BY <1>1, RunInvariance, ReadbackInvariance, PTL
=============================================================================

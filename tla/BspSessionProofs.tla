-------------------------- MODULE BspSessionProofs --------------------------
(***************************************************************************)
(* What the support library promises its caller, for any sequence of       *)
(* calls, of any operations, over any number of clock edges: a wait that   *)
(* succeeds speaks of the operation that was started and is over, and that *)
(* operation ran with the settings that were configured before it.  An     *)
(* operation may end while START is still set and be launched again.       *)
(* Assumed is only that START is held for two clock edges at least: one    *)
(* fewer and neurax_wait_done could read the DONE of the operation before. *)
(* That every variable keeps its type is proved without this.              *)
(***************************************************************************)
EXTENDS Configuration, ControlPlaneProofs

SessionTyped ==
  /\ pc \in {"caller", "resetting", "reset", "starting", "started", "polled"}
  /\ slept \in 0 .. Hold
  /\ cmd \in Cmd
  /\ before \in Nat /\ free \in BOOLEAN
  /\ waited \in {"none", "done", "timeout"}

TypedInv == ControlInv /\ SessionTyped

(* Outside neurax_start nothing can be launched. *)
StartIsCleared == pc # "starting" => ~reg.CMD.start

(* While START is set: two edges after neurax_start found the accelerator free
   the launch is over, and what it launched may be over too.               *)
WhileStarting ==
  pc = "starting" =>
    /\ reg.CMD = cmd /\ cmd.enable /\ cmd.start
    /\ operations >= before
    /\ free =>
         /\ slept = 0 => operations = before /\ current_state \notin Ops
         /\ slept = 1 => operations > before \/ (operations = before /\ current_state = "IDLE")
         /\ slept > 1 => \/ operations > before
                         \/ /\ operations = before /\ current_state = "IDLE"
                            /\ ~done_latch /\ cmd.op = 3

(* Once it is cleared: DONE means that an operation launched since has ended. *)
WhileWaiting ==
  pc \in {"started", "polled"} /\ free =>
    /\ reg.STATUS.done \/ done_latch => Ended > before
    /\ current_state \in Ops => operations > before

(* What neurax_wait_done has reported stays true until the next call. *)
Reported == waited = "done" => pc = "caller" /\ WaitDoneIsCurrent

(* The inductive invariant. *)
SessionInv == TypedInv /\ StartIsCleared /\ WhileStarting /\ WhileWaiting /\ Reported

-----------------------------------------------------------------------------
(* One clock edge with a register access: what it does to the command, the
   status and the operation.                                               *)
LEMMA AccessResult ==
  ASSUME ControlInv, NEW bus \in AnyWrite \cup {NoWrite}, Access(bus)
  PROVE  /\ ControlInv' /\ Clock
         /\ reg'.STATUS.done = done_latch
         /\ Writes(bus, "CMD") => reg'.CMD = bus.value
         /\ ~Writes(bus, "CMD") => reg'.CMD = reg.CMD
         /\ \/ /\ current_state = "IDLE" /\ reg.CMD.enable /\ reg.CMD.start /\ ~done_latch'
               /\ \/ reg.CMD.op = 3 /\ current_state' = "IDLE" /\ operations' = operations
                  \/ /\ reg.CMD.op # 3 /\ current_state' \in Ops
                     /\ operations' = operations + 1
            \/ /\ current_state = "IDLE" /\ ~(reg.CMD.enable /\ reg.CMD.start)
               /\ current_state' = "IDLE" /\ UNCHANGED <<done_latch, operations>>
            \/ /\ current_state \in Ops /\ current_state' = current_state
               /\ UNCHANGED <<done_latch, operations>>
            \/ /\ current_state \in Ops /\ current_state' = "DONE_ST" /\ operations' = operations
            \/ /\ current_state = "DONE_ST" /\ current_state' = "IDLE"
               /\ UNCHANGED <<done_latch, operations>>
<1> DEFINE asi == [valid |-> FALSE]
           b   == [wren |-> FALSE]
<1>1. PICK unit_done \in BOOLEAN : Edge(bus, unit_done, asi, FALSE, b)
  BY DEF Access
<1>2. unit_done \in BOOLEAN /\ asi \in Beat /\ b \in Results
  BY DEF Beat, Results, PortB
<1>3. ControlTyped /\ operations \in Nat
  BY DEF ControlInv, ControlTyped
<1>4. ControlInv'
  BY <1>1, <1>2, EdgeStep
<1>5. Clock
  BY <1>1, <1>2, <1>3, DataEdgeResult DEF Edge
<1>6. /\ reg'.STATUS.done = done_latch
      /\ Writes(bus, "CMD") => reg'.CMD = bus.value
      /\ ~Writes(bus, "CMD") => reg'.CMD = reg.CMD
  BY <1>1, <1>3, RegisterResult DEF Edge
<1>7. operations' = operations + (IF current_state = "IDLE" /\ current_state' \in Ops
                                    THEN 1 ELSE 0)
  BY <1>1 DEF Edge, Count
<1>8. TopEdge(unit_done)
  BY <1>1 DEF Edge
<1>9. reg.CMD.op \in 0 .. 3
  BY <1>3 DEF ControlTyped, Registers, Cmd
<1>10. CASE Launches
  <2>1. current_state = "IDLE" /\ reg.CMD.enable /\ reg.CMD.start /\ ~done_latch'
    BY <1>8, <1>10 DEF TopEdge, Launches, Ops
  <2>2. current_state' = IF reg.CMD.op = 3 THEN "IDLE" ELSE Units[reg.CMD.op + 1]
    BY <1>8, <1>10 DEF TopEdge, Launches, Ops
  <2>3. reg.CMD.op # 3 => Units[reg.CMD.op + 1] \in Ops
    BY <1>9 DEF Units, Ops
  <2>4. "IDLE" \notin Ops
    BY DEF Ops
  <2>5. \/ reg.CMD.op = 3 /\ current_state' = "IDLE" /\ operations' = operations
        \/ reg.CMD.op # 3 /\ current_state' \in Ops /\ operations' = operations + 1
    BY <1>3, <1>7, <2>1, <2>2, <2>3, <2>4
  <2> QED
    BY <1>4, <1>5, <1>6, <2>1, <2>5
<1>11. CASE ~Launches
  <2>1. \/ /\ current_state = "IDLE" /\ UNCHANGED <<current_state, done_latch>>
        \/ /\ current_state \in Ops /\ ~unit_done /\ current_state' = current_state
           /\ done_latch' = (done_latch \/ unit_done)
        \/ current_state \in Ops /\ unit_done /\ current_state' = "DONE_ST"
        \/ /\ current_state = "DONE_ST" /\ current_state' = "IDLE" /\ UNCHANGED done_latch
    BY <1>2, <1>8, <1>11 DEF TopEdge, topVars
  <2>2. operations' = operations
    BY <1>3, <1>7, <2>1 DEF Ops
  <2>3. done_latch \in BOOLEAN
    BY <1>3 DEF ControlTyped
  <2> QED
    BY <1>4, <1>5, <1>6, <1>11, <2>1, <2>2, <2>3 DEF Launches
<1> QED
  BY <1>10, <1>11

(* The two kinds of access. *)
LEMMA AccessKinds ==
  /\ NoWrite \in AnyWrite \cup {NoWrite} /\ ~Writes(NoWrite, "CMD")
  /\ \A v \in Cmd : /\ Write("CMD", v) \in AnyWrite \cup {NoWrite}
                   /\ Writes(Write("CMD", v), "CMD") /\ Write("CMD", v).value = v
BY DEF NoWrite, AnyWrite, Write, Writes

(* Operations are launched and come to their end, never the reverse; one that
   is in progress does not yet count as ended, and shows no DONE.          *)
LEMMA AccessCounts ==
  ASSUME ControlInv, NEW bus \in AnyWrite \cup {NoWrite}, Access(bus)
  PROVE  /\ operations \in Nat /\ operations' \in Nat
         /\ Ended \in Int /\ Ended' \in Int
         /\ operations' \in {operations, operations + 1}
         /\ Ended' >= Ended
         /\ current_state \in Ops => ~done_latch /\ Ended = operations - 1
         /\ current_state \notin Ops => Ended = operations
         /\ current_state' \in Ops => ~done_latch' /\ Ended' = operations' - 1
         /\ current_state' \notin Ops => Ended' = operations'
<1>1. operations \in Nat /\ (current_state \in Ops => ~done_latch)
  BY DEF ControlInv, ControlTyped, DoneIsNotBusy
<1>2. ControlInv'
  BY AccessResult
<1>3. operations' \in Nat /\ (current_state' \in Ops => ~done_latch')
  BY <1>2 DEF ControlInv, ControlTyped, DoneIsNotBusy
<1>4. "IDLE" \notin Ops /\ "DONE_ST" \notin Ops
  BY DEF Ops
<1>5. /\ operations' \in {operations, operations + 1}
      /\ operations' = operations => (current_state' \in Ops => current_state \in Ops)
      /\ operations' = operations + 1 => current_state \notin Ops
  BY <1>1, <1>4, AccessResult
<1>6. /\ current_state \in Ops => Ended = operations - 1
      /\ current_state \notin Ops => Ended = operations
      /\ current_state' \in Ops => Ended' = operations' - 1
      /\ current_state' \notin Ops => Ended' = operations'
  <2>1. Ended = operations - (IF current_state \in Ops THEN 1 ELSE 0)
    BY DEF Ended
  <2>2. Ended' = operations' - (IF current_state' \in Ops THEN 1 ELSE 0)
    BY DEF Ended
  <2>3. \A n \in Nat : n - 0 = n
    OBVIOUS
  <2>4. /\ current_state \in Ops => Ended = operations - 1
        /\ current_state' \in Ops => Ended' = operations' - 1
    BY <2>1, <2>2, Zenon
  <2>5. /\ current_state \notin Ops => Ended = operations - 0
        /\ current_state' \notin Ops => Ended' = operations' - 0
    BY <2>1, <2>2, Zenon
  <2> QED
    BY <1>1, <1>3, <2>3, <2>4, <2>5, Zenon
<1>7. Ended \in Int /\ Ended' \in Int
  BY <1>1, <1>3, <1>6
<1>8. Ended' >= Ended
  BY <1>1, <1>3, <1>5, <1>6
<1> QED
  BY <1>1, <1>3, <1>5, <1>6, <1>7, <1>8

-----------------------------------------------------------------------------
(* What neurax_start writes is a command, whatever number it is given. *)
LEMMA StartedCmd ==
  ASSUME NEW o \in OpSelect
  PROVE  LET c == [enable |-> TRUE, op |-> o % 4, start |-> TRUE]
         IN  c \in Cmd /\ c.enable /\ c.start
<1>1. o \in Int
  BY SessionAssumption
<1>2. o % 4 \in 0 .. 3
  BY <1>1
<1> QED
  BY <1>2 DEF Cmd

(* Every step of the program is a clock edge of the hardware. *)
LEMMA EveryAccess ==
  ASSUME TypedInv, BspNext
  PROVE  \E bus \in AnyWrite \cup {NoWrite} : Access(bus)
<1>1. /\ ClearedRegisters.CMD \in Cmd
      /\ [enable |-> TRUE, op |-> 0, start |-> FALSE] \in Cmd
  BY DEF ClearedRegisters, Cmd
<1>2. CASE Sleep \/ ResetReturns \/ SeesDone \/ NotDone \/ PollAgain \/ GivesUp
  BY <1>2, AccessKinds DEF Sleep, ResetReturns, SeesDone, NotDone, PollAgain, GivesUp
<1>3. CASE Disable \/ Deinit
  BY <1>3, <1>1, AccessKinds DEF Disable, Deinit
<1>4. CASE Enable
  BY <1>4, <1>1, AccessKinds DEF Enable
<1>5. CASE SetEnable
  <2>1. [reg.CMD EXCEPT !.enable = TRUE] \in Cmd
    BY DEF TypedInv, ControlInv, ControlTyped, Registers, Cmd
  <2> QED
    BY <1>5, <2>1, AccessKinds DEF SetEnable
<1>6. CASE Start
  <2>1. PICK o \in OpSelect : cmd' = [enable |-> TRUE, op |-> o % 4, start |-> TRUE]
    BY <1>6 DEF Start
  <2>2. cmd' \in Cmd
    BY <2>1, StartedCmd
  <2> QED
    BY <1>6, <2>2, AccessKinds DEF Start
<1>7. CASE ClearStart
  <2>1. cmd' \in Cmd
    BY <1>7 DEF ClearStart, TypedInv, SessionTyped, Cmd
  <2> QED
    BY <1>7, <2>1, AccessKinds DEF ClearStart
<1> QED
  BY <1>2, <1>3, <1>4, <1>5, <1>6, <1>7 DEF BspNext

(* Every step keeps the types. *)
LEMMA TypedStep == ASSUME TypedInv, BspNext PROVE TypedInv'
<1>1. PICK bus \in AnyWrite \cup {NoWrite} : Access(bus)
  BY EveryAccess
<1>2. ControlInv /\ ControlInv' /\ operations \in Nat
  BY <1>1, AccessResult DEF TypedInv, ControlInv, ControlTyped
<1>3. SessionTyped /\ Hold \in Nat /\ 0 \in 0 .. Hold
  BY SessionAssumption DEF TypedInv
<1>4. CASE Sleep
  <2>1. slept' \in 0 .. Hold
    BY <1>3, <1>4 DEF Sleep, SessionTyped
  <2> QED
    BY <1>2, <1>3, <1>4, <2>1 DEF Sleep, SessionTyped, TypedInv
<1>5. CASE Disable \/ Enable \/ ResetReturns \/ SetEnable \/ Deinit
  BY <1>2, <1>3, <1>5
  DEF Disable, Enable, ResetReturns, SetEnable, Deinit, Goto, SessionTyped, TypedInv
<1>6. CASE SeesDone \/ NotDone \/ PollAgain \/ GivesUp
  BY <1>2, <1>3, <1>6 DEF SeesDone, NotDone, PollAgain, GivesUp, Goto, SessionTyped, TypedInv
<1>7. CASE Start
  <2>1. PICK o \in OpSelect : cmd' = [enable |-> TRUE, op |-> o % 4, start |-> TRUE]
    BY <1>7 DEF Start
  <2>2. cmd' \in Cmd
    BY <2>1, StartedCmd
  <2>3. free' \in BOOLEAN
    <3>1. free' = (current_state' \notin Ops)
      BY <1>7 DEF Start
    <3> QED
      BY <3>1, Zenon
  <2>4. pc' = "starting" /\ slept' = 0 /\ before' = operations /\ waited' = "none"
    BY <1>7 DEF Start, Goto
  <2> QED
    BY <1>2, <1>3, <2>2, <2>3, <2>4 DEF SessionTyped, TypedInv
<1>8. CASE ClearStart
  <2>1. cmd' \in Cmd
    BY <1>3, <1>8 DEF ClearStart, SessionTyped, Cmd
  <2> QED
    BY <1>2, <1>3, <1>8, <2>1 DEF ClearStart, Goto, SessionTyped, TypedInv
<1> QED
  BY <1>4, <1>5, <1>6, <1>7, <1>8 DEF BspNext

(* Before the first call. *)
LEMMA SessionInitially == BspInit => SessionInv
<1> SUFFICES ASSUME BspInit PROVE SessionInv
  OBVIOUS
<1>1. ControlInv
  BY ControlInitially DEF BspInit
<1>2. ClearedRegisters.CMD \in Cmd /\ ~reg.CMD.start
  BY DEF BspInit, ControlInit, ClearedRegisters, Cmd
<1>3. SessionTyped
  <2>1. slept \in 0 .. Hold /\ before \in Nat
    BY SessionAssumption DEF BspInit
  <2>2. free \in BOOLEAN
    BY Zenon DEF BspInit
  <2>3. cmd \in Cmd
    BY <1>2 DEF BspInit
  <2>4. pc = "caller" /\ waited = "none"
    BY DEF BspInit
  <2> QED
    BY <2>1, <2>2, <2>3, <2>4 DEF SessionTyped
<1> QED
  BY <1>1, <1>2, <1>3
  DEF BspInit, SessionInv, TypedInv, StartIsCleared, WhileStarting, WhileWaiting, Reported

(* The types hold throughout, however long START is held. *)
LEMMA TypedInvariance == BspSpec => []TypedInv
<1>1. BspInit => TypedInv
  BY SessionInitially DEF SessionInv
<1>2. TypedInv /\ [BspNext]_bspVars => TypedInv'
  <2>1. TypedInv /\ UNCHANGED bspVars => TypedInv'
    <3> SUFFICES ASSUME TypedInv, UNCHANGED bspVars PROVE TypedInv'
      OBVIOUS
    <3>1. UNCHANGED <<controlVars, sessionVars>>
      BY DEF bspVars
    <3>2. ControlInv'
      BY <3>1, ControlInductive DEF TypedInv
    <3> QED
      BY <3>1, <3>2 DEF TypedInv, SessionTyped, sessionVars
  <2> QED
    BY <2>1, TypedStep
<1> QED
  BY <1>1, <1>2, PTL DEF BspSpec

(* The program drives the data interface within its specification, and every
   variable keeps its type, whatever number an operation is asked for by.  *)
THEOREM SessionTypeCorrect == BspSpec => []BspTypeOK
<1>1. BspInit => Init
  BY DEF BspInit, ControlInit
<1>2. TypedInv /\ [BspNext]_bspVars => [Next]_vars
  <2> SUFFICES ASSUME TypedInv, [BspNext]_bspVars PROVE [Next]_vars
    OBVIOUS
  <2>1. CASE UNCHANGED bspVars
    BY <2>1 DEF bspVars, controlVars
  <2>2. ASSUME NEW bus \in AnyWrite \cup {NoWrite}, Access(bus)
        PROVE  [Next]_vars
    BY <2>2, AccessResult DEF TypedInv, Next
  <2>3. CASE BspNext
    BY <2>2, <2>3, EveryAccess
  <2> QED
    BY <2>1, <2>3
<1>3. BspSpec => Spec
  BY <1>1, <1>2, TypedInvariance, PTL DEF BspSpec, Spec
<1>4. TypedInv /\ TypeOK => BspTypeOK
  BY DEF TypedInv, ControlInv, ControlTyped, SessionTyped, ControlTypeOK, BspTypeOK
<1> QED
  BY <1>3, <1>4, TypedInvariance, TypeCorrect, PTL

-----------------------------------------------------------------------------
(* Outside neurax_start nothing is launched, and what runs only comes to its end. *)
LEMMA QuietAccess ==
  ASSUME SessionInv, pc # "starting", NEW bus \in AnyWrite \cup {NoWrite}, Access(bus)
  PROVE  /\ operations' = operations
         /\ reg'.STATUS.done = done_latch
         /\ current_state' \in Ops => current_state \in Ops
         /\ done_latch' => done_latch \/ current_state \in Ops
<1>1. ControlInv /\ ~reg.CMD.start
  BY DEF SessionInv, TypedInv, StartIsCleared
<1>2. "IDLE" \notin Ops /\ "DONE_ST" \notin Ops
  BY DEF Ops
<1> QED
  BY <1>1, <1>2, AccessResult

(* Such an edge keeps what DONE means, and what was reported. *)
LEMMA QuietKeeps ==
  ASSUME SessionInv, pc # "starting", NEW bus \in AnyWrite \cup {NoWrite}, Access(bus),
         UNCHANGED <<before, free>>
  PROVE  /\ pc \in {"started", "polled"} /\ free' =>
              /\ reg'.STATUS.done \/ done_latch' => Ended' > before'
              /\ current_state' \in Ops => operations' > before'
              /\ reg.STATUS.done => WaitDoneIsCurrent' \/ waited' # "done"
         /\ waited = "done" => WaitDoneIsCurrent'
<1>1. ControlInv /\ before \in Nat
  BY DEF SessionInv, TypedInv, SessionTyped
<1>2. /\ operations' = operations /\ reg'.STATUS.done = done_latch
      /\ current_state' \in Ops => current_state \in Ops
      /\ done_latch' => done_latch \/ current_state \in Ops
  BY QuietAccess
<1>3. /\ operations \in Nat /\ Ended \in Int /\ Ended' \in Int /\ Ended' >= Ended
      /\ current_state' \in Ops => ~done_latch'
      /\ current_state' \notin Ops => Ended' = operations'
  BY <1>1, AccessCounts
<1>4. ASSUME pc \in {"started", "polled"}, free
      PROVE  /\ reg'.STATUS.done \/ done_latch' => Ended' > before
             /\ current_state' \in Ops => operations' > before
             /\ reg.STATUS.done => Ended' > before
  <2>1. /\ reg.STATUS.done \/ done_latch => Ended > before
        /\ current_state \in Ops => operations > before
    BY <1>4 DEF SessionInv, WhileWaiting
  <2>2. reg.STATUS.done \/ done_latch => Ended' > before
    BY <1>1, <1>3, <2>1
  <2>3. done_latch' => Ended' > before
    BY <1>1, <1>2, <1>3, <2>1, <2>2
  <2> QED
    BY <1>2, <2>1, <2>2, <2>3
<1>5. waited = "done" /\ free => Ended' > before
  BY <1>1, <1>3 DEF SessionInv, Reported, WaitDoneIsCurrent
<1> QED
  BY <1>4, <1>5 DEF WaitDoneIsCurrent

(* Time passes outside neurax_start. *)
LEMMA SleepOutside ==
  ASSUME SessionInv, TypedInv', pc # "starting", Sleep
  PROVE  SessionInv'
<1>1. Access(NoWrite) /\ UNCHANGED <<pc, cmd, before, free, waited>>
  BY DEF Sleep
<1>2. ~reg'.CMD.start
  <2>1. reg'.CMD = reg.CMD
    BY <1>1, AccessKinds, AccessResult DEF SessionInv, TypedInv
  <2> QED
    BY <2>1 DEF SessionInv, StartIsCleared
<1>3. WhileWaiting'
  BY <1>1, AccessKinds, QuietKeeps DEF WhileWaiting
<1>4. Reported'
  BY <1>1, AccessKinds, QuietKeeps DEF SessionInv, Reported
<1> QED
  BY <1>1, <1>2, <1>3, <1>4 DEF SessionInv, StartIsCleared, WhileStarting

(* Time passes while START is set: the operation is launched on the second edge
   at the latest, and may end and be launched again.                       *)
LEMMA SleepStarting ==
  ASSUME SessionInv, TypedInv', pc = "starting", Sleep, Hold > 1
  PROVE  SessionInv'
<1>1. Access(NoWrite) /\ UNCHANGED <<pc, cmd, before, free, waited>>
  BY DEF Sleep
<1>2. /\ ControlInv /\ reg.CMD = cmd /\ cmd.enable /\ cmd.start /\ operations >= before
      /\ before \in Nat /\ slept \in 0 .. Hold /\ Hold \in Nat
  BY SessionAssumption DEF SessionInv, TypedInv, SessionTyped, WhileStarting
<1>3. reg'.CMD = reg.CMD
  BY <1>1, <1>2, AccessKinds, AccessResult
<1>4. /\ operations \in Nat /\ operations' \in Nat
      /\ operations' \in {operations, operations + 1}
  BY <1>1, <1>2, AccessKinds, AccessCounts
<1>5. operations' >= before
  BY <1>2, <1>4
<1>6. /\ slept' # 0
      /\ slept' = 1 => slept = 0
      /\ slept' > 1 => slept # 0
  BY <1>2 DEF Sleep
<1>7. "IDLE" \notin Ops /\ "DONE_ST" \notin Ops
  BY DEF Ops
<1>8. ASSUME free
      PROVE  /\ slept' = 1 => \/ operations' > before
                              \/ operations' = before /\ current_state' = "IDLE"
             /\ slept' > 1 => \/ operations' > before
                              \/ /\ operations' = before /\ current_state' = "IDLE"
                                 /\ ~done_latch' /\ cmd.op = 3
  <2>1. CASE operations > before
    BY <1>2, <1>4, <2>1
  <2>2. CASE operations = before
    <3>1. slept = 0 => current_state \notin Ops
      BY <1>8 DEF SessionInv, WhileStarting
    <3>2. slept # 0 => current_state = "IDLE"
      <4>1. /\ slept = 1 => \/ operations > before
                            \/ operations = before /\ current_state = "IDLE"
            /\ slept > 1 => \/ operations > before
                            \/ operations = before /\ current_state = "IDLE"
        BY <1>8 DEF SessionInv, WhileStarting
      <4> QED
        BY <1>2, <2>2, <4>1
    <3>3. CASE current_state = "IDLE"
      BY <1>1, <1>2, <1>7, <2>2, <3>3, AccessKinds, AccessResult
    <3>4. CASE current_state # "IDLE"
      <4>1. slept = 0 /\ current_state \notin Ops
        BY <3>1, <3>2, <3>4
      <4>2. operations' = operations /\ current_state' = "IDLE"
        BY <1>1, <1>2, <1>7, <3>4, <4>1, AccessKinds, AccessResult
      <4> QED
        BY <1>6, <2>2, <4>1, <4>2
    <3> QED
      BY <3>3, <3>4
  <2> QED
    BY <1>2, <1>4, <2>1, <2>2
<1>9. WhileStarting'
  BY <1>1, <1>2, <1>3, <1>5, <1>6, <1>8 DEF WhileStarting
<1> QED
  BY <1>1, <1>9 DEF SessionInv, StartIsCleared, WhileWaiting, Reported

(* neurax_start is called: nothing can be launched on that edge. *)
LEMMA StartStep == ASSUME SessionInv, TypedInv', Start PROVE SessionInv'
<1>1. PICK o \in OpSelect : cmd' = [enable |-> TRUE, op |-> o % 4, start |-> TRUE]
  BY DEF Start
<1>2. /\ pc = "caller" /\ pc' = "starting" /\ slept' = 0
      /\ Access(Write("CMD", cmd')) /\ before' = operations
      /\ free' = (current_state' \notin Ops) /\ waited' = "none"
  BY DEF Start, Goto
<1>3. cmd' \in Cmd /\ cmd'.enable /\ cmd'.start
  BY <1>1, StartedCmd
<1>4. operations' = operations /\ operations \in Nat
  BY <1>2, <1>3, AccessKinds, QuietAccess DEF SessionInv, TypedInv, ControlInv, ControlTyped
<1>5. reg'.CMD = cmd'
  BY <1>2, <1>3, AccessKinds, AccessResult DEF SessionInv, TypedInv
<1>6. WhileStarting'
  <2>1. free' => current_state' \notin Ops
    BY <1>2, Zenon
  <2>2. operations' = before' /\ operations' >= before'
    BY <1>2, <1>4
  <2> QED
    BY <1>2, <1>3, <1>5, <2>1, <2>2 DEF WhileStarting
<1> QED
  BY <1>2, <1>6 DEF SessionInv, StartIsCleared, WhileWaiting, Reported

(* START is cleared, two edges after it was set or more: the edge on which this
   happens may still launch, once more.                                    *)
LEMMA ClearStartStep ==
  ASSUME SessionInv, TypedInv', ClearStart, Hold > 1
  PROVE  SessionInv'
<1>1. /\ pc = "starting" /\ pc' = "started" /\ slept >= Hold
      /\ cmd' = [cmd EXCEPT !.start = FALSE] /\ Access(Write("CMD", cmd'))
      /\ UNCHANGED <<before, free, waited>>
  BY DEF ClearStart, Goto
<1>2. /\ ControlInv /\ reg.CMD = cmd /\ cmd.enable /\ cmd.start /\ cmd \in Cmd
      /\ before \in Nat /\ slept \in 0 .. Hold /\ Hold \in Nat
  BY <1>1, SessionAssumption DEF SessionInv, TypedInv, WhileStarting, SessionTyped
<1>3. cmd' \in Cmd /\ ~cmd'.start
  BY <1>1, <1>2 DEF Cmd
<1>4. reg'.CMD = cmd' /\ reg'.STATUS.done = done_latch
  BY <1>1, <1>2, <1>3, AccessKinds, AccessResult
<1>5. ASSUME free
      PROVE  /\ reg'.STATUS.done \/ done_latch' => Ended' > before
             /\ current_state' \in Ops => operations' > before
  <2>1. \/ operations > before
        \/ operations = before /\ current_state = "IDLE" /\ ~done_latch /\ cmd.op = 3
    BY <1>1, <1>2, <1>5 DEF SessionInv, WhileStarting
  <2>2. CASE operations > before
    <3>1. /\ operations \in Nat /\ operations' \in Nat /\ Ended \in Int /\ Ended' \in Int
          /\ operations' \in {operations, operations + 1} /\ Ended' >= Ended
          /\ current_state \in Ops => ~done_latch
          /\ current_state \notin Ops => Ended = operations
          /\ current_state' \in Ops => ~done_latch'
          /\ current_state' \notin Ops => Ended' = operations'
      BY <1>1, <1>2, <1>3, AccessKinds, AccessCounts
    <3>2. operations' > before
      BY <1>2, <2>2, <3>1
    <3>3. done_latch => Ended' > before
      BY <1>2, <2>2, <3>1
    <3>4. done_latch' => Ended' > before
      BY <3>1, <3>2
    <3> QED
      BY <1>4, <3>2, <3>3, <3>4
  <2>3. CASE operations = before /\ current_state = "IDLE" /\ ~done_latch /\ cmd.op = 3
    <3>1. current_state' = "IDLE" /\ ~done_latch'
      BY <1>1, <1>2, <1>3, <2>3, AccessKinds, AccessResult DEF Ops
    <3> QED
      BY <1>4, <2>3, <3>1 DEF Ops
  <2> QED
    BY <2>1, <2>2, <2>3
<1>6. WhileWaiting'
  BY <1>1, <1>5 DEF WhileWaiting
<1>7. StartIsCleared' /\ WhileStarting' /\ Reported'
  BY <1>1, <1>3, <1>4 DEF SessionInv, StartIsCleared, WhileStarting, Reported
<1> QED
  BY <1>6, <1>7 DEF SessionInv

(* neurax_wait_done reads STATUS, sleeps, or gives up. *)
LEMMA WaitStep ==
  ASSUME SessionInv, TypedInv', SeesDone \/ NotDone \/ PollAgain \/ GivesUp
  PROVE  SessionInv'
<1>1. /\ pc \in {"started", "polled"} /\ pc' \in {"started", "polled", "caller"}
      /\ Access(NoWrite) /\ UNCHANGED <<cmd, before, free>>
      /\ waited' = "done" => waited = "done" \/ (pc' = "caller" /\ reg.STATUS.done)
  BY DEF SeesDone, NotDone, PollAgain, GivesUp, Goto
<1>2. waited # "done"
  BY <1>1 DEF SessionInv, Reported
<1>3. ~reg'.CMD.start
  <2>1. reg'.CMD = reg.CMD
    BY <1>1, AccessKinds, AccessResult DEF SessionInv, TypedInv
  <2> QED
    BY <1>1, <2>1 DEF SessionInv, StartIsCleared
<1>4. /\ pc \in {"started", "polled"} /\ free' =>
            /\ reg'.STATUS.done \/ done_latch' => Ended' > before'
            /\ current_state' \in Ops => operations' > before'
            /\ reg.STATUS.done => WaitDoneIsCurrent' \/ waited' # "done"
      /\ ~free' => WaitDoneIsCurrent'
  BY <1>1, AccessKinds, QuietKeeps DEF WaitDoneIsCurrent
<1>5. WhileWaiting' /\ Reported'
  BY <1>1, <1>2, <1>4 DEF WhileWaiting, Reported
<1> QED
  BY <1>1, <1>3, <1>5 DEF SessionInv, StartIsCleared, WhileStarting

(* The steps of neurax_reset, neurax_enable and neurax_bsp_deinit: START is
   clear and stays so.                                                     *)
LEMMA OtherStep ==
  ASSUME SessionInv, TypedInv', Disable \/ Enable \/ ResetReturns \/ SetEnable \/ Deinit
  PROVE  SessionInv'
<1> DEFINE disabled == ClearedRegisters.CMD
           enabled  == [enable |-> TRUE, op |-> 0, start |-> FALSE]
           kept     == [reg.CMD EXCEPT !.enable = TRUE]
<1>1. /\ disabled \in Cmd /\ disabled.start = FALSE
      /\ enabled \in Cmd /\ enabled.start = FALSE
      /\ kept \in Cmd /\ ~kept.start
  <2>1. reg.CMD \in Cmd /\ ~reg.CMD.start
    BY DEF Disable, Enable, ResetReturns, SetEnable, Deinit, Goto,
           SessionInv, TypedInv, StartIsCleared, ControlInv, ControlTyped, Registers
  <2>2. kept \in Cmd /\ kept.start = reg.CMD.start
    BY <2>1 DEF Cmd
  <2>3. disabled \in Cmd /\ disabled.start = FALSE /\ enabled \in Cmd /\ enabled.start = FALSE
    BY DEF ClearedRegisters, Cmd
  <2> HIDE DEF kept, disabled, enabled
  <2> QED
    BY <2>1, <2>2, <2>3
<1>2. PICK bus \in {NoWrite, Write("CMD", disabled), Write("CMD", enabled), Write("CMD", kept)} :
        Access(bus)
  BY DEF Disable, Enable, ResetReturns, SetEnable, Deinit
<1>3. /\ pc \in {"caller", "resetting", "reset"}
      /\ pc' \in {"caller", "resetting", "reset"}
      /\ UNCHANGED <<cmd, before, free>>
      /\ waited' \in {waited, "none"}
      /\ waited' = "done" => waited = "done" /\ (pc = "caller" => pc' = "caller")
  BY DEF Disable, Enable, ResetReturns, SetEnable, Deinit, Goto
<1> HIDE DEF disabled, enabled, kept
<1>4. bus \in AnyWrite \cup {NoWrite}
  BY <1>1, AccessKinds
<1>5. ~reg'.CMD.start
  <2>1. ControlInv /\ ~reg.CMD.start
    BY <1>3 DEF SessionInv, TypedInv, StartIsCleared
  <2> QED
    BY <1>1, <1>2, <1>4, <2>1, AccessKinds, AccessResult
<1>6. waited = "done" => WaitDoneIsCurrent'
  BY <1>2, <1>3, <1>4, QuietKeeps
<1>7. Reported'
  BY <1>3, <1>6 DEF SessionInv, Reported
<1> QED
  BY <1>3, <1>5, <1>7 DEF SessionInv, StartIsCleared, WhileStarting, WhileWaiting

-----------------------------------------------------------------------------
(* Every step of the program keeps the invariant. *)
LEMMA SessionInductive ==
  ASSUME Hold > 1
  PROVE  SessionInv /\ [BspNext]_bspVars => SessionInv'
<1> SUFFICES ASSUME SessionInv, [BspNext]_bspVars PROVE SessionInv'
  OBVIOUS
<1>1. BspNext => TypedInv'
  BY TypedStep DEF SessionInv
<1>2. CASE Sleep
  BY <1>1, <1>2, SleepOutside, SleepStarting DEF BspNext
<1>3. CASE Disable \/ Enable \/ ResetReturns \/ SetEnable \/ Deinit
  BY <1>1, <1>3, OtherStep DEF BspNext
<1>4. CASE Start
  BY <1>1, <1>4, StartStep DEF BspNext
<1>5. CASE ClearStart
  BY <1>1, <1>5, ClearStartStep DEF BspNext
<1>6. CASE SeesDone \/ NotDone \/ PollAgain \/ GivesUp
  BY <1>1, <1>6, WaitStep DEF BspNext
<1>7. CASE UNCHANGED bspVars
  <2>1. UNCHANGED <<controlVars, sessionVars>>
    BY <1>7 DEF bspVars
  <2>2. ControlInv'
    BY <2>1, ControlInductive DEF SessionInv, TypedInv
  <2> QED
    BY <2>1, <2>2
    DEF controlVars, topVars, history, sessionVars, SessionInv, TypedInv, SessionTyped,
        StartIsCleared, WhileStarting, WhileWaiting, Reported, WaitDoneIsCurrent, Ended
<1> QED
  BY <1>2, <1>3, <1>4, <1>5, <1>6, <1>7 DEF BspNext

(* The invariant holds after any calls, with any waiting in between. *)
THEOREM SessionInvariance == ASSUME Hold > 1 PROVE BspSpec => []SessionInv
<1>1. SessionInv /\ [BspNext]_bspVars => SessionInv'
  BY SessionInductive
<1> QED
  BY <1>1, SessionInitially, PTL DEF BspSpec

(* neurax_wait_done returns 0 only when an operation launched by the last
   neurax_start has run and is over, never because of the DONE of one before,
   and whether or not the operation ended before START was cleared.        *)
THEOREM WaitDoneTellsTheTruth == ASSUME Hold > 1 PROVE BspSpec => []WaitDoneIsCurrent
<1>1. SessionInv => WaitDoneIsCurrent
  BY DEF SessionInv, Reported, WaitDoneIsCurrent
<1> QED
  BY <1>1, SessionInvariance, PTL

-----------------------------------------------------------------------------
(* The configuration calls pass for time to the rest of the library. *)
LEMMA ConfigStepIsBsp == [ConfigNext]_configVars => [BspNext]_bspVars
BY DEF ConfigNext, configVars, Library, Configures, neurax_config_conv, ConvSecond,
       neurax_config_pool, neurax_config_activation, ActivationSecond, neurax_set_batch_size,
       BspNext

(* What is proved of BspSpec holds with the configuration calls as well. *)
THEOREM ConfigurationIsSession == ConfigSpec => BspSpec
<1>1. ConfigInit => BspInit
  BY DEF ConfigInit
<1> QED
  BY <1>1, ConfigStepIsBsp, PTL DEF ConfigSpec, BspSpec

-----------------------------------------------------------------------------
(* limit_range takes a field to the nearest value of its wire. *)
LEMMA NearestResult ==
  ASSUME NEW n \in Nat, NEW min \in Nat, NEW max \in Nat, min <= max
  PROVE  limit_range(n, min, max) = Nearest(n, min .. max)
<1> DEFINE v    == limit_range(n, min, max)
           P(w) == \A u \in min .. max : Distance(w, n) <= Distance(u, n)
<1>1. v \in min .. max
  BY DEF limit_range
<1>2. P(v)
  BY DEF limit_range, Distance
<1>3. ASSUME NEW w \in min .. max, P(w) PROVE w = v
  <2>1. Distance(w, n) <= Distance(v, n)
    BY <1>1, <1>3
  <2> QED
    BY <2>1, <1>3 DEF limit_range, Distance
<1>4. Nearest(n, min .. max) = CHOOSE w \in min .. max : P(w)
  BY DEF Nearest
<1> HIDE DEF v, P
<1>5. (CHOOSE w \in min .. max : P(w)) = v
  BY <1>1, <1>2, <1>3
<1> QED
  BY <1>4, <1>5 DEF v

LEMMA FieldResult ==
  ASSUME NEW n \in Int
  PROVE  /\ Byte(n) \in Nat /\ Byte(n) \in Bytes
         /\ Half(n) \in Nat /\ Half(n) \in Halves
<1>1. Byte(n) \in Nat
  BY DEF Byte
<1>2. Byte(n) \in Bytes
  BY DEF Byte, Bytes
<1>3. Half(n) \in Nat
  BY DEF Half
<1>4. Half(n) \in Halves
  BY DEF Half, Halves
<1> QED
  BY <1>1, <1>2, <1>3, <1>4

LEMMA FieldNearest ==
  ASSUME NEW n \in Int, NEW max \in Nat \ {0}
  PROVE  /\ limit_range(Byte(n), 1, max) = Nearest(Byte(n), 1 .. max)
         /\ limit_range(Half(n), 1, max) = Nearest(Half(n), 1 .. max)
<1>1. Byte(n) \in Nat /\ Half(n) \in Nat
  BY FieldResult
<1>2. 1 \in Nat /\ max \in Nat /\ 1 <= max
  OBVIOUS
<1> QED
  BY <1>1, <1>2, NearestResult

LEMMA PaddingNearest ==
  ASSUME NEW n \in Int
  PROVE  limit_range(Byte(n), 0, MAX_KERNEL_SIZE \div 2)
           = Nearest(Byte(n), 0 .. MAX_KERNEL_SIZE \div 2)
<1>1. Byte(n) \in Nat
  BY FieldResult
<1>2. MAX_KERNEL_SIZE \in Nat
  BY MaximaAssumption
<1>3. MAX_KERNEL_SIZE \div 2 \in Nat /\ 0 \in Nat /\ 0 <= MAX_KERNEL_SIZE \div 2
  BY <1>2
<1> QED
  BY <1>1, <1>3, NearestResult

(* The registers as the calls completed so far leave them. *)
Held ==
  /\ config.conv0 = Conv0(given.conv)
  /\ call.kind # "conv" => config.conv1 = Conv1(given.conv)
  /\ config.pool = Pool(given.pool)
  /\ config.act = Act(given.act)
  /\ call.kind # "activation" => config.alpha = given.act.alpha
  /\ config.batch = Byte(given.batch)
  /\ call.kind = "conv" => call.with = given.conv
  /\ call.kind = "activation" => call.with = given.act

GivenTyped ==
  given \in [conv : Arguments(ConvFields), pool : Arguments(PoolFields),
             act : Arguments(ActivationFields), batch : Int]

(* The program is in no configuration call while it starts and waits. *)
Driving == pc \in {"starting", "started", "polled"}
CallsBetween == call # NoCall => ~Driving

(* The operation that a neurax_start launches sees what was asked for, and has
   seen it once it is over.                                                *)
RanAsAsked == operations = before \/ Watched \/ ran = "asked"

RunsAsAsked ==
  /\ Driving => ran \in {"nothing", "asked"} /\ RanAsAsked
  /\ OperationHasItsSettings

ConfigInv == SessionInv /\ ConfigTypeOK /\ Held /\ CallsBetween /\ RunsAsAsked

(* A number of channels that the ports are built for passes them unchanged. *)
LEMMA PortResult ==
  ASSUME NEW n \in Nat, n <= PortChannels
  PROVE  Port(n) = n
BY DEF Port, PortChannels

LEMMA ChannelResult ==
  ASSUME NEW n \in Int, MAX_CHANNELS \in Nat \ {0}
  PROVE  LET asked == Nearest(Byte(n), 1 .. MAX_CHANNELS)
         IN  Port(limit_range(Byte(n), 1, MAX_CHANNELS)) = asked \/ asked > PortChannels
<1> DEFINE m == limit_range(Byte(n), 1, MAX_CHANNELS)
<1>1. m = Nearest(Byte(n), 1 .. MAX_CHANNELS)
  BY FieldNearest
<1>2. m \in Nat
  <2>1. Byte(n) \in Nat
    BY FieldResult
  <2> QED
    BY <2>1 DEF limit_range
<1> HIDE DEF m
<1>3. Port(m) = m \/ m > PortChannels
  BY <1>2, PortResult DEF PortChannels
<1> QED
  BY <1>1, <1>3 DEF m

(* With no call half-way the wires carry what was asked for. *)
LEMMA WiresResult ==
  ASSUME ConfigTypeOK, Held, call = NoCall
  PROVE  WiresAsAsked
<1>1. call.kind = "none"
  BY DEF NoCall
<1>2. /\ config.conv0 = Conv0(given.conv) /\ config.conv1 = Conv1(given.conv)
      /\ config.pool = Pool(given.pool) /\ config.act = Act(given.act)
      /\ config.alpha = given.act.alpha /\ config.batch = Byte(given.batch)
  BY <1>1 DEF Held
<1>3. /\ given.conv \in Arguments(ConvFields) /\ given.pool \in Arguments(PoolFields)
      /\ given.act \in Arguments(ActivationFields) /\ given.batch \in Int
  <2>1. GivenTyped
    BY Zenon DEF ConfigTypeOK, GivenTyped
  <2> QED
    BY <2>1 DEF GivenTyped
<1>4. /\ {given.conv.kernel_size, given.conv.stride, given.conv.padding,
           given.conv.input_channels, given.conv.output_channels} \subseteq Int
      /\ {given.pool.pool_size, given.pool.stride, given.pool.channels} \subseteq Int
      /\ given.act.tensor_size \in Int /\ given.batch \in Int
  BY <1>3 DEF Arguments, ConvFields, PoolFields, ActivationFields
<1>5. /\ config.conv0.kernel_size = Byte(given.conv.kernel_size)
      /\ config.conv0.stride = Byte(given.conv.stride)
      /\ config.conv0.padding = Byte(given.conv.padding)
      /\ config.conv1.input_channels = Byte(given.conv.input_channels)
      /\ config.conv1.output_channels = Byte(given.conv.output_channels)
  BY <1>2 DEF Conv0, Conv1
<1>6. /\ config.pool.pool_size = Byte(given.pool.pool_size)
      /\ config.pool.stride = Byte(given.pool.stride)
      /\ config.pool.pool_type = Byte(given.pool.pool_type)
      /\ config.pool.channels = Byte(given.pool.channels)
  BY <1>2 DEF Pool, PoolFields
<1>7. /\ config.act.activation_type = Byte(given.act.activation_type)
      /\ config.act.tensor_size = Half(given.act.tensor_size)
  BY <1>2 DEF Act
<1>10. {4, MAX_KERNEL_SIZE, MAX_CHANNELS, MAX_POOL_SIZE, MAX_TENSOR_SIZE, MAX_BATCH_SIZE}
         \subseteq Nat \ {0}
  BY MaximaAssumption
<1>11. /\ Wires.kernel_size = Asked.kernel_size /\ Wires.stride = Asked.stride
       /\ Wires.padding = Asked.padding
  <2>1. /\ limit_range(Byte(given.conv.kernel_size), 1, MAX_KERNEL_SIZE)
             = Nearest(Byte(given.conv.kernel_size), 1 .. MAX_KERNEL_SIZE)
        /\ limit_range(Byte(given.conv.stride), 1, 4) = Nearest(Byte(given.conv.stride), 1 .. 4)
    BY <1>4, <1>10, FieldNearest
  <2>2. limit_range(Byte(given.conv.padding), 0, MAX_KERNEL_SIZE \div 2)
          = Nearest(Byte(given.conv.padding), 0 .. MAX_KERNEL_SIZE \div 2)
    BY <1>4, PaddingNearest
  <2> QED
    BY <1>5, <2>1, <2>2, Zenon DEF Wires, Asked
<1>12. /\ \/ Wires.input_channels = Asked.input_channels
          \/ Asked.input_channels > PortChannels
       /\ \/ Wires.output_channels = Asked.output_channels
          \/ Asked.output_channels > PortChannels
  <2>1. \A n \in {given.conv.input_channels, given.conv.output_channels} :
          \/ Port(limit_range(Byte(n), 1, MAX_CHANNELS)) = Nearest(Byte(n), 1 .. MAX_CHANNELS)
          \/ Nearest(Byte(n), 1 .. MAX_CHANNELS) > PortChannels
    BY <1>4, <1>10, ChannelResult
  <2> QED
    BY <1>5, <2>1, Zenon DEF Wires, Asked
<1>13. /\ Wires.pool_size = Asked.pool_size /\ Wires.pool_stride = Asked.pool_stride
       /\ Wires.pool_type = Asked.pool_type
       /\ \/ Wires.pool_channels = Asked.pool_channels
          \/ Asked.pool_channels > PortChannels
  <2>1. /\ \A n \in {given.pool.pool_size, given.pool.stride} :
             limit_range(Byte(n), 1, MAX_POOL_SIZE) = Nearest(Byte(n), 1 .. MAX_POOL_SIZE)
        /\ \/ Port(limit_range(Byte(given.pool.channels), 1, MAX_CHANNELS))
                = Nearest(Byte(given.pool.channels), 1 .. MAX_CHANNELS)
           \/ Nearest(Byte(given.pool.channels), 1 .. MAX_CHANNELS) > PortChannels
    BY <1>4, <1>10, FieldNearest, ChannelResult
  <2> QED
    BY <1>6, <2>1, Zenon DEF Wires, Asked
<1>14. /\ Wires.activation_type = Asked.activation_type
       /\ Wires.tensor_size = Asked.tensor_size /\ Wires.alpha = Asked.alpha
  <2>1. limit_range(Half(given.act.tensor_size), 1, MAX_TENSOR_SIZE)
          = Nearest(Half(given.act.tensor_size), 1 .. MAX_TENSOR_SIZE)
    BY <1>4, <1>10, FieldNearest
  <2> QED
    BY <1>2, <1>7, <2>1, Zenon DEF Wires, Asked
<1>15. Wires.batch_size = Asked.batch_size
  <2>1. limit_range(Byte(given.batch), 1, MAX_BATCH_SIZE)
          = Nearest(Byte(given.batch), 1 .. MAX_BATCH_SIZE)
    BY <1>4, <1>10, FieldNearest
  <2> QED
    BY <1>2, <2>1, Zenon DEF Wires, Asked
<1>16. DOMAIN Asked = {"kernel_size", "stride", "padding", "input_channels", "output_channels",
                       "pool_size", "pool_stride", "pool_type", "pool_channels",
                       "activation_type", "tensor_size", "alpha", "batch_size"}
  BY DEF Asked
<1> QED
  BY <1>11, <1>12, <1>13, <1>14, <1>15, <1>16, Zenon DEF WiresAsAsked, ChannelWires
-----------------------------------------------------------------------------
(* What a step of the program does to where it is and what it remembers. *)
LEMMA ProgramStep ==
  ASSUME BspNext
  PROVE  \/ /\ pc = "caller" /\ pc' = "starting"
            /\ before' = operations /\ waited' = "none"
         \/ /\ ~(pc = "caller" /\ pc' = "starting") /\ UNCHANGED <<before, free>>
            /\ Driving' => Driving
            /\ waited' = "done" => waited = "done" \/ pc = "started"
<1>1. CASE Sleep \/ ClearStart
  BY <1>1 DEF Sleep, ClearStart, Goto, Driving
<1>2. CASE Disable \/ Enable \/ ResetReturns \/ SetEnable \/ Deinit
  BY <1>2 DEF Disable, Enable, ResetReturns, SetEnable, Deinit, Goto, Driving
<1>3. CASE Start
  BY <1>3 DEF Start, Goto
<1>4. CASE SeesDone \/ NotDone \/ PollAgain \/ GivesUp
  BY <1>4 DEF SeesDone, NotDone, PollAgain, GivesUp, Goto, Driving
<1> QED
  BY <1>1, <1>2, <1>3, <1>4 DEF BspNext

(* A clock edge adds to what the operation has seen. *)
LEMMA WatchStep ==
  ASSUME ConfigInv, BspNext, Watch, SessionInv'
  PROVE  RunsAsAsked'
<1>1. PICK bus \in AnyWrite \cup {NoWrite} : Access(bus)
  BY EveryAccess DEF ConfigInv, SessionInv
<1>2. ControlInv /\ before \in Nat /\ operations \in Nat
  BY DEF ConfigInv, SessionInv, TypedInv, SessionTyped, ControlInv, ControlTyped
<1>3. /\ operations' = operations \/ (operations' = operations + 1 /\ current_state' \in Ops)
      /\ current_state \in Ops => Ended = operations - 1
      /\ current_state' \in Ops => Ended' = operations' - 1
      /\ current_state' \notin Ops => Ended' = operations'
      /\ operations' \in Nat
  BY <1>1, <1>2, AccessResult, AccessCounts
<1>4. ASSUME pc = "caller", pc' = "starting", before' = operations, waited' = "none"
      PROVE  RunsAsAsked'
  <2>1. operations' = operations
    BY <1>1, <1>4, QuietAccess DEF ConfigInv
  <2> QED
    BY <1>4, <2>1 DEF Watch, RunsAsAsked, RanAsAsked, Driving, OperationHasItsSettings
<1>5. ASSUME ~(pc = "caller" /\ pc' = "starting"), UNCHANGED <<before, free>>,
             Driving' => Driving, waited' = "done" => waited = "done" \/ pc = "started"
      PROVE  RunsAsAsked'
  <2>1. ASSUME Driving
        PROVE  /\ ran' \in {"nothing", "asked"}
               /\ operations' = before \/ Watched' \/ ran' = "asked"
    <3>1. ran \in {"nothing", "asked"} /\ RanAsAsked /\ WiresAsAsked
      BY <2>1, WiresResult DEF ConfigInv, CallsBetween, RunsAsAsked
    <3>2. ran' = IF Watched THEN "asked" ELSE ran
      BY <1>5, <3>1 DEF Watch
    <3>3. operations = before => operations' = before \/ Watched'
      BY <1>3, <1>5 DEF Watched
    <3> QED
      BY <3>1, <3>2, <3>3 DEF RanAsAsked
  <2>2. ASSUME waited' = "done", free' PROVE ran' = "asked"
    <3>1. Ended' > before
      BY <1>5, <2>2 DEF SessionInv, Reported, WaitDoneIsCurrent
    <3>2. CASE pc = "started"
      <4>1. operations' = before \/ Watched' \/ ran' = "asked"
        BY <2>1, <3>2 DEF Driving
      <4>2. operations' # before
        BY <1>2, <1>3, <3>1
      <4>3. ~Watched'
        BY <1>2, <1>3, <1>5, <3>1 DEF Watched
      <4> QED
        BY <4>1, <4>2, <4>3
    <3>3. CASE waited = "done"
      <4>1. ran = "asked" /\ Ended > before
        BY <1>5, <2>2, <3>3
        DEF ConfigInv, SessionInv, Reported, WaitDoneIsCurrent, RunsAsAsked,
            OperationHasItsSettings
      <4>2. ~Watched
        BY <1>2, <1>3, <4>1 DEF Watched
      <4> QED
        BY <1>5, <4>1, <4>2 DEF Watch
    <3> QED
      BY <1>5, <2>2, <3>2, <3>3
  <2> QED
    BY <1>5, <2>1, <2>2 DEF RunsAsAsked, RanAsAsked, OperationHasItsSettings
<1> QED
  BY <1>4, <1>5, ProgramStep

(* What the calls write has the type of the registers. *)
ConvRegister0 == [{"kernel_size", "groups", "padding", "stride"} -> Bytes]
ConvRegister1 == [{"input_channels", "output_channels"} -> Bytes]
PoolRegister  == [PoolFields -> Bytes]
ActRegister   == [activation_type : Bytes, tensor_size : Halves]
Config == [conv0 : ConvRegister0, conv1 : ConvRegister1, pool : PoolRegister,
           act : ActRegister, alpha : Int, batch : Bytes]
Given  == [conv : Arguments(ConvFields), pool : Arguments(PoolFields),
           act : Arguments(ActivationFields), batch : Int]
Calls  == {NoCall} \cup [kind : {"conv"}, with : ConvConfigs]
                   \cup [kind : {"activation"}, with : ActivationConfigs]

LEMMA ConfigTypes ==
  ConfigTypeOK <=> config \in Config /\ call \in Calls /\ given \in Given
                   /\ ran \in {"nothing", "asked", "other"}
BY Zenon DEF ConfigTypeOK, Config, ConvRegister0, ConvRegister1, PoolRegister, ActRegister,
             Calls, Given

LEMMA ConvWrites ==
  ASSUME NEW c \in Arguments(ConvFields)
  PROVE  Conv0(c) \in ConvRegister0 /\ Conv1(c) \in ConvRegister1
<1>1. /\ c.kernel_size \in Int /\ c.stride \in Int /\ c.padding \in Int
      /\ c.input_channels \in Int /\ c.output_channels \in Int
  BY DEF Arguments, ConvFields
<1>2. /\ Byte(c.kernel_size) \in Bytes /\ Byte(c.stride) \in Bytes
      /\ Byte(c.padding) \in Bytes /\ Byte(c.input_channels) \in Bytes
      /\ Byte(c.output_channels) \in Bytes
  BY <1>1, FieldResult
<1>3. Conv0(c) \in ConvRegister0
  BY <1>2 DEF Conv0, ConvRegister0
<1>4. Conv1(c) \in ConvRegister1
  BY <1>2 DEF Conv1, ConvRegister1
<1> QED
  BY <1>3, <1>4

LEMMA PoolWrites ==
  ASSUME NEW c \in Arguments(PoolFields)
  PROVE  Pool(c) \in PoolRegister
BY FieldResult DEF Arguments, Pool, PoolRegister

LEMMA ActivationWrites ==
  ASSUME NEW c \in Arguments(ActivationFields)
  PROVE  Act(c) \in ActRegister /\ c.alpha \in Int
<1>1. c.activation_type \in Int /\ c.tensor_size \in Int /\ c.alpha \in Int
  BY DEF Arguments, ActivationFields
<1> QED
  BY <1>1, FieldResult DEF Act, ActRegister

(* A call keeps the registers as the calls so far leave them. *)
LEMMA CallStep ==
  ASSUME ConfigTypeOK,
         \/ neurax_config_conv \/ ConvSecond
         \/ neurax_config_pool
         \/ neurax_config_activation \/ ActivationSecond
         \/ neurax_set_batch_size
  PROVE  config' \in Config /\ call' \in Calls /\ given' \in Given /\ (Held => Held')
<1>1. config \in Config /\ call \in Calls /\ given \in Given
  BY ConfigTypes
<1>2. /\ call.kind = "conv" => call.with \in ConvConfigs
      /\ call.kind = "activation" => call.with \in ActivationConfigs
      /\ call = NoCall => call.kind = "none"
  BY <1>1 DEF Calls, NoCall
<1>3. CASE neurax_config_conv
  <2>1. PICK c \in ConvConfigs :
          /\ config' = [config EXCEPT !.conv0 = Conv0(c)]
          /\ call' = [kind |-> "conv", with |-> c]
          /\ given' = [given EXCEPT !.conv = c]
    BY <1>3 DEF neurax_config_conv
  <2>2. c \in Arguments(ConvFields) /\ call.kind = "none"
    BY <1>2, <1>3, ArgumentAssumption DEF neurax_config_conv
  <2>3. Conv0(c) \in ConvRegister0
    BY <2>2, ConvWrites
  <2>4. config' \in Config /\ call' \in Calls /\ given' \in Given
    BY <1>1, <2>1, <2>2, <2>3 DEF Config, Calls, Given
  <2>5. Held => Held'
    BY <1>1, <2>1, <2>2 DEF Held, Config, Given
  <2> QED
    BY <2>4, <2>5
<1>4. CASE ConvSecond
  <2>1. /\ call.kind = "conv" /\ call' = NoCall /\ given' = given
        /\ config' = [config EXCEPT !.conv1 = Conv1(call.with)]
    BY <1>4 DEF ConvSecond
  <2>2. call.with \in Arguments(ConvFields)
    BY <1>2, <2>1, ArgumentAssumption
  <2>3. Conv1(call.with) \in ConvRegister1
    BY <2>2, ConvWrites
  <2>4. config' \in Config /\ call' \in Calls /\ given' \in Given
    BY <1>1, <2>1, <2>3 DEF Config, Calls, Given
  <2>5. Held => Held'
    BY <1>1, <2>1 DEF Held, Config, Given, NoCall
  <2> QED
    BY <2>4, <2>5
<1>5. CASE neurax_config_pool
  <2>1. PICK c \in PoolConfigs :
          /\ config' = [config EXCEPT !.pool = Pool(c)]
          /\ given' = [given EXCEPT !.pool = c] /\ call' = call
    BY <1>5 DEF neurax_config_pool
  <2>2. c \in Arguments(PoolFields) /\ call.kind = "none"
    BY <1>2, <1>5, ArgumentAssumption DEF neurax_config_pool
  <2>3. Pool(c) \in PoolRegister
    BY <2>2, PoolWrites
  <2>4. config' \in Config /\ call' \in Calls /\ given' \in Given
    BY <1>1, <2>1, <2>2, <2>3 DEF Config, Given
  <2>5. Held => Held'
    BY <1>1, <2>1, <2>2 DEF Held, Config, Given
  <2> QED
    BY <2>4, <2>5
<1>6. CASE neurax_config_activation
  <2>1. PICK c \in ActivationConfigs :
          /\ config' = [config EXCEPT !.act = Act(c)]
          /\ call' = [kind |-> "activation", with |-> c]
          /\ given' = [given EXCEPT !.act = c]
    BY <1>6 DEF neurax_config_activation
  <2>2. c \in Arguments(ActivationFields) /\ call.kind = "none"
    BY <1>2, <1>6, ArgumentAssumption DEF neurax_config_activation
  <2>3. Act(c) \in ActRegister
    BY <2>2, ActivationWrites
  <2>4. config' \in Config /\ call' \in Calls /\ given' \in Given
    BY <1>1, <2>1, <2>2, <2>3 DEF Config, Calls, Given
  <2>5. Held => Held'
    BY <1>1, <2>1, <2>2 DEF Held, Config, Given
  <2> QED
    BY <2>4, <2>5
<1>7. CASE ActivationSecond
  <2>1. /\ call.kind = "activation" /\ call' = NoCall /\ given' = given
        /\ config' = [config EXCEPT !.alpha = call.with.alpha]
    BY <1>7 DEF ActivationSecond
  <2>2. call.with \in Arguments(ActivationFields)
    BY <1>2, <2>1, ArgumentAssumption
  <2>3. call.with.alpha \in Int
    BY <2>2, ActivationWrites
  <2>4. config' \in Config /\ call' \in Calls /\ given' \in Given
    BY <1>1, <2>1, <2>3 DEF Config, Calls, Given
  <2>5. Held => Held'
    BY <1>1, <2>1 DEF Held, Config, Given, NoCall
  <2> QED
    BY <2>4, <2>5
<1>8. CASE neurax_set_batch_size
  <2>1. PICK n \in BatchSizes :
          /\ config' = [config EXCEPT !.batch = Byte(n)]
          /\ given' = [given EXCEPT !.batch = n] /\ call' = call
    BY <1>8 DEF neurax_set_batch_size
  <2>2. n \in Int /\ call.kind = "none"
    BY <1>2, <1>8, ArgumentAssumption DEF neurax_set_batch_size
  <2>3. Byte(n) \in Bytes
    BY <2>2, FieldResult
  <2>4. config' \in Config /\ call' \in Calls /\ given' \in Given
    BY <1>1, <2>1, <2>2, <2>3 DEF Config, Given
  <2>5. Held => Held'
    BY <1>1, <2>1, <2>2 DEF Held, Config, Given
  <2> QED
    BY <2>4, <2>5
<1> QED
  BY <1>3, <1>4, <1>5, <1>6, <1>7, <1>8

(* Before the first call. *)
LEMMA ConfigInitially == ConfigInit => ConfigInv
<1> SUFFICES ASSUME ConfigInit PROVE ConfigInv
  OBVIOUS
<1>1. SessionInv /\ waited = "none" /\ pc = "caller"
  BY SessionInitially DEF ConfigInit, BspInit
<1>2. Byte(0) = 0 /\ Half(0) = 0
  BY DEF Byte, Half
<1>3. 0 \in Bytes /\ 0 \in Halves
  BY <1>2, FieldResult
<1>4. /\ config.conv0 = Cleared({"kernel_size", "groups", "padding", "stride"})
      /\ config.conv1 = Cleared({"input_channels", "output_channels"})
      /\ config.pool = Cleared(PoolFields)
      /\ config.act = Cleared({"activation_type", "tensor_size"})
      /\ config.alpha = 0 /\ config.batch = 0
      /\ given.conv = Cleared(ConvFields) /\ given.pool = Cleared(PoolFields)
      /\ given.act = Cleared(ActivationFields) /\ given.batch = 0
      /\ call = NoCall /\ call.kind = "none" /\ ran = "nothing"
  BY DEF ConfigInit, NoCall
<1>5. config.conv0 = Conv0(given.conv) /\ config.conv1 = Conv1(given.conv)
  BY <1>2, <1>4 DEF Cleared, Conv0, Conv1, ConvFields
<1>6. config.pool = Pool(given.pool)
  BY <1>2, <1>4 DEF Cleared, Pool, PoolFields
<1>7. config.act = Act(given.act) /\ config.alpha = given.act.alpha
  BY <1>2, <1>4 DEF Cleared, Act, ActivationFields
<1>8. Held
  BY <1>2, <1>4, <1>5, <1>6, <1>7 DEF Held
<1>9. given \in Given
  BY DEF ConfigInit, Given, Arguments, Cleared
<1>10. config.conv0 \in ConvRegister0 /\ config.conv1 \in ConvRegister1
  <2>1. given.conv \in Arguments(ConvFields)
    BY <1>9 DEF Given
  <2> QED
    BY <1>5, <2>1, ConvWrites
<1>11. config.pool \in PoolRegister
  <2>1. given.pool \in Arguments(PoolFields)
    BY <1>9 DEF Given
  <2> QED
    BY <1>6, <2>1, PoolWrites
<1>12. config.act \in ActRegister
  <2>1. given.act \in Arguments(ActivationFields)
    BY <1>9 DEF Given
  <2> QED
    BY <1>7, <2>1, ActivationWrites
<1>13. config \in Config
  <2>1. config = [conv0 |-> config.conv0, conv1 |-> config.conv1, pool |-> config.pool,
                  act |-> config.act, alpha |-> config.alpha, batch |-> config.batch]
    BY DEF ConfigInit
  <2> QED
    BY <1>3, <1>4, <1>10, <1>11, <1>12, <2>1 DEF Config
<1>14. ConfigTypeOK
  BY <1>4, <1>9, <1>13, ConfigTypes DEF Calls
<1> QED
  BY <1>1, <1>4, <1>8, <1>14
  DEF ConfigInv, CallsBetween, Driving, RunsAsAsked, OperationHasItsSettings

(* Every step keeps the types. *)
LEMMA ConfigTypedStep == ConfigTypeOK /\ [ConfigNext]_configVars => ConfigTypeOK'
<1> SUFFICES ASSUME ConfigTypeOK, [ConfigNext]_configVars PROVE ConfigTypeOK'
  OBVIOUS
<1>1. /\ config \in Config /\ call \in Calls /\ given \in Given
      /\ ran \in {"nothing", "asked", "other"}
  BY ConfigTypes
<1>2. CASE UNCHANGED configVars
  BY <1>2 DEF configVars, ConfigTypeOK
<1>3. CASE ConfigNext
  <2>1. Watch
    BY <1>3 DEF ConfigNext, Library, Configures, neurax_config_conv, ConvSecond,
                neurax_config_pool, neurax_config_activation, ActivationSecond,
                neurax_set_batch_size
  <2>2. ran' \in {"nothing", "asked", "other"}
    BY <1>1, <2>1 DEF Watch
  <2>3. config' \in Config /\ call' \in Calls /\ given' \in Given
    BY <1>1, <1>3, CallStep DEF ConfigNext, Library
  <2> QED
    BY <2>2, <2>3, Zenon
       DEF ConfigTypeOK, Config, ConvRegister0, ConvRegister1, PoolRegister, ActRegister, Calls,
           Given
<1> QED
  BY <1>2, <1>3

(* Every field of the configuration registers keeps to its width, whatever the
   calls are given, and at any clock between the two writes of a call.     *)
THEOREM ConfigTypeCorrect == ConfigSpec => []ConfigTypeOK
<1>1. ConfigInit => ConfigTypeOK
  BY ConfigInitially DEF ConfigInv
<1> QED
  BY <1>1, ConfigTypedStep, PTL DEF ConfigSpec

(* Every step keeps the invariant. *)
LEMMA ConfigInductive ==
  ASSUME Hold > 1
  PROVE  ConfigInv /\ [ConfigNext]_configVars => ConfigInv'
<1> SUFFICES ASSUME ConfigInv, [ConfigNext]_configVars PROVE ConfigInv'
  OBVIOUS
<1>1. SessionInv' /\ ConfigTypeOK'
  BY ConfigStepIsBsp, SessionInductive, ConfigTypedStep DEF ConfigInv
<1>2. CASE UNCHANGED configVars
  <2>1. UNCHANGED <<controlVars, sessionVars, config, call, given, ran>>
    BY <1>2 DEF configVars, bspVars
  <2> QED
    BY <1>1, <2>1
    DEF ConfigInv, Held, CallsBetween, Driving, RunsAsAsked, RanAsAsked, Watched,
        OperationHasItsSettings, sessionVars, controlVars, topVars, history
<1>3. CASE Library
  <2>1. BspNext /\ Watch /\ UNCHANGED <<config, call, given>>
    BY <1>3 DEF Library, BspNext
  <2>2. RunsAsAsked'
    BY <1>1, <2>1, WatchStep
  <2>3. Held'
    BY <2>1 DEF ConfigInv, Held
  <2>4. CallsBetween'
    BY <1>3, <2>1 DEF ConfigInv, CallsBetween, Driving, Library, Sleep
  <2> QED
    BY <1>1, <2>2, <2>3, <2>4 DEF ConfigInv
<1>4. CASE \/ neurax_config_conv \/ ConvSecond
           \/ neurax_config_pool
           \/ neurax_config_activation \/ ActivationSecond
           \/ neurax_set_batch_size
  <2>1. Configures
    BY <1>4 DEF neurax_config_conv, ConvSecond, neurax_config_pool, neurax_config_activation,
                ActivationSecond, neurax_set_batch_size
  <2>2. BspNext /\ Watch /\ pc' = "caller"
    BY <2>1 DEF Configures, Sleep, BspNext
  <2>3. RunsAsAsked'
    BY <1>1, <2>2, WatchStep
  <2>4. Held'
    BY <1>4, CallStep DEF ConfigInv
  <2> QED
    BY <1>1, <2>2, <2>3, <2>4 DEF ConfigInv, CallsBetween, Driving
<1> QED
  BY <1>2, <1>3, <1>4 DEF ConfigNext

(* The invariant of the configuration calls holds throughout. *)
LEMMA ConfigInvariance == ASSUME Hold > 1 PROVE ConfigSpec => []ConfigInv
<1>1. ConfigInv /\ [ConfigNext]_configVars => ConfigInv'
  BY ConfigInductive
<1> QED
  BY <1>1, ConfigInitially, PTL DEF ConfigSpec

(* An operation that the program has waited for ran with the settings made
   before it was started, each at the nearest value the unit can have, but
   numbers of channels that the ports are not built for.                   *)
THEOREM OperationRunsAsConfigured ==
  ASSUME Hold > 1
  PROVE  ConfigSpec => []OperationHasItsSettings
<1>1. ConfigInv => OperationHasItsSettings
  BY DEF ConfigInv, RunsAsAsked
<1> QED
  BY <1>1, ConfigInvariance, PTL
=============================================================================

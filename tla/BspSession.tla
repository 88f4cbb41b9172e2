------------------------------ MODULE BspSession ------------------------------
(***************************************************************************)
(* A program on the processor that drives the accelerator through          *)
(* software/bsp/neurax_bsp.c: neurax_reset, neurax_enable, neurax_start,   *)
(* neurax_wait_done and neurax_bsp_deinit, called in any order a caller    *)
(* may choose, but each neurax_start is followed by a neurax_wait_done.    *)
(* Every register access falls on a clock edge of ControlPlane; any number *)
(* of edges passes between two accesses, and no fewer than the program     *)
(* sleeps while it holds START or a reset.  An operation ends on any edge: *)
(* before START is cleared too, and then it is launched again.             *)
(***************************************************************************)
EXTENDS ControlPlane

CONSTANTS
  OpSelect,    (* The operations the program starts.                       *)
  Hold,        (* Edges for which neurax_start sleeps with START set.      *)
  MayTimeOut   (* neurax_wait_done may give up.                            *)

ASSUME SessionAssumption ==
  OpSelect \subseteq Int /\ Hold \in Nat /\ MayTimeOut \in BOOLEAN

VARIABLES
  pc,      (* Where the program is; "caller" is outside the library.       *)
  slept,   (* Edges since the last access, up to Hold.                     *)
  cmd,     (* neurax_start's local variable.                               *)
  before,  (* History: operations launched when neurax_start was called,   *)
  free,    (* and whether none was in progress.                            *)
  waited   (* History: what the last neurax_wait_done returned.            *)

sessionVars == <<pc, slept, cmd, before, free, waited>>
bspVars     == <<controlVars, sessionVars>>

-----------------------------------------------------------------------------
(* One edge on which the program performs the access bus.  The data interface
   is idle, and a unit finishes whenever it likes.                         *)
Access(bus) ==
  \E unit_done \in BOOLEAN :
    Edge(bus, unit_done, [valid |-> FALSE], FALSE, [wren |-> FALSE])

Goto(from, to) == pc = from /\ pc' = to /\ slept' = 0

Sleep ==
  /\ Access(NoWrite)
  /\ slept' = IF slept < Hold THEN slept + 1 ELSE slept
  /\ UNCHANGED <<pc, cmd, before, free, waited>>

(* neurax_reset: disable, sleep, enable. *)
Disable ==
  /\ Goto("caller", "resetting")
  /\ Access(Write("CMD", ClearedRegisters.CMD))
  /\ waited' = "none"
  /\ UNCHANGED <<cmd, before, free>>

Enable ==
  /\ slept >= Hold
  /\ Goto("resetting", "reset")
  /\ Access(Write("CMD", [enable |-> TRUE, op |-> 0, start |-> FALSE]))
  /\ UNCHANGED <<cmd, before, free, waited>>

ResetReturns ==
  /\ slept >= Hold
  /\ Goto("reset", "caller")
  /\ Access(NoWrite)
  /\ UNCHANGED <<cmd, before, free, waited>>

(* neurax_enable: CMD read, and written with ENABLE set; nobody else writes it
   in between.                                                             *)
SetEnable ==
  /\ Goto("caller", "caller")
  /\ Access(Write("CMD", [reg.CMD EXCEPT !.enable = TRUE]))
  /\ UNCHANGED <<cmd, before, free, waited>>

(* Fault: the operation is not cut to its two bits. *)
StartUnmasked ==
  /\ Goto("caller", "starting")
  /\ \E o \in OpSelect : cmd' = [enable |-> TRUE, op |-> o, start |-> TRUE]
  /\ Access(Write("CMD", cmd'))
  /\ before' = operations /\ free' = (current_state' \notin Ops)
  /\ waited' = "none"

(* neurax_start: START set, a sleep, START cleared. *)
Start ==
  /\ Goto("caller", "starting")
  /\ \E o \in OpSelect : cmd' = [enable |-> TRUE, op |-> o % 4, start |-> TRUE]
  /\ Access(Write("CMD", cmd'))
  /\ before' = operations /\ free' = (current_state' \notin Ops)
  /\ waited' = "none"

ClearStart ==
  /\ slept >= Hold
  /\ Goto("starting", "started")
  /\ cmd' = [cmd EXCEPT !.start = FALSE]
  /\ Access(Write("CMD", cmd'))
  /\ UNCHANGED <<before, free, waited>>

(* neurax_wait_done: STATUS read until DONE, with a sleep after each read that
   finds none.  After the last sleep STATUS is read once more, but the time is
   up whatever it says.                                                    *)
SeesDone ==
  /\ reg.STATUS.done
  /\ Goto("started", "caller")
  /\ Access(NoWrite)
  /\ waited' = "done"
  /\ UNCHANGED <<cmd, before, free>>

NotDone ==
  /\ ~reg.STATUS.done
  /\ Goto("started", "polled")
  /\ Access(NoWrite)
  /\ UNCHANGED <<cmd, before, free, waited>>

PollAgain ==
  /\ Goto("polled", "started")
  /\ Access(NoWrite)
  /\ UNCHANGED <<cmd, before, free, waited>>

GivesUp ==
  /\ MayTimeOut
  /\ Goto("polled", "caller")
  /\ Access(NoWrite)
  /\ waited' = "timeout"
  /\ UNCHANGED <<cmd, before, free>>

(* neurax_bsp_deinit, after which another program may start over. *)
Deinit ==
  /\ Goto("caller", "caller")
  /\ Access(Write("CMD", ClearedRegisters.CMD))
  /\ UNCHANGED <<cmd, before, free, waited>>

BspInit ==
  /\ ControlInit
  /\ pc = "caller" /\ slept = 0 /\ cmd = ClearedRegisters.CMD
  /\ before = 0 /\ free = TRUE /\ waited = "none"

BspNext ==
  \/ Sleep
  \/ Disable \/ Enable \/ ResetReturns
  \/ SetEnable
  \/ Start \/ ClearStart
  \/ SeesDone \/ NotDone \/ PollAgain \/ GivesUp
  \/ Deinit

BspSpec == BspInit /\ [][BspNext]_bspVars

(* The clock runs and every unit ends; the program is scheduled. *)
UnitEnds == current_state \in Ops /\ Sleep /\ current_state' = "DONE_ST"

BspFairness ==
  /\ WF_bspVars(Sleep) /\ WF_bspVars(UnitEnds)
  /\ WF_bspVars(ClearStart) /\ WF_bspVars(SeesDone) /\ WF_bspVars(PollAgain)

-----------------------------------------------------------------------------
(* Type invariant. *)
BspTypeOK ==
  /\ ControlTypeOK
  /\ pc \in {"caller", "resetting", "reset", "starting", "started", "polled"}
  /\ slept \in 0 .. Hold
  /\ cmd \in Cmd
  /\ before \in Nat /\ free \in BOOLEAN
  /\ waited \in {"none", "done", "timeout"}

(* Operations that have come to their end. *)
Ended == operations - (IF current_state \in Ops THEN 1 ELSE 0)

(* When neurax_wait_done returns 0 the operation that the neurax_start before
   it launched has run and is over: neither a stale DONE of an earlier
   operation nor one still in progress is reported, unless an operation that
   was given up on, or launched again by a START held for too long, was still
   running when neurax_start was called.                                   *)
WaitDoneIsCurrent == waited = "done" /\ free => Ended > before

(* A call of neurax_start launches one operation: the start bit "is
   edge-detected in HW (fires on IDLE -> OP transition)".                  *)
OneOperationPerStart ==
  pc \in {"starting", "started", "polled"} => operations <= before + 1

(* The accelerator is "Not busy after reset". *)
NotBusyAfterReset == pc = "reset" /\ slept >= Hold => ~reg.STATUS.busy

(* A program that starts an operation and waits for it is told the outcome. *)
WaitDoneReturns == pc = "starting" ~> waited \in {"done", "timeout"}
=============================================================================

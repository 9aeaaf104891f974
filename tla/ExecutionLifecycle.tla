-------------------------- MODULE ExecutionLifecycle --------------------------
(***************************************************************************)
(* What an execution promises to whoever reads its state.json: the state   *)
(* machine of docs/06-human-in-the-loop.md as domain/execution.rs carries  *)
(* it out.  A status, the gate that is open, how many gates were raised,   *)
(* and the verdict of the result.                                          *)
(***************************************************************************)
EXTENDS Naturals

VARIABLES
  status,   \* "Absent" until state.json exists
  open,     \* number of the gate awaiting a decision, 0 if none
  asked,    \* number of gates raised
  verdict   \* "none", "success" or "failure"

lifecycle == <<status, open, asked, verdict>>

Init ==
  /\ status = "Absent"
  /\ open = 0
  /\ asked = 0
  /\ verdict = "none"

Start ==
  /\ status = "Absent"
  /\ status' = "Running"
  /\ UNCHANGED <<open, asked, verdict>>

\* A gate is opened by a running execution only, with a number of its own.
RaiseGate ==
  /\ status = "Running"
  /\ status' = "WaitingForHuman"
  /\ asked' = asked + 1
  /\ open' = asked'
  /\ UNCHANGED verdict

\* A decision closes the open gate, and only a decision lets it run again.
Decide ==
  /\ status = "WaitingForHuman"
  /\ open # 0
  /\ status' = "Running"
  /\ open' = 0
  /\ UNCHANGED <<asked, verdict>>

Succeed ==
  /\ status = "Running"
  /\ status' = "Completed"
  /\ verdict' = "success"
  /\ UNCHANGED <<open, asked>>

GiveUp ==
  /\ status = "Running"
  /\ status' = "Failed"
  /\ verdict' = "failure"
  /\ UNCHANGED <<open, asked>>

\* Cancelling is possible in every status, a finished execution included.
CallOff ==
  /\ status # "Absent"
  /\ status' = "Cancelled"
  /\ open' = 0
  /\ verdict' = "failure"
  /\ UNCHANGED asked

Next == Start \/ RaiseGate \/ Decide \/ Succeed \/ GiveUp \/ CallOff

Spec == Init /\ [][Next]_lifecycle
=============================================================================

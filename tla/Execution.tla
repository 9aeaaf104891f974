------------------------------- MODULE Execution -------------------------------
(***************************************************************************)
(* The Execution record of domain/execution.rs and its methods, as         *)
(* operators from a record to a record.  An Execution is what state.json   *)
(* holds; the phase loop works on a copy in memory and saves it whole.     *)
(*                                                                         *)
(* current_step mirrors status and phase for display, and ids, times and   *)
(* free text carry no control: they are left out.                          *)
(*                                                                         *)
(* An operator marked "mutant" is a plausible bug in the one after it.     *)
(***************************************************************************)
EXTENDS Workflow, Naturals, Sequences, FiniteSets

CONSTANTS
  Options,   \* option ids an agent can offer at a gate
  NoOption,  \* no option: the payload of an event that carries none
  NoGate,    \* pending_question = None
  NoResult   \* result = None

Statuses == {"Running", "WaitingForHuman", "Completed", "Failed", "Cancelled"}

EventTypes ==
  {"Started", "AgentStarted", "QuestionRaised", "HumanDecided", "AgentResumed",
   "ValidationStarted", "ValidationPassed", "ValidationFailed",
   "HandoffOpened", "Completed", "Failed", "Cancelled"}

Gates   == [id : Nat, options : SUBSET Options]
Events  == [type : EventTypes, option : Options \cup {NoOption}]
Results == [success : BOOLEAN, changed : SUBSET Files]

\* A session is the set of phases whose turns its conversation holds;
\* the empty set is agent_session_id = None.
Sessions == SUBSET Phases

Executions ==
  [status    : Statuses,
   workflow  : WorkflowStates,
   messages  : Seq(Events),
   gates     : Seq(Gates),
   pending   : Gates \cup {NoGate},
   result    : Results \cup {NoResult},
   artifacts : SUBSET Files,
   session   : Sessions]

ASSUME ExecutionAssumption ==
  /\ NoOption \notin Options
  /\ NoGate \notin Gates
  /\ NoResult \notin Results

Event(type) == [type |-> type, option |-> NoOption]

Record(e, event) == [e EXCEPT !.messages = Append(@, event)]

StartExecution ==
  [status    |-> "Running",
   workflow  |-> StartWorkflow,
   messages  |-> <<Event("Started")>>,
   gates     |-> <<>>,
   pending   |-> NoGate,
   result    |-> NoResult,
   artifacts |-> {},
   session   |-> {}]

Advance(e, w) == [e EXCEPT !.workflow = w]

OnlyLast(gates, gate)  == <<gate>>               \* mutant
AddGate(gates, gate)   == Append(gates, gate)

Ask(e, gate) ==
  [Record(e, Event("QuestionRaised"))
     EXCEPT !.status  = "WaitingForHuman",
            !.pending = gate,
            !.gates   = AddGate(@, gate)]

\* What a decision leaves as the pending question.
Kept(e)     == e.pending       \* mutant
Answered(e) == NoGate

ApplyDecision(e, option) ==
  [e EXCEPT
     !.messages = Append(Append(@, [type |-> "HumanDecided", option |-> option]),
                         Event("AgentResumed")),
     !.pending  = Answered(e),
     !.status   = "Running"]

Complete(e, result) ==
  [Record(e, Event("Completed"))
     EXCEPT !.artifacts = result.changed,
            !.status    = "Completed",
            !.result    = result]

\* fail leaves pending_question as it finds it.
Fail(e) ==
  [Record(e, Event("Failed"))
     EXCEPT !.status = "Failed",
            !.result = [success |-> FALSE, changed |-> e.artifacts]]

StillOpen(e) == e.pending      \* mutant
CalledOff(e) == NoGate

Silently(e)  == e              \* mutant
OnRecord(e)  == Record(e, Event("Cancelled"))

\* cancel asks nothing of the status it finds.
Cancel(e) ==
  [OnRecord(e)
     EXCEPT !.pending = CalledOff(e),
            !.status  = "Cancelled",
            !.result  = [success |-> FALSE, changed |-> e.artifacts]]

\* record_handoff: the gate stays open.
RecordHandoff(e) == Record(e, Event("HandoffOpened"))

-----------------------------------------------------------------------------
\* The status an event log implies: its last event decides
\* (docs/06: "status is just the state that log implies").
StatusOf(log) ==
  LET last == log[Len(log)].type
  IN CASE last \in {"QuestionRaised", "HandoffOpened"} -> "WaitingForHuman"
       [] last \in {"Completed", "Failed", "Cancelled"} -> last
       [] OTHER -> "Running"

\* The places of a log at which a decision is recorded, and the number of
\* the one at place i: report.rs pairs it with the gate of that number.
Decided(log)    == {i \in DOMAIN log : log[i].type = "HumanDecided"}
Ordinal(log, i) == Cardinality({j \in Decided(log) : j <= i})

\* The nth decision chose an option of the nth gate, and no gate is left
\* undecided but the open one, or one closed by a cancellation.
DecisionsMatchGates(e) ==
  LET waiting == Len(e.gates) - Cardinality(Decided(e.messages))
  IN /\ \A i \in Decided(e.messages) :
          LET n == Ordinal(e.messages, i)
          IN n <= Len(e.gates) /\ e.messages[i].option \in e.gates[n].options
     /\ waiting \in CASE e.status = "WaitingForHuman" -> {1}
                       [] e.status = "Cancelled" -> {0, 1}
                       [] OTHER -> {0}
=============================================================================

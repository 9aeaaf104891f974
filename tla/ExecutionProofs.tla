---------------------------- MODULE ExecutionProofs ----------------------------
(***************************************************************************)
(* Lemmas about the Execution record and its methods, for every set of     *)
(* files, contents and options.  PhaseLoopProofs and DecisionsProofs rest  *)
(* on them: the one process of the phase loop and the many of Decisions    *)
(* change the record by these methods and by nothing else.                 *)
(***************************************************************************)
EXTENDS Execution, FiniteSetTheorems, TLAPS

-----------------------------------------------------------------------------
(* The methods of Execution return an Execution. *)

LEMMA EventIsEvent ==
  ASSUME NEW type \in EventTypes
  PROVE  Event(type) \in Events
BY DEF Event, Events

LEMMA RecordIsExecution ==
  ASSUME NEW e \in Executions, NEW event \in Events
  PROVE  Record(e, event) \in Executions
<1>1. Append(e.messages, event) \in Seq(Events)
  BY DEF Executions
<1>2. Record(e, event) = [e EXCEPT !.messages = Append(e.messages, event)]
  BY DEF Record
<1> QED
  BY <1>1, <1>2 DEF Executions

LEMMA StartIsExecution == StartExecution \in Executions
<1>1. StartWorkflow \in WorkflowStates
  BY DEF StartWorkflow, WorkflowStates, NoAction, NoValidation, Phases,
         Actions, Validations
<1>2. <<Event("Started")>> \in Seq(Events)
  BY EventIsEvent DEF EventTypes
<1> QED
  BY <1>1, <1>2 DEF StartExecution, Executions, Statuses, Sessions

LEMMA AdvanceIsExecution ==
  ASSUME NEW e \in Executions, NEW w \in WorkflowStates
  PROVE  Advance(e, w) \in Executions
BY DEF Advance, Executions

LEMMA AskIsExecution ==
  ASSUME NEW e \in Executions, NEW gate \in Gates
  PROVE  Ask(e, gate) \in Executions
<1> DEFINE r == Record(e, Event("QuestionRaised"))
<1>1. r \in Executions
  BY RecordIsExecution, EventIsEvent DEF EventTypes
<1>2. Append(r.gates, gate) \in Seq(Gates)
  BY <1>1 DEF Executions
<1>3. Ask(e, gate) = [r EXCEPT !.status = "WaitingForHuman", !.pending = gate,
                              !.gates = Append(r.gates, gate)]
  BY DEF Ask, AddGate
<1> HIDE DEF r
<1> QED
  BY <1>1, <1>2, <1>3 DEF Executions, Statuses

LEMMA ApplyDecisionIsExecution ==
  ASSUME NEW e \in Executions, NEW option \in Options
  PROVE  ApplyDecision(e, option) \in Executions
<1> DEFINE chosen == [type |-> "HumanDecided", option |-> option]
           log    == Append(Append(e.messages, chosen), Event("AgentResumed"))
<1>1. chosen \in Events /\ Event("AgentResumed") \in Events
  BY EventIsEvent DEF EventTypes, Events
<1>2. e.messages \in Seq(Events)
  BY DEF Executions
<1>3. log \in Seq(Events)
  BY <1>1, <1>2
<1>4. ApplyDecision(e, option) =
        [e EXCEPT !.messages = log, !.pending = NoGate, !.status = "Running"]
  BY DEF ApplyDecision, Answered
<1> HIDE DEF log
<1> QED
  BY <1>3, <1>4 DEF Executions, Statuses

LEMMA CompleteIsExecution ==
  ASSUME NEW e \in Executions, NEW result \in Results
  PROVE  Complete(e, result) \in Executions
<1> DEFINE r == Record(e, Event("Completed"))
<1>1. r \in Executions
  BY RecordIsExecution, EventIsEvent DEF EventTypes
<1>2. Complete(e, result) = [r EXCEPT !.artifacts = result.changed,
                                     !.status = "Completed", !.result = result]
  BY DEF Complete
<1> HIDE DEF r
<1> QED
  BY <1>1, <1>2 DEF Executions, Statuses, Results

LEMMA FailIsExecution ==
  ASSUME NEW e \in Executions
  PROVE  Fail(e) \in Executions
<1> DEFINE r == Record(e, Event("Failed"))
           result == [success |-> FALSE, changed |-> e.artifacts]
<1>1. r \in Executions
  BY RecordIsExecution, EventIsEvent DEF EventTypes
<1>2. result \in Results
  BY DEF Executions, Results
<1>3. Fail(e) = [r EXCEPT !.status = "Failed", !.result = result]
  BY DEF Fail
<1> HIDE DEF r, result
<1> QED
  BY <1>1, <1>2, <1>3 DEF Executions, Statuses

LEMMA CancelIsExecution ==
  ASSUME NEW e \in Executions
  PROVE  Cancel(e) \in Executions
<1> DEFINE r == Record(e, Event("Cancelled"))
           result == [success |-> FALSE, changed |-> e.artifacts]
<1>1. r \in Executions
  BY RecordIsExecution, EventIsEvent DEF EventTypes
<1>2. result \in Results
  BY DEF Executions, Results
<1>3. Cancel(e) = [r EXCEPT !.pending = NoGate, !.status = "Cancelled",
                            !.result = result]
  BY DEF Cancel, OnRecord, CalledOff
<1> HIDE DEF r, result
<1> QED
  BY <1>1, <1>2, <1>3 DEF Executions, Statuses

\* What run_llm_phase gives back to the execution when the turn stops it.
LEMMA GivenBackIsExecution ==
  ASSUME NEW e \in Executions, NEW s \in Sessions, NEW w \in WorkflowStates
  PROVE  [e EXCEPT !.session = s, !.workflow = w] \in Executions
BY DEF Executions

-----------------------------------------------------------------------------
(* The transitions of WorkflowState return a WorkflowState. *)

LEMMA LegacyIsWorkflowState == Legacy \in WorkflowStates
BY DEF Legacy, WorkflowStates, Actions, NoAction, Validations, NoValidation

LEMMA TransitionsAreWorkflowStates ==
  ASSUME NEW w \in WorkflowStates, NEW a \in Actions, NEW v \in Validations
  PROVE  /\ CompleteUnderstand(w) \in WorkflowStates
         /\ CompleteLocate(w) \in WorkflowStates
         /\ CompleteAct(w, a) \in WorkflowStates
         /\ CompleteValidate(w, v) \in WorkflowStates
BY DEF CompleteUnderstand, CompleteLocate, CompleteAct, CompleteValidate,
       WorkflowStates, Phases

LEMMA TransitionsMovePhase ==
  ASSUME NEW w \in WorkflowStates, NEW a \in Actions, NEW v \in Validations
  PROVE  /\ CompleteUnderstand(w).phase = "Locate"
         /\ CompleteLocate(w).phase = "Act"
         /\ CompleteAct(w, a).phase = "Validate"
         /\ CompleteValidate(w, v).phase = "Report"
BY DEF CompleteUnderstand, CompleteLocate, CompleteAct, CompleteValidate,
       WorkflowStates

-----------------------------------------------------------------------------
(* Decisions of a log, counted.  They are finitely many, an event that is  *)
(* no decision leaves them and their numbers alone, and a decision is      *)
(* numbered one more than there were.                                      *)

\* The two halves of DecisionsMatchGates.
DecisionsPaired(e) ==
  \A i \in Decided(e.messages) :
    LET n == Ordinal(e.messages, i)
    IN n <= Len(e.gates) /\ e.messages[i].option \in e.gates[n].options

Undecided(e) == Len(e.gates) - Cardinality(Decided(e.messages))

LEMMA PairedIsMatch ==
  ASSUME NEW e
  PROVE  DecisionsMatchGates(e) <=>
           /\ DecisionsPaired(e)
           /\ Undecided(e) \in CASE e.status = "WaitingForHuman" -> {1}
                                  [] e.status = "Cancelled" -> {0, 1}
                                  [] OTHER -> {0}
BY DEF DecisionsMatchGates, DecisionsPaired, Undecided

LEMMA DecidedIsFinite ==
  ASSUME NEW log \in Seq(Events)
  PROVE  /\ Decided(log) \subseteq 1..Len(log)
         /\ IsFiniteSet(Decided(log))
         /\ Cardinality(Decided(log)) \in Nat
<1>1. Decided(log) \subseteq 1..Len(log)
  BY DEF Decided
<1>2. IsFiniteSet(1..Len(log))
  BY FS_Interval
<1>3. IsFiniteSet(Decided(log))
  BY <1>1, <1>2, FS_Subset
<1> QED
  BY <1>1, <1>3, FS_CardinalityType

LEMMA OrdinalIsPositive ==
  ASSUME NEW log \in Seq(Events), NEW i \in Decided(log)
  PROVE  Ordinal(log, i) \in Nat \ {0}
<1> DEFINE upTo == {j \in Decided(log) : j <= i}
<1>1. IsFiniteSet(upTo)
  BY DecidedIsFinite, FS_Subset
<1>2. i \in upTo
  BY DecidedIsFinite
<1>3. Cardinality(upTo) \in Nat /\ Cardinality(upTo) # 0
  BY <1>1, <1>2, FS_CardinalityType, FS_EmptySet
<1> QED
  BY <1>3 DEF Ordinal

LEMMA OtherEventsKeepDecisions ==
  ASSUME NEW log \in Seq(Events), NEW event \in Events, event.type # "HumanDecided",
         NEW longer, longer = Append(log, event)
  PROVE  /\ Decided(longer) = Decided(log)
         /\ \A i \in Decided(log) :
              longer[i] = log[i] /\ Ordinal(longer, i) = Ordinal(log, i)
<1>1. /\ DOMAIN longer = 1..(Len(log) + 1)
      /\ \A i \in 1..Len(log) : longer[i] = log[i]
      /\ longer[Len(log) + 1] = event
  OBVIOUS
<1>2. Decided(longer) = Decided(log)
  BY <1>1 DEF Decided
<1>3. \A i \in Decided(log) : longer[i] = log[i]
  BY <1>1, DecidedIsFinite
<1> QED
  BY <1>2, <1>3 DEF Ordinal

LEMMA DecisionIsCounted ==
  ASSUME NEW log \in Seq(Events), NEW event \in Events, event.type = "HumanDecided",
         NEW longer, longer = Append(log, event)
  PROVE  /\ Decided(longer) = Decided(log) \cup {Len(longer)}
         /\ longer[Len(longer)] = event
         /\ Ordinal(longer, Len(longer)) = Cardinality(Decided(log)) + 1
         /\ Cardinality(Decided(longer)) = Cardinality(Decided(log)) + 1
         /\ \A i \in Decided(log) : Ordinal(longer, i) = Ordinal(log, i)
<1> DEFINE last == Len(longer)
<1>1. /\ DOMAIN longer = 1..last /\ last = Len(log) + 1 /\ last \in Nat
      /\ \A i \in 1..Len(log) : longer[i] = log[i]
      /\ longer[last] = event
  OBVIOUS
<1>2. Decided(log) \subseteq 1..Len(log) /\ IsFiniteSet(Decided(log))
  BY DecidedIsFinite
<1>3. Decided(longer) = Decided(log) \cup {last}
  BY <1>1, <1>2 DEF Decided
<1>4. last \notin Decided(log)
  BY <1>1, <1>2
<1>5. Cardinality(Decided(longer)) = Cardinality(Decided(log)) + 1
  BY <1>2, <1>3, <1>4, FS_AddElement
<1>6. {j \in Decided(longer) : j <= last} = Decided(longer)
  BY <1>1, <1>2, <1>3
<1>7. \A i \in Decided(log) :
        {j \in Decided(longer) : j <= i} = {j \in Decided(log) : j <= i}
  BY <1>2, <1>3
<1> QED
  BY <1>1, <1>2, <1>3, <1>5, <1>6, <1>7 DEF Ordinal

\* An event that is no decision, with or without a new gate.
LEMMA OtherEventsKeepPairs ==
  ASSUME NEW e \in Executions, NEW f \in Executions, NEW event \in Events,
         event.type # "HumanDecided", f.messages = Append(e.messages, event),
         DecisionsPaired(e),
         f.gates = e.gates \/ \E gate \in Gates : f.gates = Append(e.gates, gate)
  PROVE  /\ DecisionsPaired(f)
         /\ f.gates = e.gates => Undecided(f) = Undecided(e)
         /\ f.gates # e.gates => Undecided(f) = Undecided(e) + 1
<1>1. /\ e.messages \in Seq(Events) /\ e.gates \in Seq(Gates)
  BY DEF Executions
<1>2. /\ Decided(f.messages) = Decided(e.messages)
      /\ \A i \in Decided(e.messages) :
           /\ f.messages[i] = e.messages[i]
           /\ Ordinal(f.messages, i) = Ordinal(e.messages, i)
  BY <1>1, OtherEventsKeepDecisions
<1>3. Cardinality(Decided(e.messages)) \in Nat
  BY <1>1, DecidedIsFinite
<1>4. /\ \A n \in 1..Len(e.gates) : f.gates[n] = e.gates[n]
      /\ Len(f.gates) >= Len(e.gates)
      /\ f.gates # e.gates => Len(f.gates) = Len(e.gates) + 1
  BY <1>1
<1>5. \A i \in Decided(e.messages) : Ordinal(e.messages, i) \in Nat \ {0}
  BY <1>1, OrdinalIsPositive
<1>6. Len(e.gates) \in Nat /\ Len(f.gates) \in Nat
  BY <1>1 DEF Executions
<1>7. DecisionsPaired(f)
  <2> SUFFICES ASSUME NEW i \in Decided(e.messages)
               PROVE  LET n == Ordinal(e.messages, i)
                      IN n <= Len(f.gates) /\ e.messages[i].option \in f.gates[n].options
    BY <1>2 DEF DecisionsPaired
  <2> DEFINE n == Ordinal(e.messages, i)
  <2>1. n <= Len(e.gates) /\ e.messages[i].option \in e.gates[n].options
    BY DEF DecisionsPaired
  <2>2. n \in 1..Len(e.gates)
    BY <1>5, <1>6, <2>1
  <2> HIDE DEF n
  <2> QED
    BY <1>4, <1>6, <2>1, <2>2 DEF n
<1> QED
  BY <1>2, <1>3, <1>4, <1>6, <1>7 DEF Undecided

\* ... and no change from running to another status than waiting.
LEMMA OtherEventsKeepMatch ==
  ASSUME NEW e \in Executions, NEW f \in Executions, NEW event \in Events,
         event.type # "HumanDecided", f.messages = Append(e.messages, event),
         DecisionsMatchGates(e), f.gates = e.gates,
         \/ f.status = e.status
         \/ e.status = "Running" /\ f.status \in {"Completed", "Failed"}
         \/ f.status = "Cancelled"
  PROVE  DecisionsMatchGates(f)
<1>1. DecisionsPaired(f) /\ Undecided(f) = Undecided(e)
  BY PairedIsMatch, OtherEventsKeepPairs
<1>2. Undecided(e) \in CASE e.status = "WaitingForHuman" -> {1}
                         [] e.status = "Cancelled" -> {0, 1}
                         [] OTHER -> {0}
  BY PairedIsMatch
<1>3. Undecided(f) \in CASE f.status = "WaitingForHuman" -> {1}
                         [] f.status = "Cancelled" -> {0, 1}
                         [] OTHER -> {0}
  BY <1>1, <1>2
<1> QED
  BY <1>1, <1>3, PairedIsMatch

\* A decision on the one gate that is undecided.
LEMMA DecisionKeepsPairs ==
  ASSUME NEW e \in Executions, NEW f \in Executions, NEW event \in Events,
         event.type = "HumanDecided", f.messages = Append(e.messages, event),
         f.gates = e.gates, DecisionsPaired(e), Undecided(e) = 1,
         event.option \in e.gates[Len(e.gates)].options
  PROVE  DecisionsPaired(f) /\ Undecided(f) = 0
<1> DEFINE last == Len(f.messages)
<1>1. e.messages \in Seq(Events) /\ e.gates \in Seq(Gates)
  BY DEF Executions
<1>2. /\ Decided(f.messages) = Decided(e.messages) \cup {last}
      /\ f.messages[last] = event
      /\ Ordinal(f.messages, last) = Cardinality(Decided(e.messages)) + 1
      /\ Cardinality(Decided(f.messages)) = Cardinality(Decided(e.messages)) + 1
      /\ \A i \in Decided(e.messages) :
           /\ f.messages[i] = e.messages[i]
           /\ Ordinal(f.messages, i) = Ordinal(e.messages, i)
  <2>1. \A i \in Decided(e.messages) : f.messages[i] = e.messages[i]
    BY <1>1, DecidedIsFinite
  <2> DEFINE log == e.messages
             longer == f.messages
  <2>2. log \in Seq(Events) /\ longer = Append(log, event)
    BY <1>1
  <2> HIDE DEF log, longer
  <2>3. Decided(longer) = Decided(log) \cup {Len(longer)}
    BY <2>2, DecisionIsCounted
  <2>4. longer[Len(longer)] = event
    BY <2>2
  <2>5. Ordinal(longer, Len(longer)) = Cardinality(Decided(log)) + 1
    BY <2>2, DecisionIsCounted
  <2>6. Cardinality(Decided(longer)) = Cardinality(Decided(log)) + 1
    BY <2>2, DecisionIsCounted
  <2>7. \A i \in Decided(log) : Ordinal(longer, i) = Ordinal(log, i)
    BY <2>2, DecisionIsCounted
  <2> QED
    BY <2>1, <2>3, <2>4, <2>5, <2>6, <2>7 DEF log, longer
<1>3. Cardinality(Decided(e.messages)) \in Nat /\ Len(e.gates) \in Nat
  BY <1>1, DecidedIsFinite
<1>4. Len(e.gates) = Cardinality(Decided(e.messages)) + 1
  BY <1>3 DEF Undecided
<1>5. DecisionsPaired(f)
  <2> SUFFICES ASSUME NEW i \in Decided(e.messages) \cup {last}
               PROVE  LET n == Ordinal(f.messages, i)
                      IN n <= Len(e.gates) /\ f.messages[i].option \in e.gates[n].options
    BY <1>2 DEF DecisionsPaired
  <2>1. CASE i \in Decided(e.messages)
    BY <1>2, <2>1 DEF DecisionsPaired
  <2>2. CASE i = last
    <3>1. Ordinal(f.messages, i) = Len(e.gates) /\ f.messages[i] = event
      BY <1>2, <1>4, <2>2
    <3> QED
      BY <1>3, <3>1
  <2> QED
    BY <2>1, <2>2
<1> QED
  BY <1>2, <1>3, <1>4, <1>5 DEF Undecided

-----------------------------------------------------------------------------
(* Status, event log, gates and decisions of one record.                   *)

\* The log implies the status; a gate is open exactly while the execution
\* waits, and is the last one raised; decisions and gates go together.
Consistent(e) ==
  /\ StatusOf(e.messages) = e.status
  /\ e.status = "WaitingForHuman" <=> e.pending # NoGate
  /\ e.pending # NoGate =>
       e.gates # <<>> /\ e.pending = e.gates[Len(e.gates)] /\ e.pending.id = Len(e.gates)
  /\ DecisionsMatchGates(e)

Underway(e) == e \in Executions /\ Consistent(e) /\ e.status = "Running"

\* The last event of a log decides its status.
LEMMA StatusOfLast ==
  ASSUME NEW log \in Seq(Events), NEW event \in Events
  PROVE  StatusOf(Append(log, event)) =
           CASE event.type \in {"QuestionRaised", "HandoffOpened"} -> "WaitingForHuman"
             [] event.type \in {"Completed", "Failed", "Cancelled"} -> event.type
             [] OTHER -> "Running"
<1>1. /\ Append(log, event)[Len(Append(log, event))] = event
  OBVIOUS
<1> QED
  BY <1>1 DEF StatusOf

\* The events that leave a running execution running.
LEMMA RecordUnderway ==
  ASSUME NEW e, Underway(e),
         NEW type \in {"AgentStarted", "ValidationStarted",
                       "ValidationPassed", "ValidationFailed"}
  PROVE  /\ Underway(Record(e, Event(type)))
         /\ Record(e, Event(type)).gates = e.gates
         /\ Record(e, Event(type)).result = e.result
<1> DEFINE r == Record(e, Event(type))
<1>1. e \in Executions /\ e.messages \in Seq(Events) /\ Event(type) \in Events
  BY EventIsEvent DEF Underway, Executions, EventTypes
<1>2. r \in Executions
  BY <1>1, RecordIsExecution
<1>3. /\ r.messages = Append(e.messages, Event(type))
      /\ r.status = e.status /\ r.pending = e.pending
      /\ r.gates = e.gates /\ r.result = e.result
  BY <1>1 DEF Record, Executions
<1>4. StatusOf(r.messages) = "Running"
  BY <1>1, <1>3, StatusOfLast DEF Event
<1> HIDE DEF r
<1>5. DecisionsMatchGates(r)
  BY <1>1, <1>2, <1>3, OtherEventsKeepMatch DEF Underway, Consistent, Event
<1>6. Underway(r)
  BY <1>2, <1>3, <1>4, <1>5 DEF Underway, Consistent
<1> QED
  BY <1>3, <1>6 DEF r

\* Workflow and session are no part of the agreement.
LEMMA WorkflowUnderway ==
  ASSUME NEW e, Underway(e), NEW w \in WorkflowStates, NEW s \in Sessions
  PROVE  /\ Underway([e EXCEPT !.workflow = w])
         /\ [e EXCEPT !.workflow = w].gates = e.gates
         /\ [e EXCEPT !.workflow = w].result = e.result
         /\ Underway([e EXCEPT !.session = s])
         /\ [e EXCEPT !.session = s].gates = e.gates
         /\ [e EXCEPT !.session = s].result = e.result
         /\ Underway([e EXCEPT !.session = s, !.workflow = w])
         /\ [e EXCEPT !.session = s, !.workflow = w].gates = e.gates
         /\ [e EXCEPT !.session = s, !.workflow = w].result = e.result
BY DEF Underway, Consistent, Executions, DecisionsMatchGates

LEMMA StartUnderway ==
  Underway(StartExecution) /\ StartExecution.gates = <<>>
  /\ StartExecution.result = NoResult
<1>1. StartExecution \in Executions
  BY StartIsExecution
<1>2. /\ StartExecution.messages[Len(StartExecution.messages)].type = "Started"
      /\ StartExecution.status = "Running"
      /\ StartExecution.pending = NoGate
      /\ StartExecution.gates = <<>>
      /\ StartExecution.result = NoResult
  BY DEF StartExecution, Event
<1>3. Decided(StartExecution.messages) = {}
  BY DEF StartExecution, Event, Decided
<1>4. Cardinality(Decided(StartExecution.messages)) = 0
  BY <1>3, FS_EmptySet
<1>5. DecisionsMatchGates(StartExecution)
  BY <1>2, <1>3, <1>4 DEF DecisionsMatchGates
<1> QED
  BY <1>1, <1>2, <1>5 DEF Underway, Consistent, StatusOf

LEMMA AskConsistent ==
  ASSUME NEW e, Underway(e), NEW options \in SUBSET Options,
         NEW gate, gate = [id |-> Len(e.gates) + 1, options |-> options]
  PROVE  /\ Ask(e, gate) \in Executions
         /\ Consistent(Ask(e, gate))
         /\ Ask(e, gate).status = "WaitingForHuman"
         /\ Ask(e, gate).pending = gate
         /\ Len(Ask(e, gate).gates) = Len(e.gates) + 1
         /\ Ask(e, gate).result = e.result
<1> DEFINE a == Ask(e, gate)
<1>1. e \in Executions /\ e.messages \in Seq(Events) /\ e.gates \in Seq(Gates)
      /\ Event("QuestionRaised") \in Events
  BY EventIsEvent DEF Underway, Executions, EventTypes
<1>2. gate \in Gates
  BY <1>1 DEF Gates
<1>3. a \in Executions
  BY <1>1, <1>2, AskIsExecution
<1>4. /\ a.messages = Append(e.messages, Event("QuestionRaised"))
      /\ a.status = "WaitingForHuman" /\ a.pending = gate
      /\ a.gates = Append(e.gates, gate) /\ a.result = e.result
  BY <1>1 DEF Ask, AddGate, Record, Executions
<1>5. StatusOf(a.messages) = "WaitingForHuman"
  BY <1>1, <1>4, StatusOfLast DEF Event
<1>6. /\ gate # NoGate
      /\ Len(a.gates) = Len(e.gates) + 1 /\ a.gates[Len(a.gates)] = gate
      /\ a.gates # <<>>
  BY <1>1, <1>2, <1>4, ExecutionAssumption
<1>7. gate.id = Len(a.gates)
  BY <1>6
<1> HIDE DEF a
<1>8. DecisionsMatchGates(a)
  <2>1. DecisionsPaired(e) /\ Undecided(e) = 0
    BY PairedIsMatch DEF Underway, Consistent
  <2>2. Event("QuestionRaised").type # "HumanDecided" /\ a.gates # e.gates
    BY <1>1, <1>6 DEF Event
  <2>3. DecisionsPaired(a) /\ Undecided(a) = 1
    BY <1>1, <1>2, <1>3, <1>4, <2>1, <2>2, OtherEventsKeepPairs
  <2> QED
    BY <1>4, <2>3, PairedIsMatch
<1>9. Consistent(a)
  BY <1>4, <1>5, <1>6, <1>7, <1>8 DEF Consistent
<1> QED
  BY <1>3, <1>4, <1>6, <1>9 DEF a

LEMMA ApplyDecisionUnderway ==
  ASSUME NEW e \in Executions, Consistent(e), e.status = "WaitingForHuman",
         NEW option \in Options, option \in e.pending.options
  PROVE  /\ Underway(ApplyDecision(e, option))
         /\ ApplyDecision(e, option).pending = NoGate
         /\ ApplyDecision(e, option).gates = e.gates
         /\ ApplyDecision(e, option).result = e.result
<1> DEFINE d      == ApplyDecision(e, option)
           chosen == [type |-> "HumanDecided", option |-> option]
<1>1. d \in Executions
  BY ApplyDecisionIsExecution
<1>2. /\ e.messages \in Seq(Events) /\ chosen \in Events
      /\ Event("AgentResumed") \in Events
  BY EventIsEvent DEF Executions, Events, EventTypes
<1>3. Append(e.messages, chosen) \in Seq(Events)
  BY <1>2
<1>4. /\ d.messages = Append(Append(e.messages, chosen), Event("AgentResumed"))
      /\ d.pending = NoGate /\ d.status = "Running"
      /\ d.gates = e.gates /\ d.result = e.result
  BY DEF ApplyDecision, Answered, Executions
<1>5. StatusOf(d.messages) = "Running"
  BY <1>2, <1>3, <1>4, StatusOfLast DEF Event
<1> HIDE DEF d
<1>6. DecisionsMatchGates(d)
  <2> DEFINE m == [e EXCEPT !.messages = Append(e.messages, chosen)]
  <2>1. /\ m \in Executions /\ m.messages = Append(e.messages, chosen)
        /\ m.gates = e.gates
    BY <1>3 DEF Executions
  <2>2. DecisionsPaired(e) /\ Undecided(e) = 1
    BY PairedIsMatch DEF Consistent
  <2>3. chosen.type = "HumanDecided"
        /\ chosen.option \in e.gates[Len(e.gates)].options
    BY DEF Consistent
  <2> HIDE DEF m
  <2>4. DecisionsPaired(m) /\ Undecided(m) = 0
    BY <1>2, <2>1, <2>2, <2>3, DecisionKeepsPairs
  <2>5. Event("AgentResumed").type # "HumanDecided"
        /\ d.messages = Append(m.messages, Event("AgentResumed")) /\ d.gates = m.gates
    BY <1>4, <2>1 DEF Event
  <2>6. DecisionsPaired(d) /\ Undecided(d) = 0
    BY <1>1, <1>2, <2>1, <2>4, <2>5, OtherEventsKeepPairs
  <2> QED
    BY <1>4, <2>6, PairedIsMatch
<1>7. Underway(d)
  BY <1>1, <1>4, <1>5, <1>6 DEF Underway, Consistent
<1> QED
  BY <1>4, <1>7 DEF d

LEMMA CompleteConsistent ==
  ASSUME NEW e, Underway(e), NEW result \in Results
  PROVE  /\ Complete(e, result) \in Executions
         /\ Consistent(Complete(e, result))
         /\ Complete(e, result).status = "Completed"
         /\ Complete(e, result).pending = NoGate
         /\ Complete(e, result).gates = e.gates
         /\ Complete(e, result).result = result
<1> DEFINE c == Complete(e, result)
<1>1. e \in Executions /\ e.messages \in Seq(Events) /\ Event("Completed") \in Events
  BY EventIsEvent DEF Underway, Executions, EventTypes
<1>2. c \in Executions
  BY <1>1, CompleteIsExecution
<1>3. /\ c.messages = Append(e.messages, Event("Completed"))
      /\ c.status = "Completed" /\ c.pending = e.pending
      /\ c.gates = e.gates /\ c.result = result
  BY <1>1 DEF Complete, Record, Executions
<1>4. StatusOf(c.messages) = "Completed"
  BY <1>1, <1>3, StatusOfLast DEF Event
<1> HIDE DEF c
<1>5. c.pending = NoGate
  BY <1>3 DEF Underway, Consistent
<1>6. DecisionsMatchGates(c)
  BY <1>1, <1>2, <1>3, OtherEventsKeepMatch DEF Underway, Consistent, Event
<1>7. Consistent(c)
  BY <1>3, <1>4, <1>5, <1>6 DEF Consistent
<1> QED
  BY <1>2, <1>3, <1>5, <1>7 DEF c

LEMMA FailConsistent ==
  ASSUME NEW e, Underway(e)
  PROVE  /\ Fail(e) \in Executions
         /\ Consistent(Fail(e))
         /\ Fail(e).status = "Failed"
         /\ Fail(e).pending = NoGate
         /\ Fail(e).gates = e.gates
         /\ Fail(e).result \in Results /\ ~Fail(e).result.success
<1> DEFINE f == Fail(e)
<1>1. e \in Executions /\ e.messages \in Seq(Events) /\ Event("Failed") \in Events
  BY EventIsEvent DEF Underway, Executions, EventTypes
<1>2. f \in Executions
  BY <1>1, FailIsExecution
<1>3. /\ f.messages = Append(e.messages, Event("Failed"))
      /\ f.status = "Failed" /\ f.pending = e.pending /\ f.gates = e.gates
      /\ f.result = [success |-> FALSE, changed |-> e.artifacts]
  BY <1>1 DEF Fail, Record, Executions
<1>4. StatusOf(f.messages) = "Failed"
  BY <1>1, <1>3, StatusOfLast DEF Event
<1>5. f.result \in Results /\ ~f.result.success
  BY <1>1, <1>3 DEF Executions, Results
<1> HIDE DEF f
<1>6. f.pending = NoGate
  BY <1>3 DEF Underway, Consistent
<1>7. DecisionsMatchGates(f)
  BY <1>1, <1>2, <1>3, OtherEventsKeepMatch DEF Underway, Consistent, Event
<1>8. Consistent(f)
  BY <1>3, <1>4, <1>6, <1>7 DEF Consistent
<1> QED
  BY <1>2, <1>3, <1>5, <1>6, <1>8 DEF f

LEMMA CancelConsistent ==
  ASSUME NEW e \in Executions, Consistent(e)
  PROVE  /\ Consistent(Cancel(e))
         /\ Cancel(e).status = "Cancelled"
         /\ Cancel(e).pending = NoGate
         /\ Cancel(e).gates = e.gates
         /\ Cancel(e).result \in Results /\ ~Cancel(e).result.success
<1> DEFINE c == Cancel(e)
<1>1. e.messages \in Seq(Events) /\ Event("Cancelled") \in Events
  BY EventIsEvent DEF Executions, EventTypes
<1>2. /\ c.messages = Append(e.messages, Event("Cancelled"))
      /\ c.status = "Cancelled" /\ c.pending = NoGate /\ c.gates = e.gates
      /\ c.result = [success |-> FALSE, changed |-> e.artifacts]
  BY DEF Cancel, OnRecord, CalledOff, Record, Executions
<1>3. StatusOf(c.messages) = "Cancelled"
  BY <1>1, <1>2, StatusOfLast DEF Event
<1>4. c.result \in Results /\ ~c.result.success
  BY <1>2 DEF Executions, Results
<1> HIDE DEF c
<1>5. c \in Executions
  BY CancelIsExecution DEF c
<1>6. DecisionsMatchGates(c)
  BY <1>1, <1>2, <1>5, OtherEventsKeepMatch DEF Consistent, Event
<1>7. Consistent(c)
  BY <1>2, <1>3, <1>6 DEF Consistent
<1> QED
  BY <1>2, <1>4, <1>7 DEF c
=============================================================================

---------------------------- MODULE PhaseLoopProofs ----------------------------
(***************************************************************************)
(* Proofs about PhaseLoop for every set of files, contents, options and    *)
(* requests, and every bound.                                              *)
(***************************************************************************)
EXTENDS PhaseLoop, ExecutionProofs, TLAPS

-----------------------------------------------------------------------------
(* Type correctness.  TypeOK alone is not inductive: a reply adds the      *)
(* phase of its turn to the session, so the workflow taken out of mem must *)
(* be in a phase, and a process must have an execution to work on.         *)

PhaseTaken ==
  /\ pc \in {"agent", "completed"} =>
       state.phase \in {"Understand", "Locate", "Act", "Validate"}
  /\ pc \in {"commands", "review"} => state.phase = "Validate"

TypeInv ==
  /\ TypeOK
  /\ IF pc = "idle" THEN mem = NoExecution ELSE mem \in Executions
  /\ PhaseTaken

LEMMA TypeInvInit == Init => TypeInv
<1> SUFFICES ASSUME Init PROVE TypeInv
  OBVIOUS
<1>1. NoTurn \in Turns
  BY DEF NoTurn, Turns, Permissions, Sessions
<1>2. attempt \in 1..MaxAttempts
  BY PhaseLoopAssumption DEF Init, ProcessGone
<1> QED
  BY <1>1, <1>2, LegacyIsWorkflowState, PhaseLoopAssumption
     DEF Init, ProcessGone, TypeInv, TypeOK, PhaseTaken, PCs, Sessions

\* The process's variables after its end have their types.
LEMMA ProcessEndsTypes ==
  ASSUME TypeInv, ProcessEnds,
         request' = request,
         disk' \in Executions \cup {NoExecution},
         workspace' \in Trees,
         pausedIn' \subseteq Phases
  PROVE  TypeInv'
<1>1. NoTurn \in Turns
  BY DEF NoTurn, Turns, Permissions, Sessions
<1>2. 1 \in 1..MaxAttempts
  BY PhaseLoopAssumption
<1>3. /\ pc' = "idle" /\ mem' = NoExecution /\ state' = Legacy
      /\ turn' = NoTurn /\ attempt' = 1 /\ session' = {} /\ suffix' = NoOption
      /\ dryRun' = FALSE /\ isolated' = InitialTree /\ before' = InitialTree
  BY DEF ProcessEnds
<1>4. request' \in Requests
  BY DEF TypeInv, TypeOK
<1>5. InitialTree \in Trees
  BY PhaseLoopAssumption
<1> QED
  BY <1>1, <1>2, <1>3, <1>4, <1>5, LegacyIsWorkflowState
     DEF TypeInv, TypeOK, PhaseTaken, PCs, Sessions

LEMMA TreeAfterTurn ==
  ASSUME NEW permission, NEW tree \in Trees,
         NEW next \in TreesAfterTurn(permission, tree)
  PROVE  next \in Trees
BY DEF TreesAfterTurn

LEMMA WorkingTreeIsTree ==
  ASSUME TypeOK
  PROVE  WorkingTree \in Trees
BY DEF TypeOK, WorkingTree

LEMMA TreeBecomesTypes ==
  ASSUME TypeOK, NEW tree \in Trees, TreeBecomes(tree)
  PROVE  workspace' \in Trees /\ isolated' \in Trees
BY DEF TypeOK, TreeBecomes

LEMMA RunTypes ==
  ASSUME TypeInv, NEW dry \in DryRuns, Run(dry)
  PROVE  TypeInv'
<1>1. mem' \in Executions /\ disk' \in Executions
  BY StartIsExecution DEF Run, Save
<1>2. dryRun' \in BOOLEAN
  BY PhaseLoopAssumption DEF Run
<1> QED
  BY <1>1, <1>2 DEF Run, TypeInv, TypeOK, PhaseTaken, PCs

LEMMA ResumeTypes ==
  ASSUME TypeInv, NEW option \in Options, NEW dry \in DryRuns, Resume(option, dry)
  PROVE  TypeInv'
<1>1. disk \in Executions
  BY DEF TypeInv, TypeOK, Resume, AcceptsDecision
<1>2. mem' \in Executions /\ disk' \in Executions
  BY <1>1, ApplyDecisionIsExecution DEF Resume, Save, FromThePause
<1>3. dryRun' \in BOOLEAN
  BY PhaseLoopAssumption DEF Resume
<1>4. session' \in Sessions
  BY <1>1 DEF Resume, Executions
<1> QED
  BY <1>2, <1>3, <1>4 DEF Resume, TypeInv, TypeOK, PhaseTaken, PCs

LEMMA CancelTypes ==
  ASSUME TypeInv, CancelExecution
  PROVE  TypeInv'
<1>1. disk' \in Executions
  BY CancelIsExecution DEF CancelExecution, Save, TypeInv, TypeOK
<1> QED
  BY <1>1 DEF CancelExecution, process, TypeInv, TypeOK, PhaseTaken

LEMMA PrepareTypes ==
  ASSUME TypeInv, Prepare
  PROVE  TypeInv'
BY DEF Prepare, durable, TypeInv, TypeOK, PhaseTaken, PCs

\* What taking the workflow and starting the turn of its phase leaves.
LEMMA TakeTypes ==
  ASSUME TypeInv, pc # "idle", NEW e \in Executions, Take(e)
  PROVE  mem' \in Executions /\ state' \in WorkflowStates
<1>1. mem.workflow \in WorkflowStates
  BY DEF TypeInv, Executions
<1>2. mem' = [e EXCEPT !.workflow = Legacy]
  BY DEF Take
<1>3. mem' \in Executions
  BY <1>2, LegacyIsWorkflowState DEF Executions
<1> QED
  BY <1>1, <1>3 DEF Take

LEMMA CallAgentTypes ==
  ASSUME NEW permission \in Permissions, NEW sessionId \in Sessions,
         NEW decision \in Options \cup {NoOption},
         CallAgent(permission, sessionId, decision)
  PROVE  /\ turn' \in Turns
         /\ session' \in Sessions
         /\ attempt' \in 1..MaxAttempts
         /\ pc' = "agent"
BY PhaseLoopAssumption DEF CallAgent, Turns

LEMMA BeginReadOnlyTurnTypes ==
  ASSUME TypeInv, BeginReadOnlyTurn
  PROVE  TypeInv'
<1>1. Record(mem, Event("AgentStarted")) \in Executions
  BY RecordIsExecution, EventIsEvent DEF TypeInv, BeginReadOnlyTurn, EventTypes
<1>2. mem' \in Executions /\ state' \in WorkflowStates
  BY <1>1, TakeTypes DEF BeginReadOnlyTurn
<1>3. /\ turn' \in Turns /\ session' \in Sessions
      /\ attempt' \in 1..MaxAttempts /\ pc' = "agent"
  <2>1. "ReadOnly" \in Permissions /\ session \in Sessions
        /\ suffix \in Options \cup {NoOption}
    BY DEF TypeInv, TypeOK, Permissions
  <2> QED
    BY <2>1, CallAgentTypes DEF BeginReadOnlyTurn
<1>4. state'.phase \in {"Understand", "Locate"}
  BY DEF BeginReadOnlyTurn, Take
<1> QED
  BY <1>2, <1>3, <1>4
     DEF BeginReadOnlyTurn, durable, TypeInv, TypeOK, PhaseTaken, PCs

LEMMA BeginActTypes ==
  ASSUME TypeInv, BeginAct
  PROVE  TypeInv'
<1>1. Record(mem, Event("AgentStarted")) \in Executions
  BY RecordIsExecution, EventIsEvent DEF TypeInv, BeginAct, EventTypes
<1>2. mem' \in Executions /\ state' \in WorkflowStates
  BY <1>1, TakeTypes DEF BeginAct
<1>3. /\ turn' \in Turns /\ session' \in Sessions
      /\ attempt' \in 1..MaxAttempts /\ pc' = "agent"
  <2>1. /\ ActPermission(request.capability) \in Permissions
        /\ ActSession \in Sessions
        /\ suffix \in Options \cup {NoOption}
    BY DEF TypeInv, TypeOK, Permissions, ActPermission, ActSession, Sessions
  <2> QED
    BY <2>1, CallAgentTypes DEF BeginAct
<1>4. state'.phase = "Act"
  BY DEF BeginAct, Take
<1>5. before' \in Trees
  BY WorkingTreeIsTree DEF BeginAct, TypeInv
<1> QED
  BY <1>2, <1>3, <1>4, <1>5
     DEF BeginAct, durable, TypeInv, TypeOK, PhaseTaken, PCs

LEMMA BeginValidateTypes ==
  ASSUME TypeInv, BeginValidate
  PROVE  TypeInv'
<1>1. Record(mem, Event("ValidationStarted")) \in Executions /\ mem \in Executions
  BY RecordIsExecution, EventIsEvent DEF TypeInv, BeginValidate, EventTypes
<1>2. mem' \in Executions /\ state' \in WorkflowStates
  BY <1>1, TakeTypes DEF BeginValidate
<1>3. state'.phase = "Validate" /\ pc' \in {"commands", "review"}
  BY DEF BeginValidate, Take
<1> QED
  BY <1>2, <1>3 DEF BeginValidate, durable, TypeInv, TypeOK, PhaseTaken, PCs

LEMMA FailedValidationIsExecution ==
  ASSUME mem \in Executions, state \in WorkflowStates
  PROVE  FailedValidation \in Executions
<1>1. [mem EXCEPT !.workflow = state] \in Executions
  BY DEF Executions
<1> QED
  BY <1>1, RecordIsExecution, FailIsExecution, EventIsEvent
     DEF FailedValidation, EventTypes

LEMMA CommandsTypes ==
  ASSUME TypeInv, RunCommands
  PROVE  TypeInv'
<1>1. CASE CommandsPass
  <2>1. workspace' \in Trees /\ isolated' \in Trees
    BY <1>1, TreeBecomesTypes DEF CommandsPass, TypeInv
  <2> QED
    BY <1>1, <2>1 DEF CommandsPass, TypeInv, TypeOK, PhaseTaken, PCs
<1>2. CASE CommandFails
  <2>1. disk' \in Executions /\ ProcessEnds
    BY <1>2, FailedValidationIsExecution
       DEF CommandFails, StopWith, Save, TypeInv, TypeOK
  <2>2. workspace' \in Trees
    BY <1>2 DEF CommandFails, TypeInv, TypeOK
  <2> QED
    BY <1>2, <2>1, <2>2, ProcessEndsTypes DEF CommandFails, TypeInv, TypeOK
<1> QED
  BY <1>1, <1>2 DEF RunCommands

LEMMA ValidatedIsExecution ==
  ASSUME mem \in Executions, state \in WorkflowStates, request \in Requests,
         NEW reviewed \in BOOLEAN
  PROVE  Validated(reviewed) \in Executions
<1> DEFINE v == [commands |-> request.commands, review |-> reviewed]
           w == CompleteValidate(state, v)
<1>1. v \in Validations
  BY PhaseLoopAssumption DEF RequestRecords, Validations
<1>2. w \in WorkflowStates
  BY <1>1 DEF CompleteValidate, WorkflowStates, Phases
<1>3. Record(mem, Event("ValidationPassed")) \in Executions
  BY RecordIsExecution, EventIsEvent DEF EventTypes
<1> HIDE DEF w
<1> QED
  BY <1>2, <1>3, AdvanceIsExecution DEF Validated, w

LEMMA AdvanceToTypes ==
  ASSUME TypeInv, NEW e \in Executions, AdvanceTo(e)
  PROVE  TypeInv'
BY DEF AdvanceTo, Saved, Save, TypeInv, TypeOK, PhaseTaken, PCs

LEMMA StopWithTypes ==
  ASSUME TypeInv, NEW e \in Executions, StopWith(e),
         request' = request, workspace' \in Trees, pausedIn' \subseteq Phases
  PROVE  TypeInv'
BY ProcessEndsTypes DEF StopWith, Save

LEMMA SessionAfterReplyTypes ==
  ASSUME TypeInv, pc = "agent", NEW s \in SessionsAfterReply
  PROVE  s \in Sessions
BY DEF TypeInv, TypeOK, PhaseTaken, SessionsAfterReply, Sessions, Turns, Phases

\* The workspace after a turn that ends the process.
LEMMA WorkspaceAfterTurn ==
  ASSUME TypeInv,
         NEW tree \in TreesAfterTurn(turn.permission, WorkingTree),
         workspace' = IF dryRun THEN workspace ELSE tree
  PROVE  workspace' \in Trees
BY WorkingTreeIsTree, TreeAfterTurn DEF TypeInv, TypeOK

LEMMA TransientErrorTypes ==
  ASSUME TypeInv, TransientError
  PROVE  TypeInv'
<1>1. attempt' \in 1..MaxAttempts
  BY PhaseLoopAssumption
     DEF TransientError, AttemptLeft, NextAttempt, TypeInv, TypeOK
<1>2. workspace' \in Trees /\ isolated' \in Trees
  <2>1. PICK tree \in TreesAfterTurn(turn.permission, WorkingTree) : TreeBecomes(tree)
    BY DEF TransientError
  <2> QED
    BY <2>1, TreeAfterTurn, WorkingTreeIsTree, TreeBecomesTypes DEF TypeInv
<1> QED
  BY <1>1, <1>2 DEF TransientError, TypeInv, TypeOK, PhaseTaken

LEMMA ExecutorFailedTypes ==
  ASSUME TypeInv, ExecutorFailed
  PROVE  TypeInv'
<1>1. workspace' \in Trees
  BY WorkspaceAfterTurn DEF ExecutorFailed
<1> QED
  BY <1>1, ProcessEndsTypes DEF ExecutorFailed, TypeInv, TypeOK

LEMMA TurnFailsTypes ==
  ASSUME TypeInv, TurnFails
  PROVE  TypeInv'
<1>1. workspace' \in Trees
  BY WorkspaceAfterTurn DEF TurnFails
<1>2. PICK s \in SessionsAfterReply :
        StopWith(Fail([mem EXCEPT !.session = s, !.workflow = state]))
  BY DEF TurnFails
<1>3. Fail([mem EXCEPT !.session = s, !.workflow = state]) \in Executions
  BY SessionAfterReplyTypes, GivenBackIsExecution, FailIsExecution
     DEF TurnFails, TypeInv, TypeOK
<1> QED
  BY <1>1, <1>2, <1>3, StopWithTypes DEF TurnFails, TypeInv, TypeOK

LEMMA TurnAsksTypes ==
  ASSUME TypeInv, NEW options \in SUBSET Options, TurnAsks(options)
  PROVE  TypeInv'
<1> DEFINE gate == [id |-> Len(mem.gates) + 1, options |-> options]
<1>1. workspace' \in Trees
  BY WorkspaceAfterTurn DEF TurnAsks
<1>2. PICK s \in SessionsAfterReply :
        StopWith(Ask([mem EXCEPT !.session = s, !.workflow = state], gate))
  BY DEF TurnAsks
<1>3. gate \in Gates
  <2>1. mem.gates \in Seq(Gates)
    BY DEF TurnAsks, TypeInv, Executions
  <2> QED
    BY <2>1 DEF Gates
<1>4. Ask([mem EXCEPT !.session = s, !.workflow = state], gate) \in Executions
  <2>1. [mem EXCEPT !.session = s, !.workflow = state] \in Executions
    BY SessionAfterReplyTypes, GivenBackIsExecution DEF TurnAsks, TypeInv, TypeOK
  <2> QED
    BY <2>1, <1>3, AskIsExecution
<1>5. pausedIn' \subseteq Phases
  BY DEF TurnAsks, TypeInv, TypeOK, PhaseTaken, Phases
<1> HIDE DEF gate
<1> QED
  BY <1>1, <1>2, <1>4, <1>5, StopWithTypes DEF TurnAsks

LEMMA TurnCompletesTypes ==
  ASSUME TypeInv, TurnCompletes
  PROVE  TypeInv'
<1>1. workspace' \in Trees /\ isolated' \in Trees
  <2>1. PICK tree \in TreesAfterTurn(turn.permission, WorkingTree) : TreeBecomes(tree)
    BY DEF TurnCompletes
  <2> QED
    BY <2>1, TreeAfterTurn, WorkingTreeIsTree, TreeBecomesTypes DEF TypeInv
<1>2. session' \in Sessions
  BY SessionAfterReplyTypes DEF TurnCompletes
<1>3. mem' \in Executions /\ disk' = mem'
  BY <1>2 DEF TurnCompletes, Save, TypeInv, Executions
<1> QED
  BY <1>1, <1>2, <1>3 DEF TurnCompletes, TypeInv, TypeOK, PhaseTaken, PCs

LEMMA FinishReadOnlyTypes ==
  ASSUME TypeInv, FinishUnderstand \/ FinishLocate
  PROVE  TypeInv'
<1>1. /\ CompleteUnderstand(state) \in WorkflowStates
      /\ CompleteLocate(state) \in WorkflowStates
  BY DEF TypeInv, TypeOK, CompleteUnderstand, CompleteLocate, WorkflowStates, Phases
<1>2. mem \in Executions
  BY DEF TypeInv, FinishUnderstand, FinishLocate
<1> QED
  BY <1>1, <1>2, AdvanceIsExecution, AdvanceToTypes DEF FinishUnderstand, FinishLocate

LEMMA FinishActTypes ==
  ASSUME TypeInv, FinishAct
  PROVE  TypeInv'
<1> DEFINE action == [kind    |-> DeriveKind(request.capability, ChangedInTurn = {}),
                      changed |-> ChangedInTurn]
<1>1. action \in Actions
  BY DEF Actions, ActionKinds, DeriveKind, ChangedInTurn, ChangedFiles
<1>2. CompleteAct(state, action) \in WorkflowStates
  BY <1>1 DEF TypeInv, TypeOK, CompleteAct, WorkflowStates, Phases
<1>3. mem \in Executions /\ AdvanceTo(Advance(mem, CompleteAct(state, action)))
  BY DEF FinishAct, TypeInv
<1> HIDE DEF action
<1> QED
  BY <1>2, <1>3, AdvanceIsExecution, AdvanceToTypes

LEMMA RejectTypes ==
  ASSUME TypeInv, RejectAct \/ RejectReview
  PROVE  TypeInv'
<1>1. mem \in Executions /\ state \in WorkflowStates
  BY DEF TypeInv, TypeOK, RejectAct, RejectReview
<1>2. [mem EXCEPT !.workflow = state] \in Executions
  BY <1>1 DEF Executions
<1>3. /\ Fail([mem EXCEPT !.workflow = state]) \in Executions
      /\ FailedValidation \in Executions
  BY <1>1, <1>2, FailIsExecution, FailedValidationIsExecution
<1>4. /\ request' = request /\ workspace' = workspace /\ pausedIn' = pausedIn
      /\ \/ StopWith(Fail([mem EXCEPT !.workflow = state]))
         \/ StopWith(FailedValidation)
  BY DEF RejectAct, RejectReview
<1> QED
  BY <1>3, <1>4, StopWithTypes DEF TypeInv, TypeOK

LEMMA ReviewTypes ==
  ASSUME TypeInv, BeginReview \/ SkipReview \/ FinishReview
  PROVE  TypeInv'
<1>1. mem \in Executions /\ state \in WorkflowStates /\ request \in Requests
  BY DEF TypeInv, TypeOK, BeginReview, SkipReview, FinishReview
<1>2. Validated(TRUE) \in Executions /\ Validated(FALSE) \in Executions
  BY <1>1, ValidatedIsExecution
<1>3. CASE BeginReview
  <2>1. mem' \in Executions
    BY <1>1, <1>3, RecordIsExecution, EventIsEvent DEF BeginReview, EventTypes
  <2>2. /\ turn' \in Turns /\ session' \in Sessions
        /\ attempt' \in 1..MaxAttempts /\ pc' = "agent"
    BY <1>3, CallAgentTypes DEF BeginReview, TypeInv, TypeOK, Permissions
  <2>3. before' \in Trees
    BY <1>3, WorkingTreeIsTree DEF BeginReview, TypeInv
  <2> QED
    BY <1>3, <2>1, <2>2, <2>3
       DEF BeginReview, durable, TypeInv, TypeOK, PhaseTaken, PCs
<1>4. CASE SkipReview
  <2>1. mem' \in Executions /\ disk' = mem' /\ pc' = "loop"
    BY <1>2, <1>4 DEF SkipReview, Save
  <2> QED
    BY <1>4, <2>1 DEF SkipReview, TypeInv, TypeOK, PhaseTaken, PCs
<1>5. CASE FinishReview
  BY <1>2, <1>5, AdvanceToTypes DEF FinishReview
<1> QED
  BY <1>3, <1>4, <1>5

LEMMA ReportTypes ==
  ASSUME TypeInv, Report
  PROVE  TypeInv'
<1> DEFINE result == [success |-> TRUE, changed |-> mem.workflow.action.changed]
<1>1. mem \in Executions
  BY DEF Report, TypeInv
<1>2. result \in Results
  BY <1>1 DEF Executions, WorkflowStates, Actions, Results
<1>3. Complete(mem, result) \in Executions /\ StopWith(Complete(mem, result))
  BY <1>1, <1>2, CompleteIsExecution DEF Report
<1> HIDE DEF result
<1> QED
  BY <1>3, StopWithTypes DEF Report, TypeInv, TypeOK

LEMMA CrashTypes ==
  ASSUME TypeInv, Crash
  PROVE  TypeInv'
<1>1. workspace' \in Trees
  BY TreeAfterTurn DEF Crash, TypeInv, TypeOK
<1> QED
  BY <1>1, ProcessEndsTypes DEF Crash, TypeInv, TypeOK

LEMMA TypeInvNext ==
  ASSUME TypeInv, [Next]_vars
  PROVE  TypeInv'
<1>1. CASE UNCHANGED vars
  BY <1>1 DEF vars, durable, process, TypeInv, TypeOK, PhaseTaken
<1>2. CASE UserStep
  BY <1>2, RunTypes, ResumeTypes, CancelTypes DEF UserStep
<1>3. CASE Prepare \/ BeginPhase \/ RunCommands
  BY <1>3, PrepareTypes, BeginReadOnlyTurnTypes, BeginActTypes,
     BeginValidateTypes, CommandsTypes DEF BeginPhase
<1>4. CASE AgentTurn
  BY <1>4, TransientErrorTypes, ExecutorFailedTypes, TurnFailsTypes,
     TurnAsksTypes, TurnCompletesTypes DEF AgentTurn
<1>5. CASE FinishPhase
  BY <1>5, FinishReadOnlyTypes, FinishActTypes, RejectTypes, ReviewTypes,
     ReportTypes DEF FinishPhase
<1>6. CASE Crash
  BY <1>6, CrashTypes
<1> QED
  BY <1>1, <1>2, <1>3, <1>4, <1>5, <1>6 DEF Next, ProcessStep

(* Every variable keeps its type in every reachable state.                 *)
THEOREM TypeCorrect == Spec => []TypeOK
<1>1. TypeInv => TypeOK
  BY DEF TypeInv
<1> QED
  BY <1>1, TypeInvInit, TypeInvNext, PTL DEF Spec

-----------------------------------------------------------------------------
(* Status, event log and gates.  The invariants hold of the execution on   *)
(* disk and of the one in memory; the latter is always running, and in     *)
(* agreement with the former on everything a save does not bring forward.  *)

StatusInv ==
  /\ TypeInv
  /\ disk # NoExecution => Consistent(disk)
  /\ pc # "idle" => Underway(mem)
  /\ ProcessAgreesWithDisk

-----------------------------------------------------------------------------
(* A step of a running process does one of three things to the execution.  *)

\* It goes on with an execution that is still running, saved or not.
GoesOn ==
  /\ pc # "idle" /\ pc' # "idle"
  /\ Underway(mem')
  /\ mem'.gates = mem.gates /\ mem'.result = mem.result
  /\ disk' \in {disk, mem'}

\* It ends without a save.
Vanishes == pc # "idle" /\ pc' = "idle" /\ disk' = disk

\* It saves a gate or a verdict, and ends.
StopsAt(e) ==
  /\ pc # "idle" /\ pc' = "idle"
  /\ disk' = e /\ e \in Executions /\ Consistent(e)
  /\ \/ /\ e.status = "WaitingForHuman"
        /\ e.pending.id = Len(mem.gates) + 1 /\ Len(e.gates) = Len(mem.gates) + 1
        /\ e.result = mem.result
     \/ /\ e.status = "Completed"
        /\ e.pending = NoGate /\ e.gates = mem.gates
        /\ e.result \in Results /\ e.result.success
     \/ /\ e.status = "Failed"
        /\ e.pending = NoGate /\ e.gates = mem.gates
        /\ e.result \in Results /\ ~e.result.success

Stops == \E e \in Executions : StopsAt(e)

LEMMA FailStops ==
  ASSUME pc # "idle", NEW e, Underway(e), e.gates = mem.gates, StopWith(Fail(e))
  PROVE  Stops
<1>1. StopsAt(Fail(e)) /\ Fail(e) \in Executions
  BY FailConsistent DEF StopsAt, StopWith, Save, ProcessEnds
<1> QED
  BY <1>1 DEF Stops

LEMMA FailedValidationStops ==
  ASSUME StatusInv, pc # "idle", StopWith(FailedValidation)
  PROVE  Stops
<1> DEFINE e == [mem EXCEPT !.workflow = state]
           r == Record(e, Event("ValidationFailed"))
<1>1. Underway(e) /\ e.gates = mem.gates
  BY WorkflowUnderway DEF StatusInv, TypeInv, TypeOK, Executions
<1>2. Underway(r) /\ r.gates = mem.gates
  <2> HIDE DEF e
  <2> QED
    BY <1>1, RecordUnderway
<1>3. StopWith(Fail(r))
  BY DEF FailedValidation
<1> HIDE DEF r
<1> QED
  BY <1>2, <1>3, FailStops

\* The session and workflow a turn gives back.
LEMMA GivenBackUnderway ==
  ASSUME StatusInv, pc = "agent", NEW s \in SessionsAfterReply
  PROVE  /\ Underway([mem EXCEPT !.session = s, !.workflow = state])
         /\ [mem EXCEPT !.session = s, !.workflow = state].gates = mem.gates
         /\ [mem EXCEPT !.session = s, !.workflow = state].result = mem.result
BY SessionAfterReplyTypes, WorkflowUnderway DEF StatusInv, TypeInv, TypeOK

LEMMA TakeGoesOn ==
  ASSUME StatusInv, pc # "idle", pc' # "idle", disk' = disk,
         NEW e, Underway(e), e.gates = mem.gates, e.result = mem.result, Take(e)
  PROVE  GoesOn
BY WorkflowUnderway, LegacyIsWorkflowState DEF Take, GoesOn, Underway, Executions

LEMMA BeginPhaseGoesOn ==
  ASSUME StatusInv, BeginPhase
  PROVE  GoesOn
<1> DEFINE started(type) == Record(mem, Event(type))
<1>1. pc = "loop" /\ Underway(mem)
  BY DEF BeginPhase, BeginReadOnlyTurn, BeginAct, BeginValidate, StatusInv
<1>2. \A type \in {"AgentStarted", "ValidationStarted"} :
        /\ Underway(started(type))
        /\ started(type).gates = mem.gates /\ started(type).result = mem.result
  BY <1>1, RecordUnderway
<1>3. CASE BeginReadOnlyTurn \/ BeginAct
  <2>1. pc' # "idle" /\ disk' = disk /\ Take(started("AgentStarted"))
    BY <1>3 DEF BeginReadOnlyTurn, BeginAct, CallAgent, durable
  <2> HIDE DEF started
  <2> QED
    BY <1>1, <1>2, <2>1, TakeGoesOn
<1>4. CASE BeginValidate
  <2>1. pc' # "idle" /\ disk' = disk
        /\ (Take(started("ValidationStarted")) \/ Take(mem))
    BY <1>4 DEF BeginValidate, durable
  <2> HIDE DEF started
  <2> QED
    BY <1>1, <1>2, <2>1, TakeGoesOn
<1> QED
  BY <1>3, <1>4 DEF BeginPhase

LEMMA RunCommandsStep ==
  ASSUME StatusInv, RunCommands
  PROVE  GoesOn \/ Stops
<1>1. CASE CommandsPass
  BY <1>1 DEF CommandsPass, GoesOn, StatusInv
<1>2. CASE CommandFails
  BY <1>2, FailedValidationStops DEF CommandFails
<1> QED
  BY <1>1, <1>2 DEF RunCommands

LEMMA AgentTurnStep ==
  ASSUME StatusInv, AgentTurn
  PROVE  GoesOn \/ Vanishes \/ Stops
<1>1. CASE TransientError
  BY <1>1 DEF TransientError, GoesOn, StatusInv
<1>2. CASE ExecutorFailed
  BY <1>2 DEF ExecutorFailed, ProcessEnds, Vanishes
<1>3. CASE TurnFails
  <2>1. PICK s \in SessionsAfterReply :
          StopWith(Fail([mem EXCEPT !.session = s, !.workflow = state]))
    BY <1>3 DEF TurnFails
  <2>2. pc = "agent"
    BY <1>3 DEF TurnFails
  <2> QED
    BY <2>1, <2>2, GivenBackUnderway, FailStops
<1>4. ASSUME NEW options \in SUBSET Options, TurnAsks(options)
      PROVE  Stops
  <2> DEFINE gate == [id |-> Len(mem.gates) + 1, options |-> options]
  <2>1. pc = "agent"
    BY <1>4 DEF TurnAsks
  <2>2. PICK s \in SessionsAfterReply :
          StopWith(Ask([mem EXCEPT !.session = s, !.workflow = state], gate))
    BY <1>4 DEF TurnAsks
  <2> DEFINE e == [mem EXCEPT !.session = s, !.workflow = state]
  <2>3. Underway(e) /\ e.gates = mem.gates /\ e.result = mem.result
    BY <2>1, GivenBackUnderway
  <2>4. gate = [id |-> Len(e.gates) + 1, options |-> options]
        /\ gate.id = Len(mem.gates) + 1
    BY <2>3
  <2>5. StopWith(Ask(e, gate))
    BY <2>2
  <2> HIDE DEF e, gate
  <2>6. StopsAt(Ask(e, gate)) /\ Ask(e, gate) \in Executions
    BY <2>1, <2>3, <2>4, <2>5, AskConsistent
       DEF StopsAt, StopWith, Save, ProcessEnds
  <2> QED
    BY <2>6 DEF Stops
<1>5. CASE TurnCompletes
  <2>1. session' \in Sessions
    BY <1>5, SessionAfterReplyTypes DEF TurnCompletes, StatusInv
  <2>2. /\ pc = "agent" /\ pc' = "completed" /\ disk' = mem'
        /\ mem' = [mem EXCEPT !.session = session']
    BY <1>5 DEF TurnCompletes, Save
  <2> QED
    BY <2>1, <2>2, WorkflowUnderway, LegacyIsWorkflowState DEF GoesOn, StatusInv
<1> QED
  BY <1>1, <1>2, <1>3, <1>4, <1>5 DEF AgentTurn

LEMMA AdvanceToGoesOn ==
  ASSUME StatusInv, pc # "idle", NEW e, Underway(e), e.gates = mem.gates,
         e.result = mem.result, NEW w \in WorkflowStates, AdvanceTo(Advance(e, w))
  PROVE  GoesOn
BY WorkflowUnderway
   DEF AdvanceTo, Saved, Save, Advance, GoesOn, Underway, Executions

LEMMA ValidatedUnderway ==
  ASSUME StatusInv, pc # "idle", NEW reviewed \in BOOLEAN
  PROVE  /\ Underway(Validated(reviewed))
         /\ Validated(reviewed).gates = mem.gates
         /\ Validated(reviewed).result = mem.result
<1> DEFINE v == [commands |-> request.commands, review |-> reviewed]
           w == CompleteValidate(state, v)
           r == Record(mem, Event("ValidationPassed"))
<1>1. v \in Validations
  BY PhaseLoopAssumption DEF StatusInv, TypeInv, TypeOK, RequestRecords, Validations
<1>2. w \in WorkflowStates
  BY <1>1 DEF StatusInv, TypeInv, TypeOK, CompleteValidate, WorkflowStates, Phases
<1>3. Underway(mem) /\ Underway(r) /\ r.gates = mem.gates /\ r.result = mem.result
  BY RecordUnderway DEF StatusInv
<1>4. Validated(reviewed) \in {Advance(mem, w), Advance(r, w)}
  BY DEF Validated
<1>5. {} \in Sessions
  BY DEF Sessions
<1> HIDE DEF w, r
<1>6. \A e \in {mem, r} :
        /\ Underway(Advance(e, w))
        /\ Advance(e, w).gates = e.gates /\ Advance(e, w).result = e.result
  BY <1>2, <1>3, <1>5, WorkflowUnderway DEF Advance
<1> QED
  BY <1>3, <1>4, <1>6

LEMMA FinishPhaseStep ==
  ASSUME StatusInv, FinishPhase
  PROVE  GoesOn \/ Stops
<1> USE DEF FinishPhase
<1>1. /\ pc # "idle" /\ Underway(mem) /\ mem \in Executions
      /\ state \in WorkflowStates
  BY DEF FinishUnderstand, FinishLocate, FinishAct, RejectAct, BeginReview,
         SkipReview, FinishReview, RejectReview, Report,
         StatusInv, TypeInv, TypeOK
<1>2. CASE FinishUnderstand \/ FinishLocate
  <2>1. CompleteUnderstand(state) \in WorkflowStates
        /\ CompleteLocate(state) \in WorkflowStates
    BY <1>1 DEF CompleteUnderstand, CompleteLocate, WorkflowStates, Phases
  <2> QED
    BY <1>1, <1>2, <2>1, AdvanceToGoesOn DEF FinishUnderstand, FinishLocate
<1>3. CASE FinishAct
  <2> DEFINE action == [kind |-> DeriveKind(request.capability, ChangedInTurn = {}),
                        changed |-> ChangedInTurn]
  <2>1. action \in Actions
    BY DEF Actions, ActionKinds, DeriveKind, ChangedInTurn, ChangedFiles
  <2>2. CompleteAct(state, action) \in WorkflowStates
    BY <1>1, <2>1 DEF CompleteAct, WorkflowStates, Phases
  <2>3. AdvanceTo(Advance(mem, CompleteAct(state, action)))
    BY <1>3 DEF FinishAct
  <2> HIDE DEF action
  <2> QED
    BY <1>1, <2>2, <2>3, AdvanceToGoesOn
<1>4. CASE RejectAct
  <2>1. StopWith(Fail([mem EXCEPT !.workflow = state]))
    BY <1>4 DEF RejectAct
  <2>2. Underway([mem EXCEPT !.workflow = state])
        /\ [mem EXCEPT !.workflow = state].gates = mem.gates
    BY <1>1, WorkflowUnderway DEF Executions
  <2> QED
    BY <1>1, <2>1, <2>2, FailStops
<1>5. CASE BeginReview
  <2>1. mem' = Record(mem, Event("AgentStarted")) /\ pc' = "agent" /\ disk' = disk
    BY <1>5 DEF BeginReview, CallAgent, durable
  <2> QED
    BY <1>1, <2>1, RecordUnderway DEF GoesOn
<1>6. CASE SkipReview
  <2>1. mem' = Validated(FALSE) /\ disk' = mem' /\ pc' = "loop"
    BY <1>6 DEF SkipReview, Save
  <2> QED
    BY <1>1, <2>1, ValidatedUnderway DEF GoesOn
<1>7. CASE FinishReview
  <2>1. mem' = Validated(TRUE) /\ disk' = mem' /\ pc' = "loop"
    BY <1>7 DEF FinishReview, AdvanceTo, Saved, Save
  <2> QED
    BY <1>1, <2>1, ValidatedUnderway DEF GoesOn
<1>8. CASE RejectReview
  BY <1>1, <1>8, FailedValidationStops DEF RejectReview
<1>9. CASE Report
  <2> DEFINE result == [success |-> TRUE, changed |-> mem.workflow.action.changed]
  <2>1. result \in Results /\ result.success
    BY <1>1 DEF Executions, WorkflowStates, Actions, Results
  <2>2. StopWith(Complete(mem, result))
    BY <1>9 DEF Report
  <2> HIDE DEF result
  <2>3. StopsAt(Complete(mem, result)) /\ Complete(mem, result) \in Executions
    BY <1>1, <2>1, <2>2, CompleteConsistent
       DEF StopsAt, StopWith, Save, ProcessEnds
  <2> QED
    BY <2>3 DEF Stops
<1> QED
  BY <1>2, <1>3, <1>4, <1>5, <1>6, <1>7, <1>8, <1>9

LEMMA ProcessStepEffect ==
  ASSUME StatusInv, ProcessStep \/ Crash
  PROVE  GoesOn \/ Vanishes \/ Stops
<1>1. CASE Prepare
  BY <1>1 DEF Prepare, durable, GoesOn, StatusInv
<1>2. CASE Crash
  BY <1>2 DEF Crash, ProcessEnds, Vanishes
<1> QED
  BY <1>1, <1>2, BeginPhaseGoesOn, RunCommandsStep, AgentTurnStep, FinishPhaseStep
     DEF ProcessStep

LEMMA StatusInvInit == Init => StatusInv
BY TypeInvInit DEF Init, ProcessGone, StatusInv, ProcessAgreesWithDisk

LEMMA EffectKeepsStatusInv ==
  ASSUME StatusInv, TypeInv', GoesOn \/ Vanishes \/ Stops
  PROVE  StatusInv'
<1>1. CASE GoesOn
  BY <1>1, PhaseLoopAssumption
     DEF GoesOn, StatusInv, ProcessAgreesWithDisk, Underway, Consistent
<1>2. CASE Vanishes
  BY <1>2 DEF Vanishes, StatusInv, ProcessAgreesWithDisk
<1>3. CASE Stops
  BY <1>3 DEF Stops, StopsAt, StatusInv, ProcessAgreesWithDisk
<1> QED
  BY <1>1, <1>2, <1>3

LEMMA UserStepKeepsStatusInv ==
  ASSUME StatusInv, TypeInv', UserStep
  PROVE  StatusInv'
<1>1. ASSUME NEW dry \in DryRuns, Run(dry)
      PROVE  StatusInv'
  <2>1. mem' = StartExecution /\ disk' = StartExecution
    BY <1>1 DEF Run, Save
  <2> QED
    BY <2>1, StartUnderway, PhaseLoopAssumption
       DEF StatusInv, ProcessAgreesWithDisk, Underway, Consistent
<1>2. ASSUME NEW option \in Options, NEW dry \in DryRuns, Resume(option, dry)
      PROVE  StatusInv'
  <2>1. /\ disk \in Executions /\ Consistent(disk) /\ disk.status = "WaitingForHuman"
        /\ option \in disk.pending.options
    BY <1>2 DEF Resume, AcceptsDecision, StatusInv, TypeInv, TypeOK
  <2>2. mem' = ApplyDecision(disk, option) /\ disk' = mem'
    BY <1>2 DEF Resume, FromThePause, Save
  <2>3. Underway(mem')
    BY <2>1, <2>2, ApplyDecisionUnderway
  <2> QED
    BY <2>2, <2>3, PhaseLoopAssumption
       DEF StatusInv, ProcessAgreesWithDisk, Underway, Consistent
<1>3. CASE CancelExecution
  <2>1. /\ disk \in Executions /\ Consistent(disk)
        /\ disk' = Cancel(disk) /\ pc = "idle" /\ pc' = pc
    BY <1>3 DEF CancelExecution, Save, process, StatusInv, TypeInv, TypeOK
  <2> QED
    BY <2>1, CancelConsistent DEF StatusInv, ProcessAgreesWithDisk
<1> QED
  BY <1>1, <1>2, <1>3 DEF UserStep

LEMMA StatusInvNext ==
  ASSUME StatusInv, [Next]_vars
  PROVE  StatusInv'
<1>1. TypeInv'
  BY TypeInvNext DEF StatusInv
<1>2. CASE UNCHANGED vars
  BY <1>1, <1>2 DEF vars, durable, process, StatusInv, ProcessAgreesWithDisk
<1>3. CASE UserStep
  BY <1>1, <1>3, UserStepKeepsStatusInv
<1>4. CASE ProcessStep \/ Crash
  BY <1>1, <1>4, ProcessStepEffect, EffectKeepsStatusInv
<1> QED
  BY <1>2, <1>3, <1>4 DEF Next

LEMMA StatusInvHolds == Spec => []StatusInv
BY StatusInvInit, StatusInvNext, PTL DEF Spec

(* The status of an execution, on disk or in memory, is always the one its *)
(* event log implies.                                                      *)
THEOREM LogAlwaysImpliesStatus == Spec => []LogImpliesStatus
<1>1. StatusInv => LogImpliesStatus
  BY PhaseLoopAssumption
     DEF StatusInv, TypeInv, TypeOK, LogImpliesStatus, Known, Underway, Consistent
<1> QED
  BY <1>1, StatusInvHolds, PTL

(* A gate is open exactly while the execution waits, and it is the last    *)
(* one raised.                                                             *)
THEOREM OnlyTheLastGateIsOpen == Spec => []OpenGateIsLastGate
<1>1. StatusInv => OpenGateIsLastGate
  BY PhaseLoopAssumption
     DEF StatusInv, TypeInv, TypeOK, OpenGateIsLastGate, Known, Underway, Consistent
<1> QED
  BY <1>1, StatusInvHolds, PTL

(* A running process is never ahead of state.json by a decision, a gate or *)
(* a verdict.                                                              *)
THEOREM ProcessAlwaysAgreesWithDisk == Spec => []ProcessAgreesWithDisk
<1>1. StatusInv => ProcessAgreesWithDisk
  BY DEF StatusInv
<1> QED
  BY <1>1, StatusInvHolds, PTL

-----------------------------------------------------------------------------
(* The phase loop implements the life cycle of an execution.               *)

LEMMA InitImplementsLifecycle == Init => Lifecycle!Init
BY DEF Init, Lifecycle!Init

LEMMA EffectImplementsLifecycle ==
  ASSUME StatusInv, GoesOn \/ Vanishes \/ Stops
  PROVE  [Lifecycle!Next]_(Lifecycle!lifecycle)
<1> USE DEF Lifecycle!lifecycle, Lifecycle!Next
<1>1. CASE GoesOn
  <2>1. disk' = disk \/ (disk' = mem' /\ Underway(mem'))
    BY <1>1 DEF GoesOn
  <2>2. /\ disk # NoExecution /\ mem # NoExecution
        /\ disk.status = "Running" /\ disk.pending = NoGate
        /\ mem'.gates = disk.gates /\ mem'.result = disk.result
    BY <1>1 DEF GoesOn, StatusInv, ProcessAgreesWithDisk
  <2> QED
    BY <2>1, <2>2, PhaseLoopAssumption DEF Underway, Consistent
<1>2. CASE Vanishes
  BY <1>2 DEF Vanishes
<1>3. ASSUME NEW e \in Executions, StopsAt(e)
      PROVE  Lifecycle!Next
  <2>1. /\ disk # NoExecution /\ mem # NoExecution
        /\ disk.status = "Running" /\ disk.pending = NoGate
        /\ mem.gates = disk.gates /\ mem.result = disk.result
    BY <1>3 DEF StopsAt, StatusInv, ProcessAgreesWithDisk
  <2>2. disk' = e /\ disk' # NoExecution /\ Consistent(e)
    BY <1>3, PhaseLoopAssumption DEF StopsAt
  <2>3. CASE e.status = "WaitingForHuman"
    <3>1. /\ e.pending # NoGate
          /\ e.pending.id = Len(disk.gates) + 1 /\ Len(e.gates) = Len(disk.gates) + 1
          /\ e.result = disk.result
      BY <1>3, <2>1, <2>2, <2>3 DEF StopsAt, Consistent
    <3> QED
      BY <2>1, <2>2, <2>3, <3>1 DEF Lifecycle!RaiseGate
  <2>4. CASE e.status = "Completed"
    <3>1. /\ e.pending = NoGate /\ e.gates = disk.gates
          /\ e.result # NoResult /\ e.result.success
      BY <1>3, <2>1, <2>4, ExecutionAssumption DEF StopsAt
    <3> QED
      BY <2>1, <2>2, <2>4, <3>1 DEF Lifecycle!Succeed
  <2>5. CASE e.status = "Failed"
    <3>1. /\ e.pending = NoGate /\ e.gates = disk.gates
          /\ e.result # NoResult /\ ~e.result.success
      BY <1>3, <2>1, <2>5, ExecutionAssumption DEF StopsAt
    <3> QED
      BY <2>1, <2>2, <2>5, <3>1 DEF Lifecycle!GiveUp
  <2> QED
    BY <1>3, <2>3, <2>4, <2>5 DEF StopsAt
<1> QED
  BY <1>1, <1>2, <1>3 DEF Stops

LEMMA UserStepImplementsLifecycle ==
  ASSUME StatusInv, UserStep
  PROVE  Lifecycle!Next
<1> USE DEF Lifecycle!Next
<1>1. ASSUME NEW dry \in DryRuns, Run(dry)
      PROVE  Lifecycle!Next
  <2>1. disk = NoExecution /\ disk' = StartExecution /\ disk' # NoExecution
    BY <1>1, StartIsExecution, PhaseLoopAssumption DEF Run, FreshId, Save
  <2>2. disk'.status = "Running" /\ disk'.pending = NoGate
        /\ Len(disk'.gates) = 0 /\ disk'.result = NoResult
    BY <2>1 DEF StartExecution
  <2> QED
    BY <2>1, <2>2 DEF Lifecycle!Start
<1>2. ASSUME NEW option \in Options, NEW dry \in DryRuns, Resume(option, dry)
      PROVE  Lifecycle!Next
  <2>1. /\ disk \in Executions /\ disk # NoExecution
        /\ disk.status = "WaitingForHuman" /\ disk.pending # NoGate
        /\ Consistent(disk) /\ option \in disk.pending.options
    BY <1>2 DEF Resume, AcceptsDecision, StatusInv, TypeInv, TypeOK
  <2>2. disk.pending.id = Len(disk.gates) /\ disk.pending.id # 0
    BY <2>1 DEF StatusInv, Consistent, Executions
  <2>3. disk' = ApplyDecision(disk, option)
    BY <1>2 DEF Resume, FromThePause, Save
  <2>4. /\ disk' # NoExecution /\ disk'.status = "Running" /\ disk'.pending = NoGate
        /\ disk'.gates = disk.gates /\ disk'.result = disk.result
    BY <2>1, <2>3, ApplyDecisionUnderway, PhaseLoopAssumption DEF Underway
  <2> QED
    BY <2>1, <2>2, <2>4 DEF Lifecycle!Decide
<1>3. CASE CancelExecution
  <2>1. /\ disk \in Executions /\ disk # NoExecution /\ disk' = Cancel(disk)
        /\ Consistent(disk)
    BY <1>3 DEF CancelExecution, Save, StatusInv, TypeInv, TypeOK
  <2>2. /\ disk' # NoExecution /\ disk'.status = "Cancelled"
        /\ disk'.pending = NoGate /\ disk'.gates = disk.gates
        /\ disk'.result # NoResult /\ ~disk'.result.success
    BY <2>1, CancelIsExecution, CancelConsistent, PhaseLoopAssumption,
       ExecutionAssumption
  <2> QED
    BY <2>1, <2>2 DEF Lifecycle!CallOff, Executions, Statuses
<1> QED
  BY <1>1, <1>2, <1>3 DEF UserStep

(* state.json goes through the life cycle of docs/06 and nothing else:     *)
(* every step of the phase loop, crashes included, is a step of            *)
(* ExecutionLifecycle or leaves its variables alone.                       *)
THEOREM ImplementsLifecycle == Spec => FollowsLifecycle
<1>1. ASSUME StatusInv, [Next]_vars
      PROVE  [Lifecycle!Next]_(Lifecycle!lifecycle)
  <2>1. CASE UNCHANGED vars
    BY <2>1 DEF vars, durable, Lifecycle!lifecycle
  <2>2. CASE UserStep
    BY <1>1, <2>2, UserStepImplementsLifecycle
  <2>3. CASE ProcessStep \/ Crash
    BY <1>1, <2>3, ProcessStepEffect, EffectImplementsLifecycle
  <2> QED
    BY <1>1, <2>1, <2>2, <2>3 DEF Next
<1> QED
  BY <1>1, InitImplementsLifecycle, StatusInvHolds, PTL
     DEF Spec, FollowsLifecycle, Lifecycle!Spec

-----------------------------------------------------------------------------
(* The phases of an execution: where it pauses, which conversation its     *)
(* turns continue, which validation it has behind it, which tree it is on. *)

TurnPhases == {"Understand", "Locate", "Act", "Validate"}
Early      == {"Understand", "Locate"}
Writing    == {"Act", "Validate"}

Paused == disk # NoExecution /\ disk.status = "WaitingForHuman"

\* A paused execution is in a phase that has a turn, in the conversation
\* of that turn, with something to choose.
PauseInv ==
  Paused =>
    /\ disk.workflow.phase \in TurnPhases \cap pausedIn
    /\ disk.workflow.phase \in Writing => disk.session \subseteq Writing
    /\ disk.pending.options # {}

\* What a process that has been resumed starts from, and how it knows.
SessionInv ==
  /\ pc = "prepare" => mem.workflow.phase \in TurnPhases
  /\ pc \in {"prepare", "loop"} =>
       \/ mem.workflow.phase \in Early \cup {"Report"}
       \/ mem.workflow.phase = "Act" /\ suffix = NoOption
       \/ mem.workflow.phase \in Writing /\ session \subseteq Writing
  /\ pc \in {"commands", "review"} => session \subseteq Writing
  /\ pc \in {"agent", "completed"} =>
       /\ state.phase \in Writing => session \cup turn.session \subseteq Writing
       /\ state.phase # "Validate" => suffix = NoOption

Verdict(e) ==
  /\ e.workflow.validation = [commands |-> request.commands, review |-> request.review]
  /\ (request.commands \/ request.review) =>
       e.messages # <<>> /\ e.messages[Len(e.messages)].type = "ValidationPassed"

ValidInv ==
  /\ AtReport => Verdict(mem)
  /\ pc = "commands" => request.commands
  /\ pc \in {"agent", "completed"} /\ state.phase = "Validate" => request.review
  /\ CompletedIsValidated

\* No user's command writes, and no turn that may write has paused.
Quiet == ~request.commands /\ pausedIn \cap Writing = {}

Diff(w, tree) == w.action.changed = ChangedFiles(InitialTree, tree)

TreeInv ==
  Quiet =>
    /\ pc = "idle" /\ (disk = NoExecution \/ Paused) => workspace = InitialTree
    /\ dryRun => workspace = InitialTree
    /\ pc = "prepare" => workspace = InitialTree /\ mem.workflow.phase \in Early
    /\ pc = "loop" /\ mem.workflow.phase \in Early \cup {"Act"} =>
         WorkingTree = InitialTree
    /\ pc = "loop" /\ mem.workflow.phase \in {"Validate", "Report"} =>
         Diff(mem.workflow, WorkingTree)
    /\ pc = "review" => Diff(state, WorkingTree)
    /\ pc \in {"agent", "completed"} =>
         /\ state.phase \in Early =>
              WorkingTree = InitialTree /\ turn.permission = "ReadOnly"
         /\ state.phase = "Act" => before = InitialTree
         /\ state.phase = "Validate" => Diff(state, before)

LoopInv == PauseInv /\ SessionInv /\ ValidInv /\ TreeInv

-----------------------------------------------------------------------------
(* What the steps do to the parts those invariants speak of. *)

LEMMA MethodsKeepTheRest ==
  ASSUME NEW e \in Executions
  PROVE  /\ Fail(e).status = "Failed" /\ Fail(e).workflow = e.workflow
         /\ Cancel(e).status = "Cancelled" /\ Cancel(e).workflow = e.workflow
         /\ \A option :
              /\ ApplyDecision(e, option).status = "Running"
              /\ ApplyDecision(e, option).workflow = e.workflow
         /\ \A event : Record(e, event).workflow = e.workflow
         /\ \A result :
              /\ Complete(e, result).status = "Completed"
              /\ Complete(e, result).workflow = e.workflow
              /\ Complete(e, result).messages = Append(e.messages, Event("Completed"))
         /\ \A gate :
              /\ Ask(e, gate).status = "WaitingForHuman"
              /\ Ask(e, gate).pending = gate
              /\ Ask(e, gate).workflow = e.workflow
              /\ Ask(e, gate).session = e.session
BY DEF Fail, Cancel, OnRecord, CalledOff, ApplyDecision, Complete, Ask, Record, Executions

LEMMA StartFields ==
  StartExecution.status = "Running" /\ StartExecution.workflow = StartWorkflow
BY DEF StartExecution

\* The steps that end a process.
Fails  == CommandFails \/ TurnFails \/ RejectAct \/ RejectReview
Asks   == \E options \in SUBSET Options : TurnAsks(options)
Ending == Fails \/ Asks \/ Report \/ ExecutorFailed \/ Crash

LEMMA StepsByKind ==
  ASSUME [Next]_vars
  PROVE  \/ UNCHANGED vars \/ UserStep \/ Prepare \/ BeginPhase \/ CommandsPass
         \/ TransientError \/ TurnCompletes
         \/ FinishUnderstand \/ FinishLocate \/ FinishAct
         \/ BeginReview \/ SkipReview \/ FinishReview
         \/ Ending
BY DEF Next, ProcessStep, RunCommands, AgentTurn, FinishPhase, Ending, Fails, Asks

LEMMA EndingEnds ==
  ASSUME Ending
  PROVE  pc # "idle" /\ ProcessEnds /\ request' = request
BY DEF Ending, Fails, Asks, CommandFails, TurnFails, RejectAct, RejectReview,
       TurnAsks, Report, ExecutorFailed, Crash, StopWith

LEMMA FailsFails ==
  ASSUME TypeInv, Fails
  PROVE  /\ disk' \in Executions /\ disk'.status = "Failed"
         /\ disk'.workflow = state /\ pausedIn' = pausedIn
         /\ pc \in {"agent", "commands", "completed"}
<1>1. mem \in Executions /\ state \in WorkflowStates
  BY DEF Fails, CommandFails, TurnFails, RejectAct, RejectReview, TypeInv, TypeOK
<1>2. ASSUME NEW e \in Executions, e.workflow = state, StopWith(Fail(e))
      PROVE  disk' \in Executions /\ disk'.status = "Failed" /\ disk'.workflow = state
  BY <1>2, FailIsExecution, MethodsKeepTheRest DEF StopWith, Save
<1>3. CASE CommandFails \/ RejectReview
  <2> DEFINE e == [mem EXCEPT !.workflow = state]
             r == Record(e, Event("ValidationFailed"))
  <2>1. e \in Executions /\ e.workflow = state
    BY <1>1 DEF Executions
  <2> HIDE DEF e
  <2>2. r \in Executions
    <3>1. Event("ValidationFailed") \in Events
      BY EventIsEvent DEF EventTypes
    <3> QED
      BY <2>1, <3>1, RecordIsExecution
  <2>3. r.workflow = state
    BY <2>1, MethodsKeepTheRest
  <2>4. StopWith(Fail(r))
    BY <1>3 DEF CommandFails, RejectReview, FailedValidation, e
  <2> HIDE DEF r
  <2> QED
    BY <1>2, <1>3, <2>2, <2>3, <2>4 DEF CommandFails, RejectReview
<1>4. CASE TurnFails
  <2>1. PICK s \in SessionsAfterReply :
          StopWith(Fail([mem EXCEPT !.session = s, !.workflow = state]))
    BY <1>4 DEF TurnFails
  <2>2. /\ [mem EXCEPT !.session = s, !.workflow = state] \in Executions
        /\ [mem EXCEPT !.session = s, !.workflow = state].workflow = state
    BY <1>1, <1>4, SessionAfterReplyTypes, GivenBackIsExecution
       DEF TurnFails, Executions
  <2> QED
    BY <1>2, <1>4, <2>1, <2>2 DEF TurnFails
<1>5. CASE RejectAct
  <2>1. /\ [mem EXCEPT !.workflow = state] \in Executions
        /\ [mem EXCEPT !.workflow = state].workflow = state
    BY <1>1 DEF Executions
  <2> QED
    BY <1>2, <1>5, <2>1 DEF RejectAct
<1> QED
  BY <1>3, <1>4, <1>5 DEF Fails

LEMMA AsksWaits ==
  ASSUME TypeInv, Asks
  PROVE  /\ pc = "agent"
         /\ disk' \in Executions /\ disk'.status = "WaitingForHuman"
         /\ disk'.workflow = state /\ disk'.session \in SessionsAfterReply
         /\ disk'.pending.options # {}
         /\ pausedIn' = pausedIn \cup {state.phase}
         /\ \E tree \in TreesAfterTurn(turn.permission, WorkingTree) :
              workspace' = IF dryRun THEN workspace ELSE tree
<1>1. PICK options \in SUBSET Options : TurnAsks(options)
  BY DEF Asks
<1>2. pc = "agent" /\ options # {} /\ mem \in Executions /\ state \in WorkflowStates
  BY <1>1 DEF TurnAsks, ProperGate, TypeInv, TypeOK
<1> DEFINE gate == [id |-> Len(mem.gates) + 1, options |-> options]
<1>3. PICK s \in SessionsAfterReply :
        StopWith(Ask([mem EXCEPT !.session = s, !.workflow = state], gate))
  BY <1>1 DEF TurnAsks
<1> DEFINE e == [mem EXCEPT !.session = s, !.workflow = state]
<1>4. e \in Executions /\ e.workflow = state /\ e.session = s
  BY <1>2, SessionAfterReplyTypes, GivenBackIsExecution DEF Executions
<1>5. gate \in Gates /\ gate.options = options
  <2>1. mem.gates \in Seq(Gates)
    BY <1>2 DEF Executions
  <2> QED
    BY <2>1 DEF Gates
<1>6. disk' = Ask(e, gate)
  BY <1>3 DEF StopWith, Save
<1> HIDE DEF gate, e
<1>7. /\ disk' \in Executions /\ disk'.status = "WaitingForHuman"
      /\ disk'.workflow = state /\ disk'.session = s /\ disk'.pending = gate
  BY <1>4, <1>5, <1>6, AskIsExecution, MethodsKeepTheRest
<1> QED
  BY <1>1, <1>2, <1>5, <1>7 DEF TurnAsks

LEMMA ReportCompletes ==
  ASSUME TypeInv, Report
  PROVE  /\ pc = "loop" /\ mem.workflow.phase = "Report"
         /\ disk' \in Executions /\ disk'.status = "Completed"
         /\ disk'.workflow = mem.workflow /\ pausedIn' = pausedIn
         /\ disk'.messages = Append(mem.messages, Event("Completed"))
<1> DEFINE result == [success |-> TRUE, changed |-> mem.workflow.action.changed]
<1>1. mem \in Executions
  BY DEF Report, TypeInv
<1>2. result \in Results
  BY <1>1 DEF Executions, WorkflowStates, Actions, Results
<1>3. disk' = Complete(mem, result)
  BY DEF Report, StopWith, Save
<1> HIDE DEF result
<1> QED
  BY <1>1, <1>2, <1>3, CompleteIsExecution, MethodsKeepTheRest DEF Report

LEMMA AdvanceFields ==
  ASSUME TypeInv, pc # "idle", NEW w, AdvanceTo(Advance(mem, w))
  PROVE  /\ pc' = "loop" /\ disk' = mem'
         /\ mem'.workflow = w /\ mem'.status = mem.status
         /\ mem'.messages = mem.messages
BY DEF AdvanceTo, Saved, Save, Advance, TypeInv, Executions

LEMMA FinishFields ==
  ASSUME TypeInv
  PROVE  /\ FinishUnderstand =>
              /\ pc' = "loop" /\ disk' = mem' /\ mem'.status = mem.status
              /\ mem'.workflow.phase = "Locate"
         /\ FinishLocate =>
              /\ pc' = "loop" /\ disk' = mem' /\ mem'.status = mem.status
              /\ mem'.workflow.phase = "Act"
         /\ FinishAct =>
              /\ pc' = "loop" /\ disk' = mem' /\ mem'.status = mem.status
              /\ mem'.workflow.phase = "Validate"
              /\ mem'.workflow.action.changed = ChangedInTurn
<1>1. state \in WorkflowStates
  BY DEF TypeInv, TypeOK
<1>2. \A a : /\ CompleteUnderstand(state).phase = "Locate"
             /\ CompleteLocate(state).phase = "Act"
             /\ CompleteAct(state, a).phase = "Validate"
             /\ CompleteAct(state, a).action = a
  BY <1>1 DEF CompleteUnderstand, CompleteLocate, CompleteAct, WorkflowStates
<1>3. CASE FinishUnderstand
  BY <1>2, <1>3, AdvanceFields DEF FinishUnderstand, FinishLocate, FinishAct
<1>4. CASE FinishLocate
  BY <1>2, <1>4, AdvanceFields DEF FinishUnderstand, FinishLocate, FinishAct
<1>5. CASE FinishAct
  BY <1>2, <1>5, AdvanceFields DEF FinishUnderstand, FinishLocate, FinishAct
<1> QED
  BY <1>3, <1>4, <1>5

\* After either way through the review.
LEMMA ValidatedFields ==
  ASSUME TypeInv, pc # "idle", NEW reviewed
  PROVE  LET v == Validated(reviewed)
         IN /\ v.workflow.phase = "Report"
            /\ v.workflow.action = state.action
            /\ v.workflow.validation = [commands |-> request.commands,
                                        review   |-> reviewed]
            /\ v.status = mem.status
            /\ (request.commands \/ reviewed) =>
                 v.messages # <<>> /\ v.messages[Len(v.messages)].type = "ValidationPassed"
<1> DEFINE passed == Record(mem, Event("ValidationPassed"))
           w == CompleteValidate(state, [commands |-> request.commands,
                                         review   |-> reviewed])
<1>1. mem \in Executions /\ state \in WorkflowStates /\ mem.messages \in Seq(Events)
  BY DEF TypeInv, TypeOK, Executions
<1>2. /\ w.phase = "Report" /\ w.action = state.action
      /\ w.validation = [commands |-> request.commands, review |-> reviewed]
  BY <1>1 DEF CompleteValidate, WorkflowStates
<1>3. /\ passed \in Executions /\ passed.status = mem.status
      /\ passed.messages = Append(mem.messages, Event("ValidationPassed"))
  BY <1>1, RecordIsExecution, EventIsEvent DEF EventTypes, Record, Executions
<1>4. /\ passed.messages # <<>>
      /\ passed.messages[Len(passed.messages)].type = "ValidationPassed"
  BY <1>1, <1>3 DEF Event
<1>5. Validated(reviewed) =
        Advance(IF request.commands \/ reviewed THEN passed ELSE mem, w)
  BY DEF Validated
<1> HIDE DEF passed, w
<1>6. \A e \in Executions :
        /\ Advance(e, w).workflow = w /\ Advance(e, w).status = e.status
        /\ Advance(e, w).messages = e.messages
  BY DEF Advance, Executions
<1> QED
  BY <1>1, <1>2, <1>3, <1>4, <1>5, <1>6

\* The steps that take a phase on, and the phase they leave.
LEMMA SkippedOrReviewed ==
  ASSUME TypeInv, SkipReview \/ FinishReview
  PROVE  /\ pc \in {"review", "completed"} /\ state.phase = "Validate"
         /\ pc' = "loop" /\ disk' = mem' /\ mem' \in {Validated(TRUE), Validated(FALSE)}
         /\ SkipReview => mem' = Validated(FALSE)
         /\ FinishReview => mem' = Validated(TRUE)
         /\ mem'.workflow.phase = "Report" /\ mem'.workflow.action = state.action
         /\ mem'.status = mem.status
<1>1. /\ pc \in {"review", "completed"} /\ state.phase = "Validate"
      /\ pc' = "loop" /\ disk' = mem' /\ mem' \in {Validated(TRUE), Validated(FALSE)}
      /\ SkipReview => mem' = Validated(FALSE)
      /\ FinishReview => mem' = Validated(TRUE)
  BY DEF SkipReview, FinishReview, AdvanceTo, Saved, Save, TypeInv, PhaseTaken
<1>2. \A reviewed \in BOOLEAN :
        /\ Validated(reviewed).workflow.phase = "Report"
        /\ Validated(reviewed).workflow.action = state.action
        /\ Validated(reviewed).status = mem.status
  BY <1>1, ValidatedFields
<1> QED
  BY <1>1, <1>2

LEMMA BeginFields ==
  ASSUME BeginPhase
  PROVE  /\ pc = "loop" /\ pc' \in {"agent", "commands", "review"}
         /\ state' = mem.workflow
         /\ disk' = disk /\ pausedIn' = pausedIn /\ request' = request
         /\ workspace' = workspace /\ isolated' = isolated /\ dryRun' = dryRun
BY DEF BeginPhase, BeginReadOnlyTurn, BeginAct, BeginValidate, Take, CallAgent, durable

-----------------------------------------------------------------------------
(* Phases are taken in order.  TypeInv suffices: the phase of a process is *)
(* in state while a turn or a validation is under way, in mem otherwise,   *)
(* and every step that stops a process by a save puts it back on disk.     *)

Ordered ==
  \/ <<CurrentPhase, CurrentPhase'>> \in SamePhaseOrNext
  \/ CurrentPhase = "Legacy"
  \/ pc # "idle" /\ pc' = "idle" /\ disk' = disk

LEMMA SamePhase ==
  ASSUME TypeInv, CurrentPhase' = CurrentPhase
  PROVE  Ordered
<1>1. CurrentPhase \in Phases \cup {"Legacy"}
  BY DEF TypeInv, TypeOK, CurrentPhase, PCs, Executions, WorkflowStates, Phases
<1> QED
  BY <1>1 DEF Ordered, SamePhaseOrNext

LEMMA UserStepInOrder ==
  ASSUME TypeInv, UserStep
  PROVE  Ordered
<1>1. ASSUME NEW dry \in DryRuns, Run(dry)
      PROVE  CurrentPhase' = CurrentPhase
  BY <1>1, StartFields DEF Run, FreshId, CurrentPhase, StartWorkflow
<1>2. ASSUME NEW option \in Options, NEW dry \in DryRuns, Resume(option, dry)
      PROVE  CurrentPhase' = CurrentPhase
  <2>1. disk \in Executions /\ disk # NoExecution
    BY <1>2 DEF Resume, AcceptsDecision, TypeInv, TypeOK
  <2>2. mem'.workflow = disk.workflow /\ pc = "idle" /\ pc' = "prepare"
    BY <1>2, <2>1, MethodsKeepTheRest DEF Resume, FromThePause
  <2> QED
    BY <2>1, <2>2 DEF CurrentPhase
<1>3. CASE CancelExecution
  <2>1. disk \in Executions /\ disk # NoExecution /\ disk' = Cancel(disk)
    BY <1>3 DEF CancelExecution, Save, TypeInv, TypeOK
  <2>2. disk'.workflow = disk.workflow /\ disk' # NoExecution
    BY <2>1, MethodsKeepTheRest, CancelIsExecution, PhaseLoopAssumption
  <2>3. pc = "idle" /\ pc' = "idle"
    BY <1>3 DEF CancelExecution, process
  <2> QED
    BY <1>3, <2>1, <2>2, <2>3, SamePhase DEF CurrentPhase
<1> QED
  BY <1>1, <1>2, <1>3, SamePhase DEF UserStep

LEMMA EndingInOrder ==
  ASSUME TypeInv, Ending
  PROVE  Ordered
<1>1. pc # "idle" /\ pc' = "idle"
  BY EndingEnds DEF ProcessEnds
<1>2. CASE Fails \/ Asks
  <2>1. /\ pc \in {"agent", "commands", "completed"}
        /\ disk' \in Executions /\ disk'.workflow = state
    BY <1>2, FailsFails, AsksWaits
  <2> QED
    BY <1>1, <2>1, SamePhase, PhaseLoopAssumption DEF CurrentPhase
<1>3. CASE Report
  BY <1>1, <1>3, ReportCompletes, SamePhase, PhaseLoopAssumption DEF CurrentPhase
<1>4. CASE ExecutorFailed \/ Crash
  BY <1>1, <1>4 DEF ExecutorFailed, Crash, Ordered
<1> QED
  BY <1>2, <1>3, <1>4 DEF Ending

LEMMA StepInOrder ==
  ASSUME TypeInv, [Next]_vars
  PROVE  Ordered
<1>1. CASE UNCHANGED vars
  BY <1>1, SamePhase DEF vars, durable, process, CurrentPhase
<1>2. CASE UserStep
  BY <1>2, UserStepInOrder
<1>3. CASE Prepare \/ BeginPhase
  BY <1>3, BeginFields, SamePhase DEF Prepare, CurrentPhase
<1>4. CASE CommandsPass \/ TransientError \/ TurnCompletes \/ BeginReview
  BY <1>4, SamePhase DEF CommandsPass, TransientError, TurnCompletes, BeginReview,
                         CallAgent, CurrentPhase
<1>5. CASE FinishUnderstand \/ FinishLocate \/ FinishAct
  BY <1>5, FinishFields DEF FinishUnderstand, FinishLocate, FinishAct,
                            CurrentPhase, Ordered, SamePhaseOrNext
<1>6. CASE SkipReview \/ FinishReview
  BY <1>6, SkippedOrReviewed DEF CurrentPhase, Ordered, SamePhaseOrNext
<1>7. CASE Ending
  BY <1>7, EndingInOrder
<1> QED
  BY <1>1, <1>2, <1>3, <1>4, <1>5, <1>6, <1>7, StepsByKind

(* No step skips a phase or goes back to one, a resume included.           *)
THEOREM PhasesAreInOrder == Spec => PhasesInOrder
<1>1. ASSUME TypeInv, [Next]_vars
      PROVE  [Ordered]_vars
  BY <1>1, StepInOrder
<1> QED
  BY <1>1, TypeInvInit, TypeInvNext, PTL DEF Spec, PhasesInOrder, Ordered

-----------------------------------------------------------------------------
(* Each part of LoopInv is kept. *)

LEMMA LoopInvInit == Init => LoopInv
BY DEF Init, ProcessGone, LoopInv, PauseInv, Paused, SessionInv, ValidInv, AtReport,
       CompletedIsValidated, TreeInv

LEMMA RequestIsFixed ==
  ASSUME [Next]_vars
  PROVE  request' = request
<1>1. CASE UserStep
  BY <1>1 DEF UserStep, Run, Resume, CancelExecution
<1>2. CASE Ending
  BY <1>2, EndingEnds
<1> QED
  BY <1>1, <1>2, StepsByKind, BeginFields
     DEF vars, durable, Prepare, CommandsPass, TransientError, TurnCompletes,
         FinishUnderstand, FinishLocate, FinishAct, AdvanceTo, BeginReview,
         SkipReview, FinishReview

\* An execution is paused by a question and completed by a report.
LEMMA WhatIsSaved ==
  ASSUME StatusInv, [Next]_vars
  PROVE  \/ Asks
         \/ /\ pausedIn' = pausedIn
            /\ \/ disk' = disk
               \/ Report
               \/ disk'.status \in {"Running", "Failed", "Cancelled"}
<1>0. TypeInv /\ (mem.status = "Running" \/ pc = "idle")
  BY DEF StatusInv, ProcessAgreesWithDisk
<1>1. CASE UNCHANGED vars
  BY <1>1 DEF vars, durable
<1>2. ASSUME NEW dry \in DryRuns, Run(dry)
      PROVE  pausedIn' = pausedIn /\ disk'.status = "Running"
  BY <1>2, StartFields DEF Run, Save
<1>3. ASSUME NEW option \in Options, NEW dry \in DryRuns, Resume(option, dry)
      PROVE  pausedIn' = pausedIn /\ disk'.status = "Running"
  <2>1. disk \in Executions /\ disk' = ApplyDecision(disk, option)
    BY <1>0, <1>3 DEF Resume, AcceptsDecision, FromThePause, Save, TypeInv, TypeOK
  <2> QED
    BY <1>3, <2>1, MethodsKeepTheRest DEF Resume
<1>4. CASE CancelExecution
  <2>1. disk \in Executions /\ disk' = Cancel(disk)
    BY <1>0, <1>4 DEF CancelExecution, Save, TypeInv, TypeOK
  <2> QED
    BY <1>4, <2>1, MethodsKeepTheRest DEF CancelExecution
<1>5. CASE Prepare \/ BeginPhase \/ CommandsPass \/ TransientError \/ BeginReview
  BY <1>5, BeginFields DEF Prepare, durable, CommandsPass, TransientError, BeginReview
<1>6. CASE TurnCompletes
  BY <1>0, <1>6 DEF TurnCompletes, Save, TypeInv, Executions
<1>7. CASE FinishUnderstand \/ FinishLocate \/ FinishAct
  BY <1>0, <1>7, FinishFields DEF FinishUnderstand, FinishLocate, FinishAct, AdvanceTo
<1>8. CASE SkipReview \/ FinishReview
  BY <1>0, <1>8, SkippedOrReviewed DEF SkipReview, FinishReview, AdvanceTo
<1>9. CASE Ending
  BY <1>0, <1>9, FailsFails, ReportCompletes DEF Ending, ExecutorFailed, Crash
<1> QED
  BY <1>1, <1>2, <1>3, <1>4, <1>5, <1>6, <1>7, <1>8, <1>9, StepsByKind DEF UserStep

LEMMA OnlyAsksPause ==
  ASSUME StatusInv, [Next]_vars, ~Asks
  PROVE  pausedIn' = pausedIn /\ (Paused' => Paused /\ disk' = disk)
<1>1. Report => disk'.status = "Completed"
  BY ReportCompletes DEF StatusInv
<1> QED
  BY <1>1, WhatIsSaved DEF Paused

LEMMA PauseInvNext ==
  ASSUME StatusInv, LoopInv, [Next]_vars
  PROVE  PauseInv'
<1>1. CASE Asks
  <2>1. TypeInv
    BY DEF StatusInv
  <2>2. /\ pc = "agent" /\ disk'.workflow = state /\ disk'.session \in SessionsAfterReply
        /\ disk'.pending.options # {} /\ pausedIn' = pausedIn \cup {state.phase}
    BY <1>1, <2>1, AsksWaits
  <2>3. state.phase \in TurnPhases
    BY <2>1, <2>2 DEF TypeInv, PhaseTaken, TurnPhases
  <2>4. state.phase \in Writing => disk'.session \subseteq Writing
    BY <2>2 DEF LoopInv, SessionInv, SessionsAfterReply, Writing
  <2> QED
    BY <2>2, <2>3, <2>4 DEF PauseInv
<1>2. CASE ~Asks
  BY <1>2, OnlyAsksPause DEF LoopInv, PauseInv
<1> QED
  BY <1>1, <1>2

LEMMA SessionInvNext ==
  ASSUME StatusInv, LoopInv, [Next]_vars
  PROVE  SessionInv'
<1>0. TypeInv /\ SessionInv /\ PauseInv
  BY DEF StatusInv, LoopInv
<1>1. CASE UNCHANGED vars
  BY <1>0, <1>1 DEF vars, process, SessionInv
<1>2. CASE pc' = "idle"
  BY <1>2 DEF SessionInv
<1>3. ASSUME NEW dry \in DryRuns, Run(dry)
      PROVE  SessionInv'
  <2>1. mem'.workflow.phase = "Understand" /\ pc' = "prepare"
    BY <1>3, StartFields DEF Run, StartWorkflow
  <2> QED
    BY <2>1 DEF SessionInv, TurnPhases, Early
<1>4. ASSUME NEW option \in Options, NEW dry \in DryRuns, Resume(option, dry)
      PROVE  SessionInv'
  <2>1. disk \in Executions /\ mem' = ApplyDecision(disk, option) /\ Paused
    BY <1>0, <1>4 DEF Resume, AcceptsDecision, FromThePause, TypeInv, TypeOK, Paused
  <2>2. mem'.workflow = disk.workflow /\ session' = disk.session /\ pc' = "prepare"
    BY <1>4, <2>1, MethodsKeepTheRest DEF Resume
  <2> QED
    BY <1>0, <2>1, <2>2 DEF PauseInv, SessionInv, TurnPhases, Early, Writing
<1>5. CASE Prepare
  BY <1>0, <1>5 DEF Prepare, SessionInv
<1>6. CASE BeginReadOnlyTurn
  BY <1>6 DEF BeginReadOnlyTurn, Take, CallAgent, SessionInv, Writing
<1>7. CASE BeginAct
  <2>1. ActSession \subseteq Writing
    BY <1>0, <1>7 DEF BeginAct, ActSession, SessionInv, Early
  <2> QED
    BY <1>7, <2>1 DEF BeginAct, Take, CallAgent, SessionInv
<1>8. CASE BeginValidate
  <2>1. session \subseteq Writing
    BY <1>0, <1>8 DEF BeginValidate, SessionInv, Early
  <2> QED
    BY <1>8, <2>1 DEF BeginValidate, SessionInv
<1>9. CASE CommandsPass \/ TransientError
  BY <1>0, <1>9 DEF CommandsPass, TransientError, SessionInv
<1>10. CASE TurnCompletes
  <2>1. session' \in SessionsAfterReply /\ pc = "agent" /\ pc' = "completed"
        /\ UNCHANGED <<state, turn, suffix>>
    BY <1>10 DEF TurnCompletes
  <2>2. state.phase \in Writing => session' \cup turn.session \subseteq Writing
    BY <1>0, <2>1 DEF SessionInv, SessionsAfterReply, Writing
  <2> QED
    BY <1>0, <2>1, <2>2 DEF SessionInv
<1>11. CASE FinishUnderstand \/ FinishLocate \/ FinishAct
  <2>1. /\ pc = "completed" /\ pc' = "loop" /\ UNCHANGED <<session, suffix>>
        /\ \/ state.phase = "Understand" /\ mem'.workflow.phase = "Locate"
           \/ state.phase = "Locate" /\ mem'.workflow.phase = "Act"
           \/ state.phase = "Act" /\ mem'.workflow.phase = "Validate"
    BY <1>0, <1>11, FinishFields
       DEF FinishUnderstand, FinishLocate, FinishAct, AdvanceTo
  <2> QED
    BY <1>0, <2>1 DEF SessionInv, Early, Writing
<1>12. CASE BeginReview
  <2>1. state.phase = "Validate" /\ session \subseteq Writing
    BY <1>0, <1>12 DEF BeginReview, TypeInv, PhaseTaken, SessionInv
  <2> QED
    BY <1>12, <2>1 DEF BeginReview, CallAgent, SessionInv
<1>13. CASE SkipReview \/ FinishReview
  BY <1>0, <1>13, SkippedOrReviewed DEF SessionInv
<1>14. CASE Ending
  BY <1>2, <1>14, EndingEnds DEF ProcessEnds
<1>15. CASE CancelExecution
  BY <1>2, <1>15 DEF CancelExecution, process
<1> QED
  BY <1>1, <1>3, <1>4, <1>5, <1>6, <1>7, <1>8, <1>9, <1>10, <1>11, <1>12, <1>13,
     <1>14, <1>15, StepsByKind DEF UserStep, BeginPhase

LEMMA VerdictAtReport ==
  ASSUME StatusInv, LoopInv, [Next]_vars, AtReport'
  PROVE  Verdict(mem)'
<1>0. TypeInv /\ ValidInv /\ SessionInv /\ pc' = "loop" /\ request' = request
  BY RequestIsFixed DEF StatusInv, LoopInv, AtReport
<1>1. CASE UNCHANGED vars
  BY <1>0, <1>1 DEF vars, durable, process, AtReport, ValidInv, Verdict
<1>2. CASE Prepare
  <2>1. mem' = mem /\ mem.workflow.phase # "Report"
    BY <1>0, <1>2 DEF Prepare, SessionInv, TurnPhases
  <2> QED
    BY <2>1 DEF AtReport
<1>3. CASE FinishUnderstand \/ FinishLocate \/ FinishAct
  BY <1>0, <1>3, FinishFields DEF AtReport
<1>4. request.review \in BOOLEAN
  BY <1>0, PhaseLoopAssumption DEF TypeInv, TypeOK, RequestRecords
<1>5. CASE SkipReview
  <2>1. mem' = Validated(FALSE) /\ request.review = FALSE /\ pc # "idle"
    BY <1>4, <1>5 DEF SkipReview, AgentReviews
  <2> QED
    BY <1>0, <2>1, ValidatedFields DEF Verdict
<1>6. CASE FinishReview
  <2>1. mem' = Validated(TRUE) /\ request.review = TRUE /\ pc # "idle"
    BY <1>0, <1>4, <1>6, SkippedOrReviewed DEF FinishReview, ValidInv
  <2> QED
    BY <1>0, <2>1, ValidatedFields DEF Verdict
<1>7. UNCHANGED vars \/ Prepare \/ FinishUnderstand \/ FinishLocate \/ FinishAct
      \/ SkipReview \/ FinishReview
  <2>1. ~UserStep
    BY <1>0 DEF UserStep, Run, Resume, CancelExecution, process
  <2>2. ~Ending
    BY <1>0, EndingEnds DEF ProcessEnds
  <2> QED
    BY <1>0, <2>1, <2>2, StepsByKind, BeginFields
       DEF CommandsPass, TransientError, TurnCompletes, BeginReview, CallAgent
<1> QED
  BY <1>1, <1>2, <1>3, <1>5, <1>6, <1>7

LEMMA CompletedIsValidatedNext ==
  ASSUME StatusInv, LoopInv, [Next]_vars
  PROVE  CompletedIsValidated'
<1>0. TypeInv /\ ValidInv /\ request' = request
  BY RequestIsFixed DEF StatusInv, LoopInv
<1>1. CASE disk' = disk
  BY <1>0, <1>1 DEF ValidInv, CompletedIsValidated
<1>2. CASE Report
  <2>1. /\ mem \in Executions /\ disk'.workflow = mem.workflow /\ AtReport
        /\ disk'.messages = Append(mem.messages, Event("Completed"))
    BY <1>0, <1>2, ReportCompletes DEF Report, TypeInv, AtReport
  <2>2. Verdict(mem)
    BY <1>0, <2>1 DEF ValidInv
  <2>3. mem.messages \in Seq(Events)
    BY <2>1 DEF Executions
  <2>4. mem.messages # <<>> =>
          disk'.messages[Len(disk'.messages) - 1] = mem.messages[Len(mem.messages)]
    BY <2>1, <2>3
  <2> QED
    BY <1>0, <2>1, <2>2, <2>4 DEF Verdict, AtReport, CompletedIsValidated
<1>3. CASE Asks \/ disk'.status \in {"Running", "Failed", "Cancelled"}
  BY <1>0, <1>3, AsksWaits DEF CompletedIsValidated
<1> QED
  BY <1>1, <1>2, <1>3, WhatIsSaved

LEMMA ValidInvNext ==
  ASSUME StatusInv, LoopInv, [Next]_vars
  PROVE  ValidInv'
<1>0. TypeInv /\ ValidInv /\ request' = request
  BY RequestIsFixed DEF StatusInv, LoopInv
<1>1. (pc = "commands" => request.commands)'
  <2>1. CASE BeginPhase
    BY <1>0, <2>1 DEF BeginPhase, BeginReadOnlyTurn, BeginAct, BeginValidate, CallAgent
  <2>2. CASE UserStep
    BY <1>0, <2>2 DEF UserStep, Run, Resume, CancelExecution, process
  <2>3. CASE Ending
    BY <2>3, EndingEnds DEF ProcessEnds
  <2>4. CASE UNCHANGED vars
    BY <1>0, <2>4 DEF vars, process, ValidInv
  <2> QED
    BY <1>0, <2>1, <2>2, <2>3, <2>4, StepsByKind
       DEF Prepare, CommandsPass, TransientError, TurnCompletes, FinishUnderstand,
           FinishLocate, FinishAct, AdvanceTo, BeginReview, CallAgent,
           SkipReview, FinishReview, ValidInv
<1>2. (pc \in {"agent", "completed"} /\ state.phase = "Validate" => request.review)'
  <2>1. CASE BeginPhase
    BY <1>0, <2>1 DEF BeginPhase, BeginReadOnlyTurn, BeginAct, BeginValidate,
                      CallAgent, Take
  <2>2. CASE UserStep
    BY <1>0, <2>2 DEF UserStep, Run, Resume, CancelExecution, process
  <2>3. CASE Ending
    BY <2>3, EndingEnds DEF ProcessEnds
  <2>4. CASE UNCHANGED vars
    BY <1>0, <2>4 DEF vars, process, ValidInv
  <2> QED
    BY <1>0, <2>1, <2>2, <2>3, <2>4, StepsByKind
       DEF Prepare, CommandsPass, TransientError, TurnCompletes, FinishUnderstand,
           FinishLocate, FinishAct, AdvanceTo, BeginReview, CallAgent,
           SkipReview, FinishReview, AgentReviews, ValidInv
<1> QED
  BY <1>1, <1>2, VerdictAtReport, CompletedIsValidatedNext DEF ValidInv

-----------------------------------------------------------------------------
\* A turn or a command that works in the working tree.
LEMMA WorkingTreeBecomes ==
  ASSUME NEW tree, TreeBecomes(tree), dryRun' = dryRun
  PROVE  WorkingTree' = tree /\ (dryRun => workspace' = workspace)
BY DEF TreeBecomes, WorkingTree

LEMMA NothingChanged ==
  ASSUME NEW a \in Trees, NEW b \in Trees, ChangedFiles(a, b) = {}
  PROVE  a = b
BY DEF Trees, ChangedFiles

LEMMA TreeInvNext ==
  ASSUME StatusInv, LoopInv, [Next]_vars
  PROVE  TreeInv'
<1>0. TypeInv /\ TreeInv /\ PauseInv /\ request' = request
  BY RequestIsFixed DEF StatusInv, LoopInv
<1> SUFFICES ASSUME Quiet' PROVE TreeInv'
  BY DEF TreeInv
<1>1. Quiet
  <2>1. pausedIn \subseteq pausedIn'
    BY <1>0, AsksWaits, OnlyAsksPause
  <2> QED
    BY <1>0, <2>1 DEF Quiet
<1>2. CASE UNCHANGED vars
  BY <1>0, <1>2 DEF vars, durable, process, TreeInv, Quiet, WorkingTree, Paused, Diff
<1>3. ASSUME NEW dry \in DryRuns, Run(dry)
      PROVE  TreeInv'
  <2>1. /\ workspace' = InitialTree /\ pc' = "prepare"
        /\ mem'.workflow.phase = "Understand"
    BY <1>0, <1>1, <1>3, StartFields DEF Run, FreshId, StartWorkflow, TreeInv
  <2> QED
    BY <2>1 DEF TreeInv, Early
<1>4. ASSUME NEW option \in Options, NEW dry \in DryRuns, Resume(option, dry)
      PROVE  TreeInv'
  <2>1. /\ disk \in Executions /\ mem' = ApplyDecision(disk, option) /\ Paused
        /\ pc = "idle" /\ pc' = "prepare" /\ workspace' = workspace
    BY <1>0, <1>4 DEF Resume, AcceptsDecision, FromThePause, TypeInv, TypeOK, Paused
  <2>2. mem'.workflow = disk.workflow
    BY <2>1, MethodsKeepTheRest
  <2>3. disk.workflow.phase \in Early
    BY <1>0, <1>1, <2>1 DEF PauseInv, Quiet, TurnPhases, Writing, Early
  <2>4. workspace = InitialTree
    BY <1>0, <1>1, <2>1 DEF TreeInv
  <2> QED
    BY <2>1, <2>2, <2>3, <2>4 DEF TreeInv
<1>5. CASE CancelExecution
  <2>1. pc' = "idle" /\ workspace' = workspace /\ dryRun' = dryRun /\ ~Asks /\ disk # NoExecution
    BY <1>5 DEF CancelExecution, process, Asks, TurnAsks
  <2>2. disk' # NoExecution
    BY <1>0, <1>5, <2>1, CancelIsExecution, PhaseLoopAssumption
       DEF CancelExecution, Save, TypeInv, TypeOK
  <2>3. ~Paused'
    BY <1>0, <1>5, <2>1, MethodsKeepTheRest
       DEF Paused, CancelExecution, Save, TypeInv, TypeOK
  <2> QED
    BY <1>0, <1>1, <2>1, <2>2, <2>3 DEF TreeInv
<1>6. CASE Prepare
  <2>1. /\ pc = "prepare" /\ pc' = "loop" /\ UNCHANGED <<mem, dryRun, workspace>>
        /\ isolated' = IF dryRun THEN workspace ELSE isolated
    BY <1>6 DEF Prepare, durable
  <2>2. workspace = InitialTree /\ mem.workflow.phase \in Early
    BY <1>0, <1>1, <2>1 DEF TreeInv
  <2>3. WorkingTree' = InitialTree
    BY <2>1, <2>2 DEF WorkingTree
  <2> QED
    BY <2>1, <2>2, <2>3 DEF TreeInv, Early
<1>7. CASE BeginReadOnlyTurn
  <2>1. /\ pc = "loop" /\ mem.workflow.phase \in Early /\ state' = mem.workflow
        /\ pc' = "agent" /\ turn'.permission = "ReadOnly"
        /\ UNCHANGED <<workspace, isolated, dryRun>>
    BY <1>7 DEF BeginReadOnlyTurn, Take, CallAgent, durable, Early
  <2>2. WorkingTree' = InitialTree /\ (dryRun' => workspace' = InitialTree)
    BY <1>0, <1>1, <2>1 DEF TreeInv, WorkingTree
  <2> QED
    BY <2>1, <2>2 DEF TreeInv, Early
<1>8. CASE BeginAct
  <2>1. /\ pc = "loop" /\ mem.workflow.phase = "Act" /\ state' = mem.workflow
        /\ pc' = "agent" /\ before' = WorkingTree
        /\ UNCHANGED <<workspace, isolated, dryRun>>
    BY <1>8 DEF BeginAct, Take, CallAgent, durable
  <2>2. before' = InitialTree /\ (dryRun' => workspace' = InitialTree)
    BY <1>0, <1>1, <2>1 DEF TreeInv
  <2> QED
    BY <2>1, <2>2 DEF TreeInv, Early
<1>9. CASE BeginValidate
  <2>1. /\ pc = "loop" /\ mem.workflow.phase = "Validate" /\ state' = mem.workflow
        /\ pc' = "review" /\ UNCHANGED <<workspace, isolated, dryRun>>
    BY <1>1, <1>9 DEF BeginValidate, Take, durable, Quiet
  <2>2. Diff(state', WorkingTree) /\ (dryRun' => workspace' = InitialTree)
    BY <1>0, <1>1, <2>1 DEF TreeInv, Diff
  <2>3. WorkingTree' = WorkingTree
    BY <2>1 DEF WorkingTree
  <2> QED
    BY <2>1, <2>2, <2>3 DEF TreeInv, Diff
<1>10. CASE CommandsPass
  <2>1. request.commands
    BY <1>10 DEF CommandsPass, LoopInv, ValidInv
  <2> QED
    BY <1>1, <2>1 DEF Quiet
<1>11. CASE TransientError \/ TurnCompletes
  <2>1. PICK tree \in TreesAfterTurn(turn.permission, WorkingTree) : TreeBecomes(tree)
    BY <1>11 DEF TransientError, TurnCompletes
  <2>2. /\ pc = "agent" /\ pc' \in {"agent", "completed"}
        /\ UNCHANGED <<state, turn, dryRun, before>>
    BY <1>11 DEF TransientError, TurnCompletes
  <2>3. WorkingTree' = tree /\ (dryRun => workspace' = workspace)
    BY <2>1, <2>2, WorkingTreeBecomes
  <2>4. turn.permission = "ReadOnly" => WorkingTree' = WorkingTree
    BY <2>1, <2>3 DEF TreesAfterTurn
  <2>5. state.phase \in TurnPhases
    BY <1>0, <2>2 DEF TypeInv, PhaseTaken, TurnPhases
  <2>6. dryRun' => workspace' = InitialTree
    BY <1>0, <1>1, <2>2, <2>3 DEF TreeInv
  <2>7. CASE state.phase \in Early
    <3>1. WorkingTree = InitialTree /\ turn.permission = "ReadOnly"
      BY <1>0, <1>1, <2>2, <2>7 DEF TreeInv
    <3> QED
      BY <2>2, <2>4, <2>6, <2>7, <3>1 DEF TreeInv, Early
  <2>8. CASE state.phase = "Act"
    <3>1. before = InitialTree
      BY <1>0, <1>1, <2>2, <2>8 DEF TreeInv, Early
    <3> QED
      BY <2>2, <2>6, <2>8, <3>1 DEF TreeInv, Early
  <2>9. CASE state.phase = "Validate"
    <3>1. Diff(state, before)
      BY <1>0, <1>1, <2>2, <2>9 DEF TreeInv, Early
    <3> QED
      BY <2>2, <2>6, <2>9, <3>1 DEF TreeInv, Early, Diff
  <2> QED
    BY <2>5, <2>7, <2>8, <2>9 DEF TurnPhases, Early
<1>12. CASE FinishUnderstand \/ FinishLocate
  <2>1. /\ pc = "completed" /\ state.phase \in Early /\ pc' = "loop"
        /\ mem'.workflow.phase \in {"Locate", "Act"}
        /\ UNCHANGED <<workspace, isolated, dryRun>>
    BY <1>0, <1>12, FinishFields DEF FinishUnderstand, FinishLocate, AdvanceTo, Early
  <2>2. WorkingTree' = InitialTree /\ (dryRun' => workspace' = InitialTree)
    BY <1>0, <1>1, <2>1 DEF TreeInv, WorkingTree
  <2> QED
    BY <2>1, <2>2 DEF TreeInv
<1>13. CASE FinishAct
  <2>1. /\ pc = "completed" /\ state.phase = "Act" /\ pc' = "loop"
        /\ mem'.workflow.phase = "Validate"
        /\ mem'.workflow.action.changed = ChangedFiles(before, WorkingTree)
        /\ UNCHANGED <<workspace, isolated, dryRun>>
    BY <1>0, <1>13, FinishFields DEF FinishAct, AdvanceTo, ChangedInTurn
  <2>2. before = InitialTree /\ (dryRun' => workspace' = InitialTree)
    BY <1>0, <1>1, <2>1 DEF TreeInv, Early
  <2>3. WorkingTree' = WorkingTree
    BY <2>1 DEF WorkingTree
  <2> QED
    BY <2>1, <2>2, <2>3 DEF TreeInv, Diff, Early
<1>14. CASE BeginReview
  <2>1. /\ pc = "review" /\ state.phase = "Validate" /\ before' = WorkingTree
        /\ pc' = "agent" /\ UNCHANGED <<state, workspace, isolated, dryRun>>
    BY <1>0, <1>14 DEF BeginReview, CallAgent, durable, TypeInv, PhaseTaken
  <2>2. Diff(state, WorkingTree) /\ (dryRun' => workspace' = InitialTree)
    BY <1>0, <1>1, <2>1 DEF TreeInv
  <2> QED
    BY <2>1, <2>2 DEF TreeInv, Diff, Early
<1>15. CASE SkipReview \/ FinishReview
  <2>1. /\ pc' = "loop" /\ mem'.workflow.phase = "Report" /\ state.phase = "Validate"
        /\ mem'.workflow.action = state.action
        /\ UNCHANGED <<workspace, isolated, dryRun>>
    BY <1>0, <1>15, SkippedOrReviewed DEF SkipReview, FinishReview, AdvanceTo
  <2>2. Diff(state, WorkingTree)
    <3>1. CASE SkipReview
      BY <1>0, <1>1, <3>1 DEF SkipReview, TreeInv
    <3>2. CASE FinishReview
      <4>1. Diff(state, before) /\ ChangedFiles(before, WorkingTree) = {}
        BY <1>0, <1>1, <3>2
           DEF FinishReview, TreeInv, Early, ReviewTouched, ChangedInTurn
      <4>2. before \in Trees /\ WorkingTree \in Trees
        BY <1>0, WorkingTreeIsTree DEF TypeInv, TypeOK
      <4> QED
        BY <4>1, <4>2, NothingChanged
    <3> QED
      BY <1>15, <3>1, <3>2
  <2>3. WorkingTree' = WorkingTree /\ (dryRun' => workspace' = InitialTree)
    BY <1>0, <1>1, <2>1 DEF WorkingTree, TreeInv
  <2> QED
    BY <2>1, <2>2, <2>3 DEF TreeInv, Diff, Early
<1>16. CASE Ending
  <2>1. pc # "idle" /\ pc' = "idle" /\ dryRun' = FALSE
    BY <1>16, EndingEnds DEF ProcessEnds
  <2>2. CASE Asks
    <3>1. /\ pc = "agent" /\ pausedIn' = pausedIn \cup {state.phase}
          /\ \E tree \in TreesAfterTurn(turn.permission, WorkingTree) :
               workspace' = IF dryRun THEN workspace ELSE tree
      BY <1>0, <2>2, AsksWaits
    <3>2. state.phase \in Early
      BY <1>0, <3>1 DEF TypeInv, PhaseTaken, Quiet, Writing, Early
    <3>3. /\ WorkingTree = InitialTree /\ turn.permission = "ReadOnly"
          /\ dryRun => workspace = InitialTree
      BY <1>0, <1>1, <3>1, <3>2 DEF TreeInv
    <3>4. workspace' = InitialTree
      BY <3>1, <3>3 DEF TreesAfterTurn
    <3> QED
      BY <2>1, <3>4 DEF TreeInv
  <2>3. CASE ~Asks
    <3>1. disk' # NoExecution /\ ~Paused'
      <4>1. disk # NoExecution /\ ~Paused
        BY <2>1 DEF StatusInv, ProcessAgreesWithDisk, Paused
      <4>2. disk' = disk \/ disk' \in Executions
        BY <1>0, <1>16, <2>3, FailsFails, ReportCompletes
           DEF Ending, ExecutorFailed, Crash
      <4> QED
        BY <2>3, <4>1, <4>2, OnlyAsksPause, PhaseLoopAssumption
    <3> QED
      BY <2>1, <3>1 DEF TreeInv
  <2> QED
    BY <2>2, <2>3
<1> QED
  BY <1>2, <1>3, <1>4, <1>5, <1>6, <1>7, <1>8, <1>9, <1>10, <1>11, <1>12, <1>13,
     <1>14, <1>15, <1>16, StepsByKind DEF UserStep, BeginPhase

LEMMA LoopInvHolds == Spec => [](StatusInv /\ LoopInv)
<1>1. Init => StatusInv /\ LoopInv
  BY StatusInvInit, LoopInvInit
<1>2. ASSUME StatusInv /\ LoopInv, [Next]_vars
      PROVE  (StatusInv /\ LoopInv)'
  BY <1>2, StatusInvNext, PauseInvNext, SessionInvNext, ValidInvNext, TreeInvNext
     DEF LoopInv
<1> QED
  BY <1>1, <1>2, PTL DEF Spec

-----------------------------------------------------------------------------
(* The Legacy placeholder.  It is on disk only between the save of a       *)
(* completed turn and the next save, which every exit but a death makes.   *)

PlaceInv == pc \notin {"idle", "completed"} => disk.workflow.phase # "Legacy"

LEMMA UserStepReplaces ==
  ASSUME StatusInv, LoopInv, UserStep
  PROVE  PlaceInv' /\ pc = "idle"
<1>1. ASSUME NEW dry \in DryRuns, Run(dry)
      PROVE  PlaceInv' /\ pc = "idle"
  BY <1>1, StartFields DEF Run, Save, PlaceInv, StartWorkflow
<1>2. ASSUME NEW option \in Options, NEW dry \in DryRuns, Resume(option, dry)
      PROVE  PlaceInv' /\ pc = "idle"
  <2>1. disk \in Executions /\ disk.workflow.phase \in TurnPhases
    BY <1>2 DEF Resume, AcceptsDecision, StatusInv, TypeInv, TypeOK, LoopInv, PauseInv, Paused
  <2>2. disk' = mem' /\ mem'.workflow = disk.workflow
    BY <1>2, <2>1, MethodsKeepTheRest DEF Resume, FromThePause, Save
  <2> QED
    BY <1>2, <2>1, <2>2 DEF Resume, PlaceInv, TurnPhases
<1>3. CASE CancelExecution
  BY <1>3 DEF CancelExecution, process, PlaceInv
<1> QED
  BY <1>1, <1>2, <1>3 DEF UserStep

LEMMA EndingReplaces ==
  ASSUME StatusInv, PlaceInv, Ending
  PROVE  PlaceInv' /\ ((pc = "completed" /\ Crash) \/ disk'.workflow.phase # "Legacy")
<1>0. TypeInv
  BY DEF StatusInv
<1>1. pc' = "idle"
  BY EndingEnds DEF ProcessEnds
<1>2. CASE Fails \/ Asks
  <2>1. /\ pc \in {"agent", "commands", "completed"} /\ disk'.workflow = state
    BY <1>0, <1>2, FailsFails, AsksWaits
  <2>2. state.phase # "Legacy"
    BY <1>0, <2>1 DEF TypeInv, PhaseTaken
  <2> QED
    BY <1>1, <2>1, <2>2 DEF PlaceInv
<1>3. CASE Report
  BY <1>0, <1>1, <1>3, ReportCompletes DEF PlaceInv
<1>4. CASE ExecutorFailed
  BY <1>1, <1>4 DEF ExecutorFailed, PlaceInv
<1>5. CASE Crash
  BY <1>1, <1>5 DEF Crash, PlaceInv
<1> QED
  BY <1>2, <1>3, <1>4, <1>5 DEF Ending

LEMMA PlaceholderStep ==
  ASSUME StatusInv, LoopInv, PlaceInv, [Next]_vars
  PROVE  /\ PlaceInv'
         /\ pc' = "idle" => pc = "idle" \/ (pc = "completed" /\ Crash) \/ disk'.workflow.phase # "Legacy"
<1>0. TypeInv
  BY DEF StatusInv
<1>1. CASE UNCHANGED vars
  BY <1>1 DEF vars, durable, process, PlaceInv
<1>2. CASE UserStep
  BY <1>2, UserStepReplaces
<1>3. CASE Prepare \/ CommandsPass \/ TransientError \/ BeginReview
  BY <1>3 DEF Prepare, CommandsPass, TransientError, BeginReview, CallAgent, durable, PlaceInv
<1>4. CASE BeginPhase
  BY <1>4, BeginFields DEF PlaceInv
<1>5. CASE TurnCompletes
  BY <1>5 DEF TurnCompletes, PlaceInv
<1>6. CASE FinishUnderstand \/ FinishLocate \/ FinishAct
  BY <1>0, <1>6, FinishFields DEF PlaceInv
<1>7. CASE SkipReview \/ FinishReview
  BY <1>0, <1>7, SkippedOrReviewed DEF PlaceInv
<1>8. CASE Ending
  BY <1>8, EndingReplaces
<1> QED
  BY <1>1, <1>2, <1>3, <1>4, <1>5, <1>6, <1>7, <1>8, StepsByKind

(* Only a process that dies right after the save of application/           *)
(* execute.rs:386 leaves the placeholder behind in state.json.             *)
THEOREM OnlyADeathLeavesThePlaceholder == Spec => OnlyDeathLeavesPlaceholder
<1>1. Init => PlaceInv
  BY DEF Init, ProcessGone, PlaceInv
<1>2. ASSUME StatusInv, LoopInv, PlaceInv, [Next]_vars
      PROVE  [ (disk' # NoExecution /\ disk'.workflow = Legacy /\ pc' = "idle") =>
                 (pc = "idle" \/ (pc = "completed" /\ Crash)) ]_vars
  <2>1. Legacy.phase = "Legacy"
    BY DEF Legacy
  <2>2. pc' = "idle" =>
          pc = "idle" \/ (pc = "completed" /\ Crash) \/ disk'.workflow.phase # "Legacy"
    BY <1>2, PlaceholderStep
  <2> HIDE DEF Crash
  <2> QED
    BY <2>1, <2>2
<1>3. ASSUME StatusInv, LoopInv, PlaceInv, [Next]_vars
      PROVE  PlaceInv'
  BY <1>3, PlaceholderStep
<1> QED
  BY <1>1, <1>2, <1>3, LoopInvHolds, PTL DEF Spec, OnlyDeathLeavesPlaceholder

(* No gate is a dead end: a waiting execution offers a decision that       *)
(* application/resume.rs accepts.                                          *)
THEOREM WaitingIsAlwaysResumable == Spec => []WaitingIsResumable
<1>1. ASSUME StatusInv, LoopInv, disk # NoExecution, disk.status = "WaitingForHuman"
      PROVE  \E option \in Options : AcceptsDecision(option)
  <2>1. disk \in Executions /\ disk.pending \in Gates
    BY <1>1 DEF StatusInv, TypeInv, TypeOK, Consistent, Executions
  <2>2. /\ disk.workflow.phase \in TurnPhases
        /\ disk.pending.options \in (SUBSET Options) \ {{}}
    BY <1>1, <2>1 DEF LoopInv, PauseInv, Paused, Gates
  <2>3. disk.workflow # Legacy /\ disk.pending # NoGate
    BY <2>1, <2>2, ExecutionAssumption DEF Legacy, TurnPhases
  <2> QED
    BY <1>1, <2>2, <2>3 DEF AcceptsDecision
<1>2. StatusInv /\ LoopInv => WaitingIsResumable
  BY <1>1 DEF WaitingIsResumable
<1> QED
  BY <1>2, LoopInvHolds, PTL

(* The nth decision in the log always answers the nth gate.                *)
THEOREM NthDecisionAlwaysAnswersNthGate == Spec => []NthDecisionAnswersNthGate
<1>1. StatusInv => NthDecisionAnswersNthGate
  BY PhaseLoopAssumption
     DEF StatusInv, TypeInv, TypeOK, NthDecisionAnswersNthGate, Known, Underway, Consistent
<1> QED
  BY <1>1, StatusInvHolds, PTL

(* Nothing is completed without the validation its request asks for.       *)
THEOREM CompletedIsAlwaysValidated == Spec => []CompletedIsValidated
<1>1. LoopInv => CompletedIsValidated
  BY DEF LoopInv, ValidInv
<1> QED
  BY <1>1, LoopInvHolds, PTL

(* ACT and the review never continue a conversation of a read-only phase.  *)
THEOREM WritingTurnsAlwaysHaveTheirOwnSession == Spec => []WritingTurnsHaveTheirOwnSession
<1>1. LoopInv => WritingTurnsHaveTheirOwnSession
  BY DEF LoopInv, SessionInv, WritingTurnsHaveTheirOwnSession, Writing
<1> QED
  BY <1>1, LoopInvHolds, PTL

(* A run in which only the ACT turn wrote reports what differs from the    *)
(* tree it found.                                                          *)
THEOREM ReportIsAlwaysWhatChanged == Spec => []ReportIsWhatChanged
<1>1. LoopInv => ReportIsWhatChanged
  BY DEF LoopInv, TreeInv, Quiet, Diff, Writing, AtReport, ReportIsWhatChanged
<1> QED
  BY <1>1, LoopInvHolds, PTL
=============================================================================

------------------------------- MODULE PhaseLoop -------------------------------
(***************************************************************************)
(* One execution carried from `run` through pauses and `resume`s to its    *)
(* end (application/execute.rs, application/resume.rs), by one ksforge     *)
(* process at a time.  A process works on a copy of the execution in       *)
(* memory (`mem`) and on a working directory; `disk` is state.json, the    *)
(* only thing a later process starts from.                                 *)
(*                                                                         *)
(* An action is the code between two points where something durable has    *)
(* changed or the process has handed control to the agent or to a          *)
(* validation command, so that a process can die at each of them.          *)
(*                                                                         *)
(* An operator marked "mutant" is a plausible bug in the operator after    *)
(* it.  Nothing uses it: replacing the one by the other shows which        *)
(* property the code's version keeps.                                      *)
(***************************************************************************)
EXTENDS Execution

LOCAL INSTANCE SequencesExt

CONSTANTS
  InitialTree,  \* the workspace as the run finds it
  Requests,     \* the requests to consider
  NoExecution,  \* no process is running, or no state.json exists
  MaxAttempts,  \* MAX_ATTEMPTS of execute_with_retry
  MaxGates,     \* bound: gates raised in one execution
  MaxCancels,   \* bound: `ksforge cancel` calls
  DryRuns,      \* values --dry-run may have
  MayCrash      \* whether a process may die or meet an I/O error

RequestRecords ==
  [capability : Capabilities, commands : BOOLEAN, review : BOOLEAN]

ASSUME PhaseLoopAssumption ==
  /\ InitialTree \in Trees
  /\ Requests \subseteq RequestRecords
  /\ NoExecution \notin Executions
  /\ MaxAttempts \in Nat \ {0}
  /\ MaxGates \in Nat
  /\ MaxCancels \in Nat
  /\ DryRuns \subseteq BOOLEAN
  /\ MayCrash \in BOOLEAN

VARIABLES
  request,    \* request.json and the capability: fixed for the execution
  disk,       \* state.json
  workspace,  \* the user's workspace
  (* The process, if one is running. *)
  pc,         \* where it is
  mem,        \* its Execution
  state,      \* the WorkflowState the loop has taken out of mem
  turn,       \* the AgentRequest in flight
  attempt,    \* how often it has been tried
  session,    \* session_id
  suffix,     \* decision_suffix
  dryRun,     \* --dry-run of this invocation
  isolated,   \* the temporary copy a dry run works in
  before,     \* the snapshot taken before the turn
  (* History, for the properties only. *)
  pausedIn    \* the phases in which a gate has been raised

durable == <<request, disk, workspace>>
process == <<pc, mem, state, turn, attempt, session, suffix, dryRun, isolated, before>>
vars    == <<durable, process, pausedIn>>

PCs == {"idle", "prepare", "loop", "commands", "review", "agent", "completed"}

Turns == [permission : Permissions, session : Sessions,
          decision : Options \cup {NoOption}]
NoTurn == [permission |-> "ReadOnly", session |-> {}, decision |-> NoOption]

TypeOK ==
  /\ request \in Requests
  /\ disk \in Executions \cup {NoExecution}
  /\ workspace \in Trees
  /\ pc \in PCs
  /\ mem \in Executions \cup {NoExecution}
  /\ state \in WorkflowStates
  /\ turn \in Turns
  /\ attempt \in 1..MaxAttempts
  /\ session \in Sessions
  /\ suffix \in Options \cup {NoOption}
  /\ dryRun \in BOOLEAN
  /\ isolated \in Trees
  /\ before \in Trees
  /\ pausedIn \subseteq Phases

\* The process's variables while no process runs.
ProcessGone ==
  /\ pc = "idle"
  /\ mem = NoExecution
  /\ state = Legacy
  /\ turn = NoTurn
  /\ attempt = 1
  /\ session = {}
  /\ suffix = NoOption
  /\ dryRun = FALSE
  /\ isolated = InitialTree
  /\ before = InitialTree

Init ==
  /\ request \in Requests
  /\ disk = NoExecution
  /\ workspace = InitialTree
  /\ pausedIn = {}
  /\ ProcessGone

-----------------------------------------------------------------------------
(* The working directory: the workspace, or its isolated copy. *)

WorkingTree == IF dryRun THEN isolated ELSE workspace

TreeBecomes(tree) ==
  /\ workspace' = IF dryRun THEN workspace ELSE tree
  /\ isolated'  = IF dryRun THEN tree ELSE isolated

\* ExecutionStore::save: state.json becomes the whole of the copy in memory.
Save(execution) == disk' = execution

\* The process ends; a dry run's temporary directory goes with it.
ProcessEnds ==
  /\ pc' = "idle"
  /\ mem' = NoExecution
  /\ state' = Legacy
  /\ turn' = NoTurn
  /\ attempt' = 1
  /\ session' = {}
  /\ suffix' = NoOption
  /\ dryRun' = FALSE
  /\ isolated' = InitialTree
  /\ before' = InitialTree

\* run_phase_loop saves the stopped execution and returns.
StopWith(execution) ==
  /\ Save(execution)
  /\ ProcessEnds

-----------------------------------------------------------------------------
(* A run: Execution::start, request.json, state.json. *)

\* ExecutionId::new: the id of a run names no execution yet.
FreshId == disk = NoExecution

Run(dry) ==
  /\ pc = "idle"
  /\ FreshId
  /\ mem' = StartExecution
  /\ Save(mem')
  /\ pc' = "prepare"
  /\ dryRun' = dry
  /\ UNCHANGED <<request, workspace, state, turn, attempt, session, suffix,
                 isolated, before, pausedIn>>

\* What resume demands of the execution it loads, in the order of the code.
AcceptsDecision(option) ==
  /\ disk # NoExecution
  /\ disk.status = "WaitingForHuman"
  /\ disk.workflow # Legacy
  /\ disk.pending # NoGate
  /\ option \in disk.pending.options

FromTheStart(option) ==        \* mutant
  [ApplyDecision(disk, option) EXCEPT !.workflow = StartWorkflow]
FromThePause(option) == ApplyDecision(disk, option)

\* The decision is applied and saved before anything else happens.
Resume(option, dry) ==
  /\ pc = "idle"
  /\ AcceptsDecision(option)
  /\ mem' = FromThePause(option)
  /\ Save(mem')
  /\ pc' = "prepare"
  /\ dryRun' = dry
  /\ suffix' = option
  /\ session' = disk.session
  /\ UNCHANGED <<request, workspace, state, turn, attempt, isolated, before, pausedIn>>

\* The change request is archived and, for a dry run, the workspace copied.
Prepare ==
  /\ pc = "prepare"
  /\ isolated' = IF dryRun THEN workspace ELSE isolated
  /\ pc' = "loop"
  /\ UNCHANGED <<durable, mem, state, turn, attempt, session, suffix, dryRun,
                 before, pausedIn>>

\* `ksforge cancel` between two processes of the execution.
CancelExecution ==
  /\ pc = "idle"
  /\ disk # NoExecution
  /\ Len(SelectSeq(disk.messages, LAMBDA m : m.type = "Cancelled")) < MaxCancels
  /\ Save(Cancel(disk))
  /\ UNCHANGED <<request, workspace, process, pausedIn>>

-----------------------------------------------------------------------------
(* The phase loop up to the agent call. *)

\* mem::take: the loop holds the workflow, the execution a Legacy placeholder.
Take(execution) ==
  /\ state' = mem.workflow
  /\ mem' = [execution EXCEPT !.workflow = Legacy]

\* run_llm_phase up to the call of the executor.
CallAgent(permission, sessionId, decision) ==
  /\ turn' = [permission |-> permission, session |-> sessionId, decision |-> decision]
  /\ session' = sessionId
  /\ attempt' = 1
  /\ pc' = "agent"

\* UNDERSTAND and LOCATE are read-only for every capability.
BeginReadOnlyTurn ==
  /\ pc = "loop"
  /\ mem.workflow.phase \in {"Understand", "Locate"}
  /\ Take(Record(mem, Event("AgentStarted")))
  /\ CallAgent("ReadOnly", session, suffix)
  /\ suffix' = NoOption
  /\ UNCHANGED <<durable, dryRun, isolated, before, pausedIn>>

\* ACT leaves the read-only session behind unless a decision brought it here.
KeptSession == session         \* mutant
ActSession  == IF suffix = NoOption THEN {} ELSE session

BeginAct ==
  /\ pc = "loop"
  /\ mem.workflow.phase = "Act"
  /\ Take(Record(mem, Event("AgentStarted")))
  /\ CallAgent(ActPermission(request.capability),
               ActSession, suffix)
  /\ suffix' = NoOption
  /\ before' = WorkingTree
  /\ UNCHANGED <<durable, dryRun, isolated, pausedIn>>

BeginValidate ==
  /\ pc = "loop"
  /\ mem.workflow.phase = "Validate"
  /\ Take(IF request.commands \/ request.review
            THEN Record(mem, Event("ValidationStarted"))
            ELSE mem)
  /\ pc' = IF request.commands THEN "commands" ELSE "review"
  /\ UNCHANGED <<durable, turn, attempt, session, suffix, dryRun, isolated,
                 before, pausedIn>>

-----------------------------------------------------------------------------
(* VALIDATE, layer 1: the user's commands, which may write what they like. *)

CommandsPass ==
  /\ pc = "commands"
  /\ \E tree \in Trees : TreeBecomes(tree)
  /\ pc' = "review"
  /\ UNCHANGED <<request, disk, mem, state, turn, attempt, session, suffix,
                 dryRun, before, pausedIn>>

\* A rejected validation: the execution keeps its phase and fails.
FailedValidation ==
  Fail(Record([mem EXCEPT !.workflow = state], Event("ValidationFailed")))

CommandFails ==
  /\ pc = "commands"
  /\ \E tree \in Trees :
       workspace' = IF dryRun THEN workspace ELSE tree
  /\ StopWith(FailedValidation)
  /\ UNCHANGED <<request, pausedIn>>

(* VALIDATE, layer 2: the agent's review.  It is given the session as it   *)
(* stands and no decision.                                                 *)
NoReview     == FALSE          \* mutant
AgentReviews == request.review

BeginReview ==
  /\ pc = "review"
  /\ AgentReviews
  /\ before' = WorkingTree
  /\ mem' = Record(mem, Event("AgentStarted"))
  /\ CallAgent("ExecuteOnly", session, NoOption)
  /\ UNCHANGED <<durable, state, suffix, dryRun, isolated, pausedIn>>

Validated(reviewed) ==
  LET passed == IF request.commands \/ reviewed
                  THEN Record(mem, Event("ValidationPassed"))
                  ELSE mem
  IN Advance(passed, CompleteValidate(state, [commands |-> request.commands,
                                              review   |-> reviewed]))

SkipReview ==
  /\ pc = "review"
  /\ ~AgentReviews
  /\ mem' = Validated(FALSE)
  /\ Save(mem')
  /\ pc' = "loop"
  /\ UNCHANGED <<request, workspace, state, turn, attempt, session, suffix,
                 dryRun, isolated, before, pausedIn>>

-----------------------------------------------------------------------------
(* The agent call: execute_with_retry and what run_llm_phase makes of it.  *)
(* Whatever the call returns, the agent may have edited before it.         *)

\* A transient error: try again, up to MaxAttempts times in all.
OneTooMany  == attempt <= MaxAttempts   \* mutant
AttemptLeft == attempt < MaxAttempts

Uncounted   == attempt         \* mutant
NextAttempt == attempt + 1

TransientError ==
  /\ pc = "agent"
  /\ AttemptLeft
  /\ attempt' = NextAttempt
  /\ \E tree \in TreesAfterTurn(turn.permission, WorkingTree) : TreeBecomes(tree)
  /\ UNCHANGED <<request, disk, pc, mem, state, turn, session, suffix, dryRun,
                 before, pausedIn>>

\* Any other executor error, the last transient one, or a reply that does not
\* parse: the error leaves run_phase_loop by `?`, past every save.
ExecutorFailed ==
  /\ pc = "agent"
  /\ \E tree \in TreesAfterTurn(turn.permission, WorkingTree) :
       workspace' = IF dryRun THEN workspace ELSE tree
  /\ ProcessEnds
  /\ UNCHANGED <<request, disk, pausedIn>>

\* The session after a reply, which may or may not report its id.
SessionsAfterReply == {session, turn.session \cup {state.phase}}

\* status: failed, a question without options, or a question from a
\* capability that has none to ask.
TurnFails ==
  /\ pc = "agent"
  /\ \E tree \in TreesAfterTurn(turn.permission, WorkingTree) :
       workspace' = IF dryRun THEN workspace ELSE tree
  /\ \E s \in SessionsAfterReply :
       StopWith(Fail([mem EXCEPT !.session = s, !.workflow = state]))
  /\ UNCHANGED <<request, pausedIn>>

\* status: waiting_for_human, with options, from a capability that may ask.
AnyGate(options)    == SupportsHuman(request.capability)   \* mutant
ProperGate(options) == SupportsHuman(request.capability) /\ options # {}

TurnAsks(options) ==
  /\ pc = "agent"
  /\ ProperGate(options)
  /\ Len(mem.gates) < MaxGates
  /\ \E tree \in TreesAfterTurn(turn.permission, WorkingTree) :
       workspace' = IF dryRun THEN workspace ELSE tree
  /\ \E s \in SessionsAfterReply :
       StopWith(Ask([mem EXCEPT !.session = s, !.workflow = state],
                    [id |-> Len(mem.gates) + 1, options |-> options]))
  /\ pausedIn' = pausedIn \cup {state.phase}
  /\ UNCHANGED request

\* status: completed.  What is saved here still has the Legacy placeholder.
TurnCompletes ==
  /\ pc = "agent"
  /\ \E tree \in TreesAfterTurn(turn.permission, WorkingTree) : TreeBecomes(tree)
  /\ session' \in SessionsAfterReply
  /\ mem' = [mem EXCEPT !.session = session']
  /\ Save(mem')
  /\ pc' = "completed"
  /\ UNCHANGED <<request, state, turn, attempt, suffix, dryRun, before, pausedIn>>

-----------------------------------------------------------------------------
(* The phase loop after a completed turn. *)

Unsaved(execution) == mem' = execution /\ UNCHANGED disk   \* mutant
Saved(execution)   == mem' = execution /\ Save(execution)

AdvanceTo(execution) ==
  /\ Saved(execution)
  /\ pc' = "loop"
  /\ UNCHANGED <<request, workspace, state, turn, attempt, session, suffix,
                 dryRun, isolated, before, pausedIn>>

FinishUnderstand ==
  /\ pc = "completed"
  /\ state.phase = "Understand"
  /\ AdvanceTo(Advance(mem, CompleteUnderstand(state)))

FinishLocate ==
  /\ pc = "completed"
  /\ state.phase = "Locate"
  /\ AdvanceTo(Advance(mem, CompleteLocate(state)))

ChangedInTurn == ChangedFiles(before, WorkingTree)

OutOfScope ==
  /\ TestsOnly(request.capability)
  /\ ScopeViolations(ChangedInTurn, WorkingTree) # {}

FinishAct ==
  /\ pc = "completed"
  /\ state.phase = "Act"
  /\ ~OutOfScope
  /\ AdvanceTo(Advance(mem, CompleteAct(state,
       [kind    |-> DeriveKind(request.capability, ChangedInTurn = {}),
        changed |-> ChangedInTurn])))

RejectAct ==
  /\ pc = "completed"
  /\ state.phase = "Act"
  /\ OutOfScope
  /\ StopWith(Fail([mem EXCEPT !.workflow = state]))
  /\ UNCHANGED <<request, workspace, pausedIn>>

ReviewTrusted == FALSE         \* mutant
ReviewTouched == ChangedInTurn # {}

FinishReview ==
  /\ pc = "completed"
  /\ state.phase = "Validate"
  /\ ~ReviewTouched
  /\ AdvanceTo(Validated(TRUE))

RejectReview ==
  /\ pc = "completed"
  /\ state.phase = "Validate"
  /\ ReviewTouched
  /\ StopWith(FailedValidation)
  /\ UNCHANGED <<request, workspace, pausedIn>>

\* REPORT: the result is assembled from the workflow, and the process ends.
Report ==
  /\ pc = "loop"
  /\ mem.workflow.phase = "Report"
  /\ StopWith(Complete(mem, [success |-> TRUE,
                             changed |-> mem.workflow.action.changed]))
  /\ UNCHANGED <<request, workspace, pausedIn>>

-----------------------------------------------------------------------------
(* The process dies, or an I/O error (archive, isolate, hash_tree, save,   *)
(* a validation command that cannot be spawned) leaves by `?`.  An agent   *)
(* or a command at work may have edited by then.                           *)
Crash ==
  /\ MayCrash
  /\ pc # "idle"
  /\ \/ UNCHANGED workspace
     \/ /\ pc \in {"agent", "commands"}
        /\ ~dryRun
        /\ workspace' \in
             IF pc = "commands" THEN Trees
             ELSE TreesAfterTurn(turn.permission, workspace)
  /\ ProcessEnds
  /\ UNCHANGED <<request, disk, pausedIn>>

BeginPhase == BeginReadOnlyTurn \/ BeginAct \/ BeginValidate

RunCommands == CommandsPass \/ CommandFails

AgentTurn ==
  \/ TransientError
  \/ ExecutorFailed
  \/ TurnFails
  \/ \E options \in SUBSET Options : TurnAsks(options)
  \/ TurnCompletes

FinishPhase ==
  FinishUnderstand \/ FinishLocate \/ FinishAct \/ RejectAct
  \/ BeginReview \/ SkipReview \/ FinishReview \/ RejectReview \/ Report

\* The steps a running process takes by itself.
ProcessStep == Prepare \/ BeginPhase \/ RunCommands \/ AgentTurn \/ FinishPhase

\* The steps a user or a CI job takes by starting a process.
UserStep ==
  \/ \E dry \in DryRuns : Run(dry)
  \/ \E option \in Options, dry \in DryRuns : Resume(option, dry)
  \/ CancelExecution

Next == UserStep \/ ProcessStep \/ Crash

Spec == Init /\ [][Next]_vars

(***************************************************************************)
(* A started process goes on: every agent call and every command returns   *)
(* (claude exits or fails, nothing in the loop waits for another process). *)
(* Nobody is obliged to resume or cancel, and nothing has to crash.        *)
(***************************************************************************)
FairSpec == Spec /\ WF_vars(ProcessStep)

-----------------------------------------------------------------------------
(* Invariants. *)

Known == {disk, mem} \ {NoExecution}

(* The status of an execution, on disk and in memory, is the one its event *)
(* log implies: every method that sets `status` records the event for it   *)
(* (domain/execution.rs; docs/06 "status is just the state that log        *)
(* implies").                                                              *)
LogImpliesStatus == \A e \in Known : StatusOf(e.messages) = e.status

(* pending_question is set exactly while the execution waits, and is then  *)
(* the last of `gates`: no failure, completion or cancellation leaves a    *)
(* gate open behind it (domain/execution.rs).                              *)
OpenGateIsLastGate ==
  \A e \in Known :
    /\ e.status = "WaitingForHuman" <=> e.pending # NoGate
    /\ e.pending # NoGate => e.gates # <<>> /\ e.pending = e.gates[Len(e.gates)]

(* While a process runs, its copy and state.json differ in progress only:  *)
(* both are running, with no gate open, and have the same gates and result *)
(* behind them.  So a process that dies at any point leaves an execution   *)
(* that no decision and no verdict of the lost part hangs on.              *)
ProcessAgreesWithDisk ==
  pc # "idle" =>
    /\ disk # NoExecution /\ mem # NoExecution
    /\ mem.status = "Running" /\ disk.status = "Running"
    /\ mem.pending = NoGate /\ disk.pending = NoGate
    /\ mem.gates = disk.gates
    /\ mem.result = disk.result

(* A waiting execution can always be resumed: some option passes every     *)
(* check of application/resume.rs, so no gate is a dead end.               *)
WaitingIsResumable ==
  (disk # NoExecution /\ disk.status = "WaitingForHuman") =>
    \E option \in Options : AcceptsDecision(option)

(* The nth decision in the log chose an option of the nth gate, and every  *)
(* gate but the open one, or one closed by a cancellation, was decided:    *)
(* github/report.rs pairs gates with decisions by position.                *)
NthDecisionAnswersNthGate ==
  \A e \in Known : DecisionsMatchGates(e)

(* At REPORT, what the result will say changed is what differs from the    *)
(* tree the run found, whatever was retried in between and whichever       *)
(* earlier phase paused, provided ACT and VALIDATE did not pause and the   *)
(* user's commands did not write.                                          *)
AtReport == pc = "loop" /\ mem.workflow.phase = "Report"

ReportIsWhatChanged ==
  ( /\ AtReport
    /\ ~request.commands
    /\ pausedIn \cap {"Act", "Validate"} = {} ) =>
  mem.workflow.action.changed = ChangedFiles(InitialTree, WorkingTree)

(* An execution is completed only after every validation layer that was    *)
(* asked for has run and passed, and nothing ran between the verdict and   *)
(* the completion.                                                         *)
CompletedIsValidated ==
  (disk # NoExecution /\ disk.status = "Completed") =>
    /\ disk.workflow.phase = "Report"
    /\ disk.workflow.validation = [commands |-> request.commands,
                                   review   |-> request.review]
    /\ (request.commands \/ request.review) =>
         disk.messages[Len(disk.messages) - 1].type = "ValidationPassed"

(* A turn that may write, ACT or the VALIDATE review, never continues the  *)
(* conversation of a read-only phase, through any sequence of pauses and   *)
(* resumes (the comment on session_id in application/execute.rs).          *)
WritingTurnsHaveTheirOwnSession ==
  (pc = "agent" /\ state.phase \in {"Act", "Validate"}) =>
    turn.session \subseteq {"Act", "Validate"}

-----------------------------------------------------------------------------
(* What a step may do. *)

CurrentPhase ==
  CASE pc \in {"agent", "commands", "review", "completed"} -> state.phase
    [] pc \in {"prepare", "loop"} -> mem.workflow.phase
    [] pc = "idle" /\ disk # NoExecution -> disk.workflow.phase
    [] OTHER -> "Understand"

SamePhaseOrNext ==
  {<<p, p>> : p \in Phases} \cup
  {<<"Understand", "Locate">>, <<"Locate", "Act">>,
   <<"Act", "Validate">>, <<"Validate", "Report">>}

(* The phases are taken in order, one at a time, and none is taken up      *)
(* again once left, pauses and resumes included.  Only a process that dies *)
(* can lose its phase, between a turn's save and the advance.              *)
PhasesInOrder ==
  [][ \/ <<CurrentPhase, CurrentPhase'>> \in SamePhaseOrNext
      \/ CurrentPhase = "Legacy"
      \/ pc # "idle" /\ pc' = "idle" /\ disk' = disk ]_vars

(* The Legacy placeholder that a turn's save puts in state.json            *)
(* (application/execute.rs:386) does not outlive its process, by whichever *)
(* exit of the loop that goes, unless the process dies right after that    *)
(* save: no decision could resume the execution then.  An agent call that  *)
(* fails, or a death later in the loop, finds a phase on disk.             *)
OnlyDeathLeavesPlaceholder ==
  [][ (disk' # NoExecution /\ disk'.workflow = Legacy /\ pc' = "idle") =>
        (pc = "idle" \/ (pc = "completed" /\ Crash)) ]_vars

(* state.json follows the life cycle of docs/06.                           *)
Lifecycle ==
  INSTANCE ExecutionLifecycle
    WITH status  <- IF disk = NoExecution THEN "Absent" ELSE disk.status,
         open    <- IF disk = NoExecution \/ disk.pending = NoGate
                      THEN 0 ELSE disk.pending.id,
         asked   <- IF disk = NoExecution THEN 0 ELSE Len(disk.gates),
         verdict <- IF disk = NoExecution \/ disk.result = NoResult THEN "none"
                    ELSE IF disk.result.success THEN "success" ELSE "failure"

FollowsLifecycle == Lifecycle!Spec

-----------------------------------------------------------------------------
(* What must happen. *)

(* Every process ends, however often the agent errs: the retries are       *)
(* bounded and each pass of the loop leaves a phase behind.                *)
EveryProcessEnds == pc # "idle" ~> pc = "idle"

-----------------------------------------------------------------------------
(* What the repository says and the code does not do: refuted by a run.    *)

(* application/test.rs: a `test` run that touches a file that is not a     *)
(* test fails.                                                             *)
TestRunKeepsItsScope ==
  (AtReport /\ TestsOnly(request.capability)) =>
    ScopeViolations(ChangedFiles(InitialTree, WorkingTree), WorkingTree) = {}
=============================================================================

----------------------------- MODULE ImagePipeline -----------------------------
(***************************************************************************)
(* examples/ksimg: a plan, which is a sequence of operation names, is      *)
(* wired by the builder (workflow/builder.rs) into a workflow, judged by   *)
(* the validator (workflow/validator.rs), and run step by step by the      *)
(* engine (runtime/engine.rs), which tells a state machine of every event  *)
(* (runtime/state_machine.rs) and asks a recovery agent about a failure    *)
(* (agents/recovery.rs).  One engine runs any number of workflows, also    *)
(* after it is shut down: run does not look at the state.                  *)
(*                                                                         *)
(* A technique succeeds or fails as it likes, but never on inputs of the   *)
(* wrong types.  The recovery agent is the one of the repository or, as    *)
(* RecoveryAgent is a trait, one that proposes anything.                   *)
(*                                                                         *)
(* An operator marked "mutant" is a plausible bug in the one after it.     *)
(***************************************************************************)
EXTENDS Naturals, Sequences

CONSTANTS
  Operations,  \* the names a plan may use
  Techniques,  \*   those that the registry has
  Types,       \* the data types
  Inputs,      \* the types each technique takes
  OutputOf,    \*   and the first type it gives
  Plans,       \* the plans the planning agent may come up with
  Limits,      \* the Constraints an intent may come with: the operations
               \*   denied, and the most steps there may be or NoLimit
  NoLimit,
  Input,       \* ValueRef::Input
  MaxRetries,  \* MockRecoveryAgent::max_retries
  MaxAttempts, \* bound: retries in a row by an agent that proposes anything
  MaxRuns      \* bound: workflows on one engine

ASSUME ImagePipelineAssumption ==
  /\ Techniques \subseteq Operations
  /\ Inputs \in [Techniques -> Seq(Types)]
  /\ OutputOf \in [Techniques -> Types]
  /\ Plans \subseteq Seq(Operations)
  /\ Limits \subseteq [denied : SUBSET Operations, steps : Nat \cup {NoLimit}]
  /\ NoLimit \notin Nat
  /\ Input \notin Nat \X Operations
  /\ MaxRetries \in Nat /\ MaxAttempts \in Nat /\ MaxRuns \in Nat

MachineStates ==
  {"Starting", "Ready", "Processing", "Recovering", "Degraded", "Stopping", "Stopped"}

StepIds == Nat \X Operations
Refs    == StepIds \cup {Input}
Values  == [ref : Refs, type : Types]
Steps   == [id : StepIds, operation : Techniques, inputs : Seq(Refs), output : Refs]
Errors  == {"UnknownOperation", "MissingInputType", "TechniqueDenied", "TooManySteps"}

NoOutcome == [is |-> "none"]

VARIABLES
  agent,      \* "mock" or "any": the recovery agent
  stage,      \* "idle", "building", "built", "running", "executing"
  limits,     \* the constraints of the intent,
  plan,       \*   the logical workflow made for it,
  at,         \*   and the position of its next step
  pool,       \* the builder's values so far,
  steps,      \*   its steps
  errors,     \*   and its errors
  machine,    \* the state machine: its state and its attempt
  index,      \* the engine's next step,
  values,     \*   the values it has,
  overrides,  \*   the techniques it has swapped in
  outcome,    \*   and what the run has come to
  runs        \* workflows begun

building == <<limits, plan, at, pool, steps, errors>>
running  == <<machine, index, values, overrides, outcome>>
vars == <<agent, stage, building, running, runs>>

-------------------------------------------------------------------------------
(* StateMachine::handle                                                    *)

Becomes(m, state)  == [m EXCEPT !.state = state]
Afresh(state)      == [state |-> state, attempt |-> 0]

Uncounted(m) == Becomes(m, "Processing")     \* mutant
Retried(m)   == [state |-> "Processing", attempt |-> m.attempt + 1]

\* An event that does not apply to the state changes nothing: in "Stopped"
\* none does but the one that stops it again.
Handle(m, event) ==
  CASE m.state = "Starting" /\ event = "Start"        -> Becomes(m, "Ready")
    [] m.state \in {"Ready", "Degraded"} /\ event = "RunStep"
                                                      -> Becomes(m, "Processing")
    [] m.state = "Processing" /\ event = "StepSucceeded" -> Afresh("Ready")
    [] m.state = "Processing" /\ event = "StepFailed" -> Becomes(m, "Recovering")
    [] m.state = "Recovering" /\ event = "RetryRequested" -> Retried(m)
    [] m.state = "Recovering" /\ event = "AlternativeTechniqueRequested"
                                                      -> Afresh("Processing")
    [] m.state = "Recovering" /\ event = "ReplanCompleted" -> Afresh("Ready")
    [] m.state = "Recovering" /\ event = "ContinueDegradedRequested"
                                                      -> Becomes(m, "Degraded")
    [] event = "ShutdownRequested"                    -> Becomes(m, "Stopping")
    [] m.state = "Stopping" /\ event = "ShutdownCompleted" -> Becomes(m, "Stopped")
    [] OTHER                                          -> m

-------------------------------------------------------------------------------
Init ==
  /\ agent \in {"mock", "any"}
  /\ stage = "idle"
  /\ limits \in Limits /\ plan = <<>> /\ at = 1 /\ pool = <<>> /\ steps = <<>> /\ errors = {}
  /\ machine = Handle(Afresh("Starting"), "Start")
  /\ index = 1 /\ values = <<>> /\ overrides = <<>> /\ outcome = NoOutcome
  /\ runs = 0

-------------------------------------------------------------------------------
(* The builder                                                             *)

OverLimit(length) == limits.steps # NoLimit /\ length > limits.steps

\* A goal is read and planned for; its input is of the given type.
Begin(p, type) ==
  /\ stage = "idle" /\ runs < MaxRuns
  /\ stage' = "building"
  /\ limits' \in Limits
  /\ plan' = p /\ at' = 1
  /\ pool' = <<[ref |-> Input, type |-> type]>>
  /\ steps' = <<>>
  /\ errors' = IF OverLimit(Len(p))' THEN {"TooManySteps"} ELSE {}
  /\ runs' = runs + 1
  /\ UNCHANGED <<agent, running>>

AtStep(operation) == stage = "building" /\ at <= Len(plan) /\ plan[at] = operation

\* The step is left out, and the build fails for it.
LeaveOut(error) ==
  /\ errors' = errors \cup {error}
  /\ at' = at + 1
  /\ UNCHANGED <<agent, stage, limits, plan, pool, steps, running, runs>>

LeaveOutDenied(operation) ==
  AtStep(operation) /\ operation \in limits.denied /\ LeaveOut("TechniqueDenied")

LeaveOutUnknown(operation) ==
  /\ AtStep(operation) /\ operation \notin limits.denied
  /\ operation \notin Techniques
  /\ LeaveOut("UnknownOperation")

InPool(type) == \E i \in DOMAIN pool : pool[i].type = type

LeaveOutUnfed(operation) ==
  /\ AtStep(operation) /\ operation \notin limits.denied
  /\ operation \in Techniques
  /\ \E k \in DOMAIN Inputs[operation] : ~InPool(Inputs[operation][k])
  /\ LeaveOut("MissingInputType")

\* The value made last of those of the type.
IsLatest(i, type) ==
  /\ pool[i].type = type
  /\ \A j \in DOMAIN pool : pool[j].type = type => j <= i

NameOnly(position, operation) == <<0, operation>>     \* mutant
IdOf(position, operation)     == <<position, operation>>

\* Each input is wired to the latest value of its type.
Wire(operation) ==
  /\ AtStep(operation) /\ operation \notin limits.denied
  /\ operation \in Techniques
  /\ \E chosen \in [DOMAIN Inputs[operation] -> DOMAIN pool] :
       /\ \A k \in DOMAIN chosen : IsLatest(chosen[k], Inputs[operation][k])
       /\ steps' = Append(steps, [id        |-> IdOf(at, operation),
                                  operation |-> operation,
                                  inputs    |-> [k \in DOMAIN Inputs[operation] |->
                                                   pool[chosen[k]].ref],
                                  output    |-> IdOf(at, operation)])
  /\ pool' = Append(pool, [ref |-> IdOf(at, operation), type |-> OutputOf[operation]])
  /\ at' = at + 1
  /\ UNCHANGED <<agent, stage, limits, plan, errors, running, runs>>

BuildFails ==
  /\ stage = "building" /\ at > Len(plan) /\ errors # {}
  /\ stage' = "idle"
  /\ UNCHANGED <<agent, building, running, runs>>

Build ==
  /\ stage = "building" /\ at > Len(plan) /\ errors = {}
  /\ stage' = "built"
  /\ UNCHANGED <<agent, building, running, runs>>

\* The workflow that Build returns.
Built == [input |-> pool[1].type, steps |-> steps, output |-> pool[Len(pool)]]

-------------------------------------------------------------------------------
(* The validator                                                           *)

WithinConstraints(w) ==
  /\ ~OverLimit(Len(w.steps))
  /\ \A s \in DOMAIN w.steps : w.steps[s].operation \in Techniques \ limits.denied

Ids(w) == {w.steps[s].id : s \in DOMAIN w.steps}

\* detect_cycle finds none: the steps can be ranked after what they refer to.
Acyclic(w) ==
  \E rank \in [Ids(w) -> 1..Len(w.steps)] :
    \A s \in DOMAIN w.steps : \A k \in DOMAIN w.steps[s].inputs :
      w.steps[s].inputs[k] \in Ids(w) => rank[w.steps[s].inputs[k]] < rank[w.steps[s].id]

\* What is there after the first n steps: the input, and what each gives.
Available(w, n) ==
  [j \in 1..n + 1 |->
     IF j = 1 THEN [ref |-> Input, type |-> w.input]
     ELSE [ref |-> w.steps[j - 1].output, type |-> OutputOf[w.steps[j - 1].operation]]]

\* The first value of that reference has the type.
Resolves(available, ref, type) ==
  \E j \in DOMAIN available :
    /\ available[j] = [ref |-> ref, type |-> type]
    /\ \A i \in 1..j - 1 : available[i].ref # ref

Fed(w, s) ==
  LET step == w.steps[s]
  IN  /\ Len(step.inputs) = Len(Inputs[step.operation])
      /\ \A k \in DOMAIN step.inputs :
           Resolves(Available(w, s - 1), step.inputs[k], Inputs[step.operation][k])
      /\ step.output = step.id

\* WorkflowValidator::validate returns Ok.
Valid(w) ==
  /\ WithinConstraints(w)
  /\ Acyclic(w)
  /\ \A s \in DOMAIN w.steps : Fed(w, s)
  /\ Resolves(Available(w, Len(w.steps)), w.output.ref, w.output.type)

-------------------------------------------------------------------------------
(* The engine                                                              *)

\* Only a workflow that validates is run.
Run ==
  /\ stage = "built" /\ Valid(Built)
  /\ stage' = "running"
  /\ index' = 1
  /\ values' = <<pool[1]>>
  /\ overrides' = [s \in DOMAIN steps |-> steps[s].operation]
  /\ outcome' = NoOutcome
  /\ UNCHANGED <<agent, building, machine, runs>>

\* The loop takes up a step.  An input that is not there is a panic (the
\* expect of run), after which nothing happens.
BeginStep ==
  /\ stage = "running" /\ index <= Len(steps)
  /\ \A k \in DOMAIN steps[index].inputs :
       \E v \in DOMAIN values : values[v].ref = steps[index].inputs[k]
  /\ machine' = Handle(machine, "RunStep")
  /\ stage' = "executing"
  /\ UNCHANGED <<agent, building, index, values, overrides, outcome, runs>>

\* The values a step is given.
Given(s) == {v \in DOMAIN values : \E k \in DOMAIN steps[s].inputs :
                                      values[v].ref = steps[s].inputs[k]}

\* A technique finds its inputs by their types.
Suits(technique) ==
  /\ technique \in Techniques
  /\ \A k \in DOMAIN Inputs[technique] :
       \E v \in Given(index) : values[v].type = Inputs[technique][k]

StepSucceeds ==
  /\ stage = "executing" /\ Suits(overrides[index])
  /\ values' = Append(values, [ref  |-> steps[index].output,
                               type |-> OutputOf[overrides[index]]])
  /\ machine' = Handle(machine, "StepSucceeded")
  /\ index' = index + 1
  /\ stage' = "running"
  /\ UNCHANGED <<agent, building, overrides, outcome, runs>>

\* The agent is told of the failure and proposes what to do; the attempt it
\* sees is the one from before the failure.
Failing == Handle(machine, "StepFailed")

Proposes(proposal) ==
  \/ agent = "any"
  \/ agent = "mock" /\ proposal = IF machine.attempt < MaxRetries THEN "Retry"
                                  ELSE "ContinueDegraded"

Retry ==
  /\ stage = "executing" /\ Proposes("Retry")
  /\ agent = "any" => machine.attempt < MaxAttempts
  /\ machine' = Handle(Failing, "RetryRequested")
  /\ stage' = "running"
  /\ UNCHANGED <<agent, building, index, values, overrides, outcome, runs>>

\* Whatever technique the agent names: nothing checks it.
SwapTechnique(technique) ==
  /\ stage = "executing" /\ Proposes("AlternativeTechnique")
  /\ machine' = Handle(Failing, "AlternativeTechniqueRequested")
  /\ overrides' = [overrides EXCEPT ![index] = technique]
  /\ stage' = "running"
  /\ UNCHANGED <<agent, building, index, values, outcome, runs>>

\* The steps stay as they are: the replan itself is left open.
Replan ==
  /\ stage = "executing" /\ Proposes("Replan")
  /\ machine' = Handle(Handle(Failing, "ReplanRequested"), "ReplanCompleted")
  /\ stage' = "running"
  /\ UNCHANGED <<agent, building, index, values, overrides, outcome, runs>>

ContinueDegraded ==
  /\ stage = "executing" /\ Proposes("ContinueDegraded")
  /\ machine' = Handle(Failing, "ContinueDegradedRequested")
  /\ outcome' = [is |-> "degraded", value |-> values[Len(values)]]
  /\ stage' = "idle"
  /\ UNCHANGED <<agent, building, index, values, overrides, runs>>

Complete ==
  /\ stage = "running" /\ index > Len(steps)
  /\ outcome' = [is |-> "completed", value |-> values[Len(values)]]
  /\ stage' = "idle"
  /\ UNCHANGED <<agent, building, machine, index, values, overrides, runs>>

Shutdown ==
  /\ stage = "idle"
  /\ machine' = Handle(Handle(machine, "ShutdownRequested"), "ShutdownCompleted")
  /\ UNCHANGED <<agent, stage, building, index, values, overrides, outcome, runs>>

-------------------------------------------------------------------------------
BuildStep ==
  \E operation \in Operations :
    \/ LeaveOutDenied(operation) \/ LeaveOutUnknown(operation)
    \/ LeaveOutUnfed(operation) \/ Wire(operation)

EngineStep ==
  \/ BeginStep \/ StepSucceeds \/ Retry \/ Replan \/ ContinueDegraded \/ Complete
  \/ \E technique \in Operations : SwapTechnique(technique)

Next ==
  \/ \E p \in Plans, type \in Types : Begin(p, type)
  \/ BuildStep \/ BuildFails \/ Build
  \/ Run \/ EngineStep \/ Shutdown

Spec == Init /\ [][Next]_vars

\* A run that is begun goes on: a technique returns.
FairSpec == Spec /\ WF_vars(EngineStep)

-------------------------------------------------------------------------------
(* Properties                                                              *)

TypeOK ==
  /\ agent \in {"mock", "any"}
  /\ stage \in {"idle", "building", "built", "running", "executing"}
  /\ limits \in Limits /\ plan \in Seq(Operations) /\ at \in Nat \ {0}
  /\ pool \in Seq(Values) /\ steps \in Seq(Steps) /\ errors \subseteq Errors
  /\ machine \in [state : MachineStates, attempt : Nat]
  /\ index \in Nat \ {0} /\ values \in Seq(Values)
  /\ overrides \in Seq(Operations)
  /\ runs \in 0..MaxRuns

\* The validator has nothing against what the builder returns without an
\* error, whatever the plan, the registry and the constraints: the references
\* it wires resolve to the types it wired them for, though the one takes the
\* latest value of a type and the other the first of a name.
BuiltIsValid == stage = "built" => Valid(Built)

Ended ==
  \/ outcome.is = "degraded"
  \/ outcome.is = "completed" /\ outcome.value = Built.output

\* With the repository's recovery agent, a run that is begun before the
\* engine is shut down comes to its outcome, whatever has failed before it on
\* the same engine: no step lacks its input and no step is retried for ever.
\* If it completes, it is with the value that the workflow says it puts out.
EveryRunEnds ==
  agent = "mock" /\ stage = "running" /\ machine.state # "Stopped" ~> Ended

-------------------------------------------------------------------------------
(* What the repository says and the code does not do.                      *)

\* agents/recovery.rs:33-35, "allow a bounded number of retries, then give
\* up": after a shutdown no retry is counted (state_machine.rs:156).
RetriesAreBounded == agent = "mock" /\ stage = "running" ~> Ended
===============================================================================

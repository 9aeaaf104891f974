-------------------------- MODULE ImagePipelineProofs --------------------------
(***************************************************************************)
(* Proofs about ImagePipeline for any operations, techniques, types, plans *)
(* and constraints: its types, that what the builder returns is valid, and *)
(* that the engine never lacks an input of a step.                         *)
(***************************************************************************)
EXTENDS ImagePipeline, SequenceTheorems, TLAPS

-----------------------------------------------------------------------------
(* The invariant.                                                          *)

\* What the builder has wired step s to.
Wired(s) ==
  /\ steps[s].operation \in Techniques \ limits.denied
  /\ steps[s].id = <<s, steps[s].operation>> /\ steps[s].output = steps[s].id
  /\ pool[s + 1] = [ref |-> steps[s].id, type |-> OutputOf[steps[s].operation]]
  /\ Len(steps[s].inputs) = Len(Inputs[steps[s].operation])
  /\ \A k \in DOMAIN steps[s].inputs :
       \E j \in 1..s : pool[j] = [ref  |-> steps[s].inputs[k],
                                  type |-> Inputs[steps[s].operation][k]]

\* Without an error, each step of the plan so far has become a step, and the
\* pool is the input and the steps' outputs, in their order.
BuilderOK ==
  (stage \in {"building", "built", "running", "executing"} /\ errors = {}) =>
    /\ at <= Len(plan) + 1 /\ ~OverLimit(Len(plan))
    /\ Len(steps) = at - 1 /\ Len(pool) = at
    /\ pool[1].ref = Input
    /\ \A s \in 1..Len(steps) : Wired(s)

\* Only a finished workflow is run, and the engine has a value for each of
\* the pool's up to its step.
EngineOK ==
  /\ stage \in {"built", "running", "executing"} => errors = {} /\ at = Len(plan) + 1
  /\ stage \in {"running", "executing"} =>
       /\ Len(overrides) = Len(steps)
       /\ index <= Len(steps) + 1 /\ Len(values) = index
       /\ \A j \in 1..index : values[j].ref = pool[j].ref
  /\ stage = "executing" => index <= Len(steps)

Inv == TypeOK /\ BuilderOK /\ EngineOK

InputsAreThere ==
  (stage = "running" /\ index <= Len(steps)) =>
    \A k \in DOMAIN steps[index].inputs :
      \E v \in DOMAIN values : values[v].ref = steps[index].inputs[k]

-----------------------------------------------------------------------------
(* Each step keeps the types.                                              *)

LEMMA HandleTyped ==
  ASSUME NEW m \in [state : MachineStates, attempt : Nat], NEW event
  PROVE  Handle(m, event) \in [state : MachineStates, attempt : Nat]
BY DEF Handle, Becomes, Afresh, Retried, MachineStates

\* What Wire makes of a step, taken out of the action.
LEMMA WireMakes ==
  ASSUME TypeOK, NEW operation \in Operations, Wire(operation)
  PROVE  \E chosen \in [DOMAIN Inputs[operation] -> DOMAIN pool] :
           LET step == [id        |-> <<at, operation>>,
                        operation |-> operation,
                        inputs    |-> [k \in DOMAIN Inputs[operation] |-> pool[chosen[k]].ref],
                        output    |-> <<at, operation>>]
           IN  /\ \A k \in DOMAIN Inputs[operation] :
                    pool[chosen[k]].type = Inputs[operation][k]
               /\ step \in Steps
               /\ steps' = Append(steps, step)
<1>1. PICK chosen \in [DOMAIN Inputs[operation] -> DOMAIN pool] :
        /\ \A k \in DOMAIN chosen : IsLatest(chosen[k], Inputs[operation][k])
        /\ steps' = Append(steps, [id        |-> IdOf(at, operation),
                                   operation |-> operation,
                                   inputs    |-> [k \in DOMAIN Inputs[operation] |->
                                                    pool[chosen[k]].ref],
                                   output    |-> IdOf(at, operation)])
  BY DEF Wire
<1>2. operation \in Techniques /\ <<at, operation>> \in StepIds
  BY DEF Wire, TypeOK, StepIds
<1>3. Inputs[operation] \in Seq(Types)
  BY <1>2, ImagePipelineAssumption
<1> DEFINE refs == [k \in DOMAIN Inputs[operation] |-> pool[chosen[k]].ref]
<1>4. refs \in Seq(Refs)
  <2>1. DOMAIN Inputs[operation] = 1..Len(Inputs[operation]) /\ Len(Inputs[operation]) \in Nat
    BY <1>3
  <2>2. ASSUME NEW k \in DOMAIN Inputs[operation] PROVE pool[chosen[k]].ref \in Refs
    <3>1. chosen[k] \in DOMAIN pool
      BY <1>1
    <3>2. pool[chosen[k]] \in Values
      BY <3>1 DEF TypeOK
    <3> QED
      BY <3>2 DEF Values
  <2> QED
    BY <2>1, <2>2
<1>5. [id |-> <<at, operation>>, operation |-> operation, inputs |-> refs,
       output |-> <<at, operation>>] \in Steps
  BY <1>2, <1>4 DEF Steps, Refs
<1> QED
  BY <1>1, <1>5 DEF IsLatest, IdOf

LEMMA BuildStepTyped ==
  ASSUME TypeOK, BuildStep
  PROVE  TypeOK'
<1>1. PICK operation \in Operations :
        \/ LeaveOutDenied(operation) \/ LeaveOutUnknown(operation)
        \/ LeaveOutUnfed(operation) \/ Wire(operation)
  BY DEF BuildStep
<1>2. CASE LeaveOutDenied(operation)
  BY <1>2 DEF LeaveOutDenied, LeaveOut, TypeOK, Errors, running
<1>3. CASE LeaveOutUnknown(operation)
  BY <1>3 DEF LeaveOutUnknown, LeaveOut, TypeOK, Errors, running
<1>4. CASE LeaveOutUnfed(operation)
  BY <1>4 DEF LeaveOutUnfed, LeaveOut, TypeOK, Errors, running
<1>5. CASE Wire(operation)
  <2>1. PICK step \in Steps : steps' = Append(steps, step)
    BY <1>5, WireMakes
  <2>2. [ref |-> IdOf(at, operation), type |-> OutputOf[operation]] \in Values
    BY <1>5, ImagePipelineAssumption DEF Wire, TypeOK, IdOf, Values, Refs, StepIds
  <2>3. pool' \in Seq(Values)
    BY <1>5, <2>2 DEF Wire, TypeOK
  <2> QED
    BY <1>5, <2>1, <2>3 DEF Wire, TypeOK, running
<1> QED
  BY <1>1, <1>2, <1>3, <1>4, <1>5

LEMMA EngineStepTyped ==
  ASSUME Inv, EngineStep
  PROVE  TypeOK'
<1> USE DEF Inv
<1>1. machine' \in [state : MachineStates, attempt : Nat]
  BY HandleTyped DEF TypeOK, EngineStep, BeginStep, StepSucceeds, Retry, Replan,
     ContinueDegraded, Complete, SwapTechnique, Failing
<1>2. index' \in Nat \ {0}
  BY DEF TypeOK, EngineStep, BeginStep, StepSucceeds, Retry, Replan,
     ContinueDegraded, Complete, SwapTechnique
<1>3. values' \in Seq(Values)
  <2>1. CASE StepSucceeds
    <3>1. index \in DOMAIN steps
      BY <2>1 DEF StepSucceeds, EngineOK, TypeOK
    <3>2. steps[index] \in Steps
      BY <3>1 DEF TypeOK
    <3>3. overrides[index] \in Techniques
      BY <2>1 DEF StepSucceeds, Suits
    <3>4. [ref |-> steps[index].output, type |-> OutputOf[overrides[index]]] \in Values
      BY <3>2, <3>3, ImagePipelineAssumption DEF Values, Steps
    <3> QED
      BY <2>1, <3>4 DEF StepSucceeds, TypeOK
  <2> QED
    BY <2>1 DEF TypeOK, EngineStep, BeginStep, Retry, Replan,
       ContinueDegraded, Complete, SwapTechnique
<1>4. overrides' \in Seq(Operations)
  <2>1. ASSUME NEW technique \in Operations, SwapTechnique(technique)
        PROVE  overrides' \in Seq(Operations)
    <3>1. index \in 1..Len(overrides) /\ overrides \in Seq(Operations)
      BY <2>1 DEF SwapTechnique, EngineOK, TypeOK
    <3>2. overrides' = [overrides EXCEPT ![index] = technique]
      BY <2>1 DEF SwapTechnique
    <3> QED
      BY <3>1, <3>2, ExceptSeq
  <2> QED
    BY <2>1 DEF TypeOK, EngineStep, BeginStep, StepSucceeds, Retry, Replan,
       ContinueDegraded, Complete
<1>5. stage' \in {"idle", "running", "executing"} /\ UNCHANGED <<agent, building, runs>>
  BY DEF EngineStep, BeginStep, StepSucceeds, Retry, Replan,
     ContinueDegraded, Complete, SwapTechnique
<1> QED
  BY <1>1, <1>2, <1>3, <1>4, <1>5 DEF TypeOK, building

LEMMA TypesKept ==
  ASSUME Inv, [Next]_vars
  PROVE  TypeOK'
<1> USE DEF Inv
<1>1. ASSUME NEW p \in Plans, NEW type \in Types, Begin(p, type) PROVE TypeOK'
  <2>1. [ref |-> Input, type |-> type] \in Values
    BY DEF Values, Refs
  <2>2. pool' \in Seq(Values) /\ steps' \in Seq(Steps) /\ plan' \in Seq(Operations)
    BY <1>1, <2>1, ImagePipelineAssumption DEF Begin
  <2>3. runs' \in 0..MaxRuns
    BY <1>1, ImagePipelineAssumption DEF Begin, TypeOK
  <2> QED
    BY <1>1, <2>2, <2>3 DEF Begin, TypeOK, Errors, running
<1>2. CASE BuildStep
  BY <1>2, BuildStepTyped
<1>3. CASE BuildFails
  BY <1>3 DEF BuildFails, TypeOK, building, running
<1>4. CASE Build
  BY <1>4 DEF Build, TypeOK, building, running
<1>5. CASE Run
  <2>1. pool[1] \in Values
    BY <1>5 DEF Run, TypeOK, EngineOK, BuilderOK
  <2>2. values' \in Seq(Values)
    BY <1>5, <2>1 DEF Run
  <2>3. ASSUME NEW s \in DOMAIN steps PROVE steps[s].operation \in Operations
    <3>1. steps[s] \in Steps
      BY DEF TypeOK
    <3> QED
      BY <3>1, ImagePipelineAssumption DEF Steps
  <2>4. overrides' \in Seq(Operations)
    <3>1. overrides' = [s \in 1..Len(steps) |-> steps[s].operation]
      BY <1>5 DEF Run, TypeOK
    <3> QED
      BY <3>1, <2>3 DEF TypeOK
  <2> QED
    BY <1>5, <2>2, <2>4 DEF Run, TypeOK, building
<1>6. CASE EngineStep
  BY <1>6, EngineStepTyped
<1>7. CASE Shutdown
  BY <1>7, HandleTyped DEF Shutdown, TypeOK, building
<1>8. CASE UNCHANGED vars
  BY <1>8 DEF TypeOK, vars, building, running
<1> QED
  BY <1>1, <1>2, <1>3, <1>4, <1>5, <1>6, <1>7, <1>8 DEF Next

-----------------------------------------------------------------------------
(* What the builder does to its steps and its pool.                        *)

LEMMA WireAppends ==
  ASSUME TypeOK, BuilderOK, errors = {}, NEW operation \in Operations, Wire(operation)
  PROVE  /\ Len(steps') = at /\ Len(pool') = at + 1
         /\ \A j \in 1..at : pool'[j] = pool[j]
         /\ pool'[at + 1] = [ref |-> <<at, operation>>, type |-> OutputOf[operation]]
         /\ \A s \in 1..at - 1 : steps'[s] = steps[s]
<1>1. PICK step \in Steps : steps' = Append(steps, step)
  BY WireMakes
<1>2. Len(steps) = at - 1 /\ Len(pool) = at /\ steps \in Seq(Steps) /\ pool \in Seq(Values)
  BY DEF Wire, AtStep, BuilderOK, TypeOK
<1>3. pool' = Append(pool, [ref |-> <<at, operation>>, type |-> OutputOf[operation]])
  BY DEF Wire, IdOf
<1> QED
  BY <1>1, <1>2, <1>3

LEMMA WiredKept ==
  ASSUME TypeOK, BuilderOK, errors = {}, NEW operation \in Operations, Wire(operation),
         NEW s \in 1..at - 1
  PROVE  Wired(s)'
<1>1. Wired(s) /\ at \in Nat \ {0}
  BY DEF Wire, AtStep, BuilderOK, TypeOK
<1>2. /\ \A j \in 1..at : pool'[j] = pool[j]
      /\ \A i \in 1..at - 1 : steps'[i] = steps[i]
  BY WireAppends
<1>3. s \in 1..at /\ s + 1 \in 1..at
  BY <1>1
<1>4. steps'[s] = steps[s] /\ pool'[s + 1] = pool[s + 1]
  BY <1>2, <1>3
<1>5. limits' = limits
  BY DEF Wire
<1>6. \A j \in 1..s : pool'[j] = pool[j]
  BY <1>1, <1>2
<1> QED
  BY <1>1, <1>4, <1>5, <1>6 DEF Wired

LEMMA WiredAnew ==
  ASSUME TypeOK, BuilderOK, errors = {}, NEW operation \in Operations, Wire(operation),
         NEW s \in Nat, s = at
  PROVE  Wired(s)'
<1> DEFINE MadeOf(chosen) ==
      [id        |-> <<at, operation>>,
       operation |-> operation,
       inputs    |-> [k \in DOMAIN Inputs[operation] |-> pool[chosen[k]].ref],
       output    |-> <<at, operation>>]
<1>1. PICK chosen \in [DOMAIN Inputs[operation] -> DOMAIN pool] :
        /\ \A k \in DOMAIN Inputs[operation] : pool[chosen[k]].type = Inputs[operation][k]
        /\ MadeOf(chosen) \in Steps
        /\ steps' = Append(steps, MadeOf(chosen))
  BY WireMakes
<1>2. /\ Len(steps) = at - 1 /\ Len(pool) = at /\ steps \in Seq(Steps)
      /\ pool \in Seq(Values) /\ at \in Nat \ {0}
  BY DEF Wire, AtStep, BuilderOK, TypeOK
<1>3. steps'[at] = MadeOf(chosen)
  BY <1>1, <1>2
<1>4. operation \in Techniques \ limits'.denied
  BY DEF Wire
<1>5. Inputs[operation] \in Seq(Types)
  BY <1>4, ImagePipelineAssumption
<1>6. /\ Len(steps'[at].inputs) = Len(Inputs[operation])
      /\ DOMAIN steps'[at].inputs = DOMAIN Inputs[operation]
  BY <1>3, <1>5
<1>7. /\ \A j \in 1..at : pool'[j] = pool[j]
      /\ pool'[at + 1] = [ref |-> <<at, operation>>, type |-> OutputOf[operation]]
  BY WireAppends
<1>8. ASSUME NEW k \in DOMAIN Inputs[operation]
      PROVE  \E j \in 1..at : pool'[j] = [ref  |-> steps'[at].inputs[k],
                                          type |-> Inputs[operation][k]]
  <2>1. chosen[k] \in 1..at
    BY <1>1, <1>2
  <2>2. pool'[chosen[k]] = pool[chosen[k]] /\ pool[chosen[k]] \in Values
    BY <2>1, <1>2, <1>7
  <2>3. steps'[at].inputs[k] = pool[chosen[k]].ref
    BY <1>3
  <2>4. pool[chosen[k]] = [ref |-> pool[chosen[k]].ref, type |-> pool[chosen[k]].type]
    BY <2>2 DEF Values
  <2> QED
    BY <2>1, <2>2, <2>3, <2>4, <1>1
<1>9. /\ steps'[at].operation = operation
      /\ steps'[at].id = <<at, operation>> /\ steps'[at].output = <<at, operation>>
  BY <1>3
<1> QED
  BY <1>4, <1>6, <1>7, <1>8, <1>9 DEF Wired

LEMMA BuilderKept ==
  ASSUME BuilderOK, UNCHANGED building,
         stage \in {"building", "built", "running", "executing"}
  PROVE  BuilderOK'
BY DEF BuilderOK, Wired, OverLimit, building

LEMMA BuildStepOK ==
  ASSUME TypeOK, BuilderOK, BuildStep
  PROVE  BuilderOK'
<1> SUFFICES ASSUME errors' = {} PROVE BuilderOK'
  BY DEF BuilderOK
<1>1. PICK operation \in Operations : Wire(operation)
  BY DEF BuildStep, LeaveOutDenied, LeaveOutUnknown, LeaveOutUnfed, LeaveOut
<1>2. errors = {} /\ UNCHANGED <<limits, plan>> /\ at' = at + 1 /\ at \in Nat \ {0}
  BY <1>1 DEF Wire, TypeOK
<1>3. at <= Len(plan) /\ ~OverLimit(Len(plan)) /\ pool[1].ref = Input
  BY <1>1, <1>2 DEF Wire, AtStep, BuilderOK
<1>4. /\ Len(steps') = at /\ Len(pool') = at + 1
      /\ \A j \in 1..at : pool'[j] = pool[j]
  BY <1>1, <1>2, WireAppends
<1>5. Len(steps') = at' - 1 /\ Len(pool') = at' /\ pool'[1].ref = Input
  BY <1>2, <1>3, <1>4
<1>6. \A s \in 1..Len(steps') : Wired(s)'
  <2>1. \A s \in 1..at - 1 : Wired(s)'
    BY <1>1, <1>2, WiredKept
  <2>2. \A s \in Nat : s = at => Wired(s)'
    BY <1>1, <1>2, WiredAnew
  <2>3. \A s \in 1..at : s \in 1..at - 1 \/ (s \in Nat /\ s = at)
    BY <1>2
  <2> QED
    BY <2>1, <2>2, <2>3, <1>4
<1>7. at' <= Len(plan') + 1 /\ ~OverLimit(Len(plan))'
  BY <1>2, <1>3 DEF OverLimit, TypeOK
<1> QED
  BY <1>5, <1>6, <1>7 DEF BuilderOK

LEMMA BuilderOKKept ==
  ASSUME Inv, [Next]_vars
  PROVE  BuilderOK'
<1> USE DEF Inv
<1>1. ASSUME NEW p \in Plans, NEW type \in Types, Begin(p, type) PROVE BuilderOK'
  <2>1. p \in Seq(Operations)
    BY ImagePipelineAssumption
  <2>2. errors' = {} => ~OverLimit(Len(plan))'
    BY <1>1 DEF Begin
  <2>3. /\ at' = 1 /\ Len(steps') = 0 /\ Len(pool') = 1 /\ pool'[1].ref = Input
        /\ plan' = p
    BY <1>1 DEF Begin
  <2> QED
    BY <2>1, <2>2, <2>3 DEF BuilderOK
<1>2. CASE BuildStep
  BY <1>2, BuildStepOK
<1>3. CASE BuildFails
  BY <1>3 DEF BuildFails, BuilderOK
<1>4. CASE Build
  BY <1>4, BuilderKept DEF Build
<1>5. CASE Run
  BY <1>5, BuilderKept DEF Run
<1>6. CASE EngineStep
  BY <1>6, BuilderKept DEF EngineStep, BeginStep, StepSucceeds, Retry, Replan,
     ContinueDegraded, Complete, SwapTechnique
<1>7. CASE Shutdown
  BY <1>7 DEF Shutdown, BuilderOK
<1>8. CASE UNCHANGED vars
  BY <1>8 DEF BuilderOK, Wired, OverLimit, vars, building
<1> QED
  BY <1>1, <1>2, <1>3, <1>4, <1>5, <1>6, <1>7, <1>8 DEF Next

-----------------------------------------------------------------------------
(* The engine's values are the pool's, in their order.                     *)

LEMMA EngineOKKept ==
  ASSUME Inv, [Next]_vars
  PROVE  EngineOK'
<1> USE DEF Inv
<1>1. ASSUME NEW p \in Plans, NEW type \in Types, Begin(p, type) PROVE EngineOK'
  BY <1>1 DEF Begin, EngineOK
<1>2. CASE BuildStep
  BY <1>2 DEF BuildStep, LeaveOutDenied, LeaveOutUnknown, LeaveOutUnfed, LeaveOut, Wire,
     AtStep, EngineOK
<1>3. CASE BuildFails
  BY <1>3 DEF BuildFails, EngineOK
<1>4. CASE Build
  <2>1. at = Len(plan) + 1
    BY <1>4 DEF Build, BuilderOK, TypeOK
  <2> QED
    BY <1>4, <2>1 DEF Build, EngineOK, building
<1>5. CASE Run
  <2>1. errors = {} /\ at = Len(plan) + 1 /\ Len(steps) \in Nat
    BY <1>5 DEF Run, EngineOK, TypeOK
  <2>2. overrides' = [s \in 1..Len(steps) |-> steps[s].operation] /\ Len(overrides') = Len(steps)
    BY <1>5, <2>1 DEF Run, TypeOK
  <2>3. index' = 1 /\ values' = <<pool[1]>> /\ stage' = "running" /\ UNCHANGED building
    BY <1>5 DEF Run
  <2> QED
    BY <2>1, <2>2, <2>3 DEF EngineOK, building
<1>6. CASE BeginStep
  BY <1>6 DEF BeginStep, EngineOK, building
<1>7. CASE StepSucceeds
  <2>1. /\ index \in 1..Len(steps) /\ Len(values) = index /\ values \in Seq(Values)
        /\ Len(steps) = at - 1 /\ Len(pool) = at /\ Len(overrides) = Len(steps)
        /\ \A j \in 1..index : values[j].ref = pool[j].ref
        /\ errors = {} /\ at = Len(plan) + 1
    BY <1>7 DEF StepSucceeds, EngineOK, BuilderOK, TypeOK
  <2>2. Wired(index)
    BY <1>7, <2>1 DEF StepSucceeds, BuilderOK
  <2>3. pool[index + 1].ref = steps[index].output
    BY <2>2 DEF Wired
  <2>4. PICK type : values' = Append(values, [ref |-> steps[index].output, type |-> type])
    BY <1>7 DEF StepSucceeds
  <2>5. /\ Len(values') = index + 1
        /\ \A j \in 1..index + 1 : values'[j].ref = pool[j].ref
    BY <2>1, <2>3, <2>4
  <2>6. /\ index' = index + 1 /\ stage' = "running"
        /\ UNCHANGED <<building, overrides>>
    BY <1>7 DEF StepSucceeds
  <2> QED
    BY <2>1, <2>5, <2>6 DEF EngineOK, building
<1>8. CASE Retry
  BY <1>8 DEF Retry, EngineOK, building
<1>9. CASE Replan
  BY <1>9 DEF Replan, EngineOK, building
<1>10. CASE ContinueDegraded
  BY <1>10 DEF ContinueDegraded, EngineOK, building
<1>11. CASE Complete
  BY <1>11 DEF Complete, EngineOK, building
<1>12. ASSUME NEW technique \in Operations, SwapTechnique(technique) PROVE EngineOK'
  <2>1. overrides \in Seq(Operations) /\ Len(overrides') = Len(overrides)
    BY <1>12 DEF SwapTechnique, TypeOK
  <2> QED
    BY <1>12, <2>1 DEF SwapTechnique, EngineOK, building
<1>13. CASE Shutdown
  BY <1>13 DEF Shutdown, EngineOK
<1>14. CASE UNCHANGED vars
  BY <1>14 DEF EngineOK, vars, building, running
<1> QED
  BY <1>1, <1>2, <1>3, <1>4, <1>5, <1>6, <1>7, <1>8, <1>9, <1>10, <1>11, <1>12, <1>13, <1>14
     DEF Next, EngineStep

LEMMA InvInitially == Init => Inv
BY ImagePipelineAssumption DEF Init, Inv, TypeOK, BuilderOK, EngineOK, Handle, Afresh, Becomes,
   MachineStates, Errors

LEMMA InvKept == Inv /\ [Next]_vars => Inv'
BY TypesKept, BuilderOKKept, EngineOKKept DEF Inv

LEMMA Invariance == Spec => []Inv
BY InvInitially, InvKept, PTL DEF Spec

\* The variables keep their types: a workflow is built only of techniques of
\* the registry (builder.rs), and the machine is always in a state of its own.
THEOREM TypesHold == Spec => []TypeOK
BY Invariance, PTL DEF Inv

-----------------------------------------------------------------------------
(* The engine has what a step needs: the expect of WorkflowEngine::run     *)
(* never fails, also after a technique was swapped for one that gives a    *)
(* value of another type.                                                  *)

LEMMA InvFeeds == Inv => InputsAreThere
<1> SUFFICES ASSUME Inv, stage = "running", index <= Len(steps),
                    NEW k \in DOMAIN steps[index].inputs
             PROVE  \E v \in DOMAIN values : values[v].ref = steps[index].inputs[k]
  BY DEF InputsAreThere
<1>1. /\ index \in 1..Len(steps) /\ Len(values) = index
      /\ \A j \in 1..index : values[j].ref = pool[j].ref
      /\ Wired(index) /\ values \in Seq(Values)
  BY DEF Inv, TypeOK, EngineOK, BuilderOK
<1>2. PICK j \in 1..index :
        pool[j] = [ref  |-> steps[index].inputs[k],
                   type |-> Inputs[steps[index].operation][k]]
  BY <1>1 DEF Wired
<1> QED
  BY <1>1, <1>2

THEOREM NoStepLacksItsInput == Spec => []InputsAreThere
BY Invariance, InvFeeds, PTL

-----------------------------------------------------------------------------
(* What the builder returns is valid.                                      *)

\* The pool is what the validator finds available, ...
LEMMA AvailableIsPool ==
  ASSUME Inv, stage = "built", NEW n \in 0..Len(steps), NEW j \in 1..n + 1
  PROVE  Available(Built, n)[j] = pool[j]
<1>1. /\ Len(pool) = Len(steps) + 1 /\ pool \in Seq(Values) /\ steps \in Seq(Steps)
      /\ pool[1].ref = Input
      /\ \A s \in 1..Len(steps) : Wired(s)
  BY DEF Inv, TypeOK, EngineOK, BuilderOK
<1>2. CASE j = 1
  <2>1. pool[1] \in Values
    BY <1>1
  <2>2. pool[1] = [ref |-> Input, type |-> pool[1].type]
    BY <1>1, <2>1 DEF Values
  <2> QED
    BY <1>2, <2>2 DEF Available, Built
<1>3. CASE j # 1
  <2>1. j - 1 \in 1..Len(steps) /\ (j - 1) + 1 = j
    BY <1>3, <1>1
  <2>2. pool[j] = [ref |-> steps[j - 1].output, type |-> OutputOf[steps[j - 1].operation]]
    BY <1>1, <2>1 DEF Wired
  <2> QED
    BY <1>3, <2>2 DEF Available, Built
<1> QED
  BY <1>2, <1>3

\* ... and no two of its values have the same name, so that the first of a
\* name is also the latest.
LEMMA NamesDiffer ==
  ASSUME Inv, stage = "built", NEW i \in 1..Len(pool), NEW j \in 1..Len(pool),
         pool[i].ref = pool[j].ref
  PROVE  i = j
<1>1. /\ Len(pool) = Len(steps) + 1 /\ steps \in Seq(Steps) /\ pool[1].ref = Input
      /\ \A s \in 1..Len(steps) : Wired(s)
  BY DEF Inv, TypeOK, EngineOK, BuilderOK
<1>2. ASSUME NEW k \in 1..Len(pool), k # 1
      PROVE  /\ pool[k].ref = <<k - 1, steps[k - 1].operation>>
             /\ pool[k].ref # Input
  <2>1. k - 1 \in 1..Len(steps) /\ (k - 1) + 1 = k
    BY <1>1, <1>2
  <2>2. Wired(k - 1)
    BY <1>1, <2>1
  <2>3. pool[(k - 1) + 1].ref = <<k - 1, steps[k - 1].operation>>
    BY <2>2 DEF Wired
  <2>4. steps[k - 1].operation \in Operations
    BY <2>2, ImagePipelineAssumption DEF Wired
  <2>5. <<k - 1, steps[k - 1].operation>> \in Nat \X Operations
    BY <2>1, <2>4
  <2> QED
    BY <2>1, <2>3, <2>5, ImagePipelineAssumption
<1>3. CASE i = 1 \/ j = 1
  BY <1>1, <1>2, <1>3
<1>4. CASE i # 1 /\ j # 1
  <2>1. <<i - 1, steps[i - 1].operation>> = <<j - 1, steps[j - 1].operation>>
    BY <1>2, <1>4
  <2>2. i - 1 = j - 1
    BY <2>1
  <2> QED
    BY <2>2
<1> QED
  BY <1>3, <1>4

LEMMA PoolResolves ==
  ASSUME Inv, stage = "built", NEW n \in 0..Len(steps), NEW j \in 1..n + 1
  PROVE  Resolves(Available(Built, n), pool[j].ref, pool[j].type)
<1>1. Len(pool) = Len(steps) + 1 /\ pool \in Seq(Values)
  BY DEF Inv, TypeOK, EngineOK, BuilderOK
<1>2. j \in 1..Len(pool) /\ pool[j] \in Values
  BY <1>1 DEF Inv, TypeOK
<1>3. Available(Built, n)[j] = [ref |-> pool[j].ref, type |-> pool[j].type]
  BY <1>2, AvailableIsPool DEF Values
<1>4. ASSUME NEW i \in 1..j - 1 PROVE Available(Built, n)[i].ref # pool[j].ref
  <2>1. i \in 1..n + 1 /\ i \in 1..Len(pool) /\ i # j
    BY <1>1
  <2>2. Available(Built, n)[i] = pool[i]
    BY <2>1, AvailableIsPool
  <2> QED
    BY <2>1, <2>2, <1>2, NamesDiffer
<1>5. j \in DOMAIN Available(Built, n)
  BY DEF Available
<1> QED
  BY <1>3, <1>4, <1>5 DEF Resolves

LEMMA BuiltIsAcyclic ==
  ASSUME Inv, stage = "built"
  PROVE  Acyclic(Built)
<1>1. /\ Len(pool) = Len(steps) + 1 /\ steps \in Seq(Steps) /\ pool \in Seq(Values)
      /\ \A s \in 1..Len(steps) : Wired(s)
  BY DEF Inv, TypeOK, EngineOK, BuilderOK
<1> DEFINE rank == [id \in Ids(Built) |-> id[1]]
<1>2. \A s \in 1..Len(steps) : steps[s].id = <<s, steps[s].operation>>
  BY <1>1 DEF Wired
<1>3. rank \in [Ids(Built) -> 1..Len(steps)]
  BY <1>1, <1>2 DEF Ids, Built
<1>4. ASSUME NEW s \in DOMAIN steps, NEW k \in DOMAIN steps[s].inputs,
             steps[s].inputs[k] \in Ids(Built)
      PROVE  rank[steps[s].inputs[k]] < rank[steps[s].id]
  <2>1. s \in 1..Len(steps) /\ rank[steps[s].id] = s
    BY <1>1, <1>2 DEF Ids, Built
  <2>2. PICK r \in 1..Len(steps) : steps[s].inputs[k] = steps[r].id
    BY <1>1, <1>4 DEF Ids, Built
  <2>3. PICK j \in 1..s : pool[j] = [ref  |-> steps[s].inputs[k],
                                    type |-> Inputs[steps[s].operation][k]]
    BY <1>1, <2>1 DEF Wired
  <2>4. pool[r + 1].ref = steps[r].id
    <3>1. Wired(r)
      BY <1>1
    <3> QED
      BY <3>1 DEF Wired
  <2>5. r + 1 = j
    BY <1>1, <2>1, <2>2, <2>3, <2>4, NamesDiffer
  <2>6. rank[steps[s].inputs[k]] = r
    BY <2>2, <1>2, <1>4
  <2> QED
    BY <2>1, <2>5, <2>6
<1> QED
  BY <1>3, <1>4 DEF Acyclic, Built

LEMMA InvIsValid == Inv => BuiltIsValid
<1> SUFFICES ASSUME Inv, stage = "built" PROVE Valid(Built)
  BY DEF BuiltIsValid
<1>1. /\ Len(steps) = Len(plan) /\ Len(pool) = Len(steps) + 1 /\ ~OverLimit(Len(plan))
      /\ steps \in Seq(Steps) /\ pool \in Seq(Values)
      /\ \A s \in 1..Len(steps) : Wired(s)
  BY DEF Inv, TypeOK, EngineOK, BuilderOK
<1>2. WithinConstraints(Built)
  <2>1. \A s \in 1..Len(steps) : steps[s].operation \in Techniques \ limits.denied
    BY <1>1 DEF Wired
  <2>2. DOMAIN steps = 1..Len(steps) /\ ~OverLimit(Len(steps))
    BY <1>1
  <2> QED
    BY <2>1, <2>2 DEF WithinConstraints, Built
<1>3. ASSUME NEW s \in 1..Len(steps) PROVE Fed(Built, s)
  <2>1. Wired(s)
    BY <1>1
  <2>2. ASSUME NEW k \in DOMAIN steps[s].inputs
        PROVE  Resolves(Available(Built, s - 1), steps[s].inputs[k],
                        Inputs[steps[s].operation][k])
    <3>1. PICK j \in 1..s : pool[j] = [ref  |-> steps[s].inputs[k],
                                      type |-> Inputs[steps[s].operation][k]]
      BY <2>1 DEF Wired
    <3>2. s - 1 \in 0..Len(steps) /\ j \in 1..(s - 1) + 1
      BY <1>1
    <3>3. Resolves(Available(Built, s - 1), pool[j].ref, pool[j].type)
      BY <3>2, PoolResolves
    <3> QED
      BY <3>1, <3>3
  <2> QED
    BY <2>1, <2>2 DEF Fed, Built, Wired
<1>4. Resolves(Available(Built, Len(steps)), pool[Len(pool)].ref, pool[Len(pool)].type)
  BY <1>1, PoolResolves
<1> QED
  BY <1>1, <1>2, <1>3, <1>4, BuiltIsAcyclic DEF Valid, Built

\* Whatever the plan, the registry and the constraints, the validator accepts
\* what the builder returns without an error (builder.rs, validator.rs).
THEOREM BuilderIsSound == Spec => []BuiltIsValid
BY Invariance, InvIsValid, PTL
===============================================================================

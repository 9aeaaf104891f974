------------------------------- MODULE Workflow -------------------------------
(***************************************************************************)
(* The workflow of one capability run: UNDERSTAND, LOCATE, ACT, VALIDATE,  *)
(* REPORT, as the values of WorkflowState in domain/workflow.rs, with the  *)
(* filesystem diff and the two policies (tool permission, change scope)    *)
(* that decide what a phase may do and whether its outcome is accepted.    *)
(*                                                                         *)
(* The texts a phase produces (summary, scope, relevant files, titles) are *)
(* abstracted away; what a variant keeps is the ACT phase's changed files  *)
(* and kind, and which validation layers ran.                              *)
(***************************************************************************)

CONSTANTS
  Files,        \* files of a workspace that a snapshot sees
  Contents,     \* contents of a file; absence of a file is one of them
  TestPaths,    \* files that domain::test_scope::is_test_path accepts
  MarkedTests   \* contents that hold a recognized inline-test marker

ASSUME TestFilesAssumption ==
  /\ TestPaths \subseteq Files
  /\ MarkedTests \subseteq Contents

Trees == [Files -> Contents]

Phases == {"Understand", "Locate", "Act", "Validate", "Report"}

ActionKinds == {"Modify", "Findings", "Explain", "NoChange"}

Actions     == [kind : ActionKinds \cup {"None"}, changed : SUBSET Files]
Validations == [commands : BOOLEAN, review : BOOLEAN]

NoAction     == [kind |-> "None", changed |-> {}]
NoValidation == [commands |-> FALSE, review |-> FALSE]

WorkflowStates ==
  [phase : Phases \cup {"Legacy"}, action : Actions, validation : Validations]

Legacy ==
  [phase |-> "Legacy", action |-> NoAction, validation |-> NoValidation]

StartWorkflow ==
  [phase |-> "Understand", action |-> NoAction, validation |-> NoValidation]

(***************************************************************************)
(* WorkflowState::complete_*.  Each is applied only to the variant it      *)
(* matches on; the TransitionError branch answers a hand-edited file.      *)
(***************************************************************************)
CompleteUnderstand(w) == [w EXCEPT !.phase = "Locate"]
CompleteLocate(w)     == [w EXCEPT !.phase = "Act"]
CompleteAct(w, a)     == [w EXCEPT !.phase = "Validate", !.action = a]
CompleteValidate(w, v) == [w EXCEPT !.phase = "Report", !.validation = v]

-----------------------------------------------------------------------------
\* workspace::snapshot::changed_files: added, modified and deleted alike.
ChangedFiles(before, after) == {f \in Files : before[f] # after[f]}

\* domain::test_scope::violations, read from the tree as the turn left it.
ScopeViolations(changed, tree) ==
  {f \in changed : f \notin TestPaths /\ tree[f] \notin MarkedTests}

(***************************************************************************)
(* What a capability supplies to the shared pipeline.                      *)
(***************************************************************************)
Capabilities == {"implement", "review", "fix", "explain", "txt2img", "test"}

ReadsOnly(capability) == capability \in {"review", "explain"}

SupportsHuman(capability) == capability \in {"implement", "fix", "test"}

TestsOnly(capability) == capability = "test"

DeriveKind(capability, nothingChanged) ==
  CASE capability = "review"  -> "Findings"
    [] capability = "explain" -> "Explain"
    [] capability \notin {"review", "explain"} /\ nothingChanged -> "NoChange"
    [] OTHER -> "Modify"

Permissions == {"ReadOnly", "AcceptEdits", "ExecuteOnly"}

\* application::execute::tools_and_permission over Capability::tool_policy.
ActPermission(capability) ==
  IF ReadsOnly(capability) THEN "ReadOnly" ELSE "AcceptEdits"

(***************************************************************************)
(* The agent is outside ksforge.  A read-only turn has Read, Grep and Glob *)
(* and leaves the tree alone; AcceptEdits may leave any tree; so may       *)
(* ExecuteOnly, which is given Bash.                                       *)
(***************************************************************************)
TreesAfterTurn(permission, tree) ==
  IF permission = "ReadOnly" THEN {tree} ELSE Trees
=============================================================================

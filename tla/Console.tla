-------------------------------- MODULE Console --------------------------------
(***************************************************************************)
(* The two front ends that talk to a person (cli/chat.rs, cli/commands.rs, *)
(* cli/mod.rs): `ksforge chat`, which takes line after line, each one a    *)
(* new change request or, while a gate is open, a decision on it; and a    *)
(* command such as `ksforge implement` at a terminal, which asks for the   *)
(* decision itself, resumes, and ends with an exit code.  An option may be *)
(* given by its id or by the number it is printed under.                   *)
(*                                                                         *)
(* What an execution does between two stops is the matter of PhaseLoop,    *)
(* and what becomes of its changes that of Delivery: here either of them   *)
(* returns or fails.  Someone may cancel an execution in another terminal  *)
(* while this one is at a prompt.                                          *)
(*                                                                         *)
(* An operator marked "mutant" is a plausible bug in the one after it.     *)
(***************************************************************************)
EXTENDS Naturals, SequencesExt

CONSTANTS
  Words,       \* what may be typed on a line while a gate is open
  QuitWords,   \* of them, those that end a chat
  Numbers,     \* the number each word parses to, from 0, or NoNumber
  NoNumber,
  Gates,       \* the gates that may be raised: the ids of their options
  Lines,       \* what may be typed as a change request
  Ids,         \* execution ids
  NoId,
  MayCancel,   \* whether someone else cancels
  MaxPrompts   \* bound: lines typed at prompts

ASSUME ConsoleAssumption ==
  /\ QuitWords \subseteq Words
  /\ Numbers \in [Words -> Nat \cup {NoNumber}] /\ NoNumber \notin Nat
  /\ \A gate \in Gates : gate \in Seq(Words) /\ gate # <<>>
  /\ NoId \notin Ids
  /\ MayCancel \in BOOLEAN
  /\ MaxPrompts \in Nat

Modes == {"chat", "command"}

NoWord == "none"
NoGate == <<>>
NoExit == 99

\* The events of a record that exit_code_for looks at.
NoRecord    == [status |-> "absent", gate |-> NoGate, rejected |-> FALSE]
JustStarted == [status |-> "Running", gate |-> NoGate, rejected |-> FALSE]

VARIABLES
  mode,     \* which front end this is
  at,       \* "prompt", "deciding", "working", "delivering" or "ended"
  record,   \* state.json of each execution
  current,  \* the execution that the call in progress is about
  copy,     \*   and its Execution in memory
  pending,  \* the chat's open gate
  prompts,  \* lines typed
  exit,     \* the exit code
  (* History, for the properties only. *)
  picked    \* the last decision: the gate, the word typed, the option applied

consoleVars == <<mode, at, record, current, copy, pending, prompts, exit, picked>>

NoPick == [gate |-> NoGate, word |-> NoWord, option |-> 0]

ConsoleInit ==
  /\ mode \in Modes /\ at = "prompt"
  /\ record = [e \in Ids |-> NoRecord]
  /\ current = NoId /\ copy = NoRecord /\ pending = NoId
  /\ prompts = 0 /\ exit = NoExit
  /\ picked = NoPick

-------------------------------------------------------------------------------
(* Which option a word stands for: its position, from 1, or 0              *)

\* mutant: the number is looked at before the id
NumberFirst(gate, word) ==
  IF Numbers[word] # NoNumber /\ Numbers[word] < Len(gate) THEN Numbers[word] + 1
  ELSE SelectInSeq(gate, LAMBDA id : id = word)

\* The first option of that id, or else the one printed under that number.
OptionOf(gate, word) ==
  LET named == SelectInSeq(gate, LAMBDA id : id = word)
  IN  IF named # 0 THEN named
      ELSE IF Numbers[word] # NoNumber /\ Numbers[word] < Len(gate) THEN Numbers[word] + 1
      ELSE 0

-------------------------------------------------------------------------------
(* route                                                                   *)

\* The prefixes in the order they are tried, with their lengths in bytes.
Routes == << [id |-> "review", length |-> 7],
               [id |-> "fix", length |-> 4],
               [id |-> "explain", length |-> 8] >>

\* A line: the capability whose prefix it starts with, its length in bytes,
\* the byte offsets inside a character, and whether there is more than the
\* prefix to it.
Cuts(line, p)    == line.length >= Routes[p].length /\ Routes[p].length \in line.inside
Matches(line, p) == line.prefix = Routes[p].id

\* The first prefix that decides: by matching, or by cutting a character in
\* two, which panics.
Deciding(line) == SelectInSeq([p \in 1..Len(Routes) |-> p],
                              LAMBDA p : Cuts(line, p) \/ Matches(line, p))

RoutePanics(line) == Deciding(line) # 0 /\ Cuts(line, Deciding(line))

-------------------------------------------------------------------------------
Typed == prompts < MaxPrompts /\ prompts' = prompts + 1

\* exit_code_for
ExitCodeFor(execution) ==
  CASE execution.status = "Completed"       -> 0
    [] execution.status = "WaitingForHuman" -> 6
    [] execution.status = "Failed"          -> IF execution.rejected THEN 4 ELSE 3
    [] OTHER                                -> 1

\* KsforgeError::exit_code
ErrorCode(error) ==
  CASE error \in {"Usage", "Config"} -> 2
    [] error \in {"ExecutorUnavailable", "ExecutorFailed"} -> 3
    [] OTHER -> 1

EndWith(code) ==
  /\ at' = "ended" /\ exit' = code
  /\ current' = NoId /\ copy' = NoRecord

\* mutant: an error ends the turn as its success does
GateGone == pending' = NoId

\* chat::run keeps what was pending through an error.
GateKept == UNCHANGED pending

\* An error of a turn is printed by a chat and ends a command.
TurnFails(error) ==
  IF mode = "chat"
  THEN /\ at' = "prompt" /\ GateKept
       /\ current' = NoId /\ copy' = NoRecord
       /\ UNCHANGED exit
  ELSE EndWith(ErrorCode(error)) /\ UNCHANGED pending

-------------------------------------------------------------------------------
(* A new execution                                                         *)

\* The line of a chat, or the change request of a command, which takes one:
\* it is refused, or claude is not found, before there is an execution.
TurnRefused(line) ==
  /\ at = "prompt" /\ pending = NoId /\ Typed
  /\ mode = "chat" => ~RoutePanics(line)
  /\ \/ line.blank /\ TurnFails("Usage")
     \/ TurnFails("ExecutorUnavailable")
  /\ UNCHANGED <<mode, record, picked>>

RoutePanic(line) ==
  /\ mode = "chat" /\ at = "prompt" /\ pending = NoId /\ Typed
  /\ RoutePanics(line)
  /\ EndWith(101)
  /\ UNCHANGED <<mode, record, pending, picked>>

\* run_turn, change_request_capability: Execution::start and the first save.
BeginTurn(line, e) ==
  /\ at = "prompt" /\ pending = NoId /\ Typed
  /\ mode = "chat" => ~RoutePanics(line)
  /\ ~line.blank
  /\ record[e] = NoRecord
  /\ record' = [record EXCEPT ![e] = JustStarted]
  /\ current' = e /\ copy' = JustStarted
  /\ at' = "working"
  /\ UNCHANGED <<mode, pending, exit, picked>>

-------------------------------------------------------------------------------
(* resume, of the execution e with the word given to it                    *)

Accepts(e, word) ==
  record[e].status = "WaitingForHuman" /\ OptionOf(record[e].gate, word) # 0

\* A decision that resume does not take: nothing has changed by then.
DecisionRefused(e, word) ==
  /\ \/ ~Accepts(e, word) /\ TurnFails("Usage")
     \/ mode = "chat" /\ TurnFails("ExecutorUnavailable")
  /\ UNCHANGED <<mode, record, picked>>

\* The decision is applied and saved.  typed is what the person typed at the
\* gate that was shown.
DecisionTaken(e, word, shown, typed) ==
  /\ Accepts(e, word)
  /\ picked' = [gate |-> shown, word |-> typed, option |-> OptionOf(record[e].gate, word)]
  /\ record' = [record EXCEPT ![e] = JustStarted]
  /\ current' = e /\ copy' = JustStarted
  /\ at' = "working"
  /\ UNCHANGED <<mode, pending, exit>>

\* A chat's line, while its gate is open, is the decision, whatever it says.
ChatDecides(word) ==
  /\ mode = "chat" /\ at = "prompt" /\ pending # NoId /\ Typed
  /\ word \notin QuitWords
  /\ \/ DecisionRefused(pending, word)
     \/ DecisionTaken(pending, word, record[pending].gate, word)

\* prompt_for_decision: a word that stands for no option is asked again; for
\* any other, resume is given the id of the option.
AskAgain(word) ==
  /\ at = "deciding" /\ Typed
  /\ OptionOf(copy.gate, word) = 0
  /\ UNCHANGED <<mode, at, record, current, copy, pending, exit, picked>>

CommandDecides(word) ==
  /\ at = "deciding" /\ Typed
  /\ OptionOf(copy.gate, word) # 0
  /\ LET id == copy.gate[OptionOf(copy.gate, word)]
     IN  \/ DecisionRefused(current, id)
         \/ DecisionTaken(current, id, copy.gate, word)

-------------------------------------------------------------------------------
(* The call returns                                                        *)

\* An error leaves by `?`; the record stays as the last save has left it.
CallFails ==
  /\ at = "working"
  /\ TurnFails("ExecutorFailed")
  /\ UNCHANGED <<mode, record, prompts, picked>>

\* post_execution for a chat; the loop of prompt_and_resume_while_waiting and
\* what comes after it for a command.
Stops(execution, next) ==
  /\ record' = [record EXCEPT ![current] = execution]
  /\ copy' = execution
  /\ at' = next
  /\ UNCHANGED <<mode, prompts, exit, picked>>

CallAsks(gate) ==
  /\ at = "working"
  /\ LET asking == [status |-> "WaitingForHuman", gate |-> gate, rejected |-> FALSE]
     IN  IF mode = "chat"
         THEN /\ record' = [record EXCEPT ![current] = asking]
              /\ pending' = current
              /\ at' = "prompt" /\ current' = NoId /\ copy' = NoRecord
              /\ UNCHANGED <<mode, prompts, exit, picked>>
         ELSE Stops(asking, "deciding") /\ UNCHANGED <<current, pending>>

CallStops(rejected) ==
  /\ at = "working"
  /\ Stops([status |-> "Failed", gate |-> NoGate, rejected |-> rejected], "delivering")
  /\ UNCHANGED <<current, pending>>

CallCompletes ==
  /\ at = "working"
  /\ Stops([status |-> "Completed", gate |-> NoGate, rejected |-> FALSE], "delivering")
  /\ UNCHANGED <<current, pending>>

\* End of input at the decision: the gate stays open, and the command goes on.
NoDecision ==
  /\ at = "deciding"
  /\ at' = "delivering"
  /\ UNCHANGED <<mode, record, current, copy, pending, prompts, exit, picked>>

\* maybe_branch_and_merge, of a completed execution only; for a command,
\* maybe_open_pull_request, whatever the execution has come to.
DeliveryFails ==
  /\ at = "delivering"
  /\ mode = "chat" => copy.status = "Completed"
  /\ TurnFails("GitHub")
  /\ UNCHANGED <<mode, record, prompts, picked>>

Delivered ==
  /\ at = "delivering"
  /\ IF mode = "chat"
     THEN /\ at' = "prompt" /\ pending' = NoId
          /\ current' = NoId /\ copy' = NoRecord
          /\ UNCHANGED exit
     ELSE EndWith(ExitCodeFor(copy)) /\ UNCHANGED pending
  /\ UNCHANGED <<mode, record, prompts, picked>>

-------------------------------------------------------------------------------
\* `exit`, `quit` or the end of input, at the prompt of a chat.
Quit ==
  /\ mode = "chat" /\ at = "prompt"
  /\ EndWith(0)
  /\ UNCHANGED <<mode, record, pending, prompts, picked>>

\* ksforge cancel, in another terminal.
CancelElsewhere(e) ==
  /\ MayCancel /\ at \in {"prompt", "deciding"}
  /\ record[e].status \in {"WaitingForHuman", "Running"}
  /\ record' = [record EXCEPT ![e] = [JustStarted EXCEPT !.status = "Cancelled"]]
  /\ UNCHANGED <<mode, at, current, copy, pending, prompts, exit, picked>>

ConsoleNext ==
  \/ \E line \in Lines : \/ TurnRefused(line) \/ RoutePanic(line)
                         \/ \E e \in Ids : BeginTurn(line, e)
  \/ \E word \in Words : ChatDecides(word) \/ AskAgain(word) \/ CommandDecides(word)
  \/ CallFails \/ \E gate \in Gates : CallAsks(gate)
  \/ \E rejected \in BOOLEAN : CallStops(rejected)
  \/ CallCompletes \/ NoDecision \/ DeliveryFails \/ Delivered
  \/ Quit \/ \E e \in Ids : CancelElsewhere(e)

ConsoleSpec == ConsoleInit /\ [][ConsoleNext]_consoleVars

-------------------------------------------------------------------------------
(* Properties                                                              *)

ConsoleRecords ==
  [status : {"absent", "Running", "WaitingForHuman", "Completed", "Failed", "Cancelled"},
   gate : Gates \cup {NoGate}, rejected : BOOLEAN]

Picks == [gate : Gates, word : Words, option : Nat \ {0}]

ExitCodes == {0, 1, 2, 3, 4, 6, 101}

ConsoleTypeOK ==
  /\ mode \in Modes
  /\ at \in {"prompt", "deciding", "working", "delivering", "ended"}
  /\ record \in [Ids -> ConsoleRecords]
  /\ current \in Ids \cup {NoId} /\ pending \in Ids \cup {NoId}
  /\ copy \in ConsoleRecords
  /\ prompts \in 0..MaxPrompts
  /\ exit \in ExitCodes \cup {NoExit}
  /\ picked \in Picks \cup {NoPick}

\* A chat at its prompt has no gate open but the one that the next line is
\* the decision on: none is forgotten when a turn fails, and no new turn is
\* begun beside it.  A command that has ended with another code than 6 has
\* left no gate open, but for one whose delivery failed (1).
NoGateIsForgotten ==
  \A e \in Ids : record[e].status = "WaitingForHuman" =>
    /\ mode = "chat" => pending = e
    /\ mode = "command" /\ at = "ended" => exit \in {1, 6}

\* The option that a decision is applied to is the one that the person meant:
\* the one whose id was typed, even if that looks like a number, or else the
\* one printed under the number typed.  The command's prompt and resume both
\* look it up, one after the other, and agree unless two ids are the same.
PickedIsApplied ==
  (picked # NoPick /\ IsInjective(picked.gate)) =>
    IF \E o \in DOMAIN picked.gate : picked.gate[o] = picked.word
    THEN picked.gate[picked.option] = picked.word
    ELSE picked.option = Numbers[picked.word] + 1
===============================================================================

------------------------------- MODULE Decisions -------------------------------
(***************************************************************************)
(* Several ksforge processes on the state.json of one execution: the run   *)
(* that pauses at gates, `ksforge resume`, `ksforge cancel`, the jobs that *)
(* a `/ksforge choose` comment starts (`ksforge handle-comment`, then      *)
(* `ksforge resume`), the in-process prompt of a console, and the handoff  *)
(* of a gate to a cloud session (cli/commands.rs, application/resume.rs,   *)
(* workspace/store.rs).                                                    *)
(*                                                                         *)
(* The store has no lock: a process loads the whole record, changes its    *)
(* copy and later writes the whole record back.  Reads and writes of one   *)
(* file are atomic here; each action makes at most one of them.  What a    *)
(* run does between two gates is PhaseLoop's matter: here it saves its     *)
(* progress, and stops at a gate, a completion or a failure.               *)
(*                                                                         *)
(* An operator marked "mutant" is a plausible bug in the one after it.     *)
(***************************************************************************)
EXTENDS Execution

CONSTANTS
  Processes,      \* process slots; a slot is free again when its process ends
  Comments,       \* GitHub comments that hold a `/ksforge choose`
  NoComment,      \* a decision that came from no comment
  NoExecution,    \* a process that has loaded nothing
  OneAtATime,     \* whether the processes are kept apart by their callers
  MayCrash,       \* whether a process may die
  MaxGates,       \* bound: gates raised
  MaxCancels,     \* bound: cancellations on record
  MaxDeliveries,  \* bound: deliveries of one comment's webhook
  MaxAnswers      \* bound: decisions saved before no more are typed in

ASSUME DecisionsAssumption ==
  /\ NoComment \notin Comments
  /\ NoExecution \notin Executions
  /\ OneAtATime \in BOOLEAN /\ MayCrash \in BOOLEAN
  /\ MaxGates \in Nat /\ MaxCancels \in Nat /\ MaxDeliveries \in Nat
  /\ MaxAnswers \in Nat

VARIABLES
  disk,       \* state.json
  marked,     \* comments with a file under processed-events/
  written,    \* what each comment says, and the gate its author answered
  delivered,  \* how often each comment's webhook was delivered
  process,    \* the process in each slot
  (* History, for the properties only. *)
  answers,    \* each decision saved, with the gate it was meant for
  died        \* comments with a job that crashed

vars == <<disk, marked, written, delivered, process, answers, died>>

Places == {"none", "checking", "authorizing", "accepted", "deciding",
           "working", "saved", "paused", "cancelling"}

Processing ==
  [at      : Places,
   copy    : Executions \cup {NoExecution},
   option  : Options \cup {NoOption},
   comment : Comments \cup {NoComment},
   meant   : Nat]

\* meant and answered are numbers of gates.
Answers == [comment : Comments \cup {NoComment}, option : Options,
            meant : Nat, answered : Nat]

Free == [at |-> "none", copy |-> NoExecution, option |-> NoOption,
         comment |-> NoComment, meant |-> 0]

Unwritten == [gate |-> 0, option |-> NoOption]

TypeOK ==
  /\ disk \in Executions
  /\ marked \subseteq Comments
  /\ written \in [Comments -> [gate : Nat, option : Options \cup {NoOption}]]
  /\ delivered \in [Comments -> 0..MaxDeliveries]
  /\ process \in [Processes -> Processing]
  /\ answers \in Seq(Answers)
  /\ died \subseteq Comments

\* The first run has saved its execution and is at work.
Init ==
  /\ disk = StartExecution
  /\ marked = {}
  /\ written = [c \in Comments |-> Unwritten]
  /\ delivered = [c \in Comments |-> 0]
  /\ \E p \in Processes :
       process = [q \in Processes |->
                    IF q = p THEN [Free EXCEPT !.at = "working", !.copy = disk]
                    ELSE Free]
  /\ answers = <<>>
  /\ died = {}

-----------------------------------------------------------------------------
Busy == {p \in Processes : process[p].at # "none"}

MayStart(p) ==
  /\ p \notin Busy
  /\ OneAtATime => Busy = {}

Becomes(p, new) == process' = [process EXCEPT ![p] = new]
Ends(p) == Becomes(p, Free)
MovesTo(p, place) == Becomes(p, [process[p] EXCEPT !.at = place])

\* ExecutionStore::save of the copy that process p is left with.
SaveCopy(p, copy, place) ==
  /\ disk' = copy
  /\ Becomes(p, IF place = "none" THEN Free
                ELSE [process[p] EXCEPT !.copy = copy, !.at = place])

\* A decision is accepted for the open gate of a waiting execution.
AnyOption(e, option) == e.status = "WaitingForHuman" /\ e.pending # NoGate   \* mutant
Offers(e, option) ==
  /\ e.status = "WaitingForHuman"
  /\ e.pending # NoGate
  /\ option \in e.pending.options

-----------------------------------------------------------------------------
(* People and webhooks. *)

\* A collaborator answers the open gate, as the report comment shows it.
WriteComment(c, option) ==
  /\ written[c] = Unwritten
  /\ Offers(disk, option)
  /\ written' = [written EXCEPT ![c] = [gate |-> disk.pending.id, option |-> option]]
  /\ UNCHANGED <<disk, marked, delivered, process, answers, died>>

\* The webhook of a comment starts a job, late or more than once.
Deliver(c, p) ==
  /\ written[c] # Unwritten
  /\ delivered[c] < MaxDeliveries
  /\ MayStart(p)
  /\ delivered' = [delivered EXCEPT ![c] = @ + 1]
  /\ Becomes(p, [Free EXCEPT !.at = "checking", !.option = written[c].option,
                             !.comment = c, !.meant = written[c].gate])
  /\ UNCHANGED <<disk, marked, written, answers, died>>

\* `ksforge resume --decision`, typed by someone who has seen the open gate.
ResumeCommand(p, option) ==
  /\ MayStart(p)
  /\ Len(answers) < MaxAnswers
  /\ Offers(disk, option)
  /\ Becomes(p, [Free EXCEPT !.at = "accepted", !.option = option,
                             !.meant = disk.pending.id])
  /\ UNCHANGED <<disk, marked, written, delivered, answers, died>>

\* `ksforge cancel`: load, then save.
CancelCommand(p) ==
  /\ MayStart(p)
  /\ Len(SelectSeq(disk.messages, LAMBDA m : m.type = "Cancelled")) < MaxCancels
  /\ Becomes(p, [Free EXCEPT !.at = "cancelling", !.copy = disk])
  /\ UNCHANGED <<disk, marked, written, delivered, answers, died>>

-----------------------------------------------------------------------------
(* `ksforge handle-comment` on a choice. *)

NotMarked(p) == FALSE          \* mutant
AlreadyProcessed(p) == process[p].comment \in marked

CheckMarker(p) ==
  /\ process[p].at = "checking"
  /\ IF AlreadyProcessed(p) THEN Ends(p) ELSE MovesTo(p, "authorizing")
  /\ UNCHANGED <<disk, marked, written, delivered, answers, died>>

\* The commenter may decide, and the execution has the gate open.
AcceptComment(p) ==
  /\ process[p].at = "authorizing"
  /\ Offers(disk, process[p].option)
  /\ marked' = marked \cup {process[p].comment}
  /\ MovesTo(p, "accepted")
  /\ UNCHANGED <<disk, written, delivered, answers, died>>

MarkedAnyway(p) == marked' = marked \cup {process[p].comment}   \* mutant
LeftUnmarked(p) == UNCHANGED marked

\* Not authorized, gh failed, or there is no such gate or option any more.
RefuseComment(p) ==
  /\ process[p].at = "authorizing"
  /\ LeftUnmarked(p)
  /\ Ends(p)
  /\ UNCHANGED <<disk, written, delivered, answers, died>>

-----------------------------------------------------------------------------
(* resume: load and check, apply the decision and save, run to a stop. *)

LoadForResume(p) ==
  /\ process[p].at = "accepted"
  /\ IF Offers(disk, process[p].option)
       THEN Becomes(p, [process[p] EXCEPT !.copy = disk, !.at = "deciding"])
       ELSE Ends(p)
  /\ UNCHANGED <<disk, marked, written, delivered, answers, died>>

SaveDecision(p) ==
  /\ process[p].at = "deciding"
  /\ SaveCopy(p, ApplyDecision(process[p].copy, process[p].option), "working")
  /\ answers' = Append(answers, [comment  |-> process[p].comment,
                                 option   |-> process[p].option,
                                 meant    |-> process[p].meant,
                                 answered |-> process[p].copy.pending.id])
  /\ UNCHANGED <<marked, written, delivered, died>>

\* A save on the way: one stands for any number.
SaveProgress(p) ==
  /\ process[p].at = "working"
  /\ SaveCopy(p, Record(process[p].copy, Event("AgentStarted")), "saved")
  /\ UNCHANGED <<marked, written, delivered, answers, died>>

AskHuman(p, options) ==
  /\ process[p].at = "saved"
  /\ options # {}
  /\ Len(process[p].copy.gates) < MaxGates
  /\ SaveCopy(p, Ask(process[p].copy,
                     [id |-> Len(process[p].copy.gates) + 1, options |-> options]),
              "paused")
  /\ UNCHANGED <<marked, written, delivered, answers, died>>

Finish(p) ==
  /\ process[p].at = "saved"
  /\ \/ SaveCopy(p, Complete(process[p].copy, [success |-> TRUE, changed |-> {}]), "none")
     \/ SaveCopy(p, Fail(process[p].copy), "none")
  /\ UNCHANGED <<marked, written, delivered, answers, died>>

-----------------------------------------------------------------------------
(* After a pause, with the copy the run has stopped with. *)

\* Without a console: the gate goes to a cloud session, a call over the
\* network, and then the copy is saved with the session's link.
Settled(e)   == [RecordHandoff(e) EXCEPT !.pending = NoGate]       \* mutant
InPlace(e)   ==                                                    \* mutant
  [e EXCEPT !.messages[Len(e.messages)] = Event("HandoffOpened")]
HandedOff(e) == RecordHandoff(e)

HandOff(p) ==
  /\ process[p].at = "paused"
  /\ SaveCopy(p, HandedOff(process[p].copy), "none")
  /\ UNCHANGED <<marked, written, delivered, answers, died>>

\* At a console: the person is asked, and resume loads the record again.
AnswerPrompt(p, option) ==
  /\ process[p].at = "paused"
  /\ Len(answers) < MaxAnswers
  /\ option \in process[p].copy.pending.options
  /\ Becomes(p, [process[p] EXCEPT !.at = "accepted", !.copy = NoExecution,
                                   !.option = option, !.comment = NoComment,
                                   !.meant = process[p].copy.pending.id])
  /\ UNCHANGED <<disk, marked, written, delivered, answers, died>>

\* No handoff and no answer: the process exits and the gate stays open.
Leave(p) ==
  /\ process[p].at = "paused"
  /\ Ends(p)
  /\ UNCHANGED <<disk, marked, written, delivered, answers, died>>

SaveCancel(p) ==
  /\ process[p].at = "cancelling"
  /\ SaveCopy(p, Cancel(process[p].copy), "none")
  /\ UNCHANGED <<marked, written, delivered, answers, died>>

Crash(p) ==
  /\ MayCrash
  /\ p \in Busy
  /\ Ends(p)
  /\ died' = died \cup ({process[p].comment} \ {NoComment})
  /\ UNCHANGED <<disk, marked, written, delivered, answers>>

-----------------------------------------------------------------------------
\* What a started process does by itself.
ProcessStep(p) ==
  \/ CheckMarker(p) \/ AcceptComment(p) \/ RefuseComment(p)
  \/ LoadForResume(p) \/ SaveDecision(p) \/ SaveProgress(p)
  \/ \E options \in SUBSET Options : AskHuman(p, options)
  \/ Finish(p) \/ HandOff(p) \/ Leave(p) \/ SaveCancel(p)

Next ==
  \/ \E c \in Comments, option \in Options : WriteComment(c, option)
  \/ \E c \in Comments, p \in Processes : Deliver(c, p)
  \/ \E p \in Processes, option \in Options :
       ResumeCommand(p, option) \/ AnswerPrompt(p, option)
  \/ \E p \in Processes : CancelCommand(p) \/ ProcessStep(p) \/ Crash(p)

Spec == Init /\ [][Next]_vars

\* A started process goes on; nobody has to comment, resume, cancel or answer.
FairSpec == Spec /\ \A p \in Processes : WF_vars(ProcessStep(p))

-----------------------------------------------------------------------------
(* However the processes interleave, and wherever they die, the record on  *)
(* disk is the whole of some process's copy: its status is the one its     *)
(* log implies, its open gate is its last, and its decisions and gates go  *)
(* together, as exit_code_for and the report comment read them.            *)
RecordIsConsistent ==
  /\ StatusOf(disk.messages) = disk.status
  /\ disk.status = "WaitingForHuman" <=> disk.pending # NoGate
  /\ disk.pending # NoGate => disk.pending = disk.gates[Len(disk.gates)]
  /\ DecisionsMatchGates(disk)

(* A comment decides at most once, however often its webhook is delivered  *)
(* ("a duplicate webhook delivery is a no-op", workspace/store.rs).        *)
EachCommentDecidesOnce ==
  \A i, j \in 1..Len(answers) :
    (answers[i].comment = answers[j].comment /\ answers[i].comment # NoComment) => i = j

(* state.json's log of events only grows ("append-only log",               *)
(* domain/execution.rs): no save undoes what another process recorded.     *)
LogOnlyGrows ==
  [][\A i \in DOMAIN disk.messages :
       i \in DOMAIN disk'.messages /\ disk'.messages[i] = disk.messages[i]]_disk

(* A comment marked as processed has decided, or will, unless its own job  *)
(* dies: the marker is written when nothing else can keep the job from it. *)
MarkedCommentDecides ==
  \A c \in Comments :
    c \in marked ~> (c \in died \/ \E i \in 1..Len(answers) : answers[i].comment = c)

(* The processes on one record follow the life cycle of docs/06.           *)
Lifecycle ==
  INSTANCE ExecutionLifecycle
    WITH status  <- disk.status,
         open    <- IF disk.pending = NoGate THEN 0 ELSE disk.pending.id,
         asked   <- Len(disk.gates),
         verdict <- IF disk.result = NoResult THEN "none"
                    ELSE IF disk.result.success THEN "success" ELSE "failure"

FollowsLifecycle == [][Lifecycle!Next]_(Lifecycle!lifecycle)

-----------------------------------------------------------------------------
(* What the repository says and the code does not do: TLC refutes it.      *)

(* domain/execution.rs:41-44, 96-98 and 369-371: a comment addresses its   *)
(* own gate by GateId.  No `/ksforge choose` names a gate: the option is   *)
(* looked up in whichever gate is open when the job runs                   *)
(* (cli/commands.rs:440).                                                  *)
CommentDecidesItsGate ==
  \A i \in 1..Len(answers) :
    answers[i].comment # NoComment => answers[i].answered = answers[i].meant
=============================================================================

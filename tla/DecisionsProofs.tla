---------------------------- MODULE DecisionsProofs ----------------------------
(***************************************************************************)
(* Proofs about Decisions for any number of processes and comments, kept   *)
(* apart or not, dying or not, and every bound: however they overwrite     *)
(* each other's saves, the record on disk is consistent in itself.         *)
(***************************************************************************)
EXTENDS Decisions, ExecutionProofs, TLAPS

-----------------------------------------------------------------------------
(* The invariant.  RecordIsConsistent is not inductive: what is saved is a *)
(* copy that was loaded or changed earlier, while others saved theirs.  So *)
(* each process's copy must be fit for the save it is on its way to, and a *)
(* job that may mark a comment must have one.                              *)

Waiting(e) == e \in Executions /\ Consistent(e) /\ e.status = "WaitingForHuman"

FitToSave(p) ==
  /\ p.at \in {"checking", "authorizing"} => p.comment \in Comments
  /\ p.at = "deciding" =>
       Waiting(p.copy) /\ p.option \in Options \cap p.copy.pending.options
  /\ p.at \in {"working", "saved"} => Underway(p.copy)
  /\ p.at = "paused" => Waiting(p.copy)
  /\ p.at = "cancelling" => p.copy \in Executions /\ Consistent(p.copy)

Inv ==
  /\ TypeOK
  /\ Consistent(disk)
  /\ \A p \in Processes : FitToSave(process[p])

\* The parts of the state beside the record and the processes.
RestTyped ==
  /\ marked \subseteq Comments
  /\ written \in [Comments -> [gate : Nat, option : Options \cup {NoOption}]]
  /\ delivered \in [Comments -> 0..MaxDeliveries]
  /\ answers \in Seq(Answers)
  /\ died \subseteq Comments

LEMMA FreeIsFit == Free \in Processing /\ FitToSave(Free)
BY DEF Free, Processing, Places, FitToSave

\* A place at which nothing is asked of the copy.
LEMMA BusyIsFit ==
  ASSUME NEW p \in Processing, FitToSave(p),
         NEW place \in {"authorizing", "accepted"},
         place = "authorizing" => p.at = "checking"
  PROVE  /\ [p EXCEPT !.at = place] \in Processing
         /\ FitToSave([p EXCEPT !.at = place])
BY DEF Processing, Places, FitToSave

LEMMA InvInit == Init => Inv
<1> SUFFICES ASSUME Init PROVE Inv
  OBVIOUS
<1> USE DEF Init
<1>1. disk \in Executions /\ Underway(disk) /\ Consistent(disk)
  BY StartUnderway DEF Underway
<1>2. PICK p \in Processes :
        process = [q \in Processes |->
                     IF q = p THEN [Free EXCEPT !.at = "working", !.copy = disk]
                     ELSE Free]
  OBVIOUS
<1> DEFINE run == [Free EXCEPT !.at = "working", !.copy = disk]
<1>3. run \in Processing /\ FitToSave(run)
  BY <1>1, FreeIsFit DEF Processing, Places, FitToSave
<1>4. \A q \in Processes : process[q] \in {run, Free}
  BY <1>2
<1>5. process \in [Processes -> Processing]
  BY <1>2, <1>3, FreeIsFit
<1>6. \A q \in Processes : FitToSave(process[q])
  <2> SUFFICES ASSUME NEW q \in Processes PROVE FitToSave(process[q])
    OBVIOUS
  <2> HIDE DEF Init, run
  <2> QED
    BY <1>3, <1>4, FreeIsFit
<1>7. Unwritten \in [gate : Nat, option : Options \cup {NoOption}]
  BY DEF Unwritten
<1>8. /\ delivered \in [Comments -> 0..MaxDeliveries]
      /\ written \in [Comments -> [gate : Nat, option : Options \cup {NoOption}]]
      /\ answers \in Seq(Answers)
  BY <1>7, DecisionsAssumption
<1> QED
  BY <1>1, <1>5, <1>6, <1>8 DEF Inv, TypeOK

\* What an action has to show: the process it moves is fit, and so is disk.
LEMMA MoveKeepsInv ==
  ASSUME Inv, NEW p \in Processes, NEW new \in Processing, FitToSave(new),
         Becomes(p, new), disk' \in Executions, Consistent(disk'), RestTyped'
  PROVE  Inv'
<1>1. process \in [Processes -> Processing]
  BY DEF Inv, TypeOK
<1>2. process' \in [Processes -> Processing]
  BY <1>1 DEF Becomes
<1>3. \A q \in Processes : process'[q] = IF q = p THEN new ELSE process[q]
  BY <1>1 DEF Becomes
<1>4. \A q \in Processes : FitToSave(process'[q])
  BY <1>3 DEF Inv
<1>5. TypeOK'
  BY <1>2 DEF TypeOK, RestTyped
<1>6. (\A q \in Processes : FitToSave(process[q]))'
  BY <1>4 DEF FitToSave
<1>7. Consistent(disk)'
  BY DEF Consistent
<1> QED
  BY <1>5, <1>6, <1>7 DEF Inv

\* A save of the copy at one of these places, or at the end.
LEMMA SaveKeepsInv ==
  ASSUME Inv, NEW p \in Processes, NEW e \in Executions, Consistent(e),
         NEW place \in {"working", "saved", "paused", "none"},
         place \in {"working", "saved"} => Underway(e),
         place = "paused" => Waiting(e),
         SaveCopy(p, e, place), RestTyped'
  PROVE  Inv'
<1> DEFINE new == IF place = "none" THEN Free
                  ELSE [process[p] EXCEPT !.copy = e, !.at = place]
<1>1. process[p] \in Processing
  BY DEF Inv, TypeOK
<1>2. new \in Processing
  BY <1>1, FreeIsFit DEF Processing, Places
<1>3. FitToSave(new)
  <2>1. CASE place = "none"
    BY <2>1, FreeIsFit
  <2>2. CASE place # "none"
    <3>1. new.copy = e /\ new.at = place
      BY <1>1, <2>2 DEF Processing
    <3> HIDE DEF new
    <3> QED
      BY <3>1, <2>2 DEF FitToSave
  <2> QED
    BY <2>1, <2>2
<1>4. Becomes(p, new) /\ disk' = e
  BY DEF SaveCopy
<1> HIDE DEF new
<1> QED
  BY <1>2, <1>3, <1>4, MoveKeepsInv

-----------------------------------------------------------------------------
(* The actions that only move a process. *)

LEMMA DeliverKeepsInv ==
  ASSUME Inv, NEW c \in Comments, NEW p \in Processes, Deliver(c, p)
  PROVE  Inv'
<1>0. /\ disk \in Executions /\ Consistent(disk) /\ RestTyped
      /\ process[p] \in Processing
  BY DEF Inv, TypeOK, RestTyped
<1> DEFINE new == [Free EXCEPT !.at = "checking", !.option = written[c].option,
                               !.comment = c, !.meant = written[c].gate]
<1>1. written[c] \in [gate : Nat, option : Options \cup {NoOption}]
  BY <1>0 DEF RestTyped
<1>2. new \in Processing /\ new.at = "checking" /\ new.comment = c
  BY <1>1 DEF Free, Processing, Places
<1>3. delivered' \in [Comments -> 0..MaxDeliveries]
  <2> HIDE DEF new
  <2>1. /\ delivered \in [Comments -> 0..MaxDeliveries]
        /\ delivered[c] < MaxDeliveries
        /\ delivered' = [delivered EXCEPT ![c] = delivered[c] + 1]
    BY <1>0 DEF Deliver, RestTyped
  <2>2. delivered[c] + 1 \in 0..MaxDeliveries
    BY <2>1, DecisionsAssumption
  <2> QED
    BY <2>1, <2>2
<1>4. RestTyped' /\ UNCHANGED disk /\ Becomes(p, new)
  BY <1>0, <1>3 DEF Deliver, RestTyped
<1> HIDE DEF new
<1>5. FitToSave(new)
  BY <1>2 DEF FitToSave
<1> QED
  BY <1>0, <1>2, <1>4, <1>5, MoveKeepsInv

LEMMA ResumeCommandKeepsInv ==
  ASSUME Inv, NEW p \in Processes, NEW option \in Options, ResumeCommand(p, option)
  PROVE  Inv'
<1>0. /\ disk \in Executions /\ Consistent(disk) /\ RestTyped
      /\ process[p] \in Processing
  BY DEF Inv, TypeOK, RestTyped
<1> DEFINE new == [Free EXCEPT !.at = "accepted", !.option = option,
                               !.meant = disk.pending.id]
<1>1. disk.pending.id \in Nat
  BY <1>0 DEF ResumeCommand, Offers, Executions, Gates
<1>2. new \in Processing /\ FitToSave(new)
  BY <1>1 DEF Free, Processing, Places, FitToSave
<1>3. RestTyped' /\ UNCHANGED disk /\ Becomes(p, new)
  BY <1>0 DEF ResumeCommand, RestTyped
<1> HIDE DEF new
<1> QED
  BY <1>0, <1>2, <1>3, MoveKeepsInv

LEMMA CancelCommandKeepsInv ==
  ASSUME Inv, NEW p \in Processes, CancelCommand(p)
  PROVE  Inv'
<1>0. /\ disk \in Executions /\ Consistent(disk) /\ RestTyped
      /\ process[p] \in Processing
  BY DEF Inv, TypeOK, RestTyped
<1> DEFINE new == [Free EXCEPT !.at = "cancelling", !.copy = disk]
<1>1. new \in Processing /\ FitToSave(new)
  BY <1>0 DEF Free, Processing, Places, FitToSave
<1>2. RestTyped' /\ UNCHANGED disk /\ Becomes(p, new)
  BY <1>0 DEF CancelCommand, RestTyped
<1> HIDE DEF new
<1> QED
  BY <1>0, <1>1, <1>2, MoveKeepsInv

LEMMA EndKeepsInv ==
  ASSUME Inv, NEW p \in Processes, Ends(p), UNCHANGED disk, RestTyped'
  PROVE  Inv'
BY FreeIsFit, MoveKeepsInv DEF Ends, Inv, TypeOK

LEMMA MoveToKeepsInv ==
  ASSUME Inv, NEW p \in Processes, NEW place \in {"authorizing", "accepted"},
         place = "authorizing" => process[p].at = "checking",
         MovesTo(p, place), UNCHANGED disk, RestTyped'
  PROVE  Inv'
<1>1. /\ process[p] \in Processing /\ FitToSave(process[p])
      /\ disk \in Executions /\ Consistent(disk)
  BY DEF Inv, TypeOK
<1> DEFINE new == [process[p] EXCEPT !.at = place]
<1>2. new \in Processing /\ FitToSave(new)
  BY <1>1, BusyIsFit
<1>3. Becomes(p, new)
  BY DEF MovesTo
<1> HIDE DEF new
<1> QED
  BY <1>1, <1>2, <1>3, MoveKeepsInv

LEMMA CommentKeepsInv ==
  ASSUME Inv, NEW p \in Processes,
         CheckMarker(p) \/ AcceptComment(p) \/ RefuseComment(p)
  PROVE  Inv'
<1>0. RestTyped /\ process[p] \in Processing
  BY DEF Inv, TypeOK, RestTyped
<1>1. CASE CheckMarker(p)
  <2>1. RestTyped' /\ UNCHANGED disk
    BY <1>0, <1>1 DEF CheckMarker, RestTyped
  <2>2. process[p].at = "checking" /\ (Ends(p) \/ MovesTo(p, "authorizing"))
    BY <1>1 DEF CheckMarker
  <2> QED
    BY <2>1, <2>2, EndKeepsInv, MoveToKeepsInv
<1>2. CASE AcceptComment(p)
  <2>1. UNCHANGED disk /\ MovesTo(p, "accepted")
    BY <1>2 DEF AcceptComment
  <2>2. process[p].comment \in Comments
    BY <1>2 DEF AcceptComment, Inv, FitToSave
  <2>3. RestTyped'
    BY <1>0, <1>2, <2>2 DEF AcceptComment, RestTyped
  <2> QED
    BY <2>1, <2>3, MoveToKeepsInv
<1>3. CASE RefuseComment(p)
  BY <1>0, <1>3, EndKeepsInv DEF RefuseComment, LeftUnmarked, RestTyped
<1> QED
  BY <1>1, <1>2, <1>3

-----------------------------------------------------------------------------
(* The actions that save. *)

LEMMA LoadForResumeKeepsInv ==
  ASSUME Inv, NEW p \in Processes, LoadForResume(p)
  PROVE  Inv'
<1>0. /\ disk \in Executions /\ Consistent(disk) /\ RestTyped
      /\ process[p] \in Processing
  BY DEF Inv, TypeOK, RestTyped
<1>1. UNCHANGED disk /\ RestTyped'
  BY <1>0 DEF LoadForResume, RestTyped
<1>2. CASE Offers(disk, process[p].option)
  <2> DEFINE new == [process[p] EXCEPT !.copy = disk, !.at = "deciding"]
  <2>1. Waiting(disk) /\ process[p].option \in Options \cap disk.pending.options
    BY <1>0, <1>2 DEF Offers, Executions, Gates, Waiting
  <2>2. new \in Processing /\ new.at = "deciding" /\ new.copy = disk
        /\ new.option = process[p].option
    BY <1>0 DEF Processing, Places
  <2>3. Becomes(p, new)
    BY <1>2 DEF LoadForResume
  <2> HIDE DEF new
  <2>4. FitToSave(new)
    BY <2>1, <2>2 DEF FitToSave
  <2> QED
    BY <1>0, <1>1, <2>2, <2>3, <2>4, MoveKeepsInv
<1>3. CASE ~Offers(disk, process[p].option)
  BY <1>1, <1>3, EndKeepsInv DEF LoadForResume
<1> QED
  BY <1>2, <1>3

LEMMA SaveDecisionKeepsInv ==
  ASSUME Inv, NEW p \in Processes, SaveDecision(p)
  PROVE  Inv'
<1>1. /\ process[p] \in Processing /\ RestTyped
      /\ Waiting(process[p].copy) /\ process[p].copy.pending # NoGate
      /\ process[p].option \in Options \cap process[p].copy.pending.options
  BY DEF Inv, Waiting, Consistent, TypeOK, RestTyped, FitToSave, SaveDecision
<1> DEFINE e == ApplyDecision(process[p].copy, process[p].option)
<1>2. Underway(e)
  BY <1>1, ApplyDecisionUnderway DEF Waiting
<1>3. process[p].copy.pending.id \in Nat
  BY <1>1 DEF Executions, Gates, Waiting
<1>4. answers' \in Seq(Answers)
  BY <1>1, <1>3 DEF SaveDecision, RestTyped, Answers, Processing
<1>5. RestTyped' /\ SaveCopy(p, e, "working")
  BY <1>1, <1>4 DEF SaveDecision, RestTyped
<1> HIDE DEF e
<1> QED
  BY <1>2, <1>5, SaveKeepsInv DEF Underway

LEMMA SaveProgressKeepsInv ==
  ASSUME Inv, NEW p \in Processes, SaveProgress(p)
  PROVE  Inv'
<1> DEFINE e == Record(process[p].copy, Event("AgentStarted"))
<1>1. Underway(process[p].copy) /\ RestTyped
  BY DEF Inv, TypeOK, RestTyped, FitToSave, SaveProgress
<1>2. Underway(e)
  BY <1>1, RecordUnderway
<1>3. RestTyped' /\ SaveCopy(p, e, "saved")
  BY <1>1 DEF SaveProgress, RestTyped
<1> HIDE DEF e
<1> QED
  BY <1>2, <1>3, SaveKeepsInv DEF Underway

LEMMA AskHumanKeepsInv ==
  ASSUME Inv, NEW p \in Processes, NEW options \in SUBSET Options, AskHuman(p, options)
  PROVE  Inv'
<1> DEFINE gate == [id |-> Len(process[p].copy.gates) + 1, options |-> options]
           e    == Ask(process[p].copy, gate)
<1>1. Underway(process[p].copy) /\ RestTyped
  BY DEF Inv, TypeOK, RestTyped, FitToSave, AskHuman
<1>2. Waiting(e)
  BY <1>1, AskConsistent DEF Waiting
<1>3. RestTyped' /\ SaveCopy(p, e, "paused")
  BY <1>1 DEF AskHuman, RestTyped
<1> HIDE DEF e
<1> QED
  BY <1>2, <1>3, SaveKeepsInv DEF Waiting

LEMMA FinishKeepsInv ==
  ASSUME Inv, NEW p \in Processes, Finish(p)
  PROVE  Inv'
<1> DEFINE done   == Complete(process[p].copy, [success |-> TRUE, changed |-> {}])
           failed == Fail(process[p].copy)
<1>1. Underway(process[p].copy) /\ RestTyped /\ RestTyped'
  BY DEF Inv, TypeOK, RestTyped, FitToSave, Finish
<1>2. [success |-> TRUE, changed |-> {}] \in Results
  BY DEF Results
<1>3. done \in Executions /\ Consistent(done)
  BY <1>1, <1>2, CompleteConsistent
<1>4. failed \in Executions /\ Consistent(failed)
  BY <1>1, FailConsistent
<1>5. SaveCopy(p, done, "none") \/ SaveCopy(p, failed, "none")
  BY DEF Finish
<1> HIDE DEF done, failed
<1> QED
  BY <1>1, <1>3, <1>4, <1>5, SaveKeepsInv

\* A handoff leaves the execution waiting, with its last gate open.
LEMMA HandoffConsistent ==
  ASSUME NEW e, Waiting(e)
  PROVE  RecordHandoff(e) \in Executions /\ Consistent(RecordHandoff(e))
<1> DEFINE h == RecordHandoff(e)
<1>1. e \in Executions /\ e.messages \in Seq(Events) /\ Event("HandoffOpened") \in Events
  BY EventIsEvent DEF Waiting, Executions, EventTypes
<1>2. h \in Executions
  BY <1>1, RecordIsExecution DEF RecordHandoff
<1>3. /\ h.messages = Append(e.messages, Event("HandoffOpened"))
      /\ h.status = e.status /\ h.pending = e.pending /\ h.gates = e.gates
  BY <1>1 DEF RecordHandoff, Record, Executions
<1>4. StatusOf(h.messages) = "WaitingForHuman"
  BY <1>1, <1>3, StatusOfLast DEF Event
<1> HIDE DEF h
<1>5. DecisionsMatchGates(h)
  BY <1>1, <1>2, <1>3, OtherEventsKeepMatch DEF Waiting, Consistent, Event
<1>6. Consistent(h)
  BY <1>3, <1>4, <1>5 DEF Waiting, Consistent
<1> QED
  BY <1>2, <1>6 DEF h

LEMMA HandOffOrLeaveKeepsInv ==
  ASSUME Inv, NEW p \in Processes, HandOff(p) \/ Leave(p)
  PROVE  Inv'
<1>1. RestTyped /\ Waiting(process[p].copy)
  BY DEF Inv, TypeOK, RestTyped, FitToSave, HandOff, Leave
<1>2. RestTyped'
  BY <1>1 DEF RestTyped, HandOff, Leave
<1>3. CASE HandOff(p)
  <2>1. SaveCopy(p, RecordHandoff(process[p].copy), "none")
    BY <1>3 DEF HandOff, HandedOff
  <2> QED
    BY <1>1, <1>2, <2>1, HandoffConsistent, SaveKeepsInv
<1>4. CASE Leave(p)
  BY <1>2, <1>4, EndKeepsInv DEF Leave
<1> QED
  BY <1>3, <1>4

LEMMA AnswerPromptKeepsInv ==
  ASSUME Inv, NEW p \in Processes, NEW option \in Options, AnswerPrompt(p, option)
  PROVE  Inv'
<1>1. /\ process[p] \in Processing /\ RestTyped /\ Waiting(process[p].copy)
      /\ disk \in Executions /\ Consistent(disk)
  BY DEF Inv, TypeOK, RestTyped, FitToSave, AnswerPrompt
<1> DEFINE new == [process[p] EXCEPT !.at = "accepted", !.copy = NoExecution,
                                     !.option = option, !.comment = NoComment,
                                     !.meant = process[p].copy.pending.id]
<1>2. process[p].copy.pending.id \in Nat
  BY <1>1 DEF Waiting, Consistent, Executions, Gates
<1>3. new \in Processing /\ new.at = "accepted"
  BY <1>1, <1>2 DEF Processing, Places
<1>4. Becomes(p, new) /\ UNCHANGED disk /\ RestTyped'
  BY <1>1 DEF AnswerPrompt, RestTyped
<1> HIDE DEF new
<1>5. FitToSave(new)
  BY <1>3 DEF FitToSave
<1> QED
  BY <1>1, <1>3, <1>4, <1>5, MoveKeepsInv

LEMMA SaveCancelKeepsInv ==
  ASSUME Inv, NEW p \in Processes, SaveCancel(p)
  PROVE  Inv'
<1> DEFINE e == Cancel(process[p].copy)
<1>1. process[p].copy \in Executions /\ Consistent(process[p].copy) /\ RestTyped
  BY DEF Inv, TypeOK, RestTyped, FitToSave, SaveCancel
<1>2. e \in Executions /\ Consistent(e)
  BY <1>1, CancelIsExecution, CancelConsistent
<1>3. RestTyped' /\ SaveCopy(p, e, "none")
  BY <1>1 DEF SaveCancel, RestTyped
<1> HIDE DEF e
<1> QED
  BY <1>2, <1>3, SaveKeepsInv

LEMMA CrashKeepsInv ==
  ASSUME Inv, NEW p \in Processes, Crash(p)
  PROVE  Inv'
<1>1. process[p].comment \in Comments \cup {NoComment} /\ RestTyped
  BY DEF Inv, TypeOK, RestTyped, Processing
<1>2. RestTyped' /\ Ends(p) /\ UNCHANGED disk
  BY <1>1 DEF Crash, RestTyped
<1> QED
  BY <1>2, EndKeepsInv

-----------------------------------------------------------------------------
LEMMA InvNext == Inv /\ [Next]_vars => Inv'
<1> SUFFICES ASSUME Inv, [Next]_vars PROVE Inv'
  OBVIOUS
<1>1. ASSUME NEW c \in Comments, NEW option \in Options, WriteComment(c, option)
      PROVE  Inv'
  <2>1. disk \in Executions /\ Consistent(disk) /\ RestTyped
    BY DEF Inv, TypeOK, RestTyped
  <2>2. disk.pending \in Gates /\ disk.pending.id \in Nat
    BY <1>1, <2>1 DEF WriteComment, Offers, Executions, Gates
  <2>3. written' \in [Comments -> [gate : Nat, option : Options \cup {NoOption}]]
    BY <1>1, <2>1, <2>2 DEF WriteComment, RestTyped
  <2> QED
    BY <1>1, <2>3 DEF WriteComment, Inv, TypeOK, Consistent, FitToSave
<1>2. ASSUME NEW c \in Comments, NEW p \in Processes, Deliver(c, p)
      PROVE  Inv'
  BY <1>2, DeliverKeepsInv
<1>3. ASSUME NEW p \in Processes, NEW option \in Options,
             ResumeCommand(p, option) \/ AnswerPrompt(p, option)
      PROVE  Inv'
  BY <1>3, ResumeCommandKeepsInv, AnswerPromptKeepsInv
<1>4. ASSUME NEW p \in Processes, CancelCommand(p) \/ Crash(p)
      PROVE  Inv'
  BY <1>4, CancelCommandKeepsInv, CrashKeepsInv
<1>5. ASSUME NEW p \in Processes, ProcessStep(p)
      PROVE  Inv'
  <2>1. CASE CheckMarker(p) \/ AcceptComment(p) \/ RefuseComment(p)
    BY <2>1, CommentKeepsInv
  <2>2. CASE LoadForResume(p) \/ SaveDecision(p) \/ SaveProgress(p)
    BY <2>2, LoadForResumeKeepsInv, SaveDecisionKeepsInv, SaveProgressKeepsInv
  <2>3. CASE \E options \in SUBSET Options : AskHuman(p, options)
    BY <2>3, AskHumanKeepsInv
  <2>4. CASE Finish(p) \/ SaveCancel(p)
    BY <2>4, FinishKeepsInv, SaveCancelKeepsInv
  <2>5. CASE HandOff(p) \/ Leave(p)
    BY <2>5, HandOffOrLeaveKeepsInv
  <2> QED
    BY <1>5, <2>1, <2>2, <2>3, <2>4, <2>5 DEF ProcessStep
<1>6. CASE UNCHANGED vars
  BY <1>6 DEF vars, Inv, TypeOK, Consistent, FitToSave
<1> QED
  BY <1>1, <1>2, <1>3, <1>4, <1>5, <1>6 DEF Next

LEMMA InvHolds == Spec => []Inv
BY InvInit, InvNext, PTL DEF Spec

(* Whatever the processes, the record on disk is consistent in itself: its *)
(* status is the one its log implies, and its open gate is its last        *)
(* (workspace/store.rs saves whole records, without a lock).               *)
THEOREM RecordIsAlwaysConsistent == Spec => []RecordIsConsistent
<1>1. Inv => RecordIsConsistent
  BY DEF Inv, Consistent, RecordIsConsistent
<1> QED
  BY <1>1, InvHolds, PTL

(* Every variable keeps its type; in particular, what is on disk is always *)
(* a whole execution.                                                      *)
THEOREM DecisionsTypeCorrect == Spec => []TypeOK
<1>1. Inv => TypeOK
  BY DEF Inv
<1> QED
  BY <1>1, InvHolds, PTL

-----------------------------------------------------------------------------
(* Processes kept apart by their callers.  Then a process's copy is what   *)
(* is on disk, gates stay as they were raised, and a comment's marker is   *)
(* written before its decision.                                            *)

\* The gate of that number offers the option.
Meets(e, gate, option) ==
  gate \in 1..Len(e.gates) /\ option \in e.gates[gate].options

HasDecided(c, decisions) == \E i \in 1..Len(decisions) : decisions[i].comment = c

InPlaceOf(p, e, seen, decisions) ==
  /\ p.at \in {"deciding", "working", "saved", "paused", "cancelling"} => p.copy = e
  /\ p.at \in {"checking", "authorizing", "accepted", "deciding"} =>
       Meets(e, p.meant, p.option)
  /\ p.at = "checking" => p.comment \in Comments
  /\ p.at = "authorizing" => p.comment \in Comments \ seen
  /\ p.at \in {"accepted", "deciding"} /\ p.comment # NoComment =>
       p.comment \in seen /\ ~HasDecided(p.comment, decisions)

AnswersMeet(e, seen, decisions) ==
  \A i \in 1..Len(decisions) :
    LET a == decisions[i]
    IN /\ a.comment \in seen \cup {NoComment}
       /\ a.meant <= a.answered
       /\ Meets(e, a.meant, a.option) /\ Meets(e, a.answered, a.option)

SerialInv ==
  /\ \A p, q \in Busy : p = q
  /\ \A p \in Processes : InPlaceOf(process[p], disk, marked, answers)
  /\ \A c \in Comments :
       written[c] # Unwritten => Meets(disk, written[c].gate, written[c].option)
  /\ AnswersMeet(disk, marked, answers)
  /\ EachCommentDecidesOnce

\* No step takes a gate away or puts another in its place.
GatesStay ==
  /\ Len(disk'.gates) \in Nat /\ Len(disk'.gates) >= Len(disk.gates)
  /\ \A n \in 1..Len(disk.gates) : disk'.gates[n] = disk.gates[n]

LEMMA MeetsStays ==
  ASSUME disk \in Executions, GatesStay, NEW gate, NEW option, Meets(disk, gate, option)
  PROVE  Meets(disk', gate, option)
<1>1. Len(disk.gates) \in Nat
  BY DEF Executions
<1> QED
  BY <1>1 DEF GatesStay, Meets

LEMMA SerialInvInit == Init => SerialInv
<1> SUFFICES ASSUME Init PROVE SerialInv
  OBVIOUS
<1>1. PICK p \in Processes :
        process = [q \in Processes |->
                     IF q = p THEN [Free EXCEPT !.at = "working", !.copy = disk]
                     ELSE Free]
  BY DEF Init
<1>2. \A q \in Processes :
        /\ q # p => process[q].at = "none"
        /\ process[p].at = "working" /\ process[p].copy = disk
  BY <1>1 DEF Free
<1>3. \A q \in Processes : InPlaceOf(process[q], disk, marked, answers)
  BY <1>2 DEF InPlaceOf
<1>4. \A q, r \in Busy : q = r
  BY <1>2 DEF Busy
<1>5. written = [c \in Comments |-> Unwritten] /\ answers = <<>>
  BY DEF Init
<1> QED
  BY <1>3, <1>4, <1>5 DEF SerialInv, EachCommentDecidesOnce, AnswersMeet

\* Answers and comments, when gates stay and markers are only added.
LEMMA AnswersStay ==
  ASSUME Inv, SerialInv, GatesStay, answers' = answers, marked \subseteq marked'
  PROVE  AnswersMeet(disk', marked', answers') /\ EachCommentDecidesOnce'
<1>1. disk \in Executions /\ answers \in Seq(Answers)
  BY DEF Inv, TypeOK
<1>2. ASSUME NEW i \in 1..Len(answers)
      PROVE  LET a == answers[i]
             IN /\ a.comment \in marked' \cup {NoComment}
                /\ a.meant <= a.answered
                /\ Meets(disk', a.meant, a.option) /\ Meets(disk', a.answered, a.option)
  <2> DEFINE a == answers[i]
  <2>1. /\ a.comment \in marked \cup {NoComment} /\ a.meant <= a.answered
        /\ Meets(disk, a.meant, a.option) /\ Meets(disk, a.answered, a.option)
    BY DEF SerialInv, AnswersMeet
  <2> HIDE DEF a
  <2>2. Meets(disk', a.meant, a.option) /\ Meets(disk', a.answered, a.option)
    BY <1>1, <2>1, MeetsStays
  <2> QED
    BY <2>1, <2>2 DEF a
<1>3. AnswersMeet(disk', marked', answers')
  BY <1>2 DEF AnswersMeet
<1> QED
  BY <1>3 DEF SerialInv, EachCommentDecidesOnce

LEMMA CommentsMeet ==
  ASSUME Inv, SerialInv, GatesStay, NEW c \in Comments, written[c] # Unwritten
  PROVE  Meets(disk', written[c].gate, written[c].option)
BY MeetsStays DEF SerialInv, Inv, TypeOK

\* A choice the open gate offers.
LEMMA OpenGateMeets ==
  ASSUME NEW e \in Executions, Consistent(e), e.pending # NoGate,
         NEW option, option \in e.pending.options
  PROVE  Meets(e, e.pending.id, option)
<1>1. e.gates \in Seq(Gates) /\ e.gates # <<>>
  BY DEF Executions, Consistent
<1>2. Len(e.gates) \in 1..Len(e.gates)
  BY <1>1
<1> QED
  BY <1>2 DEF Consistent, Meets

\* What an action has to show of the one process there is.
LEMMA AloneKeepsSerialInv ==
  ASSUME Inv, SerialInv, NEW p \in Processes, Busy \subseteq {p},
         NEW new, Becomes(p, new), InPlaceOf(new, disk', marked', answers'), GatesStay,
         written' = written, AnswersMeet(disk', marked', answers'), EachCommentDecidesOnce'
  PROVE  SerialInv'
<1>1. process \in [Processes -> Processing]
  BY DEF Inv, TypeOK
<1>2. \A q \in Processes : process'[q] = IF q = p THEN new ELSE process[q]
  BY <1>1 DEF Becomes
<1>3. \A q \in Processes : q # p => process'[q].at = "none"
  BY <1>2 DEF Busy
<1>4. (\A q, r \in Busy : q = r)'
  BY <1>3 DEF Busy
<1>5. ASSUME NEW q \in Processes
      PROVE  InPlaceOf(process'[q], disk', marked', answers')
  <2>1. CASE q = p
    BY <1>2, <2>1
  <2>2. CASE q # p
    BY <1>3, <2>2 DEF InPlaceOf
  <2> QED
    BY <2>1, <2>2
<1>6. (\A q \in Processes : InPlaceOf(process[q], disk, marked, answers))'
  BY <1>5
<1> QED
  BY <1>4, <1>6, CommentsMeet DEF SerialInv

\* The steps that leave the record and the answers alone.
LEMMA MoveKeepsSerialInv ==
  ASSUME Inv, SerialInv, NEW p \in Processes, Busy \subseteq {p},
         NEW new, Becomes(p, new), InPlaceOf(new, disk', marked', answers'),
         marked \subseteq marked', UNCHANGED <<disk, written, answers>>
  PROVE  SerialInv'
<1>1. GatesStay
  BY DEF GatesStay, Inv, TypeOK, Executions
<1> QED
  BY <1>1, AnswersStay, AloneKeepsSerialInv

LEMMA EndKeepsSerialInv ==
  ASSUME Inv, SerialInv, NEW p \in Processes, Busy \subseteq {p}, Ends(p),
         UNCHANGED <<disk, written, answers, marked>>
  PROVE  SerialInv'
<1>1. InPlaceOf(Free, disk', marked', answers')
  BY DEF Free, InPlaceOf
<1> QED
  BY <1>1, MoveKeepsSerialInv DEF Ends

LEMMA StartsAlone ==
  ASSUME OneAtATime, NEW p \in Processes, MayStart(p)
  PROVE  Busy \subseteq {p}
BY DEF MayStart

LEMMA WorksAlone ==
  ASSUME SerialInv, NEW p \in Processes, process[p].at # "none"
  PROVE  Busy \subseteq {p}
BY DEF SerialInv, Busy

\* Starting a process.
LEMMA StartKeepsSerialInv ==
  ASSUME Inv, SerialInv, OneAtATime, NEW p \in Processes,
         \/ \E c \in Comments : Deliver(c, p)
         \/ \E option \in Options : ResumeCommand(p, option)
         \/ CancelCommand(p)
  PROVE  SerialInv'
<1>0. Busy \subseteq {p}
  BY StartsAlone DEF Deliver, ResumeCommand, CancelCommand
<1>1. ASSUME NEW c \in Comments, Deliver(c, p)
      PROVE  SerialInv'
  <2> DEFINE new == [Free EXCEPT !.at = "checking", !.option = written[c].option,
                                 !.comment = c, !.meant = written[c].gate]
  <2>1. Becomes(p, new) /\ UNCHANGED <<disk, written, answers, marked>>
    BY <1>1 DEF Deliver
  <2>2. Meets(disk, written[c].gate, written[c].option)
    BY <1>1 DEF SerialInv, Deliver
  <2>3. InPlaceOf(new, disk', marked', answers')
    BY <2>1, <2>2 DEF InPlaceOf, Meets, Free
  <2> HIDE DEF new
  <2> QED
    BY <1>0, <2>1, <2>3, MoveKeepsSerialInv
<1>2. ASSUME NEW option \in Options, ResumeCommand(p, option)
      PROVE  SerialInv'
  <2> DEFINE new == [Free EXCEPT !.at = "accepted", !.option = option,
                                 !.meant = disk.pending.id]
  <2>1. Becomes(p, new) /\ UNCHANGED <<disk, written, answers, marked>>
    BY <1>2 DEF ResumeCommand
  <2>2. Meets(disk, disk.pending.id, option)
    BY <1>2, OpenGateMeets DEF ResumeCommand, Offers, Inv, TypeOK
  <2>3. InPlaceOf(new, disk', marked', answers')
    BY <2>1, <2>2 DEF InPlaceOf, Meets, Free
  <2> HIDE DEF new
  <2> QED
    BY <1>0, <2>1, <2>3, MoveKeepsSerialInv
<1>3. CASE CancelCommand(p)
  <2> DEFINE new == [Free EXCEPT !.at = "cancelling", !.copy = disk]
  <2>1. Becomes(p, new) /\ UNCHANGED <<disk, written, answers, marked>>
    BY <1>3 DEF CancelCommand
  <2>2. InPlaceOf(new, disk', marked', answers')
    BY <2>1 DEF InPlaceOf, Free
  <2> HIDE DEF new
  <2> QED
    BY <1>0, <2>1, <2>2, MoveKeepsSerialInv
<1> QED
  BY <1>1, <1>2, <1>3

\* The comment job, the load and the prompt.
LEMMA CommentKeepsSerialInv ==
  ASSUME Inv, SerialInv, NEW p \in Processes,
         CheckMarker(p) \/ AcceptComment(p) \/ RefuseComment(p)
  PROVE  SerialInv'
<1>0. /\ process[p] \in Processing /\ InPlaceOf(process[p], disk, marked, answers) /\ Busy \subseteq {p}
      /\ UNCHANGED <<disk, written, answers>>
  BY WorksAlone DEF CheckMarker, AcceptComment, RefuseComment, Inv, TypeOK, SerialInv
<1>1. CASE CheckMarker(p)
  <2> DEFINE new == [process[p] EXCEPT !.at = "authorizing"]
  <2>1. /\ process[p].at = "checking" /\ marked' = marked
        /\ Ends(p) \/ (process[p].comment \notin marked /\ Becomes(p, new))
    BY <1>1 DEF CheckMarker, AlreadyProcessed, MovesTo
  <2>2. new.at = "authorizing" /\ new.comment = process[p].comment
        /\ new.meant = process[p].meant /\ new.option = process[p].option
    BY <1>0 DEF Processing
  <2> HIDE DEF new
  <2>3. process[p].comment \notin marked => InPlaceOf(new, disk', marked', answers')
    BY <1>0, <2>1, <2>2 DEF InPlaceOf, Meets
  <2> QED
    BY <1>0, <2>1, <2>3, EndKeepsSerialInv, MoveKeepsSerialInv
<1>2. CASE AcceptComment(p)
  <2> DEFINE new == [process[p] EXCEPT !.at = "accepted"]
  <2>1. /\ process[p].at = "authorizing" /\ Becomes(p, new)
        /\ marked' = marked \cup {process[p].comment}
    BY <1>2 DEF AcceptComment, MovesTo
  <2>2. new.at = "accepted" /\ new.comment = process[p].comment
        /\ new.meant = process[p].meant /\ new.option = process[p].option
    BY <1>0 DEF Processing
  <2> HIDE DEF new
  <2>3. process[p].comment \in Comments \ marked
    BY <1>0, <2>1 DEF InPlaceOf
  <2>4. ~HasDecided(process[p].comment, answers)
    BY <2>3, DecisionsAssumption DEF SerialInv, AnswersMeet, HasDecided
  <2>5. InPlaceOf(new, disk', marked', answers')
    BY <1>0, <2>1, <2>2, <2>4 DEF InPlaceOf, Meets, HasDecided
  <2> QED
    BY <1>0, <2>1, <2>5, MoveKeepsSerialInv
<1>3. CASE RefuseComment(p)
  BY <1>0, <1>3, EndKeepsSerialInv DEF RefuseComment, LeftUnmarked
<1> QED
  BY <1>1, <1>2, <1>3

LEMMA LoadKeepsSerialInv ==
  ASSUME Inv, SerialInv, NEW p \in Processes, LoadForResume(p)
  PROVE  SerialInv'
<1>0. /\ process[p] \in Processing /\ InPlaceOf(process[p], disk, marked, answers) /\ Busy \subseteq {p}
      /\ process[p].at = "accepted" /\ UNCHANGED <<disk, written, answers, marked>>
  BY WorksAlone DEF LoadForResume, Inv, TypeOK, SerialInv
<1> DEFINE new == [process[p] EXCEPT !.copy = disk, !.at = "deciding"]
<1>1. Ends(p) \/ Becomes(p, new)
  BY DEF LoadForResume
<1>2. new.at = "deciding" /\ new.copy = disk /\ new.comment = process[p].comment
      /\ new.meant = process[p].meant /\ new.option = process[p].option
  BY <1>0 DEF Processing
<1> HIDE DEF new
<1>3. InPlaceOf(new, disk', marked', answers')
  BY <1>0, <1>2 DEF InPlaceOf, Meets, HasDecided
<1> QED
  BY <1>0, <1>1, <1>3, EndKeepsSerialInv, MoveKeepsSerialInv

LEMMA PromptKeepsSerialInv ==
  ASSUME Inv, SerialInv, NEW p \in Processes, NEW option \in Options,
         AnswerPrompt(p, option)
  PROVE  SerialInv'
<1>0. /\ process[p] \in Processing /\ InPlaceOf(process[p], disk, marked, answers) /\ Busy \subseteq {p}
      /\ process[p].at = "paused" /\ UNCHANGED <<disk, written, answers, marked>>
      /\ option \in process[p].copy.pending.options
  BY WorksAlone DEF AnswerPrompt, Inv, TypeOK, SerialInv
<1> DEFINE new == [process[p] EXCEPT !.at = "accepted", !.copy = NoExecution,
                                     !.option = option, !.comment = NoComment,
                                     !.meant = process[p].copy.pending.id]
<1>1. Becomes(p, new)
  BY DEF AnswerPrompt
<1>2. process[p].copy = disk /\ disk.status = "WaitingForHuman"
  BY <1>0 DEF InPlaceOf, Inv, FitToSave, Waiting
<1>3. new.at = "accepted" /\ new.comment = NoComment
      /\ new.meant = disk.pending.id /\ new.option = option
  BY <1>0, <1>2 DEF Processing
<1> HIDE DEF new
<1>4. Meets(disk, disk.pending.id, option)
  BY <1>0, <1>2, OpenGateMeets DEF Inv, TypeOK, Consistent
<1>5. InPlaceOf(new, disk', marked', answers')
  BY <1>0, <1>3, <1>4 DEF InPlaceOf, Meets
<1> QED
  BY <1>0, <1>1, <1>5, MoveKeepsSerialInv

-----------------------------------------------------------------------------
(* The steps that save.  The copy is what is on disk, so each appends to   *)
(* the log, leaves the gates, and takes the life cycle on.                 *)

LogStays ==
  \A i \in DOMAIN disk.messages :
    i \in DOMAIN disk'.messages /\ disk'.messages[i] = disk.messages[i]

Along == GatesStay /\ LogStays /\ [Lifecycle!Next]_(Lifecycle!lifecycle)

\* The copy of a process that is about to save.
LEMMA CopyIsDisk ==
  ASSUME Inv, SerialInv, NEW p \in Processes,
         process[p].at \in {"deciding", "working", "saved", "paused", "cancelling"}
  PROVE  /\ process[p].copy = disk /\ disk \in Executions /\ Consistent(disk)
         /\ disk.messages \in Seq(Events) /\ disk.gates \in Seq(Gates)
         /\ Busy \subseteq {p} /\ process[p] \in Processing
         /\ process[p].at \in {"working", "saved"} => Underway(disk)
         /\ process[p].at \in {"deciding", "paused"} => Waiting(disk)
         /\ process[p].at = "deciding" =>
              process[p].option \in Options \cap disk.pending.options
<1>1. InPlaceOf(process[p], disk, marked, answers) /\ FitToSave(process[p])
  BY DEF Inv, SerialInv
<1>2. process[p].copy = disk
  BY <1>1 DEF InPlaceOf
<1>3. /\ disk \in Executions /\ Consistent(disk) /\ process[p] \in Processing
      /\ Busy \subseteq {p}
  BY WorksAlone DEF Inv, TypeOK
<1> QED
  BY <1>1, <1>2, <1>3 DEF FitToSave, Executions

LEMMA DecideAlong ==
  ASSUME disk \in Executions, Waiting(disk),
         NEW option \in Options \cap disk.pending.options,
         disk' = ApplyDecision(disk, option)
  PROVE  Along
<1>1. disk.messages \in Seq(Events) /\ disk.gates \in Seq(Gates)
  BY DEF Executions
<1>2. disk'.messages = Append(Append(disk.messages,
                                     [type |-> "HumanDecided", option |-> option]),
                              Event("AgentResumed"))
  BY DEF ApplyDecision, Executions
<1>3. /\ disk'.status = "Running" /\ disk'.pending = NoGate
      /\ disk'.gates = disk.gates /\ disk'.result = disk.result
  BY ApplyDecisionUnderway DEF Waiting, Underway
<1>4. GatesStay
  BY <1>1, <1>3 DEF GatesStay
<1>5. LogStays
  BY <1>1, <1>2 DEF LogStays
<1>6. disk.status = "WaitingForHuman" /\ disk.pending # NoGate /\ disk.pending.id # 0
  BY <1>1 DEF Waiting, Consistent
<1>7. Lifecycle!Decide
  BY <1>3, <1>6 DEF Lifecycle!Decide
<1> QED
  BY <1>4, <1>5, <1>7 DEF Along, Lifecycle!Next

\* The methods that append one event.
LEMMA AppendAlong ==
  ASSUME disk \in Executions, NEW event \in Events,
         disk'.messages = Append(disk.messages, event),
         \/ disk'.gates = disk.gates
         \/ \E gate \in Gates : disk'.gates = Append(disk.gates, gate)
  PROVE  GatesStay /\ LogStays
<1>1. disk.messages \in Seq(Events) /\ disk.gates \in Seq(Gates)
  BY DEF Executions
<1>2. GatesStay
  BY <1>1 DEF GatesStay
<1>3. LogStays
  BY <1>1 DEF LogStays
<1> QED
  BY <1>2, <1>3

LEMMA AskAlong ==
  ASSUME Underway(disk), NEW options \in SUBSET Options,
         disk' = Ask(disk, [id |-> Len(disk.gates) + 1, options |-> options])
  PROVE  Along
<1> DEFINE gate == [id |-> Len(disk.gates) + 1, options |-> options]
<1>1. disk \in Executions /\ disk.gates \in Seq(Gates) /\ disk.pending = NoGate
      /\ disk.status = "Running" /\ Event("QuestionRaised") \in Events
  BY EventIsEvent DEF Underway, Consistent, Executions, EventTypes
<1>2. gate \in Gates /\ gate # NoGate /\ gate.id = Len(disk.gates) + 1
  BY <1>1, ExecutionAssumption DEF Gates
<1>3. /\ disk'.messages = Append(disk.messages, Event("QuestionRaised"))
      /\ disk'.gates = Append(disk.gates, gate) /\ disk'.pending = gate
      /\ disk'.status = "WaitingForHuman" /\ disk'.result = disk.result
  BY <1>1 DEF Ask, AddGate, Record, Executions
<1> HIDE DEF gate
<1>4. GatesStay /\ LogStays
  BY <1>1, <1>2, <1>3, AppendAlong
<1>5. Len(disk'.gates) = Len(disk.gates) + 1
  BY <1>1, <1>2, <1>3
<1>6. Lifecycle!RaiseGate
  BY <1>1, <1>2, <1>3, <1>5 DEF Lifecycle!RaiseGate
<1> QED
  BY <1>4, <1>6 DEF Along, Lifecycle!Next

LEMMA RecordAlong ==
  ASSUME disk \in Executions,
         NEW type \in {"AgentStarted", "HandoffOpened"}, disk' = Record(disk, Event(type))
  PROVE  Along
<1>1. Event(type) \in Events
  BY EventIsEvent DEF EventTypes
<1>2. /\ disk'.messages = Append(disk.messages, Event(type))
      /\ disk'.gates = disk.gates /\ disk'.pending = disk.pending
      /\ disk'.status = disk.status /\ disk'.result = disk.result
  BY DEF Record, Executions
<1>3. GatesStay /\ LogStays
  BY <1>1, <1>2, AppendAlong
<1> QED
  BY <1>2, <1>3 DEF Along, Lifecycle!lifecycle

LEMMA FinishAlong ==
  ASSUME Underway(disk),
         \/ disk' = Complete(disk, [success |-> TRUE, changed |-> {}])
         \/ disk' = Fail(disk)
  PROVE  Along
<1>1. /\ disk \in Executions /\ disk.status = "Running" /\ disk.pending = NoGate
      /\ disk.status # "Absent"
  BY DEF Underway, Consistent
<1>0. Event("Completed") \in Events /\ Event("Failed") \in Events
  BY EventIsEvent DEF EventTypes
<1>2. CASE disk' = Complete(disk, [success |-> TRUE, changed |-> {}])
  <2> DEFINE result == [success |-> TRUE, changed |-> {}]
  <2>0. result \in Results /\ result.success
    BY DEF Results
  <2>1. result # NoResult /\ result.success
    BY <2>0, ExecutionAssumption
  <2> HIDE DEF result
  <2>2. disk' = Complete(disk, result)
    BY <1>2 DEF result
  <2>3. /\ disk'.messages = Append(disk.messages, Event("Completed"))
        /\ disk'.gates = disk.gates /\ disk'.pending = disk.pending
        /\ disk'.status = "Completed" /\ disk'.result = result
    BY <1>1, <2>2 DEF Complete, Record, Executions
  <2>4. Lifecycle!Succeed
    BY <1>1, <2>1, <2>3 DEF Lifecycle!Succeed
  <2>5. GatesStay /\ LogStays
    BY <1>0, <1>1, <2>3, AppendAlong
  <2> QED
    BY <2>4, <2>5 DEF Along, Lifecycle!Next
<1>3. CASE disk' = Fail(disk)
  <2> DEFINE result == [success |-> FALSE, changed |-> disk.artifacts]
  <2>0. result \in Results /\ ~result.success
    BY <1>1 DEF Results, Executions
  <2>1. result # NoResult /\ ~result.success
    BY <2>0, ExecutionAssumption
  <2>2. disk' = [Record(disk, Event("Failed")) EXCEPT !.status = "Failed", !.result = result]
    BY <1>3 DEF Fail
  <2> HIDE DEF result
  <2>3. /\ disk'.messages = Append(disk.messages, Event("Failed"))
        /\ disk'.gates = disk.gates /\ disk'.pending = disk.pending
        /\ disk'.status = "Failed" /\ disk'.result = result
    BY <1>1, <2>2 DEF Record, Executions
  <2>4. Lifecycle!GiveUp
    BY <1>1, <2>1, <2>3 DEF Lifecycle!GiveUp
  <2>5. GatesStay /\ LogStays
    BY <1>0, <1>1, <2>3, AppendAlong
  <2> QED
    BY <2>4, <2>5 DEF Along, Lifecycle!Next
<1> QED
  BY <1>2, <1>3

LEMMA CancelAlong ==
  ASSUME disk \in Executions, Consistent(disk), disk' = Cancel(disk)
  PROVE  Along
<1>1. Event("Cancelled") \in Events
  BY EventIsEvent DEF EventTypes
<1>2. /\ disk'.messages = Append(disk.messages, Event("Cancelled"))
      /\ disk'.gates = disk.gates
  BY DEF Cancel, OnRecord, Record, Executions
<1>3. /\ disk'.status = "Cancelled" /\ disk'.pending = NoGate
      /\ disk'.result \in Results /\ ~disk'.result.success
  BY CancelConsistent
<1>4. disk.status # "Absent"
  BY DEF Executions, Statuses
<1>5. Lifecycle!CallOff
  BY <1>2, <1>3, <1>4, ExecutionAssumption DEF Lifecycle!CallOff
<1>6. GatesStay /\ LogStays
  BY <1>1, <1>2, AppendAlong
<1> QED
  BY <1>5, <1>6 DEF Along, Lifecycle!Next

\* A save of the copy, which is then what is on disk.
LEMMA SaveKeepsSerialInv ==
  ASSUME Inv, SerialInv, NEW p \in Processes, NEW e,
         NEW place \in {"working", "saved", "paused", "none"},
         process[p] \in Processing, Busy \subseteq {p},
         SaveCopy(p, e, place), GatesStay, written' = written,
         AnswersMeet(disk', marked', answers'), EachCommentDecidesOnce'
  PROVE  SerialInv'
<1> DEFINE new == IF place = "none" THEN Free
                  ELSE [process[p] EXCEPT !.copy = e, !.at = place]
<1>1. Becomes(p, new) /\ disk' = e
  BY DEF SaveCopy
<1>2. \/ new = Free
      \/ new.copy = e /\ new.at \in {"working", "saved", "paused"}
  BY DEF Processing
<1> HIDE DEF new
<1>3. InPlaceOf(new, disk', marked', answers')
  BY <1>1, <1>2 DEF Free, InPlaceOf
<1> QED
  BY <1>1, <1>3, AloneKeepsSerialInv

LEMMA SaveDecisionAlong ==
  ASSUME Inv, SerialInv, NEW p \in Processes, SaveDecision(p)
  PROVE  Along /\ SerialInv'
<1>1. process[p].at = "deciding"
  BY DEF SaveDecision
<1>2. /\ process[p].copy = disk /\ disk \in Executions /\ Waiting(disk)
      /\ Busy \subseteq {p} /\ process[p] \in Processing
      /\ process[p].option \in Options \cap disk.pending.options
  BY <1>1, CopyIsDisk
<1> DEFINE answer == [comment  |-> process[p].comment,
                      option   |-> process[p].option,
                      meant    |-> process[p].meant,
                      answered |-> disk.pending.id]
           e      == ApplyDecision(disk, process[p].option)
<1>3. /\ SaveCopy(p, e, "working") /\ answers' = Append(answers, answer)
      /\ marked' = marked /\ written' = written
  BY <1>2 DEF SaveDecision
<1>4. Along
  BY <1>2, <1>3, DecideAlong DEF SaveCopy
<1>5. /\ Meets(disk, process[p].meant, process[p].option)
      /\ process[p].comment # NoComment =>
           process[p].comment \in marked /\ ~HasDecided(process[p].comment, answers)
  BY <1>1 DEF SerialInv, InPlaceOf
<1>6. Meets(disk, disk.pending.id, process[p].option) /\ disk.pending.id = Len(disk.gates)
  BY <1>2, OpenGateMeets DEF Waiting, Consistent
<1>7. /\ Meets(disk', process[p].meant, process[p].option)
      /\ Meets(disk', disk.pending.id, process[p].option)
  BY <1>2, <1>4, <1>5, <1>6, MeetsStays DEF Along
<1>8. process[p].meant <= disk.pending.id
  BY <1>5, <1>6 DEF Meets
<1>9. answers \in Seq(Answers)
  BY DEF Inv, TypeOK
<1>10. \A i \in 1..Len(answers) :
         LET a == answers[i]
         IN /\ a.comment \in marked \cup {NoComment} /\ a.meant <= a.answered
            /\ Meets(disk', a.meant, a.option) /\ Meets(disk', a.answered, a.option)
  BY <1>2, <1>4, MeetsStays DEF SerialInv, AnswersMeet, Along
<1>11. /\ Len(answers') = Len(answers) + 1 /\ Len(answers) \in Nat
       /\ \A i \in 1..Len(answers) : answers'[i] = answers[i]
       /\ answers'[Len(answers) + 1] = answer
  BY <1>3, <1>9
<1>12. AnswersMeet(disk', marked', answers')
  <2> SUFFICES ASSUME NEW i \in 1..(Len(answers) + 1)
               PROVE  LET a == answers'[i]
                      IN /\ a.comment \in marked' \cup {NoComment} /\ a.meant <= a.answered
                         /\ Meets(disk', a.meant, a.option)
                         /\ Meets(disk', a.answered, a.option)
    BY <1>11 DEF AnswersMeet
  <2>1. CASE i \in 1..Len(answers)
    BY <1>3, <1>10, <1>11, <2>1
  <2>2. CASE i = Len(answers) + 1
    <3>1. answers'[i] = answer
      BY <1>11, <2>2
    <3> QED
      BY <1>3, <1>5, <1>7, <1>8, <3>1
  <2> QED
    BY <1>11, <2>1, <2>2
<1>13. EachCommentDecidesOnce'
  <2>1. \A i \in 1..Len(answers) :
          answers[i].comment = process[p].comment => process[p].comment = NoComment
    BY <1>5 DEF HasDecided
  <2> QED
    BY <1>11, <2>1 DEF SerialInv, EachCommentDecidesOnce
<1> HIDE DEF e, answer
<1> QED
  BY <1>2, <1>3, <1>4, <1>12, <1>13, SaveKeepsSerialInv DEF Along

LEMMA RunAlong ==
  ASSUME Inv, SerialInv, NEW p \in Processes,
         \/ SaveProgress(p)
         \/ \E options \in SUBSET Options : AskHuman(p, options)
         \/ Finish(p)
  PROVE  Along /\ SerialInv'
<1>1. process[p].at \in {"working", "saved"} /\ UNCHANGED <<marked, written, answers>>
  BY DEF SaveProgress, AskHuman, Finish
<1>2. /\ process[p].copy = disk /\ Underway(disk) /\ Busy \subseteq {p}
      /\ process[p] \in Processing /\ disk \in Executions
  BY <1>1, CopyIsDisk
<1>3. ASSUME NEW e, NEW place \in {"saved", "paused", "none"}, SaveCopy(p, e, place), Along
      PROVE  SerialInv'
  BY <1>1, <1>2, <1>3, AnswersStay, SaveKeepsSerialInv DEF Along
<1>4. CASE SaveProgress(p)
  <2>1. SaveCopy(p, Record(disk, Event("AgentStarted")), "saved")
    BY <1>2, <1>4 DEF SaveProgress
  <2>2. Along
    BY <1>2, <2>1, RecordAlong DEF SaveCopy
  <2> QED
    BY <1>3, <2>1, <2>2
<1>5. ASSUME NEW options \in SUBSET Options, AskHuman(p, options)
      PROVE  Along /\ SerialInv'
  <2>1. SaveCopy(p, Ask(disk, [id |-> Len(disk.gates) + 1, options |-> options]), "paused")
    BY <1>2, <1>5 DEF AskHuman
  <2>2. Along
    BY <1>2, <2>1, AskAlong DEF SaveCopy
  <2> QED
    BY <1>3, <2>1, <2>2
<1>6. CASE Finish(p)
  <2>1. \/ SaveCopy(p, Complete(disk, [success |-> TRUE, changed |-> {}]), "none")
        \/ SaveCopy(p, Fail(disk), "none")
    BY <1>2, <1>6 DEF Finish
  <2>2. Along
    BY <1>2, <2>1, FinishAlong DEF SaveCopy
  <2> QED
    BY <1>3, <2>1, <2>2
<1> QED
  BY <1>4, <1>5, <1>6

LEMMA EndAlong ==
  ASSUME Inv, SerialInv, NEW p \in Processes, HandOff(p) \/ SaveCancel(p)
  PROVE  Along /\ SerialInv'
<1>1. process[p].at \in {"paused", "cancelling"} /\ UNCHANGED <<marked, written, answers>>
  BY DEF HandOff, SaveCancel
<1>2. /\ process[p].copy = disk /\ disk \in Executions /\ Consistent(disk)
      /\ Busy \subseteq {p} /\ process[p] \in Processing
  BY <1>1, CopyIsDisk
<1>3. ASSUME NEW e, SaveCopy(p, e, "none"), Along
      PROVE  SerialInv'
  BY <1>1, <1>2, <1>3, AnswersStay, SaveKeepsSerialInv DEF Along
<1>4. CASE HandOff(p)
  <2>1. SaveCopy(p, Record(disk, Event("HandoffOpened")), "none")
    BY <1>2, <1>4 DEF HandOff, HandedOff, RecordHandoff
  <2>2. Along
    BY <1>2, <2>1, RecordAlong DEF SaveCopy
  <2> QED
    BY <1>3, <2>1, <2>2
<1>5. CASE SaveCancel(p)
  <2>1. SaveCopy(p, Cancel(disk), "none")
    BY <1>2, <1>5 DEF SaveCancel
  <2>2. Along
    BY <1>2, <2>1, CancelAlong DEF SaveCopy
  <2> QED
    BY <1>3, <2>1, <2>2
<1> QED
  BY <1>4, <1>5

\* A step that leaves the record alone.
LEMMA IdleIsAlong == disk' = disk /\ disk \in Executions => Along
BY DEF Along, GatesStay, LogStays, Executions, Lifecycle!lifecycle

-----------------------------------------------------------------------------
LEMMA SerialStep ==
  ASSUME OneAtATime, Inv, SerialInv, [Next]_vars
  PROVE  Along /\ SerialInv'
<1>0. disk \in Executions /\ Consistent(disk) /\ process \in [Processes -> Processing]
      /\ written \in [Comments -> [gate : Nat, option : Options \cup {NoOption}]]
  BY DEF Inv, TypeOK
<1>1. ASSUME NEW c \in Comments, NEW option \in Options, WriteComment(c, option)
      PROVE  Along /\ SerialInv'
  <2>1. /\ UNCHANGED <<disk, marked, process, answers>>
        /\ written' = [written EXCEPT ![c] = [gate |-> disk.pending.id, option |-> option]]
    BY <1>1 DEF WriteComment
  <2>2. Meets(disk, disk.pending.id, option)
    BY <1>0, <1>1, OpenGateMeets DEF WriteComment, Offers
  <2>3. \A d \in Comments :
          written'[d] # Unwritten => Meets(disk, written'[d].gate, written'[d].option)
    BY <1>0, <2>1, <2>2 DEF SerialInv
  <2> QED
    BY <1>0, <2>1, <2>3, IdleIsAlong DEF SerialInv, Busy, EachCommentDecidesOnce
<1>2. ASSUME NEW p \in Processes,
             \/ \E c \in Comments : Deliver(c, p)
             \/ \E option \in Options : ResumeCommand(p, option)
             \/ CancelCommand(p)
      PROVE  Along /\ SerialInv'
  <2>1. disk' = disk
    BY <1>2 DEF Deliver, ResumeCommand, CancelCommand
  <2> QED
    BY <1>0, <1>2, <2>1, IdleIsAlong, StartKeepsSerialInv
<1>3. ASSUME NEW p \in Processes, NEW option \in Options, AnswerPrompt(p, option)
      PROVE  Along /\ SerialInv'
  <2>1. disk' = disk
    BY <1>3 DEF AnswerPrompt
  <2> QED
    BY <1>0, <1>3, <2>1, IdleIsAlong, PromptKeepsSerialInv
<1>4. ASSUME NEW p \in Processes, Crash(p) \/ Leave(p)
      PROVE  Along /\ SerialInv'
  <2>1. UNCHANGED <<disk, written, answers, marked>> /\ Ends(p) /\ process[p].at # "none"
    BY <1>4 DEF Crash, Leave, Busy
  <2> QED
    BY <1>0, <2>1, IdleIsAlong, WorksAlone, EndKeepsSerialInv
<1>5. ASSUME NEW p \in Processes, ProcessStep(p)
      PROVE  Along /\ SerialInv'
  <2>1. CASE CheckMarker(p) \/ AcceptComment(p) \/ RefuseComment(p)
    <3>1. disk' = disk
      BY <2>1 DEF CheckMarker, AcceptComment, RefuseComment
    <3> QED
      BY <1>0, <2>1, <3>1, IdleIsAlong, CommentKeepsSerialInv
  <2>2. CASE LoadForResume(p)
    <3>1. disk' = disk
      BY <2>2 DEF LoadForResume
    <3> QED
      BY <1>0, <2>2, <3>1, IdleIsAlong, LoadKeepsSerialInv
  <2>3. CASE SaveDecision(p)
    BY <2>3, SaveDecisionAlong
  <2>4. CASE \/ SaveProgress(p) \/ Finish(p)
             \/ \E options \in SUBSET Options : AskHuman(p, options)
    BY <2>4, RunAlong
  <2>5. CASE HandOff(p) \/ SaveCancel(p)
    BY <2>5, EndAlong
  <2>6. CASE Leave(p)
    BY <1>4, <2>6
  <2> QED
    BY <1>5, <2>1, <2>2, <2>3, <2>4, <2>5, <2>6 DEF ProcessStep
<1>6. CASE UNCHANGED vars
  <2>1. UNCHANGED <<disk, marked, written, process, answers>>
    BY <1>6 DEF vars
  <2> QED
    BY <1>0, <2>1, IdleIsAlong DEF SerialInv, Busy, EachCommentDecidesOnce
<1> QED
  BY <1>1, <1>2, <1>3, <1>4, <1>5, <1>6 DEF Next

LEMMA SerialInvHolds ==
  ASSUME OneAtATime
  PROVE  Spec => [](Inv /\ SerialInv)
<1>1. Init => Inv /\ SerialInv
  BY InvInit, SerialInvInit
<1>2. Inv /\ SerialInv /\ [Next]_vars => (Inv /\ SerialInv)'
  BY InvNext, SerialStep
<1> QED
  BY <1>1, <1>2, PTL DEF Spec

LEMMA AlongHolds ==
  ASSUME OneAtATime
  PROVE  Spec => [][Along]_vars
<1>1. Inv /\ SerialInv /\ [Next]_vars => [Along]_vars
  BY SerialStep
<1> QED
  BY <1>1, SerialInvHolds, PTL DEF Spec

(* When the callers keep the processes apart, a comment decides at most    *)
(* once, however often its webhook is delivered and wherever its jobs die  *)
(* (workspace/store.rs, processed-events/).                                *)
THEOREM CommentsDecideOnce ==
  ASSUME OneAtATime
  PROVE  Spec => []EachCommentDecidesOnce
<1>1. SerialInv => EachCommentDecidesOnce
  BY DEF SerialInv
<1> QED
  BY <1>1, SerialInvHolds, PTL

(* When the callers keep the processes apart, a decision closes the gate   *)
(* its author answered or a later one that offers the same option, and no  *)
(* other.  That it is always the former is claimed by domain/execution.rs  *)
(* and refuted (CommentDecidesItsGate).                                    *)
ChosenAtBothGates ==
  \A i \in 1..Len(answers) :
    LET a == answers[i]
    IN /\ a.meant <= a.answered
       /\ Meets(disk, a.meant, a.option) /\ Meets(disk, a.answered, a.option)

THEOREM DecisionsAreOfferedAtBothGates ==
  ASSUME OneAtATime
  PROVE  Spec => []ChosenAtBothGates
<1>1. SerialInv => ChosenAtBothGates
  BY DEF SerialInv, AnswersMeet, ChosenAtBothGates
<1> QED
  BY <1>1, SerialInvHolds, PTL

(* When the callers keep the processes apart, no save undoes an event that *)
(* is on record (domain/execution.rs, "append-only log").                  *)
THEOREM LogIsAppendOnly ==
  ASSUME OneAtATime
  PROVE  Spec => LogOnlyGrows
<1>1. Along => LogStays
  BY DEF Along
<1>2. [Along]_vars => [LogStays]_disk
  BY <1>1 DEF vars
<1> QED
  BY <1>2, AlongHolds, PTL DEF LogOnlyGrows, LogStays

(* When the callers keep the processes apart, the record on disk follows   *)
(* the life cycle of docs/06: every save is one of its steps, or none.     *)
THEOREM DecisionsFollowLifecycle ==
  ASSUME OneAtATime
  PROVE  Spec => FollowsLifecycle
<1>1. [Along]_vars => [Lifecycle!Next]_(Lifecycle!lifecycle)
  BY DEF Along, vars, Lifecycle!lifecycle
<1> QED
  BY <1>1, AlongHolds, PTL DEF FollowsLifecycle
=============================================================================

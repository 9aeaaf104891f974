--------------------------- MODULE PullRequestJobs ---------------------------
(***************************************************************************)
(* The jobs that comments on one pull request start (cli/commands.rs,      *)
(* handoff.rs, github/decision.rs, github/comment.rs, github/report.rs,    *)
(* workspace/store.rs).  A follow-up comment, `/ksforge implement ...`,    *)
(* starts a job that runs a new execution; one that pauses is handed to a  *)
(* cloud session and resumed by a later job; and a job that has run or     *)
(* resumed an execution posts its report, in the comment that already has  *)
(* the execution's marker, or in a new one.                                *)
(*                                                                         *)
(* state.json is written in place: it is torn from the beginning of a save *)
(* to its end, and for good when the job dies between.  GitHub answers a   *)
(* question and changes a comment in two calls, with other jobs between.   *)
(* A gh command that fails ends its job, as a dying runner does (Die).     *)
(* The decision itself, and who takes it, is the matter of Decisions.      *)
(*                                                                         *)
(* An operator marked "mutant" is a plausible bug in the one after it.     *)
(***************************************************************************)
EXTENDS Naturals, SequencesExt

CONSTANTS
  Comments,      \* the follow-up comments on the pull request
  NoComment,     \* a job that no follow-up comment started
  Executions,    \* ids that Execution::start may give out
  NoExecution,   \* a job that has not started its execution
  Jobs,          \* slots for jobs; one is free again when its job has ended
  Apart,         \* whether callers keep the jobs of one comment, and those
                 \* of one execution, apart
  MaxDeliveries, \* bound: deliveries of one comment's webhook
  MaxGates       \* bound: gates of one execution

ASSUME JobsAssumption ==
  /\ NoComment \notin Comments /\ NoExecution \notin Executions
  /\ Apart \in BOOLEAN
  /\ MaxDeliveries \in Nat /\ MaxGates \in Nat

\* What a job, a report and the properties need of an Execution: gates counts
\* those raised, linked is the one whose cloud session the record links to.
Statuses == {"Running", "WaitingForHuman", "Completed", "Failed", "Cancelled"}
Records  == [status : Statuses, gates : 0..MaxGates, linked : 0..MaxGates]

\* No file, and a file that holds no record.
Absent == [status |-> "absent", gates |-> 0, linked |-> 0]
Torn   == [status |-> "torn", gates |-> 0, linked |-> 0]

Started == [status |-> "Running", gates |-> 0, linked |-> 0]

Places == {"none", "checking", "authorizing", "accepted", "saving", "running",
           "paused", "stopped", "looking", "posting"}

\* copy is the execution in memory, next the place after a save, target the
\* comment to change, 0 if there is none.
Processes ==
  [at : Places, next : Places, comment : Comments \cup {NoComment},
   execution : Executions \cup {NoExecution}, copy : Records \cup {Absent}, target : Nat]

Free == [at |-> "none", next |-> "none", comment |-> NoComment,
         execution |-> NoExecution, copy |-> Absent, target |-> 0]

VARIABLES
  disk,      \* state.json of each execution
  marked,    \* processed-events/ of the pseudo id ksf_pr_followups
  job,       \* the job in each slot
  reports,   \* the comments that ksforge has posted, oldest first
  delivered, \* deliveries of each comment's webhook
  (* History, for the properties only. *)
  runs,      \* executions that each comment's jobs have started
  unreported \* executions saved since the last job of theirs that posted

vars == <<disk, marked, job, reports, delivered, runs, unreported>>

-------------------------------------------------------------------------------
(* github/report.rs                                                        *)

Bodies == [heading : Statuses, gate : 0..MaxGates, link : 0..MaxGates, decisions : 0..MaxGates]

\* Failed, cancelled or running: the heading, and a summary.
RenderHeading(record) == [heading |-> record.status, gate |-> 0, link |-> 0, decisions |-> 0]

\* The open gate with its options, and the link to its session.
RenderWaiting(record) ==
  [RenderHeading(record) EXCEPT !.gate = record.gates, !.link = record.linked]

\* One decision for every gate (decision_history).
RenderCompleted(record) == [RenderHeading(record) EXCEPT !.decisions = record.gates]

Rendered(record) ==
  CASE record.status = "WaitingForHuman" -> RenderWaiting(record)
    [] record.status = "Completed"       -> RenderCompleted(record)
    [] OTHER                             -> RenderHeading(record)

\* marker_for stands at the head of the comment.
Posts == [marker : Executions, body : Bodies]

\* mutant: the marker does not tell the executions apart
AnyMarker(execution) == SelectInSeq(reports, LAMBDA c : TRUE)

\* mutant: the listing is not looked at
NeverFound(execution) == 0

\* find_marker_comment: the first comment with the marker.
MarkerComment(execution) == SelectInSeq(reports, LAMBDA c : c.marker = execution)

-------------------------------------------------------------------------------
Busy == {j \in Jobs : job[j].at # "none"}

MayStart(j, about) ==
  /\ j \notin Busy
  /\ Apart => \A k \in Busy : about \notin {job[k].comment, job[k].execution}

Becomes(j, new)   == job' = [job EXCEPT ![j] = new]
MovesTo(j, place) == Becomes(j, [job[j] EXCEPT !.at = place])
Ends(j)           == Becomes(j, Free)

Init ==
  /\ disk = [e \in Executions |-> Absent]
  /\ marked = {} /\ reports = <<>>
  /\ job = [j \in Jobs |-> Free]
  /\ delivered = [c \in Comments |-> 0]
  /\ runs = [c \in Comments |-> {}] /\ unreported = {}

-------------------------------------------------------------------------------
(* ksforge handle-comment on a follow-up                                   *)

\* GitHub delivers the webhook of a comment, late, or more than once.
Deliver(c, j) ==
  /\ delivered[c] < MaxDeliveries
  /\ MayStart(j, c)
  /\ delivered' = [delivered EXCEPT ![c] = @ + 1]
  /\ Becomes(j, [Free EXCEPT !.at = "checking", !.comment = c])
  /\ UNCHANGED <<disk, marked, reports, runs, unreported>>

CheckMarker(j) ==
  /\ job[j].at = "checking"
  /\ IF job[j].comment \in marked THEN Ends(j) ELSE MovesTo(j, "authorizing")
  /\ UNCHANGED <<disk, marked, reports, delivered, runs, unreported>>

\* authorize_commenter: any answer but admin or write, and none, is a refusal.
Refuse(j) ==
  /\ job[j].at = "authorizing"
  /\ Ends(j)
  /\ UNCHANGED <<disk, marked, reports, delivered, runs, unreported>>

\* mutant: the comment is marked by whoever runs it, when the run has ended
Unmarked(j) ==
  /\ job[j].at = "authorizing"
  /\ MovesTo(j, "accepted")
  /\ UNCHANGED <<disk, marked, reports, delivered, runs, unreported>>

Accept(j) ==
  /\ job[j].at = "authorizing"
  /\ marked' = marked \cup {job[j].comment}
  /\ MovesTo(j, "accepted")
  /\ UNCHANGED <<disk, reports, delivered, runs, unreported>>

-------------------------------------------------------------------------------
(* ksforge <capability>, ksforge resume                                    *)

\* ExecutionStore::save, begun: fs::write truncates the file.
BeginSave(j, new, execution, copy, next) ==
  /\ disk' = [disk EXCEPT ![execution] = Torn]
  /\ Becomes(j, [new EXCEPT !.at = "saving", !.next = next,
                            !.execution = execution, !.copy = copy])
  /\ unreported' = unreported \cup {execution}

EndSave(j) ==
  /\ job[j].at = "saving"
  /\ disk' = [disk EXCEPT ![job[j].execution] = job[j].copy]
  /\ MovesTo(j, job[j].next)
  /\ UNCHANGED <<marked, reports, delivered, runs, unreported>>

\* The next step of the job: run the capability that the comment names.
StartExecution(j, e) ==
  /\ job[j].at = "accepted" /\ disk[e] = Absent
  /\ BeginSave(j, job[j], e, Started, "running")
  /\ runs' = [runs EXCEPT ![job[j].comment] = @ \cup {e}]
  /\ UNCHANGED <<marked, reports, delivered>>

\* Someone has decided on the open gate, and a job resumes the execution.
Resume(j, e) ==
  /\ disk[e].status = "WaitingForHuman"
  /\ MayStart(j, e)
  /\ BeginSave(j, Free, e, [disk[e] EXCEPT !.status = "Running"], "running")
  /\ UNCHANGED <<marked, reports, delivered, runs>>

Pause(j) ==
  /\ job[j].at = "running" /\ job[j].copy.gates < MaxGates
  /\ BeginSave(j, job[j], job[j].execution,
               [job[j].copy EXCEPT !.status = "WaitingForHuman", !.gates = @ + 1], "paused")
  /\ UNCHANGED <<marked, reports, delivered, runs>>

Stop(j, status) ==
  /\ job[j].at = "running"
  /\ BeginSave(j, job[j], job[j].execution, [job[j].copy EXCEPT !.status = status], "stopped")
  /\ UNCHANGED <<marked, reports, delivered, runs>>

\* payload_for: the session is opened about the gate that is open.
PayloadFor(record) == record.gates

\* maybe_hand_off, when fire has opened a session: its link is saved with the
\* copy that the run stopped with.
HandOff(j) ==
  /\ job[j].at = "paused"
  /\ BeginSave(j, job[j], job[j].execution,
               [job[j].copy EXCEPT !.linked = PayloadFor(job[j].copy)], "stopped")
  /\ UNCHANGED <<marked, reports, delivered, runs>>

\* No handoff is asked for, or it cannot be made, or fire fails: passed over.
NoHandOff(j) ==
  /\ job[j].at = "paused"
  /\ MovesTo(j, "stopped")
  /\ UNCHANGED <<disk, marked, reports, delivered, runs, unreported>>

\* ksforge cancel: load and save at once.
Cancel(j, e) ==
  /\ disk[e].status \in Statuses \ {"Cancelled"}
  /\ MayStart(j, e)
  /\ BeginSave(j, Free, e, [disk[e] EXCEPT !.status = "Cancelled"], "stopped")
  /\ UNCHANGED <<marked, reports, delivered, runs>>

-------------------------------------------------------------------------------
(* ksforge post-report, in a process of its own                            *)

\* Whoever posts one, of an execution that has a file.
PostReport(j, e) ==
  /\ disk[e] # Absent
  /\ MayStart(j, e)
  /\ Becomes(j, [Free EXCEPT !.at = "stopped", !.execution = e])
  /\ UNCHANGED <<disk, marked, reports, delivered, runs, unreported>>

\* mutant: a record that cannot be read is reported as running
LoadAnyhow(j) ==
  /\ job[j].at = "stopped"
  /\ Becomes(j, [job[j] EXCEPT !.at = "looking",
                   !.copy = IF disk[job[j].execution] = Torn THEN Started ELSE disk[job[j].execution]])
  /\ UNCHANGED <<disk, marked, reports, delivered, runs, unreported>>

LoadForReport(j) ==
  /\ job[j].at = "stopped"
  /\ IF disk[job[j].execution] \in {Absent, Torn}
     THEN Ends(j)
     ELSE Becomes(j, [job[j] EXCEPT !.at = "looking", !.copy = disk[job[j].execution]])
  /\ UNCHANGED <<disk, marked, reports, delivered, runs, unreported>>

Look(j) ==
  /\ job[j].at = "looking"
  /\ Becomes(j, [job[j] EXCEPT !.at = "posting", !.target = MarkerComment(job[j].execution)])
  /\ UNCHANGED <<disk, marked, reports, delivered, runs, unreported>>

\* A new comment, or the one found changed in place.
Post(j) ==
  /\ job[j].at = "posting"
  /\ LET post == [marker |-> job[j].execution, body |-> Rendered(job[j].copy)]
     IN  reports' = IF job[j].target = 0 THEN Append(reports, post)
                    ELSE [reports EXCEPT ![job[j].target] = post]
  /\ unreported' = unreported \ {job[j].execution}
  /\ Ends(j)
  /\ UNCHANGED <<disk, marked, delivered, runs>>

\* The runner is taken away, or a command of the job fails.
Die(j) ==
  /\ j \in Busy
  /\ Ends(j)
  /\ UNCHANGED <<disk, marked, reports, delivered, runs, unreported>>

-------------------------------------------------------------------------------
Next ==
  \E j \in Jobs :
    \/ \E c \in Comments : Deliver(c, j)
    \/ CheckMarker(j) \/ Refuse(j) \/ Accept(j)
    \/ \E e \in Executions : StartExecution(j, e) \/ Resume(j, e) \/ Cancel(j, e)
                              \/ PostReport(j, e)
    \/ EndSave(j) \/ Pause(j) \/ \E s \in {"Completed", "Failed"} : Stop(j, s)
    \/ HandOff(j) \/ NoHandOff(j)
    \/ LoadForReport(j) \/ Look(j) \/ Post(j)
    \/ Die(j)

Spec == Init /\ [][Next]_vars

-------------------------------------------------------------------------------
(* Properties                                                              *)

TypeOK ==
  /\ disk \in [Executions -> Records \cup {Absent, Torn}]
  /\ marked \subseteq Comments
  /\ job \in [Jobs -> Processes]
  /\ reports \in Seq(Posts)
  /\ delivered \in [Comments -> 0..MaxDeliveries]
  /\ runs \in [Comments -> SUBSET Executions]
  /\ unreported \subseteq Executions

\* A follow-up comment is run at most once, whatever number of times its
\* webhook is delivered and wherever its jobs die: an agent that writes and
\* is billed must not be started again by GitHub's retry.
EachFollowUpRunsOnce ==
  \A c \in Comments : \A d, e \in runs[c] : d = e

\* An execution has at most one report on the pull request, whoever posts it
\* and whatever else is posted in between.
OneReportPerExecution ==
  \A a, b \in DOMAIN reports : reports[a].marker = reports[b].marker => a = b

\* Once a job has posted, the report shows the record that is on disk, with
\* the gate that is open or the decisions that were taken, until a job saves
\* the execution again: no report goes into another execution's comment, and
\* none is made of a file that a dying job has left torn.
ReportIsCurrent ==
  \A i \in DOMAIN reports :
    reports[i].marker \notin unreported => reports[i].body = Rendered(disk[reports[i].marker])

\* A comment that ksforge has posted stays the report of the execution it was
\* posted for, even if callers do not keep jobs apart: between a look for the
\* marker and the change of what was found, others may post, and what they
\* post never moves the comment that was found.
ReportsKeepTheirExecution ==
  [][\A i \in DOMAIN reports :
       i \in DOMAIN reports' /\ reports'[i].marker = reports[i].marker]_vars

\* A comment starts no more executions than its webhook was delivered, even if
\* two of its jobs run side by side: a job that failed is not run again, and
\* an execution that is resumed is not started anew.
OneRunPerDelivery ==
  \A c \in Comments : Cardinality(runs[c]) <= delivered[c]

\* What the report says under "Or answer it conversationally": the decision
\* it asks for is open in the session it links to.  The link is never taken
\* out of the record, so that the next gate is shown with the last one's.
LinkIsOfTheGate ==
  \A i \in DOMAIN reports : reports[i].body.link \in {0, reports[i].body.gate}
===============================================================================

----------------------------- MODULE EventRuntime -----------------------------
(***************************************************************************)
(* The event loop of examples/kstest-core: a queue of events, a state      *)
(* machine that answers each with an action, and a runtime that carries    *)
(* the action out and queues what came of it.  When the retry policy gives *)
(* up on a request, an analyzer is asked on a thread of its own, or, with  *)
(* none registered, a fallback answers at once; either sends its result to *)
(* a channel that the loop reads when its queue is empty.                  *)
(*                                                                         *)
(* A step of the loop, with the action it carries out, is one action, an   *)
(* arm of StateMachine::next each; the analyzers interleave with it.  What *)
(* a capability or a resource answers is left open.                        *)
(*                                                                         *)
(* An operator marked "mutant" is a plausible bug in the one after it.     *)
(***************************************************************************)
EXTENDS Naturals, SequencesExt

CONSTANTS
  Requests,        \* the requests that clients make, each with its payload
  NoRequest,       \* in_flight = None
  EmptyPayloads,   \* the requests whose payload is empty
  MaxAttempts,     \* RetryPolicy::max_attempts
  MaxReports       \* bound: outside events that are no requests

ASSUME RuntimeAssumption ==
  /\ NoRequest \notin Requests
  /\ EmptyPayloads \subseteq Requests
  /\ MaxAttempts \in Nat
  /\ MaxReports \in Nat

OperationalStates ==
  {"Starting", "Connecting", "Ready", "Processing", "Recovering", "Degraded"}

\* Stopping is not among them: the step that enters it also leaves it.
Lifecycles == {"Created", "Running", "Stopped"}

FailureKinds == {"Transient", "ResourceUnavailable", "Permanent"}
NoFailure    == "none"
Proposals    == {"Retry", "Degrade", "NoAction"}

\* What an analyzer is told (AnalysisContext).
Contexts == [attempt : Nat, lastFailure : FailureKinds \cup {NoFailure}]

\* A diagnosis keeps the context it was asked with, which only properties see.
Events ==
  [type : {"StartRequested", "ResourceAvailable", "ResourceUnavailable",
           "ActionCompleted", "ShutdownRequested"}]
  \cup [type : {"ExecuteRequested"}, request : Requests]
  \cup [type : {"ActionFailed"}, kind : FailureKinds]
  \cup [type : {"RecoveryRequested"}, exhausted : BOOLEAN]
  \cup [type : {"DiagnosticAvailable"}, proposal : Proposals, about : Contexts]

Plain(type) == [type |-> type]

VARIABLES
  intelligence,                     \* whether an Intelligence is registered
  operational, lifecycle,           \* StateMachine
  attempt, inFlight, lastFailure,   \* its Context
  events,                           \* Runtime::events
  channel,                          \* diagnostics_rx
  analyses,                         \* the contexts that threads are analysing
  panicked,                         \* an expect() found None
  offered,                          \* requests that no client has made yet
  reports                           \* other events pushed from outside

context == <<attempt, inFlight, lastFailure>>
outside == <<offered, reports, intelligence>>
vars == <<intelligence, operational, lifecycle, attempt, inFlight, lastFailure, events,
          channel, analyses, panicked, offered, reports>>

Init ==
  /\ intelligence \in BOOLEAN
  /\ operational = "Starting" /\ lifecycle = "Created"
  /\ attempt = 0 /\ inFlight = NoRequest /\ lastFailure = NoFailure
  /\ events = <<>> /\ channel = <<>> /\ analyses = <<>>
  /\ panicked = FALSE
  /\ offered = Requests /\ reports = 0

Live == lifecycle # "Stopped" /\ ~panicked

-------------------------------------------------------------------------------
(* One event: from the queue, and only when that is empty from the channel *)

NextEvent == IF events # <<>> THEN Head(events) ELSE Head(channel)

Remaining == IF events # <<>> THEN Tail(events) ELSE events

RemainingChannel == IF events # <<>> THEN channel ELSE Tail(channel)

\* The loop handles an event of this type; the lifecycle leaves Created.
Handling(type) ==
  /\ Live
  /\ events # <<>> \/ channel # <<>>
  /\ NextEvent.type = type
  /\ lifecycle' = "Running"
  /\ UNCHANGED outside

-------------------------------------------------------------------------------
(* The actions a transition may ask for                                    *)

Push(event) ==
  /\ events' = Append(Remaining, event)
  /\ channel' = RemainingChannel
  /\ UNCHANGED analyses

NoAction ==
  /\ events' = Remaining
  /\ channel' = RemainingChannel
  /\ UNCHANGED analyses

\* Execute and Retry: an empty payload fails before the capability sees it.
ExecuteAction(request) ==
  \/ /\ request \in EmptyPayloads
     /\ Push([type |-> "ActionFailed", kind |-> "Permanent"])
  \/ /\ request \notin EmptyPayloads
     /\ \/ Push(Plain("ActionCompleted"))
        \/ \E k \in FailureKinds : Push([type |-> "ActionFailed", kind |-> k])

Reconnect == \E answer \in {"ResourceAvailable", "ResourceUnavailable"} : Push(Plain(answer))

Allows(n) == n <= MaxAttempts

\* recovery::decide, of the attempt and the failure just recorded.
Exhausted(n, kind) == kind = "Permanent" \/ ~Allows(n)

Recover == Push([type |-> "RecoveryRequested", exhausted |-> Exhausted(attempt', lastFailure')])

\* Scheduler::schedule_diagnostic: a thread, or the fallback's answer at once.
RequestDiagnostic ==
  LET asked == [attempt |-> attempt, lastFailure |-> lastFailure]
  IN  /\ events' = Remaining
      /\ IF intelligence
         THEN /\ analyses' = Append(analyses, asked)
              /\ channel' = RemainingChannel
         ELSE /\ channel' = Append(RemainingChannel,
                              [type |-> "DiagnosticAvailable", proposal |-> "NoAction", about |-> asked])
              /\ UNCHANGED analyses

-------------------------------------------------------------------------------
(* The arms of StateMachine::next, each with its action carried out        *)

ShutdownRequested ==
  /\ Live
  /\ events # <<>> \/ channel # <<>>
  /\ NextEvent.type = "ShutdownRequested"
  /\ lifecycle' = "Stopped"
  /\ NoAction
  /\ UNCHANGED <<operational, context, panicked, outside>>

StartRequested ==
  /\ Handling("StartRequested") /\ operational = "Starting"
  /\ operational' = "Connecting"
  /\ Reconnect
  /\ UNCHANGED <<context, panicked>>

ResourceAvailable ==
  /\ Handling("ResourceAvailable") /\ operational = "Connecting"
  /\ operational' = "Ready"
  /\ NoAction
  /\ UNCHANGED <<context, panicked>>

ResourceUnavailable ==
  /\ Handling("ResourceUnavailable") /\ operational \in {"Connecting", "Ready"}
  /\ operational' = "Connecting"
  /\ Reconnect
  /\ UNCHANGED <<context, panicked>>

ExecuteRequested ==
  /\ Handling("ExecuteRequested") /\ operational = "Ready"
  /\ operational' = "Processing"
  /\ inFlight' = NextEvent.request
  /\ ExecuteAction(inFlight')
  /\ UNCHANGED <<attempt, lastFailure, panicked>>

ActionCompleted ==
  /\ Handling("ActionCompleted") /\ operational = "Processing"
  /\ operational' = "Ready"
  /\ attempt' = 0 /\ inFlight' = NoRequest /\ lastFailure' = NoFailure
  /\ NoAction
  /\ UNCHANGED panicked

\* mutant: the attempt is not counted
Uncounted ==
  /\ Handling("ActionFailed") /\ operational = "Processing"
  /\ operational' = "Recovering"
  /\ UNCHANGED <<attempt, inFlight, panicked>>
  /\ lastFailure' = NextEvent.kind
  /\ Recover

\* Recover expects the failure that is recorded here.
ActionFailed ==
  /\ Handling("ActionFailed") /\ operational = "Processing"
  /\ operational' = "Recovering"
  /\ attempt' = attempt + 1
  /\ lastFailure' = NextEvent.kind
  /\ Recover
  /\ UNCHANGED <<inFlight, panicked>>

\* mutant: in_flight.take() for in_flight.clone()
RetryTaken ==
  /\ operational' = "Processing"
  /\ inFlight' = NoRequest
  /\ IF inFlight = NoRequest
     THEN panicked' = TRUE /\ NoAction
     ELSE ExecuteAction(inFlight) /\ UNCHANGED panicked

\* pending_request expects a request in flight.
RetryInFlight ==
  /\ operational' = "Processing"
  /\ IF inFlight = NoRequest
     THEN panicked' = TRUE /\ NoAction
     ELSE ExecuteAction(inFlight) /\ UNCHANGED panicked
  /\ UNCHANGED inFlight

OnRecoveryDecision ==
  /\ Handling("RecoveryRequested") /\ operational = "Recovering"
  /\ IF NextEvent.exhausted
     THEN /\ operational' = "Degraded"
          /\ RequestDiagnostic
          /\ UNCHANGED <<inFlight, panicked>>
     ELSE RetryInFlight
  /\ UNCHANGED <<attempt, lastFailure>>

\* mutant: a request that comes in while degraded asks for a diagnosis again
AsksAgain ==
  /\ Handling("ExecuteRequested") /\ operational = "Degraded"
  /\ RequestDiagnostic
  /\ UNCHANGED <<operational, context, panicked>>

\* mutant: a request that comes in while degraded is run
RunsAtOnce ==
  /\ Handling("ExecuteRequested") /\ operational = "Degraded"
  /\ operational' = "Processing"
  /\ inFlight' = NextEvent.request
  /\ ExecuteAction(inFlight')
  /\ UNCHANGED <<attempt, lastFailure, panicked>>

\* Acknowledged, and dropped: nothing keeps the request for later.
ExecuteRequestedWhileDegraded ==
  /\ Handling("ExecuteRequested") /\ operational = "Degraded"
  /\ NoAction
  /\ UNCHANGED <<operational, context, panicked>>

\* mutant: the attempts start where they had stopped
AcceptedAsBefore ==
  /\ Handling("DiagnosticAvailable") /\ operational = "Degraded"
  /\ NextEvent.proposal = "Retry"
  /\ RetryInFlight
  /\ UNCHANGED <<attempt, lastFailure>>

ProposalAccepted ==
  /\ Handling("DiagnosticAvailable") /\ operational = "Degraded"
  /\ NextEvent.proposal = "Retry"
  /\ attempt' = 0
  /\ RetryInFlight
  /\ UNCHANGED lastFailure

ProposalRejected ==
  /\ Handling("DiagnosticAvailable") /\ operational = "Degraded"
  /\ NextEvent.proposal # "Retry"
  /\ NoAction
  /\ UNCHANGED <<operational, context, panicked>>

\* The last arm: every event that the state has no arm for is dropped.
HandledIn(type) ==
  CASE type = "StartRequested"      -> {"Starting"}
    [] type = "ResourceAvailable"   -> {"Connecting"}
    [] type = "ResourceUnavailable" -> {"Connecting", "Ready"}
    [] type = "ExecuteRequested"    -> {"Ready", "Degraded"}
    [] type = "ActionCompleted"     -> {"Processing"}
    [] type = "ActionFailed"        -> {"Processing"}
    [] type = "RecoveryRequested"   -> {"Recovering"}
    [] type = "DiagnosticAvailable" -> {"Degraded"}
    [] OTHER                        -> OperationalStates

Unhandled ==
  \E type \in {"StartRequested", "ResourceAvailable", "ResourceUnavailable", "ExecuteRequested",
               "ActionCompleted", "ActionFailed", "RecoveryRequested", "DiagnosticAvailable"} :
    /\ Handling(type) /\ operational \notin HandledIn(type)
    /\ NoAction
    /\ UNCHANGED <<operational, context, panicked>>

Step ==
  \/ ShutdownRequested \/ StartRequested \/ ResourceAvailable \/ ResourceUnavailable
  \/ ExecuteRequested \/ ActionCompleted \/ ActionFailed \/ OnRecoveryDecision
  \/ ExecuteRequestedWhileDegraded \/ ProposalAccepted \/ ProposalRejected \/ Unhandled

-------------------------------------------------------------------------------
(* What happens between two steps                                          *)

\* block_for_diagnostics, when its recv returns.
BlockForDiagnostics ==
  /\ Live /\ channel # <<>>
  /\ events' = Append(events, Head(channel))
  /\ channel' = Tail(channel)
  /\ UNCHANGED <<operational, lifecycle, context, analyses, panicked, outside>>

\* push_event, by whoever owns the runtime: requests, and what it learns of
\* the resource and wants of the runtime.
PushRequest(request) ==
  /\ Live /\ request \in offered
  /\ offered' = offered \ {request}
  /\ events' = Append(events, [type |-> "ExecuteRequested", request |-> request])
  /\ UNCHANGED <<operational, lifecycle, context, channel, analyses, panicked, reports, intelligence>>

Reported == {"StartRequested", "ResourceAvailable", "ResourceUnavailable", "ShutdownRequested"}

PushReport(type) ==
  /\ Live /\ reports < MaxReports
  /\ reports' = reports + 1
  /\ events' = Append(events, Plain(type))
  /\ UNCHANGED <<operational, lifecycle, context, channel, analyses, panicked, offered, intelligence>>

\* The thread of an analysis sends its result; a stopped runtime may still be there.
Analyze(i, proposal) ==
  /\ analyses' = RemoveAt(analyses, i)
  /\ channel' = Append(channel, [type     |-> "DiagnosticAvailable",
                                 proposal |-> proposal,
                                 about    |-> analyses[i]])
  /\ UNCHANGED <<operational, lifecycle, context, events, panicked, outside>>

\* analyze panics: its thread ends and sends nothing.
AnalysisDies(i) ==
  /\ analyses' = RemoveAt(analyses, i)
  /\ UNCHANGED <<operational, lifecycle, context, events, channel, panicked, outside>>

Outside ==
  \/ BlockForDiagnostics
  \/ \E r \in Requests : PushRequest(r)
  \/ \E t \in Reported : PushReport(t)
  \/ \E i \in DOMAIN analyses : AnalysisDies(i) \/ \E p \in Proposals : Analyze(i, p)

Next == Step \/ Outside

Spec == Init /\ [][Next]_vars

\* The owner of the runtime steps it for as long as it is not idle.
FairSpec == Spec /\ WF_vars(Step)

-------------------------------------------------------------------------------
(* Properties                                                              *)

\* Each variable holds values of its type, and no request fails more often
\* in a row than the retry policy allows plus once.
TypeOK ==
  /\ intelligence \in BOOLEAN
  /\ operational \in OperationalStates /\ lifecycle \in Lifecycles
  /\ attempt \in 0..MaxAttempts + 1
  /\ inFlight \in Requests \cup {NoRequest}
  /\ lastFailure \in FailureKinds \cup {NoFailure}
  /\ events \in Seq(Events) /\ channel \in Seq(Events) /\ analyses \in Seq(Contexts)
  /\ panicked \in BOOLEAN
  /\ offered \in SUBSET Requests /\ reports \in 0..MaxReports

\* A retry always finds the request it is about, whatever was queued, dropped
\* or reported late in between (the expect of pending_request), and the
\* recovery always finds the failure it is to judge (the expect of Recover).
NeverPanics ==
  /\ ~panicked
  /\ operational \in {"Recovering", "Degraded"} => lastFailure # NoFailure

\* The diagnoses under way, by where they are and what they are about: being
\* made, sent, or put back in the queue.
DiagnosesAt(place, queue) ==
  {[at |-> place, index |-> i, about |-> queue[i].about] :
     i \in {j \in DOMAIN queue : queue[j].type = "DiagnosticAvailable"}}

UnderWay ==
  {[at |-> "thread", index |-> i, about |-> analyses[i]] : i \in DOMAIN analyses}
    \cup DiagnosesAt("channel", channel) \cup DiagnosesAt("queue", events)

\* At most one diagnosis is under way, only while its request is on hold, and
\* it is about the failure that put it there: an answer that comes late is
\* never taken for one about a later failure.
DiagnosisIsCurrent ==
  \A d \in UnderWay :
    /\ operational = "Degraded"
    /\ d.about = [attempt |-> attempt, lastFailure |-> lastFailure]
    /\ UnderWay = {d}

\* The runtime implements RequestService: it takes a request up only when it
\* has no other, tries it within the policy's bound, and gives it up to none.
Phase ==
  CASE lifecycle = "Stopped"                     -> "down"
    [] lifecycle # "Stopped" /\ operational \in {"Processing", "Recovering"} -> "trying"
    [] lifecycle # "Stopped" /\ operational = "Degraded" -> "held"
    [] OTHER                                     -> "idle"

Service == INSTANCE RequestService WITH phase <- Phase, request <- inFlight, failures <- attempt

ServiceSpec == Service!Spec

\* A request that is being tried ends, completed or on hold for a diagnosis,
\* however often it fails, unless the runtime is shut down.
FailureIsSettled ==
  operational \in {"Processing", "Recovering"}
    ~> operational \in {"Ready", "Degraded"} \/ lifecycle = "Stopped"
===============================================================================

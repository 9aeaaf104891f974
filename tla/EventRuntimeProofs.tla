--------------------------- MODULE EventRuntimeProofs ---------------------------
(***************************************************************************)
(* Proofs about EventRuntime for any requests, any retry policy and any    *)
(* number of outside events: its types and the bound on attempts, that it  *)
(* never panics, that a diagnosis is about the failure on hold, and that   *)
(* it implements RequestService.                                           *)
(***************************************************************************)
EXTENDS EventRuntime, SequenceTheorems, TLAPS

-----------------------------------------------------------------------------
(* The invariant.  None of the properties is inductive: they rest on the   *)
(* queue, the channel and the threads holding at most one message of the   *)
(* runtime to itself, and on that message matching the state it is for.    *)

Internal(e) == e.type \in {"RecoveryRequested", "DiagnosticAvailable"}

Asked(n, kind) == [attempt |-> n, lastFailure |-> kind]

\* An event that the runtime sent itself is about the state it is in.
Fits(e, state, n, kind) ==
  /\ e.type = "RecoveryRequested" =>
       state = "Recovering" /\ e.exhausted = Exhausted(n, kind)
  /\ e.type = "DiagnosticAvailable" =>
       state = "Degraded" /\ e.about = Asked(n, kind)

\* A queue, a channel and threads with no message of the runtime to itself ...
Quiet(q, ch, an) ==
  /\ \A i \in DOMAIN q : ~Internal(q[i])
  /\ ch = <<>> /\ an = <<>>

\* ... and with at most one, which fits the state.
Sound(q, ch, an, state, n, kind) ==
  /\ \A i \in DOMAIN q : Fits(q[i], state, n, kind)
  /\ \A i, j \in DOMAIN q : Internal(q[i]) /\ Internal(q[j]) => i = j
  /\ \A i \in DOMAIN q : Internal(q[i]) => ch = <<>> /\ an = <<>>
  /\ \A i \in DOMAIN ch : ch[i].type = "DiagnosticAvailable" /\ Fits(ch[i], state, n, kind)
  /\ \A i \in DOMAIN an : state = "Degraded" /\ an[i] = Asked(n, kind)
  /\ Len(ch) + Len(an) <= 1

\* What the state machine and its context have to do with each other.
MachineOK ==
  /\ operational \in {"Starting", "Connecting", "Ready"} =>
       attempt = 0 /\ inFlight = NoRequest
  /\ operational \in {"Processing", "Recovering", "Degraded"} => inFlight \in Requests
  /\ operational \in {"Recovering", "Degraded"} => attempt > 0 /\ lastFailure \in FailureKinds
  /\ operational = "Processing" => attempt <= MaxAttempts
  /\ ~panicked

MachineTyped ==
  /\ operational \in OperationalStates /\ lifecycle \in Lifecycles
  /\ attempt \in 0..MaxAttempts + 1
  /\ inFlight \in Requests \cup {NoRequest}
  /\ lastFailure \in FailureKinds \cup {NoFailure}
  /\ panicked \in BOOLEAN

QueuesTyped == events \in Seq(Events) /\ channel \in Seq(Events) /\ analyses \in Seq(Contexts)

OutsideTyped ==
  intelligence \in BOOLEAN /\ offered \in SUBSET Requests /\ reports \in 0..MaxReports

QueuesSound == Sound(events, channel, analyses, operational, attempt, lastFailure)

Inv == MachineTyped /\ QueuesTyped /\ OutsideTyped /\ MachineOK /\ QueuesSound

LEMMA InvIsTyped == Inv => TypeOK
BY DEF Inv, MachineTyped, QueuesTyped, OutsideTyped, TypeOK

-----------------------------------------------------------------------------
(* Queues.                                                                 *)

LEMMA QuietIsSound ==
  ASSUME NEW q, NEW ch, NEW an, Quiet(q, ch, an), NEW state, NEW n, NEW kind
  PROVE  Sound(q, ch, an, state, n, kind)
BY DEF Quiet, Sound, Fits, Internal

\* Where the runtime does not wait for itself there is no message to itself.
LEMMA SoundIsQuiet ==
  ASSUME NEW q, NEW ch \in Seq(Events), NEW an \in Seq(Contexts), NEW state, NEW n, NEW kind,
         Sound(q, ch, an, state, n, kind), state \notin {"Recovering", "Degraded"}
  PROVE  Quiet(q, ch, an)
<1>1. \A i \in DOMAIN q : ~Internal(q[i])
  BY DEF Sound, Fits, Internal
<1>2. ch = <<>>
  <2>1. 1 \notin DOMAIN ch
    BY DEF Sound, Fits
  <2> QED
    BY <2>1
<1>3. an = <<>>
  <2>1. 1 \notin DOMAIN an
    BY DEF Sound
  <2> QED
    BY <2>1
<1> QED
  BY <1>1, <1>2, <1>3 DEF Quiet

LEMMA PlainKeepsQuiet ==
  ASSUME NEW q \in Seq(Events), NEW ch, NEW an, Quiet(q, ch, an),
         NEW e \in Events, ~Internal(e)
  PROVE  Append(q, e) \in Seq(Events) /\ Quiet(Append(q, e), ch, an)
BY DEF Quiet

LEMMA MessageIsSound ==
  ASSUME NEW q \in Seq(Events), NEW ch, NEW an, Quiet(q, ch, an),
         NEW state, NEW n, NEW kind, NEW e \in Events, Fits(e, state, n, kind)
  PROVE  Append(q, e) \in Seq(Events) /\ Sound(Append(q, e), ch, an, state, n, kind)
<1>1. /\ Append(q, e) \in Seq(Events) /\ Len(Append(q, e)) = Len(q) + 1
      /\ \A i \in 1..Len(q) + 1 : Append(q, e)[i] = IF i <= Len(q) THEN q[i] ELSE e
  OBVIOUS
<1>2. \A i \in 1..Len(q) : ~Internal(q[i]) /\ Fits(q[i], state, n, kind)
  BY DEF Quiet, Fits, Internal
<1>3. ch = <<>> /\ an = <<>>
  BY DEF Quiet
<1> QED
  BY <1>1, <1>2, <1>3 DEF Sound

LEMMA PlainKeepsSound ==
  ASSUME NEW q \in Seq(Events), NEW ch, NEW an, NEW state, NEW n, NEW kind,
         Sound(q, ch, an, state, n, kind), NEW e \in Events, ~Internal(e)
  PROVE  Append(q, e) \in Seq(Events) /\ Sound(Append(q, e), ch, an, state, n, kind)
<1>1. /\ Append(q, e) \in Seq(Events) /\ Len(Append(q, e)) = Len(q) + 1
      /\ \A i \in 1..Len(q) + 1 : Append(q, e)[i] = IF i <= Len(q) THEN q[i] ELSE e
  OBVIOUS
<1>2. Fits(e, state, n, kind)
  BY DEF Fits, Internal
<1> QED
  BY <1>1, <1>2 DEF Sound

\* The channel and the threads hold at most one message between them.
LEMMA OneMessage ==
  ASSUME NEW ch \in Seq(Events), NEW an \in Seq(Contexts), Len(ch) + Len(an) <= 1
  PROVE  /\ ch # <<>> => /\ Len(ch) = 1 /\ Head(ch) = ch[1] /\ 1 \in DOMAIN ch
                         /\ Tail(ch) = <<>> /\ an = <<>>
         /\ \A i \in DOMAIN an : i = 1 /\ Len(an) = 1 /\ ch = <<>>
<1>1. /\ Len(ch) \in Nat /\ DOMAIN ch = 1..Len(ch)
      /\ Len(an) \in Nat /\ DOMAIN an = 1..Len(an)
  OBVIOUS
<1>2. /\ ch # <<>> => Len(ch) = 1 /\ Len(an) = 0
      /\ \A i \in DOMAIN an : i = 1 /\ Len(an) = 1 /\ Len(ch) = 0
  <2>1. ch # <<>> => Len(ch) # 0
    BY EmptySeq
  <2> QED
    BY <1>1, <2>1
<1>3. /\ Len(ch) = 0 => ch = <<>>
      /\ Len(an) = 0 => an = <<>>
  BY EmptySeq
<1>4. ASSUME ch # <<>> PROVE Tail(ch) = <<>>
  <2>1. Tail(ch) \in Seq(Events) /\ Len(Tail(ch)) = 0
    BY <1>2, <1>4
  <2> QED
    BY <2>1, EmptySeq
<1>5. ch # <<>> => Head(ch) = ch[1]
  OBVIOUS
<1> QED
  BY <1>1, <1>2, <1>3, <1>4, <1>5

-----------------------------------------------------------------------------
(* One step of the loop takes one event, which fits the state; what is left *)
(* is sound, and quiet if the event was the runtime's own.                 *)

Left == QueuesTyped /\ Remaining \in Seq(Events) /\ RemainingChannel \in Seq(Events)

LEMMA TakenFits ==
  ASSUME Inv, events # <<>> \/ channel # <<>>
  PROVE  /\ Left
         /\ NextEvent \in Events
         /\ Fits(NextEvent, operational, attempt, lastFailure)
         /\ Sound(Remaining, RemainingChannel, analyses, operational, attempt, lastFailure)
         /\ Internal(NextEvent) => Quiet(Remaining, RemainingChannel, analyses)
<1>0. /\ events \in Seq(Events) /\ channel \in Seq(Events) /\ analyses \in Seq(Contexts)
      /\ Sound(events, channel, analyses, operational, attempt, lastFailure)
  BY DEF Inv, QueuesTyped, QueuesSound
<1>1. CASE events # <<>>
  <2>1. /\ Remaining = Tail(events) /\ RemainingChannel = channel /\ NextEvent = events[1]
        /\ 1 \in DOMAIN events
    BY <1>0, <1>1 DEF Remaining, RemainingChannel, NextEvent
  <2>2. /\ Tail(events) \in Seq(Events) /\ Len(Tail(events)) = Len(events) - 1
        /\ \A i \in 1..Len(events) - 1 : Tail(events)[i] = events[i + 1]
    BY <1>0, <1>1
  <2>3. DOMAIN Tail(events) = 1..Len(events) - 1 /\ DOMAIN events = 1..Len(events)
    BY <1>0, <2>2
  <2>4. \A i \in DOMAIN Tail(events) : i + 1 \in DOMAIN events /\ i + 1 # 1
    BY <1>0, <2>3
  <2>5. Sound(Tail(events), channel, analyses, operational, attempt, lastFailure)
    <3>1. \A i \in DOMAIN Tail(events) : Fits(Tail(events)[i], operational, attempt, lastFailure)
      BY <1>0, <2>2, <2>3, <2>4 DEF Sound
    <3>2. \A i, j \in DOMAIN Tail(events) :
            Internal(Tail(events)[i]) /\ Internal(Tail(events)[j]) => i = j
      BY <1>0, <2>2, <2>3, <2>4 DEF Sound
    <3>3. \A i \in DOMAIN Tail(events) :
            Internal(Tail(events)[i]) => channel = <<>> /\ analyses = <<>>
      BY <1>0, <2>2, <2>3, <2>4 DEF Sound
    <3> QED
      BY <1>0, <3>1, <3>2, <3>3 DEF Sound
  <2>6. ASSUME Internal(events[1]) PROVE Quiet(Tail(events), channel, analyses)
    <3>1. \A i \in DOMAIN Tail(events) : ~Internal(Tail(events)[i])
      BY <1>0, <2>1, <2>2, <2>3, <2>4, <2>6 DEF Sound
    <3> QED
      BY <1>0, <2>1, <2>6, <3>1 DEF Sound, Quiet
  <2>7. events[1] \in Events /\ Fits(events[1], operational, attempt, lastFailure)
    BY <1>0, <2>1 DEF Sound
  <2> QED
    BY <1>0, <2>1, <2>2, <2>5, <2>6, <2>7 DEF Left, QueuesTyped
<1>2. CASE events = <<>>
  <2>1. /\ Remaining = <<>> /\ RemainingChannel = Tail(channel) /\ NextEvent = channel[1]
        /\ channel # <<>>
    BY <1>0, <1>2 DEF Remaining, RemainingChannel, NextEvent
  <2>2. Len(channel) + Len(analyses) <= 1
    BY <1>0 DEF Sound
  <2>3. Tail(channel) = <<>> /\ analyses = <<>> /\ 1 \in DOMAIN channel
    BY <1>0, <2>1, <2>2, OneMessage
  <2>4. Quiet(<<>>, Tail(channel), analyses)
    BY <2>3 DEF Quiet
  <2>5. NextEvent \in Events
    <3>1. Head(channel) \in Events
      BY <1>0, <2>1, HeadTailProperties
    <3> QED
      BY <3>1, <1>2 DEF NextEvent
  <2>6. Fits(channel[1], operational, attempt, lastFailure)
    BY <1>0, <2>3 DEF Sound
  <2> QED
    BY <1>0, <2>1, <2>3, <2>4, <2>5, <2>6, QuietIsSound DEF Left, QueuesTyped
<1> QED
  BY <1>1, <1>2

\* The queues after a step that drops its event, or sends what is none of its own.
QuietAfter == QueuesTyped' /\ Quiet(events', channel', analyses')

LEMMA NoActionKeepsQuiet ==
  ASSUME Left, Quiet(Remaining, RemainingChannel, analyses), NoAction
  PROVE  QuietAfter
BY DEF Left, NoAction, QuietAfter, QueuesTyped

LEMMA NoActionKeepsSound ==
  ASSUME Left, NoAction,
         Sound(Remaining, RemainingChannel, analyses, operational, attempt, lastFailure),
         UNCHANGED <<operational, attempt, lastFailure>>
  PROVE  QueuesTyped' /\ QueuesSound'
BY DEF Left, NoAction, QueuesTyped, QueuesSound

LEMMA PushKeepsQuiet ==
  ASSUME Left, Quiet(Remaining, RemainingChannel, analyses),
         NEW e \in Events, ~Internal(e), Push(e)
  PROVE  QuietAfter
<1>1. Append(Remaining, e) \in Seq(Events) /\ Quiet(Append(Remaining, e), RemainingChannel, analyses)
  BY PlainKeepsQuiet DEF Left
<1> QED
  BY <1>1 DEF Left, Push, QuietAfter, QueuesTyped

LEMMA PlainEvents ==
  /\ \A type \in {"StartRequested", "ResourceAvailable", "ResourceUnavailable",
                   "ActionCompleted", "ShutdownRequested"} :
       Plain(type) \in Events /\ ~Internal(Plain(type))
  /\ \A k \in FailureKinds : /\ [type |-> "ActionFailed", kind |-> k] \in Events
                            /\ ~Internal([type |-> "ActionFailed", kind |-> k])
  /\ \A r \in Requests : /\ [type |-> "ExecuteRequested", request |-> r] \in Events
                        /\ ~Internal([type |-> "ExecuteRequested", request |-> r])
BY DEF Events, Plain, Internal

LEMMA ExecuteActionKeepsQuiet ==
  ASSUME Left, Quiet(Remaining, RemainingChannel, analyses), NEW r, ExecuteAction(r)
  PROVE  QuietAfter
<1>1. "Permanent" \in FailureKinds
  BY DEF FailureKinds
<1>2. CASE Push([type |-> "ActionFailed", kind |-> "Permanent"])
  BY <1>1, <1>2, PlainEvents, PushKeepsQuiet
<1>3. CASE Push(Plain("ActionCompleted"))
  BY <1>3, PlainEvents, PushKeepsQuiet
<1>4. CASE \E k \in FailureKinds : Push([type |-> "ActionFailed", kind |-> k])
  BY <1>4, PlainEvents, PushKeepsQuiet
<1> QED
  BY <1>2, <1>3, <1>4 DEF ExecuteAction

LEMMA ReconnectKeepsQuiet ==
  ASSUME Left, Quiet(Remaining, RemainingChannel, analyses), Reconnect
  PROVE  QuietAfter
BY PlainEvents, PushKeepsQuiet DEF Reconnect

LEMMA QuietCloses ==
  ASSUME MachineTyped', OutsideTyped', MachineOK', QuietAfter
  PROVE  Inv'
<1>1. QueuesSound'
  BY QuietIsSound DEF QuietAfter, QueuesSound
<1> QED
  BY <1>1 DEF Inv, QuietAfter

\* Outside of Recovering and Degraded there is nothing but plain events.
LEMMA LeftIsQuiet ==
  ASSUME Inv, events # <<>> \/ channel # <<>>, operational \notin {"Recovering", "Degraded"}
  PROVE  Left /\ Quiet(Remaining, RemainingChannel, analyses)
BY TakenFits, SoundIsQuiet DEF Left, QueuesTyped

-----------------------------------------------------------------------------
(* The arms of the state machine.                                          *)

LEMMA HandlingKeepsOutside ==
  ASSUME Inv, NEW type, Handling(type)
  PROVE  OutsideTyped' /\ lifecycle' \in Lifecycles /\ (events # <<>> \/ channel # <<>>)
BY DEF Inv, Handling, outside, OutsideTyped, Lifecycles

LEMMA ConnectingKeepsInv ==
  ASSUME Inv, StartRequested \/ ResourceAvailable \/ ResourceUnavailable
  PROVE  Inv'
<1>1. PICK type : Handling(type)
  BY DEF StartRequested, ResourceAvailable, ResourceUnavailable
<1>2. operational \notin {"Recovering", "Degraded"}
  BY DEF StartRequested, ResourceAvailable, ResourceUnavailable
<1>3. Left /\ Quiet(Remaining, RemainingChannel, analyses)
  BY <1>1, <1>2, HandlingKeepsOutside, LeftIsQuiet
<1>4. QuietAfter
  BY <1>3, ReconnectKeepsQuiet, NoActionKeepsQuiet
     DEF StartRequested, ResourceAvailable, ResourceUnavailable
<1>5. MachineTyped' /\ MachineOK'
  BY <1>1, HandlingKeepsOutside
     DEF Inv, MachineTyped, MachineOK, StartRequested, ResourceAvailable, ResourceUnavailable,
         context, OperationalStates
<1> QED
  BY <1>1, <1>4, <1>5, HandlingKeepsOutside, QuietCloses

LEMMA ExecuteRequestedKeepsInv ==
  ASSUME Inv, ExecuteRequested
  PROVE  Inv'
<1>1. /\ Handling("ExecuteRequested") /\ operational = "Ready"
      /\ operational' = "Processing" /\ inFlight' = NextEvent.request
      /\ ExecuteAction(inFlight') /\ UNCHANGED <<attempt, lastFailure, panicked>>
  BY DEF ExecuteRequested
<1>2. Left /\ Quiet(Remaining, RemainingChannel, analyses)
  BY <1>1, HandlingKeepsOutside, LeftIsQuiet
<1>3. NextEvent \in Events /\ NextEvent.type = "ExecuteRequested"
  BY <1>1, TakenFits, HandlingKeepsOutside DEF Handling
<1>4. inFlight' \in Requests
  BY <1>1, <1>3 DEF Events
<1>5. MachineTyped' /\ MachineOK'
  BY <1>1, <1>4, HandlingKeepsOutside, RuntimeAssumption
     DEF Inv, MachineTyped, MachineOK, OperationalStates
<1>6. QuietAfter
  BY <1>1, <1>2, ExecuteActionKeepsQuiet
<1> QED
  BY <1>1, <1>5, <1>6, HandlingKeepsOutside, QuietCloses

LEMMA ActionCompletedKeepsInv ==
  ASSUME Inv, ActionCompleted
  PROVE  Inv'
<1>1. Handling("ActionCompleted") /\ operational = "Processing"
  BY DEF ActionCompleted
<1>2. Left /\ Quiet(Remaining, RemainingChannel, analyses)
  BY <1>1, HandlingKeepsOutside, LeftIsQuiet
<1>3. MachineTyped' /\ MachineOK'
  BY <1>1, HandlingKeepsOutside, RuntimeAssumption
     DEF Inv, ActionCompleted, MachineTyped, MachineOK, OperationalStates
<1>4. QuietAfter
  BY <1>2, NoActionKeepsQuiet DEF ActionCompleted
<1> QED
  BY <1>1, <1>3, <1>4, HandlingKeepsOutside, QuietCloses

LEMMA ActionFailedKeepsInv ==
  ASSUME Inv, ActionFailed
  PROVE  Inv'
<1>1. /\ Handling("ActionFailed") /\ operational = "Processing"
      /\ operational' = "Recovering" /\ attempt' = attempt + 1
      /\ lastFailure' = NextEvent.kind /\ Recover /\ UNCHANGED <<inFlight, panicked>>
  BY DEF ActionFailed
<1>2. Left /\ Quiet(Remaining, RemainingChannel, analyses)
  BY <1>1, HandlingKeepsOutside, LeftIsQuiet
<1>3. NextEvent \in Events /\ NextEvent.type = "ActionFailed"
  BY <1>1, TakenFits, HandlingKeepsOutside DEF Handling
<1>4. lastFailure' \in FailureKinds
  BY <1>1, <1>3 DEF Events
<1>5. MachineTyped' /\ MachineOK'
  BY <1>1, <1>4, HandlingKeepsOutside, RuntimeAssumption
     DEF Inv, MachineTyped, MachineOK, OperationalStates
<1> DEFINE e == [type |-> "RecoveryRequested", exhausted |-> Exhausted(attempt', lastFailure')]
<1>6. e \in Events
  BY DEF Events, Exhausted
<1>7. Fits(e, "Recovering", attempt', lastFailure')
  BY DEF Fits
<1>8. Push(e)
  BY <1>1 DEF Recover
<1> HIDE DEF e
<1>9. /\ Append(Remaining, e) \in Seq(Events)
      /\ Sound(Append(Remaining, e), RemainingChannel, analyses, "Recovering", attempt', lastFailure')
  BY <1>2, <1>6, <1>7, MessageIsSound DEF Left
<1>10. QueuesTyped' /\ QueuesSound'
  BY <1>1, <1>2, <1>8, <1>9 DEF Left, Push, QueuesTyped, QueuesSound
<1> QED
  BY <1>1, <1>5, <1>10, HandlingKeepsOutside DEF Inv

\* A try of the request on hold, which is there.
LEMMA RetryKeepsInv ==
  ASSUME Inv, Left, Quiet(Remaining, RemainingChannel, analyses), RetryInFlight,
         operational \in {"Recovering", "Degraded"},
         attempt' \in Nat, attempt' <= MaxAttempts,
         OutsideTyped', lifecycle' \in Lifecycles, UNCHANGED lastFailure
  PROVE  Inv'
<1>1. inFlight \in Requests /\ inFlight # NoRequest
  BY RuntimeAssumption DEF Inv, MachineOK
<1>2. /\ operational' = "Processing" /\ ExecuteAction(inFlight)
      /\ UNCHANGED <<inFlight, panicked>>
  BY <1>1 DEF RetryInFlight
<1>3. MachineTyped' /\ MachineOK'
  BY <1>1, <1>2, RuntimeAssumption DEF Inv, MachineTyped, MachineOK, OperationalStates
<1>4. QuietAfter
  BY <1>2, ExecuteActionKeepsQuiet
<1> QED
  BY <1>3, <1>4, QuietCloses

LEMMA OnRecoveryDecisionKeepsInv ==
  ASSUME Inv, OnRecoveryDecision
  PROVE  Inv'
<1>1. /\ Handling("RecoveryRequested") /\ operational = "Recovering"
      /\ UNCHANGED <<attempt, lastFailure>>
  BY DEF OnRecoveryDecision
<1>2. /\ Left /\ NextEvent.type = "RecoveryRequested"
      /\ Fits(NextEvent, operational, attempt, lastFailure)
      /\ Internal(NextEvent) => Quiet(Remaining, RemainingChannel, analyses)
  BY <1>1, TakenFits, HandlingKeepsOutside DEF Handling
<1>3. Quiet(Remaining, RemainingChannel, analyses)
  BY <1>2 DEF Internal
<1>4. NextEvent.exhausted = Exhausted(attempt, lastFailure)
  BY <1>2 DEF Fits
<1>5. CASE NextEvent.exhausted
  <2>1. /\ operational' = "Degraded" /\ RequestDiagnostic
        /\ UNCHANGED <<attempt, inFlight, lastFailure, panicked>>
    BY <1>5 DEF OnRecoveryDecision
  <2>2. MachineTyped' /\ MachineOK'
    BY <1>1, <2>1, HandlingKeepsOutside DEF Inv, MachineTyped, MachineOK, OperationalStates
  <2> DEFINE asked == Asked(attempt, lastFailure)
             answer == [type |-> "DiagnosticAvailable", proposal |-> "NoAction", about |-> asked]
  <2>3. asked \in Contexts /\ answer \in Events
    BY RuntimeAssumption DEF Inv, MachineTyped, Asked, Contexts, Events, Proposals
  <2>4. Fits(answer, "Degraded", attempt, lastFailure)
    BY DEF Fits, Asked
  <2>5. RemainingChannel = <<>> /\ analyses = <<>> /\ \A i \in DOMAIN Remaining : ~Internal(Remaining[i])
    BY <1>3 DEF Quiet
  <2>6. /\ events' = Remaining
        /\ \/ analyses' = <<asked>> /\ channel' = <<>>
           \/ analyses' = <<>> /\ channel' = <<answer>>
    BY <2>1, <2>5 DEF RequestDiagnostic, Asked
  <2> HIDE DEF answer, asked
  <2>7. QueuesTyped'
    <3>1. <<asked>> \in Seq(Contexts) /\ <<answer>> \in Seq(Events)
      BY <2>3
    <3>2. <<>> \in Seq(Contexts) /\ <<>> \in Seq(Events)
      OBVIOUS
    <3> QED
      BY <1>2, <2>6, <3>1, <3>2 DEF Left, QueuesTyped
  <2>8. Sound(Remaining, <<>>, <<asked>>, "Degraded", attempt, lastFailure)
    BY <2>5 DEF Sound, Fits, Internal, asked
  <2>9. answer.type = "DiagnosticAvailable"
    BY DEF answer
  <2>10. Sound(Remaining, <<answer>>, <<>>, "Degraded", attempt, lastFailure)
    BY <2>4, <2>5, <2>9 DEF Sound, Fits, Internal
  <2>11. QueuesSound'
    BY <2>1, <2>6, <2>8, <2>10 DEF QueuesSound
  <2> QED
    BY <1>1, <2>2, <2>7, <2>11, HandlingKeepsOutside DEF Inv
<1>6. CASE ~NextEvent.exhausted
  <2>1. RetryInFlight
    BY <1>6 DEF OnRecoveryDecision
  <2>2. attempt' \in Nat /\ attempt' <= MaxAttempts
    <3>1. attempt \in Nat /\ attempt' = attempt
      BY <1>1, RuntimeAssumption DEF Inv, MachineTyped
    <3>2. Allows(attempt)
      BY <1>4, <1>6 DEF Exhausted
    <3> QED
      BY <3>1, <3>2 DEF Allows
  <2> QED
    BY <1>1, <1>2, <1>3, <2>1, <2>2, RetryKeepsInv, HandlingKeepsOutside
<1> QED
  BY <1>5, <1>6

LEMMA ProposalAcceptedKeepsInv ==
  ASSUME Inv, ProposalAccepted
  PROVE  Inv'
<1>1. /\ Handling("DiagnosticAvailable") /\ operational = "Degraded"
      /\ attempt' = 0 /\ RetryInFlight /\ UNCHANGED lastFailure
  BY DEF ProposalAccepted
<1>2. Left /\ Quiet(Remaining, RemainingChannel, analyses)
  BY <1>1, TakenFits, HandlingKeepsOutside DEF Handling, Internal
<1> QED
  BY <1>1, <1>2, RetryKeepsInv, HandlingKeepsOutside, RuntimeAssumption

\* The arms that change nothing but what is queued.
LEMMA DropsKeepInv ==
  ASSUME Inv,
         ShutdownRequested \/ ExecuteRequestedWhileDegraded \/ ProposalRejected \/ Unhandled
  PROVE  Inv'
<1>1. /\ NoAction /\ UNCHANGED <<operational, context, panicked, outside>>
      /\ events # <<>> \/ channel # <<>>
      /\ lifecycle' \in Lifecycles
  BY DEF ShutdownRequested, ExecuteRequestedWhileDegraded, ProposalRejected, Unhandled, Handling,
         Lifecycles
<1>2. QueuesTyped' /\ QueuesSound'
  BY <1>1, TakenFits, NoActionKeepsSound DEF context
<1>3. MachineTyped' /\ MachineOK' /\ OutsideTyped'
  BY <1>1 DEF Inv, MachineTyped, MachineOK, OutsideTyped, context, outside
<1> QED
  BY <1>2, <1>3 DEF Inv

-----------------------------------------------------------------------------
(* What happens between two steps.                                         *)

LEMMA PushFromOutsideKeepsInv ==
  ASSUME Inv, OutsideTyped', NEW e \in Events, ~Internal(e), events' = Append(events, e),
         UNCHANGED <<operational, lifecycle, context, channel, analyses, panicked>>
  PROVE  Inv'
<1>1. events \in Seq(Events)
  BY DEF Inv, QueuesTyped
<1>2. /\ Append(events, e) \in Seq(Events)
      /\ Sound(Append(events, e), channel, analyses, operational, attempt, lastFailure)
  BY <1>1, PlainKeepsSound DEF Inv, QueuesSound
<1>3. MachineTyped' /\ MachineOK'
  BY DEF Inv, MachineTyped, MachineOK, context
<1> QED
  BY <1>2, <1>3 DEF Inv, QueuesTyped, QueuesSound, context

LEMMA PushRequestKeepsInv ==
  ASSUME Inv, NEW r \in Requests, PushRequest(r)
  PROVE  Inv'
<1>1. OutsideTyped'
  BY DEF Inv, OutsideTyped, PushRequest
<1> QED
  BY <1>1, PlainEvents, PushFromOutsideKeepsInv DEF PushRequest

LEMMA PushReportKeepsInv ==
  ASSUME Inv, NEW t \in Reported, PushReport(t)
  PROVE  Inv'
<1>1. OutsideTyped'
  BY RuntimeAssumption DEF Inv, OutsideTyped, PushReport
<1> QED
  BY <1>1, PlainEvents, PushFromOutsideKeepsInv DEF PushReport, Reported

LEMMA BlockForDiagnosticsKeepsInv ==
  ASSUME Inv, BlockForDiagnostics
  PROVE  Inv'
<1>0. /\ events \in Seq(Events) /\ channel \in Seq(Events) /\ analyses \in Seq(Contexts)
      /\ Sound(events, channel, analyses, operational, attempt, lastFailure)
  BY DEF Inv, QueuesTyped, QueuesSound
<1>1. channel # <<>> /\ Head(channel) \in Events /\ Tail(channel) \in Seq(Events)
  BY <1>0, HeadTailProperties DEF BlockForDiagnostics
<1>2. Len(channel) + Len(analyses) <= 1
  BY <1>0 DEF Sound
<1>3. Tail(channel) = <<>> /\ analyses = <<>>
  BY <1>0, <1>1, <1>2, OneMessage
<1>4. Head(channel) = channel[1] /\ 1 \in DOMAIN channel
  BY <1>0, <1>1, <1>2, OneMessage
<1>5. Fits(Head(channel), operational, attempt, lastFailure)
  BY <1>0, <1>4 DEF Sound
<1>6. Quiet(events, <<>>, <<>>)
  BY <1>0, <1>1 DEF Sound, Quiet
<1>7. /\ Append(events, Head(channel)) \in Seq(Events)
      /\ Sound(Append(events, Head(channel)), <<>>, <<>>, operational, attempt, lastFailure)
  BY <1>0, <1>1, <1>5, <1>6, MessageIsSound
<1>8. QueuesTyped' /\ QueuesSound'
  <2>1. /\ events' = Append(events, Head(channel)) /\ channel' = <<>> /\ analyses' = <<>>
        /\ UNCHANGED <<operational, attempt, lastFailure>>
    BY <1>3 DEF BlockForDiagnostics, context
  <2>2. <<>> \in Seq(Events) /\ <<>> \in Seq(Contexts)
    OBVIOUS
  <2> QED
    BY <1>7, <2>1, <2>2 DEF QueuesTyped, QueuesSound
<1>9. MachineTyped' /\ MachineOK' /\ OutsideTyped'
  BY DEF BlockForDiagnostics, Inv, MachineTyped, MachineOK, OutsideTyped, context, outside
<1> QED
  BY <1>8, <1>9 DEF Inv

LEMMA AnalysisKeepsInv ==
  ASSUME Inv, NEW i \in DOMAIN analyses,
         AnalysisDies(i) \/ \E p \in Proposals : Analyze(i, p)
  PROVE  Inv'
<1>0. /\ events \in Seq(Events) /\ channel \in Seq(Events) /\ analyses \in Seq(Contexts)
      /\ Sound(events, channel, analyses, operational, attempt, lastFailure)
  BY DEF Inv, QueuesTyped, QueuesSound
<1>1. i = 1 /\ Len(analyses) = 1
  <2>1. Len(channel) + Len(analyses) <= 1
    BY <1>0 DEF Sound
  <2> QED
    BY <1>0, <2>1, OneMessage
<1>2. channel = <<>>
  <2>1. Len(channel) + Len(analyses) <= 1
    BY <1>0 DEF Sound
  <2> QED
    BY <1>0, <2>1, OneMessage
<1>3. RemoveAt(analyses, i) = <<>>
  <2>1. SubSeq(analyses, 1, 0) = <<>> /\ SubSeq(analyses, 2, 1) = <<>>
    BY SubSeqEmpty
  <2> QED
    BY <1>1, <2>1 DEF RemoveAt
<1>4. operational = "Degraded" /\ analyses[i] = Asked(attempt, lastFailure)
  BY <1>0 DEF Sound
<1>5. analyses[i] \in Contexts
  BY <1>0
<1>6. Quiet(events, <<>>, <<>>)
  <2>1. analyses # <<>>
    BY <1>1, EmptySeq
  <2> QED
    BY <1>0, <2>1 DEF Sound, Quiet
<1>7. MachineTyped' /\ MachineOK' /\ OutsideTyped'
  <2>1. UNCHANGED <<operational, lifecycle, context, panicked, outside>>
    BY DEF Analyze, AnalysisDies
  <2> QED
    BY <2>1 DEF Inv, MachineTyped, MachineOK, OutsideTyped, context, outside
<1>8. CASE AnalysisDies(i)
  <2>1. QuietAfter
    BY <1>0, <1>2, <1>3, <1>6, <1>8 DEF AnalysisDies, QuietAfter, QueuesTyped
  <2> QED
    BY <1>7, <2>1, QuietCloses
<1>9. ASSUME NEW p \in Proposals, Analyze(i, p)
      PROVE  Inv'
  <2> DEFINE e == [type |-> "DiagnosticAvailable", proposal |-> p, about |-> analyses[i]]
  <2>1. e \in Events
    BY <1>5 DEF Events
  <2>2. e.type = "DiagnosticAvailable" /\ Fits(e, "Degraded", attempt, lastFailure)
    BY <1>4 DEF Fits
  <2>3. channel' = <<e>> /\ analyses' = <<>> /\ UNCHANGED <<events, operational, attempt, lastFailure>>
    BY <1>2, <1>3, <1>9 DEF Analyze, context
  <2> HIDE DEF e
  <2>4. Sound(events, <<e>>, <<>>, "Degraded", attempt, lastFailure)
    BY <1>6, <2>2 DEF Sound, Quiet, Fits, Internal
  <2>5. QueuesTyped'
    BY <1>0, <2>1, <2>3 DEF QueuesTyped
  <2> QED
    BY <1>4, <1>7, <2>3, <2>4, <2>5 DEF Inv, QueuesSound
<1> QED
  BY <1>8, <1>9

-----------------------------------------------------------------------------
(* The invariant holds.                                                    *)

LEMMA InvInit == Init => Inv
<1> SUFFICES ASSUME Init PROVE Inv
  OBVIOUS
<1>1. MachineTyped /\ OutsideTyped /\ MachineOK
  <2>1. 0 \in 0..MaxAttempts + 1 /\ 0 \in 0..MaxReports
    BY RuntimeAssumption
  <2>2. MachineTyped
    BY <2>1 DEF Init, MachineTyped, OperationalStates, Lifecycles
  <2>3. OutsideTyped
    BY <2>1 DEF Init, OutsideTyped
  <2>4. MachineOK
    BY DEF Init, MachineOK
  <2> QED
    BY <2>2, <2>3, <2>4
<1>2. events = <<>> /\ channel = <<>> /\ analyses = <<>>
  BY DEF Init
<1>3. QueuesTyped
  BY <1>2 DEF QueuesTyped
<1>4. Quiet(events, channel, analyses)
  BY <1>2 DEF Quiet
<1> QED
  BY <1>1, <1>3, <1>4, QuietIsSound DEF Inv, QueuesSound

LEMMA InvNext == Inv /\ [Next]_vars => Inv'
<1> SUFFICES ASSUME Inv, [Next]_vars PROVE Inv'
  OBVIOUS
<1>1. CASE Step
  BY <1>1, ConnectingKeepsInv, ExecuteRequestedKeepsInv, ActionCompletedKeepsInv,
     ActionFailedKeepsInv, OnRecoveryDecisionKeepsInv, ProposalAcceptedKeepsInv, DropsKeepInv
     DEF Step
<1>2. CASE Outside
  BY <1>2, BlockForDiagnosticsKeepsInv, PushRequestKeepsInv, PushReportKeepsInv, AnalysisKeepsInv
     DEF Outside
<1>3. CASE UNCHANGED vars
  BY <1>3
     DEF vars, Inv, MachineTyped, QueuesTyped, OutsideTyped, MachineOK, QueuesSound
<1> QED
  BY <1>1, <1>2, <1>3 DEF Next

LEMMA InvHolds == Spec => []Inv
BY InvInit, InvNext, PTL DEF Spec

(* Every variable keeps its type, and no request fails more often in a row *)
(* than the policy's attempts plus one (RetryPolicy::allows, scheduler.rs, *)
(* and recovery::decide).                                                  *)
THEOREM RuntimeTypeCorrect == Spec => []TypeOK
BY InvHolds, InvIsTyped, PTL

(* Neither expect of the state machine ever fails: pending_request finds a *)
(* request to try again, and the recovery a failure to judge.              *)
THEOREM RuntimeNeverPanics == Spec => []NeverPanics
<1>1. Inv => NeverPanics
  BY DEF Inv, MachineOK, NeverPanics, FailureKinds, NoFailure
<1> QED
  BY <1>1, InvHolds, PTL

LEMMA InvHasOneDiagnosis == Inv => DiagnosisIsCurrent
<1> SUFFICES ASSUME Inv PROVE DiagnosisIsCurrent
  OBVIOUS
<1>0. /\ events \in Seq(Events) /\ channel \in Seq(Events) /\ analyses \in Seq(Contexts)
      /\ Sound(events, channel, analyses, operational, attempt, lastFailure)
  BY DEF Inv, QueuesTyped, QueuesSound
<1>1. Len(channel) + Len(analyses) <= 1
  BY <1>0 DEF Sound
<1> DEFINE here == Asked(attempt, lastFailure)
<1>2. \A d \in UnderWay : operational = "Degraded" /\ d.about = here
  <2>1. \A i \in DOMAIN analyses : operational = "Degraded" /\ analyses[i] = here
    BY <1>0 DEF Sound
  <2>2. \A i \in DOMAIN channel : operational = "Degraded" /\ channel[i].about = here
    BY <1>0 DEF Sound, Fits
  <2>3. \A i \in DOMAIN events : events[i].type = "DiagnosticAvailable" =>
          operational = "Degraded" /\ events[i].about = here
    BY <1>0 DEF Sound, Fits
  <2> HIDE DEF here
  <2> QED
    BY <2>1, <2>2, <2>3 DEF UnderWay, DiagnosesAt
<1>3. \A d, e \in UnderWay : d = e
  <2>1. \A i, j \in DOMAIN analyses : i = j /\ channel = <<>>
    BY <1>0, <1>1, OneMessage
  <2>2. \A i, j \in DOMAIN channel : i = j
    <3> SUFFICES ASSUME NEW i \in DOMAIN channel, NEW j \in DOMAIN channel PROVE i = j
      OBVIOUS
    <3>1. channel # <<>>
      OBVIOUS
    <3>2. Len(channel) = 1
      BY <1>0, <1>1, <3>1, OneMessage
    <3> QED
      BY <1>0, <3>2
  <2>3. \A i \in DOMAIN events : events[i].type = "DiagnosticAvailable" =>
          /\ channel = <<>> /\ analyses = <<>>
          /\ \A j \in DOMAIN events : events[j].type = "DiagnosticAvailable" => i = j
    BY <1>0 DEF Sound, Internal
  <2>4. \A i \in DOMAIN channel : channel # <<>>
    OBVIOUS
  <2>5. \A i \in DOMAIN analyses : analyses # <<>>
    OBVIOUS
  <2> QED
    BY <2>1, <2>2, <2>3, <2>4, <2>5 DEF UnderWay, DiagnosesAt
<1>4. \A d \in UnderWay : UnderWay = {d}
  BY <1>3
<1> QED
  BY <1>2, <1>4 DEF DiagnosisIsCurrent, Asked

(* An analyzer's answer is never taken for one about a later failure: at   *)
(* most one is under way, about the failure that put the request on hold   *)
(* (request_diagnostic in state_machine.rs; nothing numbers the answers).  *)
THEOREM DiagnosisIsAlwaysCurrent == Spec => []DiagnosisIsCurrent
BY InvHolds, InvHasOneDiagnosis, PTL

-----------------------------------------------------------------------------
(* The runtime implements RequestService.                                  *)

LEMMA PhaseOfState ==
  /\ lifecycle = "Stopped" => Phase = "down"
  /\ lifecycle # "Stopped" /\ operational \in {"Processing", "Recovering"} => Phase = "trying"
  /\ lifecycle # "Stopped" /\ operational = "Degraded" => Phase = "held"
  /\ lifecycle # "Stopped" /\ operational \in {"Starting", "Connecting", "Ready"} => Phase = "idle"
BY DEF Phase

LEMMA ServiceInit == Init => Service!Init
BY DEF Init, Service!Init, Phase

LEMMA StepServes ==
  ASSUME Inv, Step
  PROVE  Service!Next \/ UNCHANGED Service!serviceVars
<1>0. /\ lifecycle # "Stopped"
      /\ events # <<>> \/ channel # <<>>
  BY DEF Step, ShutdownRequested, StartRequested, ResourceAvailable, ResourceUnavailable,
         ExecuteRequested, ActionCompleted, ActionFailed, OnRecoveryDecision,
         ExecuteRequestedWhileDegraded, ProposalAccepted, ProposalRejected, Unhandled, Handling, Live
<1>1. CASE ShutdownRequested
  <2>1. /\ Phase # "down" /\ Phase' = "down" /\ UNCHANGED <<inFlight, attempt>>
    BY <1>0, <1>1 DEF ShutdownRequested, Phase, context
  <2> QED
    BY <2>1 DEF Service!Next, Service!Stop
<1>2. CASE StartRequested \/ ResourceAvailable \/ ResourceUnavailable
  <2>1. Phase = "idle" /\ Phase' = "idle" /\ UNCHANGED <<inFlight, attempt>>
    BY <1>0, <1>2 DEF StartRequested, ResourceAvailable, ResourceUnavailable, Handling, Phase, context
  <2> QED
    BY <2>1 DEF Service!serviceVars
<1>3. CASE ExecuteRequested
  <2>1. NextEvent \in Events /\ NextEvent.type = "ExecuteRequested"
    BY <1>0, <1>3, TakenFits DEF ExecuteRequested, Handling
  <2>2. inFlight' \in Requests
    BY <1>3, <2>1 DEF ExecuteRequested, Events
  <2>3. /\ Phase = "idle" /\ Phase' = "trying" /\ inFlight = NoRequest /\ UNCHANGED attempt
    BY <1>0, <1>3 DEF ExecuteRequested, Handling, Phase, Inv, MachineOK
  <2> QED
    BY <2>2, <2>3 DEF Service!Next, Service!Accept
<1>4. CASE ActionCompleted
  <2>1. /\ Phase = "trying" /\ Phase' = "idle" /\ inFlight' = NoRequest /\ attempt' = 0
    BY <1>0, <1>4 DEF ActionCompleted, Handling, Phase
  <2> QED
    BY <2>1 DEF Service!Next, Service!Complete
<1>5. CASE ActionFailed
  <2>1. /\ Phase = "trying" /\ Phase' = "trying" /\ UNCHANGED inFlight
        /\ attempt <= MaxAttempts /\ attempt' = attempt + 1
    BY <1>0, <1>5 DEF ActionFailed, Handling, Phase, Inv, MachineOK
  <2> QED
    BY <2>1 DEF Service!Next, Service!Fail
<1>6. CASE OnRecoveryDecision
  <2>1. inFlight # NoRequest /\ attempt > 0
    BY <1>6, RuntimeAssumption DEF OnRecoveryDecision, Inv, MachineOK
  <2>2. Phase = "trying" /\ UNCHANGED <<attempt, inFlight>> /\ lifecycle' = "Running"
    BY <1>0, <1>6 DEF OnRecoveryDecision, RetryInFlight, Handling, Phase
  <2>3. operational' = "Degraded" \/ operational' = "Processing"
    BY <1>6 DEF OnRecoveryDecision, RetryInFlight
  <2>4. Phase' = "held" \/ Phase' = "trying"
    BY <2>2, <2>3 DEF Phase
  <2> QED
    BY <2>1, <2>2, <2>4 DEF Service!Next, Service!Hold, Service!serviceVars
<1>7. CASE ProposalAccepted
  <2>1. /\ Phase = "held" /\ Phase' = "trying" /\ UNCHANGED inFlight /\ attempt' = 0
    BY <1>0, <1>7 DEF ProposalAccepted, RetryInFlight, Handling, Phase
  <2> QED
    BY <2>1 DEF Service!Next, Service!TryAgain
<1>8. CASE ExecuteRequestedWhileDegraded \/ ProposalRejected \/ Unhandled
  <2>1. UNCHANGED <<operational, context>> /\ lifecycle' # "Stopped"
    BY <1>8 DEF ExecuteRequestedWhileDegraded, ProposalRejected, Unhandled, Handling
  <2> QED
    BY <1>0, <2>1 DEF Service!serviceVars, Phase, context
<1> QED
  BY <1>1, <1>2, <1>3, <1>4, <1>5, <1>6, <1>7, <1>8 DEF Step

LEMMA OutsideDoesNotServe ==
  ASSUME Outside
  PROVE  UNCHANGED Service!serviceVars
<1>1. UNCHANGED <<operational, lifecycle, context>>
  BY DEF Outside, BlockForDiagnostics, PushRequest, PushReport, Analyze, AnalysisDies
<1> QED
  BY <1>1 DEF Service!serviceVars, Phase, context

(* The event loop implements the service that RequestService describes:    *)
(* one request at a time, tried within the policy's bound, then held for a *)
(* diagnosis and given up to no other (state_machine.rs next).             *)
THEOREM RuntimeImplementsService == Spec => ServiceSpec
<1>1. Init => Service!Init
  BY ServiceInit
<1>2. Inv /\ [Next]_vars => [Service!Next]_(Service!serviceVars)
  <2>1. ASSUME Inv, Next PROVE Service!Next \/ UNCHANGED Service!serviceVars
    BY <2>1, StepServes, OutsideDoesNotServe DEF Next
  <2>2. ASSUME UNCHANGED vars PROVE UNCHANGED Service!serviceVars
    BY <2>2 DEF vars, Service!serviceVars, Phase
  <2> QED
    BY <2>1, <2>2
<1> QED
  BY <1>1, <1>2, InvHolds, PTL DEF Spec, ServiceSpec, Service!Spec
=============================================================================

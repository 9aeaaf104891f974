---------------------------- MODULE RequestService ----------------------------
(***************************************************************************)
(* What a client of the kstest-core runtime may rely on: requests are      *)
(* served one at a time; the one in service is tried until it succeeds or  *)
(* is put on hold, at most MaxAttempts + 1 times in a row; a request on    *)
(* hold is tried again or stays where it is, and no other takes its place; *)
(* and the service ends at any time but never begins again.                *)
(*                                                                         *)
(* EventRuntime implements this module: see EventRuntime!ServiceSpec.      *)
(***************************************************************************)
EXTENDS Naturals

CONSTANTS
  Requests,     \* what clients may ask for
  NoRequest,    \* no request is in service
  MaxAttempts   \* RetryPolicy::max_attempts

VARIABLES
  phase,        \* "idle", "trying", "held" or "down"
  request,      \* the request in service
  failures      \* failed tries since it was taken up or last put on hold

serviceVars == <<phase, request, failures>>

Init ==
  /\ phase = "idle"
  /\ request = NoRequest
  /\ failures = 0

Accept(r) ==
  /\ phase = "idle" /\ request = NoRequest
  /\ phase' = "trying"
  /\ request' = r
  /\ UNCHANGED failures

Complete ==
  /\ phase = "trying"
  /\ phase' = "idle"
  /\ request' = NoRequest
  /\ failures' = 0

Fail ==
  /\ phase = "trying" /\ failures <= MaxAttempts
  /\ failures' = failures + 1
  /\ UNCHANGED <<phase, request>>

Hold ==
  /\ phase = "trying" /\ failures > 0
  /\ phase' = "held"
  /\ UNCHANGED <<request, failures>>

TryAgain ==
  /\ phase = "held"
  /\ phase' = "trying"
  /\ failures' = 0
  /\ UNCHANGED request

Stop ==
  /\ phase # "down"
  /\ phase' = "down"
  /\ UNCHANGED <<request, failures>>

Next ==
  \/ \E r \in Requests : Accept(r)
  \/ Complete \/ Fail \/ Hold \/ TryAgain \/ Stop

Spec == Init /\ [][Next]_serviceVars
===============================================================================

---------------------------- MODULE MCEventRuntime ----------------------------
(* Three requests, one of them with an empty payload, for TLC.             *)
EXTENDS EventRuntime

CONSTANTS first, second, empty

MCRequests == {first, second, empty}
MCEmpty    == {empty}
===============================================================================

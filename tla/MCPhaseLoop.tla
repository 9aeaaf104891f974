----------------------------- MODULE MCPhaseLoop -----------------------------
(* Small instances of PhaseLoop for TLC. *)
EXTENDS PhaseLoop, TLC

CONSTANTS src, test, old, new

MCFiles       == {src, test}
MCContents    == {old, new}
MCInitialTree == [f \in Files |-> old]

Request(capability, commands, review) ==
  [capability |-> capability, commands |-> commands, review |-> review]

\* One capability of each kind (writes and asks, writes tests and asks, only
\* reads, writes and may not ask), and with them each choice of the two
\* validation layers.
MCRequests ==
  { Request("implement", FALSE, TRUE), Request("test", TRUE, FALSE),
    Request("review", TRUE, TRUE), Request("txt2img", FALSE, FALSE) }

MCTestRequests == {Request("test", FALSE, FALSE)}
=============================================================================

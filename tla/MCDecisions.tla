------------------------------ MODULE MCDecisions ------------------------------
(* Small instances of Decisions for TLC. *)
EXTENDS Decisions, TLC

CONSTANTS file

MCFiles == {file}

SlotSymmetry == Permutations(Processes) \cup Permutations(Options)
                \cup Permutations(Comments)
==============================================================================

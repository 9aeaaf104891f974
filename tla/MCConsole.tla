------------------------------- MODULE MCConsole -------------------------------
(* Option ids that look like numbers, and lines of every kind, for TLC.    *)
EXTENDS Console, TLC

CONSTANTS e1, e2

MCIds == {e1, e2}

MCWords   == {"0", "1", "keep", "exit"}
MCNumbers == [w \in MCWords |-> CASE w = "0" -> 0 [] w = "1" -> 1 [] OTHER -> NoNumber]

\* Options whose ids are each other's numbers, an id that ends a chat, and
\* two options of one id.
MCGates == {<<"1", "0">>, <<"keep">>, <<"exit", "keep">>, <<"keep", "keep">>}

\* "add a page"; "fix: ..."; "review:" alone; a line whose seventh byte is
\* inside a character.
MCLines ==
  { [prefix |-> "none",   length |-> 10, inside |-> {},  blank |-> FALSE],
    [prefix |-> "fix",    length |-> 12, inside |-> {},  blank |-> FALSE],
    [prefix |-> "review", length |-> 7,  inside |-> {},  blank |-> TRUE],
    [prefix |-> "none",   length |-> 14, inside |-> {7}, blank |-> FALSE] }

MCSymmetry == Permutations(MCIds)
===============================================================================

------------------------------ MODULE MCDelivery ------------------------------
(* A workspace for TLC: the root is no repository and holds a note; in it  *)
(* is a repository with files in a directory of its own, and in that       *)
(* directory a second repository, its submodule.                           *)
EXTENDS Delivery, TLC

CONSTANTS outer, sub, inner, note, subFile, otherFile, innerFile

MCNames == {outer, sub, inner}
MCDirs  == {<<>>, <<outer>>, <<outer, sub>>, <<outer, sub, inner>>}
MCRepos == {<<outer>>, <<outer, sub, inner>>}

MCFiles == {note, subFile, otherFile, innerFile}

MCDirOf == [f \in Files |-> CASE f = note -> <<>>
                              [] f = innerFile -> <<outer, sub, inner>>
                              [] OTHER -> <<outer, sub>>]

\* In one repository, in both, in none, and in some and none.
MCChangeSets == (SUBSET {subFile, otherFile, innerFile}) \cup {{note}, {note, innerFile}}

FileSymmetry == Permutations({subFile, otherFile})
===============================================================================

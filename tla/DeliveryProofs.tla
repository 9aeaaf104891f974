---------------------------- MODULE DeliveryProofs ----------------------------
(***************************************************************************)
(* Proofs about Delivery for any nesting of repositories, any files, any   *)
(* number of executions and every way of delivery, whichever commands      *)
(* fail: the files of an execution arrive where they belong.               *)
(***************************************************************************)
EXTENDS Delivery, FiniteSetTheorems, WellFoundedInduction,
        SequenceTheorems, TLAPS

-----------------------------------------------------------------------------
(* Where the walk of nearest_repo_root ends.                               *)

\* A set of numbers has a least one.
LEMMA LeastNumber ==
  ASSUME NEW T \in SUBSET Nat, T # {}
  PROVE  \E m \in T : \A n \in T : m <= n
<1>1. \E m \in T : \A n \in T : ~ (<<n, m>> \in OpToRel(<, Nat))
  BY NatLessThanWellFounded, WFMin
<1>2. OpToRel(<, Nat) = {ss \in Nat \X Nat : ss[1] < ss[2]}
  BY Zenon DEF OpToRel
<1>3. \A m, n \in Nat : n < m => <<n, m>> \in {ss \in Nat \X Nat : ss[1] < ss[2]}
  OBVIOUS
<1>4. \E m \in T : \A n \in T : ~(n < m)
  BY <1>1, <1>2, <1>3
<1> QED
  BY <1>4

Innermost(d) ==
  IF Around(d) = {} THEN NoRepo
  ELSE CHOOSE r \in Around(d) : \A s \in Around(d) : Len(s) <= Len(r)

LEMMA PathFacts ==
  ASSUME NEW d \in Dirs
  PROVE  /\ d \in Seq(Names) /\ Len(d) \in Nat
         /\ SubSeq(d, 1, Len(d)) = d
         /\ SubSeq(d, 1, 0) = Root
         /\ d # Root => /\ Len(d) > 0 /\ Parent(d) \in Dirs /\ Len(Parent(d)) = Len(d) - 1
                        /\ \A n \in 0..Len(Parent(d)) : SubSeq(Parent(d), 1, n) = SubSeq(d, 1, n)
<1>1. d \in Seq(Names) /\ Len(d) \in Nat
  BY DeliveryAssumption
<1>2. SubSeq(d, 1, Len(d)) = d /\ SubSeq(d, 1, 0) = Root
  BY <1>1 DEF Root
<1>3. ASSUME d # Root
      PROVE  /\ Len(d) > 0 /\ Parent(d) \in Dirs /\ Len(Parent(d)) = Len(d) - 1
             /\ \A n \in 0..Len(Parent(d)) : SubSeq(Parent(d), 1, n) = SubSeq(d, 1, n)
  <2>1. Len(d) > 0
    BY <1>1, <1>3 DEF Root
  <2>2. Parent(d) \in Dirs
    BY <1>3, DeliveryAssumption
  <2>3. Len(d) - 1 \in Int /\ \A i \in 1..(Len(d) - 1) : d[i] \in Names
    BY <1>1, <2>1
  <2>5. /\ Parent(d) \in Seq(Names) /\ Len(Parent(d)) = Len(d) - 1
        /\ \A i \in 1..(Len(d) - 1) : Parent(d)[i] = d[i]
    <3> DEFINE n == Len(d) - 1
    <3>1. n \in Nat /\ \A i \in 1..n : d[i] \in Names
      BY <1>1, <2>1, <2>3
    <3> HIDE DEF n
    <3>2. /\ SubSeq(d, 1, n) \in Seq(Names) /\ Len(SubSeq(d, 1, n)) = n
          /\ \A i \in 1..n : SubSeq(d, 1, n)[i] = d[i]
      BY <3>1, SubSeqProperties
    <3> QED
      BY <3>2 DEF n, Parent
  <2>4. ASSUME NEW n \in 0..Len(Parent(d))
        PROVE  SubSeq(Parent(d), 1, n) = SubSeq(d, 1, n)
    BY <1>1, <2>1, <2>5
  <2> QED
    BY <2>1, <2>2, <2>5, <2>4
<1> QED
  BY <1>1, <1>2, <1>3

\* The repositories around a directory are it, if it is one, and those
\* around its parent.
LEMMA AroundOneUp ==
  ASSUME NEW d \in Dirs
  PROVE  /\ d = Root => Around(d) = {d} \cap GitDirs
         /\ d # Root => Around(d) = ({d} \cap GitDirs) \cup Around(Parent(d))
<1>1. CASE d = Root
  BY <1>1, PathFacts DEF Around, Root
<1>2. CASE d # Root
  <2>1. /\ Len(d) \in Nat /\ Len(d) > 0 /\ Len(Parent(d)) = Len(d) - 1
        /\ \A n \in 0..Len(Parent(d)) : SubSeq(Parent(d), 1, n) = SubSeq(d, 1, n)
        /\ SubSeq(d, 1, Len(d)) = d
    BY <1>2, PathFacts
  <2>2. 0..Len(d) = (0..Len(Parent(d))) \cup {Len(d)}
    BY <2>1
  <2> QED
    BY <1>2, <2>1, <2>2 DEF Around
<1> QED
  BY <1>1, <1>2

LEMMA AroundLen ==
  ASSUME NEW d \in Dirs, NEW r \in Around(d)
  PROVE  /\ r \in GitDirs /\ r \in Dirs /\ Len(r) \in Nat /\ Len(r) <= Len(d)
         /\ Len(r) = Len(d) => r = d
<1>1. PICK n \in 0..Len(d) : r = SubSeq(d, 1, n)
  BY DEF Around
<1>2. d \in Seq(Names) /\ Len(d) \in Nat /\ SubSeq(d, 1, Len(d)) = d
  BY PathFacts
<1>3. Len(r) = n
  BY <1>1, <1>2
<1>5. n = Len(d) => r = d
  BY <1>1, <1>2
<1>4. r \in GitDirs /\ r \in Dirs
  BY DeliveryAssumption DEF Around
<1>6. n \in Nat /\ n <= Len(d)
  BY <1>2
<1> QED
  BY <1>3, <1>4, <1>5, <1>6

\* A directory in a repository lies in an innermost one.
LEMMA InnermostExists ==
  ASSUME NEW d \in Dirs, Around(d) # {}
  PROVE  \E r \in Around(d) : \A s \in Around(d) : Len(s) <= Len(r)
<1> DEFINE below == {Len(d) - Len(r) : r \in Around(d)}
<1>1. Len(d) \in Nat /\ \A r \in Around(d) : Len(r) \in Nat /\ Len(r) <= Len(d)
  BY PathFacts, AroundLen
<1>2. below \in SUBSET Nat /\ below # {}
  BY <1>1
<1>3. PICK least \in below : \A n \in below : least <= n
  BY <1>2, LeastNumber
<1>4. PICK r \in Around(d) : least = Len(d) - Len(r)
  BY <1>3
<1>5. \A s \in Around(d) : Len(d) - Len(r) <= Len(d) - Len(s)
  BY <1>3, <1>4
<1> QED
  BY <1>1, <1>5

\* What the walk up from a directory should find is what it does find.
LEMMA InnermostIsAWalk ==
  ASSUME NEW d \in Dirs
  PROVE  Innermost(d) = IF d \in GitDirs THEN d
                        ELSE IF d = Root THEN NoRepo ELSE Innermost(Parent(d))
<1>1. CASE d \in GitDirs
  <2>1. d \in Around(d)
    BY <1>1, AroundOneUp
  <2>2. \A s \in Around(d) : Len(s) <= Len(d)
    BY AroundLen
  <2>3. \A r \in Around(d) : (\A s \in Around(d) : Len(s) <= Len(r)) => r = d
    <3> SUFFICES ASSUME NEW r \in Around(d), \A s \in Around(d) : Len(s) <= Len(r)
                 PROVE  r = d
      OBVIOUS
    <3>1. Len(d) <= Len(r) /\ Len(r) <= Len(d) /\ Len(r) \in Nat /\ Len(d) \in Nat
      BY <2>1, AroundLen, PathFacts
    <3>2. Len(r) = Len(d)
      BY <3>1
    <3> QED
      BY <3>2, AroundLen
  <2>4. (CHOOSE r \in Around(d) : \A s \in Around(d) : Len(s) <= Len(r)) = d
    BY <2>1, <2>2, <2>3
  <2> QED
    BY <1>1, <2>1, <2>4 DEF Innermost
<1>2. CASE d \notin GitDirs /\ d = Root
  BY <1>2, AroundOneUp DEF Innermost
<1>3. CASE d \notin GitDirs /\ d # Root
  <2>1. Around(d) = Around(Parent(d))
    BY <1>3, AroundOneUp
  <2> QED
    BY <1>3, <2>1 DEF Innermost
<1> QED
  BY <1>1, <1>2, <1>3

\* nearest_repo_root finds the innermost repository around a directory.
LEMMA NearestIsInnermost ==
  ASSUME NEW d \in Dirs
  PROVE  Nearest[d] = Innermost(d)
<1> DEFINE up == [e \in Dirs |-> Innermost(e)]
<1>1. up = [e \in Dirs |-> IF e \in GitDirs THEN e
                           ELSE IF e = Root THEN NoRepo ELSE up[Parent(e)]]
  BY InnermostIsAWalk, PathFacts
<1>2. Nearest = [e \in Dirs |-> IF e \in GitDirs THEN e
                                ELSE IF e = Root THEN NoRepo ELSE Nearest[Parent(e)]]
  <2> HIDE DEF up
  <2>1. \E repo : repo = [e \in Dirs |-> IF e \in GitDirs THEN e
                           ELSE IF e = Root THEN NoRepo ELSE repo[Parent(e)]]
    BY <1>1
  <2> QED
    BY <2>1 DEF Nearest
<1>3. \A e \in Dirs : Nearest[e] = IF e \in GitDirs THEN e
                                   ELSE IF e = Root THEN NoRepo ELSE Nearest[Parent(e)]
  BY <1>2
<1> DEFINE bad == {Len(e) : e \in {e \in Dirs : Nearest[e] # Innermost(e)}}
<1>4. bad \in SUBSET Nat
  BY PathFacts
<1>5. SUFFICES ASSUME bad # {} PROVE FALSE
  OBVIOUS
<1>6. PICK least \in bad : \A n \in bad : least <= n
  BY <1>4, <1>5, LeastNumber
<1>7. PICK e \in Dirs : Nearest[e] # Innermost(e) /\ Len(e) = least
  BY <1>6
<1>8. e \notin GitDirs /\ e # Root
  BY <1>3, <1>7, InnermostIsAWalk
<1>9. /\ Nearest[e] = Nearest[Parent(e)] /\ Innermost(e) = Innermost(Parent(e))
      /\ Parent(e) \in Dirs /\ Len(Parent(e)) = Len(e) - 1 /\ Len(e) \in Nat
  BY <1>3, <1>8, InnermostIsAWalk, PathFacts
<1>10. Len(Parent(e)) \in bad
  BY <1>7, <1>9
<1> QED
  BY <1>4, <1>6, <1>7, <1>9, <1>10
-----------------------------------------------------------------------------
(* The inductive invariant.                                                *)

\* In the first repository left to commit in, one of these commands is next.
NextIs(commands) == todo # <<>> /\ Commands[step] \in commands

Within(r, repos) == \E i \in 1..Len(repos) : repos[i] = r

\* The batch: the repositories left come innermost first, each once.
BatchInv ==
  /\ mode = "idle" => todo = <<>> /\ done = <<>> /\ ~agreed
  /\ mode # "idle" => turn \in Turns /\ turn \notin failed
  /\ agreed => mode = "chat" /\ todo = <<>> /\ done # <<>>
  /\ todo = <<>> /\ ~agreed => step = 1
  /\ \A t \in failed : t <= turn
  /\ \A i, j \in 1..Len(todo) :
       i < j => todo[i] # todo[j] /\ Len(todo[i]) >= Len(todo[j])

\* Between add and commit.
Staging(r) == NextIs({"commit"}) /\ r = Head(todo)

\* The commit in repository r is still to come.
Awaits(r) == Within(r, todo) /\ (r = Head(todo) => ~NextIs({"push", "pr"}))

\* Until the commit in a repository its index is the one that the delivery has
\* found there, and between add and commit it has the execution's files too.
StagedInv ==
  \A r \in GitDirs :
    Awaits(r) =>
      git[r].staged = found[r] \cup IF Staging(r) THEN Owned(r, edits[turn]) ELSE {}

\* Repository r holds all that execution t has changed in it.
Holds(r, t) == Owned(r, edits[t]) \subseteq git[r].content[t]

\* In a delivery, a repository is left to commit in or holds its files.
ContentInv ==
  /\ \A r \in GitDirs, t \in Turns : t > turn => git[r].content[t] = {}
  /\ mode # "idle" =>
       \A r \in GitDirs : Awaits(r) \/ Holds(r, turn)
  /\ \A t \in (1..turn) \ failed :
       t < turn \/ mode = "idle" =>
         /\ \A r \in GitDirs : Holds(r, t)
         /\ t = turn => Owned(NoRepo, edits[t]) \subseteq reported
  /\ CommitIsIndexPlusExecution
  /\ InnerIsCommittedFirst

\* An execution's branch, from its checkout to its pull request.
HeadsInv ==
  /\ mode # "follow-up" /\ NextIs({"add", "commit", "push", "pr"}) =>
       git[Head(todo)].head = turn
  /\ mode = "pr" /\ NextIs({"push", "pr"}) => turn \in git[Head(todo)].tips[turn]
  /\ mode = "pr" /\ NextIs({"pr"}) => turn \in remote[Head(todo)][turn]

\* And from then on.
PullsInv ==
  \A p \in pulls :
    /\ p[2] <= turn
    /\ p[2] \in git[p[1]].tips[p[2]] /\ p[2] \in remote[p[1]][p[2]]
    /\ p[2] = turn /\ mode # "idle" => mode = "pr" /\ ~Within(p[1], todo)

BranchInv == HeadsInv /\ PullsInv

\* What a chat has committed it has asked about, or still will.
ChatInv ==
  /\ agreed => Head(done) \in asked /\ <<Head(done), turn>> \in confirmed
  /\ mode = "chat" =>
       \A r \in GitDirs :
         git[r].content[turn] # {} => r \in asked \/ Within(r, done)

Inv == TypeOK /\ BatchInv /\ StagedInv /\ ContentInv /\ BranchInv /\ ChatInv
-----------------------------------------------------------------------------
(* Where a delivery is, and where a command that succeeds takes it.        *)

LEMMA ModesAre ==
  ASSUME TypeOK, BatchInv, mode # "idle"
  PROVE  mode \in {"chat", "pr", "follow-up"} /\ turn \in Turns /\ turn \in Nat
BY DeliveryAssumption DEF TypeOK, BatchInv, Turns

LEMMA CommandsAre ==
  /\ mode = "chat" => Commands = <<"checkout", "add", "commit">>
  /\ mode = "pr" => Commands = <<"checkout", "add", "commit", "push", "pr">>
  /\ mode = "follow-up" => Commands = <<"add", "commit", "push">>
BY DEF Commands, PullRequestCommands

LEMMA NextCommand ==
  ASSUME TypeOK, BatchInv, todo # <<>>
  PROVE  /\ mode \in {"chat", "pr", "follow-up"}
         /\ step \in 1..Len(Commands) /\ step \in Nat
         /\ Commands[step] \in {"checkout", "add", "commit", "push", "pr"}
         /\ Commands[step] = "push" => mode # "chat"
         /\ Commands[step] = "pr" => mode = "pr"
         /\ Commands[step] = "checkout" => mode # "follow-up"
<1>1. mode # "idle" /\ step \in 1..Len(Commands)
  BY DEF TypeOK, BatchInv
<1>2. mode \in {"chat", "pr", "follow-up"}
  BY <1>1, ModesAre
<1>3. CASE mode = "chat"
  <2>1. step \in 1..3
    BY <1>1, <1>3, CommandsAre
  <2> QED
    BY <1>1, <1>3, <2>1, CommandsAre
<1>4. CASE mode = "pr"
  <2>1. step \in 1..5
    BY <1>1, <1>4, CommandsAre
  <2> QED
    BY <1>1, <1>4, <2>1, CommandsAre
<1>5. CASE mode = "follow-up"
  <2>1. step \in 1..3
    BY <1>1, <1>5, CommandsAre
  <2> QED
    BY <1>1, <1>5, <2>1, CommandsAre
<1> QED
  BY <1>2, <1>3, <1>4, <1>5

\* After a command in a repository of todo: the next one there, or the first
\* one of the next repository.
WorkProceeds ==
  /\ UNCHANGED <<turn, mode>> /\ agreed' = agreed
  /\ \/ /\ UNCHANGED <<todo, done>> /\ step' \in 1..Len(Commands')
        /\ <<Commands[step], Commands'[step']>> \in
             {<<"checkout", "add">>, <<"add", "commit">>,
              <<"commit", "push">>, <<"push", "pr">>}
        /\ Commands[step] = "commit" => mode # "chat"
        /\ Commands[step] = "push" => mode = "pr"
     \/ /\ todo' = Tail(todo) /\ done' = Append(done, Head(todo)) /\ step' = 1
        /\ \/ mode = "chat" /\ Commands[step] = "commit"
           \/ mode = "pr" /\ Commands[step] = "pr"
           \/ mode = "follow-up" /\ Commands[step] = "push"
        /\ step' \in 1..Len(Commands')
        /\ Commands'[step'] \in {"checkout", "add"}
        /\ mode # "follow-up" => Commands'[step'] = "checkout"

LEMMA ProceedInTodo ==
  ASSUME TypeOK, BatchInv, todo # <<>>, Proceed
  PROVE  WorkProceeds
<1>1. /\ mode \in {"chat", "pr", "follow-up"} /\ step \in 1..Len(Commands)
      /\ UNCHANGED <<turn, mode, agreed>> /\ Commands' = Commands
      /\ \/ step # Len(Commands) /\ step' = step + 1 /\ UNCHANGED <<todo, done>>
         \/ /\ step = Len(Commands) /\ step' = 1
            /\ todo' = Tail(todo) /\ done' = Append(done, Head(todo))
  BY NextCommand DEF Proceed, AtTheLast, Commands
<1>2. CASE mode = "chat"
  <2>1. Commands = <<"checkout", "add", "commit">> /\ Len(Commands) = 3
    BY <1>2, CommandsAre
  <2>2. step \in {1, 2, 3}
    BY <1>1, <2>1
  <2> QED
    BY <1>1, <1>2, <2>1, <2>2 DEF WorkProceeds
<1>3. CASE mode = "pr"
  <2>1. Commands = <<"checkout", "add", "commit", "push", "pr">> /\ Len(Commands) = 5
    BY <1>3, CommandsAre
  <2>2. step \in {1, 2, 3, 4, 5}
    BY <1>1, <2>1
  <2> QED
    BY <1>1, <1>3, <2>1, <2>2 DEF WorkProceeds
<1>4. CASE mode = "follow-up"
  <2>1. Commands = <<"add", "commit", "push">> /\ Len(Commands) = 3
    BY <1>4, CommandsAre
  <2>2. step \in {1, 2, 3}
    BY <1>1, <2>1
  <2> QED
    BY <1>1, <1>4, <2>1, <2>2 DEF WorkProceeds
<1> QED
  BY <1>1, <1>2, <1>3, <1>4

\* After a command of a merge: the next one, or the next question.
MergeProceeds ==
  /\ UNCHANGED <<turn, mode, todo>>
  /\ \/ done' = done /\ (agreed' <=> agreed) /\ step' \in 1..3
     \/ done' = Tail(done) /\ ~agreed' /\ step' = 1
  /\ agreed' \in BOOLEAN

LEMMA ProceedInDone ==
  ASSUME TypeOK, todo = <<>>, Proceed
  PROVE  MergeProceeds
<1>1. step \in 1..3 /\ Len(MergeCommands) = 3 /\ agreed \in BOOLEAN
  BY DEF TypeOK, MergeCommands
<1>2. agreed' \in BOOLEAN
  BY <1>1 DEF Proceed
<1> QED
  BY <1>1, <1>2 DEF Proceed, AtTheLast, MergeProceeds

LEMMA HeadOfSeq ==
  ASSUME NEW S, NEW s \in Seq(S), s # <<>>
  PROVE  /\ Head(s) \in S /\ Head(s) = s[1] /\ Len(s) \in Nat /\ 1 \in 1..Len(s)
         /\ Tail(s) \in Seq(S) /\ Len(Tail(s)) = Len(s) - 1
         /\ \A i \in 1..Len(Tail(s)) : Tail(s)[i] = s[i + 1] /\ i + 1 \in 1..Len(s)
OBVIOUS

LEMMA TurnsAreBranches ==
  /\ Turns \subseteq Branches /\ Turns \subseteq Commits /\ Turns \subseteq Nat
  /\ Base \in Branches /\ Start \in Branches /\ Base \notin Turns /\ Start \notin Turns
  /\ Ahead \in Commits /\ Start \in Commits /\ Start # Base
BY DeliveryAssumption DEF Turns, Branches, Commits, Base, Start, Ahead

LEMMA RunningInTodo ==
  ASSUME TypeOK, BatchInv,
         NEW command \in {"checkout", "add", "commit", "push", "pr"}, Running(command)
  PROVE  /\ todo # <<>> /\ Commands[step] = command
         /\ Repo = Head(todo) /\ Repo \in GitDirs /\ Within(Repo, todo)
         /\ turn \in Turns /\ turn \in Branches /\ ~agreed
<1>1. todo # <<>>
  <2> SUFFICES ASSUME todo = <<>> PROVE FALSE
    OBVIOUS
  <2>1. step \in 1..Len(MergeCommands)
    BY DEF TypeOK
  <2>4. step \in {1, 2, 3}
    BY <2>1 DEF MergeCommands
  <2>5. /\ MergeCommands[1] = "checkout base" /\ MergeCommands[2] = "merge"
        /\ MergeCommands[3] = "delete"
    BY DEF MergeCommands
  <2>2. MergeCommands[step] \in {"checkout base", "merge", "delete"}
    BY <2>4, <2>5
  <2>3. MergeCommands[step] = command
    BY DEF Running
  <2> QED
    BY <2>2, <2>3
<1>2. Commands[step] = command /\ Repo = Head(todo)
  BY <1>1 DEF Running, Repo
<1>3. todo \in Seq(GitDirs)
  BY DEF TypeOK
<1>4. Head(todo) \in GitDirs /\ Head(todo) = todo[1] /\ 1 \in 1..Len(todo)
  BY <1>1, <1>3, HeadOfSeq
<1>5. turn \in Turns /\ ~agreed
  BY <1>1 DEF BatchInv
<1> QED
  BY <1>1, <1>2, <1>4, <1>5, TurnsAreBranches DEF Within

LEMMA RunningInDone ==
  ASSUME TypeOK, BatchInv,
         NEW command \in {"checkout base", "merge", "delete"}, Running(command)
  PROVE  /\ todo = <<>> /\ agreed /\ mode = "chat" /\ done # <<>>
         /\ Repo = Head(done) /\ Repo \in GitDirs
         /\ turn \in Turns /\ turn \in Branches
<1>1. todo = <<>>
  BY NextCommand DEF Running
<1>2. agreed /\ mode = "chat" /\ done # <<>> /\ turn \in Turns
  BY <1>1 DEF Running, BatchInv
<1>3. Repo = Head(done) /\ done \in Seq(GitDirs)
  BY <1>1 DEF Repo, TypeOK
<1>4. Repo \in GitDirs
  BY <1>2, <1>3, HeadOfSeq
<1> QED
  BY <1>1, <1>2, <1>3, <1>4, TurnsAreBranches

-----------------------------------------------------------------------------
(* The types of the variables, and the batch.                              *)

PlaceTyped ==
  /\ turn \in 0..MaxTurns
  /\ mode \in Modes \cup {"idle"}
  /\ todo \in Seq(GitDirs) /\ done \in Seq(GitDirs)
  /\ step \in IF todo # <<>> THEN 1..Len(Commands) ELSE 1..Len(MergeCommands)
  /\ agreed \in BOOLEAN

HistoryTyped ==
  /\ edits \in [Turns -> SUBSET Files]
  /\ found \in [GitDirs -> SUBSET Paths]
  /\ reported \subseteq Files
  /\ failed \subseteq Turns
  /\ asked \subseteq GitDirs
  /\ confirmed \subseteq Deeds

RemoteTyped ==
  /\ remote \in [GitDirs -> [Branches -> SUBSET Commits]]
  /\ pulls \subseteq Deeds

LEMMA TypeParts ==
  TypeOK <=> /\ git \in [GitDirs -> Repositories]
             /\ PlaceTyped /\ HistoryTyped /\ RemoteTyped
BY DEF TypeOK, PlaceTyped, HistoryTyped, RemoteTyped

LEMMA AppendSeq ==
  ASSUME NEW S, NEW s \in Seq(S), NEW x \in S
  PROVE  /\ Append(s, x) \in Seq(S) /\ Len(Append(s, x)) = Len(s) + 1
         /\ \A i \in 1..Len(s) : Append(s, x)[i] = s[i]
         /\ Append(s, x)[Len(s) + 1] = x
OBVIOUS

\* Who is left after the head of a sequence is done.
LEMMA WithinParts ==
  ASSUME NEW s \in Seq(GitDirs), NEW r
  PROVE  /\ ~Within(r, <<>>)
         /\ s # <<>> => (Within(r, s) <=> r = Head(s) \/ Within(r, Tail(s)))
         /\ \A x \in GitDirs : Within(r, Append(s, x)) <=> r = x \/ Within(r, s)
<1>1. ~Within(r, <<>>)
  BY DEF Within
<1>2. ASSUME s # <<>>
      PROVE  Within(r, s) <=> r = Head(s) \/ Within(r, Tail(s))
  <2>1. /\ Head(s) = s[1] /\ Len(s) \in Nat /\ 1 \in 1..Len(s)
        /\ Len(Tail(s)) = Len(s) - 1
        /\ \A i \in 1..Len(Tail(s)) : Tail(s)[i] = s[i + 1] /\ i + 1 \in 1..Len(s)
    BY <1>2, HeadOfSeq
  <2>2. ASSUME Within(r, s), r # Head(s)
        PROVE  Within(r, Tail(s))
    <3>1. PICK i \in 1..Len(s) : s[i] = r
      BY <2>2 DEF Within
    <3>2. i - 1 \in 1..Len(Tail(s)) /\ (i - 1) + 1 = i
      BY <2>1, <2>2, <3>1
    <3> QED
      BY <2>1, <3>1, <3>2 DEF Within
  <2>3. ASSUME Within(r, Tail(s))
        PROVE  Within(r, s)
    BY <2>1, <2>3 DEF Within
  <2> QED
    BY <2>1, <2>2, <2>3 DEF Within
<1>3. ASSUME NEW x \in GitDirs
      PROVE  Within(r, Append(s, x)) <=> r = x \/ Within(r, s)
  <2>1. /\ Len(Append(s, x)) = Len(s) + 1 /\ Len(s) \in Nat
        /\ \A i \in 1..Len(s) : Append(s, x)[i] = s[i]
        /\ Append(s, x)[Len(s) + 1] = x
    BY AppendSeq
  <2>2. Within(r, Append(s, x)) => r = x \/ Within(r, s)
    BY <2>1 DEF Within
  <2>3. r = x \/ Within(r, s) => Within(r, Append(s, x))
    BY <2>1 DEF Within
  <2> QED
    BY <2>2, <2>3
<1> QED
  BY <1>1, <1>2, <1>3

LEMMA WorkKeepsPlace ==
  ASSUME TypeOK, BatchInv, todo # <<>>, WorkProceeds, failed' = failed
  PROVE  /\ PlaceTyped' /\ BatchInv'
         /\ todo' = Tail(todo) => ~Within(Head(todo), todo')
<1>1. /\ todo \in Seq(GitDirs) /\ done \in Seq(GitDirs) /\ PlaceTyped
      /\ UNCHANGED <<turn, mode>> /\ agreed' = agreed
  BY TypeParts DEF TypeOK, WorkProceeds
<1>2. CASE UNCHANGED <<todo, done>> /\ step' \in 1..Len(Commands')
  <2>1. PlaceTyped'
    BY <1>1, <1>2 DEF PlaceTyped
  <2>2. BatchInv'
    BY <1>1, <1>2 DEF BatchInv
  <2>3. todo' # Tail(todo)
    BY <1>1, <1>2, HeadOfSeq
  <2> QED
    BY <2>1, <2>2, <2>3
<1>3. CASE /\ todo' = Tail(todo) /\ done' = Append(done, Head(todo)) /\ step' = 1
           /\ step' \in 1..Len(Commands')
  <2>1. /\ Head(todo) \in GitDirs /\ todo' \in Seq(GitDirs) /\ Len(todo') = Len(todo) - 1
        /\ \A i \in 1..Len(todo') : todo'[i] = todo[i + 1] /\ i + 1 \in 1..Len(todo)
        /\ Head(todo) = todo[1] /\ 1 \in 1..Len(todo) /\ Len(todo') \in Nat
    BY <1>1, <1>3, HeadOfSeq
  <2>2. done' \in Seq(GitDirs)
    BY <1>1, <1>3, <2>1
  <2>3. 1 \in 1..Len(MergeCommands')
    BY DEF MergeCommands
  <2>4. PlaceTyped'
    BY <1>1, <1>3, <2>1, <2>2, <2>3 DEF PlaceTyped
  <2>5. \A i, j \in 1..Len(todo) :
          i < j => todo[i] # todo[j] /\ Len(todo[i]) >= Len(todo[j])
    BY DEF BatchInv
  <2>6. ASSUME NEW i \in 1..Len(todo'), NEW j \in 1..Len(todo'), i < j
        PROVE  todo'[i] # todo'[j] /\ Len(todo'[i]) >= Len(todo'[j])
    <3>1. i + 1 < j + 1
      BY <2>6
    <3> QED
      BY <2>1, <2>5, <3>1
  <2>7. mode # "idle" /\ ~agreed
    BY DEF BatchInv
  <2>8. BatchInv'
    BY <1>1, <1>3, <2>6, <2>7 DEF BatchInv
  <2>9. ~Within(Head(todo), todo')
    <3> SUFFICES ASSUME NEW i \in 1..Len(todo'), todo'[i] = Head(todo) PROVE FALSE
      BY DEF Within
    <3>1. i + 1 \in 1..Len(todo) /\ 1 < i + 1 /\ todo[1] = todo[i + 1]
      BY <2>1
    <3> QED
      BY <2>1, <2>5, <3>1
  <2> QED
    BY <2>4, <2>8, <2>9
<1> QED
  BY <1>2, <1>3 DEF WorkProceeds

LEMMA MergeKeepsPlace ==
  ASSUME TypeOK, BatchInv, todo = <<>>, agreed, MergeProceeds, failed' = failed
  PROVE  PlaceTyped' /\ BatchInv'
<1>1. /\ done \in Seq(GitDirs) /\ done # <<>> /\ PlaceTyped /\ mode = "chat"
      /\ UNCHANGED <<turn, mode, todo>> /\ turn \in Turns /\ turn \notin failed
      /\ \A t \in failed : t <= turn
  BY TypeParts DEF TypeOK, BatchInv, MergeProceeds
<1>2. Tail(done) \in Seq(GitDirs)
  BY <1>1, HeadOfSeq
<1>3. done' \in Seq(GitDirs) /\ agreed' \in BOOLEAN
  BY <1>1, <1>2 DEF MergeProceeds, PlaceTyped
<1>4. step' \in 1..Len(MergeCommands')
  <2>1. step' \in 1..3
    BY DEF MergeProceeds
  <2>2. Len(MergeCommands') = 3
    BY DEF MergeCommands
  <2> QED
    BY <2>1, <2>2
<1>5. PlaceTyped'
  BY <1>1, <1>3, <1>4 DEF PlaceTyped
<1>8. /\ mode' # "idle" /\ turn' \in Turns /\ turn' \notin failed' /\ todo' = <<>>
      /\ \A t \in failed' : t <= turn'
      /\ \A i, j \in 1..Len(todo') :
           i < j => todo'[i] # todo'[j] /\ Len(todo'[i]) >= Len(todo'[j])
  BY <1>1
<1>6. CASE done' = done /\ (agreed' <=> agreed)
  <2>1. agreed' /\ mode' = "chat" /\ done' # <<>>
    BY <1>1, <1>6
  <2> QED
    BY <1>5, <1>8, <2>1 DEF BatchInv
<1>7. CASE ~agreed' /\ step' = 1
  BY <1>5, <1>7, <1>8 DEF BatchInv
<1> QED
  BY <1>6, <1>7 DEF MergeProceeds

LEMMA EndKeepsPlace ==
  ASSUME TypeOK, BatchInv, mode # "idle", EndsInError
  PROVE  /\ PlaceTyped' /\ BatchInv' /\ HistoryTyped' /\ RemoteTyped'
         /\ turn \in failed' /\ failed' = failed \cup {turn} /\ mode' = "idle"
<1>1. /\ todo' = <<>> /\ done' = <<>> /\ step' = 1 /\ agreed' = FALSE /\ mode' = "idle"
      /\ turn' = turn /\ failed' = failed \cup {turn}
      /\ UNCHANGED <<remote, pulls, edits, found, reported, asked, confirmed>>
  BY DEF EndsInError
<1>2. PlaceTyped /\ HistoryTyped /\ RemoteTyped /\ turn \in Turns /\ turn \in Nat
  BY TypeParts, ModesAre
<1>3. step' \in 1..Len(MergeCommands')
  BY <1>1 DEF MergeCommands
<1>4. PlaceTyped'
  <2>1. todo' \in Seq(GitDirs) /\ done' \in Seq(GitDirs) /\ ~(todo' # <<>>)
    BY <1>1
  <2> QED
    BY <1>1, <1>2, <1>3, <2>1 DEF PlaceTyped
<1>5. HistoryTyped' /\ RemoteTyped'
  BY <1>1, <1>2 DEF HistoryTyped, RemoteTyped
<1>6. BatchInv'
  BY <1>1, <1>2 DEF BatchInv
<1> QED
  BY <1>1, <1>4, <1>5, <1>6

\* A command that changes one repository.
LEMMA NowTyped ==
  ASSUME TypeOK, NEW repository \in Repositories, Now(repository)
  PROVE  /\ git' \in [GitDirs -> Repositories]
         /\ \A r \in GitDirs : git'[r] = IF r = Repo THEN repository ELSE git[r]
BY DEF TypeOK, Now

-----------------------------------------------------------------------------
(* What each command does.                                                 *)

LEMMA RepositoryFields ==
  ASSUME TypeOK, NEW r \in GitDirs
  PROVE  /\ git[r] \in Repositories
         /\ git[r].head \in Branches /\ git[r].branches \subseteq Branches
         /\ git[r].tips \in [Branches -> SUBSET Commits]
         /\ git[r].content \in [Turns -> SUBSET Paths]
         /\ git[r].modified \subseteq Paths /\ git[r].staged \subseteq Paths
         /\ git[r].merging \subseteq Commits
<1>1. git[r] \in Repositories
  BY DEF TypeOK
<1> QED
  BY <1>1 DEF Repositories

\* A command that succeeds in a repository of todo.
InTodo(command, repository) ==
  /\ todo # <<>> /\ Commands[step] = command /\ WorkProceeds
  /\ Head(todo) \in GitDirs /\ Within(Head(todo), todo) /\ turn \in Turns
  /\ git' \in [GitDirs -> Repositories]
  /\ \A r \in GitDirs : git'[r] = IF r = Head(todo) THEN repository ELSE git[r]
  /\ PlaceTyped' /\ BatchInv' /\ HistoryTyped'
  /\ todo' = Tail(todo) => ~Within(Head(todo), todo')
  /\ UNCHANGED history

LEMMA WorksInTodo ==
  ASSUME TypeOK, BatchInv,
         NEW command \in {"checkout", "add", "commit", "push", "pr"}, Running(command),
         Proceed, UNCHANGED history
  PROVE  /\ todo # <<>> /\ Commands[step] = command /\ WorkProceeds
         /\ Head(todo) \in GitDirs /\ Within(Head(todo), todo) /\ turn \in Turns
         /\ Repo = Head(todo) /\ turn \in Branches
         /\ PlaceTyped' /\ BatchInv' /\ HistoryTyped'
         /\ todo' = Tail(todo) => ~Within(Head(todo), todo')
<1>1. /\ todo # <<>> /\ Commands[step] = command /\ Repo = Head(todo)
      /\ Head(todo) \in GitDirs /\ Within(Head(todo), todo) /\ turn \in Turns
      /\ turn \in Branches
  BY RunningInTodo
<1>2. WorkProceeds /\ failed' = failed
  BY <1>1, ProceedInTodo DEF history
<1>3. HistoryTyped'
  BY TypeParts DEF history, HistoryTyped
<1> QED
  BY <1>1, <1>2, <1>3, WorkKeepsPlace

LEMMA CheckoutNewDoes ==
  ASSUME TypeOK, BatchInv, CheckoutNew
  PROVE  LET g == git[Head(todo)]
         IN /\ InTodo("checkout", [g EXCEPT !.head = turn, !.branches = @ \cup {turn},
                                            !.tips[turn] = g.tips[g.head]])
            /\ RemoteTyped' /\ UNCHANGED <<remote, pulls>>
<1> DEFINE g   == git[Head(todo)]
           new == [g EXCEPT !.head = turn, !.branches = @ \cup {turn},
                            !.tips[turn] = g.tips[g.head]]
<1>1. /\ Running("checkout") /\ Proceed /\ UNCHANGED history
      /\ UNCHANGED <<remote, pulls>>
  BY DEF CheckoutNew, history
<1>2. /\ todo # <<>> /\ Commands[step] = "checkout" /\ WorkProceeds
      /\ Head(todo) \in GitDirs /\ Within(Head(todo), todo) /\ turn \in Turns
      /\ Repo = Head(todo) /\ turn \in Branches
      /\ PlaceTyped' /\ BatchInv' /\ HistoryTyped'
      /\ todo' = Tail(todo) => ~Within(Head(todo), todo')
  BY <1>1, WorksInTodo
<1>3. Now(new)
  BY <1>2 DEF CheckoutNew
<1>4. /\ g \in Repositories /\ g.head \in Branches /\ g.branches \subseteq Branches
      /\ g.tips \in [Branches -> SUBSET Commits]
  BY <1>2, RepositoryFields
<1> HIDE DEF g
<1>5. new \in Repositories
  <2>1. [g.tips EXCEPT ![turn] = g.tips[g.head]] \in [Branches -> SUBSET Commits]
    BY <1>2, <1>4
  <2> QED
    BY <1>2, <1>4, <2>1 DEF Repositories
<1> HIDE DEF new
<1>6. RemoteTyped'
  BY <1>1, TypeParts DEF RemoteTyped
<1>7. InTodo("checkout", new)
  BY <1>1, <1>2, <1>3, <1>5, NowTyped DEF InTodo
<1> QED
  BY <1>1, <1>6, <1>7 DEF new, g

LEMMA AddDoes ==
  ASSUME TypeOK, BatchInv, Add
  PROVE  LET g == git[Head(todo)]
         IN /\ InTodo("add", [g EXCEPT !.staged = @ \cup Owned(Head(todo), edits[turn])])
            /\ RemoteTyped' /\ UNCHANGED <<remote, pulls>>
<1> DEFINE g   == git[Head(todo)]
           new == [g EXCEPT !.staged = @ \cup Owned(Head(todo), edits[turn])]
<1>1. /\ Running("add") /\ Proceed /\ UNCHANGED history
      /\ UNCHANGED <<remote, pulls>>
  BY DEF Add, history
<1>2. /\ todo # <<>> /\ Commands[step] = "add" /\ WorkProceeds
      /\ Head(todo) \in GitDirs /\ Within(Head(todo), todo) /\ turn \in Turns
      /\ Repo = Head(todo) /\ turn \in Branches
      /\ PlaceTyped' /\ BatchInv' /\ HistoryTyped'
      /\ todo' = Tail(todo) => ~Within(Head(todo), todo')
  BY <1>1, WorksInTodo
<1>3. Now(new)
  BY <1>2 DEF Add, Named
<1>4. g \in Repositories /\ g.staged \subseteq Paths
  BY <1>2, RepositoryFields
<1>8. Owned(Head(todo), edits[turn]) \subseteq Paths
  BY <1>2 DEF TypeOK, Owned, Paths
<1> HIDE DEF g
<1>5. new \in Repositories
  BY <1>4, <1>8 DEF Repositories
<1> HIDE DEF new
<1>6. RemoteTyped'
  BY <1>1, TypeParts DEF RemoteTyped
<1>7. InTodo("add", new)
  BY <1>1, <1>2, <1>3, <1>5, NowTyped DEF InTodo
<1> QED
  BY <1>1, <1>6, <1>7 DEF new, g

LEMMA PushDoes ==
  ASSUME TypeOK, BatchInv, Push
  PROVE  LET g == git[Head(todo)]
         IN /\ InTodo("push", g) /\ RemoteTyped' /\ pulls' = pulls
            /\ remote' = [remote EXCEPT ![Head(todo)][g.head] = g.tips[g.head]]
<1>1. /\ Running("push") /\ Proceed /\ UNCHANGED history
      /\ UNCHANGED <<git, pulls>>
  BY DEF Push, history
<1>2. /\ todo # <<>> /\ Commands[step] = "push" /\ WorkProceeds
      /\ Head(todo) \in GitDirs /\ Within(Head(todo), todo) /\ turn \in Turns
      /\ Repo = Head(todo) /\ turn \in Branches
      /\ PlaceTyped' /\ BatchInv' /\ HistoryTyped'
      /\ todo' = Tail(todo) => ~Within(Head(todo), todo')
  BY <1>1, WorksInTodo
<1> DEFINE g == git[Head(todo)]
<1>3. remote' = [remote EXCEPT ![Head(todo)][g.head] = g.tips[g.head]]
  BY <1>2 DEF Push
<1>4. g.head \in Branches /\ g.tips[g.head] \subseteq Commits
  BY <1>2, RepositoryFields
<1>5. RemoteTyped /\ git \in [GitDirs -> Repositories]
  BY TypeParts
<1> HIDE DEF g
<1>6. RemoteTyped'
  <2>1. remote' \in [GitDirs -> [Branches -> SUBSET Commits]]
    BY <1>2, <1>3, <1>4, <1>5 DEF RemoteTyped
  <2> QED
    BY <1>1, <1>5, <2>1 DEF RemoteTyped
<1>7. InTodo("push", g)
  BY <1>1, <1>2, <1>5 DEF InTodo, g
<1> QED
  BY <1>1, <1>3, <1>6, <1>7 DEF g

LEMMA OpenPullDoes ==
  ASSUME TypeOK, BatchInv, OpenPull
  PROVE  /\ InTodo("pr", git[Head(todo)]) /\ RemoteTyped' /\ remote' = remote
         /\ pulls' = pulls \cup {<<Head(todo), turn>>}
<1>1. /\ Running("pr") /\ Proceed /\ UNCHANGED history
      /\ UNCHANGED <<git, remote>>
  BY DEF OpenPull, history
<1>2. /\ todo # <<>> /\ Commands[step] = "pr" /\ WorkProceeds
      /\ Head(todo) \in GitDirs /\ Within(Head(todo), todo) /\ turn \in Turns
      /\ Repo = Head(todo) /\ turn \in Branches
      /\ PlaceTyped' /\ BatchInv' /\ HistoryTyped'
      /\ todo' = Tail(todo) => ~Within(Head(todo), todo')
  BY <1>1, WorksInTodo
<1>3. pulls' = pulls \cup {<<Head(todo), turn>>}
  BY <1>2 DEF OpenPull
<1>5. RemoteTyped /\ git \in [GitDirs -> Repositories]
  BY TypeParts
<1>6. RemoteTyped'
  BY <1>1, <1>2, <1>3, <1>5 DEF RemoteTyped, Deeds
<1>7. InTodo("pr", git[Head(todo)])
  BY <1>1, <1>2, <1>5 DEF InTodo
<1> QED
  BY <1>1, <1>3, <1>6, <1>7

\* A commit: in the repository itself, and what it is for the one around it.
LEMMA CommitDoes ==
  ASSUME TypeOK, BatchInv, Commit
  PROVE  LET g == git[Head(todo)]
         IN /\ todo # <<>> /\ Commands[step] = "commit" /\ WorkProceeds
            /\ Head(todo) \in GitDirs /\ Within(Head(todo), todo) /\ turn \in Turns
            /\ PlaceTyped' /\ BatchInv' /\ HistoryTyped' /\ RemoteTyped'
            /\ todo' = Tail(todo) => ~Within(Head(todo), todo')
            /\ UNCHANGED history /\ UNCHANGED <<remote, pulls>>
            /\ git' \in [GitDirs -> Repositories]
            /\ \A r \in GitDirs : git'[r].head = git[r].head
            /\ \A r \in GitDirs \ {Head(todo)} :
                 /\ git'[r].tips = git[r].tips /\ git'[r].content = git[r].content
                 /\ git'[r].staged = git[r].staged
            /\ git'[Head(todo)].tips = [g.tips EXCEPT ![g.head] = @ \cup {turn}]
            /\ git'[Head(todo)].content = [g.content EXCEPT ![turn] = g.staged]
            /\ git'[Head(todo)].staged = {}
<1>1. /\ Running("commit") /\ Proceed /\ UNCHANGED history
      /\ UNCHANGED <<remote, pulls>>
  BY DEF Commit, history
<1>2. /\ todo # <<>> /\ Commands[step] = "commit" /\ WorkProceeds
      /\ Head(todo) \in GitDirs /\ Within(Head(todo), todo) /\ turn \in Turns
      /\ Repo = Head(todo) /\ turn \in Branches
      /\ PlaceTyped' /\ BatchInv' /\ HistoryTyped'
      /\ todo' = Tail(todo) => ~Within(Head(todo), todo')
  BY <1>1, WorksInTodo
<1> DEFINE g      == git[Head(todo)]
           after  == [g EXCEPT !.tips[g.head] = @ \cup {turn},
                               !.content[turn] = g.staged,
                               !.modified = @ \ g.staged,
                               !.staged = {}]
           around(r) == [git[r] EXCEPT !.modified = @ \cup {Head(todo)}]
<1>3. git' = [r \in GitDirs |->
                IF r = Head(todo) THEN after
                ELSE IF r = Enclosing(Head(todo)) THEN around(r)
                ELSE git[r]]
  BY <1>2 DEF Commit
<1>4. /\ g \in Repositories /\ g.head \in Branches
      /\ g.tips \in [Branches -> SUBSET Commits] /\ g.content \in [Turns -> SUBSET Paths]
      /\ g.staged \subseteq Paths /\ g.modified \subseteq Paths
  BY <1>2, RepositoryFields
<1>5. ASSUME NEW r \in GitDirs
      PROVE  /\ around(r) \in Repositories /\ around(r).head = git[r].head
             /\ around(r).tips = git[r].tips /\ around(r).content = git[r].content
             /\ around(r).staged = git[r].staged /\ git[r] \in Repositories
  <2>1. git[r] \in Repositories /\ git[r].modified \cup {Head(todo)} \subseteq Paths
    BY <1>2, RepositoryFields DEF Paths
  <2> QED
    BY <2>1 DEF Repositories
<1> HIDE DEF g, around
<1>6. /\ after \in Repositories /\ after.head = g.head
      /\ after.tips = [g.tips EXCEPT ![g.head] = @ \cup {turn}]
      /\ after.content = [g.content EXCEPT ![turn] = g.staged]
      /\ after.staged = {}
  <2>1. [g.tips EXCEPT ![g.head] = @ \cup {turn}] \in [Branches -> SUBSET Commits]
    BY <1>2, <1>4, TurnsAreBranches
  <2>2. [g.content EXCEPT ![turn] = g.staged] \in [Turns -> SUBSET Paths]
    BY <1>2, <1>4
  <2> QED
    BY <1>4, <2>1, <2>2 DEF Repositories
<1> HIDE DEF after
<1>7. git' \in [GitDirs -> Repositories]
  BY <1>3, <1>5, <1>6
<1>8. git'[Head(todo)] = after
  BY <1>2, <1>3
<1>9. \A r \in GitDirs \ {Head(todo)} :
        /\ git'[r].head = git[r].head
        /\ git'[r].tips = git[r].tips /\ git'[r].content = git[r].content
        /\ git'[r].staged = git[r].staged
  BY <1>3, <1>5
<1>10. \A r \in GitDirs : git'[r].head = git[r].head
  BY <1>6, <1>8, <1>9 DEF g
<1>11. RemoteTyped'
  BY <1>1, TypeParts DEF RemoteTyped
<1> QED
  BY <1>1, <1>2, <1>6, <1>7, <1>8, <1>9, <1>10, <1>11 DEF g

\* A command of the merge that was agreed to.
InDone(repository) ==
  /\ todo = <<>> /\ agreed /\ mode = "chat" /\ done # <<>> /\ MergeProceeds
  /\ Head(done) \in GitDirs /\ turn \in Turns
  /\ git' \in [GitDirs -> Repositories]
  /\ \A r \in GitDirs : git'[r] = IF r = Head(done) THEN repository ELSE git[r]
  /\ PlaceTyped' /\ BatchInv' /\ HistoryTyped' /\ RemoteTyped'
  /\ UNCHANGED history /\ UNCHANGED <<remote, pulls>>

LEMMA WorksInDone ==
  ASSUME TypeOK, BatchInv,
         NEW command \in {"checkout base", "merge", "delete"}, Running(command), Proceed,
         UNCHANGED history, UNCHANGED <<remote, pulls>>
  PROVE  /\ todo = <<>> /\ agreed /\ mode = "chat" /\ done # <<>> /\ MergeProceeds
         /\ Head(done) \in GitDirs /\ turn \in Turns /\ turn \in Branches
         /\ Repo = Head(done)
         /\ PlaceTyped' /\ BatchInv' /\ HistoryTyped' /\ RemoteTyped'
<1>1. /\ todo = <<>> /\ agreed /\ mode = "chat" /\ done # <<>>
      /\ Repo = Head(done) /\ Repo \in GitDirs /\ turn \in Turns /\ turn \in Branches
  BY RunningInDone
<1>2. MergeProceeds /\ failed' = failed
  BY <1>1, ProceedInDone DEF history
<1>3. HistoryTyped' /\ RemoteTyped'
  BY TypeParts DEF history, HistoryTyped, RemoteTyped
<1>4. PlaceTyped' /\ BatchInv'
  BY <1>1, <1>2, MergeKeepsPlace
<1> QED
  BY <1>1, <1>2, <1>3, <1>4

LEMMA CheckoutBaseDoes ==
  ASSUME TypeOK, BatchInv, CheckoutBase
  PROVE  InDone([git[Head(done)] EXCEPT !.head = Base])
<1> DEFINE new == [git[Head(done)] EXCEPT !.head = Base]
<1>1. /\ Running("checkout base") /\ Proceed /\ UNCHANGED history
      /\ UNCHANGED <<remote, pulls>>
  BY DEF CheckoutBase, history
<1>2. /\ todo = <<>> /\ agreed /\ mode = "chat" /\ done # <<>> /\ MergeProceeds
      /\ Head(done) \in GitDirs /\ turn \in Turns /\ turn \in Branches
      /\ Repo = Head(done)
      /\ PlaceTyped' /\ BatchInv' /\ HistoryTyped' /\ RemoteTyped'
  BY <1>1, WorksInDone
<1>3. Now(new)
  BY <1>2 DEF CheckoutBase
<1>4. git[Head(done)] \in Repositories
  BY <1>2, RepositoryFields
<1>5. new \in Repositories
  BY <1>4, TurnsAreBranches DEF Repositories
<1> HIDE DEF new
<1>6. git' \in [GitDirs -> Repositories]
      /\ \A r \in GitDirs : git'[r] = IF r = Head(done) THEN new ELSE git[r]
  BY <1>2, <1>3, <1>5, NowTyped
<1>7. InDone(new)
  BY <1>1, <1>2, <1>6 DEF InDone
<1> QED
  BY <1>7 DEF new

LEMMA MergeDoes ==
  ASSUME TypeOK, BatchInv, Merge
  PROVE  LET g == git[Head(done)]
         IN InDone([g EXCEPT !.tips[Base] = @ \cup g.tips[turn]])
<1> DEFINE g   == git[Head(done)]
           new == [g EXCEPT !.tips[Base] = @ \cup g.tips[turn]]
<1>1. /\ Running("merge") /\ Proceed /\ UNCHANGED history
      /\ UNCHANGED <<remote, pulls>>
  BY DEF Merge, history
<1>2. /\ todo = <<>> /\ agreed /\ mode = "chat" /\ done # <<>> /\ MergeProceeds
      /\ Head(done) \in GitDirs /\ turn \in Turns /\ turn \in Branches
      /\ Repo = Head(done)
      /\ PlaceTyped' /\ BatchInv' /\ HistoryTyped' /\ RemoteTyped'
  BY <1>1, WorksInDone
<1>3. Now(new)
  BY <1>2 DEF Merge
<1>4. g \in Repositories /\ g.tips \in [Branches -> SUBSET Commits]
  BY <1>2, RepositoryFields
<1> HIDE DEF g
<1>5. new \in Repositories
  <2>1. [g.tips EXCEPT ![Base] = @ \cup g.tips[turn]] \in [Branches -> SUBSET Commits]
    BY <1>2, <1>4, TurnsAreBranches
  <2> QED
    BY <1>4, <2>1 DEF Repositories
<1> HIDE DEF new
<1>6. git' \in [GitDirs -> Repositories]
      /\ \A r \in GitDirs : git'[r] = IF r = Head(done) THEN new ELSE git[r]
  BY <1>2, <1>3, <1>5, NowTyped
<1>7. InDone(new)
  BY <1>1, <1>2, <1>6 DEF InDone
<1> QED
  BY <1>7 DEF new, g

LEMMA DeleteBranchDoes ==
  ASSUME TypeOK, BatchInv, DeleteBranch
  PROVE  InDone([git[Head(done)] EXCEPT !.branches = @ \ {turn}, !.tips[turn] = {}])
<1> DEFINE g   == git[Head(done)]
           new == [g EXCEPT !.branches = @ \ {turn}, !.tips[turn] = {}]
<1>1. /\ Running("delete") /\ Proceed /\ UNCHANGED history
      /\ UNCHANGED <<remote, pulls>>
  BY DEF DeleteBranch, history
<1>2. /\ todo = <<>> /\ agreed /\ mode = "chat" /\ done # <<>> /\ MergeProceeds
      /\ Head(done) \in GitDirs /\ turn \in Turns /\ turn \in Branches
      /\ Repo = Head(done)
      /\ PlaceTyped' /\ BatchInv' /\ HistoryTyped' /\ RemoteTyped'
  BY <1>1, WorksInDone
<1>3. Now(new)
  BY <1>2 DEF DeleteBranch
<1>4. /\ g \in Repositories /\ g.tips \in [Branches -> SUBSET Commits]
      /\ g.branches \subseteq Branches
  BY <1>2, RepositoryFields
<1> HIDE DEF g
<1>5. new \in Repositories
  <2>1. [g.tips EXCEPT ![turn] = {}] \in [Branches -> SUBSET Commits]
    BY <1>2, <1>4
  <2> QED
    BY <1>4, <2>1 DEF Repositories
<1> HIDE DEF new
<1>6. git' \in [GitDirs -> Repositories]
      /\ \A r \in GitDirs : git'[r] = IF r = Head(done) THEN new ELSE git[r]
  BY <1>2, <1>3, <1>5, NowTyped
<1>7. InDone(new)
  BY <1>1, <1>2, <1>6 DEF InDone
<1> QED
  BY <1>7 DEF new, g

\* A failure changes no more than the `merging` of one repository.
LEMMA FailureDoes ==
  ASSUME TypeOK, BatchInv, CommandFails \/ MergeConflicts \/ PromptFails
  PROVE  /\ mode # "idle" /\ turn \in Turns /\ turn \in Nat /\ EndsInError
         /\ git' \in [GitDirs -> Repositories]
         /\ \A r \in GitDirs :
              /\ git'[r].head = git[r].head /\ git'[r].tips = git[r].tips
              /\ git'[r].content = git[r].content /\ git'[r].staged = git[r].staged
         /\ PlaceTyped' /\ BatchInv' /\ HistoryTyped' /\ RemoteTyped'
         /\ failed' = failed \cup {turn} /\ mode' = "idle"
<1>1. EndsInError
  BY DEF CommandFails, MergeConflicts, PromptFails
<1>2. mode # "idle"
  <2>1. (\E command \in AllCommands : Running(command)) \/ AtQuestion
    BY DEF CommandFails, MergeConflicts, PromptFails, AllCommands
  <2> QED
    BY <2>1 DEF Running, AtQuestion, BatchInv
<1>3. turn \in Turns /\ turn \in Nat
  BY <1>2, ModesAre
<1>4. /\ PlaceTyped' /\ BatchInv' /\ HistoryTyped' /\ RemoteTyped'
      /\ failed' = failed \cup {turn} /\ mode' = "idle"
  BY <1>1, <1>2, EndKeepsPlace
<1>5. CASE CommandFails \/ PromptFails
  BY <1>1, <1>2, <1>3, <1>4, <1>5 DEF CommandFails, PromptFails, TypeOK
<1>6. CASE MergeConflicts
  <2> DEFINE g   == git[Repo]
             new == [g EXCEPT !.merging = g.tips[turn]]
  <2>1. Repo \in GitDirs /\ turn \in Branches /\ Now(new)
    BY <1>6, RunningInDone DEF MergeConflicts
  <2>2. g \in Repositories /\ g.tips[turn] \subseteq Commits
    BY <2>1, RepositoryFields
  <2> HIDE DEF g
  <2>3. /\ new \in Repositories /\ new.head = g.head /\ new.tips = g.tips
        /\ new.content = g.content /\ new.staged = g.staged
    BY <2>2 DEF Repositories
  <2> HIDE DEF new
  <2>4. /\ git' \in [GitDirs -> Repositories]
        /\ \A r \in GitDirs : git'[r] = IF r = Repo THEN new ELSE git[r]
    BY <2>1, <2>3, NowTyped
  <2>5. \A r \in GitDirs :
          /\ git'[r].head = git[r].head /\ git'[r].tips = git[r].tips
          /\ git'[r].content = git[r].content /\ git'[r].staged = git[r].staged
    BY <2>3, <2>4 DEF g
  <2> QED
    BY <1>1, <1>2, <1>3, <1>4, <2>4, <2>5
<1> QED
  BY <1>5, <1>6

\* The answers and the end of a delivery.
LEMMA AnswersAre ==
  ASSUME TypeOK, BatchInv, AnswerYes \/ AnswerNo \/ Finish
  PROVE  /\ todo = <<>> /\ todo' = <<>> /\ turn \in Turns /\ ~agreed /\ mode # "idle"
         /\ PlaceTyped' /\ BatchInv' /\ HistoryTyped' /\ RemoteTyped'
         /\ UNCHANGED <<git, turn, remote, pulls, edits, found, failed>>
<1>1. /\ PlaceTyped /\ HistoryTyped /\ RemoteTyped /\ done \in Seq(GitDirs)
      /\ step' = step /\ todo' = todo /\ turn' = turn /\ todo = <<>> /\ mode # "idle"
      /\ UNCHANGED <<git, turn, remote, pulls, edits, found, failed>>
  BY TypeParts DEF AnswerYes, AnswerNo, Finish, AtQuestion, TypeOK
<1>2. turn \in Turns
  BY <1>1 DEF BatchInv
<1>3. RemoteTyped'
  BY <1>1 DEF RemoteTyped
<1>4. step' \in 1..Len(MergeCommands')
  BY <1>1 DEF PlaceTyped, MergeCommands
<1>5. CASE AnswerYes
  <2>1. /\ done # <<>> /\ ~agreed /\ mode = "chat" /\ agreed' = TRUE /\ mode' = mode
        /\ done' = done /\ asked' = asked \cup {Head(done)}
        /\ confirmed' = confirmed \cup {<<Head(done), turn>>} /\ reported' = reported
    BY <1>5 DEF AnswerYes, AtQuestion
  <2>2. Head(done) \in GitDirs
    BY <1>1, <2>1, HeadOfSeq
  <2>3. HistoryTyped'
    BY <1>1, <1>2, <2>1, <2>2 DEF HistoryTyped, Deeds
  <2>4. PlaceTyped'
    BY <1>1, <1>4, <2>1 DEF PlaceTyped
  <2>5. BatchInv'
    BY <1>1, <1>2, <2>1 DEF BatchInv
  <2> QED
    BY <1>1, <1>2, <1>3, <2>1, <2>3, <2>4, <2>5
<1>6. CASE AnswerNo
  <2>1. /\ done # <<>> /\ ~agreed /\ mode = "chat" /\ agreed' = FALSE /\ mode' = mode
        /\ done' = Tail(done) /\ asked' = asked \cup {Head(done)}
        /\ confirmed' = confirmed /\ reported' = reported
    BY <1>6 DEF AnswerNo, AtQuestion, MovesOn
  <2>2. Head(done) \in GitDirs /\ Tail(done) \in Seq(GitDirs)
    BY <1>1, <2>1, HeadOfSeq
  <2>3. HistoryTyped'
    BY <1>1, <2>1, <2>2 DEF HistoryTyped
  <2>4. PlaceTyped'
    BY <1>1, <1>4, <2>1, <2>2 DEF PlaceTyped
  <2>5. BatchInv'
    BY <1>1, <1>2, <2>1 DEF BatchInv
  <2> QED
    BY <1>1, <1>2, <1>3, <2>1, <2>3, <2>4, <2>5
<1>7. CASE Finish
  <2>1. /\ mode' = "idle" /\ done' = <<>> /\ agreed' = agreed
        /\ reported' = Owned(NoRepo, edits[turn])
        /\ asked' = asked /\ confirmed' = confirmed /\ (mode = "chat" => done = <<>>)
    BY <1>7 DEF Finish
  <2>2. ~agreed
    BY <2>1 DEF BatchInv
  <2>3. HistoryTyped'
    BY <1>1, <1>2, <2>1 DEF HistoryTyped, Owned
  <2>4. PlaceTyped'
    BY <1>1, <1>4, <2>1 DEF PlaceTyped
  <2>5. BatchInv'
    BY <1>1, <1>2, <2>1, <2>2 DEF BatchInv
  <2> QED
    BY <1>1, <1>2, <1>3, <2>2, <2>3, <2>4, <2>5
<1> QED
  BY <1>5, <1>6, <1>7

\* group_by_repo lists every repository that has a file of the execution.
LEMMA OrderListsAll ==
  ASSUME NEW repos \in SUBSET GitDirs, NEW order \in InnermostFirst(repos)
  PROVE  /\ order \in Seq(GitDirs)
         /\ \A r \in GitDirs : Within(r, order) <=> r \in repos
         /\ \A i, j \in 1..Len(order) :
              i < j => order[i] # order[j] /\ Len(order[i]) >= Len(order[j])
<1> DEFINE n == Cardinality(repos)
<1>1. IsFiniteSet(repos) /\ n \in Nat
  BY DeliveryAssumption, FS_Subset, FS_CardinalityType
<1>2. /\ order \in [1..n -> repos]
      /\ \A i, j \in 1..n : order[i] = order[j] => i = j
      /\ \A i, j \in DOMAIN order : i < j => Len(order[i]) >= Len(order[j])
  BY DEF InnermostFirst, Orders
<1> HIDE DEF n
<1>3. order \in Seq(GitDirs) /\ Len(order) = n
  BY <1>1, <1>2
<1>4. IsFiniteSet(1..n) /\ Cardinality(1..n) = n
  BY <1>1, FS_Interval
<1>5. order \in Injection(1..n, repos)
  BY <1>2 DEF Injection, IsInjective
<1>6. order \in Surjection(1..n, repos)
  BY <1>1, <1>4, <1>5, FS_Injection DEF n
<1>7. \A r \in GitDirs : Within(r, order) <=> r \in repos
  BY <1>2, <1>3, <1>6 DEF Within, Surjection
<1>8. \A i, j \in 1..Len(order) :
        i < j => order[i] # order[j] /\ Len(order[i]) >= Len(order[j])
  BY <1>1, <1>2, <1>3
<1> QED
  BY <1>3, <1>7, <1>8

LEMMA DeliverDoes ==
  ASSUME TypeOK, BatchInv, NEW m \in Modes, NEW files \in ChangeSets, Deliver(m, files)
  PROVE  /\ mode = "idle" /\ todo = <<>> /\ turn \in Nat
         /\ mode' = m /\ turn' = turn + 1 /\ turn' \in Turns
         /\ ~agreed' /\ done' = <<>>
         /\ edits' = [edits EXCEPT ![turn'] = files]
         /\ found' = [r \in GitDirs |-> git[r].staged]
         /\ git' \in [GitDirs -> Repositories]
         /\ \A r \in GitDirs :
              /\ git'[r].head = git[r].head /\ git'[r].tips = git[r].tips
              /\ git'[r].content = git[r].content /\ git'[r].staged = git[r].staged
         /\ \A r \in GitDirs : Within(r, todo') <=> Owned(r, files) # {}
         /\ todo' # <<>> => /\ Commands'[step'] \in {"checkout", "add"}
                            /\ m # "follow-up" => Commands'[step'] = "checkout"
         /\ PlaceTyped' /\ BatchInv' /\ HistoryTyped' /\ RemoteTyped'
         /\ UNCHANGED <<remote, pulls, failed, confirmed>>
<1>1. /\ mode = "idle" /\ turn < MaxTurns /\ turn' = turn + 1 /\ mode' = m
      /\ done' = <<>> /\ step' = 1 /\ reported' = {} /\ asked' = {}
      /\ (agreed' <=> agreed) /\ agreed' \in BOOLEAN
      /\ edits' = [edits EXCEPT ![turn'] = files]
      /\ found' = [r \in GitDirs |-> git[r].staged]
      /\ todo' \in InnermostFirst({r \in GitDirs : Owned(r, files) # {}})
      /\ UNCHANGED <<remote, pulls, failed, confirmed>>
  BY DEF Deliver, TypeOK
<1>2. /\ PlaceTyped /\ HistoryTyped /\ RemoteTyped /\ git \in [GitDirs -> Repositories]
      /\ MaxTurns \in Nat /\ turn \in 0..MaxTurns /\ files \subseteq Files
      /\ m \in {"chat", "pr", "follow-up"}
  BY TypeParts, DeliveryAssumption DEF PlaceTyped
<1>3. turn \in Nat /\ turn' \in Turns /\ turn' \in Nat /\ turn' \in 0..MaxTurns
  BY <1>1, <1>2 DEF Turns
<1>4. todo = <<>> /\ ~agreed /\ (\A t \in failed : t <= turn)
  BY <1>1 DEF BatchInv
<1>5. /\ todo' \in Seq(GitDirs)
      /\ \A r \in GitDirs : Within(r, todo') <=> Owned(r, files) # {}
      /\ \A i, j \in 1..Len(todo') :
           i < j => todo'[i] # todo'[j] /\ Len(todo'[i]) >= Len(todo'[j])
  BY <1>1, OrderListsAll
<1>6. ASSUME NEW r \in GitDirs
      PROVE  LET new == [git[r] EXCEPT !.modified = @ \cup Owned(r, files)]
             IN /\ new \in Repositories /\ new.head = git[r].head
                /\ new.tips = git[r].tips /\ new.content = git[r].content
                /\ new.staged = git[r].staged
  <2>1. git[r] \in Repositories /\ git[r].modified \cup Owned(r, files) \subseteq Paths
    BY <1>2, RepositoryFields DEF Owned, Paths
  <2> QED
    BY <2>1 DEF Repositories
<1>7. git' = [r \in GitDirs |-> [git[r] EXCEPT !.modified = @ \cup Owned(r, files)]]
  BY DEF Deliver
<1>8. /\ git' \in [GitDirs -> Repositories]
      /\ \A r \in GitDirs :
           /\ git'[r].head = git[r].head /\ git'[r].tips = git[r].tips
           /\ git'[r].content = git[r].content /\ git'[r].staged = git[r].staged
  BY <1>6, <1>7
<1>9. /\ m = "follow-up" => Commands' = <<"add", "commit", "push">>
      /\ m = "chat" => Commands' = <<"checkout", "add", "commit">>
      /\ m = "pr" => Commands' = <<"checkout", "add", "commit", "push", "pr">>
  BY <1>1 DEF Commands, PullRequestCommands
<1>10. /\ Commands'[1] \in {"checkout", "add"} /\ 1 \in 1..Len(Commands')
       /\ m # "follow-up" => Commands'[1] = "checkout"
  BY <1>2, <1>9
<1>11. 1 \in 1..Len(MergeCommands')
  BY DEF MergeCommands
<1>12. PlaceTyped'
  BY <1>1, <1>3, <1>5, <1>10, <1>11 DEF PlaceTyped
<1>13. HistoryTyped' /\ RemoteTyped'
  <2>1. \A r \in GitDirs : git[r].staged \subseteq Paths
    BY RepositoryFields
  <2> QED
    BY <1>1, <1>2, <1>3, <2>1 DEF HistoryTyped, RemoteTyped
<1>14. turn' \notin failed' /\ \A t \in failed' : t <= turn'
  BY <1>1, <1>2, <1>3, <1>4, TurnsAreBranches DEF HistoryTyped
<1>15. mode' # "idle"
  BY <1>1, <1>2
<1>16. BatchInv'
  BY <1>1, <1>3, <1>4, <1>5, <1>14, <1>15 DEF BatchInv
<1> QED
  BY <1>1, <1>3, <1>4, <1>5, <1>8, <1>10, <1>12, <1>13, <1>16

\* What the user does, between two executions.
UserActs ==
  \/ \E r \in GitDirs, b \in Branches : UserChecksOut(r, b)
  \/ \E r \in GitDirs :
       \/ UserEndsMerge(r)
       \/ \E f \in Owned(r, Files) : UserEdits(r, f)
       \/ \E p \in Paths : UserStages(r, p)

LEMMA UserDoes ==
  ASSUME TypeOK, BatchInv, UserActs
  PROVE  /\ mode = "idle" /\ todo = <<>>
         /\ git' \in [GitDirs -> Repositories]
         /\ \A r \in GitDirs :
              /\ \A b \in Branches : git[r].tips[b] \subseteq git'[r].tips[b]
              /\ git'[r].content = git[r].content
         /\ UNCHANGED progress /\ UNCHANGED <<remote, pulls, history>>
<1>1. ASSUME NEW r \in GitDirs, NEW b \in Branches, UserChecksOut(r, b)
      PROVE  /\ mode = "idle"
             /\ git' \in [GitDirs -> Repositories]
             /\ \A s \in GitDirs :
                  /\ \A c \in Branches : git[s].tips[c] \subseteq git'[s].tips[c]
                  /\ git'[s].content = git[s].content
             /\ UNCHANGED progress /\ UNCHANGED <<remote, pulls, history>>
  <2> DEFINE new == [git[r] EXCEPT !.head = b]
  <2>1. /\ mode = "idle" /\ git' = [git EXCEPT ![r] = new]
        /\ UNCHANGED progress /\ UNCHANGED <<remote, pulls, history>>
    BY <1>1 DEF UserChecksOut, BetweenTwo
  <2>2. /\ new \in Repositories /\ new.tips = git[r].tips
        /\ new.content = git[r].content
    BY RepositoryFields DEF Repositories
  <2> HIDE DEF new
  <2> QED
    BY <2>1, <2>2 DEF TypeOK
<1>2. ASSUME NEW r \in GitDirs, UserEndsMerge(r)
      PROVE  /\ mode = "idle"
             /\ git' \in [GitDirs -> Repositories]
             /\ \A s \in GitDirs :
                  /\ \A c \in Branches : git[s].tips[c] \subseteq git'[s].tips[c]
                  /\ git'[s].content = git[s].content
             /\ UNCHANGED progress /\ UNCHANGED <<remote, pulls, history>>
  <2>1. PICK merged \in {{}, git[r].merging} :
          git' = [git EXCEPT ![r].merging = {}, ![r].tips[git[r].head] = @ \cup merged]
    BY <1>2 DEF UserEndsMerge
  <2>2. /\ git[r] \in Repositories /\ git[r].head \in Branches /\ merged \subseteq Commits
        /\ git[r].tips \in [Branches -> SUBSET Commits]
    BY RepositoryFields
  <2> DEFINE tips == [git[r].tips EXCEPT ![git[r].head] = @ \cup merged]
             new  == [git[r] EXCEPT !.merging = {}, !.tips = tips]
  <2>3. tips \in [Branches -> SUBSET Commits]
        /\ \A c \in Branches : git[r].tips[c] \subseteq tips[c]
    BY <2>2
  <2>4. git' = [git EXCEPT ![r] = new]
    BY <2>1, <2>2 DEF TypeOK, Repositories
  <2> HIDE DEF tips
  <2>5. /\ new \in Repositories /\ new.tips = tips
        /\ new.content = git[r].content
    BY <2>2, <2>3 DEF Repositories
  <2> HIDE DEF new
  <2>6. /\ git' \in [GitDirs -> Repositories]
        /\ \A s \in GitDirs : git'[s] = IF s = r THEN new ELSE git[s]
    BY <2>4, <2>5 DEF TypeOK
  <2>7. /\ mode = "idle" /\ UNCHANGED progress /\ UNCHANGED <<remote, pulls, history>>
    BY <1>2 DEF UserEndsMerge, BetweenTwo
  <2> QED
    BY <2>3, <2>5, <2>6, <2>7
<1>3. ASSUME NEW r \in GitDirs, NEW f \in Owned(r, Files), UserEdits(r, f)
      PROVE  /\ mode = "idle"
             /\ git' \in [GitDirs -> Repositories]
             /\ \A s \in GitDirs :
                  /\ \A c \in Branches : git[s].tips[c] \subseteq git'[s].tips[c]
                  /\ git'[s].content = git[s].content
             /\ UNCHANGED progress /\ UNCHANGED <<remote, pulls, history>>
  <2> DEFINE new == [git[r] EXCEPT !.modified = @ \cup {f}]
  <2>1. /\ mode = "idle" /\ UNCHANGED progress /\ UNCHANGED <<remote, pulls, history>>
        /\ git' = [git EXCEPT ![r] = new]
    BY <1>3 DEF UserEdits, BetweenTwo
  <2>2. f \in Paths
    BY DEF Owned, Paths
  <2>3. /\ new \in Repositories /\ new.tips = git[r].tips
        /\ new.content = git[r].content
    BY <2>2, RepositoryFields DEF Repositories
  <2> HIDE DEF new
  <2> QED
    BY <2>1, <2>3 DEF TypeOK
<1>5. ASSUME NEW r \in GitDirs, NEW p \in Paths, UserStages(r, p)
      PROVE  /\ mode = "idle"
             /\ git' \in [GitDirs -> Repositories]
             /\ \A s \in GitDirs :
                  /\ \A c \in Branches : git[s].tips[c] \subseteq git'[s].tips[c]
                  /\ git'[s].content = git[s].content
             /\ UNCHANGED progress /\ UNCHANGED <<remote, pulls, history>>
  <2> DEFINE new == [git[r] EXCEPT !.staged = @ \cup {p}]
  <2>1. /\ mode = "idle" /\ UNCHANGED progress /\ UNCHANGED <<remote, pulls, history>>
        /\ git' = [git EXCEPT ![r] = new]
    BY <1>5 DEF UserStages, BetweenTwo
  <2>2. /\ new \in Repositories /\ new.tips = git[r].tips
        /\ new.content = git[r].content
    BY RepositoryFields DEF Repositories
  <2> HIDE DEF new
  <2> QED
    BY <2>1, <2>2 DEF TypeOK
<1>4. mode = "idle" => todo = <<>>
  BY DEF BatchInv
<1> QED
  BY <1>1, <1>2, <1>3, <1>4, <1>5 DEF UserActs

-----------------------------------------------------------------------------
(* The index.                                                              *)

LEMMA StagingStarts ==
  ASSUME todo # <<>>, WorkProceeds, NEW r
  PROVE  Staging(r)' <=> Commands[step] = "add" /\ r = Head(todo)
BY DEF WorkProceeds, Staging, NextIs

LEMMA StagedStays ==
  ASSUME StagedInv, \A r \in GitDirs : git'[r].staged = git[r].staged,
         UNCHANGED <<edits, found>>,
         \A r \in GitDirs : ~Staging(r)' /\ (Awaits(r)' => Awaits(r) /\ ~Staging(r))
  PROVE  StagedInv'
BY DEF StagedInv

\* A commit still to come after a step was to come before it.
LEMMA AwaitsFromBefore ==
  ASSUME TypeOK, BatchInv, todo # <<>>, WorkProceeds, NEW r, Awaits(r)',
         todo' = Tail(todo) => ~Within(Head(todo), todo')
  PROVE  Awaits(r) /\ ~(r = Head(todo) /\ Commands[step] = "commit")
<1>1. todo \in Seq(GitDirs) /\ Within(r, todo') /\ turn' = turn
  BY DEF TypeOK, Awaits, WorkProceeds
<1>2. CASE UNCHANGED <<todo, done>>
  <2>1. Within(r, todo) /\ Tail(todo) # todo
    BY <1>1, <1>2, HeadOfSeq DEF Within
  <2>2. r = Head(todo) => Commands'[step'] \notin {"push", "pr"}
    BY <1>2 DEF Awaits, NextIs
  <2>3. r = Head(todo) => Commands[step] \notin {"commit", "push", "pr"}
    <3>1. <<Commands[step], Commands'[step']>> \in
            {<<"checkout", "add">>, <<"add", "commit">>,
             <<"commit", "push">>, <<"push", "pr">>}
      BY <1>2, <2>1 DEF WorkProceeds
    <3> QED
      BY <2>2, <3>1
  <2> QED
    BY <2>1, <2>3 DEF Awaits, NextIs
<1>3. CASE todo' = Tail(todo)
  <2>1. r # Head(todo)
    BY <1>1, <1>3
  <2>2. Within(r, todo)
    BY <1>1, <1>3, WithinParts
  <2> QED
    BY <2>1, <2>2 DEF Awaits
<1> QED
  BY <1>2, <1>3 DEF WorkProceeds

LEMMA CommandKeepsStagedInv ==
  ASSUME TypeOK, BatchInv, StagedInv,
         CheckoutNew \/ Add \/ Commit \/ Push \/ OpenPull
  PROVE  StagedInv'
<1> DEFINE h == Head(todo)
<1>1. ASSUME \/ InTodo("checkout", [git[h] EXCEPT !.head = turn,
                                                  !.branches = @ \cup {turn},
                                                  !.tips[turn] = git[h].tips[git[h].head]])
             \/ InTodo("push", git[h])
             \/ InTodo("pr", git[h])
      PROVE  StagedInv'
  <2>1. /\ todo # <<>> /\ Commands[step] \in {"checkout", "push", "pr"} /\ WorkProceeds
        /\ UNCHANGED <<edits, found>> /\ h \in GitDirs
        /\ todo' = Tail(todo) => ~Within(h, todo')
    BY <1>1 DEF InTodo, history
  <2>2. \A r \in GitDirs : git'[r].staged = git[r].staged
    <3>1. git[h] \in Repositories
      BY <2>1, RepositoryFields
    <3> QED
      BY <1>1, <3>1 DEF InTodo, Repositories
  <2>3. \A r : ~Staging(r)' /\ ~Staging(r)
    BY <2>1, StagingStarts DEF Staging, NextIs
  <2>4. \A r \in GitDirs : Awaits(r)' => Awaits(r)
    BY <2>1, AwaitsFromBefore
  <2> QED
    BY <2>1, <2>2, <2>3, <2>4, StagedStays
<1>2. CASE Add
  <2>1. InTodo("add", [git[h] EXCEPT !.staged = @ \cup Owned(h, edits[turn])])
    BY <1>2, AddDoes
  <2>2. /\ todo # <<>> /\ Commands[step] = "add" /\ WorkProceeds /\ turn' = turn
        /\ UNCHANGED <<edits, found>> /\ h \in GitDirs
        /\ todo' = Tail(todo) => ~Within(h, todo')
    BY <2>1 DEF InTodo, history, WorkProceeds
  <2>3. git[h] \in Repositories
    BY <2>2, RepositoryFields
  <2>4. /\ git'[h].staged = git[h].staged \cup Owned(h, edits[turn])
        /\ \A r \in GitDirs : r # h => git'[r].staged = git[r].staged
    BY <2>1, <2>2, <2>3 DEF InTodo, Repositories
  <2>5. \A r \in GitDirs : (Staging(r)' <=> r = h) /\ ~Staging(r)
    BY <2>2, StagingStarts DEF Staging, NextIs
  <2>6. \A r \in GitDirs : Awaits(r)' => Awaits(r)
    BY <2>2, AwaitsFromBefore
  <2>7. \A r \in GitDirs : Awaits(r)' => git[r].staged = found[r]
    BY <2>5, <2>6 DEF StagedInv
  <2> HIDE DEF h
  <2> SUFFICES ASSUME NEW r \in GitDirs, Awaits(r)'
               PROVE  git'[r].staged =
                        found'[r] \cup IF Staging(r)' THEN Owned(r, edits'[turn']) ELSE {}
    BY DEF StagedInv
  <2>9. CASE r = h
    BY <2>2, <2>4, <2>5, <2>7, <2>9
  <2>10. CASE r # h
    BY <2>2, <2>4, <2>5, <2>7, <2>10
  <2> QED
    BY <2>9, <2>10
<1>3. CASE Commit
  <2>1. /\ todo # <<>> /\ Commands[step] = "commit" /\ WorkProceeds
        /\ UNCHANGED <<edits, found>> /\ h \in GitDirs
        /\ todo' = Tail(todo) => ~Within(h, todo')
        /\ \A r \in GitDirs \ {h} : git'[r].staged = git[r].staged
    BY <1>3, CommitDoes DEF history
  <2>2. \A r \in GitDirs : ~Staging(r)' /\ (Staging(r) => r = h)
    BY <2>1, StagingStarts DEF Staging
  <2>3. \A r \in GitDirs : Awaits(r)' => Awaits(r) /\ r # h
    BY <2>1, AwaitsFromBefore
  <2> HIDE DEF h
  <2> SUFFICES ASSUME NEW r \in GitDirs, Awaits(r)'
               PROVE  git'[r].staged = found'[r]
    BY <2>2 DEF StagedInv
  <2>4. git[r].staged = found[r]
    BY <2>2, <2>3 DEF StagedInv
  <2> QED
    BY <2>1, <2>3, <2>4
<1> QED
  BY <1>1, <1>2, <1>3, CheckoutNewDoes, PushDoes, OpenPullDoes

\* In everything else no commit is to come, but in a delivery that begins.
LEMMA RestKeepsStagedInv ==
  ASSUME TypeOK, BatchInv, StagedInv,
         \/ CheckoutBase \/ Merge \/ DeleteBranch
         \/ CommandFails \/ MergeConflicts \/ PromptFails
         \/ AnswerYes \/ AnswerNo \/ Finish \/ UserActs
         \/ \E m \in Modes, files \in ChangeSets : Deliver(m, files)
  PROVE  StagedInv'
<1>1. ASSUME todo' = <<>>
      PROVE  StagedInv'
  BY <1>1 DEF StagedInv, Awaits, Within
<1>2. CASE CheckoutBase \/ Merge \/ DeleteBranch
  <2>1. \E x : InDone(x)
    BY <1>2, CheckoutBaseDoes, MergeDoes, DeleteBranchDoes
  <2> QED
    BY <1>1, <2>1 DEF InDone, MergeProceeds
<1>3. CASE CommandFails \/ MergeConflicts \/ PromptFails
  BY <1>1, <1>3, FailureDoes DEF EndsInError
<1>4. CASE AnswerYes \/ AnswerNo \/ Finish \/ UserActs
  BY <1>1, <1>4, AnswersAre, UserDoes DEF progress
<1>5. ASSUME NEW m \in Modes, NEW files \in ChangeSets, Deliver(m, files)
      PROVE  StagedInv'
  <2>1. /\ \A r \in GitDirs : git'[r].staged = git[r].staged
        /\ found' = [r \in GitDirs |-> git[r].staged]
        /\ todo' # <<>> => Commands'[step'] \in {"checkout", "add"}
    BY <1>5, DeliverDoes
  <2>2. \A r : ~Staging(r)'
    BY <2>1 DEF Staging, NextIs
  <2> QED
    BY <2>1, <2>2 DEF StagedInv
<1> QED
  BY <1>2, <1>3, <1>4, <1>5

-----------------------------------------------------------------------------
(* What the commits hold.                                                  *)

\* A repository inside another one lies deeper.
LEMMA EnclosingIsAbove ==
  ASSUME NEW s \in GitDirs, Enclosing(s) \in GitDirs
  PROVE  Len(Enclosing(s)) \in Nat /\ Len(s) \in Nat /\ Len(Enclosing(s)) < Len(s)
<1>1. s \in Dirs /\ NoRepo \notin GitDirs
  BY DeliveryAssumption
<1>2. s # Root /\ Enclosing(s) = Nearest[Parent(s)]
  BY <1>1 DEF Enclosing
<1>3. /\ Parent(s) \in Dirs /\ Len(Parent(s)) = Len(s) - 1
      /\ Len(s) \in Nat
  BY <1>1, <1>2, PathFacts
<1>4. Enclosing(s) = Innermost(Parent(s))
  BY <1>2, <1>3, NearestIsInnermost
<1>5. Around(Parent(s)) # {}
  BY <1>1, <1>4 DEF Innermost
<1>6. PICK r \in Around(Parent(s)) : \A q \in Around(Parent(s)) : Len(q) <= Len(r)
  BY <1>3, <1>5, InnermostExists
<1>7. Enclosing(s) \in Around(Parent(s))
  BY <1>4, <1>5, <1>6 DEF Innermost
<1>8. Len(Enclosing(s)) \in Nat /\ Len(Enclosing(s)) <= Len(Parent(s))
  BY <1>3, <1>7, AroundLen
<1> QED
  BY <1>3, <1>8

LEMMA AwaitsGoesOn ==
  ASSUME TypeOK, todo # <<>>, WorkProceeds, NEW r, Awaits(r),
         ~(r = Head(todo) /\ Commands[step] = "commit")
  PROVE  Awaits(r)'
<1>1. /\ todo \in Seq(GitDirs) /\ Within(r, todo)
      /\ r = Head(todo) => Commands[step] \notin {"push", "pr", "commit"}
  BY DEF TypeOK, Awaits, NextIs
<1>2. CASE /\ UNCHANGED <<todo, done>>
           /\ <<Commands[step], Commands'[step']>> \in
                {<<"checkout", "add">>, <<"add", "commit">>,
                 <<"commit", "push">>, <<"push", "pr">>}
  <2>1. Within(r, todo)' /\ Head(todo') = Head(todo)
    BY <1>1, <1>2 DEF Within
  <2>2. r = Head(todo) => Commands'[step'] \in {"add", "commit"}
    BY <1>1, <1>2
  <2> QED
    BY <2>1, <2>2 DEF Awaits, NextIs
<1>3. CASE todo' = Tail(todo) /\ Commands'[step'] \in {"checkout", "add"}
  <2>1. r # Head(todo)
    BY <1>1, <1>3 DEF WorkProceeds
  <2>2. Within(r, Tail(todo))
    BY <1>1, <2>1, WithinParts
  <2> QED
    BY <1>3, <2>2 DEF Awaits, NextIs, Within
<1> QED
  BY <1>2, <1>3 DEF WorkProceeds

\* A step that commits nothing.
LEMMA ContentFrame ==
  ASSUME TypeOK, ContentInv,
         \A r \in GitDirs : git'[r].content = git[r].content,
         UNCHANGED <<turn, edits, found>>, failed \subseteq failed',
         mode' # "idle" => mode # "idle" /\ \A r \in GitDirs : Awaits(r) => Awaits(r)',
         (mode' = "idle" /\ turn \in Turns /\ turn \notin failed') =>
           /\ \A r \in GitDirs : Holds(r, turn)
           /\ Owned(NoRepo, edits[turn]) \subseteq reported'
  PROVE  ContentInv'
<1>1. \A r \in GitDirs : \A t : Holds(r, t)' <=> Holds(r, t)
  BY DEF Holds
<1>2. \A r \in GitDirs, t \in Turns : t > turn' => git'[r].content[t] = {}
  BY DEF ContentInv
<1>3. mode' # "idle" => \A r \in GitDirs : Awaits(r)' \/ Holds(r, turn)'
  BY <1>1 DEF ContentInv
<1>4. ASSUME NEW t \in (1..turn) \ failed', t < turn \/ mode' = "idle"
      PROVE  /\ \A r \in GitDirs : Holds(r, t)'
             /\ t = turn => Owned(NoRepo, edits'[t]) \subseteq reported'
  <2>1. turn \in Nat /\ MaxTurns \in Nat /\ turn <= MaxTurns /\ t \in Turns /\ t <= turn
    BY DeliveryAssumption DEF TypeOK, Turns
  <2>2. CASE t < turn
    <3>1. \A r \in GitDirs : Holds(r, t)
      BY <1>4, <2>2 DEF ContentInv
    <3> QED
      BY <1>1, <2>1, <2>2, <3>1
  <2>3. CASE t = turn
    BY <1>1, <1>4, <2>1, <2>3
  <2> QED
    BY <2>1, <2>2, <2>3
<1>5. CommitIsIndexPlusExecution'
  <2>1. CommitIsIndexPlusExecution
    BY DEF ContentInv
  <2>2. \A r \in GitDirs :
          (turn > 0 /\ git'[r].content[turn] # {}) =>
             git'[r].content[turn] = found[r] \cup Owned(r, edits[turn])
    BY <2>1 DEF CommitIsIndexPlusExecution
  <2> QED
    BY <2>2 DEF CommitIsIndexPlusExecution
<1>6. InnerIsCommittedFirst'
  <2>1. InnerIsCommittedFirst
    BY DEF ContentInv
  <2>2. \A r, s \in GitDirs :
          (r = Enclosing(s) /\ turn > 0 /\ git'[r].content[turn] # {}) =>
             Owned(s, edits[turn]) \subseteq git'[s].content[turn]
    BY <2>1 DEF InnerIsCommittedFirst
  <2> QED
    BY <2>2 DEF InnerIsCommittedFirst
<1> QED
  BY <1>2, <1>3, <1>4, <1>5, <1>6 DEF ContentInv

LEMMA CommitKeepsContentInv ==
  ASSUME TypeOK, BatchInv, StagedInv, ContentInv, Commit
  PROVE  ContentInv'
<1>0. PICK h \in GitDirs : h = Head(todo)
  BY CommitDoes
<1>1. /\ todo # <<>> /\ Commands[step] = "commit" /\ WorkProceeds
      /\ turn \in Turns /\ BatchInv' /\ UNCHANGED <<edits, found, failed>>
      /\ \A r \in GitDirs \ {h} : git'[r].content = git[r].content
      /\ git'[h].content = [git[h].content EXCEPT ![turn] = git[h].staged]
  BY <1>0, CommitDoes DEF history
<1>2. /\ mode # "idle" /\ UNCHANGED <<turn, mode>> /\ todo \in Seq(GitDirs)
      /\ turn \in Nat /\ turn > 0
  BY <1>1, ModesAre DEF BatchInv, WorkProceeds, TypeOK, Turns
<1>3. git[h].content \in [Turns -> SUBSET Paths]
  BY <1>1, RepositoryFields
<1>4. /\ git'[h].content[turn] = git[h].staged
      /\ \A t \in Turns : t # turn => git'[h].content[t] = git[h].content[t]
  BY <1>1, <1>3
<1>5. git[h].staged = found[h] \cup Owned(h, edits[turn])
  <2>1. Staging(h) /\ Awaits(h)
    <3>1. Within(h, todo)
      BY <1>0, CommitDoes
    <3> QED
      BY <1>0, <1>1, <3>1 DEF Staging, Awaits, NextIs
  <2> QED
    BY <2>1 DEF StagedInv
<1>6. /\ Holds(h, turn)'
      /\ \A r \in GitDirs, t \in Turns :
           r # h \/ t # turn => (Holds(r, t)' <=> Holds(r, t))
  <2>1. Holds(h, turn)'
    BY <1>1, <1>2, <1>4, <1>5 DEF Holds
  <2>2. ASSUME NEW r \in GitDirs, NEW t \in Turns, r # h \/ t # turn
        PROVE  Holds(r, t)' <=> Holds(r, t)
    <3>1. git'[r].content[t] = git[r].content[t]
      BY <1>1, <1>4, <2>2
    <3> QED
      BY <1>1, <3>1 DEF Holds
  <2> QED
    BY <2>1, <2>2
<1>7. ASSUME NEW r \in GitDirs, NEW t \in Turns, t > turn'
      PROVE  git'[r].content[t] = {}
  <2>1. t > turn /\ t # turn
    BY <1>2, <1>7, TurnsAreBranches
  <2>2. git'[r].content[t] = git[r].content[t]
    BY <1>1, <1>4, <2>1
  <2> QED
    BY <2>1, <2>2 DEF ContentInv
<1>8. ASSUME NEW r \in GitDirs
      PROVE  Awaits(r)' \/ Holds(r, turn)'
  <2>1. CASE r = h
    BY <1>2, <1>6, <2>1
  <2>2. CASE r # h
    <3>1. Awaits(r) => Awaits(r)'
      BY <1>0, <1>1, <2>2, AwaitsGoesOn
    <3>2. Awaits(r) \/ Holds(r, turn)
      BY <1>2 DEF ContentInv
    <3> QED
      BY <1>1, <1>2, <1>6, <2>2, <3>1, <3>2 DEF Holds
  <2> QED
    BY <2>1, <2>2
<1>9. ASSUME NEW t \in (1..turn) \ failed, t < turn
      PROVE  \A r \in GitDirs : Holds(r, t)'
  <2>1. t \in Turns /\ t # turn
    BY <1>1, <1>2, <1>9, DeliveryAssumption DEF Turns
  <2>2. \A r \in GitDirs : Holds(r, t)
    BY <1>9 DEF ContentInv
  <2> QED
    BY <1>6, <2>1, <2>2
<1>10. CommitIsIndexPlusExecution'
  <2> SUFFICES ASSUME NEW r \in GitDirs, git'[r].content[turn] # {}
               PROVE  git'[r].content[turn] = found[r] \cup Owned(r, edits[turn])
    BY <1>1, <1>2 DEF CommitIsIndexPlusExecution
  <2>1. CASE r = h
    BY <1>4, <1>5, <2>1
  <2>2. CASE r # h
    <3>1. git'[r].content = git[r].content
      BY <1>1, <2>2
    <3> QED
      BY <1>2, <3>1 DEF ContentInv, CommitIsIndexPlusExecution
  <2> QED
    BY <2>1, <2>2
\* The repositories left are no deeper than the one that commits.
<1>11. InnerIsCommittedFirst'
  <2> SUFFICES ASSUME NEW r \in GitDirs, NEW s \in GitDirs, r = Enclosing(s),
                      git'[r].content[turn] # {}
               PROVE  Holds(s, turn)'
    BY <1>1, <1>2 DEF InnerIsCommittedFirst, Holds
  <2>1. CASE s = h
    BY <1>6, <2>1
  <2>2. CASE s # h /\ r = h
    <3>1. Len(h) < Len(s) /\ Len(h) \in Nat /\ Len(s) \in Nat
      BY <2>2, EnclosingIsAbove
    <3>2. ~Within(s, todo)
      <4> SUFFICES ASSUME NEW i \in 1..Len(todo), todo[i] = s PROVE FALSE
        BY DEF Within
      <4>1. todo[1] = h /\ 1 \in 1..Len(todo) /\ Len(todo) \in Nat
        BY <1>0, <1>1, <1>2, HeadOfSeq
      <4>2. 1 < i
        BY <2>2, <4>1
      <4>3. Len(todo[1]) >= Len(todo[i])
        BY <4>1, <4>2 DEF BatchInv
      <4> QED
        BY <3>1, <4>1, <4>3
    <3>3. Holds(s, turn)
      BY <1>2, <3>2 DEF ContentInv, Awaits
    <3> QED
      BY <1>1, <1>2, <1>6, <2>2, <3>3 DEF Holds
  <2>3. CASE s # h /\ r # h
    <3>1. git[r].content[turn] # {}
      BY <1>1, <2>3
    <3>2. Holds(s, turn)
      BY <1>2, <3>1 DEF ContentInv, InnerIsCommittedFirst, Holds
    <3> QED
      BY <1>1, <1>2, <1>6, <2>3, <3>2 DEF Holds
  <2> QED
    BY <2>1, <2>2, <2>3
<1> QED
  BY <1>1, <1>2, <1>7, <1>8, <1>9, <1>10, <1>11 DEF ContentInv

LEMMA CommandKeepsContentInv ==
  ASSUME TypeOK, BatchInv, StagedInv, ContentInv,
         CheckoutNew \/ Add \/ Commit \/ Push \/ OpenPull
  PROVE  ContentInv'
<1> DEFINE g == git[Head(todo)]
<1>1. ASSUME NEW command \in {"checkout", "add", "push", "pr"}, NEW x,
             InTodo(command, x), x.content = g.content
      PROVE  ContentInv'
  <2>1. /\ todo # <<>> /\ Commands[step] # "commit"
        /\ WorkProceeds /\ UNCHANGED <<turn, mode, edits, found, failed>> /\ Head(todo) \in GitDirs
    BY <1>1 DEF InTodo, history, WorkProceeds
  <2>2. \A r \in GitDirs : git'[r].content = git[r].content
    BY <1>1 DEF InTodo
  <2>3. mode # "idle"
    BY <2>1 DEF BatchInv
  <2>4. \A r \in GitDirs : Awaits(r) => Awaits(r)'
    BY <2>1, AwaitsGoesOn
  <2> QED
    BY <2>1, <2>2, <2>3, <2>4, ContentFrame
<1>3. CASE CheckoutNew \/ Add \/ Push \/ OpenPull
  <2>1. Head(todo) \in GitDirs
    BY <1>3, CheckoutNewDoes, AddDoes, PushDoes, OpenPullDoes DEF InTodo
  <2>2. g \in Repositories
    BY <2>1, RepositoryFields
  <2> DEFINE new    == [g EXCEPT !.head = turn, !.branches = @ \cup {turn},
                                 !.tips[turn] = g.tips[g.head]]
             staged == [g EXCEPT !.staged = @ \cup Owned(Head(todo), edits[turn])]
  <2>3. new.content = g.content /\ staged.content = g.content
    BY <2>2 DEF Repositories
  <2>4. \/ InTodo("checkout", new) \/ InTodo("add", staged)
        \/ InTodo("push", g) \/ InTodo("pr", g)
    BY <1>3, CheckoutNewDoes, AddDoes, PushDoes, OpenPullDoes
  <2> HIDE DEF new, staged
  <2> QED
    BY <1>1, <2>3, <2>4
<1>2. CASE Commit
  BY <1>2, CommitKeepsContentInv
<1> QED
  BY <1>2, <1>3

LEMMA DeliverKeepsContentInv ==
  ASSUME TypeOK, BatchInv, ContentInv,
         NEW m \in Modes, NEW files \in ChangeSets, Deliver(m, files)
  PROVE  ContentInv'
<1>1. /\ mode = "idle" /\ turn \in Nat /\ mode' = m /\ turn' = turn + 1 /\ turn' \in Turns
      /\ edits' = [edits EXCEPT ![turn'] = files] /\ failed' = failed
      /\ \A r \in GitDirs : git'[r].content = git[r].content
      /\ \A r \in GitDirs : Within(r, todo') <=> Owned(r, files) # {}
      /\ todo' # <<>> => Commands'[step'] \in {"checkout", "add"}
  BY DeliverDoes
<1>2. /\ m # "idle" /\ edits \in [Turns -> SUBSET Files] /\ failed \subseteq Turns
      /\ MaxTurns \in Nat /\ \A t \in failed : t <= turn
  BY DeliveryAssumption DEF TypeOK, BatchInv
<1>3. edits'[turn'] = files /\ \A t \in Turns : t # turn' => edits'[t] = edits[t]
  BY <1>1, <1>2
<1>4. \A r \in GitDirs, t \in Turns : t > turn => git'[r].content[t] = {}
  BY <1>1 DEF ContentInv
<1>5. \A r \in GitDirs, t \in Turns : t > turn' => git'[r].content[t] = {}
  BY <1>1, <1>4, TurnsAreBranches
<1>6. \A r \in GitDirs : git'[r].content[turn'] = {}
  BY <1>1, <1>4
<1>7. ASSUME NEW r \in GitDirs
      PROVE  Awaits(r)' \/ Holds(r, turn)'
  <2>1. CASE Within(r, todo')
    <3>1. todo' # <<>>
      BY <2>1 DEF Within
    <3> QED
      BY <1>1, <2>1, <3>1 DEF Awaits, NextIs, Within
  <2>2. CASE ~Within(r, todo')
    BY <1>1, <1>3, <2>2 DEF Holds
  <2> QED
    BY <2>1, <2>2
<1>8. ASSUME NEW t \in (1..turn') \ failed', t < turn'
      PROVE  \A r \in GitDirs : Holds(r, t)'
  <2>1. t \in (1..turn) \ failed /\ t \in Turns /\ t # turn'
    BY <1>1, <1>2, <1>8 DEF Turns
  <2>2. \A r \in GitDirs : Holds(r, t)
    BY <1>1, <2>1 DEF ContentInv
  <2> QED
    BY <1>1, <1>3, <2>1, <2>2 DEF Holds
<1>9. CommitIsIndexPlusExecution'
  BY <1>6 DEF CommitIsIndexPlusExecution
<1>10. InnerIsCommittedFirst'
  BY <1>6 DEF InnerIsCommittedFirst
<1>11. mode' # "idle"
  BY <1>1, <1>2
<1> QED
  BY <1>1, <1>5, <1>7, <1>8, <1>9, <1>10, <1>11 DEF ContentInv

LEMMA RestKeepsContentInv ==
  ASSUME TypeOK, BatchInv, ContentInv,
         \/ CheckoutBase \/ Merge \/ DeleteBranch
         \/ CommandFails \/ MergeConflicts \/ PromptFails
         \/ AnswerYes \/ AnswerNo \/ Finish \/ UserActs
  PROVE  ContentInv'
<1>1. CASE CheckoutBase \/ Merge \/ DeleteBranch
  <2> DEFINE g == git[Head(done)]
             x == IF CheckoutBase THEN [g EXCEPT !.head = Base]
                  ELSE IF Merge THEN [g EXCEPT !.tips[Base] = @ \cup g.tips[turn]]
                  ELSE [g EXCEPT !.branches = @ \ {turn}, !.tips[turn] = {}]
  <2>1. InDone(x)
    BY <1>1, CheckoutBaseDoes, MergeDoes, DeleteBranchDoes
  <2>2. g \in Repositories /\ Head(done) \in GitDirs
    BY <2>1, RepositoryFields DEF InDone
  <2>3. x.content = g.content
    BY <2>2 DEF Repositories
  <2> HIDE DEF x
  <2>4. \A r \in GitDirs : git'[r].content = git[r].content
    BY <2>1, <2>3 DEF InDone
  <2>5. /\ mode = "chat" /\ todo = <<>> /\ UNCHANGED <<turn, mode, todo, edits, found, failed>>
    BY <2>1 DEF InDone, MergeProceeds, history
  <2>6. \A r \in GitDirs : ~Awaits(r)
    BY <2>5, WithinParts DEF Awaits, TypeOK
  <2> QED
    BY <2>4, <2>5, <2>6, ContentFrame
<1>2. CASE CommandFails \/ MergeConflicts \/ PromptFails
  <2>1. /\ \A r \in GitDirs : git'[r].content = git[r].content
        /\ failed' = failed \cup {turn} /\ mode' = "idle" /\ UNCHANGED <<turn, edits, found>>
    BY <1>2, FailureDoes DEF EndsInError
  <2> QED
    BY <2>1, ContentFrame
<1>3. CASE AnswerYes \/ AnswerNo \/ Finish
  <2>1. /\ todo = <<>> /\ UNCHANGED <<git, turn, edits, found, failed>> /\ mode # "idle"
        /\ mode' = "idle" => reported' = Owned(NoRepo, edits[turn])
    BY <1>3, AnswersAre DEF AnswerYes, AnswerNo, Finish
  <2>2. \A r \in GitDirs : ~Awaits(r)
    BY <2>1, WithinParts DEF Awaits, TypeOK
  <2>3. \A r \in GitDirs : Holds(r, turn)
    BY <2>1, <2>2 DEF ContentInv
  <2> QED
    BY <2>1, <2>2, <2>3, ContentFrame
<1>4. CASE UserActs
  <2>1. /\ mode = "idle" /\ UNCHANGED <<turn, mode, edits, found, failed, reported>>
        /\ \A r \in GitDirs : git'[r].content = git[r].content
    BY <1>4, UserDoes DEF progress, history
  <2>2. ASSUME turn \in Turns, turn \notin failed'
        PROVE  /\ \A r \in GitDirs : Holds(r, turn)
               /\ Owned(NoRepo, edits[turn]) \subseteq reported'
    <3>1. turn \in (1..turn) \ failed
      BY <2>1, <2>2, DeliveryAssumption DEF Turns
    <3> QED
      BY <2>1, <3>1 DEF ContentInv
  <2> QED
    BY <2>1, <2>2, ContentFrame
<1> QED
  BY <1>1, <1>2, <1>3, <1>4

-----------------------------------------------------------------------------
(* The branches, and the pull requests.                                    *)

LEMMA CommandKeepsHeadsInv ==
  ASSUME TypeOK, BatchInv, HeadsInv,
         CheckoutNew \/ Add \/ Commit \/ Push \/ OpenPull
  PROVE  HeadsInv'
<1>1. /\ todo # <<>> /\ WorkProceeds /\ Head(todo) \in GitDirs /\ turn \in Turns
      /\ turn \in Branches
      /\ Commands[step] = "checkout" <=> CheckoutNew
      /\ Commands[step] = "add" <=> Add
      /\ Commands[step] = "commit" <=> Commit
      /\ Commands[step] = "push" <=> Push
      /\ Commands[step] = "pr" <=> OpenPull
  BY CheckoutNewDoes, AddDoes, CommitDoes, PushDoes, OpenPullDoes, TurnsAreBranches
     DEF InTodo
<1>2. PICK h \in GitDirs : h = Head(todo)
  BY <1>1
<1>3. UNCHANGED <<turn, mode>>
  BY <1>1 DEF WorkProceeds
<1>4. /\ git[h] \in Repositories /\ git[h].head \in Branches
      /\ git[h].tips \in [Branches -> SUBSET Commits]
  BY RepositoryFields
<1>5. CASE todo' = Tail(todo) /\ Commands'[step'] \in {"checkout", "add"}
           /\ (mode # "follow-up" => Commands'[step'] = "checkout")
  BY <1>3, <1>5 DEF HeadsInv, NextIs
<1>6. CASE /\ todo' = todo
           /\ <<Commands[step], Commands'[step']>> \in
                {<<"checkout", "add">>, <<"add", "commit">>,
                 <<"commit", "push">>, <<"push", "pr">>}
  <2>1. Head(todo') = h
    BY <1>2, <1>6
  <2>2. CASE CheckoutNew
    <3>1. git'[h].head = turn
      BY <1>2, <1>4, <2>2, CheckoutNewDoes DEF InTodo, Repositories
    <3>2. Commands'[step'] = "add"
      BY <1>1, <1>6, <2>2
    <3> QED
      BY <1>3, <2>1, <3>1, <3>2 DEF HeadsInv, NextIs
  <2>3. CASE Add
    <3>1. git'[h].head = git[h].head
      BY <1>2, <1>4, <2>3, AddDoes DEF InTodo, Repositories
    <3>2. Commands'[step'] = "commit" /\ Commands[step] = "add"
      BY <1>1, <1>6, <2>3
    <3>3. mode # "follow-up" => git[h].head = turn
      BY <1>1, <1>2, <3>2 DEF HeadsInv, NextIs
    <3> QED
      BY <1>3, <2>1, <3>1, <3>2, <3>3 DEF HeadsInv, NextIs
  <2>4. CASE Commit
    <3>1. /\ git'[h].head = git[h].head
          /\ git'[h].tips = [git[h].tips EXCEPT ![git[h].head] = @ \cup {turn}]
      BY <1>2, <2>4, CommitDoes
    <3>2. Commands'[step'] = "push" /\ Commands[step] = "commit"
      BY <1>1, <1>6, <2>4
    <3>3. mode # "follow-up" => git[h].head = turn
      BY <1>1, <1>2, <3>2 DEF HeadsInv, NextIs
    <3>4. mode = "pr" => turn \in git'[h].tips[turn]
      BY <1>1, <1>4, <3>1, <3>3
    <3> QED
      BY <1>3, <2>1, <3>1, <3>2, <3>3, <3>4 DEF HeadsInv, NextIs
  <2>5. CASE Push
    <3>1. /\ git'[h] = git[h]
          /\ remote' = [remote EXCEPT ![h][git[h].head] = git[h].tips[git[h].head]]
      BY <1>2, <2>5, PushDoes DEF InTodo
    <3>2. Commands'[step'] = "pr" /\ Commands[step] = "push"
      BY <1>1, <1>6, <2>5
    <3>3. /\ mode # "follow-up" => git[h].head = turn
          /\ mode = "pr" => turn \in git[h].tips[turn]
      BY <1>1, <1>2, <3>2 DEF HeadsInv, NextIs
    <3>4. mode = "pr" => turn \in remote'[h][turn]
      BY <1>1, <3>1, <3>3 DEF TypeOK
    <3> QED
      BY <1>3, <2>1, <3>1, <3>2, <3>3, <3>4 DEF HeadsInv, NextIs
  <2>6. CASE OpenPull
    BY <1>1, <1>6, <2>6
  <2> QED
    BY <2>2, <2>3, <2>4, <2>5, <2>6
<1> QED
  BY <1>1, <1>5, <1>6 DEF WorkProceeds

LEMMA RestKeepsHeadsInv ==
  ASSUME TypeOK, BatchInv,
         \/ CheckoutBase \/ Merge \/ DeleteBranch
         \/ CommandFails \/ MergeConflicts \/ PromptFails
         \/ AnswerYes \/ AnswerNo \/ Finish \/ UserActs
         \/ \E m \in Modes, files \in ChangeSets : Deliver(m, files)
  PROVE  HeadsInv'
<1>1. CASE \/ CheckoutBase \/ Merge \/ DeleteBranch
           \/ CommandFails \/ MergeConflicts \/ PromptFails
           \/ AnswerYes \/ AnswerNo \/ Finish \/ UserActs
  <2>1. CheckoutBase \/ Merge \/ DeleteBranch => todo' = <<>>
    BY CheckoutBaseDoes, MergeDoes, DeleteBranchDoes DEF InDone, MergeProceeds
  <2>2. CommandFails \/ MergeConflicts \/ PromptFails => todo' = <<>>
    BY FailureDoes DEF EndsInError
  <2>3. AnswerYes \/ AnswerNo \/ Finish \/ UserActs => todo' = <<>>
    BY AnswersAre, UserDoes DEF progress
  <2> QED
    BY <1>1, <2>1, <2>2, <2>3 DEF HeadsInv, NextIs
<1>2. ASSUME NEW m \in Modes, NEW files \in ChangeSets, Deliver(m, files)
      PROVE  HeadsInv'
  <2>1. /\ mode' = m
        /\ todo' # <<>> => /\ Commands'[step'] \in {"checkout", "add"}
                           /\ m # "follow-up" => Commands'[step'] = "checkout"
    BY <1>2, DeliverDoes
  <2> QED
    BY <2>1 DEF HeadsInv, NextIs
<1> QED
  BY <1>1, <1>2

\* A step that opens no pull request.
LEMMA PullsFrame ==
  ASSUME TypeOK, PullsInv, pulls' = pulls, turn' \in Nat, turn <= turn',
         \A r \in GitDirs, t \in Turns :
           <<r, t>> \in pulls /\ t \in git[r].tips[t] /\ t \in remote[r][t] =>
             t \in git'[r].tips[t] /\ t \in remote'[r][t],
         \/ turn < turn' \/ mode' = "idle"
         \/ mode' = mode /\ \A r \in GitDirs : Within(r, todo') => Within(r, todo)
  PROVE  PullsInv'
<1> SUFFICES ASSUME NEW p \in pulls'
             PROVE  /\ p[2] <= turn'
                    /\ p[2] \in git'[p[1]].tips[p[2]] /\ p[2] \in remote'[p[1]][p[2]]
                    /\ p[2] = turn' /\ mode' # "idle" => mode' = "pr" /\ ~Within(p[1], todo')
  BY Zenon DEF PullsInv, Within
<1>1. /\ p \in pulls /\ p[1] \in GitDirs /\ p[2] \in Turns /\ <<p[1], p[2]>> \in pulls
      /\ p[2] \in Nat /\ turn \in Nat
  <2>1. p \in pulls /\ turn \in Nat /\ pulls \subseteq GitDirs \X Turns
    BY DEF TypeOK, Deeds
  <2>2. p[1] \in GitDirs /\ p[2] \in Turns /\ p = <<p[1], p[2]>>
    BY <2>1
  <2> QED
    BY <2>1, <2>2, TurnsAreBranches
<1>2. /\ p[2] <= turn /\ p[2] \in git[p[1]].tips[p[2]] /\ p[2] \in remote[p[1]][p[2]]
      /\ p[2] = turn /\ mode # "idle" => mode = "pr" /\ ~Within(p[1], todo)
  BY DEF PullsInv
<1>3. p[2] <= turn' /\ (turn < turn' => p[2] # turn') /\ (p[2] = turn' => p[2] = turn)
  BY <1>1, <1>2
<1> QED
  BY <1>1, <1>2, <1>3

LEMMA WithinShrinks ==
  ASSUME TypeOK, todo # <<>>, WorkProceeds, NEW r, Within(r, todo')
  PROVE  Within(r, todo)
<1>1. todo \in Seq(GitDirs) /\ (todo' = todo \/ todo' = Tail(todo))
  BY DEF WorkProceeds, TypeOK
<1> QED
  BY <1>1, WithinParts

LEMMA CommandKeepsPullsInv ==
  ASSUME TypeOK, BatchInv, HeadsInv, PullsInv,
         CheckoutNew \/ Add \/ Commit \/ Push \/ OpenPull
  PROVE  PullsInv'
<1>1. /\ todo # <<>> /\ WorkProceeds /\ Head(todo) \in GitDirs /\ Within(Head(todo), todo)
      /\ turn \in Turns /\ turn \in Branches /\ turn \in Nat
      /\ todo' = Tail(todo) => ~Within(Head(todo), todo')
  BY CheckoutNewDoes, AddDoes, CommitDoes, PushDoes, OpenPullDoes, TurnsAreBranches
     DEF InTodo
<1>2. PICK h \in GitDirs : h = Head(todo)
  BY <1>1
<1>3. /\ UNCHANGED <<turn, mode>> /\ mode # "idle" /\ turn' \in Nat /\ turn <= turn'
      /\ \A r \in GitDirs : Within(r, todo') => Within(r, todo)
  BY <1>1, WithinShrinks DEF WorkProceeds, BatchInv
<1>4. /\ git[h] \in Repositories /\ git[h].head \in Branches
      /\ git[h].tips \in [Branches -> SUBSET Commits]
  BY RepositoryFields
<1>5. CASE CheckoutNew
  <2>1. /\ UNCHANGED <<remote, pulls>> /\ \A r \in GitDirs : r # h => git'[r] = git[r]
        /\ git'[h].tips = [git[h].tips EXCEPT ![turn] = git[h].tips[git[h].head]]
    BY <1>2, <1>4, <1>5, CheckoutNewDoes DEF InTodo, Repositories
  <2>2. <<h, turn>> \notin pulls
    BY <1>1, <1>2, <1>3 DEF PullsInv
  <2>3. ASSUME NEW r \in GitDirs, NEW t \in Turns, <<r, t>> \in pulls, t \in git[r].tips[t]
        PROVE  t \in git'[r].tips[t]
    <3>1. CASE r = h
      <4>1. t # turn /\ t \in Branches
        BY <2>2, <2>3, <3>1, TurnsAreBranches
      <4> QED
        BY <1>4, <2>1, <2>3, <3>1, <4>1
    <3>2. CASE r # h
      BY <2>1, <2>3, <3>2
    <3> QED
      BY <3>1, <3>2
  <2> QED
    BY <1>3, <2>1, <2>3, PullsFrame
<1>6. CASE Add
  <2>1. /\ UNCHANGED <<remote, pulls>> /\ \A r \in GitDirs : git'[r].tips = git[r].tips
    BY <1>2, <1>4, <1>6, AddDoes DEF InTodo, Repositories
  <2> QED
    BY <1>3, <2>1, PullsFrame
<1>7. CASE Commit
  <2>1. /\ UNCHANGED <<remote, pulls>>
        /\ \A r \in GitDirs \ {h} : git'[r].tips = git[r].tips
        /\ git'[h].tips = [git[h].tips EXCEPT ![git[h].head] = @ \cup {turn}]
    BY <1>2, <1>7, CommitDoes
  <2>2. \A b \in Branches : git[h].tips[b] \subseteq git'[h].tips[b]
    BY <1>4, <2>1
  <2>3. \A r \in GitDirs, t \in Turns : t \in git[r].tips[t] => t \in git'[r].tips[t]
    BY <2>1, <2>2, TurnsAreBranches
  <2> QED
    BY <1>3, <2>1, <2>3, PullsFrame
<1>8. CASE Push
  <2>1. /\ pulls' = pulls /\ \A r \in GitDirs : git'[r] = git[r]
        /\ remote' = [remote EXCEPT ![h][git[h].head] = git[h].tips[git[h].head]]
    BY <1>2, <1>8, PushDoes DEF InTodo
  <2>2. ASSUME NEW r \in GitDirs, NEW t \in Turns, t \in git[r].tips[t], t \in remote[r][t]
        PROVE  t \in remote'[r][t]
    <3>1. CASE r = h /\ t = git[h].head
      BY <1>4, <2>1, <2>2, <3>1 DEF TypeOK
    <3>2. CASE r # h \/ t # git[h].head
      BY <1>4, <2>1, <2>2, <3>2, TurnsAreBranches DEF TypeOK
    <3> QED
      BY <3>1, <3>2
  <2> QED
    BY <1>3, <2>1, <2>2, PullsFrame
<1>9. CASE OpenPull
  <2>1. /\ Commands[step] = "pr" /\ remote' = remote /\ \A r \in GitDirs : git'[r] = git[r]
        /\ pulls' = pulls \cup {<<h, turn>>}
    BY <1>2, <1>9, OpenPullDoes DEF InTodo
  <2>2. mode = "pr" /\ turn \in git[h].tips[turn] /\ turn \in remote[h][turn]
    BY <1>1, <1>2, <2>1, NextCommand DEF HeadsInv, NextIs
  <2>3. ~Within(h, todo')
    BY <1>1, <1>2, <2>1 DEF WorkProceeds
  <2> SUFFICES ASSUME NEW p \in pulls'
               PROVE  /\ p[2] <= turn
                      /\ p[2] \in git'[p[1]].tips[p[2]] /\ p[2] \in remote[p[1]][p[2]]
                      /\ p[2] = turn => mode = "pr" /\ ~Within(p[1], todo')
    BY <1>3, <2>1 DEF PullsInv, Within
  <2>4. CASE p = <<h, turn>>
    BY <1>1, <2>1, <2>2, <2>3, <2>4
  <2>5. CASE p \in pulls
    <3>1. p[1] \in GitDirs
      BY <2>5 DEF TypeOK, Deeds
    <3> QED
      BY <1>3, <2>1, <2>5, <3>1 DEF PullsInv
  <2> QED
    BY <2>1, <2>4, <2>5
<1> QED
  BY <1>5, <1>6, <1>7, <1>8, <1>9

LEMMA RestKeepsPullsInv ==
  ASSUME TypeOK, BatchInv, PullsInv,
         \/ CheckoutBase \/ Merge \/ DeleteBranch
         \/ CommandFails \/ MergeConflicts \/ PromptFails
         \/ AnswerYes \/ AnswerNo \/ Finish \/ UserActs
         \/ \E m \in Modes, files \in ChangeSets : Deliver(m, files)
  PROVE  PullsInv'
<1>1. turn \in Nat /\ turn <= turn
  BY DEF TypeOK
<1>2. CASE CheckoutBase \/ Merge \/ DeleteBranch
  <2> DEFINE g == git[Head(done)]
  <2>1. /\ mode = "chat" /\ UNCHANGED <<turn, mode, todo, remote, pulls>>
        /\ Head(done) \in GitDirs /\ turn \in Turns
        /\ \A r \in GitDirs : r # Head(done) => git'[r] = git[r]
    BY <1>2, CheckoutBaseDoes, MergeDoes, DeleteBranchDoes DEF InDone, MergeProceeds
  <2>2. g \in Repositories /\ g.tips \in [Branches -> SUBSET Commits]
    BY <2>1, RepositoryFields
  <2>3. \/ git'[Head(done)] = [g EXCEPT !.head = Base]
        \/ git'[Head(done)] = [g EXCEPT !.tips[Base] = @ \cup g.tips[turn]]
        \/ git'[Head(done)] = [g EXCEPT !.branches = @ \ {turn}, !.tips[turn] = {}]
    <3>1. CheckoutBase => git'[Head(done)] = [g EXCEPT !.head = Base]
      BY <2>1, CheckoutBaseDoes DEF InDone
    <3>2. Merge => git'[Head(done)] = [g EXCEPT !.tips[Base] = @ \cup g.tips[turn]]
      BY <2>1, MergeDoes DEF InDone
    <3>3. DeleteBranch =>
            git'[Head(done)] = [g EXCEPT !.branches = @ \ {turn}, !.tips[turn] = {}]
      BY <2>1, DeleteBranchDoes DEF InDone
    <3> QED
      BY <1>2, <3>1, <3>2, <3>3
  <2>4. ASSUME NEW t \in Turns, t # turn
        PROVE  git'[Head(done)].tips[t] = g.tips[t]
    <3>1. t \in Branches /\ t # Base
      BY TurnsAreBranches
    <3> HIDE DEF g
    <3>2. CASE git'[Head(done)] = [g EXCEPT !.head = Base]
      BY <2>2, <3>2 DEF Repositories
    <3>3. CASE git'[Head(done)] = [g EXCEPT !.tips[Base] = @ \cup g.tips[turn]]
      BY <2>2, <2>4, <3>1, <3>3 DEF Repositories
    <3>4. CASE git'[Head(done)] = [g EXCEPT !.branches = @ \ {turn}, !.tips[turn] = {}]
      BY <2>2, <2>4, <3>1, <3>4 DEF Repositories
    <3> QED
      BY <2>3, <3>2, <3>3, <3>4
  <2>5. \A r \in GitDirs, t \in Turns : <<r, t>> \in pulls => t # turn
    BY <2>1 DEF PullsInv
  <2>6. ASSUME NEW r \in GitDirs, NEW t \in Turns, <<r, t>> \in pulls, t \in git[r].tips[t]
        PROVE  t \in git'[r].tips[t]
    BY <2>1, <2>4, <2>5, <2>6
  <2> QED
    BY <1>1, <2>1, <2>6, PullsFrame
<1>3. CASE CommandFails \/ MergeConflicts \/ PromptFails
  <2>1. /\ \A r \in GitDirs : git'[r].tips = git[r].tips
        /\ mode' = "idle" /\ UNCHANGED <<turn, remote, pulls>>
    BY <1>3, FailureDoes DEF EndsInError
  <2> QED
    BY <1>1, <2>1, PullsFrame
<1>4. CASE AnswerYes \/ AnswerNo \/ Finish
  <2>1. /\ UNCHANGED <<git, turn, todo, remote, pulls>> /\ (mode' = mode \/ mode' = "idle")
    BY <1>4, AnswersAre DEF AnswerYes, AnswerNo, Finish
  <2> QED
    BY <1>1, <2>1, PullsFrame
<1>5. CASE UserActs
  <2>1. /\ UNCHANGED <<turn, mode, todo, remote, pulls>>
        /\ \A r \in GitDirs, b \in Branches : git[r].tips[b] \subseteq git'[r].tips[b]
    BY <1>5, UserDoes DEF progress
  <2>2. \A r \in GitDirs, t \in Turns : t \in git[r].tips[t] => t \in git'[r].tips[t]
    BY <2>1, TurnsAreBranches
  <2> QED
    BY <1>1, <2>1, <2>2, PullsFrame
<1>6. ASSUME NEW m \in Modes, NEW files \in ChangeSets, Deliver(m, files)
      PROVE  PullsInv'
  <2>1. /\ turn' = turn + 1 /\ UNCHANGED <<remote, pulls>>
        /\ \A r \in GitDirs : git'[r].tips = git[r].tips
    BY <1>6, DeliverDoes
  <2>2. turn' \in Nat /\ turn < turn' /\ turn <= turn'
    BY <1>1, <2>1
  <2> QED
    BY <2>1, <2>2, PullsFrame
<1> QED
  BY <1>2, <1>3, <1>4, <1>5, <1>6

-----------------------------------------------------------------------------
(* The questions of the chat.                                              *)

LEMMA CommandKeepsChatInv ==
  ASSUME TypeOK, BatchInv, ChatInv,
         CheckoutNew \/ Add \/ Commit \/ Push \/ OpenPull
  PROVE  ChatInv'
<1>1. /\ todo # <<>> /\ WorkProceeds /\ Head(todo) \in GitDirs /\ turn \in Turns
      /\ asked' = asked /\ done \in Seq(GitDirs)
      /\ Commit => Commands[step] = "commit"
  BY CheckoutNewDoes, AddDoes, CommitDoes, PushDoes, OpenPullDoes
     DEF InTodo, history, TypeOK
<1>2. PICK h \in GitDirs : h = Head(todo)
  BY <1>1
<1>3. UNCHANGED <<turn, mode>> /\ ~agreed'
  <2>1. ~agreed
    BY <1>1 DEF BatchInv
  <2>2. UNCHANGED <<turn, mode>> /\ (agreed' <=> agreed)
    BY <1>1 DEF WorkProceeds, TypeOK
  <2> QED
    BY <2>1, <2>2
<1>4. \A r \in GitDirs : Within(r, done) => Within(r, done')
  <2>1. done' = done \/ done' = Append(done, h)
    BY <1>1, <1>2 DEF WorkProceeds
  <2>2. \A r \in GitDirs : Within(r, Append(done, h)) <=> r = h \/ Within(r, done)
    BY <1>1, WithinParts
  <2> QED
    BY <2>1, <2>2
<1>5. ASSUME mode = "chat", NEW r \in GitDirs, git'[r].content[turn] # {}
      PROVE  r \in asked \/ Within(r, done')
  <2>1. CASE Commit /\ r = h
    <3>1. done' = Append(done, h)
      BY <1>1, <1>2, <1>5, <2>1 DEF WorkProceeds
    <3> QED
      BY <1>1, <2>1, <3>1, WithinParts
  <2>2. CASE ~(Commit /\ r = h)
    <3>1. git'[r].content = git[r].content
      <4>1. CASE Commit
        BY <1>2, <2>2, <4>1, CommitDoes
      <4>2. CASE ~Commit
        <5> DEFINE g      == git[h]
                   new    == [g EXCEPT !.head = turn, !.branches = @ \cup {turn},
                                       !.tips[turn] = g.tips[g.head]]
                   staged == [g EXCEPT !.staged = @ \cup Owned(h, edits[turn])]
        <5>1. /\ g \in Repositories /\ new.content = g.content
              /\ staged.content = g.content
          BY RepositoryFields DEF Repositories
        <5>2. \/ InTodo("checkout", new) \/ InTodo("add", staged)
              \/ InTodo("push", g) \/ InTodo("pr", g)
          BY <1>2, <4>2, CheckoutNewDoes, AddDoes, PushDoes, OpenPullDoes
        <5> HIDE DEF new, staged
        <5> QED
          BY <1>2, <5>1, <5>2 DEF InTodo
      <4> QED
        BY <4>1, <4>2
    <3>2. r \in asked \/ Within(r, done)
      BY <1>5, <3>1 DEF ChatInv
    <3> QED
      BY <1>4, <3>2
  <2> QED
    BY <2>1, <2>2
<1> QED
  BY <1>1, <1>3, <1>5 DEF ChatInv, Within

LEMMA RestKeepsChatInv ==
  ASSUME TypeOK, BatchInv, ContentInv, ChatInv,
         \/ CheckoutBase \/ Merge \/ DeleteBranch
         \/ CommandFails \/ MergeConflicts \/ PromptFails
         \/ AnswerYes \/ AnswerNo \/ Finish \/ UserActs
         \/ \E m \in Modes, files \in ChangeSets : Deliver(m, files)
  PROVE  ChatInv'
<1>0. done \in Seq(GitDirs)
  BY DEF TypeOK
<1>1. CASE CheckoutBase \/ Merge \/ DeleteBranch
  <2> DEFINE g == git[Head(done)]
             x == IF CheckoutBase THEN [g EXCEPT !.head = Base]
                  ELSE IF Merge THEN [g EXCEPT !.tips[Base] = @ \cup g.tips[turn]]
                  ELSE [g EXCEPT !.branches = @ \ {turn}, !.tips[turn] = {}]
  <2>1. InDone(x)
    BY <1>1, CheckoutBaseDoes, MergeDoes, DeleteBranchDoes
  <2>2. g \in Repositories /\ Head(done) \in GitDirs
    BY <2>1, RepositoryFields DEF InDone
  <2>3. x.content = g.content
    BY <2>2 DEF Repositories
  <2> HIDE DEF x
  <2>4. \A r \in GitDirs : git'[r].content = git[r].content
    BY <2>1, <2>3 DEF InDone
  <2>5. /\ agreed /\ mode = "chat" /\ done # <<>> /\ MergeProceeds
        /\ UNCHANGED <<turn, mode, asked, confirmed>>
    BY <2>1 DEF InDone, MergeProceeds, history
  <2>6. Head(done) \in asked /\ <<Head(done), turn>> \in confirmed
    BY <2>5 DEF ChatInv
  <2>7. agreed' => Head(done') \in asked' /\ <<Head(done'), turn'>> \in confirmed'
    BY <2>5, <2>6 DEF MergeProceeds
  <2>8. ASSUME NEW r \in GitDirs, git'[r].content[turn] # {}
        PROVE  r \in asked \/ Within(r, done')
    <3>1. r \in asked \/ Within(r, done)
      BY <2>4, <2>5, <2>8 DEF ChatInv
    <3>2. CASE done' = done
      BY <3>1, <3>2
    <3>3. CASE done' = Tail(done)
      <4>1. Within(r, done) => r = Head(done) \/ Within(r, Tail(done))
        BY <1>0, <2>5, WithinParts
      <4> QED
        BY <2>6, <3>1, <3>3, <4>1
    <3> QED
      BY <2>5, <3>2, <3>3 DEF MergeProceeds
  <2> QED
    BY <2>5, <2>7, <2>8 DEF ChatInv, Within
<1>2. CASE CommandFails \/ MergeConflicts \/ PromptFails
  <2>1. mode' = "idle" /\ ~agreed'
    BY <1>2, FailureDoes DEF EndsInError
  <2> QED
    BY <2>1 DEF ChatInv
<1>3. CASE AnswerYes
  <2>1. /\ UNCHANGED <<git, turn, mode, done>> /\ asked' = asked \cup {Head(done)}
        /\ confirmed' = confirmed \cup {<<Head(done), turn>>}
    BY <1>3 DEF AnswerYes
  <2> QED
    BY <2>1 DEF ChatInv, Within
<1>4. CASE AnswerNo
  <2>1. /\ UNCHANGED <<git, turn, mode>> /\ asked' = asked \cup {Head(done)}
        /\ done' = Tail(done) /\ done # <<>> /\ agreed' = FALSE /\ mode = "chat"
    BY <1>4 DEF AnswerNo, MovesOn, AtQuestion
  <2>2. ASSUME NEW r \in GitDirs, git[r].content[turn] # {}
        PROVE  r \in asked' \/ Within(r, done')
    <3>1. r \in asked \/ Within(r, done)
      BY <2>1, <2>2 DEF ChatInv
    <3> QED
      BY <1>0, <2>1, <3>1, WithinParts
  <2> QED
    BY <2>1, <2>2 DEF ChatInv, Within
<1>5. CASE Finish
  <2>1. mode' = "idle" /\ ~agreed
    BY <1>5, AnswersAre DEF Finish
  <2>2. ~agreed'
    BY <1>5, <2>1 DEF Finish
  <2> QED
    BY <2>1, <2>2 DEF ChatInv
<1>6. CASE UserActs
  <2>1. mode = "idle" /\ mode' = mode /\ (agreed' <=> agreed)
    BY <1>6, UserDoes DEF progress
  <2>2. ~agreed'
    BY <2>1 DEF BatchInv
  <2> QED
    BY <2>1, <2>2 DEF ChatInv
<1>7. ASSUME NEW m \in Modes, NEW files \in ChangeSets, Deliver(m, files)
      PROVE  ChatInv'
  <2>1. /\ ~agreed' /\ turn' = turn + 1 /\ turn' \in Turns /\ turn \in Nat
        /\ \A r \in GitDirs : git'[r].content = git[r].content
    BY <1>7, DeliverDoes
  <2>2. \A r \in GitDirs : git'[r].content[turn'] = {}
    BY <2>1 DEF ContentInv
  <2> QED
    BY <2>1, <2>2 DEF ChatInv
<1> QED
  BY <1>1, <1>2, <1>3, <1>4, <1>5, <1>6, <1>7

-----------------------------------------------------------------------------
LEMMA InvInit ==
  ASSUME Init
  PROVE  Inv
<1>1. PICK head \in {Base, Start} :
        git = [r \in GitDirs |->
                 [head     |-> head,
                  branches |-> {Base, Start},
                  tips     |-> [b \in Branches |-> CASE b = Start -> {Start}
                                                    [] b = Base  -> {Ahead}
                                                    [] OTHER     -> {}],
                  content  |-> [t \in Turns |-> {}],
                  modified |-> {}, staged |-> {}, merging |-> {}]]
  BY DEF Init
<1>2. /\ turn = 0 /\ mode = "idle" /\ todo = <<>> /\ done = <<>> /\ step = 1
      /\ agreed = FALSE /\ pulls = {} /\ reported = {} /\ failed = {}
      /\ asked = {} /\ confirmed = {}
      /\ remote = [r \in GitDirs |-> [b \in Branches |-> {}]]
      /\ edits = [t \in Turns |-> {}] /\ found = [r \in GitDirs |-> {}]
  BY DEF Init
<1>3. [b \in Branches |-> CASE b = Start -> {Start}
                            [] b = Base  -> {Ahead}
                            [] OTHER     -> {}] \in [Branches -> SUBSET Commits]
  BY TurnsAreBranches
<1>4. git \in [GitDirs -> Repositories]
  <2>1. head \in Branches /\ {Base, Start} \subseteq Branches
    BY TurnsAreBranches
  <2> QED
    BY <1>1, <1>3, <2>1 DEF Repositories
<1>5. PlaceTyped
  <2>1. turn \in 0..MaxTurns
    BY <1>2, DeliveryAssumption
  <2>2. 1 \in 1..Len(MergeCommands)
    BY DEF MergeCommands
  <2>3. <<>> \in Seq(GitDirs) /\ FALSE \in BOOLEAN
    OBVIOUS
  <2>4. step \in IF todo # <<>> THEN 1..Len(Commands) ELSE 1..Len(MergeCommands)
    BY <1>2, <2>2
  <2> QED
    BY <1>2, <2>1, <2>3, <2>4 DEF PlaceTyped
<1>6. HistoryTyped
  BY <1>2 DEF HistoryTyped
<1>7. RemoteTyped
  BY <1>2 DEF RemoteTyped
<1>8. TypeOK
  BY <1>4, <1>5, <1>6, <1>7, TypeParts
<1>9. BatchInv
  BY <1>2 DEF BatchInv
<1>10. \A r \in GitDirs, t \in Turns : git[r].content[t] = {}
  BY <1>1
<1>11. StagedInv
  BY <1>2 DEF StagedInv, Awaits, Within
<1>12. ContentInv
  BY <1>2, <1>10 DEF ContentInv, CommitIsIndexPlusExecution, InnerIsCommittedFirst
<1>13. BranchInv
  BY <1>2 DEF BranchInv, HeadsInv, PullsInv, NextIs
<1>14. ChatInv
  BY <1>2 DEF ChatInv
<1> QED
  BY <1>8, <1>9, <1>11, <1>12, <1>13, <1>14 DEF Inv

LEMMA InvNext ==
  ASSUME Inv, [Next]_vars
  PROVE  Inv'
<1> USE DEF Inv
<1>1. CASE CheckoutNew \/ Add \/ Commit \/ Push \/ OpenPull
  <2>1. TypeOK' /\ BatchInv'
    <3>1. /\ PlaceTyped' /\ BatchInv' /\ HistoryTyped' /\ RemoteTyped'
          /\ git' \in [GitDirs -> Repositories]
      BY <1>1, CheckoutNewDoes, AddDoes, CommitDoes, PushDoes, OpenPullDoes DEF InTodo
    <3> QED
      BY <3>1 DEF TypeOK, PlaceTyped, HistoryTyped, RemoteTyped
  <2>2. StagedInv' /\ ContentInv'
    BY <1>1, CommandKeepsStagedInv, CommandKeepsContentInv
  <2>3. BranchInv' /\ ChatInv'
    BY <1>1, CommandKeepsHeadsInv, CommandKeepsPullsInv, CommandKeepsChatInv DEF BranchInv
  <2> QED
    BY <2>1, <2>2, <2>3
<1>2. CASE \/ CheckoutBase \/ Merge \/ DeleteBranch
           \/ CommandFails \/ MergeConflicts \/ PromptFails
           \/ AnswerYes \/ AnswerNo \/ Finish \/ UserActs
  <2>1. TypeOK' /\ BatchInv'
    <3>1. CASE CheckoutBase \/ Merge \/ DeleteBranch
      <4>1. /\ PlaceTyped' /\ BatchInv' /\ HistoryTyped' /\ RemoteTyped'
            /\ git' \in [GitDirs -> Repositories]
        BY <3>1, CheckoutBaseDoes, MergeDoes, DeleteBranchDoes DEF InDone
      <4> QED
        BY <4>1 DEF TypeOK, PlaceTyped, HistoryTyped, RemoteTyped
    <3>2. CASE CommandFails \/ MergeConflicts \/ PromptFails
      <4>1. /\ PlaceTyped' /\ BatchInv' /\ HistoryTyped' /\ RemoteTyped'
            /\ git' \in [GitDirs -> Repositories]
        BY <3>2, FailureDoes
      <4> QED
        BY <4>1 DEF TypeOK, PlaceTyped, HistoryTyped, RemoteTyped
    <3>3. CASE AnswerYes \/ AnswerNo \/ Finish
      <4>1. /\ PlaceTyped' /\ BatchInv' /\ HistoryTyped' /\ RemoteTyped'
            /\ git' \in [GitDirs -> Repositories]
        BY <3>3, AnswersAre DEF TypeOK
      <4> QED
        BY <4>1 DEF TypeOK, PlaceTyped, HistoryTyped, RemoteTyped
    <3>4. CASE UserActs
      <4>1. /\ UNCHANGED progress /\ UNCHANGED <<remote, pulls, history>>
            /\ git' \in [GitDirs -> Repositories]
        BY <3>4, UserDoes
      <4>2. /\ UNCHANGED <<turn, mode, todo, done, step, failed>> /\ (agreed' <=> agreed)
            /\ agreed' \in BOOLEAN
        BY <4>1 DEF progress, history, TypeOK
      <4>3. PlaceTyped'
        BY <4>2, TypeParts DEF PlaceTyped, Commands, MergeCommands
      <4>4. HistoryTyped' /\ RemoteTyped'
        BY <4>1, TypeParts DEF HistoryTyped, RemoteTyped, history
      <4>5. BatchInv'
        BY <4>2 DEF BatchInv
      <4> QED
        BY <4>1, <4>3, <4>4, <4>5 DEF TypeOK, PlaceTyped, HistoryTyped, RemoteTyped
    <3> QED
      BY <1>2, <3>1, <3>2, <3>3, <3>4
  <2>2. StagedInv' /\ ContentInv'
    BY <1>2, RestKeepsStagedInv, RestKeepsContentInv
  <2>3. BranchInv' /\ ChatInv'
    BY <1>2, RestKeepsHeadsInv, RestKeepsPullsInv, RestKeepsChatInv DEF BranchInv
  <2> QED
    BY <2>1, <2>2, <2>3
<1>3. ASSUME NEW m \in Modes, NEW files \in ChangeSets, Deliver(m, files)
      PROVE  Inv'
  <2>1. TypeOK' /\ BatchInv'
    <3>1. /\ PlaceTyped' /\ BatchInv' /\ HistoryTyped' /\ RemoteTyped'
          /\ git' \in [GitDirs -> Repositories]
      BY <1>3, DeliverDoes
    <3> QED
      BY <3>1 DEF TypeOK, PlaceTyped, HistoryTyped, RemoteTyped
  <2>2. StagedInv' /\ ContentInv'
    BY <1>3, RestKeepsStagedInv, DeliverKeepsContentInv
  <2>3. BranchInv' /\ ChatInv'
    BY <1>3, RestKeepsHeadsInv, RestKeepsPullsInv, RestKeepsChatInv DEF BranchInv
  <2> QED
    BY <2>1, <2>2, <2>3
<1>4. CASE UNCHANGED vars
  <2>1. /\ UNCHANGED <<git, turn, mode, todo, done, step, remote, pulls,
                       edits, found, reported, failed, asked, confirmed>>
        /\ (agreed' <=> agreed) /\ agreed' \in BOOLEAN
    BY <1>4 DEF vars, TypeOK
  <2>2. Commands' = Commands /\ MergeCommands' = MergeCommands
    BY <2>1 DEF Commands, MergeCommands
  <2>3. TypeOK'
    BY <2>1, <2>2 DEF TypeOK
  <2>4. BatchInv'
    BY <2>1 DEF BatchInv
  <2>5. StagedInv'
    BY <2>1, <2>2 DEF StagedInv, Staging, Awaits, NextIs, Within
  <2>6. ContentInv'
    BY <2>1, <2>2 DEF ContentInv, Awaits, Holds, NextIs, Within,
                      CommitIsIndexPlusExecution, InnerIsCommittedFirst
  <2>7. BranchInv'
    BY <2>1, <2>2 DEF BranchInv, HeadsInv, PullsInv, NextIs, Within
  <2>8. ChatInv'
    BY <2>1 DEF ChatInv, Within
  <2> QED
    BY <2>3, <2>4, <2>5, <2>6, <2>7, <2>8
<1> QED
  BY <1>1, <1>2, <1>3, <1>4 DEF Next, Step, UserActs

LEMMA InvHolds == Spec => []Inv
<1> QED
  BY InvInit, InvNext, PTL DEF Spec

-----------------------------------------------------------------------------
(* Theorem: the types of the variables.  A repository is always in one of  *)
(* the states that its commands leave, the batch is a sequence of          *)
(* repositories, and the command that is next is one of the current list.  *)
THEOREM TypeIsCorrect == Spec => []TypeOK
<1>1. Inv => TypeOK
  BY DEF Inv
<1> QED
  BY <1>1, InvHolds, PTL

(* Theorem: a pull request is only opened for a branch that the remote     *)
(* has, with the execution's commit on it, whichever command fails         *)
(* (create_from_execution pushes before it runs `gh pr create`).              *)
THEOREM PullRequestsAreAlwaysPushed == Spec => []PullRequestsArePushed
<1>1. Inv => PullRequestsArePushed
  BY DEF Inv, BranchInv, PullsInv, PullRequestsArePushed
<1> QED
  BY <1>1, InvHolds, PTL

(* Theorem: a commit takes the execution's files in its repository and     *)
(* what lay in the index when the delivery began, staged by the user or    *)
(* left there by a delivery that failed, and nothing else that differs     *)
(* from HEAD (commit_to_new_branch adds the group's files by name, and     *)
(* `git commit` takes the whole index).                                    *)
THEOREM CommitIsAlwaysIndexPlusExecution == Spec => []CommitIsIndexPlusExecution
<1>1. Inv => CommitIsIndexPlusExecution
  BY DEF Inv, ContentInv
<1> QED
  BY <1>1, InvHolds, PTL

(* Theorem: while a repository commits, no repository inside it has files  *)
(* of the same execution left to commit (group_by_repo sorts the groups    *)
(* deepest first).                                                         *)
THEOREM InnerIsAlwaysCommittedFirst == Spec => []InnerIsCommittedFirst
<1>1. Inv => InnerIsCommittedFirst
  BY DEF Inv, ContentInv
<1> QED
  BY <1>1, InvHolds, PTL

(* Theorem: when a delivery ends without an error, every file of the       *)
(* execution is in a commit of the innermost repository it lies in, or is  *)
(* reported as lying in none (nearest_repo_root, group_by_repo).           *)
THEOREM EveryFileIsAlwaysAccountedFor == Spec => []EveryFileIsAccountedFor
<1>1. ASSUME Inv
      PROVE  EveryFileIsAccountedFor
  <2> SUFFICES ASSUME NEW t \in (1..turn) \ failed, t < turn \/ mode = "idle",
                      NEW f \in edits[t]
               PROVE  LET repos == Around(DirOf[f])
                      IN IF repos = {} THEN t = turn => f \in reported
                         ELSE \E r \in repos :
                                /\ f \in git[r].content[t]
                                /\ \A s \in repos : Len(s) <= Len(r)
    BY DEF EveryFileIsAccountedFor
  <2>1. /\ \A r \in GitDirs : Owned(r, edits[t]) \subseteq git[r].content[t]
        /\ t = turn => Owned(NoRepo, edits[t]) \subseteq reported
    BY <1>1 DEF Inv, ContentInv, Holds
  <2>2. t \in Turns
    BY <1>1, DeliveryAssumption DEF Inv, TypeOK, Turns
  <2>3. f \in Files /\ DirOf[f] \in Dirs
    BY <1>1, <2>2, DeliveryAssumption DEF Inv, TypeOK
  <2>4. f \in Owned(Innermost(DirOf[f]), edits[t])
    BY <2>3, NearestIsInnermost DEF Owned
  <2>5. CASE Around(DirOf[f]) = {}
    BY <2>1, <2>4, <2>5 DEF Innermost
  <2>6. CASE Around(DirOf[f]) # {}
    <3>1. \E r \in Around(DirOf[f]) : \A s \in Around(DirOf[f]) : Len(s) <= Len(r)
      BY <2>3, <2>6, InnermostExists
    <3>2. PICK r \in Around(DirOf[f]) : /\ r = Innermost(DirOf[f])
                                        /\ \A s \in Around(DirOf[f]) : Len(s) <= Len(r)
      BY <2>6, <3>1 DEF Innermost
    <3>3. r \in GitDirs
      BY <2>3, AroundLen
    <3>4. f \in git[r].content[t]
      BY <2>1, <2>4, <3>2, <3>3
    <3> QED
      BY <2>6, <3>2, <3>4
  <2> QED
    BY <2>5, <2>6
<1> QED
  BY <1>1, InvHolds, PTL

\* What a step does to the base branches.
BaseMoves ==
  \A r \in GitDirs :
    (git'[r].tips[Base] # git[r].tips[Base] /\ mode = "chat") => <<r, turn>> \in confirmed

LEMMA StepMovesBaseOnYes ==
  ASSUME Inv, Next
  PROVE  BaseMoves
<1> USE DEF Inv
<1>1. ASSUME NEW h \in GitDirs
      PROVE  /\ git[h] \in Repositories /\ git[h].head \in Branches
             /\ git[h].tips \in [Branches -> SUBSET Commits]
  BY RepositoryFields
<1>2. CASE CheckoutNew \/ Add \/ Push \/ OpenPull
  <2>1. Head(todo) \in GitDirs /\ turn \in Turns
    BY <1>2, CheckoutNewDoes, AddDoes, PushDoes, OpenPullDoes DEF InTodo
  <2> DEFINE g      == git[Head(todo)]
             tips   == [g.tips EXCEPT ![turn] = g.tips[g.head]]
             new    == [g EXCEPT !.head = turn, !.branches = @ \cup {turn},
                                 !.tips[turn] = g.tips[g.head]]
             staged == [g EXCEPT !.staged = @ \cup Owned(Head(todo), edits[turn])]
  <2>2. tips[Base] = g.tips[Base]
    BY <1>1, <2>1, TurnsAreBranches
  <2>3. new.tips = tips /\ staged.tips = g.tips
    BY <1>1, <2>1 DEF Repositories
  <2>4. \/ InTodo("checkout", new) \/ InTodo("add", staged)
        \/ InTodo("push", g) \/ InTodo("pr", g)
    BY <1>2, CheckoutNewDoes, AddDoes, PushDoes, OpenPullDoes
  <2> HIDE DEF new, staged, tips
  <2> QED
    BY <2>2, <2>3, <2>4 DEF InTodo, BaseMoves
<1>3. CASE Commit
  <2>1. PICK h \in GitDirs : h = Head(todo)
    BY <1>3, CommitDoes
  <2>2. /\ \A r \in GitDirs \ {h} : git'[r].tips = git[r].tips
        /\ git'[h].tips = [git[h].tips EXCEPT ![git[h].head] = @ \cup {turn}]
        /\ todo # <<>> /\ Commands[step] = "commit" /\ turn \in Turns
    BY <1>3, <2>1, CommitDoes
  <2>3. mode = "chat" => git[h].head = turn
    BY <2>1, <2>2 DEF BranchInv, HeadsInv, NextIs
  <2>4. mode = "chat" => git'[h].tips[Base] = git[h].tips[Base]
    BY <1>1, <2>2, <2>3, TurnsAreBranches
  <2> QED
    BY <2>2, <2>4 DEF BaseMoves
<1>4. CASE Merge
  <2>1. /\ agreed
        /\ \A r \in GitDirs : r # Head(done) => git'[r] = git[r]
    BY <1>4, MergeDoes DEF InDone
  <2>2. <<Head(done), turn>> \in confirmed
    BY <2>1 DEF ChatInv
  <2> QED
    BY <2>1, <2>2 DEF BaseMoves
<1>5. CASE CheckoutBase \/ DeleteBranch
  <2>1. Head(done) \in GitDirs /\ turn \in Turns
    BY <1>5, CheckoutBaseDoes, DeleteBranchDoes DEF InDone
  <2> DEFINE g    == git[Head(done)]
             tips == [g.tips EXCEPT ![turn] = {}]
             base == [g EXCEPT !.head = Base]
             less == [g EXCEPT !.branches = @ \ {turn}, !.tips[turn] = {}]
  <2>2. tips[Base] = g.tips[Base]
    BY <1>1, <2>1, TurnsAreBranches
  <2>3. base.tips = g.tips /\ less.tips = tips
    BY <1>1, <2>1 DEF Repositories
  <2>4. InDone(base) \/ InDone(less)
    BY <1>5, CheckoutBaseDoes, DeleteBranchDoes
  <2> HIDE DEF tips, base, less
  <2> QED
    BY <2>2, <2>3, <2>4 DEF InDone, BaseMoves
<1>6. CASE CommandFails \/ MergeConflicts \/ PromptFails
  BY <1>6, FailureDoes DEF BaseMoves
<1>7. CASE AnswerYes \/ AnswerNo \/ Finish
  BY <1>7, AnswersAre DEF BaseMoves
<1>8. CASE UserActs
  BY <1>8, UserDoes DEF BaseMoves
<1>9. ASSUME NEW m \in Modes, NEW files \in ChangeSets, Deliver(m, files)
      PROVE  BaseMoves
  BY <1>9, DeliverDoes DEF BaseMoves
<1> QED
  BY <1>2, <1>3, <1>4, <1>5, <1>6, <1>7, <1>8, <1>9 DEF Next, Step, UserActs

(* Theorem: ksforge changes what a base branch points at only by the merge *)
(* of an execution that was answered with yes: a chat commits on its own   *)
(* branch, and merges where the question was confirmed.                    *)
THEOREM BaseMovesOnlyOnYes == Spec => BaseMovesOnYes
<1>1. Inv /\ [Next]_vars => [BaseMoves]_git
  BY StepMovesBaseOnYes DEF vars
<1> QED
  BY <1>1, InvHolds, PTL DEF Spec, BaseMovesOnYes, BaseMoves

\* What the end of a chat's delivery leaves behind.
AsksFirst ==
  (mode = "chat" /\ mode' = "idle" /\ turn \notin failed') =>
    \A r \in GitDirs : git[r].content[turn] # {} => r \in asked

LEMMA StepAsksFirst ==
  ASSUME Inv, Next
  PROVE  AsksFirst
<1> USE DEF Inv
<1>1. CASE CheckoutNew \/ Add \/ Commit \/ Push \/ OpenPull
  <2>1. mode' = mode
    BY <1>1, CheckoutNewDoes, AddDoes, CommitDoes, PushDoes, OpenPullDoes
       DEF InTodo, WorkProceeds
  <2> QED
    BY <2>1 DEF AsksFirst
<1>2. CASE CheckoutBase \/ Merge \/ DeleteBranch
  <2>1. mode' = mode
    BY <1>2, CheckoutBaseDoes, MergeDoes, DeleteBranchDoes DEF InDone, MergeProceeds
  <2> QED
    BY <2>1 DEF AsksFirst
<1>3. CASE CommandFails \/ MergeConflicts \/ PromptFails
  BY <1>3, FailureDoes DEF AsksFirst
<1>4. CASE AnswerYes \/ AnswerNo
  BY <1>4 DEF AnswerYes, AnswerNo, AsksFirst
<1>5. CASE Finish
  <2>1. mode = "chat" => done = <<>>
    BY <1>5 DEF Finish
  <2>2. \A r \in GitDirs : ~Within(r, <<>>)
    BY WithinParts DEF TypeOK
  <2> QED
    BY <2>1, <2>2 DEF AsksFirst, ChatInv
<1>6. CASE UserActs
  BY <1>6, UserDoes DEF AsksFirst
<1>7. ASSUME NEW m \in Modes, NEW files \in ChangeSets, Deliver(m, files)
      PROVE  AsksFirst
  BY <1>7, DeliverDoes DEF AsksFirst
<1> QED
  BY <1>1, <1>2, <1>3, <1>4, <1>5, <1>6, <1>7 DEF Next, Step, UserActs

(* Theorem: a chat asks about every repository it has committed in,        *)
(* whatever was answered for the others, unless a command failed.          *)
THEOREM EveryCommitIsAlwaysAskedAbout == Spec => EveryCommitIsAskedAbout
<1>1. Inv /\ [Next]_vars => [AsksFirst]_mode
  BY StepAsksFirst DEF vars
<1> QED
  BY <1>1, InvHolds, PTL DEF Spec, EveryCommitIsAskedAbout, AsksFirst
=============================================================================

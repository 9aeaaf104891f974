------------------------------- MODULE Delivery -------------------------------
(***************************************************************************)
(* What becomes of the files a completed execution has changed             *)
(* (github/pull_request.rs, github/repo.rs, the end of a turn in           *)
(* cli/chat.rs): they are grouped by the git repository that owns each,    *)
(* and in one repository after the other committed and then                *)
(*   - merged back after a question      ("chat": ksforge chat),           *)
(*   - pushed and opened as a PR         ("pr": --create-pull-request),    *)
(*   - pushed to the branch checked out  ("follow-up": --push-to-branch).  *)
(*                                                                         *)
(* An action is one git or gh command.  Any of them may fail, and the      *)
(* failure leaves the whole delivery by `?`, what was done until then      *)
(* staying as it is.  git itself is modelled by what these commands do to  *)
(* HEAD, the branches, the index and the working tree.                     *)
(*                                                                         *)
(* An operator marked "mutant" is a plausible bug in the one after it.     *)
(***************************************************************************)
EXTENDS Naturals, Sequences, FiniteSets

CONSTANTS
  Names,      \* names of directories
  Dirs,       \* directories of the workspace: paths from its root, <<>>
  GitDirs,    \* directories that hold a .git entry: the repositories
  NoRepo,     \* nearest_repo_root = None
  Files,      \* files of the workspace
  DirOf,      \* the directory of each file
  ChangeSets, \* sets of files that an execution may change
  Modes,      \* the ways of delivery to consider
  MayFail,    \* whether a command may fail that need not
  MaxTurns    \* bound: executions delivered

Root == <<>>
Parent(d) == SubSeq(d, 1, Len(d) - 1)

ASSUME DeliveryAssumption ==
  /\ Dirs \subseteq Seq(Names) /\ Root \in Dirs
  /\ \A d \in Dirs \ {Root} : Parent(d) \in Dirs
  /\ GitDirs \subseteq Dirs /\ IsFiniteSet(GitDirs)
  /\ NoRepo \notin Dirs
  /\ DirOf \in [Files -> Dirs]
  /\ ChangeSets \subseteq SUBSET Files
  /\ Modes \subseteq {"chat", "pr", "follow-up"}
  /\ MayFail \in BOOLEAN
  /\ MaxTurns \in Nat

\* An execution is known by its turn; its branch and its commit in a
\* repository have the same number (the branch is named after its id).
Turns == 1..MaxTurns
Base  == 0               \* the branch --base-branch
Start == MaxTurns + 1    \* a branch of the user's, with a commit of its own
Ahead == MaxTurns + 2    \* a commit of the base branch that Start does not have

Branches == 0..MaxTurns + 1
Commits  == Turns \cup {Start, Ahead}

\* What a commit can hold: files, and the link to a repository further in.
Paths == Files \cup GitDirs

Repositories ==
  [head     : Branches,
   branches : SUBSET Branches,              \* those that exist
   tips     : [Branches -> SUBSET Commits], \* the commits each one contains
   content  : [Turns -> SUBSET Paths],      \* what each commit holds
   modified : SUBSET Paths,                 \* differs from HEAD
   staged   : SUBSET Paths,
   merging  : SUBSET Commits]               \* of a merge stopped by a conflict

VARIABLES
  git,        \* the repositories
  turn,       \* executions delivered so far, the current one included
  mode,       \* how the current one is delivered, "idle" between two
  todo,       \* repositories left to commit in
  done,       \* repositories committed in: the batch that is returned
  step,       \* number of the next command in the current repository
  agreed,     \* whether the merge of the first of `done` was confirmed
  remote,     \* branches pushed: the commits the remote has for each
  pulls,      \* pull requests opened: <<repository, branch>>
  (* History, for the properties only. *)
  edits,      \* the files each execution changed
  reported,   \* files of the current one named as belonging to no repository
  found,      \* the index of each repository as the current one found it
  failed,     \* the executions whose delivery an error ended
  asked,      \* repositories whose merge the current one was asked about
  confirmed   \* <<repository, turn>> answered with yes

vars == <<git, turn, mode, todo, done, step, agreed, remote, pulls,
          edits, found, reported, failed, asked, confirmed>>

\* The commands run in each repository.
PullThenPush == <<"checkout", "add", "commit", "pr", "push">>   \* mutant
PullRequestCommands == <<"checkout", "add", "commit", "push", "pr">>

Commands ==
  CASE mode = "chat"      -> <<"checkout", "add", "commit">>
    [] mode = "pr"        -> PullRequestCommands
    [] mode = "follow-up" -> <<"add", "commit", "push">>

MergeCommands == <<"checkout base", "merge", "delete">>

Deeds == GitDirs \X Turns

TypeOK ==
  /\ git \in [GitDirs -> Repositories]
  /\ turn \in 0..MaxTurns
  /\ mode \in Modes \cup {"idle"}
  /\ todo \in Seq(GitDirs) /\ done \in Seq(GitDirs)
  /\ step \in IF todo # <<>> THEN 1..Len(Commands) ELSE 1..Len(MergeCommands)
  /\ agreed \in BOOLEAN
  /\ remote \in [GitDirs -> [Branches -> SUBSET Commits]]
  /\ pulls \subseteq Deeds
  /\ edits \in [Turns -> SUBSET Files]
  /\ found \in [GitDirs -> SUBSET Paths]
  /\ reported \subseteq Files
  /\ failed \subseteq Turns
  /\ asked \subseteq GitDirs
  /\ confirmed \subseteq Deeds

Init ==
  /\ \E head \in {Base, Start} :
       git = [r \in GitDirs |->
                [head     |-> head,
                 branches |-> {Base, Start},
                 tips     |-> [b \in Branches |-> CASE b = Start -> {Start}
                                                   [] b = Base  -> {Ahead}
                                                   [] OTHER     -> {}],
                 content  |-> [t \in Turns |-> {}],
                 modified |-> {}, staged |-> {}, merging |-> {}]]
  /\ turn = 0 /\ mode = "idle"
  /\ todo = <<>> /\ done = <<>> /\ step = 1 /\ agreed = FALSE
  /\ remote = [r \in GitDirs |-> [b \in Branches |-> {}]]
  /\ pulls = {}
  /\ edits = [t \in Turns |-> {}] /\ found = [r \in GitDirs |-> {}]
  /\ reported = {} /\ failed = {} /\ asked = {} /\ confirmed = {}

history  == <<edits, found, reported, failed, asked, confirmed>>
progress == <<turn, mode, todo, done, step, agreed>>

-----------------------------------------------------------------------------
(* nearest_repo_root and group_by_repo. *)

NotWalkedUp == [d \in Dirs |-> IF d \in GitDirs THEN d ELSE NoRepo]     \* mutant
Nearest ==
  LET repo[d \in Dirs] == IF d \in GitDirs THEN d
                          ELSE IF d = Root THEN NoRepo
                          ELSE repo[Parent(d)]
  IN repo

Owned(r, files) == {f \in files : Nearest[DirOf[f]] = r}

Orders(repos) ==
  {order \in [1..Cardinality(repos) -> repos] :
     \A i, j \in 1..Cardinality(repos) : order[i] = order[j] => i = j}

\* By the number of components of the path.  (In which order repositories of
\* the same depth come is left open.)
OutermostFirst(repos) ==                                               \* mutant
  {order \in Orders(repos) :
     \A i, j \in DOMAIN order : i < j => Len(order[i]) <= Len(order[j])}
InnermostFirst(repos) ==
  {order \in Orders(repos) :
     \A i, j \in DOMAIN order : i < j => Len(order[i]) >= Len(order[j])}

\* The repository around r, whose working tree has r as one path.
Enclosing(r) == IF r = Root THEN NoRepo ELSE Nearest[Parent(r)]

-----------------------------------------------------------------------------
\* An execution completes with changed files and is delivered.
Deliver(m, files) ==
  /\ mode = "idle"
  /\ turn < MaxTurns
  /\ files # {}
  /\ turn' = turn + 1
  /\ mode' = m
  /\ edits' = [edits EXCEPT ![turn'] = files]
  /\ found' = [r \in GitDirs |-> git[r].staged]
  /\ git' = [r \in GitDirs |-> [git[r] EXCEPT !.modified = @ \cup Owned(r, files)]]
  /\ todo' \in InnermostFirst({r \in GitDirs : Owned(r, files) # {}})
  /\ done' = <<>>
  /\ step' = 1
  /\ reported' = {} /\ asked' = {}
  /\ UNCHANGED <<agreed, remote, pulls, failed, confirmed>>

\* The next command, and the repository it runs in.
Repo == IF todo # <<>> THEN Head(todo) ELSE Head(done)

Running(command) ==
  \/ todo # <<>> /\ Commands[step] = command
  \/ todo = <<>> /\ agreed /\ MergeCommands[step] = command

AtTheLast(commands) == step = Len(commands)

\* After a command has succeeded: the next one, in the next repository after
\* the last.
Proceed ==
  \/ /\ todo # <<>> /\ ~AtTheLast(Commands)
     /\ step' = step + 1
     /\ UNCHANGED <<turn, mode, todo, done, agreed>>
  \/ /\ todo # <<>> /\ AtTheLast(Commands)
     /\ step' = 1
     /\ todo' = Tail(todo) /\ done' = Append(done, Head(todo))
     /\ UNCHANGED <<turn, mode, agreed>>
  \/ /\ todo = <<>> /\ ~AtTheLast(MergeCommands)
     /\ step' = step + 1
     /\ UNCHANGED <<turn, mode, todo, done, agreed>>
  \/ /\ todo = <<>> /\ AtTheLast(MergeCommands)
     /\ step' = 1
     /\ done' = Tail(done) /\ agreed' = FALSE
     /\ UNCHANGED <<turn, mode, todo>>

Now(repository) == git' = [git EXCEPT ![Repo] = repository]

\* `?`: nothing after the failed command happens.
EndsInError ==
  /\ failed' = failed \cup {turn}
  /\ mode' = "idle"
  /\ todo' = <<>> /\ done' = <<>> /\ step' = 1 /\ agreed' = FALSE
  /\ UNCHANGED <<turn, remote, pulls, edits, found, reported, asked, confirmed>>

-----------------------------------------------------------------------------
(* The commands, where they succeed. *)

\* git checkout -b ksforge/<id>: from HEAD, whatever that is.
CheckoutNew ==
  /\ Running("checkout")
  /\ git[Repo].merging = {}
  /\ Now([git[Repo] EXCEPT !.head = turn,
                           !.branches = @ \cup {turn},
                           !.tips[turn] = git[Repo].tips[git[Repo].head]])
  /\ Proceed
  /\ UNCHANGED <<remote, pulls, history>>

Everything(files) == git[Repo].modified    \* mutant
Named(files)      == files

\* git add -- <the group's files>
Add ==
  /\ Running("add")
  /\ Now([git[Repo] EXCEPT !.staged = @ \cup Named(Owned(Repo, edits[turn]))])
  /\ Proceed
  /\ UNCHANGED <<remote, pulls, history>>

\* git commit: the whole index; to the repository around, the path of this
\* one differs from then on.
Commit ==
  /\ Running("commit")
  /\ git[Repo].merging = {} /\ git[Repo].staged # {}
  /\ LET g     == git[Repo]
         after == [g EXCEPT !.tips[g.head] = @ \cup {turn},
                            !.content[turn] = g.staged,
                            !.modified = @ \ g.staged,
                            !.staged = {}]
     IN git' = [r \in GitDirs |->
                  IF r = Repo THEN after
                  ELSE IF r = Enclosing(Repo)
                    THEN [git[r] EXCEPT !.modified = @ \cup {Repo}]
                  ELSE git[r]]
  /\ Proceed
  /\ UNCHANGED <<remote, pulls, history>>

\* git push [-u origin <branch>]
Push ==
  /\ Running("push")
  /\ remote' = [remote EXCEPT ![Repo][git[Repo].head] = git[Repo].tips[git[Repo].head]]
  /\ Proceed
  /\ UNCHANGED <<git, pulls, history>>

\* gh pr create
OpenPull ==
  /\ Running("pr")
  /\ pulls' = pulls \cup {<<Repo, turn>>}
  /\ Proceed
  /\ UNCHANGED <<git, remote, history>>

CheckoutBase ==
  /\ Running("checkout base")
  /\ Now([git[Repo] EXCEPT !.head = Base])
  /\ Proceed
  /\ UNCHANGED <<remote, pulls, history>>

\* git merge --no-ff <branch>
Merge ==
  /\ Running("merge")
  /\ Now([git[Repo] EXCEPT !.tips[Base] = @ \cup git[Repo].tips[turn]])
  /\ Proceed
  /\ UNCHANGED <<remote, pulls, history>>

\* git branch -d <branch>, which refuses a branch that HEAD does not contain.
DeleteBranch ==
  /\ Running("delete")
  /\ git[Repo].tips[turn] \subseteq git[Repo].tips[git[Repo].head]
  /\ Now([git[Repo] EXCEPT !.branches = @ \ {turn}, !.tips[turn] = {}])
  /\ Proceed
  /\ UNCHANGED <<remote, pulls, history>>

-----------------------------------------------------------------------------
(* Where they fail. *)

AllCommands == {"checkout", "add", "commit", "push", "pr",
                "checkout base", "merge", "delete"}

\* A hook, a lock, a missing identity, the network, edits in the way; and
\* git refuses to leave or to commit an unfinished merge.
CommandFails ==
  /\ \E command \in AllCommands : Running(command)
  /\ MayFail \/ git[Repo].merging # {}
  /\ EndsInError
  /\ UNCHANGED git

\* The base branch has commits of its own, and they conflict.
MergeConflicts ==
  /\ Running("merge")
  /\ ~(git[Repo].tips[Base] \subseteq git[Repo].tips[turn])
  /\ Now([git[Repo] EXCEPT !.merging = git[Repo].tips[turn]])
  /\ EndsInError

-----------------------------------------------------------------------------
(* After the commits. *)

\* The chat asks about the first repository of the batch; an end of input
\* is a no.
AtQuestion == mode = "chat" /\ todo = <<>> /\ done # <<>> /\ ~agreed

AnswerYes ==
  /\ AtQuestion
  /\ agreed' = TRUE
  /\ asked' = asked \cup {Head(done)}
  /\ confirmed' = confirmed \cup {<<Head(done), turn>>}
  /\ UNCHANGED <<git, turn, mode, todo, done, step, remote, pulls,
                 edits, found, reported, failed>>

GoesAhead == agreed' = TRUE /\ done' = done          \* mutant
LetsItBe  == agreed' = FALSE /\ done' = <<>>         \* mutant
MovesOn   == agreed' = FALSE /\ done' = Tail(done)

AnswerNo ==
  /\ AtQuestion
  /\ MovesOn
  /\ asked' = asked \cup {Head(done)}
  /\ UNCHANGED <<git, turn, mode, todo, step, remote, pulls,
                 edits, found, reported, failed, confirmed>>

\* Standard input cannot be read: the error leaves the chat, past the rest of
\* the batch.
PromptFails ==
  /\ AtQuestion
  /\ MayFail
  /\ EndsInError
  /\ UNCHANGED git

\* The batch is printed and the delivery is over.
Finish ==
  /\ mode # "idle"
  /\ todo = <<>>
  /\ mode = "chat" => done = <<>>
  /\ reported' = Owned(NoRepo, edits[turn])
  /\ mode' = "idle"
  /\ done' = <<>>
  /\ UNCHANGED <<git, turn, todo, step, agreed, remote, pulls,
                 edits, found, failed, asked, confirmed>>

-----------------------------------------------------------------------------
(* What the user does in a repository between two executions.              *)

\* (Bound: before the last delivery, which no later one could follow.)
BetweenTwo == mode = "idle" /\ turn < MaxTurns

\* (Bound: while no file of the workspace differs from its HEAD.)
UserEdits(r, f) ==
  /\ BetweenTwo
  /\ \A s \in GitDirs : git[s].modified \cap Files = {}
  /\ git' = [git EXCEPT ![r].modified = @ \cup {f}]
  /\ UNCHANGED <<progress, remote, pulls, history>>

\* git add, of a file or of the link to a repository further in.  (Bound:
\* while nothing is staged.)
UserStages(r, p) ==
  /\ BetweenTwo
  /\ \A s \in GitDirs : git[s].staged = {}
  /\ p \in git[r].modified
  /\ git' = [git EXCEPT ![r].staged = @ \cup {p}]
  /\ UNCHANGED <<progress, remote, pulls, history>>

UserChecksOut(r, b) ==
  /\ BetweenTwo
  /\ git[r].merging = {}
  /\ b \in git[r].branches \ {git[r].head}
  /\ git' = [git EXCEPT ![r].head = b]
  /\ UNCHANGED <<progress, remote, pulls, history>>

UserEndsMerge(r) ==
  /\ BetweenTwo
  /\ git[r].merging # {}
  /\ \E merged \in {{}, git[r].merging} :
       git' = [git EXCEPT ![r].merging = {},
                          ![r].tips[git[r].head] = @ \cup merged]
  /\ UNCHANGED <<progress, remote, pulls, history>>

Step ==
  \/ CheckoutNew \/ Add \/ Commit \/ Push \/ OpenPull
  \/ CheckoutBase \/ Merge \/ DeleteBranch
  \/ CommandFails \/ MergeConflicts \/ AnswerYes \/ AnswerNo \/ PromptFails
  \/ Finish

Next ==
  \/ \E m \in Modes, files \in ChangeSets : Deliver(m, files)
  \/ Step
  \/ \E r \in GitDirs, b \in Branches : UserChecksOut(r, b)
  \/ \E r \in GitDirs :
       \/ UserEndsMerge(r)
       \/ \E f \in Owned(r, Files) : UserEdits(r, f)
       \/ \E p \in Paths : UserStages(r, p)

Spec == Init /\ [][Next]_vars

-----------------------------------------------------------------------------
\* The repositories that a directory lies in.
Around(d) == {SubSeq(d, 1, n) : n \in 0..Len(d)} \cap GitDirs

(* When a delivery ends without an error, every file of the execution is   *)
(* in a commit of the innermost repository it lies in, or is reported as   *)
(* lying in none ("reported, not silently dropped", docs/12).              *)
EveryFileIsAccountedFor ==
  \A t \in (1..turn) \ failed :
    (t < turn \/ mode = "idle") =>
      \A f \in edits[t] :
        LET repos == Around(DirOf[f])
        IN IF repos = {} THEN t = turn => f \in reported
           ELSE \E r \in repos :
                  /\ f \in git[r].content[t]
                  /\ \A s \in repos : Len(s) <= Len(r)

(* While a repository commits, no repository inside it has files of the    *)
(* same execution left to commit (group_by_repo: "deepest first").         *)
InnerIsCommittedFirst ==
  \A r, s \in GitDirs :
    (r = Enclosing(s) /\ turn > 0 /\ git[r].content[turn] # {}) =>
      Owned(s, edits[turn]) \subseteq git[s].content[turn]

(* A pull request is only opened for a branch that the remote has, with    *)
(* the execution's commit on it, whichever command fails.                  *)
PullRequestsArePushed ==
  \A p \in pulls : p[2] \in remote[p[1]][p[2]]

(* A commit takes the execution's files in its repository and what lay in  *)
(* the index when the delivery began, staged by the user or left there by  *)
(* a delivery that failed; and nothing else that differs from HEAD, of the *)
(* user's or of another execution's (github/pull_request.rs).              *)
CommitIsIndexPlusExecution ==
  \A r \in GitDirs :
    (turn > 0 /\ git[r].content[turn] # {}) =>
      git[r].content[turn] = found[r] \cup Owned(r, edits[turn])

(* The chat asks about every repository it has committed in, whatever was  *)
(* answered for the others, unless an error ended it (docs/12, "asked      *)
(* about independently").                                                  *)
EveryCommitIsAskedAbout ==
  [][ (mode = "chat" /\ mode' = "idle" /\ turn \notin failed') =>
        \A r \in GitDirs : git[r].content[turn] # {} => r \in asked ]_mode

(* ksforge changes what the base branch points at only by the merge of an  *)
(* execution that was answered with yes (docs/12, "the safety boundary").  *)
BaseMovesOnYes ==
  [][ \A r \in GitDirs :
        (git'[r].tips[Base] # git[r].tips[Base] /\ mode = "chat") =>
          <<r, turn>> \in confirmed ]_git

-----------------------------------------------------------------------------
(* What the repository says and the code does not do: refuted by a run.    *)

(* docs/12: nothing reaches the base branch without a confirmation.        *)
BaseHoldsOnlyConfirmed ==
  \A r \in GitDirs : \A t \in git[r].tips[Base] \cap Turns : <<r, t>> \in confirmed

(* github/pull_request.rs:33 and :123, "commit the execution's changed     *)
(* files": the commit takes the whole index, the user's staged work too.   *)
CommitHoldsOnlyItsExecution ==
  \A r \in GitDirs, t \in Turns : git[r].content[t] \subseteq Owned(r, edits[t])
=============================================================================

------------------------------ MODULE AgentCall ------------------------------
(***************************************************************************)
(* One turn of the agent (agent/claude_code.rs): the claude program is     *)
(* started with two pipes, two tasks drain them while the caller waits for *)
(* the program to exit, the caller then waits for both tasks, and makes of *)
(* the exit status and of what was read a result or an error, which the    *)
(* phase loop retries if it is transient.                                  *)
(*                                                                         *)
(* A pipe holds so many lines: who writes to a full one is blocked in the  *)
(* write until it is read, and who writes to one that nobody reads is told *)
(* so and goes on.  A program that claude has started in the background    *)
(* inherits both pipes and may outlive it.  Lines are abstracted to what   *)
(* the code tells apart, and numbered by the order they were written in.   *)
(*                                                                         *)
(* An operator marked "mutant" is a plausible bug in the one after it.     *)
(***************************************************************************)
EXTENDS Naturals, Sequences

LOCAL INSTANCE SequencesExt

CONSTANTS
  PipeCapacity, \* lines that fit into a pipe
  DetailLength, \* lines of an error's text that truncate keeps
  MaxLines      \* bound: lines written in all

ASSUME CallAssumption ==
  /\ PipeCapacity \in Nat \ {0}
  /\ DetailLength \in Nat \ {0}
  /\ MaxLines \in Nat

\* Who writes: claude, and a program it leaves behind.
Writers == {"claude", "leftover"}
Streams == {"stdout", "stderr"}

\* The result events of the stream, in order: an answer; an error that says
\* the provider is overloaded; another error; neither text nor error.
ResultKinds == {"answer", "overloaded", "refused", "bare"}

\* Any other line of stdout that is text, JSON or not; one in which a marker
\* of a transient error occurs; and one that is not UTF-8.
OutKinds == ResultKinds \cup {"other", "mention", "garbled"}

\* Of stderr: a warning, a message with such a marker, and white space.
ErrKinds == {"warning", "busy", "blank"}

Lines   == [kind : OutKinds \cup ErrKinds, n : 1..MaxLines]
NoLine  == [kind |-> "none", n |-> 0]
NoWrite == [to |-> "none", line |-> NoLine]

Errors == {"Io", "NonZeroExit", "MalformedOutput", "panic"}

Outcomes ==
  [is : {"pending"}]
  \cup [is : {"ok"}, text : Lines]
  \cup [is : Errors, transient : BOOLEAN]

VARIABLES
  caller,    \* "new", "waiting" for the exit, "joining" the tasks, "returned"
  status,    \* of claude: "none", "running", "success" or "failure"
  writers,   \* the programs that hold the write ends
  writing,   \* the write each of them is in
  begun,     \* how many writes have begun
  forked,    \* whether claude has left a program behind
  pipe,      \* what is in each pipe
  task,      \* of the two tasks: "reading", "ended" or "panicked"
  raw,       \* stream_stdout: the lines read
  last,      \*   and the last result event
  errText,   \* collect_stderr: the text read
  outcome,   \* what execute returns
  written    \* history: the lines that got into each pipe

vars == <<caller, status, writers, writing, begun, forked, pipe, task, raw, last, errText, outcome, written>>

programs == <<status, writers, writing, begun, forked, written>>
tasks    == <<task, raw, last, errText>>

Init ==
  /\ caller = "new" /\ status = "none"
  /\ writers = {} /\ begun = 0 /\ forked = FALSE
  /\ writing = [w \in Writers |-> NoWrite]
  /\ pipe = [s \in Streams |-> <<>>] /\ written = [s \in Streams |-> <<>>]
  /\ task = [s \in Streams |-> "reading"]
  /\ raw = <<>> /\ last = NoLine /\ errText = <<>>
  /\ outcome = [is |-> "pending"]

-------------------------------------------------------------------------------
(* What becomes of a call                                                  *)

\* is_transient_detail: a marker anywhere in the text.
HasMarker(text) == \E i \in DOMAIN text : text[i].kind \in {"overloaded", "mention", "busy"}

IsTransient(error, text) ==
  CASE error = "Io"          -> TRUE
    [] error = "NonZeroExit" -> HasMarker(text)
    [] OTHER                 -> FALSE

Failed(error, text) == [is |-> error, transient |-> IsTransient(error, text)]

IsBlank(text) == \A i \in DOMAIN text : text[i].kind = "blank"

\* last_result_message: the text of the last line that has a result field.
ResultLines(text) == SelectSeq(text, LAMBDA l : l.kind \in ResultKinds \ {"bare"})

\* truncate cuts at a byte: a cut inside a character panics.
Truncated(text) ==
  IF Len(text) <= DetailLength THEN {Failed("NonZeroExit", text)}
  ELSE {Failed("NonZeroExit", SubSeq(text, 1, DetailLength)), Failed("panic", <<>>)}

\* error_detail: of stderr, unless that is blank, of stdout.
ExitErrors(stdout, stderr) ==
  LET detail == IF IsBlank(stderr) THEN stdout ELSE stderr
      results == ResultLines(detail)
  IN  IF results # <<>> THEN {Failed("NonZeroExit", <<results[Len(results)]>>)}
      ELSE Truncated(detail)

\* mutant: the status of the program is not looked at
StatusIgnored(exit, stdout, result, stderr) ==
  CASE result = NoLine       -> {Failed("MalformedOutput", <<>>)}
    [] result.kind \in {"overloaded", "refused"} -> {Failed("NonZeroExit", <<result>>)}
    [] result.kind = "bare"  -> {Failed("MalformedOutput", <<>>)}
    [] OTHER                 -> {[is |-> "ok", text |-> result]}

\* What execute may return, once both tasks have ended.
Classified(exit, stdout, result, stderr) ==
  CASE exit = "failure"      -> ExitErrors(stdout, stderr)
    [] exit = "success" /\ result = NoLine -> {Failed("MalformedOutput", <<>>)}
                                              \cup (IF Len(stdout) > DetailLength
                                                    THEN {Failed("panic", <<>>)} ELSE {})
    [] exit = "success" /\ result.kind \in {"overloaded", "refused"} -> {Failed("NonZeroExit", <<result>>)}
    [] exit = "success" /\ result.kind = "bare" -> {Failed("MalformedOutput", <<>>)}
    [] OTHER                 -> {[is |-> "ok", text |-> result]}

-------------------------------------------------------------------------------
(* execute                                                                 *)

Spawn ==
  /\ caller = "new"
  /\ caller' = "waiting"
  /\ status' = "running" /\ writers' = {"claude"}
  /\ UNCHANGED <<writing, begun, forked, pipe, tasks, outcome, written>>

SpawnFails ==
  /\ caller = "new"
  /\ caller' = "returned"
  /\ outcome' = Failed("Io", <<>>)
  /\ UNCHANGED <<programs, pipe, tasks>>

\* child.wait()
WaitForExit ==
  /\ caller = "waiting" /\ status # "running"
  /\ caller' = "joining"
  /\ UNCHANGED <<programs, pipe, tasks, outcome>>

\* Asking for the exit fails: the tasks, and perhaps the program, go on alone.
WaitFails ==
  /\ caller = "waiting"
  /\ caller' = "returned"
  /\ outcome' = Failed("Io", <<>>)
  /\ UNCHANGED <<programs, pipe, tasks>>

\* The join of stdout_task fails: what the other task reads is not looked at.
JoinFails ==
  /\ caller = "joining" /\ task["stdout"] = "panicked"
  /\ caller' = "returned"
  /\ outcome' = Failed("Io", <<>>)
  /\ UNCHANGED <<programs, pipe, tasks>>

\* mutant: the tasks are not waited for, what they have read by now is taken
ReturnAtOnce ==
  /\ caller = "joining"
  /\ caller' = "returned"
  /\ outcome' \in Classified(status, raw, last, errText)
  /\ UNCHANGED <<programs, pipe, tasks>>

Return ==
  /\ caller = "joining" /\ \A s \in Streams : task[s] = "ended"
  /\ caller' = "returned"
  /\ outcome' \in Classified(status, raw, last, errText)
  /\ UNCHANGED <<programs, pipe, tasks>>

-------------------------------------------------------------------------------
(* The two tasks                                                           *)

Take(s) == pipe' = [pipe EXCEPT ![s] = Tail(@)]

EndTask(s) == task' = [task EXCEPT ![s] = "ended"]

\* Only a result event takes the place of the one before.
LastResult(line) == IF line.kind \in ResultKinds THEN line ELSE last

\* stream_stdout, of one line: one that is not UTF-8 ends the task, and with
\* the task the read end of the pipe goes.
StreamStdout ==
  /\ caller # "new" /\ task["stdout"] = "reading" /\ pipe["stdout"] # <<>>
  /\ LET line == Head(pipe["stdout"])
     IN  \/ /\ line.kind = "garbled"
            /\ EndTask("stdout")
            /\ pipe' = [pipe EXCEPT !["stdout"] = <<>>]
            /\ UNCHANGED <<raw, last>>
         \/ /\ line.kind # "garbled"
            /\ Take("stdout")
            /\ raw' = Append(raw, line)
            /\ last' = LastResult(line)
            /\ UNCHANGED task
  /\ UNCHANGED <<caller, programs, errText, outcome>>

\* What is reported of a line as it arrives goes to ksforge's own stderr; when
\* that is closed, eprintln! panics.  The task that reads stderr prints nothing.
StdoutPanics ==
  /\ caller # "new" /\ task["stdout"] = "reading" /\ pipe["stdout"] # <<>>
  /\ Head(pipe["stdout"]).kind \in {"other", "mention"}
  /\ task' = [task EXCEPT !["stdout"] = "panicked"]
  /\ pipe' = [pipe EXCEPT !["stdout"] = <<>>]
  /\ UNCHANGED <<caller, programs, raw, last, errText, outcome>>

\* mutant: stderr is read after stdout
StderrSecond ==
  /\ caller # "new" /\ task["stderr"] = "reading" /\ pipe["stderr"] # <<>>
  /\ task["stdout"] # "reading"
  /\ Take("stderr")
  /\ errText' = Append(errText, Head(pipe["stderr"]))
  /\ UNCHANGED <<caller, programs, task, raw, last, outcome>>

\* collect_stderr; what is not UTF-8 is replaced there.
CollectStderr ==
  /\ caller # "new" /\ task["stderr"] = "reading" /\ pipe["stderr"] # <<>>
  /\ Take("stderr")
  /\ errText' = Append(errText, Head(pipe["stderr"]))
  /\ UNCHANGED <<caller, programs, task, raw, last, outcome>>

\* The end of a pipe: it is empty and no program holds its write end.
EndOfFile(s) ==
  /\ caller # "new" /\ task[s] = "reading" /\ pipe[s] = <<>> /\ writers = {}
  /\ EndTask(s)
  /\ UNCHANGED <<caller, programs, pipe, raw, last, errText, outcome>>

-------------------------------------------------------------------------------
(* The programs                                                            *)

BeginWrite(w, s, kind) ==
  /\ w \in writers /\ writing[w] = NoWrite /\ begun < MaxLines
  /\ begun' = begun + 1
  /\ writing' = [writing EXCEPT ![w] = [to |-> s, line |-> [kind |-> kind, n |-> begun']]]
  /\ UNCHANGED <<caller, status, writers, forked, pipe, tasks, outcome, written>>

\* The write gets into the pipe when there is room, or nowhere when the task
\* that read it is gone.
EndWrite(w) ==
  /\ writing[w] # NoWrite
  /\ LET s == writing[w].to
     IN  \/ /\ task[s] = "reading" /\ Len(pipe[s]) < PipeCapacity
            /\ pipe' = [pipe EXCEPT ![s] = Append(@, writing[w].line)]
            /\ written' = [written EXCEPT ![s] = Append(@, writing[w].line)]
         \/ /\ task[s] # "reading"
            /\ UNCHANGED <<pipe, written>>
  /\ writing' = [writing EXCEPT ![w] = NoWrite]
  /\ UNCHANGED <<caller, status, writers, begun, forked, tasks, outcome>>

Fork ==
  /\ status = "running" /\ ~forked
  /\ forked' = TRUE
  /\ writers' = writers \cup {"leftover"}
  /\ UNCHANGED <<caller, status, writing, begun, pipe, tasks, outcome, written>>

\* A program ends, unless it is in a write.
Exit(code) ==
  /\ status = "running" /\ writing["claude"] = NoWrite
  /\ status' = code
  /\ writers' = writers \ {"claude"}
  /\ UNCHANGED <<caller, writing, begun, forked, pipe, tasks, outcome, written>>

LeftoverEnds ==
  /\ "leftover" \in writers /\ writing["leftover"] = NoWrite
  /\ writers' = writers \ {"leftover"}
  /\ UNCHANGED <<caller, status, writing, begun, forked, pipe, tasks, outcome, written>>

-------------------------------------------------------------------------------
Execute == Spawn \/ SpawnFails \/ WaitForExit \/ WaitFails \/ JoinFails \/ Return

Next ==
  \/ Execute
  \/ StreamStdout \/ StdoutPanics \/ CollectStderr \/ \E s \in Streams : EndOfFile(s)
  \/ \E w \in Writers : \/ \E k \in OutKinds : BeginWrite(w, "stdout", k)
                        \/ \E k \in ErrKinds : BeginWrite(w, "stderr", k)
                        \/ EndWrite(w)
  \/ Fork \/ \E code \in {"success", "failure"} : Exit(code)
  \/ LeftoverEnds

Spec == Init /\ [][Next]_vars

\* The caller and the tasks are run when they can run, and so are the
\* programs: each ends, unless it is blocked in a write.
FairSpec ==
  /\ Spec
  /\ WF_vars(Execute) /\ WF_vars(StreamStdout) /\ WF_vars(CollectStderr)
  /\ \A s \in Streams : WF_vars(EndOfFile(s))
  /\ \A w \in Writers : WF_vars(EndWrite(w))
  /\ WF_vars(\E code \in {"success", "failure"} : Exit(code)) /\ WF_vars(LeftoverEnds)

-------------------------------------------------------------------------------
(* Properties                                                              *)

\* Each variable holds values of its type; what is kept as the last result
\* is a result event.
TypeOK ==
  /\ caller \in {"new", "waiting", "joining", "returned"}
  /\ status \in {"none", "running", "success", "failure"}
  /\ writers \subseteq Writers /\ begun \in 0..MaxLines /\ forked \in BOOLEAN
  /\ writing \in [Writers -> [to : Streams, line : Lines] \cup {NoWrite}]
  /\ pipe \in [Streams -> Seq(Lines)] /\ written \in [Streams -> Seq(Lines)]
  /\ \A s \in Streams : Len(pipe[s]) <= PipeCapacity
  /\ task \in [Streams -> {"reading", "ended", "panicked"}]
  /\ raw \in Seq(Lines) /\ errText \in Seq(Lines)
  /\ last \in [kind : ResultKinds, n : 1..MaxLines] \cup {NoLine}
  /\ outcome \in Outcomes

\* The lines of stdout up to the first that is not UTF-8.
Readable(lines) ==
  LET stop == SelectInSeq(lines, LAMBDA l : l.kind = "garbled")
  IN  IF stop = 0 THEN lines ELSE SubSeq(lines, 1, stop - 1)

\* However the program's exit, its last writes, those of a program it leaves
\* behind and the two tasks interleave, a call that returns has read all of
\* stderr, and all of stdout that comes before a line that is not UTF-8; only
\* one that could not start or watch the program reports an Io error instead.
NothingIsLost ==
  caller = "returned" /\ outcome.is # "Io" =>
    /\ errText = written["stderr"]
    /\ raw = Readable(written["stdout"])

\* A call succeeds only with the text of the last result event that can be
\* read, of a program that exited with success: neither an earlier answer that
\* an error event took back, nor one of a program that failed afterwards.
AnswerIsTheLastWord ==
  outcome.is = "ok" =>
    LET text == Readable(written["stdout"])
        results == {i \in DOMAIN text : text[i].kind \in ResultKinds}
    IN  /\ status = "success"
        /\ \E i \in results : outcome.text = text[i] /\ \A k \in results : k <= i
        /\ outcome.text.kind = "answer"

\* execute returns: neither pipe can fill up and keep the program from
\* exiting while the caller waits for it.
CallReturns == <>(caller = "returned")
===============================================================================

--------------------------- MODULE AgentCallProofs ---------------------------
(***************************************************************************)
(* Proofs about AgentCall for any capacity of the pipes, any length that   *)
(* truncate keeps and any number of lines, whatever the program, the one   *)
(* it leaves behind, the two tasks and the caller do in whatever order.    *)
(***************************************************************************)
EXTENDS AgentCall, TLAPS

LOCAL INSTANCE SequencesExt

-----------------------------------------------------------------------------
(* The inductive invariant: where each line is that a program has written. *)

\* The lines of a stream: those that were read, then those in the pipe.
Splits(lines, read, rest) ==
  /\ Len(lines) = Len(read) + Len(rest)
  /\ \A i \in 1..Len(read) : lines[i] = read[i]
  /\ \A i \in 1..Len(rest) : lines[Len(read) + i] = rest[i]

\* The task that reads stdout may have ended at a line that is not UTF-8.
StoppedAt(lines, read) ==
  /\ Len(read) < Len(lines)
  /\ \A i \in 1..Len(read) : lines[i] = read[i]
  /\ lines[Len(read) + 1].kind = "garbled"

PipesInv ==
  /\ Splits(written["stderr"], errText, pipe["stderr"])
  /\ \/ Splits(written["stdout"], raw, pipe["stdout"])
     \/ task["stdout"] = "ended" /\ StoppedAt(written["stdout"], raw)
     \/ task["stdout"] = "panicked"
  /\ \A s \in Streams : task[s] = "ended" => pipe[s] = <<>>
  /\ \A i \in 1..Len(raw) : raw[i].kind # "garbled"

\* The last result event of those that were read.
LastInv ==
  IF last = NoLine THEN \A i \in 1..Len(raw) : raw[i].kind \notin ResultKinds
  ELSE \E i \in 1..Len(raw) :
         /\ raw[i] = last
         /\ \A k \in 1..Len(raw) : raw[k].kind \in ResultKinds => k <= i

\* How far the caller is.
CallerInv ==
  /\ caller = "new" => status = "none"
  /\ caller = "waiting" => status # "none"
  /\ caller = "joining" => status \in {"success", "failure"}
  /\ caller = "returned" =>
       \/ outcome.is = "Io"
       \/ /\ status \in {"success", "failure"}
          /\ \A s \in Streams : task[s] = "ended"
  /\ outcome.is = "ok" =>
       /\ caller = "returned" /\ status = "success"
       /\ outcome.text = last /\ last.kind = "answer"

Inv == TypeOK /\ PipesInv /\ LastInv /\ CallerInv
-----------------------------------------------------------------------------
(* Lines in sequences.                                                     *)

LEMMA AppendIs ==
  ASSUME NEW S, NEW s \in Seq(S), NEW x \in S
  PROVE  /\ Append(s, x) \in Seq(S) /\ Len(Append(s, x)) = Len(s) + 1
         /\ Append(s, x)[Len(s) + 1] = x
         /\ \A i \in 1..Len(s) : Append(s, x)[i] = s[i]
<1>1. /\ Append(s, x) \in Seq(S) /\ Len(Append(s, x)) = Len(s) + 1
  OBVIOUS
<1>2. Append(s, x)[Len(s) + 1] = x
  OBVIOUS
<1>3. \A i \in 1..Len(s) : Append(s, x)[i] = s[i]
  OBVIOUS
<1> QED
  BY <1>1, <1>2, <1>3

LEMMA TailIs ==
  ASSUME NEW S, NEW s \in Seq(S), s # <<>>
  PROVE  /\ Len(s) \in Nat /\ Len(s) >= 1 /\ Head(s) \in S /\ Head(s) = s[1]
         /\ Tail(s) \in Seq(S) /\ Len(Tail(s)) = Len(s) - 1
         /\ \A i \in 1..(Len(s) - 1) : Tail(s)[i] = s[i + 1]
<1>1. /\ Len(s) \in Nat /\ Len(s) >= 1
  OBVIOUS
<1>2. Head(s) \in S /\ Head(s) = s[1]
  BY <1>1
<1>3. Tail(s) \in Seq(S) /\ Len(Tail(s)) = Len(s) - 1
  BY <1>1
<1>4. \A i \in 1..(Len(s) - 1) : Tail(s)[i] = s[i + 1]
  BY <1>1
<1> QED
  BY <1>1, <1>2, <1>3, <1>4

\* A task takes a line.
LEMMA TakeSplits ==
  ASSUME NEW lines \in Seq(Lines), NEW read \in Seq(Lines), NEW rest \in Seq(Lines),
         Splits(lines, read, rest), rest # <<>>
  PROVE  Splits(lines, Append(read, Head(rest)), Tail(rest))
<1> DEFINE line == Head(rest)
           more == Append(read, line)
<1>1. /\ Len(rest) \in Nat /\ Len(rest) >= 1 /\ line \in Lines /\ line = rest[1]
      /\ Len(Tail(rest)) = Len(rest) - 1
      /\ \A i \in 1..(Len(rest) - 1) : Tail(rest)[i] = rest[i + 1]
  BY TailIs
<1>2. /\ Len(more) = Len(read) + 1 /\ Len(read) \in Nat
      /\ more[Len(read) + 1] = line
      /\ \A i \in 1..Len(read) : more[i] = read[i]
  BY <1>1, AppendIs
<1> HIDE DEF line, more
<1>3. Len(lines) = Len(more) + Len(Tail(rest))
  BY <1>1, <1>2 DEF Splits
<1>4. lines[Len(read) + 1] = line
  BY <1>1, <1>2 DEF Splits
<1>5. \A i \in 1..Len(more) : lines[i] = more[i]
  BY <1>2, <1>4 DEF Splits
<1>6. ASSUME NEW i \in 1..Len(Tail(rest))
      PROVE  lines[Len(more) + i] = Tail(rest)[i]
  <2>1. i \in 1..(Len(rest) - 1) /\ i + 1 \in 1..Len(rest)
    BY <1>1
  <2>2. lines[Len(read) + (i + 1)] = rest[i + 1]
    BY <2>1 DEF Splits
  <2>3. Len(more) + i = Len(read) + (i + 1)
    BY <1>2
  <2> QED
    BY <1>1, <2>1, <2>2, <2>3
<1>7. Splits(lines, more, Tail(rest))
  BY <1>3, <1>5, <1>6 DEF Splits
<1> QED
  BY <1>7 DEF line, more

\* A line gets into the pipe.
LEMMA WriteSplits ==
  ASSUME NEW lines \in Seq(Lines), NEW read \in Seq(Lines), NEW rest \in Seq(Lines),
         NEW line \in Lines, Splits(lines, read, rest)
  PROVE  Splits(Append(lines, line), read, Append(rest, line))
<1> DEFINE all == Append(lines, line)
           more == Append(rest, line)
<1>1. /\ Len(all) = Len(lines) + 1 /\ Len(lines) \in Nat
      /\ all[Len(lines) + 1] = line
      /\ \A i \in 1..Len(lines) : all[i] = lines[i]
  BY AppendIs
<1>2. /\ Len(more) = Len(rest) + 1 /\ Len(rest) \in Nat
      /\ more[Len(rest) + 1] = line
      /\ \A i \in 1..Len(rest) : more[i] = rest[i]
  BY AppendIs
<1>3. Len(read) \in Nat
  OBVIOUS
<1> HIDE DEF all, more
<1>4. Len(all) = Len(read) + Len(more)
  BY <1>1, <1>2, <1>3 DEF Splits
<1>5. \A i \in 1..Len(read) : all[i] = read[i]
  BY <1>1, <1>2, <1>3 DEF Splits
<1>6. ASSUME NEW i \in 1..Len(more)
      PROVE  all[Len(read) + i] = more[i]
  <2>1. CASE i = Len(rest) + 1
    <3>1. Len(read) + i = Len(lines) + 1
      BY <1>2, <1>3, <2>1 DEF Splits
    <3> QED
      BY <1>1, <1>2, <2>1, <3>1
  <2>2. CASE i # Len(rest) + 1
    <3>1. i \in 1..Len(rest) /\ Len(read) + i \in 1..Len(lines)
      BY <1>2, <1>3, <2>2 DEF Splits
    <3> QED
      BY <1>1, <1>2, <3>1 DEF Splits
  <2> QED
    BY <2>1, <2>2
<1>7. Splits(all, read, more)
  BY <1>4, <1>5, <1>6 DEF Splits
<1> QED
  BY <1>7 DEF all, more

\* What can be read of stdout, when all of it was.
LEMMA AllIsReadable ==
  ASSUME NEW lines \in Seq(Lines), NEW read \in Seq(Lines), Splits(lines, read, <<>>),
         \A i \in 1..Len(read) : read[i].kind # "garbled"
  PROVE  lines = read /\ Readable(lines) = lines
<1>1. lines = read
  <2>1. Len(<<>>) = 0 /\ Len(lines) = Len(read)
    BY DEF Splits
  <2> QED
    BY <2>1 DEF Splits
<1> DEFINE found == {i \in 1..Len(lines) : lines[i].kind = "garbled"}
<1>2. SelectInSeq(lines, LAMBDA l : l.kind = "garbled") = IF found # {} THEN Min(found) ELSE 0
  BY Zenon DEF SelectInSeq
<1>3. found = {}
  BY <1>1
<1>4. SelectInSeq(lines, LAMBDA l : l.kind = "garbled") = 0
  BY <1>2, <1>3
<1>5. Readable(lines) = lines
  BY <1>4 DEF Readable
<1> QED
  BY <1>1, <1>5

\* And when a line of it could not be.
LEMMA ReadableUpTo ==
  ASSUME NEW lines \in Seq(Lines), NEW read \in Seq(Lines), StoppedAt(lines, read),
         \A i \in 1..Len(read) : read[i].kind # "garbled"
  PROVE  Readable(lines) = read
<1> DEFINE found == {i \in 1..Len(lines) : lines[i].kind = "garbled"}
           stop == Len(read) + 1
<1>1. SelectInSeq(lines, LAMBDA l : l.kind = "garbled") = IF found # {} THEN Min(found) ELSE 0
  BY Zenon DEF SelectInSeq
<1>2. Len(read) \in Nat /\ Len(lines) \in Nat /\ stop \in found
  BY DEF StoppedAt
<1>3. \A i \in found : stop <= i
  <2> SUFFICES ASSUME NEW i \in found, i < stop PROVE FALSE
    BY <1>2
  <2>1. i \in 1..Len(read)
    BY <1>2
  <2> QED
    BY <2>1 DEF StoppedAt
<1>4. Min(found) = stop
  BY <1>2, <1>3 DEF Min
<1>5. SelectInSeq(lines, LAMBDA l : l.kind = "garbled") = stop
  BY <1>1, <1>2, <1>4
<1>6. Readable(lines) = SubSeq(lines, 1, stop - 1)
  BY <1>2, <1>5 DEF Readable
<1>7. SubSeq(lines, 1, Len(read)) = read
  <2>1. /\ SubSeq(lines, 1, Len(read)) \in Seq(Lines)
        /\ Len(SubSeq(lines, 1, Len(read))) = Len(read)
        /\ \A i \in 1..Len(read) : SubSeq(lines, 1, Len(read))[i] = lines[i]
    BY <1>2 DEF StoppedAt
  <2> QED
    BY <2>1 DEF StoppedAt
<1> QED
  BY <1>2, <1>6, <1>7

-----------------------------------------------------------------------------
(* The steps of the caller.                                                *)

LEMMA NothingIsPiped ==
  ASSUME Inv, UNCHANGED <<pipe, tasks, written>>
  PROVE  PipesInv' /\ LastInv'
BY DEF Inv, PipesInv, LastInv, tasks

LEMMA SpawnKeepsInv ==
  ASSUME Inv, Spawn
  PROVE  Inv'
<1>1. PipesInv' /\ LastInv'
  BY NothingIsPiped DEF Spawn
<1>2. TypeOK'
  BY DEF Spawn, Inv, TypeOK, tasks, Writers
<1>3. CallerInv'
  BY DEF Spawn, Inv, CallerInv, tasks
<1> QED
  BY <1>1, <1>2, <1>3 DEF Inv

LEMMA FailedIsOutcome ==
  ASSUME NEW error \in Errors, NEW text
  PROVE  Failed(error, text) \in Outcomes /\ Failed(error, text).is = error /\ error # "ok"
<1>1. IsTransient(error, text) \in BOOLEAN
  BY DEF IsTransient, HasMarker
<1>2. Failed(error, text) = [is |-> error, transient |-> IsTransient(error, text)]
  BY DEF Failed
<1>3. PICK transient \in BOOLEAN : Failed(error, text) = [is |-> error, transient |-> transient]
  BY <1>1, <1>2
<1> QED
  BY <1>3 DEF Outcomes, Errors

LEMMA SpawnFailsKeepsInv ==
  ASSUME Inv, SpawnFails
  PROVE  Inv'
<1>1. PipesInv' /\ LastInv'
  BY NothingIsPiped DEF SpawnFails, programs
<1>2. outcome' \in Outcomes /\ outcome'.is = "Io"
  BY FailedIsOutcome DEF SpawnFails, Errors
<1>3. TypeOK'
  BY <1>2 DEF SpawnFails, Inv, TypeOK, tasks, programs
<1>4. CallerInv'
  BY <1>2 DEF SpawnFails, Inv, CallerInv, tasks, programs
<1> QED
  BY <1>1, <1>3, <1>4 DEF Inv

LEMMA WaitFailsKeepsInv ==
  ASSUME Inv, WaitFails
  PROVE  Inv'
<1>1. PipesInv' /\ LastInv'
  BY NothingIsPiped DEF WaitFails, programs
<1>2. outcome' \in Outcomes /\ outcome'.is = "Io"
  BY FailedIsOutcome DEF WaitFails, Errors
<1>3. TypeOK'
  BY <1>2 DEF WaitFails, Inv, TypeOK, tasks, programs
<1>4. CallerInv'
  BY <1>2 DEF WaitFails, Inv, CallerInv, tasks, programs
<1> QED
  BY <1>1, <1>3, <1>4 DEF Inv

LEMMA JoinFailsKeepsInv ==
  ASSUME Inv, JoinFails
  PROVE  Inv'
<1>1. PipesInv' /\ LastInv'
  BY NothingIsPiped DEF JoinFails, programs
<1>2. outcome' \in Outcomes /\ outcome'.is = "Io"
  BY FailedIsOutcome DEF JoinFails, Errors
<1>3. TypeOK'
  BY <1>2 DEF JoinFails, Inv, TypeOK, tasks, programs
<1>4. CallerInv'
  BY <1>2 DEF JoinFails, Inv, CallerInv, tasks, programs
<1> QED
  BY <1>1, <1>3, <1>4 DEF Inv

LEMMA WaitForExitKeepsInv ==
  ASSUME Inv, WaitForExit
  PROVE  Inv'
<1>1. PipesInv' /\ LastInv'
  BY NothingIsPiped DEF WaitForExit, programs
<1>2. TypeOK'
  BY DEF WaitForExit, Inv, TypeOK, tasks, programs
<1>3. CallerInv'
  BY DEF WaitForExit, Inv, CallerInv, TypeOK, tasks, programs
<1> QED
  BY <1>1, <1>2, <1>3 DEF Inv

\* A call that succeeds: the program has exited with success and the last
\* result event is an answer.
LEMMA ClassifiedIs ==
  ASSUME NEW exit \in {"success", "failure"}, NEW stdout, NEW stderr,
         NEW result \in [kind : ResultKinds, n : 1..MaxLines] \cup {NoLine},
         NEW o \in Classified(exit, stdout, result, stderr)
  PROVE  /\ o \in Outcomes
         /\ o.is = "ok" => exit = "success" /\ o.text = result /\ result.kind = "answer"
<1>1. ASSUME NEW error \in Errors, NEW text, o = Failed(error, text)
      PROVE  o \in Outcomes /\ o.is # "ok"
  BY <1>1, FailedIsOutcome
<1>2. "NonZeroExit" \in Errors /\ "MalformedOutput" \in Errors /\ "panic" \in Errors
  BY DEF Errors
<1>3. CASE exit = "failure"
  <2>1. o \in ExitErrors(stdout, stderr)
    BY <1>3 DEF Classified
  <2>2. \E error \in Errors : \E text : o = Failed(error, text)
    <3> DEFINE detail == IF IsBlank(stderr) THEN stdout ELSE stderr
               results == ResultLines(detail)
    <3>1. o \in IF results # <<>> THEN {Failed("NonZeroExit", <<results[Len(results)]>>)}
                ELSE Truncated(detail)
      BY <2>1 DEF ExitErrors
    <3> HIDE DEF detail, results
    <3>2. CASE results # <<>>
      BY <1>2, <3>1, <3>2
    <3>3. CASE results = <<>>
      <4>1. \/ o = Failed("NonZeroExit", detail)
            \/ o = Failed("NonZeroExit", SubSeq(detail, 1, DetailLength))
            \/ o = Failed("panic", <<>>)
        BY <3>1, <3>3 DEF Truncated
      <4> QED
        BY <1>2, <4>1
    <3> QED
      BY <3>2, <3>3
  <2> QED
    BY <1>1, <2>2
<1>4. CASE exit = "success" /\ result = NoLine
  <2>1. Classified(exit, stdout, result, stderr) =
          {Failed("MalformedOutput", <<>>)} \cup (IF Len(stdout) > DetailLength
                                                 THEN {Failed("panic", <<>>)} ELSE {})
    BY <1>4 DEF Classified, NoLine
  <2>2. o = Failed("MalformedOutput", <<>>) \/ o = Failed("panic", <<>>)
    BY <2>1
  <2> QED
    BY <1>1, <1>2, <2>2
<1>5. CASE exit = "success" /\ result # NoLine /\ result.kind \in {"overloaded", "refused"}
  <2>1. o = Failed("NonZeroExit", <<result>>)
    BY <1>5 DEF Classified
  <2> QED
    BY <1>1, <1>2, <2>1
<1>6. CASE exit = "success" /\ result # NoLine /\ result.kind = "bare"
  <2>1. o = Failed("MalformedOutput", <<>>)
    BY <1>6 DEF Classified
  <2> QED
    BY <1>1, <1>2, <2>1
<1>7. CASE exit = "success" /\ result # NoLine /\ result.kind \notin {"overloaded", "refused", "bare"}
  <2>1. o = [is |-> "ok", text |-> result]
    BY <1>7 DEF Classified
  <2>2. result.kind = "answer" /\ result \in Lines
    BY <1>7 DEF ResultKinds, Lines, OutKinds
  <2> QED
    BY <1>7, <2>1, <2>2 DEF Outcomes
<1> QED
  BY <1>3, <1>4, <1>5, <1>6, <1>7

LEMMA ReturnKeepsInv ==
  ASSUME Inv, Return
  PROVE  Inv'
<1>1. PipesInv' /\ LastInv'
  BY NothingIsPiped DEF Return, programs
<1>2. PICK exit \in {"success", "failure"} : exit = status
  BY DEF Return, Inv, CallerInv
<1>3. PICK result \in [kind : ResultKinds, n : 1..MaxLines] \cup {NoLine} : result = last
  BY DEF Inv, TypeOK
<1>4. PICK o \in Classified(exit, raw, result, errText) : o = outcome'
  BY <1>2, <1>3 DEF Return
<1>5. /\ o \in Outcomes
      /\ o.is = "ok" => exit = "success" /\ o.text = result /\ result.kind = "answer"
  BY ClassifiedIs
<1>6. TypeOK'
  BY <1>4, <1>5 DEF Return, Inv, TypeOK, tasks, programs
<1>7. CallerInv'
  BY <1>2, <1>3, <1>4, <1>5 DEF Return, CallerInv, tasks, programs
<1> QED
  BY <1>1, <1>6, <1>7 DEF Inv

-----------------------------------------------------------------------------
(* The steps of the programs.                                              *)

\* Who runs, and who writes what, is nothing to the caller and the tasks.
LEMMA BeginWriteKeepsInv ==
  ASSUME Inv, NEW w \in Writers, NEW s \in Streams, NEW kind \in OutKinds \cup ErrKinds,
         BeginWrite(w, s, kind)
  PROVE  Inv'
<1>1. PipesInv' /\ LastInv'
  BY NothingIsPiped DEF BeginWrite
<1>2. begun' \in 1..MaxLines
  BY CallAssumption DEF BeginWrite, Inv, TypeOK
<1>3. [kind |-> kind, n |-> begun'] \in Lines
  BY <1>2 DEF Lines
<1>4. writing' \in [Writers -> [to : Streams, line : Lines] \cup {NoWrite}]
  BY <1>3 DEF BeginWrite, Inv, TypeOK
<1>5. TypeOK'
  BY <1>2, <1>4 DEF BeginWrite, Inv, TypeOK, tasks
<1>6. CallerInv'
  BY DEF BeginWrite, Inv, CallerInv, tasks
<1> QED
  BY <1>1, <1>5, <1>6 DEF Inv

LEMMA ForkKeepsInv ==
  ASSUME Inv, Fork
  PROVE  Inv'
<1>1. PipesInv' /\ LastInv'
  BY NothingIsPiped DEF Fork
<1>2. TypeOK'
  BY DEF Fork, Inv, TypeOK, tasks, Writers
<1>3. CallerInv'
  BY DEF Fork, Inv, CallerInv, tasks
<1> QED
  BY <1>1, <1>2, <1>3 DEF Inv

LEMMA ExitKeepsInv ==
  ASSUME Inv, NEW code \in {"success", "failure"}, Exit(code)
  PROVE  Inv'
<1>1. PipesInv' /\ LastInv'
  BY NothingIsPiped DEF Exit
<1>2. TypeOK'
  BY DEF Exit, Inv, TypeOK, tasks
<1>3. CallerInv'
  BY DEF Exit, Inv, CallerInv, tasks
<1> QED
  BY <1>1, <1>2, <1>3 DEF Inv

LEMMA LeftoverEndsKeepsInv ==
  ASSUME Inv, LeftoverEnds
  PROVE  Inv'
<1>1. PipesInv' /\ LastInv'
  BY NothingIsPiped DEF LeftoverEnds
<1>2. TypeOK'
  BY DEF LeftoverEnds, Inv, TypeOK, tasks
<1>3. CallerInv'
  BY DEF LeftoverEnds, Inv, CallerInv, tasks
<1> QED
  BY <1>1, <1>2, <1>3 DEF Inv

LEMMA EndWriteKeepsInv ==
  ASSUME Inv, NEW w \in Writers, EndWrite(w)
  PROVE  Inv'
<1>1. PICK write \in [to : Streams, line : Lines] : write = writing[w]
  BY DEF EndWrite, Inv, TypeOK
<1>2. PICK s \in Streams : s = write.to
  OBVIOUS
<1>3. PICK line \in Lines : line = write.line
  OBVIOUS
<1>4. writing' \in [Writers -> [to : Streams, line : Lines] \cup {NoWrite}]
  BY DEF EndWrite, Inv, TypeOK
<1>5. /\ UNCHANGED <<caller, status, writers, begun, forked, tasks, outcome>>
      /\ \/ /\ task[s] = "reading" /\ Len(pipe[s]) < PipeCapacity
            /\ pipe' = [pipe EXCEPT ![s] = Append(pipe[s], line)]
            /\ written' = [written EXCEPT ![s] = Append(written[s], line)]
         \/ UNCHANGED <<pipe, written>>
  BY <1>1, <1>2, <1>3 DEF EndWrite
<1>6. CASE UNCHANGED <<pipe, written>>
  <2>1. PipesInv' /\ LastInv'
    BY <1>5, <1>6, NothingIsPiped
  <2>2. TypeOK'
    BY <1>4, <1>5, <1>6 DEF Inv, TypeOK, tasks
  <2>3. CallerInv'
    BY <1>5 DEF Inv, CallerInv, tasks
  <2> QED
    BY <2>1, <2>2, <2>3 DEF Inv
<1>7. CASE /\ task[s] = "reading" /\ Len(pipe[s]) < PipeCapacity
           /\ pipe' = [pipe EXCEPT ![s] = Append(pipe[s], line)]
           /\ written' = [written EXCEPT ![s] = Append(written[s], line)]
  <2>1. /\ pipe \in [Streams -> Seq(Lines)] /\ written \in [Streams -> Seq(Lines)]
        /\ raw \in Seq(Lines) /\ errText \in Seq(Lines)
    BY DEF Inv, TypeOK
  <2>2. /\ pipe[s] \in Seq(Lines) /\ Len(pipe[s]) \in Nat
        /\ Append(pipe[s], line) \in Seq(Lines) /\ Append(written[s], line) \in Seq(Lines)
        /\ Len(Append(pipe[s], line)) = Len(pipe[s]) + 1
    BY <2>1, AppendIs
  <2>3. /\ pipe' \in [Streams -> Seq(Lines)] /\ written' \in [Streams -> Seq(Lines)]
        /\ pipe'[s] = Append(pipe[s], line) /\ written'[s] = Append(written[s], line)
        /\ \A t \in Streams \ {s} : pipe'[t] = pipe[t] /\ written'[t] = written[t]
    BY <1>7, <2>1, <2>2
  <2>4. \A t \in Streams : Len(pipe'[t]) <= PipeCapacity
    <3>1. Len(pipe'[s]) <= PipeCapacity
      BY <1>7, <2>2, <2>3, CallAssumption
    <3> QED
      BY <2>3, <3>1 DEF Inv, TypeOK
  <2>5. TypeOK'
    BY <1>4, <1>5, <2>3, <2>4 DEF Inv, TypeOK, tasks
  <2>6. task' = task /\ raw' = raw /\ errText' = errText /\ last' = last
    BY <1>5 DEF tasks
  <2>7. Splits(written'["stderr"], errText, pipe'["stderr"])
    <3>1. CASE s = "stderr"
      <4>1. /\ written["stderr"] \in Seq(Lines) /\ pipe["stderr"] \in Seq(Lines)
            /\ Splits(written["stderr"], errText, pipe["stderr"])
        BY <2>1 DEF Inv, PipesInv, Streams
      <4>2. Splits(Append(written["stderr"], line), errText, Append(pipe["stderr"], line))
        BY <2>1, <4>1, WriteSplits
      <4> QED
        BY <2>3, <3>1, <4>2
    <3>2. CASE s # "stderr"
      BY <2>3, <3>2 DEF Inv, PipesInv, Streams
    <3> QED
      BY <3>1, <3>2
  <2>8. \/ Splits(written'["stdout"], raw, pipe'["stdout"])
        \/ task["stdout"] = "ended" /\ StoppedAt(written'["stdout"], raw)
        \/ task["stdout"] = "panicked"
    <3>1. CASE s = "stdout"
      <4>1. /\ written["stdout"] \in Seq(Lines) /\ pipe["stdout"] \in Seq(Lines)
            /\ Splits(written["stdout"], raw, pipe["stdout"])
        BY <1>7, <2>1, <3>1 DEF Inv, PipesInv, Streams
      <4>2. Splits(Append(written["stdout"], line), raw, Append(pipe["stdout"], line))
        BY <2>1, <4>1, WriteSplits
      <4> QED
        BY <2>3, <3>1, <4>2
    <3>2. CASE s # "stdout"
      BY <2>3, <3>2 DEF Inv, PipesInv, Streams
    <3> QED
      BY <3>1, <3>2
  <2>9. \A t \in Streams : task[t] = "ended" => pipe'[t] = <<>>
    BY <1>7, <2>3 DEF Inv, PipesInv
  <2>10. PipesInv'
    BY <2>6, <2>7, <2>8, <2>9 DEF Inv, PipesInv
  <2>11. LastInv'
    BY <2>6 DEF Inv, LastInv
  <2>12. CallerInv'
    BY <1>5, <2>6 DEF Inv, CallerInv
  <2> QED
    BY <2>5, <2>10, <2>11, <2>12 DEF Inv
<1> QED
  BY <1>5, <1>6, <1>7

-----------------------------------------------------------------------------
(* The steps of the tasks: they take only what has got into a pipe, and    *)
(* only while they read, so that the caller has not returned yet.          *)

\* An answer was made of what was read by then.
LEMMA NoAnswerYet ==
  ASSUME Inv, NEW s \in Streams, task[s] = "reading"
  PROVE  outcome.is # "ok"
BY DEF Inv, CallerInv

\* A task that reads may take a line, or end.
LEMMA CallerStays ==
  ASSUME Inv, UNCHANGED <<caller, programs, outcome>>, outcome.is # "ok",
         \A s \in Streams : task[s] = "ended" => task'[s] = "ended"
  PROVE  CallerInv'
BY DEF Inv, CallerInv, programs

LEMMA CollectStderrKeepsInv ==
  ASSUME Inv, CollectStderr
  PROVE  Inv'
<1>1. "stderr" \in Streams /\ "stdout" \in Streams
  BY DEF Streams
<1>2. /\ pipe \in [Streams -> Seq(Lines)] /\ written["stderr"] \in Seq(Lines)
      /\ errText \in Seq(Lines) /\ pipe["stderr"] \in Seq(Lines)
  BY <1>1 DEF Inv, TypeOK
<1>3. /\ pipe["stderr"] # <<>> /\ task["stderr"] = "reading"
      /\ pipe' = [pipe EXCEPT !["stderr"] = Tail(pipe["stderr"])]
      /\ errText' = Append(errText, Head(pipe["stderr"]))
      /\ UNCHANGED <<caller, programs, task, raw, last, outcome>>
  BY DEF CollectStderr, Take
<1>4. /\ Head(pipe["stderr"]) \in Lines /\ Tail(pipe["stderr"]) \in Seq(Lines)
      /\ Len(Tail(pipe["stderr"])) = Len(pipe["stderr"]) - 1 /\ Len(pipe["stderr"]) \in Nat
  BY <1>2, <1>3, TailIs
<1>5. errText' \in Seq(Lines)
  BY <1>2, <1>3, <1>4
<1>6. /\ pipe' \in [Streams -> Seq(Lines)]
      /\ pipe'["stderr"] = Tail(pipe["stderr"]) /\ pipe'["stdout"] = pipe["stdout"]
      /\ \A s \in Streams : s = "stderr" \/ pipe'[s] = pipe[s]
  BY <1>1, <1>2, <1>3, <1>4
<1>7. \A s \in Streams : Len(pipe'[s]) <= PipeCapacity
  <2>1. Len(pipe'["stderr"]) <= PipeCapacity
    BY <1>1, <1>4, <1>6, CallAssumption DEF Inv, TypeOK
  <2> QED
    BY <1>6, <2>1 DEF Inv, TypeOK
<1>8. TypeOK'
  BY <1>3, <1>5, <1>6, <1>7 DEF Inv, TypeOK, programs
<1>9. Splits(written["stderr"], errText', pipe'["stderr"])
  <2>1. Splits(written["stderr"], errText, pipe["stderr"])
    BY DEF Inv, PipesInv
  <2>2. Splits(written["stderr"], Append(errText, Head(pipe["stderr"])), Tail(pipe["stderr"]))
    BY <1>2, <1>3, <2>1, TakeSplits
  <2> QED
    BY <1>3, <1>6, <2>2
<1>10. \A s \in Streams : task[s] = "ended" => pipe'[s] = <<>>
  BY <1>3, <1>6 DEF Inv, PipesInv
<1>11. PipesInv'
  BY <1>3, <1>6, <1>9, <1>10 DEF Inv, PipesInv, programs
<1>12. LastInv'
  BY <1>3 DEF Inv, LastInv
<1>13. CallerInv'
  BY <1>1, <1>3, NoAnswerYet, CallerStays
<1> QED
  BY <1>8, <1>11, <1>12, <1>13 DEF Inv

LEMMA StdoutPanicsKeepsInv ==
  ASSUME Inv, StdoutPanics
  PROVE  Inv'
<1>1. "stderr" \in Streams /\ "stdout" \in Streams /\ "stderr" # "stdout"
  BY DEF Streams
<1>2. /\ task["stdout"] = "reading"
      /\ task' = [task EXCEPT !["stdout"] = "panicked"]
      /\ pipe' = [pipe EXCEPT !["stdout"] = <<>>]
      /\ UNCHANGED <<caller, programs, raw, last, errText, outcome>>
  BY DEF StdoutPanics
<1>3. /\ task' \in [Streams -> {"reading", "ended", "panicked"}] /\ task'["stdout"] = "panicked"
      /\ \A s \in Streams : s = "stdout" \/ task'[s] = task[s]
  BY <1>1, <1>2 DEF Inv, TypeOK
<1>4. <<>> \in Seq(Lines) /\ Len(<<>>) = 0
  OBVIOUS
<1>5. /\ pipe' \in [Streams -> Seq(Lines)]
      /\ pipe'["stdout"] = <<>> /\ pipe'["stderr"] = pipe["stderr"]
      /\ \A s \in Streams : s = "stdout" \/ pipe'[s] = pipe[s]
  BY <1>1, <1>2, <1>4 DEF Inv, TypeOK
<1>6. \A s \in Streams : Len(pipe'[s]) <= PipeCapacity
  <2>1. Len(pipe'["stdout"]) <= PipeCapacity
    BY <1>4, <1>5, CallAssumption
  <2> QED
    BY <1>5, <2>1 DEF Inv, TypeOK
<1>7. TypeOK'
  BY <1>2, <1>3, <1>5, <1>6 DEF Inv, TypeOK, programs
<1>8. \A s \in Streams : task'[s] = "ended" => pipe'[s] = <<>>
  BY <1>3, <1>5 DEF Inv, PipesInv
<1>9. PipesInv'
  BY <1>2, <1>3, <1>5, <1>8 DEF Inv, PipesInv, programs
<1>10. LastInv'
  BY <1>2 DEF Inv, LastInv
<1>11. \A s \in Streams : task[s] = "ended" => task'[s] = "ended"
  BY <1>2, <1>3
<1>12. CallerInv'
  BY <1>1, <1>2, <1>11, NoAnswerYet, CallerStays
<1> QED
  BY <1>7, <1>9, <1>10, <1>12 DEF Inv

LEMMA EndOfFileKeepsInv ==
  ASSUME Inv, NEW s \in Streams, EndOfFile(s)
  PROVE  Inv'
<1>1. /\ task[s] = "reading" /\ pipe[s] = <<>>
      /\ task' = [task EXCEPT ![s] = "ended"]
      /\ UNCHANGED <<caller, programs, pipe, raw, last, errText, outcome>>
  BY DEF EndOfFile, EndTask
<1>2. /\ task' \in [Streams -> {"reading", "ended", "panicked"}] /\ task'[s] = "ended"
      /\ \A t \in Streams : t = s \/ task'[t] = task[t]
  BY <1>1 DEF Inv, TypeOK
<1>3. TypeOK'
  BY <1>1, <1>2 DEF Inv, TypeOK, programs
<1>4. PipesInv'
  <2>1. task["stdout"] = "ended" => task'["stdout"] = "ended"
    BY <1>2 DEF Streams
  <2>2. \A t \in Streams : task'[t] = "ended" => pipe[t] = <<>>
    BY <1>1, <1>2 DEF Inv, PipesInv
  <2> QED
    BY <1>1, <2>1, <2>2 DEF Inv, PipesInv, programs
<1>5. LastInv'
  BY <1>1 DEF Inv, LastInv
<1>6. CallerInv'
  BY <1>1, <1>2, NoAnswerYet, CallerStays
<1> QED
  BY <1>3, <1>4, <1>5, <1>6 DEF Inv

\* What is kept is the last result event of one line more.
LEMMA LastIsKept ==
  ASSUME LastInv, raw \in Seq(Lines), NEW line \in Lines,
         last \in [kind : ResultKinds, n : 1..MaxLines] \cup {NoLine},
         raw' = Append(raw, line), last' = LastResult(line)
  PROVE  LastInv' /\ last' \in [kind : ResultKinds, n : 1..MaxLines] \cup {NoLine}
<1>1. /\ Len(raw) \in Nat /\ Len(raw') = Len(raw) + 1 /\ raw'[Len(raw) + 1] = line
      /\ \A i \in 1..Len(raw) : raw'[i] = raw[i]
  BY AppendIs
<1>2. \A i \in 1..Len(raw') : i \in 1..Len(raw) \/ i = Len(raw) + 1
  BY <1>1
<1>3. CASE line.kind \in ResultKinds
  <2>1. last' = line
    BY <1>3 DEF LastResult
  <2>2. line # NoLine /\ line \in [kind : ResultKinds, n : 1..MaxLines]
    BY <1>3 DEF NoLine, ResultKinds, Lines
  <2>3. \A k \in 1..Len(raw') : k <= Len(raw) + 1
    BY <1>1
  <2> QED
    BY <1>1, <2>1, <2>2, <2>3 DEF LastInv
<1>4. CASE line.kind \notin ResultKinds
  <2>1. last' = last
    BY <1>4 DEF LastResult
  <2>2. CASE last = NoLine
    BY <1>1, <1>2, <1>4, <2>1, <2>2 DEF LastInv
  <2>3. CASE last # NoLine
    <3>1. PICK i \in 1..Len(raw) :
            raw[i] = last /\ \A k \in 1..Len(raw) : raw[k].kind \in ResultKinds => k <= i
      BY <2>3 DEF LastInv
    <3>2. i \in 1..Len(raw') /\ raw'[i] = last'
      BY <1>1, <2>1, <3>1
    <3>3. \A k \in 1..Len(raw') : raw'[k].kind \in ResultKinds => k <= i
      BY <1>1, <1>2, <1>4, <3>1
    <3> QED
      BY <2>1, <2>3, <3>2, <3>3 DEF LastInv
  <2> QED
    BY <2>1, <2>2, <2>3
<1> QED
  BY <1>3, <1>4

LEMMA StreamStdoutKeepsInv ==
  ASSUME Inv, StreamStdout
  PROVE  Inv'
<1>1. "stderr" \in Streams /\ "stdout" \in Streams
  BY DEF Streams
<1>2. /\ pipe \in [Streams -> Seq(Lines)] /\ written["stdout"] \in Seq(Lines)
      /\ raw \in Seq(Lines) /\ pipe["stdout"] \in Seq(Lines)
      /\ last \in [kind : ResultKinds, n : 1..MaxLines] \cup {NoLine}
  BY <1>1 DEF Inv, TypeOK
<1>3. /\ pipe["stdout"] # <<>> /\ task["stdout"] = "reading"
      /\ UNCHANGED <<caller, programs, errText, outcome>>
  BY DEF StreamStdout
<1>4. /\ Head(pipe["stdout"]) \in Lines /\ Tail(pipe["stdout"]) \in Seq(Lines)
      /\ Head(pipe["stdout"]) = pipe["stdout"][1] /\ Len(pipe["stdout"]) >= 1
      /\ Len(Tail(pipe["stdout"])) = Len(pipe["stdout"]) - 1 /\ Len(pipe["stdout"]) \in Nat
  BY <1>2, <1>3, TailIs
<1>5. PICK line \in Lines : line = Head(pipe["stdout"])
  BY <1>4
<1>6. Splits(written["stdout"], raw, pipe["stdout"])
  BY <1>3 DEF Inv, PipesInv
<1>7. \A s \in Streams : task[s] = "ended" => task'[s] = "ended"
  BY DEF StreamStdout, EndTask, Inv, TypeOK
<1>8. CallerInv'
  BY <1>1, <1>3, <1>7, NoAnswerYet, CallerStays
<1>9. CASE /\ line.kind = "garbled" /\ task' = [task EXCEPT !["stdout"] = "ended"]
           /\ pipe' = [pipe EXCEPT !["stdout"] = <<>>] /\ UNCHANGED <<raw, last>>
  <2>1. <<>> \in Seq(Lines) /\ Len(<<>>) = 0
    OBVIOUS
  <2>2. /\ pipe' \in [Streams -> Seq(Lines)]
        /\ pipe'["stdout"] = <<>> /\ pipe'["stderr"] = pipe["stderr"]
        /\ \A s \in Streams : s = "stdout" \/ pipe'[s] = pipe[s]
    BY <1>1, <1>2, <1>9, <2>1
  <2>3. \A s \in Streams : Len(pipe'[s]) <= PipeCapacity
    <3>1. Len(pipe'["stdout"]) <= PipeCapacity
      BY <2>1, <2>2, CallAssumption
    <3> QED
      BY <2>2, <3>1 DEF Inv, TypeOK
  <2>4. /\ task' \in [Streams -> {"reading", "ended", "panicked"}] /\ task'["stdout"] = "ended"
        /\ \A s \in Streams : s = "stdout" \/ task'[s] = task[s]
    BY <1>1, <1>9 DEF Inv, TypeOK
  <2>5. TypeOK'
    BY <1>3, <1>9, <2>2, <2>3, <2>4 DEF Inv, TypeOK, programs
  <2>6. StoppedAt(written["stdout"], raw)
    <3>1. Len(raw) \in Nat
      BY <1>2
    <3>2. Len(raw) < Len(written["stdout"])
      BY <1>4, <1>6, <3>1 DEF Splits
    <3>3. written["stdout"][Len(raw) + 1] = line
      BY <1>4, <1>5, <1>6 DEF Splits
    <3> QED
      BY <1>6, <1>9, <3>2, <3>3 DEF Splits, StoppedAt
  <2>7. \A s \in Streams : task'[s] = "ended" => pipe'[s] = <<>>
    BY <2>2, <2>4 DEF Inv, PipesInv
  <2>8. PipesInv'
    BY <1>3, <1>9, <2>2, <2>4, <2>6, <2>7 DEF Inv, PipesInv, programs
  <2>9. LastInv'
    BY <1>9 DEF Inv, LastInv
  <2> QED
    BY <1>8, <2>5, <2>8, <2>9 DEF Inv
<1>10. CASE /\ line.kind # "garbled" /\ task' = task
            /\ pipe' = [pipe EXCEPT !["stdout"] = Tail(pipe["stdout"])]
            /\ raw' = Append(raw, line) /\ last' = LastResult(line)
  <2>1. /\ pipe' \in [Streams -> Seq(Lines)]
        /\ pipe'["stdout"] = Tail(pipe["stdout"]) /\ pipe'["stderr"] = pipe["stderr"]
        /\ \A s \in Streams : s = "stdout" \/ pipe'[s] = pipe[s]
    BY <1>1, <1>2, <1>4, <1>10
  <2>2. \A s \in Streams : Len(pipe'[s]) <= PipeCapacity
    <3>1. Len(pipe'["stdout"]) <= PipeCapacity
      BY <1>1, <1>4, <2>1, CallAssumption DEF Inv, TypeOK
    <3> QED
      BY <2>1, <3>1 DEF Inv, TypeOK
  <2>3. /\ raw' \in Seq(Lines) /\ Len(raw) \in Nat /\ Len(raw') = Len(raw) + 1
        /\ raw'[Len(raw) + 1] = line /\ \A i \in 1..Len(raw) : raw'[i] = raw[i]
    BY <1>2, <1>10, AppendIs
  <2>4. LastInv' /\ last' \in [kind : ResultKinds, n : 1..MaxLines] \cup {NoLine}
    BY <1>2, <1>10, LastIsKept DEF Inv
  <2>5. TypeOK'
    BY <1>3, <1>10, <2>1, <2>2, <2>3, <2>4 DEF Inv, TypeOK, programs
  <2>6. Splits(written["stdout"], raw', pipe'["stdout"])
    <3>1. Splits(written["stdout"], Append(raw, line), Tail(pipe["stdout"]))
      BY <1>2, <1>3, <1>5, <1>6, TakeSplits
    <3> QED
      BY <1>10, <2>1, <3>1
  <2>7. \A s \in Streams : task[s] = "ended" => pipe'[s] = <<>>
    BY <1>3, <2>1 DEF Inv, PipesInv
  <2>8. \A i \in 1..Len(raw') : raw'[i].kind # "garbled"
    <3>1. \A i \in 1..Len(raw') : i \in 1..Len(raw) \/ i = Len(raw) + 1
      BY <2>3
    <3> QED
      BY <1>10, <2>3, <3>1 DEF Inv, PipesInv
  <2>9. PipesInv'
    BY <1>3, <1>10, <2>1, <2>6, <2>7, <2>8 DEF Inv, PipesInv, programs
  <2> QED
    BY <1>8, <2>4, <2>5, <2>9 DEF Inv
<1>11. \/ /\ line.kind = "garbled" /\ task' = [task EXCEPT !["stdout"] = "ended"]
          /\ pipe' = [pipe EXCEPT !["stdout"] = <<>>] /\ UNCHANGED <<raw, last>>
       \/ /\ line.kind # "garbled" /\ task' = task
          /\ pipe' = [pipe EXCEPT !["stdout"] = Tail(pipe["stdout"])]
          /\ raw' = Append(raw, line) /\ last' = LastResult(line)
  BY <1>5 DEF StreamStdout, EndTask, Take, LastResult
<1> QED
  BY <1>9, <1>10, <1>11

-----------------------------------------------------------------------------
(* The theorems.                                                           *)

LEMMA InvInit ==
  Init => Inv
<1> SUFFICES ASSUME Init PROVE Inv
  OBVIOUS
<1>1. <<>> \in Seq(Lines) /\ Len(<<>>) = 0
  OBVIOUS
<1>2. "stderr" \in Streams /\ "stdout" \in Streams
  BY DEF Streams
<1>3. [is |-> "pending"] \in Outcomes
  BY DEF Outcomes
<1>4. TypeOK
  <2>1. pipe \in [Streams -> Seq(Lines)] /\ written \in [Streams -> Seq(Lines)]
    BY <1>1 DEF Init
  <2>2. \A s \in Streams : pipe[s] = <<>>
    BY DEF Init
  <2>3. \A s \in Streams : Len(pipe[s]) <= PipeCapacity
    BY <1>1, <2>2, CallAssumption
  <2>4. writing \in [Writers -> [to : Streams, line : Lines] \cup {NoWrite}]
    BY DEF Init
  <2>5. task \in [Streams -> {"reading", "ended", "panicked"}]
    BY DEF Init
  <2>6. writers \subseteq Writers /\ forked \in BOOLEAN
    BY Zenon DEF Init
  <2>7. begun \in 0..MaxLines
    BY CallAssumption DEF Init
  <2>8. raw \in Seq(Lines) /\ errText \in Seq(Lines) /\ outcome \in Outcomes
    BY <1>1, <1>3 DEF Init
  <2> QED
    BY <2>1, <2>3, <2>4, <2>5, <2>6, <2>7, <2>8 DEF Init, TypeOK
<1>5. PipesInv
  BY <1>1, <1>2 DEF Init, PipesInv, Splits
<1>6. LastInv
  BY <1>1 DEF Init, LastInv
<1>7. CallerInv
  BY DEF Init, CallerInv
<1> QED
  BY <1>4, <1>5, <1>6, <1>7 DEF Inv

LEMMA InvNext ==
  ASSUME Inv, [Next]_vars
  PROVE  Inv'
<1>1. CASE Next
  <2>1. CASE Execute
    BY <2>1, SpawnKeepsInv, SpawnFailsKeepsInv, WaitForExitKeepsInv, WaitFailsKeepsInv,
       JoinFailsKeepsInv, ReturnKeepsInv DEF Execute
  <2>2. CASE StreamStdout \/ StdoutPanics \/ CollectStderr \/ \E s \in Streams : EndOfFile(s)
    BY <2>2, StreamStdoutKeepsInv, StdoutPanicsKeepsInv, CollectStderrKeepsInv, EndOfFileKeepsInv
  <2>3. ASSUME NEW w \in Writers,
               \/ \E k \in OutKinds : BeginWrite(w, "stdout", k)
               \/ \E k \in ErrKinds : BeginWrite(w, "stderr", k)
               \/ EndWrite(w)
        PROVE  Inv'
    <3>1. "stderr" \in Streams /\ "stdout" \in Streams
      BY DEF Streams
    <3> QED
      BY <2>3, <3>1, BeginWriteKeepsInv, EndWriteKeepsInv
  <2>4. CASE Fork \/ (\E code \in {"success", "failure"} : Exit(code)) \/ LeftoverEnds
    BY <2>4, ForkKeepsInv, ExitKeepsInv, LeftoverEndsKeepsInv
  <2> QED
    BY <1>1, <2>1, <2>2, <2>3, <2>4 DEF Next
<1>2. CASE UNCHANGED vars
  BY <1>2 DEF vars, Inv, TypeOK, PipesInv, LastInv, CallerInv
<1> QED
  BY <1>1, <1>2

\* All that is known of a call, its pipes and its tasks at any time.
LEMMA InvHolds == Spec => []Inv
<1>1. Inv /\ [Next]_vars => Inv'
  BY InvNext
<1> QED
  BY InvInit, <1>1, PTL DEF Spec

\* Once both tasks have ended nothing of stdout is left but what comes after
\* a line that is not UTF-8.
LEMMA StdoutIsRead ==
  ASSUME Inv, task["stdout"] = "ended"
  PROVE  raw = Readable(written["stdout"])
<1>1. /\ raw \in Seq(Lines) /\ written["stdout"] \in Seq(Lines) /\ pipe["stdout"] = <<>>
      /\ \A i \in 1..Len(raw) : raw[i].kind # "garbled"
  BY DEF Inv, TypeOK, PipesInv, Streams
<1>2. CASE Splits(written["stdout"], raw, pipe["stdout"])
  <2>1. Splits(written["stdout"], raw, <<>>)
    BY <1>1, <1>2
  <2> QED
    BY <1>1, <2>1, AllIsReadable
<1>3. CASE StoppedAt(written["stdout"], raw)
  BY <1>1, <1>3, ReadableUpTo
<1> QED
  BY <1>2, <1>3 DEF Inv, PipesInv

\* Every state is of its type (agent/claude_code.rs): no pipe holds more than
\* it can, the kept result is a result event, and whatever execute returns is
\* a result or one of AgentError's kinds.
THEOREM TypeIsCorrect == Spec => []TypeOK
<1>1. Inv => TypeOK
  BY DEF Inv
<1> QED
  BY InvHolds, <1>1, PTL

\* A call that returns has read all that its program, and the one left behind,
\* have written to stderr, and of stdout all up to a line that is not UTF-8
\* (execute, stream_stdout, collect_stderr): unless it gives up with an Io
\* error it returns when both tasks have ended, and they end with their pipe,
\* whatever is written after the exit.
THEOREM NothingIsEverLost == Spec => []NothingIsLost
<1>1. Inv => NothingIsLost
  <2> SUFFICES ASSUME Inv, caller = "returned", outcome.is # "Io"
               PROVE  errText = written["stderr"] /\ raw = Readable(written["stdout"])
    BY DEF NothingIsLost
  <2>1. task["stderr"] = "ended" /\ task["stdout"] = "ended"
    BY DEF Inv, CallerInv, Streams
  <2>2. raw = Readable(written["stdout"])
    BY <2>1, StdoutIsRead
  <2>3. /\ errText \in Seq(Lines) /\ written["stderr"] \in Seq(Lines)
        /\ pipe["stderr"] = <<>> /\ Splits(written["stderr"], errText, pipe["stderr"])
    BY <2>1 DEF Inv, TypeOK, PipesInv, Streams
  <2>4. errText = written["stderr"]
    <3>1. Len(<<>>) = 0 /\ Len(written["stderr"]) = Len(errText)
      BY <2>3 DEF Splits
    <3> QED
      BY <2>3, <3>1 DEF Splits
  <2> QED
    BY <2>2, <2>4
<1> QED
  BY InvHolds, <1>1, PTL

\* A call succeeds only with the text of the last result event that can be
\* read, and only if the program exited with success (stream_stdout, execute):
\* the task keeps the last of those it has read, and has read all by then.
THEOREM AnswerIsAlwaysTheLastWord == Spec => []AnswerIsTheLastWord
<1>1. Inv => AnswerIsTheLastWord
  <2> SUFFICES ASSUME Inv, outcome.is = "ok"
               PROVE  AnswerIsTheLastWord
    BY DEF AnswerIsTheLastWord
  <2>1. /\ caller = "returned" /\ status = "success"
        /\ outcome.text = last /\ last.kind = "answer"
    BY DEF Inv, CallerInv
  <2>2. task["stdout"] = "ended"
    BY <2>1 DEF Inv, CallerInv, Streams
  <2>3. raw = Readable(written["stdout"]) /\ raw \in Seq(Lines)
    BY <2>2, StdoutIsRead DEF Inv, TypeOK
  <2>4. PICK i \in 1..Len(raw) :
          raw[i] = last /\ \A k \in 1..Len(raw) : raw[k].kind \in ResultKinds => k <= i
    BY <2>1 DEF Inv, LastInv, NoLine
  <2>5. DOMAIN raw = 1..Len(raw) /\ last.kind \in ResultKinds
    BY <2>1, <2>3 DEF ResultKinds
  <2>6. \E j \in {k \in DOMAIN raw : raw[k].kind \in ResultKinds} :
          /\ outcome.text = raw[j]
          /\ \A k \in {k \in DOMAIN raw : raw[k].kind \in ResultKinds} : k <= j
    BY <2>1, <2>4, <2>5
  <2> QED
    BY <2>1, <2>3, <2>6 DEF AnswerIsTheLastWord
<1> QED
  BY InvHolds, <1>1, PTL
=============================================================================

---------------------------- MODULE FrontEndProofs ----------------------------
(***************************************************************************)
(* Proofs about the two ways in which people reach ksforge: comments on a  *)
(* pull request (PullRequestJobs) and a terminal (Console).  They are for  *)
(* any comments, executions, slots, gates, lines and bounds; a theorem     *)
(* that needs the callers to keep the jobs of one comment and those of one *)
(* execution apart assumes Apart.                                          *)
(***************************************************************************)
EXTENDS PullRequestJobs, Console, FiniteSetTheorems, WellFoundedInduction, TLAPS

LEMMA LeastNumber ==
  ASSUME NEW T \in SUBSET Nat, T # {}
  PROVE  \E m \in T : \A n \in T : m <= n
<1>1. \E m \in T : \A n \in T : ~ (<<n, m>> \in OpToRel(<, Nat))
  BY NatLessThanWellFounded, WFMin
<1>2. OpToRel(<, Nat) = {ss \in Nat \X Nat : ss[1] < ss[2]}
  BY Zenon DEF OpToRel
<1>3. \A m, n \in Nat : n < m => <<n, m>> \in {ss \in Nat \X Nat : ss[1] < ss[2]}
  OBVIOUS
<1>4. \E m \in T : \A n \in T : ~(n < m)
  BY <1>1, <1>2, <1>3
<1> QED
  BY <1>4

-----------------------------------------------------------------------------
(* Jobs that nobody keeps apart.                                           *)

Early == {"checking", "authorizing", "accepted"}

\* What a job relies on, whatever runs beside it.
Sound(p) ==
  /\ p.at \in Early => p.comment \in Comments
  /\ p.at \in {"saving", "running", "paused", "stopped", "looking", "posting"} =>
       p.execution \in Executions
  /\ p.at \in {"saving", "running", "paused", "looking", "posting"} => p.copy \in Records
  /\ p.at = "saving" => p.next \in {"running", "paused", "stopped"}
  /\ p.at = "posting" /\ p.target # 0 =>
       p.target \in DOMAIN reports /\ reports[p.target].marker = p.execution

\* The jobs of a comment that have not started their execution yet.
Coming(c) == {j \in Jobs : job[j].comment = c /\ job[j].at \in Early}

Counted(c) ==
  /\ IsFiniteSet(runs[c]) /\ IsFiniteSet(Coming(c))
  /\ Cardinality(runs[c]) + Cardinality(Coming(c)) <= delivered[c]

JobsInv ==
  /\ TypeOK
  /\ \A j \in Jobs : Sound(job[j])
  /\ \A c \in Comments : Counted(c)

LEMMA NothingIsNone ==
  /\ NoComment \notin Comments /\ NoExecution \notin Executions
  /\ MaxGates \in Nat /\ MaxDeliveries \in Nat
BY JobsAssumption

LEMMA FreeIs ==
  /\ Free \in Processes /\ Free.at = "none" /\ Free.comment = NoComment
  /\ Free.execution = NoExecution
BY DEF Free, Processes, Places

\* The comments stay, each with its marker.
MarkersKept ==
  \A i \in DOMAIN reports : i \in DOMAIN reports' /\ reports'[i].marker = reports[i].marker

LEMMA JobsStaySound ==
  ASSUME JobsInv, NEW j \in Jobs, NEW new \in Processes, Becomes(j, new), Sound(new)',
         MarkersKept
  PROVE  /\ job' \in [Jobs -> Processes] /\ job'[j] = new
         /\ \A k \in Jobs \ {j} : job'[k] = job[k]
         /\ \A k \in Jobs : Sound(job[k])'
<1>1. /\ job' \in [Jobs -> Processes] /\ job'[j] = new
      /\ \A k \in Jobs \ {j} : job'[k] = job[k]
  BY DEF JobsInv, TypeOK, Becomes
<1>2. ASSUME NEW k \in Jobs
      PROVE  Sound(job[k])'
  <2>1. CASE k = j
    BY <1>1, <2>1 DEF Sound
  <2>2. CASE k # j
    <3>1. Sound(job[k]) /\ job'[k] = job[k]
      BY <1>1, <2>2 DEF JobsInv
    <3> QED
      BY <3>1 DEF Sound, MarkersKept
  <2> QED
    BY <2>1, <2>2
<1> QED
  BY <1>1, <1>2

\* No delivery and no start: a job may only leave its comment behind.
LEMMA CountStays ==
  ASSUME JobsInv, NEW j \in Jobs, NEW new, job'[j] = new,
         \A k \in Jobs \ {j} : job'[k] = job[k], UNCHANGED <<runs, delivered>>,
         new.at \in Early => job[j].at \in Early /\ new.comment = job[j].comment
  PROVE  \A c \in Comments : Counted(c)'
<1> SUFFICES ASSUME NEW c \in Comments PROVE Counted(c)'
  OBVIOUS
<1>1. /\ IsFiniteSet(runs[c]) /\ IsFiniteSet(Coming(c))
      /\ Cardinality(runs[c]) + Cardinality(Coming(c)) <= delivered[c]
      /\ delivered[c] \in Nat
  BY NothingIsNone DEF JobsInv, TypeOK, Counted
<1>2. Coming(c)' \subseteq Coming(c)
  BY DEF Coming
<1>3. IsFiniteSet(Coming(c)') /\ Cardinality(Coming(c)') <= Cardinality(Coming(c))
  BY <1>1, <1>2, FS_Subset
<1>4. /\ Cardinality(Coming(c)) \in Nat /\ Cardinality(Coming(c)') \in Nat
      /\ Cardinality(runs[c]) \in Nat
  BY <1>1, <1>3, FS_CardinalityType
<1> QED
  BY <1>1, <1>3, <1>4 DEF Counted

\* A step of one job that delivers nothing and starts nothing.
LEMMA StepKeepsJobsInv ==
  ASSUME JobsInv, NEW j \in Jobs, NEW new \in Processes, Becomes(j, new), Sound(new)',
         new.at \in Early => job[j].at \in Early /\ new.comment = job[j].comment,
         disk' \in [Executions -> Records \cup {Absent, Torn}],
         marked' \subseteq Comments, reports' \in Seq(Posts), MarkersKept,
         unreported' \subseteq Executions, UNCHANGED <<runs, delivered>>
  PROVE  JobsInv'
<1>1. /\ job' \in [Jobs -> Processes] /\ job'[j] = new
      /\ \A k \in Jobs \ {j} : job'[k] = job[k]
      /\ \A k \in Jobs : Sound(job[k])'
  BY JobsStaySound
<1>2. TypeOK'
  BY <1>1 DEF JobsInv, TypeOK
<1>3. \A c \in Comments : Counted(c)'
  BY <1>1, CountStays
<1> QED
  BY <1>1, <1>2, <1>3 DEF JobsInv

\* One that changes nothing of what the jobs share.
LEMMA QuietStepKeepsJobsInv ==
  ASSUME JobsInv, NEW j \in Jobs, NEW new \in Processes, Becomes(j, new), Sound(new),
         new.at \in Early => job[j].at \in Early /\ new.comment = job[j].comment,
         UNCHANGED <<disk, reports, runs, delivered, unreported>>, marked' \subseteq Comments
  PROVE  JobsInv' /\ MarkersKept
<1>1. Sound(new)'
  BY DEF Sound
<1>2. MarkersKept
  BY DEF MarkersKept
<1> QED
  BY <1>1, <1>2, StepKeepsJobsInv DEF JobsInv, TypeOK

LEMMA JobIsSound ==
  ASSUME JobsInv, NEW j \in Jobs
  PROVE  job[j] \in Processes /\ Sound(job[j]) /\ marked \subseteq Comments
BY DEF JobsInv, TypeOK

LEMMA EndKeepsJobsInv ==
  ASSUME JobsInv, NEW j \in Jobs, Ends(j),
         UNCHANGED <<disk, marked, reports, delivered, runs, unreported>>
  PROVE  JobsInv' /\ MarkersKept
<1>1. Sound(Free)
  BY FreeIs DEF Sound, Early
<1> QED
  BY <1>1, FreeIs, JobIsSound, QuietStepKeepsJobsInv DEF Ends, Early

LEMMA DeliverKeepsJobsInv ==
  ASSUME JobsInv, NEW c \in Comments, NEW j \in Jobs, Deliver(c, j)
  PROVE  JobsInv' /\ MarkersKept
<1> DEFINE new == [Free EXCEPT !.at = "checking", !.comment = c]
<1>1. new \in Processes /\ new.at = "checking" /\ new.comment = c
  BY DEF Free, Processes, Places
<1>2. /\ Becomes(j, new) /\ job[j].at = "none"
      /\ delivered[c] < MaxDeliveries /\ delivered' = [delivered EXCEPT ![c] = @ + 1]
      /\ UNCHANGED <<disk, marked, reports, runs, unreported>>
  BY DEF Deliver, MayStart, Busy
<1> HIDE DEF new
<1>3. Sound(new)' /\ MarkersKept
  BY <1>1, <1>2 DEF Sound, Early, MarkersKept
<1>4. /\ job' \in [Jobs -> Processes] /\ job'[j] = new
      /\ \A k \in Jobs \ {j} : job'[k] = job[k]
      /\ \A k \in Jobs : Sound(job[k])'
  BY <1>1, <1>2, <1>3, JobsStaySound
<1>5. delivered \in [Comments -> 0..MaxDeliveries]
  BY DEF JobsInv, TypeOK
<1>6. TypeOK'
  BY <1>2, <1>4, <1>5, NothingIsNone DEF JobsInv, TypeOK
<1>7. ASSUME NEW d \in Comments
      PROVE  Counted(d)'
  <2>1. /\ IsFiniteSet(runs[d]) /\ IsFiniteSet(Coming(d))
        /\ Cardinality(runs[d]) + Cardinality(Coming(d)) <= delivered[d]
    BY DEF JobsInv, Counted
  <2>2. /\ Cardinality(runs[d]) \in Nat /\ Cardinality(Coming(d)) \in Nat
        /\ delivered[d] \in Nat
    BY <1>5, <2>1, NothingIsNone, FS_CardinalityType
  <2>3. CASE d = c
    <3>1. Coming(d)' = Coming(d) \cup {j} /\ j \notin Coming(d)
      BY <1>1, <1>2, <1>4, <2>3 DEF Coming, Early
    <3>2. IsFiniteSet(Coming(d)') /\ Cardinality(Coming(d)') = Cardinality(Coming(d)) + 1
      BY <2>1, <3>1, FS_AddElement
    <3>3. delivered'[d] = delivered[d] + 1 /\ runs'[d] = runs[d]
      BY <1>2, <1>5, <2>3
    <3> QED
      BY <2>1, <2>2, <3>2, <3>3 DEF Counted
  <2>4. CASE d # c
    <3>1. Coming(d)' = Coming(d)
      BY <1>1, <1>2, <1>4, <2>4 DEF Coming, Early
    <3>2. delivered'[d] = delivered[d] /\ runs'[d] = runs[d]
      BY <1>2, <1>5, <2>4
    <3> QED
      BY <2>1, <3>1, <3>2 DEF Counted
  <2> QED
    BY <2>3, <2>4
<1> QED
  BY <1>3, <1>4, <1>6, <1>7 DEF JobsInv

\* Steps on the way to the start of an execution.
LEMMA EarlyStepKeepsJobsInv ==
  ASSUME JobsInv, NEW j \in Jobs, CheckMarker(j) \/ Refuse(j) \/ Accept(j)
  PROVE  JobsInv' /\ MarkersKept
<1>1. /\ job[j].at \in Early
      /\ UNCHANGED <<disk, reports, delivered, runs, unreported>>
  BY DEF CheckMarker, Refuse, Accept, Early
<1>2. CASE Ends(j) /\ UNCHANGED marked
  BY <1>1, <1>2, EndKeepsJobsInv
<1>3. ASSUME NEW place \in Early, MovesTo(j, place), marked' \in {marked, marked \cup {job[j].comment}}
      PROVE  JobsInv' /\ MarkersKept
  <2>1. PICK p \in Processes : p = job[j] /\ Sound(p)
    BY JobIsSound
  <2> DEFINE new == [p EXCEPT !.at = place]
  <2>2. /\ new \in Processes /\ new.at = place /\ new.comment = p.comment /\ Becomes(j, new)
    BY <1>3, <2>1 DEF Processes, Places, MovesTo, Early
  <2> HIDE DEF new
  <2>3. p.comment \in Comments
    BY <1>1, <2>1 DEF Sound
  <2>4. Sound(new)
    BY <1>3, <2>2, <2>3 DEF Sound, Early
  <2>5. marked' \subseteq Comments
    BY <1>3, <2>1, <2>3, JobIsSound
  <2> QED
    BY <1>1, <2>1, <2>2, <2>4, <2>5, QuietStepKeepsJobsInv
<1>4. \/ Ends(j) /\ UNCHANGED marked
      \/ MovesTo(j, "authorizing") /\ UNCHANGED marked
      \/ MovesTo(j, "accepted") /\ marked' = marked \cup {job[j].comment}
  BY DEF CheckMarker, Refuse, Accept
<1> QED
  BY <1>2, <1>3, <1>4 DEF Early

\* A save begins.
LEMMA SaveIsTyped ==
  ASSUME JobsInv, NEW j \in Jobs, NEW from \in Processes, NEW e \in Executions,
         NEW saved \in Records, NEW next \in {"running", "paused", "stopped"},
         BeginSave(j, from, e, saved, next)
  PROVE  \E new \in Processes :
           /\ new.at = "saving" /\ new.comment = from.comment /\ Becomes(j, new)
           /\ Sound(new) /\ disk' \in [Executions -> Records \cup {Absent, Torn}]
           /\ unreported' \subseteq Executions
<1> DEFINE new == [from EXCEPT !.at = "saving", !.next = next, !.execution = e, !.copy = saved]
<1>1. /\ new \in Processes /\ new.at = "saving" /\ new.next = next
      /\ new.comment = from.comment /\ new.execution = e /\ new.copy = saved
  BY DEF Processes, Places
<1>2. /\ Becomes(j, new)
      /\ disk' = [disk EXCEPT ![e] = Torn] /\ unreported' = unreported \cup {e}
  BY DEF BeginSave
<1> HIDE DEF new
<1>3. disk' \in [Executions -> Records \cup {Absent, Torn}] /\ unreported' \subseteq Executions
  BY <1>2 DEF JobsInv, TypeOK
<1>4. Sound(new)
  BY <1>1 DEF Sound, Early
<1> QED
  BY <1>1, <1>2, <1>3, <1>4

LEMMA SaveKeepsJobsInv ==
  ASSUME JobsInv, NEW j \in Jobs, NEW from \in Processes, NEW e \in Executions,
         NEW saved \in Records, NEW next \in {"running", "paused", "stopped"},
         BeginSave(j, from, e, saved, next), UNCHANGED <<marked, reports, delivered, runs>>
  PROVE  JobsInv' /\ MarkersKept
<1>1. PICK new \in Processes :
        /\ new.at = "saving" /\ Becomes(j, new) /\ Sound(new)
        /\ disk' \in [Executions -> Records \cup {Absent, Torn}]
        /\ unreported' \subseteq Executions
  BY SaveIsTyped
<1>2. MarkersKept /\ Sound(new)'
  BY <1>1 DEF MarkersKept, Sound
<1>3. marked' \subseteq Comments /\ reports' \in Seq(Posts)
  BY DEF JobsInv, TypeOK
<1> QED
  BY <1>1, <1>2, <1>3, StepKeepsJobsInv DEF Early

\* The execution of a comment: one more started, one fewer to come.
LEMMA StartKeepsJobsInv ==
  ASSUME JobsInv, NEW j \in Jobs, NEW e \in Executions, StartExecution(j, e)
  PROVE  JobsInv' /\ MarkersKept
<1>1. /\ job[j].at = "accepted" /\ BeginSave(j, job[j], e, Started, "running")
      /\ runs' = [runs EXCEPT ![job[j].comment] = @ \cup {e}]
      /\ UNCHANGED <<marked, reports, delivered>>
  BY DEF StartExecution
<1>2. Started \in Records
  BY NothingIsNone DEF Started, Records, Statuses
<1>3. PICK p \in Processes : p = job[j] /\ Sound(p)
  BY JobIsSound
<1>4. PICK c \in Comments : c = p.comment
  BY <1>1, <1>3 DEF Sound, Early
<1>5. BeginSave(j, p, e, Started, "running")
  BY <1>1, <1>3 DEF BeginSave, Becomes
<1>6. PICK new \in Processes :
        /\ new.at = "saving" /\ Becomes(j, new) /\ Sound(new)
        /\ disk' \in [Executions -> Records \cup {Absent, Torn}]
        /\ unreported' \subseteq Executions
  BY <1>2, <1>5, SaveIsTyped
<1>7. MarkersKept /\ Sound(new)'
  BY <1>1, <1>6 DEF MarkersKept, Sound
<1>8. /\ job' \in [Jobs -> Processes] /\ job'[j] = new
      /\ \A k \in Jobs \ {j} : job'[k] = job[k]
      /\ \A k \in Jobs : Sound(job[k])'
  BY <1>6, <1>7, JobsStaySound
<1>9. /\ runs' \in [Comments -> SUBSET Executions] /\ runs'[c] = runs[c] \cup {e}
      /\ \A d \in Comments \ {c} : runs'[d] = runs[d]
  BY <1>1, <1>3, <1>4 DEF JobsInv, TypeOK
<1>10. TypeOK'
  BY <1>1, <1>6, <1>8, <1>9 DEF JobsInv, TypeOK
<1>11. ASSUME NEW d \in Comments
       PROVE  Counted(d)'
  <2>1. /\ IsFiniteSet(runs[d]) /\ IsFiniteSet(Coming(d))
        /\ Cardinality(runs[d]) + Cardinality(Coming(d)) <= delivered[d]
        /\ delivered'[d] = delivered[d] /\ delivered[d] \in Nat
    BY <1>1, NothingIsNone DEF JobsInv, Counted, TypeOK
  <2>2. Cardinality(runs[d]) \in Nat /\ Cardinality(Coming(d)) \in Nat
    BY <2>1, FS_CardinalityType
  <2>3. CASE d = c
    <3>1. j \in Coming(d) /\ Coming(d)' = Coming(d) \ {j}
      BY <1>1, <1>3, <1>4, <1>6, <1>8, <2>3 DEF Coming, Early
    <3>2. /\ IsFiniteSet(Coming(d)')
          /\ Cardinality(Coming(d)') = Cardinality(Coming(d)) - 1
      BY <2>1, <3>1, FS_RemoveElement
    <3>3. IsFiniteSet(runs'[d]) /\ Cardinality(runs'[d]) <= Cardinality(runs[d]) + 1
      <4>1. runs'[d] = runs[d] \cup {e}
        BY <1>9, <2>3
      <4>2. IsFiniteSet(runs'[d]) /\ Cardinality(runs'[d]) \in
              {Cardinality(runs[d]), Cardinality(runs[d]) + 1}
        BY <2>1, <4>1, FS_AddElement
      <4> QED
        BY <2>2, <4>2
    <3>4. Cardinality(runs'[d]) \in Nat
      BY <3>3, FS_CardinalityType
    <3> QED
      BY <2>1, <2>2, <3>2, <3>3, <3>4 DEF Counted
  <2>4. CASE d # c
    <3>1. Coming(d)' = Coming(d)
      BY <1>3, <1>4, <1>6, <1>8, <2>4 DEF Coming, Early
    <3> QED
      BY <1>9, <2>1, <2>4, <3>1 DEF Counted
  <2> QED
    BY <2>3, <2>4
<1> QED
  BY <1>7, <1>8, <1>10, <1>11 DEF JobsInv

\* A process that starts on an execution on disk, and saves it changed.
LEMMA NewProcessKeepsJobsInv ==
  ASSUME JobsInv, NEW j \in Jobs, NEW e \in Executions,
         Resume(j, e) \/ Cancel(j, e) \/ PostReport(j, e)
  PROVE  JobsInv' /\ MarkersKept
<1>1. CASE Resume(j, e)
  <2>1. disk[e] \in Records
    BY <1>1 DEF Resume, JobsInv, TypeOK, Absent, Torn
  <2>2. [disk[e] EXCEPT !.status = "Running"] \in Records
    BY <2>1 DEF Records, Statuses
  <2> QED
    BY <1>1, <2>2, FreeIs, SaveKeepsJobsInv DEF Resume
<1>2. CASE Cancel(j, e)
  <2>1. disk[e] \in Records
    BY <1>2 DEF Cancel, JobsInv, TypeOK, Absent, Torn, Statuses
  <2>2. [disk[e] EXCEPT !.status = "Cancelled"] \in Records
    BY <2>1 DEF Records, Statuses
  <2> QED
    BY <1>2, <2>2, FreeIs, SaveKeepsJobsInv DEF Cancel
<1>3. CASE PostReport(j, e)
  <2> DEFINE new == [Free EXCEPT !.at = "stopped", !.execution = e]
  <2>1. new \in Processes /\ new.at = "stopped" /\ new.execution = e
    BY DEF Free, Processes, Places
  <2>2. Becomes(j, new) /\ UNCHANGED <<disk, marked, reports, delivered, runs, unreported>>
    BY <1>3 DEF PostReport
  <2> HIDE DEF new
  <2>3. Sound(new)
    BY <2>1 DEF Sound, Early
  <2> QED
    BY <2>1, <2>2, <2>3, JobIsSound, QuietStepKeepsJobsInv DEF Early
<1> QED
  BY <1>1, <1>2, <1>3

\* A process that saves the execution it has.
LEMMA RunStepKeepsJobsInv ==
  ASSUME JobsInv, NEW j \in Jobs,
         Pause(j) \/ HandOff(j) \/ \E s \in {"Completed", "Failed"} : Stop(j, s)
  PROVE  JobsInv' /\ MarkersKept
<1>1. PICK p \in Processes : p = job[j] /\ Sound(p)
  BY JobIsSound
<1>2. job[j].at \in {"running", "paused"}
  BY DEF Pause, HandOff, Stop
<1>3. PICK loaded \in Records : loaded = p.copy
  BY <1>1, <1>2 DEF Sound
<1>4. p.execution \in Executions
  BY <1>1, <1>2 DEF Sound
<1>5. PICK saved \in Records, next \in {"running", "paused", "stopped"} :
        BeginSave(j, p, p.execution, saved, next) /\ UNCHANGED <<marked, reports, delivered, runs>>
  <2>1. CASE Pause(j)
    <3>1. loaded.gates + 1 \in 0..MaxGates
      BY <1>1, <1>3, <2>1, NothingIsNone DEF Records, Pause
    <3>2. [loaded EXCEPT !.status = "WaitingForHuman", !.gates = @ + 1] \in Records
      BY <3>1 DEF Records, Statuses
    <3> QED
      BY <1>1, <1>3, <2>1, <3>2 DEF Pause
  <2>2. CASE HandOff(j)
    <3>1. [loaded EXCEPT !.linked = PayloadFor(loaded)] \in Records
      BY DEF Records, PayloadFor
    <3> QED
      BY <1>1, <1>3, <2>2, <3>1 DEF HandOff
  <2>3. ASSUME NEW s \in {"Completed", "Failed"}, Stop(j, s)
        PROVE  \E saved \in Records, next \in {"running", "paused", "stopped"} :
                 /\ BeginSave(j, p, p.execution, saved, next)
                 /\ UNCHANGED <<marked, reports, delivered, runs>>
    <3>1. [loaded EXCEPT !.status = s] \in Records
      BY DEF Records, Statuses
    <3> QED
      BY <1>1, <1>3, <2>3, <3>1 DEF Stop
  <2> QED
    BY <2>1, <2>2, <2>3
<1> QED
  BY <1>4, <1>5, SaveKeepsJobsInv

LEMMA EndSaveKeepsJobsInv ==
  ASSUME JobsInv, NEW j \in Jobs, EndSave(j)
  PROVE  JobsInv' /\ MarkersKept
<1>1. /\ job[j].at = "saving" /\ MovesTo(j, job[j].next)
      /\ disk' = [disk EXCEPT ![job[j].execution] = job[j].copy]
      /\ UNCHANGED <<marked, reports, delivered, runs, unreported>>
  BY DEF EndSave
<1>2. PICK p \in Processes : p = job[j] /\ Sound(p)
  BY JobIsSound
<1>3. p.execution \in Executions /\ p.copy \in Records /\ p.next \in {"running", "paused", "stopped"}
  BY <1>1, <1>2 DEF Sound
<1> DEFINE new == [p EXCEPT !.at = p.next]
<1>4. /\ new \in Processes /\ new.at \in {"running", "paused", "stopped"}
      /\ new.execution = p.execution /\ new.copy = p.copy /\ Becomes(j, new)
  BY <1>1, <1>2, <1>3 DEF Processes, Places, MovesTo
<1> HIDE DEF new
<1>5. Sound(new)' /\ MarkersKept
  BY <1>1, <1>3, <1>4 DEF Sound, Early, MarkersKept
<1>6. disk' \in [Executions -> Records \cup {Absent, Torn}]
  BY <1>1, <1>2, <1>3 DEF JobsInv, TypeOK
<1> QED
  BY <1>1, <1>4, <1>5, <1>6, StepKeepsJobsInv DEF JobsInv, TypeOK, Early

LEMMA ReportStepKeepsJobsInv ==
  ASSUME JobsInv, NEW j \in Jobs, NoHandOff(j) \/ LoadForReport(j) \/ Die(j)
  PROVE  JobsInv' /\ MarkersKept
<1>1. UNCHANGED <<disk, marked, reports, delivered, runs, unreported>>
  BY DEF NoHandOff, LoadForReport, Die
<1>2. PICK p \in Processes : p = job[j] /\ Sound(p)
  BY JobIsSound
<1>3. CASE Ends(j)
  BY <1>1, <1>3, EndKeepsJobsInv
<1>4. CASE job[j].at = "paused" /\ MovesTo(j, "stopped")
  <2> DEFINE new == [p EXCEPT !.at = "stopped"]
  <2>1. /\ new \in Processes /\ new.at = "stopped" /\ new.execution = p.execution
        /\ Becomes(j, new)
    BY <1>2, <1>4 DEF Processes, Places, MovesTo
  <2> HIDE DEF new
  <2>2. Sound(new)
    BY <1>2, <1>4, <2>1 DEF Sound, Early
  <2> QED
    BY <1>1, <2>1, <2>2, JobIsSound, QuietStepKeepsJobsInv DEF Early
<1>5. CASE /\ job[j].at = "stopped" /\ disk[job[j].execution] \notin {Absent, Torn}
           /\ Becomes(j, [job[j] EXCEPT !.at = "looking", !.copy = disk[job[j].execution]])
  <2>1. p.execution \in Executions
    BY <1>2, <1>5 DEF Sound
  <2>2. PICK loaded \in Records : loaded = disk[p.execution]
    BY <1>2, <1>5, <2>1 DEF JobsInv, TypeOK
  <2> DEFINE new == [p EXCEPT !.at = "looking", !.copy = loaded]
  <2>3. /\ new \in Processes /\ new.at = "looking" /\ new.execution = p.execution
        /\ new.copy = loaded /\ Becomes(j, new)
    BY <1>2, <1>5, <2>2 DEF Processes, Places
  <2> HIDE DEF new
  <2>4. Sound(new)
    BY <2>1, <2>3 DEF Sound, Early
  <2> QED
    BY <1>1, <2>3, <2>4, JobIsSound, QuietStepKeepsJobsInv DEF Early
<1> QED
  BY <1>3, <1>4, <1>5 DEF NoHandOff, LoadForReport, Die

\* find_marker_comment: what it finds has the marker, and it finds one if there
\* is one.
LEMMA MarkerCommentFinds ==
  ASSUME TypeOK, NEW e \in Executions
  PROVE  \/ MarkerComment(e) = 0 /\ \A i \in DOMAIN reports : reports[i].marker # e
         \/ MarkerComment(e) \in DOMAIN reports /\ reports[MarkerComment(e)].marker = e
<1> DEFINE found == {i \in 1..Len(reports) : reports[i].marker = e}
<1>1. MarkerComment(e) = IF found # {} THEN Min(found) ELSE 0
  BY Zenon DEF MarkerComment, SelectInSeq
<1>2. reports \in Seq(Posts) /\ DOMAIN reports = 1..Len(reports) /\ Len(reports) \in Nat
  BY DEF TypeOK
<1>3. CASE found = {}
  BY <1>1, <1>2, <1>3
<1>4. CASE found # {}
  <2>1. \E m \in found : \A n \in found : m <= n
    <3>1. found \in SUBSET Nat
      BY <1>2
    <3> HIDE DEF found
    <3> QED
      BY <1>4, <3>1, LeastNumber
  <2>2. Min(found) \in found
    BY <2>1 DEF Min
  <2> QED
    BY <1>1, <1>2, <1>4, <2>2
<1> QED
  BY <1>3, <1>4

LEMMA LookKeepsJobsInv ==
  ASSUME JobsInv, NEW j \in Jobs, Look(j)
  PROVE  JobsInv' /\ MarkersKept
<1>1. /\ job[j].at = "looking"
      /\ Becomes(j, [job[j] EXCEPT !.at = "posting", !.target = MarkerComment(job[j].execution)])
      /\ UNCHANGED <<disk, marked, reports, delivered, runs, unreported>>
  BY DEF Look
<1>2. PICK p \in Processes : p = job[j] /\ Sound(p)
  BY JobIsSound
<1>3. p.execution \in Executions /\ p.copy \in Records
  BY <1>1, <1>2 DEF Sound
<1>4. PICK target \in Nat : /\ target = MarkerComment(p.execution)
                            /\ target # 0 => /\ target \in DOMAIN reports
                                             /\ reports[target].marker = p.execution
  <2>1. reports \in Seq(Posts)
    BY DEF JobsInv, TypeOK
  <2> QED
    BY <1>3, <2>1, MarkerCommentFinds DEF JobsInv
<1> DEFINE new == [p EXCEPT !.at = "posting", !.target = target]
<1>5. /\ new \in Processes /\ new.at = "posting" /\ new.execution = p.execution
      /\ new.copy = p.copy /\ new.target = target /\ Becomes(j, new)
  BY <1>1, <1>2, <1>4 DEF Processes, Places
<1> HIDE DEF new
<1>6. Sound(new)
  BY <1>3, <1>4, <1>5 DEF Sound, Early
<1> QED
  BY <1>1, <1>5, <1>6, JobIsSound, QuietStepKeepsJobsInv DEF Early

LEMMA RenderedIsBody ==
  ASSUME NEW rec \in Records
  PROVE  Rendered(rec) \in Bodies
<1>1. /\ rec.status \in Statuses /\ rec.gates \in 0..MaxGates
      /\ rec.linked \in 0..MaxGates /\ 0 \in 0..MaxGates
  BY NothingIsNone DEF Records
<1>2. RenderHeading(rec) \in Bodies
  BY <1>1 DEF RenderHeading, Bodies
<1>3. RenderWaiting(rec) \in Bodies
  BY <1>1, <1>2 DEF RenderWaiting, Bodies
<1>4. RenderCompleted(rec) \in Bodies
  BY <1>1, <1>2 DEF RenderCompleted, Bodies
<1>5. CASE rec.status = "WaitingForHuman"
  BY <1>3, <1>5 DEF Rendered
<1>6. CASE rec.status = "Completed"
  BY <1>4, <1>6 DEF Rendered
<1>7. CASE rec.status \notin {"WaitingForHuman", "Completed"}
  BY <1>2, <1>7 DEF Rendered
<1> QED
  BY <1>5, <1>6, <1>7

\* The comments of the pull request, when one of them becomes the report of e
\* or a report of e is added.
LEMMA PostedInPlace ==
  ASSUME TypeOK, NEW post \in Posts, NEW target \in Nat,
         target # 0 => target \in DOMAIN reports /\ reports[target].marker = post.marker,
         reports' = IF target = 0 THEN Append(reports, post)
                    ELSE [reports EXCEPT ![target] = post]
  PROVE  /\ reports' \in Seq(Posts) /\ MarkersKept
         /\ \E n \in Nat :
              /\ target # 0 => n = target
              /\ target = 0 => n \notin DOMAIN reports
              /\ DOMAIN reports' = DOMAIN reports \cup {n} /\ reports'[n] = post
              /\ \A i \in DOMAIN reports \ {n} : reports'[i] = reports[i]
<1>1. reports \in Seq(Posts) /\ Len(reports) \in Nat /\ DOMAIN reports = 1..Len(reports)
  BY DEF TypeOK
<1>2. CASE target = 0
  <2>1. reports' = Append(reports, post)
    BY <1>2
  <2>2. /\ reports' \in Seq(Posts) /\ DOMAIN reports' = 1..(Len(reports) + 1)
        /\ reports'[Len(reports) + 1] = post
        /\ \A i \in 1..Len(reports) : reports'[i] = reports[i]
    <3>1. Append(reports, post) \in Seq(Posts) /\ Len(Append(reports, post)) = Len(reports) + 1
      BY <1>1
    <3>2. \A i \in 1..Len(reports) : Append(reports, post)[i] = reports[i]
      BY <1>1
    <3>3. Append(reports, post)[Len(reports) + 1] = post
      BY <1>1
    <3>4. DOMAIN Append(reports, post) = 1..(Len(reports) + 1)
      BY <1>1
    <3> QED
      BY <2>1, <3>1, <3>2, <3>3, <3>4
  <2>3. /\ 1..(Len(reports) + 1) = 1..Len(reports) \cup {Len(reports) + 1}
        /\ Len(reports) + 1 \notin 1..Len(reports)
    BY <1>1
  <2> QED
    BY <1>1, <1>2, <2>2, <2>3 DEF MarkersKept
<1>3. CASE target # 0
  <2>1. /\ reports' = [reports EXCEPT ![target] = post]
        /\ target \in DOMAIN reports /\ reports[target].marker = post.marker
    BY <1>3
  <2>2. /\ reports' \in Seq(Posts) /\ DOMAIN reports' = DOMAIN reports
        /\ reports'[target] = post
        /\ \A i \in DOMAIN reports \ {target} : reports'[i] = reports[i]
    BY <1>1, <2>1
  <2> QED
    BY <2>1, <2>2 DEF MarkersKept
<1> QED
  BY <1>2, <1>3

LEMMA PostKeepsJobsInv ==
  ASSUME JobsInv, NEW j \in Jobs, Post(j)
  PROVE  JobsInv' /\ MarkersKept
<1>1. PICK p \in Processes : p = job[j] /\ Sound(p)
  BY JobIsSound
<1>2. p.at = "posting" /\ p.execution \in Executions /\ p.copy \in Records
  BY <1>1 DEF Post, Sound
<1>3. PICK post \in Posts : post = [marker |-> p.execution, body |-> Rendered(p.copy)]
                            /\ post.marker = p.execution
  <2>1. Rendered(p.copy) \in Bodies
    BY <1>2, RenderedIsBody
  <2>2. /\ [marker |-> p.execution, body |-> Rendered(p.copy)] \in Posts
        /\ [marker |-> p.execution, body |-> Rendered(p.copy)].marker = p.execution
    BY <1>2, <2>1 DEF Posts
  <2> QED
    BY <2>2
<1>4. PICK target \in Nat : target = p.target
  BY DEF Processes
<1>5. /\ reports' = IF target = 0 THEN Append(reports, post)
                    ELSE [reports EXCEPT ![target] = post]
      /\ unreported' = unreported \ {p.execution} /\ Becomes(j, Free)
      /\ UNCHANGED <<disk, marked, delivered, runs>>
  BY <1>1, <1>3, <1>4 DEF Post, Ends
<1>6. target # 0 => target \in DOMAIN reports /\ reports[target].marker = post.marker
  BY <1>1, <1>2, <1>3, <1>4 DEF Sound
<1>7. reports' \in Seq(Posts) /\ MarkersKept
  BY <1>5, <1>6, PostedInPlace DEF JobsInv
<1>8. Sound(Free)'
  BY FreeIs DEF Sound, Early
<1> QED
  BY <1>5, <1>7, <1>8, FreeIs, StepKeepsJobsInv DEF JobsInv, TypeOK, Early

LEMMA JobsInvInit ==
  Init => JobsInv
<1> SUFFICES ASSUME Init PROVE JobsInv
  OBVIOUS
<1>1. \A j \in Jobs : job[j] = Free
  BY DEF Init
<1>2. TypeOK
  <2>1. <<>> \in Seq(Posts)
    OBVIOUS
  <2> QED
    BY <2>1, FreeIs, NothingIsNone DEF Init, TypeOK
<1>3. \A j \in Jobs : Sound(job[j])
  BY <1>1, FreeIs DEF Sound, Early
<1>4. ASSUME NEW c \in Comments
      PROVE  Counted(c)
  <2>1. Coming(c) = {} /\ runs[c] = {} /\ delivered[c] = 0
    BY <1>1, FreeIs DEF Init, Coming, Early
  <2> QED
    BY <2>1, FS_EmptySet DEF Counted
<1> QED
  BY <1>2, <1>3, <1>4 DEF JobsInv

LEMMA JobsInvNext ==
  ASSUME JobsInv, [Next]_vars
  PROVE  JobsInv' /\ MarkersKept
<1>1. CASE Next
  <2>1. PICK j \in Jobs :
          \/ \E c \in Comments : Deliver(c, j)
          \/ CheckMarker(j) \/ Refuse(j) \/ Accept(j)
          \/ \E e \in Executions : StartExecution(j, e) \/ Resume(j, e) \/ Cancel(j, e)
                                    \/ PostReport(j, e)
          \/ EndSave(j) \/ Pause(j) \/ \E s \in {"Completed", "Failed"} : Stop(j, s)
          \/ HandOff(j) \/ NoHandOff(j)
          \/ LoadForReport(j) \/ Look(j) \/ Post(j)
          \/ Die(j)
    BY <1>1 DEF Next
  <2>2. CASE \/ \E c \in Comments : Deliver(c, j)
             \/ CheckMarker(j) \/ Refuse(j) \/ Accept(j)
    BY <2>2, DeliverKeepsJobsInv, EarlyStepKeepsJobsInv
  <2>3. CASE \E e \in Executions : StartExecution(j, e) \/ Resume(j, e) \/ Cancel(j, e)
                                    \/ PostReport(j, e)
    BY <2>3, StartKeepsJobsInv, NewProcessKeepsJobsInv
  <2>4. CASE \/ EndSave(j) \/ Pause(j) \/ \E s \in {"Completed", "Failed"} : Stop(j, s)
             \/ HandOff(j)
    BY <2>4, EndSaveKeepsJobsInv, RunStepKeepsJobsInv
  <2>5. CASE NoHandOff(j) \/ LoadForReport(j) \/ Look(j) \/ Post(j) \/ Die(j)
    BY <2>5, ReportStepKeepsJobsInv, LookKeepsJobsInv, PostKeepsJobsInv
  <2> QED
    BY <2>1, <2>2, <2>3, <2>4, <2>5
<1>2. CASE UNCHANGED vars
  BY <1>2 DEF vars, JobsInv, TypeOK, Sound, Counted, Coming, MarkersKept
<1> QED
  BY <1>1, <1>2

LEMMA JobsInvHolds == Spec => []JobsInv
<1>1. JobsInv /\ [Next]_vars => JobsInv'
  BY JobsInvNext
<1> QED
  BY JobsInvInit, <1>1, PTL DEF Spec

-----------------------------------------------------------------------------
(* Jobs that are kept apart: what each of them may rely on.                *)

\* What holds of a job, given the state of what it shares with the others.
Targets(p) ==
  IF p.target = 0 THEN \A i \in DOMAIN reports : reports[i].marker # p.execution
  ELSE p.target \in DOMAIN reports /\ reports[p.target].marker = p.execution

\* From the webhook to the start of its execution.
AnswersComment(p) ==
  /\ p.at \in {"checking", "authorizing", "accepted"} => p.comment \in Comments
  /\ p.at = "authorizing" => p.comment \notin marked
  /\ p.at = "accepted" => p.comment \in marked /\ runs[p.comment] = {}

\* While it runs one: who saves owes a report.
RunsExecution(p) ==
  /\ p.at \in {"saving", "running", "paused", "stopped", "looking", "posting"} =>
       p.execution \in Executions
  /\ p.at # "none" /\ p.execution \in Executions => disk[p.execution] # Absent
  /\ p.at \in {"saving", "running", "paused"} => p.copy \in Records
  /\ p.at = "saving" =>
       p.execution \in unreported /\ p.next \in {"running", "paused", "stopped"}

\* While it reports one.
PostsReport(p) ==
  /\ p.at \in {"looking", "posting"} => p.copy \in Records /\ p.copy = disk[p.execution]
  /\ p.at = "posting" => Targets(p)

Fit(p) == AnswersComment(p) /\ RunsExecution(p) /\ PostsReport(p)

\* Two jobs that have nothing in common.
Separate(p, q) ==
  /\ p.comment = q.comment => p.comment = NoComment
  /\ p.execution = q.execution => p.execution = NoExecution

Inv ==
  /\ TypeOK
  /\ \A j \in Jobs : Fit(job[j])
  /\ \A j, k \in Busy : j # k => Separate(job[j], job[k])
  /\ \A c \in Comments : runs[c] # {} => c \in marked
  /\ EachFollowUpRunsOnce
  /\ OneReportPerExecution
  /\ ReportIsCurrent
-----------------------------------------------------------------------------
(* A step of one job, for the others.                                      *)

\* Only comment c and execution e are touched, and no report of another
\* execution appears or goes away.
About(c, e) ==
  /\ \A i \in Executions : disk[i] # Absent => disk'[i] # Absent
  /\ \A i \in Executions \ {e} :
       disk'[i] = disk[i] /\ (i \in unreported' <=> i \in unreported)
  /\ \A d \in Comments \ {c} : (d \in marked' <=> d \in marked) /\ runs'[d] = runs[d]
  /\ \A i \in DOMAIN reports :
       i \in DOMAIN reports' /\ reports'[i].marker = reports[i].marker
  /\ \A i \in DOMAIN reports' : i \in DOMAIN reports \/ reports'[i].marker = e

\* No other job is about c or e.
Alone(j, c, e) ==
  \A k \in Busy \ {j} :
    /\ job[k].comment = c => c = NoComment
    /\ job[k].execution = e => e = NoExecution

LEMMA OthersStayFit ==
  ASSUME NEW c, NEW e, About(c, e), NEW p \in Processes, Fit(p),
         p.comment = c => c = NoComment, p.execution = e => e = NoExecution
  PROVE  Fit(p)'
<1>1. AnswersComment(p)'
  <2>1. p.comment \in Comments => /\ p.comment \in marked' <=> p.comment \in marked
                                  /\ runs'[p.comment] = runs[p.comment]
    BY NothingIsNone DEF About
  <2> QED
    BY <2>1 DEF Fit, AnswersComment
<1>2. p.execution \in Executions => /\ disk'[p.execution] = disk[p.execution]
                                    /\ p.execution \in unreported' <=> p.execution \in unreported
  BY NothingIsNone DEF About
<1>3. RunsExecution(p)'
  BY <1>2 DEF Fit, RunsExecution
<1>4. PostsReport(p)'
  <2>1. p.at \in {"looking", "posting"} => p.execution \in Executions
    BY DEF Fit, RunsExecution
  <2>2. p.at = "posting" => Targets(p)'
    <3>1. p.at = "posting" => Targets(p) /\ p.execution # e
      BY <2>1, NothingIsNone DEF Fit, PostsReport
    <3> QED
      BY <3>1 DEF About, Targets
  <2> QED
    BY <1>2, <2>1, <2>2 DEF Fit, PostsReport
<1> QED
  BY <1>1, <1>3, <1>4 DEF Fit

LEMMA JobsStayFit ==
  ASSUME TypeOK, \A j \in Jobs : Fit(job[j]),
         \A i, k \in Busy : i # k => Separate(job[i], job[k]),
         NEW j \in Jobs, NEW new \in Processes, Becomes(j, new),
         NEW c, NEW e, About(c, e), Alone(j, c, e), Fit(new)',
         new.at # "none" => /\ new.comment \in {c, NoComment}
                            /\ new.execution \in {e, NoExecution}
  PROVE  /\ job' \in [Jobs -> Processes]
         /\ \A k \in Jobs : Fit(job[k])'
         /\ \A i, k \in Busy' : i # k => Separate(job'[i], job'[k])
<1>1. /\ job \in [Jobs -> Processes] /\ job' = [job EXCEPT ![j] = new]
      /\ job'[j] = new /\ \A k \in Jobs \ {j} : job'[k] = job[k]
      /\ job' \in [Jobs -> Processes]
  BY DEF TypeOK, Becomes
<1>2. ASSUME NEW k \in Jobs
      PROVE  Fit(job[k])'
  <2>1. PICK p \in Processes : p = job'[k]
    BY <1>1
  <2>2. CASE k = j
    <3>1. p = new
      BY <1>1, <2>1, <2>2
    <3>2. Fit(p)'
      BY <3>1
    <3> QED
      BY <2>1, <3>2 DEF Fit, AnswersComment, RunsExecution, PostsReport, Targets
  <2>3. CASE k # j /\ k \in Busy
    <3>1. p = job[k] /\ Fit(p)
      BY <1>1, <2>1, <2>3
    <3>2. (p.comment = c => c = NoComment) /\ (p.execution = e => e = NoExecution)
      BY <2>3, <3>1 DEF Alone
    <3>3. Fit(p)'
      BY <3>1, <3>2, OthersStayFit
    <3> QED
      BY <2>1, <3>3 DEF Fit, AnswersComment, RunsExecution, PostsReport, Targets
  <2>4. CASE k # j /\ k \notin Busy
    <3>1. job'[k].at = "none"
      BY <1>1, <2>4 DEF Busy
    <3> QED
      BY <3>1 DEF Fit, AnswersComment, RunsExecution, PostsReport
  <2> QED
    BY <2>2, <2>3, <2>4
<1>3. ASSUME NEW i \in Busy', NEW k \in Busy', i # k
      PROVE  Separate(job'[i], job'[k])
  <2>1. i \in Jobs /\ k \in Jobs /\ (i # j => i \in Busy) /\ (k # j => k \in Busy)
    BY <1>1 DEF Busy
  <2>2. CASE i = j
    <3>1. /\ job'[i] = new /\ new.at # "none" /\ job'[k] = job[k] /\ k \in Busy \ {j}
      BY <1>1, <1>3, <2>1, <2>2 DEF Busy
    <3> QED
      BY <3>1 DEF Alone, Separate
  <2>3. CASE k = j
    <3>1. /\ job'[k] = new /\ new.at # "none" /\ job'[i] = job[i] /\ i \in Busy \ {j}
      BY <1>1, <1>3, <2>1, <2>3 DEF Busy
    <3> QED
      BY <3>1 DEF Alone, Separate
  <2>4. CASE i # j /\ k # j
    BY <1>1, <1>3, <2>1, <2>4
  <2> QED
    BY <2>2, <2>3, <2>4
<1> QED
  BY <1>1, <1>2, <1>3

\* A job that goes on is alone with what it is about.
LEMMA GoesOnAlone ==
  ASSUME \A i, k \in Busy : i # k => Separate(job[i], job[k]), NEW j \in Busy
  PROVE  Alone(j, job[j].comment, job[j].execution)
BY DEF Alone, Separate

\* A job that starts was waited for.
LEMMA StartsAlone ==
  ASSUME Apart, NEW j \in Jobs, NEW x, MayStart(j, x)
  PROVE  Alone(j, x, NoExecution) /\ Alone(j, NoComment, x)
BY DEF MayStart, Alone

\* The reports, when none is posted.
LEMMA ReportsStay ==
  ASSUME TypeOK, OneReportPerExecution, ReportIsCurrent, reports' = reports,
         \A i \in Executions :
           i \notin unreported' => i \notin unreported /\ disk'[i] = disk[i]
  PROVE  OneReportPerExecution' /\ ReportIsCurrent'
<1>1. OneReportPerExecution'
  BY DEF OneReportPerExecution
<1>2. ASSUME NEW i \in DOMAIN reports, reports[i].marker \notin unreported'
      PROVE  reports[i].body = Rendered(disk'[reports[i].marker])
  <2>1. reports[i].marker \in Executions
    <3>1. reports \in Seq(Posts)
      BY DEF TypeOK
    <3>2. reports[i] \in Posts
      BY <3>1
    <3> QED
      BY <3>2 DEF Posts
  <2> QED
    BY <1>2, <2>1 DEF ReportIsCurrent
<1>3. ReportIsCurrent'
  BY <1>2 DEF ReportIsCurrent, Rendered, RenderWaiting, RenderCompleted, RenderHeading
<1> QED
  BY <1>1, <1>3

\* The comments, when no execution starts.
LEMMA RunsStay ==
  ASSUME \A c \in Comments : runs[c] # {} => c \in marked, EachFollowUpRunsOnce,
         runs' = runs, marked \subseteq marked'
  PROVE  /\ \A c \in Comments : runs'[c] # {} => c \in marked'
         /\ EachFollowUpRunsOnce'
BY DEF EachFollowUpRunsOnce

-----------------------------------------------------------------------------
(* A step that changes nothing of what the jobs share.                     *)

LEMMA QuietStep ==
  ASSUME Inv, NEW j \in Jobs, NEW new \in Processes, Becomes(j, new),
         NEW c, NEW e, Alone(j, c, e), Fit(new),
         new.at # "none" => /\ new.comment \in {c, NoComment}
                            /\ new.execution \in {e, NoExecution},
         UNCHANGED <<disk, marked, reports, runs, unreported>>,
         delivered' \in [Comments -> 0..MaxDeliveries]
  PROVE  Inv'
<1>1. About(c, e)
  BY DEF About
<1>2. Fit(new)'
  BY DEF Fit, AnswersComment, RunsExecution, PostsReport, Targets
<1>3. /\ job' \in [Jobs -> Processes]
      /\ \A k \in Jobs : Fit(job[k])'
      /\ \A i, k \in Busy' : i # k => Separate(job'[i], job'[k])
  BY <1>1, <1>2, JobsStayFit DEF Inv
<1>4. OneReportPerExecution' /\ ReportIsCurrent'
  BY ReportsStay DEF Inv
<1>5. (\A c_1 \in Comments : runs'[c_1] # {} => c_1 \in marked') /\ EachFollowUpRunsOnce'
  BY RunsStay DEF Inv
<1>6. TypeOK'
  BY <1>3 DEF Inv, TypeOK
<1> QED
  BY <1>3, <1>4, <1>5, <1>6 DEF Inv, Separate

LEMMA FreeIsFit ==
  Free \in Processes /\ Fit(Free) /\ Free.at = "none"
BY FreeIs DEF Fit, AnswersComment, RunsExecution, PostsReport

LEMMA JobIs ==
  ASSUME Inv, NEW j \in Jobs
  PROVE  job[j] \in Processes /\ Fit(job[j]) /\ (job[j].at # "none" => j \in Busy)
BY DEF Inv, TypeOK, Busy

\* A job ends.
LEMMA EndStep ==
  ASSUME Inv, NEW j \in Jobs, Ends(j),
         UNCHANGED <<disk, marked, reports, delivered, runs, unreported>>
  PROVE  Inv'
<1>1. Alone(j, NoComment, NoExecution)
  BY DEF Alone
<1>2. delivered' \in [Comments -> 0..MaxDeliveries]
  BY DEF Inv, TypeOK
<1> QED
  BY <1>1, <1>2, FreeIsFit, QuietStep DEF Ends

\* A job goes on with the same comment and execution.
LEMMA QuietlyOn ==
  ASSUME Inv, NEW j \in Busy, NEW new \in Processes, Becomes(j, new), Fit(new),
         new.comment = job[j].comment, new.execution = job[j].execution,
         UNCHANGED <<disk, marked, reports, delivered, runs, unreported>>
  PROVE  Inv'
<1>1. PICK p \in Processes : p = job[j]
  BY JobIs DEF Busy
<1>2. Alone(j, p.comment, p.execution)
  BY <1>1, GoesOnAlone DEF Inv
<1>3. delivered' \in [Comments -> 0..MaxDeliveries] /\ j \in Jobs
  BY DEF Inv, TypeOK, Busy
<1> QED
  BY <1>1, <1>2, <1>3, QuietStep

LEMMA DeliverKeepsInv ==
  ASSUME Inv, Apart, NEW c \in Comments, NEW j \in Jobs, Deliver(c, j)
  PROVE  Inv'
<1> DEFINE new == [Free EXCEPT !.at = "checking", !.comment = c]
<1>1. /\ new \in Processes /\ new.at = "checking" /\ new.comment = c
      /\ new.execution = NoExecution
  BY DEF Free, Processes, Places
<1>2. Becomes(j, new) /\ Alone(j, c, NoExecution)
  BY StartsAlone DEF Deliver
<1> HIDE DEF new
<1>3. Fit(new)
  BY <1>1, NothingIsNone DEF Fit, AnswersComment, RunsExecution, PostsReport
<1>4. delivered' \in [Comments -> 0..MaxDeliveries]
  BY NothingIsNone DEF Deliver, Inv, TypeOK
<1>5. UNCHANGED <<disk, marked, reports, runs, unreported>>
  BY DEF Deliver
<1> QED
  BY <1>1, <1>2, <1>3, <1>4, <1>5, QuietStep

LEMMA CheckMarkerKeepsInv ==
  ASSUME Inv, NEW j \in Jobs, CheckMarker(j)
  PROVE  Inv'
<1>1. /\ job[j].at = "checking"
      /\ UNCHANGED <<disk, marked, reports, delivered, runs, unreported>>
  BY DEF CheckMarker
<1>2. CASE Ends(j)
  BY <1>1, <1>2, EndStep
<1>3. CASE job[j].comment \notin marked /\ MovesTo(j, "authorizing")
  <2>1. PICK p \in Processes : p = job[j] /\ Fit(p) /\ j \in Busy
    BY <1>1, JobIs
  <2> DEFINE new == [p EXCEPT !.at = "authorizing"]
  <2>2. /\ new \in Processes /\ new.at = "authorizing" /\ new.comment = p.comment
        /\ new.execution = p.execution /\ Becomes(j, new)
    BY <1>3, <2>1 DEF Processes, Places, MovesTo
  <2> HIDE DEF new
  <2>3. Fit(new)
    BY <1>1, <1>3, <2>1, <2>2 DEF Fit, AnswersComment, RunsExecution, PostsReport
  <2> QED
    BY <1>1, <2>1, <2>2, <2>3, QuietlyOn
<1> QED
  BY <1>2, <1>3 DEF CheckMarker

LEMMA NoHandOffKeepsInv ==
  ASSUME Inv, NEW j \in Jobs, NoHandOff(j)
  PROVE  Inv'
<1>1. /\ job[j].at = "paused" /\ MovesTo(j, "stopped")
      /\ UNCHANGED <<disk, marked, reports, delivered, runs, unreported>>
  BY DEF NoHandOff
<1>2. PICK p \in Processes : p = job[j] /\ Fit(p) /\ j \in Busy
  BY <1>1, JobIs
<1> DEFINE new == [p EXCEPT !.at = "stopped"]
<1>3. /\ new \in Processes /\ new.at = "stopped" /\ new.comment = p.comment
      /\ new.execution = p.execution /\ Becomes(j, new)
  BY <1>1, <1>2 DEF Processes, Places, MovesTo
<1> HIDE DEF new
<1>4. Fit(new)
  BY <1>1, <1>2, <1>3 DEF Fit, AnswersComment, RunsExecution, PostsReport
<1> QED
  BY <1>1, <1>2, <1>3, <1>4, QuietlyOn

LEMMA PostReportKeepsInv ==
  ASSUME Inv, Apart, NEW j \in Jobs, NEW e \in Executions, PostReport(j, e)
  PROVE  Inv'
<1> DEFINE new == [Free EXCEPT !.at = "stopped", !.execution = e]
<1>1. /\ new \in Processes /\ new.at = "stopped" /\ new.comment = NoComment
      /\ new.execution = e
  BY DEF Free, Processes, Places
<1>2. /\ Becomes(j, new) /\ disk[e] # Absent /\ Alone(j, NoComment, e)
      /\ UNCHANGED <<disk, marked, reports, delivered, runs, unreported>>
  BY StartsAlone DEF PostReport
<1> HIDE DEF new
<1>3. Fit(new)
  BY <1>1, <1>2 DEF Fit, AnswersComment, RunsExecution, PostsReport
<1>4. delivered' \in [Comments -> 0..MaxDeliveries]
  BY <1>2 DEF Inv, TypeOK
<1> QED
  BY <1>1, <1>2, <1>3, <1>4, QuietStep

LEMMA LoadForReportKeepsInv ==
  ASSUME Inv, NEW j \in Jobs, LoadForReport(j)
  PROVE  Inv'
<1>1. /\ job[j].at = "stopped"
      /\ UNCHANGED <<disk, marked, reports, delivered, runs, unreported>>
  BY DEF LoadForReport
<1>2. CASE Ends(j)
  BY <1>1, <1>2, EndStep
<1>3. CASE /\ disk[job[j].execution] \notin {Absent, Torn}
           /\ Becomes(j, [job[j] EXCEPT !.at = "looking", !.copy = disk[job[j].execution]])
  <2>1. PICK p \in Processes : p = job[j] /\ Fit(p) /\ j \in Busy
    BY <1>1, JobIs
  <2>2. p.execution \in Executions /\ disk[p.execution] \in Records
    BY <1>1, <1>3, <2>1 DEF Fit, RunsExecution, Inv, TypeOK
  <2>3. PICK loaded \in Records : loaded = disk[p.execution]
    BY <2>2
  <2> DEFINE new == [p EXCEPT !.at = "looking", !.copy = loaded]
  <2>4. /\ new \in Processes /\ new.at = "looking" /\ new.comment = p.comment
        /\ new.execution = p.execution /\ new.copy = loaded /\ Becomes(j, new)
    BY <1>3, <2>1, <2>3 DEF Processes, Places
  <2> HIDE DEF new
  <2>5. Fit(new)
    BY <1>1, <2>1, <2>2, <2>3, <2>4 DEF Fit, AnswersComment, RunsExecution, PostsReport
  <2> QED
    BY <1>1, <2>1, <2>4, <2>5, QuietlyOn
<1> QED
  BY <1>2, <1>3 DEF LoadForReport

LEMMA LookKeepsInv ==
  ASSUME Inv, NEW j \in Jobs, Look(j)
  PROVE  Inv'
<1>1. /\ job[j].at = "looking"
      /\ Becomes(j, [job[j] EXCEPT !.at = "posting", !.target = MarkerComment(job[j].execution)])
      /\ UNCHANGED <<disk, marked, reports, delivered, runs, unreported>>
  BY DEF Look
<1>2. PICK p \in Processes : p = job[j] /\ Fit(p) /\ j \in Busy
  BY <1>1, JobIs
<1>3. p.execution \in Executions
  BY <1>1, <1>2 DEF Fit, RunsExecution
<1>4. \/ /\ MarkerComment(p.execution) = 0
         /\ \A i \in DOMAIN reports : reports[i].marker # p.execution
      \/ /\ MarkerComment(p.execution) \in DOMAIN reports
         /\ reports[MarkerComment(p.execution)].marker = p.execution
  BY <1>3, MarkerCommentFinds DEF Inv
<1>5. reports \in Seq(Posts)
  BY DEF Inv, TypeOK
<1>6. PICK target \in Nat : target = MarkerComment(p.execution)
  BY <1>4, <1>5
<1> DEFINE new == [p EXCEPT !.at = "posting", !.target = target]
<1>7. /\ new \in Processes /\ new.at = "posting" /\ new.comment = p.comment
      /\ new.execution = p.execution /\ new.copy = p.copy /\ new.target = target
      /\ Becomes(j, new)
  BY <1>1, <1>2, <1>6 DEF Processes, Places
<1> HIDE DEF new
<1>8. Targets(new)
  BY <1>4, <1>5, <1>6, <1>7 DEF Targets
<1>9. Fit(new)
  BY <1>1, <1>2, <1>3, <1>7, <1>8 DEF Fit, AnswersComment, RunsExecution, PostsReport
<1> QED
  BY <1>1, <1>2, <1>7, <1>9, QuietlyOn

LEMMA RefuseKeepsInv ==
  ASSUME Inv, NEW j \in Jobs, Refuse(j)
  PROVE  Inv'
BY EndStep DEF Refuse

LEMMA DieKeepsInv ==
  ASSUME Inv, NEW j \in Jobs, Die(j)
  PROVE  Inv'
BY EndStep DEF Die

-----------------------------------------------------------------------------
(* The steps that change what the jobs share.                              *)

LEMMA AcceptKeepsInv ==
  ASSUME Inv, NEW j \in Jobs, Accept(j)
  PROVE  Inv'
<1>1. /\ job[j].at = "authorizing" /\ MovesTo(j, "accepted")
      /\ marked' = marked \cup {job[j].comment}
      /\ UNCHANGED <<disk, reports, delivered, runs, unreported>>
  BY DEF Accept
<1>2. PICK p \in Processes : p = job[j] /\ Fit(p) /\ j \in Busy
  BY <1>1, JobIs
<1>3. p.comment \in Comments /\ p.comment \notin marked
  BY <1>1, <1>2 DEF Fit, AnswersComment
<1>4. runs[p.comment] = {}
  BY <1>3 DEF Inv
<1> DEFINE new == [p EXCEPT !.at = "accepted"]
<1>5. /\ new \in Processes /\ new.at = "accepted" /\ new.comment = p.comment
      /\ new.execution = p.execution /\ Becomes(j, new)
  BY <1>1, <1>2 DEF Processes, Places, MovesTo
<1> HIDE DEF new
<1>6. About(p.comment, p.execution)
  BY <1>1, <1>2 DEF About
<1>7. Fit(new)'
  BY <1>1, <1>2, <1>3, <1>4, <1>5 DEF Fit, AnswersComment, RunsExecution, PostsReport
<1>8. Alone(j, p.comment, p.execution)
  BY <1>2, GoesOnAlone DEF Inv
<1>9. /\ job' \in [Jobs -> Processes]
      /\ \A k \in Jobs : Fit(job[k])'
      /\ \A i, k \in Busy' : i # k => Separate(job'[i], job'[k])
  BY <1>5, <1>6, <1>7, <1>8, JobsStayFit DEF Inv
<1>10. OneReportPerExecution' /\ ReportIsCurrent'
  BY <1>1, ReportsStay DEF Inv
<1>11. (\A c \in Comments : runs'[c] # {} => c \in marked') /\ EachFollowUpRunsOnce'
  BY <1>1, RunsStay DEF Inv
<1>12. TypeOK'
  BY <1>1, <1>2, <1>3, <1>9 DEF Inv, TypeOK
<1> QED
  BY <1>9, <1>10, <1>11, <1>12 DEF Inv, Separate

\* A save begins: nobody else is about the execution, and a report is owed.
LEMMA BeginSaveKeepsInv ==
  ASSUME Inv, NEW j \in Jobs, NEW from \in Processes, NEW e \in Executions,
         NEW saved \in Records, NEW next \in {"running", "paused", "stopped"},
         BeginSave(j, from, e, saved, next), Alone(j, from.comment, e),
         UNCHANGED <<marked, reports, delivered>>,
         runs' \in [Comments -> SUBSET Executions],
         \A d \in Comments \ {from.comment} : runs'[d] = runs[d],
         \A d \in Comments : runs'[d] # {} => d \in marked, EachFollowUpRunsOnce'
  PROVE  Inv'
<1> DEFINE new == [from EXCEPT !.at = "saving", !.next = next, !.execution = e, !.copy = saved]
<1>1. /\ new \in Processes /\ new.at = "saving" /\ new.next = next
      /\ new.comment = from.comment /\ new.execution = e /\ new.copy = saved
  BY DEF Processes, Places
<1>2. /\ Becomes(j, new)
      /\ disk' = [disk EXCEPT ![e] = Torn] /\ unreported' = unreported \cup {e}
  BY DEF BeginSave
<1> HIDE DEF new
<1>3. disk' \in [Executions -> Records \cup {Absent, Torn}] /\ Absent # Torn
  BY <1>2 DEF Inv, TypeOK, Absent, Torn
<1>4. disk'[e] = Torn /\ \A i \in Executions \ {e} : disk'[i] = disk[i]
  BY <1>2 DEF Inv, TypeOK
<1>5. About(from.comment, e)
  BY <1>2, <1>3, <1>4 DEF About
<1>6. Fit(new)'
  BY <1>1, <1>2, <1>3, <1>4 DEF Fit, AnswersComment, RunsExecution, PostsReport
<1>7. /\ job' \in [Jobs -> Processes]
      /\ \A k \in Jobs : Fit(job[k])'
      /\ \A i, k \in Busy' : i # k => Separate(job'[i], job'[k])
  BY <1>1, <1>2, <1>5, <1>6, JobsStayFit DEF Inv
<1>8. OneReportPerExecution' /\ ReportIsCurrent'
  BY <1>2, <1>4, ReportsStay DEF Inv
<1>9. TypeOK'
  BY <1>2, <1>3, <1>7 DEF Inv, TypeOK
<1> QED
  BY <1>7, <1>8, <1>9 DEF Inv, Separate

LEMMA StartExecutionKeepsInv ==
  ASSUME Inv, NEW j \in Jobs, NEW e \in Executions, StartExecution(j, e)
  PROVE  Inv'
<1>1. /\ job[j].at = "accepted" /\ disk[e] = Absent
      /\ BeginSave(j, job[j], e, Started, "running")
      /\ runs' = [runs EXCEPT ![job[j].comment] = @ \cup {e}]
      /\ UNCHANGED <<marked, reports, delivered>>
  BY DEF StartExecution
<1>2. PICK p \in Processes : p = job[j] /\ Fit(p) /\ j \in Busy
  BY <1>1, JobIs
<1>3. p.comment \in Comments /\ p.comment \in marked /\ runs[p.comment] = {}
  BY <1>1, <1>2 DEF Fit, AnswersComment
<1>4. Alone(j, p.comment, e)
  <2>1. Alone(j, p.comment, p.execution)
    BY <1>2, GoesOnAlone DEF Inv
  <2>2. \A k \in Busy : job[k].execution # e
    BY <1>1 DEF Inv, Fit, RunsExecution, Busy
  <2> QED
    BY <2>1, <2>2 DEF Alone
<1>5. /\ runs' \in [Comments -> SUBSET Executions] /\ runs'[p.comment] = {e}
      /\ \A d \in Comments \ {p.comment} : runs'[d] = runs[d]
  BY <1>1, <1>2, <1>3 DEF Inv, TypeOK
<1>6. (\A d \in Comments : runs'[d] # {} => d \in marked) /\ EachFollowUpRunsOnce'
  BY <1>3, <1>5 DEF Inv, EachFollowUpRunsOnce
<1>7. Started \in Records
  BY NothingIsNone DEF Started, Records, Statuses
<1>8. BeginSave(j, p, e, Started, "running")
  BY <1>1, <1>2 DEF BeginSave, Becomes
<1> QED
  BY <1>1, <1>4, <1>5, <1>6, <1>7, <1>8, BeginSaveKeepsInv

\* A process that starts on an execution, and saves it changed.
LEMMA SaveOfNewJob ==
  ASSUME Inv, Apart, NEW j \in Jobs, NEW e \in Executions, MayStart(j, e),
         NEW saved \in Records, NEW next \in {"running", "stopped"},
         BeginSave(j, Free, e, saved, next), UNCHANGED <<marked, reports, delivered, runs>>
  PROVE  Inv'
<1>1. Free \in Processes /\ Free.comment = NoComment /\ Alone(j, NoComment, e)
  BY FreeIsFit, StartsAlone DEF Free
<1>2. runs' \in [Comments -> SUBSET Executions]
  BY DEF Inv, TypeOK
<1>3. (\A d \in Comments : runs'[d] # {} => d \in marked) /\ EachFollowUpRunsOnce'
  BY DEF Inv, EachFollowUpRunsOnce
<1> QED
  BY <1>1, <1>2, <1>3, BeginSaveKeepsInv

LEMMA ResumeKeepsInv ==
  ASSUME Inv, Apart, NEW j \in Jobs, NEW e \in Executions, Resume(j, e)
  PROVE  Inv'
<1>1. disk[e] \in Records
  BY DEF Resume, Inv, TypeOK, Absent, Torn
<1>2. [disk[e] EXCEPT !.status = "Running"] \in Records
  BY <1>1 DEF Records, Statuses
<1> QED
  BY <1>2, SaveOfNewJob DEF Resume

LEMMA CancelKeepsInv ==
  ASSUME Inv, Apart, NEW j \in Jobs, NEW e \in Executions, Cancel(j, e)
  PROVE  Inv'
<1>1. disk[e] \in Records
  BY DEF Cancel, Inv, TypeOK, Absent, Torn, Statuses
<1>2. [disk[e] EXCEPT !.status = "Cancelled"] \in Records
  BY <1>1 DEF Records, Statuses
<1> QED
  BY <1>2, SaveOfNewJob DEF Cancel

\* A process that saves the execution it has.
LEMMA SaveOfSameJob ==
  ASSUME Inv, NEW j \in Jobs, job[j].at \in {"running", "paused"},
         NEW saved \in Records, NEW next \in {"running", "paused", "stopped"},
         BeginSave(j, job[j], job[j].execution, saved, next),
         UNCHANGED <<marked, reports, delivered, runs>>
  PROVE  Inv'
<1>1. PICK p \in Processes : p = job[j] /\ Fit(p) /\ j \in Busy
  BY JobIs
<1>2. p.execution \in Executions
  BY <1>1 DEF Fit, RunsExecution
<1>3. BeginSave(j, p, p.execution, saved, next)
  BY <1>1 DEF BeginSave, Becomes
<1>4. Alone(j, p.comment, p.execution)
  BY <1>1, GoesOnAlone DEF Inv
<1>5. runs' \in [Comments -> SUBSET Executions]
  BY DEF Inv, TypeOK
<1>6. (\A d \in Comments : runs'[d] # {} => d \in marked) /\ EachFollowUpRunsOnce'
  BY DEF Inv, EachFollowUpRunsOnce
<1> QED
  BY <1>2, <1>3, <1>4, <1>5, <1>6, BeginSaveKeepsInv

LEMMA CopyIsRecord ==
  ASSUME Inv, NEW j \in Jobs, job[j].at \in {"running", "paused"}
  PROVE  job[j].copy \in Records
BY JobIs DEF Fit, RunsExecution

LEMMA PauseKeepsInv ==
  ASSUME Inv, NEW j \in Jobs, Pause(j)
  PROVE  Inv'
<1>1. job[j].at = "running" /\ job[j].copy \in Records /\ job[j].copy.gates < MaxGates
  BY CopyIsRecord DEF Pause
<1>2. PICK loaded \in Records : loaded = job[j].copy /\ loaded.gates < MaxGates
  BY <1>1
<1>3. loaded.gates + 1 \in 0..MaxGates
  BY <1>2, NothingIsNone DEF Records
<1>4. [loaded EXCEPT !.status = "WaitingForHuman", !.gates = @ + 1] \in Records
  BY <1>3 DEF Records, Statuses
<1> QED
  BY <1>1, <1>2, <1>4, SaveOfSameJob DEF Pause

LEMMA StopKeepsInv ==
  ASSUME Inv, NEW j \in Jobs, NEW s \in {"Completed", "Failed"}, Stop(j, s)
  PROVE  Inv'
<1>1. job[j].at = "running" /\ job[j].copy \in Records
  BY CopyIsRecord DEF Stop
<1>2. [job[j].copy EXCEPT !.status = s] \in Records
  BY <1>1 DEF Records, Statuses
<1> QED
  BY <1>1, <1>2, SaveOfSameJob DEF Stop

LEMMA HandOffKeepsInv ==
  ASSUME Inv, NEW j \in Jobs, HandOff(j)
  PROVE  Inv'
<1>1. job[j].at = "paused" /\ job[j].copy \in Records
  BY CopyIsRecord DEF HandOff
<1>2. [job[j].copy EXCEPT !.linked = PayloadFor(job[j].copy)] \in Records
  BY <1>1 DEF Records, PayloadFor
<1> QED
  BY <1>1, <1>2, SaveOfSameJob DEF HandOff

LEMMA EndSaveKeepsInv ==
  ASSUME Inv, NEW j \in Jobs, EndSave(j)
  PROVE  Inv'
<1>1. /\ job[j].at = "saving" /\ MovesTo(j, job[j].next)
      /\ disk' = [disk EXCEPT ![job[j].execution] = job[j].copy]
      /\ UNCHANGED <<marked, reports, delivered, runs, unreported>>
  BY DEF EndSave
<1>2. PICK p \in Processes : p = job[j] /\ Fit(p) /\ j \in Busy
  BY <1>1, JobIs
<1>3. PICK e \in Executions : e = p.execution
  BY <1>1, <1>2 DEF Fit, RunsExecution
<1>4. p.copy \in Records /\ e \in unreported /\ p.next \in {"running", "paused", "stopped"}
  BY <1>1, <1>2, <1>3 DEF Fit, RunsExecution
<1> DEFINE new == [p EXCEPT !.at = p.next]
<1>5. /\ new \in Processes /\ new.at \in {"running", "paused", "stopped"}
      /\ new.comment = p.comment /\ new.execution = e /\ new.copy = p.copy
      /\ Becomes(j, new)
  BY <1>1, <1>2, <1>3, <1>4 DEF Processes, Places, MovesTo
<1> HIDE DEF new
<1>6. /\ disk' = [disk EXCEPT ![e] = p.copy] /\ p.copy # Absent
      /\ disk'[e] = p.copy /\ \A i \in Executions \ {e} : disk'[i] = disk[i]
  BY <1>1, <1>2, <1>3, <1>4 DEF Inv, TypeOK, Records, Absent, Statuses
<1>7. About(p.comment, e)
  BY <1>1, <1>6 DEF About
<1>8. Fit(new)'
  BY <1>4, <1>5, <1>6 DEF Fit, AnswersComment, RunsExecution, PostsReport
<1>9. Alone(j, p.comment, e)
  BY <1>2, <1>3, GoesOnAlone DEF Inv
<1>10. /\ job' \in [Jobs -> Processes]
       /\ \A k \in Jobs : Fit(job[k])'
       /\ \A i, k \in Busy' : i # k => Separate(job'[i], job'[k])
  BY <1>5, <1>7, <1>8, <1>9, JobsStayFit DEF Inv
<1>11. OneReportPerExecution' /\ ReportIsCurrent'
  <2>1. \A i \in Executions : i \notin unreported' => i \notin unreported /\ disk'[i] = disk[i]
    BY <1>1, <1>4, <1>6
  <2> QED
    BY <1>1, <2>1, ReportsStay DEF Inv
<1>12. (\A c \in Comments : runs'[c] # {} => c \in marked') /\ EachFollowUpRunsOnce'
  BY <1>1, RunsStay DEF Inv
<1>13. TypeOK'
  BY <1>1, <1>4, <1>6, <1>10 DEF Inv, TypeOK
<1> QED
  BY <1>10, <1>11, <1>12, <1>13 DEF Inv, Separate

\* A first report of e, or the one report of e changed in place.
LEMMA PostedOnce ==
  ASSUME TypeOK, OneReportPerExecution, NEW post \in Posts, NEW target \in Nat,
         IF target = 0 THEN \A i \in DOMAIN reports : reports[i].marker # post.marker
         ELSE target \in DOMAIN reports /\ reports[target].marker = post.marker,
         reports' = IF target = 0 THEN Append(reports, post)
                    ELSE [reports EXCEPT ![target] = post]
  PROVE  /\ reports' \in Seq(Posts) /\ MarkersKept
         /\ \A i \in DOMAIN reports' :
              \/ reports'[i] = post
              \/ /\ i \in DOMAIN reports /\ reports'[i] = reports[i]
                 /\ reports[i].marker # post.marker
         /\ OneReportPerExecution'
<1>1. target # 0 => target \in DOMAIN reports /\ reports[target].marker = post.marker
  OBVIOUS
<1>2. reports' \in Seq(Posts) /\ MarkersKept
  BY <1>1, PostedInPlace
<1>3. PICK n \in Nat :
        /\ target # 0 => n = target
        /\ target = 0 => n \notin DOMAIN reports
        /\ DOMAIN reports' = DOMAIN reports \cup {n} /\ reports'[n] = post
        /\ \A i \in DOMAIN reports \ {n} : reports'[i] = reports[i]
  BY <1>1, PostedInPlace
<1>4. \A i \in DOMAIN reports \ {n} : reports[i].marker # post.marker
  BY <1>3 DEF OneReportPerExecution
<1>5. OneReportPerExecution'
  BY <1>3, <1>4 DEF OneReportPerExecution
<1> QED
  BY <1>2, <1>3, <1>4, <1>5

LEMMA PostKeepsInv ==
  ASSUME Inv, NEW j \in Jobs, Post(j)
  PROVE  Inv'
<1>1. PICK p \in Processes : p = job[j] /\ Fit(p) /\ j \in Busy
  BY JobIs DEF Post
<1>2. p.at = "posting"
  BY <1>1 DEF Post
<1>3. PICK e \in Executions : e = p.execution
  BY <1>1, <1>2 DEF Fit, RunsExecution
<1>4. PICK loaded \in Records : loaded = p.copy /\ loaded = disk[e]
  BY <1>1, <1>2, <1>3 DEF Fit, PostsReport
<1>5. Targets(p)
  BY <1>1, <1>2 DEF Fit, PostsReport
<1>6. PICK post \in Posts : post.marker = e /\ post.body = Rendered(loaded)
                            /\ post = [marker |-> e, body |-> Rendered(loaded)]
  <2>1. Rendered(loaded) \in Bodies
    BY RenderedIsBody
  <2> QED
    BY <2>1 DEF Posts
<1>7. PICK target \in Nat : target = p.target
  BY DEF Processes
<1>8. /\ reports' = IF target = 0 THEN Append(reports, post)
                    ELSE [reports EXCEPT ![target] = post]
      /\ unreported' = unreported \ {e} /\ Ends(j)
      /\ UNCHANGED <<disk, marked, delivered, runs>>
  BY <1>1, <1>3, <1>4, <1>6, <1>7 DEF Post
<1>9. IF target = 0 THEN \A i \in DOMAIN reports : reports[i].marker # post.marker
      ELSE target \in DOMAIN reports /\ reports[target].marker = post.marker
  BY <1>3, <1>5, <1>6, <1>7 DEF Targets
<1>10. /\ reports' \in Seq(Posts) /\ MarkersKept
       /\ \A i \in DOMAIN reports' :
            \/ reports'[i] = post
            \/ /\ i \in DOMAIN reports /\ reports'[i] = reports[i]
               /\ reports[i].marker # post.marker
       /\ OneReportPerExecution'
  BY <1>8, <1>9, PostedOnce DEF Inv
<1>11. About(p.comment, e)
  BY <1>6, <1>8, <1>10 DEF About, MarkersKept
<1>12. Fit(Free)'
  BY DEF Free, Fit, AnswersComment, RunsExecution, PostsReport
<1>13. Alone(j, p.comment, e)
  BY <1>1, <1>3, GoesOnAlone DEF Inv
<1>14. /\ job' \in [Jobs -> Processes]
       /\ \A k \in Jobs : Fit(job[k])'
       /\ \A i, k \in Busy' : i # k => Separate(job'[i], job'[k])
  BY <1>8, <1>11, <1>12, <1>13, FreeIsFit, JobsStayFit DEF Inv, Ends
<1>15. ReportIsCurrent'
  <2>1. ASSUME NEW i \in DOMAIN reports', reports'[i].marker \notin unreported'
        PROVE  reports'[i].body = Rendered(disk[reports'[i].marker])
    <3>1. CASE reports'[i] = post
      BY <1>4, <1>6, <3>1
    <3>2. CASE /\ i \in DOMAIN reports /\ reports'[i] = reports[i]
               /\ reports[i].marker # post.marker
      <4>1. reports[i].marker \notin unreported
        BY <1>6, <1>8, <2>1, <3>2
      <4> QED
        BY <3>2, <4>1 DEF Inv, ReportIsCurrent
    <3> QED
      BY <1>10, <3>1, <3>2
  <2>2. disk' = disk
    BY <1>8
  <2> QED
    BY <2>1, <2>2 DEF ReportIsCurrent, Rendered, RenderWaiting, RenderCompleted, RenderHeading
<1>16. (\A c \in Comments : runs'[c] # {} => c \in marked') /\ EachFollowUpRunsOnce'
  BY <1>8, RunsStay DEF Inv
<1>17. TypeOK'
  BY <1>8, <1>10, <1>14 DEF Inv, TypeOK
<1> QED
  BY <1>10, <1>14, <1>15, <1>16, <1>17 DEF Inv, Separate

-----------------------------------------------------------------------------
(* The theorems.                                                           *)

LEMMA InvInit ==
  Init => Inv
<1> SUFFICES ASSUME Init PROVE Inv
  OBVIOUS
<1>1. \A j \in Jobs : job[j] = Free
  BY DEF Init
<1>2. TypeOK
  <2>1. <<>> \in Seq(Posts)
    OBVIOUS
  <2> QED
    BY <2>1, FreeIsFit, NothingIsNone DEF Init, TypeOK
<1>3. \A j \in Jobs : Fit(job[j])
  BY <1>1, FreeIsFit
<1>4. Busy = {}
  BY <1>1, FreeIsFit DEF Busy
<1> QED
  BY <1>2, <1>3, <1>4
     DEF Inv, Init, EachFollowUpRunsOnce, OneReportPerExecution, ReportIsCurrent

LEMMA InvNext ==
  ASSUME Apart, Inv, [Next]_vars
  PROVE  Inv'
<1>1. CASE Next
  <2>1. PICK j \in Jobs :
          \/ \E c \in Comments : Deliver(c, j)
          \/ CheckMarker(j) \/ Refuse(j) \/ Accept(j)
          \/ \E e \in Executions : StartExecution(j, e) \/ Resume(j, e) \/ Cancel(j, e)
                                    \/ PostReport(j, e)
          \/ EndSave(j) \/ Pause(j) \/ \E s \in {"Completed", "Failed"} : Stop(j, s)
          \/ HandOff(j) \/ NoHandOff(j)
          \/ LoadForReport(j) \/ Look(j) \/ Post(j)
          \/ Die(j)
    BY <1>1 DEF Next
  <2>2. CASE \/ \E c \in Comments : Deliver(c, j)
             \/ CheckMarker(j) \/ Refuse(j) \/ Accept(j)
    BY <2>2, DeliverKeepsInv, CheckMarkerKeepsInv, RefuseKeepsInv, AcceptKeepsInv
  <2>3. CASE \E e \in Executions : StartExecution(j, e) \/ Resume(j, e) \/ Cancel(j, e)
                                    \/ PostReport(j, e)
    BY <2>3, StartExecutionKeepsInv, ResumeKeepsInv, CancelKeepsInv, PostReportKeepsInv
  <2>4. CASE \/ EndSave(j) \/ Pause(j) \/ \E s \in {"Completed", "Failed"} : Stop(j, s)
             \/ HandOff(j) \/ NoHandOff(j)
    BY <2>4, EndSaveKeepsInv, PauseKeepsInv, StopKeepsInv, HandOffKeepsInv, NoHandOffKeepsInv
  <2>5. CASE LoadForReport(j) \/ Look(j) \/ Post(j) \/ Die(j)
    BY <2>5, LoadForReportKeepsInv, LookKeepsInv, PostKeepsInv, DieKeepsInv
  <2> QED
    BY <2>1, <2>2, <2>3, <2>4, <2>5
<1>2. CASE UNCHANGED vars
  BY <1>2 DEF vars, Inv, TypeOK, Busy, Fit, AnswersComment, RunsExecution, PostsReport,
     Targets, Separate, EachFollowUpRunsOnce, OneReportPerExecution, ReportIsCurrent,
     Rendered, RenderWaiting, RenderCompleted, RenderHeading
<1> QED
  BY <1>1, <1>2

LEMMA InvHolds ==
  ASSUME Apart
  PROVE  Spec => []Inv
<1>1. Inv /\ [Next]_vars => Inv'
  BY InvNext
<1> QED
  BY InvInit, <1>1, PTL DEF Spec

\* Every state is of its type (cli/commands.rs, github/report.rs), whether the
\* jobs are kept apart or not: no report is of anything but an execution, and
\* no save writes what is no record.
THEOREM TypeIsCorrect == Spec => []TypeOK
<1>1. JobsInv => TypeOK
  BY DEF JobsInv
<1> QED
  BY JobsInvHolds, <1>1, PTL

\* A report is never overwritten by that of another execution, whoever posts
\* between the look for its marker and the post (github/comment.rs,
\* post_or_update_report).
THEOREM ReportsAlwaysKeepTheirExecution == Spec => ReportsKeepTheirExecution
<1>1. JobsInv /\ [Next]_vars =>
        [\A i \in DOMAIN reports :
           i \in DOMAIN reports' /\ reports'[i].marker = reports[i].marker]_vars
  BY JobsInvNext DEF MarkersKept
<1> QED
  BY JobsInvHolds, <1>1, PTL DEF Spec, ReportsKeepTheirExecution

\* A comment starts no more executions than it was delivered (cli/commands.rs,
\* handle_comment), for any number of jobs at a time: each job that got as far
\* as the acceptance starts one and is counted no more.
THEOREM RunsAreNeverMoreThanDeliveries == Spec => []OneRunPerDelivery
<1>1. ASSUME JobsInv, NEW c \in Comments
      PROVE  Cardinality(runs[c]) <= delivered[c]
  <2>1. /\ IsFiniteSet(runs[c]) /\ IsFiniteSet(Coming(c)) /\ delivered[c] \in Nat
        /\ Cardinality(runs[c]) + Cardinality(Coming(c)) <= delivered[c]
    BY <1>1, NothingIsNone DEF JobsInv, TypeOK, Counted
  <2> QED
    BY <2>1, FS_CardinalityType
<1>2. JobsInv => OneRunPerDelivery
  BY <1>1 DEF OneRunPerDelivery
<1> QED
  BY JobsInvHolds, <1>2, PTL

\* However many times the webhook of a follow-up comment is delivered, and
\* wherever its jobs die, it starts at most one execution (github/decision.rs,
\* processed-events): it is marked before the execution starts, so that a job
\* which got as far as "accepted" has nothing running for its comment yet.
THEOREM FollowUpsAlwaysRunOnce ==
  ASSUME Apart
  PROVE  Spec => []EachFollowUpRunsOnce
<1>1. Inv => EachFollowUpRunsOnce
  BY DEF Inv
<1> QED
  BY InvHolds, <1>1, PTL

\* An execution never has two reports (github/comment.rs): between the look
\* for its marker and the post, nobody else can post a report with it, and the
\* comment that was found keeps its marker.
THEOREM ReportsAreOnePerExecution ==
  ASSUME Apart
  PROVE  Spec => []OneReportPerExecution
<1>1. Inv => OneReportPerExecution
  BY DEF Inv
<1> QED
  BY InvHolds, <1>1, PTL

\* The report of an execution that was saved no more since it was posted shows
\* the record on disk (github/report.rs, workspace/store.rs): what a job has
\* loaded to report is still on disk when it posts.
THEOREM ReportsAreAlwaysCurrent ==
  ASSUME Apart
  PROVE  Spec => []ReportIsCurrent
<1>1. Inv => ReportIsCurrent
  BY DEF Inv
<1> QED
  BY InvHolds, <1>1, PTL

-----------------------------------------------------------------------------
(* The console: its inductive invariant.                                   *)

\* A gate that waits for a decision.
Open(e) == record[e].status = "WaitingForHuman"

Busied == {"working", "deciding", "delivering"}

\* The call in progress is about an execution whose record is the one in
\* memory, unless someone has cancelled it.
AboutOneExecution ==
  /\ at \in Busied => current \in Ids
  /\ at = "working" => record[current] = JustStarted
  /\ at \in {"deciding", "delivering"} => record[current] = copy \/ ~Open(current)

\* A gate that is open was raised, and the one at a prompt was shown.
GatesAreRaised ==
  /\ \A e \in Ids : Open(e) => record[e].gate \in Gates
  /\ at = "deciding" => copy.status = "WaitingForHuman" /\ copy.gate \in Gates

\* A call of a chat is about its open gate, or there is none.
InChat ==
  /\ at # "deciding"
  /\ at = "delivering" => copy.status # "WaitingForHuman"
  /\ at \in {"working", "delivering"} => pending \in {NoId, current}
  /\ \A e \in Ids : Open(e) => pending = e

\* A command has one execution at most.
InCommand ==
  /\ pending = NoId
  /\ at = "prompt" => \A e \in Ids : ~Open(e)
  /\ at \in Busied => \A e \in Ids : Open(e) => e = current
  /\ (at = "ended" /\ \E e \in Ids : Open(e)) => exit \in {1, 6}

ConsoleInv ==
  /\ ConsoleTypeOK
  /\ AboutOneExecution
  /\ GatesAreRaised
  /\ (mode = "chat") => InChat
  /\ mode = "command" => InCommand
  /\ PickedIsApplied

LEMMA ConsoleConstants ==
  /\ Numbers \in [Words -> Nat \cup {NoNumber}] /\ NoNumber \notin Nat
  /\ \A gate \in Gates : gate \in Seq(Words) /\ gate # <<>>
  /\ NoGate \notin Gates /\ NoId \notin Ids /\ MaxPrompts \in Nat
BY ConsoleAssumption DEF NoGate

\* The options of a gate that have this id.
Named(gate, word) == {o \in 1..Len(gate) : gate[o] = word}

\* The id goes before the number, whatever the id looks like.
LEMMA OptionOfWord ==
  ASSUME NEW gate \in Gates, NEW word \in Words
  PROVE  IF Named(gate, word) # {} THEN OptionOf(gate, word) \in Named(gate, word)
         ELSE OptionOf(gate, word) =
                IF Numbers[word] # NoNumber /\ Numbers[word] < Len(gate) THEN Numbers[word] + 1
                ELSE 0
<1>1. SelectInSeq(gate, LAMBDA id : id = word) =
        IF Named(gate, word) # {} THEN Min(Named(gate, word)) ELSE 0
  BY Zenon DEF SelectInSeq, Named
<1>2. gate \in Seq(Words) /\ Named(gate, word) \in SUBSET Nat /\ 0 \notin Named(gate, word)
  BY ConsoleConstants DEF Named
<1>3. CASE Named(gate, word) # {}
  <2>1. \E m \in Named(gate, word) : \A n \in Named(gate, word) : m <= n
    BY <1>2, <1>3, LeastNumber
  <2>2. Min(Named(gate, word)) \in Named(gate, word)
    BY <2>1 DEF Min
  <2>3. SelectInSeq(gate, LAMBDA id : id = word) # 0
    BY <1>1, <1>2, <1>3, <2>2
  <2> QED
    BY <1>1, <1>3, <2>2, <2>3 DEF OptionOf
<1>4. CASE Named(gate, word) = {}
  BY <1>1, <1>4 DEF OptionOf
<1> QED
  BY <1>3, <1>4

LEMMA OptionExists ==
  ASSUME NEW gate \in Gates, NEW word \in Words, OptionOf(gate, word) # 0
  PROVE  OptionOf(gate, word) \in DOMAIN gate
<1>1. gate \in Seq(Words) /\ DOMAIN gate = 1..Len(gate) /\ Len(gate) \in Nat
  BY ConsoleConstants
<1>2. CASE Named(gate, word) # {}
  BY <1>1, <1>2, OptionOfWord DEF Named
<1>3. CASE Named(gate, word) = {}
  <2>1. Numbers[word] \in Nat /\ Numbers[word] < Len(gate)
    BY <1>3, OptionOfWord, ConsoleConstants
  <2> QED
    BY <1>1, <1>3, <2>1, OptionOfWord, ConsoleConstants
<1> QED
  BY <1>2, <1>3

\* What the person meant, by the id or by the number.
LEMMA OptionIsMeant ==
  ASSUME NEW gate \in Gates, NEW word \in Words, OptionOf(gate, word) # 0
  PROVE  IF \E o \in DOMAIN gate : gate[o] = word
         THEN gate[OptionOf(gate, word)] = word
         ELSE OptionOf(gate, word) = Numbers[word] + 1
<1>1. DOMAIN gate = 1..Len(gate)
  BY ConsoleConstants
<1>2. CASE \E o \in DOMAIN gate : gate[o] = word
  BY <1>1, <1>2, OptionOfWord DEF Named
<1>3. CASE ~ \E o \in DOMAIN gate : gate[o] = word
  BY <1>1, <1>3, OptionOfWord DEF Named
<1> QED
  BY <1>2, <1>3

\* The command gives resume the id of the option: it is found there again.
LEMMA IdIsFoundAgain ==
  ASSUME NEW gate \in Gates, NEW o \in DOMAIN gate
  PROVE  /\ gate[o] \in Words
         /\ OptionOf(gate, gate[o]) # 0
         /\ IsInjective(gate) => OptionOf(gate, gate[o]) = o
<1>1. gate \in Seq(Words) /\ DOMAIN gate = 1..Len(gate)
  BY ConsoleConstants
<1>2. gate[o] \in Words /\ o \in Named(gate, gate[o])
  BY <1>1 DEF Named
<1>3. OptionOf(gate, gate[o]) \in Named(gate, gate[o])
  BY <1>2, OptionOfWord
<1>4. IsInjective(gate) => \A p \in DOMAIN gate : gate[p] = gate[o] => p = o
  BY DEF IsInjective
<1> QED
  BY <1>1, <1>2, <1>3, <1>4 DEF Named

-----------------------------------------------------------------------------
(* The steps.                                                              *)

ErrorCodes == {1, 2, 3}

LEMMA ErrorCodeIs ==
  ASSUME NEW error
  PROVE  ErrorCode(error) \in ErrorCodes
BY DEF ErrorCode, ErrorCodes

\* What a step that leaves the records and the last decision alone keeps.
LEMMA PickStays ==
  ASSUME PickedIsApplied, picked' = picked
  PROVE  PickedIsApplied'
BY DEF PickedIsApplied

LEMMA NoRecordIs ==
  /\ NoRecord \in ConsoleRecords /\ NoRecord.status = "absent"
  /\ JustStarted \in ConsoleRecords /\ JustStarted.status = "Running"
BY DEF NoRecord, JustStarted, ConsoleRecords

\* The process ends.
LEMMA EndKeepsInv ==
  ASSUME ConsoleInv, NEW code \in ExitCodes, EndWith(code),
         UNCHANGED <<mode, record, pending, picked>>, prompts' \in 0..MaxPrompts,
         mode = "command" /\ (\E e \in Ids : Open(e)) => code \in {1, 6}
  PROVE  ConsoleInv'
<1>1. at' = "ended" /\ exit' = code /\ current' = NoId /\ copy' = NoRecord
  BY DEF EndWith
<1>2. ConsoleTypeOK'
  BY <1>1, NoRecordIs DEF ConsoleInv, ConsoleTypeOK
<1>3. AboutOneExecution' /\ GatesAreRaised'
  BY <1>1 DEF ConsoleInv, AboutOneExecution, GatesAreRaised, Busied, Open
<1>4. (mode = "chat") => InChat'
  BY <1>1 DEF ConsoleInv, InChat, Open
<1>5. (mode = "command") => InCommand'
  BY <1>1 DEF ConsoleInv, InCommand, Busied, Open
<1>6. PickedIsApplied'
  BY PickStays DEF ConsoleInv
<1> QED
  BY <1>2, <1>3, <1>4, <1>5, <1>6 DEF ConsoleInv

\* An error of a turn: the chat goes on, with the gate it had.
LEMMA TurnFailsKeepsInv ==
  ASSUME ConsoleInv, NEW error, TurnFails(error), UNCHANGED <<mode, record, picked>>,
         prompts' \in 0..MaxPrompts,
         mode = "command" /\ (\E e \in Ids : Open(e)) => ErrorCode(error) \in {1, 6}
  PROVE  ConsoleInv'
<1>1. CASE mode = "chat"
  <2>1. /\ at' = "prompt" /\ current' = NoId /\ copy' = NoRecord
        /\ UNCHANGED <<mode, record, pending, exit, picked>>
    BY <1>1 DEF TurnFails, GateKept
  <2>2. ConsoleTypeOK'
    BY <2>1, NoRecordIs DEF ConsoleInv, ConsoleTypeOK
  <2>3. AboutOneExecution' /\ GatesAreRaised'
    BY <2>1 DEF ConsoleInv, AboutOneExecution, GatesAreRaised, Busied, Open
  <2>4. InChat'
    BY <1>1, <2>1 DEF ConsoleInv, InChat, Open
  <2>5. PickedIsApplied'
    BY PickStays DEF ConsoleInv
  <2> QED
    BY <1>1, <2>1, <2>2, <2>3, <2>4, <2>5 DEF ConsoleInv
<1>2. CASE mode # "chat"
  <2>1. EndWith(ErrorCode(error)) /\ UNCHANGED pending
    BY <1>2 DEF TurnFails
  <2>2. ErrorCode(error) \in ExitCodes
    BY ErrorCodeIs DEF ErrorCodes, ExitCodes
  <2> QED
    BY <2>1, <2>2, EndKeepsInv
<1> QED
  BY <1>1, <1>2

\* A call begins: it is about the one execution whose gate may be open.
LEMMA CallBeginsKeepsInv ==
  ASSUME ConsoleInv, NEW e \in Ids,
         record' = [record EXCEPT ![e] = JustStarted],
         current' = e, copy' = JustStarted, at' = "working",
         UNCHANGED <<mode, pending, exit>>, prompts' \in 0..MaxPrompts,
         pending \in {NoId, e}, \A i \in Ids : Open(i) => i = e,
         picked' \in Picks \cup {NoPick}, PickedIsApplied'
  PROVE  ConsoleInv'
<1>1. record \in [Ids -> ConsoleRecords]
  BY DEF ConsoleInv, ConsoleTypeOK
<1>2. record' \in [Ids -> ConsoleRecords] /\ \A i \in Ids : ~Open(i)'
  BY <1>1, NoRecordIs DEF Open
<1>3. ConsoleTypeOK'
  BY <1>2, NoRecordIs DEF ConsoleInv, ConsoleTypeOK
<1>4. AboutOneExecution'
  BY <1>1 DEF AboutOneExecution, Busied
<1>5. GatesAreRaised'
  BY <1>2 DEF GatesAreRaised
<1>6. (mode = "chat") => InChat'
  BY <1>2 DEF InChat
<1>7. (mode = "command") => InCommand'
  BY <1>2 DEF ConsoleInv, InCommand, Busied
<1> QED
  BY <1>3, <1>4, <1>5, <1>6, <1>7 DEF ConsoleInv

LEMMA TypedIs ==
  ASSUME ConsoleInv, Typed
  PROVE  prompts' \in 0..MaxPrompts
BY ConsoleConstants DEF ConsoleInv, ConsoleTypeOK, Typed

LEMMA PromptStepKeepsInv ==
  ASSUME ConsoleInv, NEW line \in Lines,
         \/ TurnRefused(line) \/ RoutePanic(line) \/ \E e \in Ids : BeginTurn(line, e)
  PROVE  ConsoleInv'
<1>1. at = "prompt" /\ pending = NoId /\ prompts' \in 0..MaxPrompts
  BY TypedIs DEF TurnRefused, RoutePanic, BeginTurn
<1>2. \A e \in Ids : ~Open(e)
  BY <1>1, ConsoleConstants DEF ConsoleInv, ConsoleTypeOK, Modes, InChat, InCommand
<1>3. CASE TurnRefused(line)
  <2>1. PICK error : TurnFails(error) /\ UNCHANGED <<mode, record, picked>>
    BY <1>3 DEF TurnRefused
  <2> QED
    BY <1>1, <1>2, <2>1, TurnFailsKeepsInv
<1>4. CASE RoutePanic(line)
  <2>1. EndWith(101) /\ UNCHANGED <<mode, record, pending, picked>> /\ 101 \in ExitCodes
    BY <1>4 DEF RoutePanic, ExitCodes
  <2> QED
    BY <1>1, <1>2, <2>1, EndKeepsInv
<1>5. ASSUME NEW e \in Ids, BeginTurn(line, e)
      PROVE  ConsoleInv'
  <2>1. /\ record' = [record EXCEPT ![e] = JustStarted]
        /\ current' = e /\ copy' = JustStarted /\ at' = "working"
        /\ UNCHANGED <<mode, pending, exit, picked>>
    BY <1>5 DEF BeginTurn
  <2>2. picked' \in Picks \cup {NoPick} /\ PickedIsApplied'
    BY <2>1, PickStays DEF ConsoleInv, ConsoleTypeOK
  <2> QED
    BY <1>1, <1>2, <2>1, <2>2, CallBeginsKeepsInv
<1> QED
  BY <1>3, <1>4, <1>5

\* resume refuses the decision of a chat, or one on a gate that is closed.
LEMMA DecisionRefusedKeepsInv ==
  ASSUME ConsoleInv, NEW e, NEW word, DecisionRefused(e, word), prompts' \in 0..MaxPrompts,
         mode = "command" /\ (\E i \in Ids : Open(i)) => Accepts(e, word)
  PROVE  ConsoleInv'
<1>1. PICK error : /\ TurnFails(error) /\ UNCHANGED <<mode, record, picked>>
                   /\ ~Accepts(e, word) \/ mode = "chat"
  BY DEF DecisionRefused
<1> QED
  BY <1>1, TurnFailsKeepsInv DEF ConsoleInv, ConsoleTypeOK, Modes

LEMMA DecisionTakenKeepsInv ==
  ASSUME ConsoleInv, NEW e \in Ids, NEW word, NEW shown \in Gates, NEW typed \in Words,
         DecisionTaken(e, word, shown, typed), prompts' \in 0..MaxPrompts,
         pending \in {NoId, e}, \A i \in Ids : Open(i) => i = e,
         NEW n \in Nat \ {0}, n = OptionOf(record[e].gate, word),
         IsInjective(shown) =>
           IF \E o \in DOMAIN shown : shown[o] = typed THEN shown[n] = typed
           ELSE n = Numbers[typed] + 1
  PROVE  ConsoleInv'
<1>1. /\ picked' = [gate |-> shown, word |-> typed, option |-> n]
      /\ record' = [record EXCEPT ![e] = JustStarted]
      /\ current' = e /\ copy' = JustStarted /\ at' = "working"
      /\ UNCHANGED <<mode, pending, exit>>
  BY DEF DecisionTaken
<1>2. picked' \in Picks /\ PickedIsApplied'
  BY <1>1 DEF Picks, PickedIsApplied
<1> QED
  BY <1>1, <1>2, CallBeginsKeepsInv

LEMMA ChatDecidesKeepsInv ==
  ASSUME ConsoleInv, NEW word \in Words, ChatDecides(word)
  PROVE  ConsoleInv'
<1>1. /\ mode = "chat" /\ at = "prompt" /\ prompts' \in 0..MaxPrompts /\ pending \in Ids
  BY TypedIs DEF ChatDecides, ConsoleInv, ConsoleTypeOK
<1>2. \A e \in Ids : Open(e) => e = pending
  BY <1>1 DEF ConsoleInv, InChat
<1>3. CASE DecisionRefused(pending, word)
  BY <1>1, <1>3, DecisionRefusedKeepsInv
<1>4. CASE DecisionTaken(pending, word, record[pending].gate, word)
  <2>1. OptionOf(record[pending].gate, word) # 0 /\ Open(pending)
    BY <1>4 DEF DecisionTaken, Accepts, Open
  <2>2. PICK shown \in Gates : shown = record[pending].gate
    BY <1>1, <2>1 DEF ConsoleInv, GatesAreRaised
  <2>3. PICK n \in Nat \ {0} : n = OptionOf(shown, word)
    BY <2>1, <2>2, OptionExists, ConsoleConstants
  <2>4. IF \E o \in DOMAIN shown : shown[o] = word THEN shown[n] = word
        ELSE n = Numbers[word] + 1
    BY <2>3, OptionIsMeant
  <2> QED
    BY <1>1, <1>2, <1>4, <2>2, <2>3, <2>4, DecisionTakenKeepsInv
<1> QED
  BY <1>3, <1>4 DEF ChatDecides

\* What is known at the prompt of a command for a decision: the gate shown is
\* the open one, unless the execution was cancelled since.
LEMMA AtTheDecision ==
  ASSUME ConsoleInv, at = "deciding"
  PROVE  /\ mode = "command" /\ pending = NoId /\ current \in Ids
         /\ \A e \in Ids : Open(e) => e = current
         /\ copy.gate \in Gates
         /\ Open(current) => record[current].gate = copy.gate
<1>1. mode = "command"
  BY DEF ConsoleInv, ConsoleTypeOK, Modes, InChat
<1> QED
  BY <1>1 DEF ConsoleInv, InCommand, AboutOneExecution, GatesAreRaised, Busied

LEMMA CommandDecidesKeepsInv ==
  ASSUME ConsoleInv, NEW word \in Words, CommandDecides(word)
  PROVE  ConsoleInv'
<1>1. at = "deciding" /\ prompts' \in 0..MaxPrompts /\ OptionOf(copy.gate, word) # 0
  BY TypedIs DEF CommandDecides
<1>2. PICK shown \in Gates : shown = copy.gate
  BY <1>1, AtTheDecision
<1>3. PICK n \in DOMAIN shown : n = OptionOf(shown, word)
  BY <1>1, <1>2, OptionExists
<1>4. /\ shown[n] \in Words /\ OptionOf(shown, shown[n]) # 0
      /\ IsInjective(shown) => OptionOf(shown, shown[n]) = n
  BY IdIsFoundAgain
<1>5. \/ DecisionRefused(current, shown[n])
      \/ DecisionTaken(current, shown[n], shown, word)
  BY <1>2, <1>3 DEF CommandDecides
<1>6. CASE DecisionRefused(current, shown[n])
  <2>1. Open(current) => Accepts(current, shown[n])
    BY <1>1, <1>2, <1>4, AtTheDecision DEF Accepts, Open
  <2> QED
    BY <1>1, <1>6, <2>1, AtTheDecision, DecisionRefusedKeepsInv
<1>7. CASE DecisionTaken(current, shown[n], shown, word)
  <2>1. record[current].gate = shown
    BY <1>1, <1>2, <1>7, AtTheDecision DEF DecisionTaken, Accepts, Open
  <2>2. PICK m \in Nat \ {0} : m = OptionOf(shown, shown[n])
    BY <1>4, OptionExists, ConsoleConstants
  <2>3. IF \E o \in DOMAIN shown : shown[o] = word THEN shown[n] = word
        ELSE n = Numbers[word] + 1
    BY <1>1, <1>2, <1>3, OptionIsMeant
  <2>4. IsInjective(shown) =>
          IF \E o \in DOMAIN shown : shown[o] = word THEN shown[m] = word
          ELSE m = Numbers[word] + 1
    BY <1>4, <2>2, <2>3
  <2>5. m = OptionOf(record[current].gate, shown[n])
    BY <2>1, <2>2
  <2>6. /\ current \in Ids /\ prompts' \in 0..MaxPrompts /\ pending \in {NoId, current}
        /\ \A i \in Ids : Open(i) => i = current
    BY <1>1, AtTheDecision
  <2> QED
    BY <1>7, <2>4, <2>5, <2>6, DecisionTakenKeepsInv
<1> QED
  BY <1>5, <1>6, <1>7

LEMMA AskAgainKeepsInv ==
  ASSUME ConsoleInv, NEW word \in Words, AskAgain(word)
  PROVE  ConsoleInv'
<1>1. /\ UNCHANGED <<mode, at, record, current, copy, pending, exit, picked>>
      /\ prompts' \in 0..MaxPrompts
  BY TypedIs DEF AskAgain
<1> QED
  BY <1>1, PickStays DEF ConsoleInv, ConsoleTypeOK, AboutOneExecution, GatesAreRaised,
     InChat, InCommand, Open

-----------------------------------------------------------------------------
(* The call returns.                                                       *)

\* What is known while a call runs.
LEMMA AtWork ==
  ASSUME ConsoleInv, at = "working"
  PROVE  /\ current \in Ids /\ \A e \in Ids : ~Open(e)
         /\ pending \in {NoId, current} /\ prompts \in 0..MaxPrompts
         /\ record \in [Ids -> ConsoleRecords]
<1>1. current \in Ids /\ ~Open(current)
  BY NoRecordIs DEF ConsoleInv, AboutOneExecution, Busied, Open
<1>2. CASE mode = "chat"
  BY <1>1, <1>2, ConsoleConstants DEF ConsoleInv, ConsoleTypeOK, InChat
<1>3. CASE mode = "command"
  BY <1>1, <1>3 DEF ConsoleInv, ConsoleTypeOK, InCommand, Busied
<1> QED
  BY <1>1, <1>2, <1>3 DEF ConsoleInv, ConsoleTypeOK, Modes

LEMMA CallFailsKeepsInv ==
  ASSUME ConsoleInv, CallFails
  PROVE  ConsoleInv'
BY AtWork, TurnFailsKeepsInv DEF CallFails

LEMMA StopsKeepsInv ==
  ASSUME ConsoleInv, at = "working", NEW execution \in ConsoleRecords,
         NEW next \in {"deciding", "delivering"}, Stops(execution, next),
         UNCHANGED <<current, pending>>,
         IF execution.status = "WaitingForHuman"
         THEN mode # "chat" /\ execution.gate \in Gates
         ELSE next = "delivering"
  PROVE  ConsoleInv'
<1>1. /\ record' = [record EXCEPT ![current] = execution]
      /\ copy' = execution /\ at' = next
      /\ UNCHANGED <<mode, current, pending, prompts, exit, picked>>
  BY DEF Stops
<1>2. /\ record' \in [Ids -> ConsoleRecords]
      /\ record'[current] = execution
      /\ \A e \in Ids : Open(e)' =>
           e = current /\ execution.status = "WaitingForHuman" /\ record'[e] = execution
  BY <1>1, AtWork DEF Open
<1>3. ConsoleTypeOK'
  BY <1>1, <1>2 DEF ConsoleInv, ConsoleTypeOK
<1>4. AboutOneExecution'
  BY <1>1, <1>2, AtWork DEF AboutOneExecution, Busied
<1>5. GatesAreRaised'
  BY <1>1, <1>2 DEF GatesAreRaised
<1>6. (mode = "chat") => InChat'
  BY <1>1, <1>2, AtWork DEF ConsoleInv, InChat
<1>7. (mode = "command") => InCommand'
  BY <1>1, <1>2, AtWork DEF ConsoleInv, InCommand, Busied
<1>8. PickedIsApplied'
  BY <1>1, PickStays DEF ConsoleInv
<1> QED
  BY <1>1, <1>3, <1>4, <1>5, <1>6, <1>7, <1>8 DEF ConsoleInv

LEMMA CallAsksKeepsInv ==
  ASSUME ConsoleInv, NEW gate \in Gates, CallAsks(gate)
  PROVE  ConsoleInv'
<1> DEFINE asking == [status |-> "WaitingForHuman", gate |-> gate, rejected |-> FALSE]
<1>1. asking \in ConsoleRecords /\ asking.status = "WaitingForHuman" /\ asking.gate = gate
  BY DEF ConsoleRecords
<1>2. /\ at = "working"
      /\ IF mode = "chat"
         THEN /\ record' = [record EXCEPT ![current] = asking]
              /\ pending' = current
              /\ at' = "prompt" /\ current' = NoId /\ copy' = NoRecord
              /\ UNCHANGED <<mode, prompts, exit, picked>>
         ELSE Stops(asking, "deciding") /\ UNCHANGED <<current, pending>>
  BY DEF CallAsks
<1> HIDE DEF asking
<1>3. CASE mode = "chat"
  <2>1. /\ record' \in [Ids -> ConsoleRecords] /\ record'[current].gate = gate
        /\ \A e \in Ids : Open(e)' => e = current
    BY <1>1, <1>2, <1>3, AtWork DEF Open
  <2>2. ConsoleTypeOK'
    BY <1>2, <1>3, <2>1, AtWork, NoRecordIs DEF ConsoleInv, ConsoleTypeOK
  <2>3. AboutOneExecution' /\ GatesAreRaised'
    BY <1>2, <1>3, <2>1 DEF AboutOneExecution, GatesAreRaised, Busied
  <2>4. InChat'
    BY <1>2, <1>3, <2>1 DEF InChat
  <2>5. PickedIsApplied'
    BY <1>2, <1>3, PickStays DEF ConsoleInv
  <2> QED
    BY <1>2, <1>3, <2>2, <2>3, <2>4, <2>5 DEF ConsoleInv
<1>4. CASE mode # "chat"
  BY <1>1, <1>2, <1>4, StopsKeepsInv
<1> QED
  BY <1>3, <1>4

LEMMA CallEndsKeepsInv ==
  ASSUME ConsoleInv, CallCompletes \/ \E rejected \in BOOLEAN : CallStops(rejected)
  PROVE  ConsoleInv'
<1>1. PICK status \in {"Completed", "Failed"}, rejected \in BOOLEAN :
        /\ at = "working"
        /\ Stops([status |-> status, gate |-> NoGate, rejected |-> rejected], "delivering")
        /\ UNCHANGED <<current, pending>>
  BY DEF CallCompletes, CallStops
<1> DEFINE ended == [status |-> status, gate |-> NoGate, rejected |-> rejected]
<1>2. ended \in ConsoleRecords /\ ended.status # "WaitingForHuman"
  BY DEF ConsoleRecords
<1> QED
  BY <1>1, <1>2, StopsKeepsInv

-----------------------------------------------------------------------------
(* The end, and another terminal.                                          *)

LEMMA NoDecisionKeepsInv ==
  ASSUME ConsoleInv, NoDecision
  PROVE  ConsoleInv'
<1>1. /\ at = "deciding" /\ at' = "delivering"
      /\ UNCHANGED <<mode, record, current, copy, pending, prompts, exit, picked>>
  BY DEF NoDecision
<1>2. mode = "command"
  BY <1>1, AtTheDecision
<1>3. ConsoleTypeOK'
  BY <1>1 DEF ConsoleInv, ConsoleTypeOK
<1>4. AboutOneExecution' /\ GatesAreRaised'
  BY <1>1 DEF ConsoleInv, AboutOneExecution, GatesAreRaised, Busied, Open
<1>5. InCommand'
  BY <1>1, <1>2 DEF ConsoleInv, InCommand, Busied, Open
<1>6. PickedIsApplied'
  BY <1>1, PickStays DEF ConsoleInv
<1> QED
  BY <1>1, <1>2, <1>3, <1>4, <1>5, <1>6 DEF ConsoleInv

LEMMA DeliveryFailsKeepsInv ==
  ASSUME ConsoleInv, DeliveryFails
  PROVE  ConsoleInv'
<1>1. ErrorCode("GitHub") = 1
  BY DEF ErrorCode
<1> QED
  BY <1>1, TurnFailsKeepsInv DEF DeliveryFails, ConsoleInv, ConsoleTypeOK

\* The exit code of a command says what the record on disk says, unless the
\* execution was cancelled meanwhile.
LEMMA DeliveredKeepsInv ==
  ASSUME ConsoleInv, Delivered
  PROVE  ConsoleInv'
<1>1. at = "delivering" /\ UNCHANGED <<mode, record, prompts, picked>>
  BY DEF Delivered
<1>2. current \in Ids /\ (Open(current) => copy.status = "WaitingForHuman")
  BY <1>1 DEF ConsoleInv, AboutOneExecution, Busied, Open
<1>3. CASE mode = "chat"
  <2>1. at' = "prompt" /\ pending' = NoId /\ current' = NoId /\ copy' = NoRecord /\ exit' = exit
    BY <1>3 DEF Delivered
  <2>2. \A e \in Ids : ~Open(e)
    BY <1>1, <1>2, <1>3, ConsoleConstants DEF ConsoleInv, ConsoleTypeOK, InChat
  <2>3. \A e \in Ids : ~Open(e)'
    BY <1>1, <2>2 DEF Open
  <2>4. ConsoleTypeOK'
    BY <1>1, <2>1, NoRecordIs DEF ConsoleInv, ConsoleTypeOK
  <2>5. AboutOneExecution' /\ GatesAreRaised'
    BY <2>1, <2>3 DEF AboutOneExecution, GatesAreRaised, Busied
  <2>6. InChat'
    BY <2>1, <2>3 DEF InChat
  <2>7. PickedIsApplied'
    BY <1>1, PickStays DEF ConsoleInv
  <2> QED
    BY <1>1, <1>3, <2>4, <2>5, <2>6, <2>7 DEF ConsoleInv
<1>4. CASE mode = "command"
  <2>1. EndWith(ExitCodeFor(copy)) /\ UNCHANGED pending
    BY <1>4 DEF Delivered
  <2>2. \A e \in Ids : Open(e) => copy.status = "WaitingForHuman"
    BY <1>1, <1>2, <1>4 DEF ConsoleInv, InCommand, Busied
  <2>3. /\ ExitCodeFor(copy) \in ExitCodes
        /\ copy.status = "WaitingForHuman" => ExitCodeFor(copy) = 6
    BY DEF ExitCodeFor, ExitCodes
  <2>4. prompts' \in 0..MaxPrompts
    BY <1>1 DEF ConsoleInv, ConsoleTypeOK
  <2> QED
    BY <1>1, <2>1, <2>2, <2>3, <2>4, EndKeepsInv
<1> QED
  BY <1>3, <1>4 DEF ConsoleInv, ConsoleTypeOK, Modes

LEMMA QuitKeepsInv ==
  ASSUME ConsoleInv, Quit
  PROVE  ConsoleInv'
<1>1. 0 \in ExitCodes
  BY DEF ExitCodes
<1> QED
  BY <1>1, EndKeepsInv DEF Quit, ConsoleInv, ConsoleTypeOK

LEMMA CancelElsewhereKeepsInv ==
  ASSUME ConsoleInv, NEW e \in Ids, CancelElsewhere(e)
  PROVE  ConsoleInv'
<1> DEFINE cancelled == [JustStarted EXCEPT !.status = "Cancelled"]
<1>1. cancelled \in ConsoleRecords /\ cancelled.status = "Cancelled"
  BY DEF JustStarted, ConsoleRecords
<1>2. /\ at \in {"prompt", "deciding"} /\ record' = [record EXCEPT ![e] = cancelled]
      /\ UNCHANGED <<mode, at, current, copy, pending, prompts, exit, picked>>
  BY DEF CancelElsewhere
<1> HIDE DEF cancelled
<1>3. /\ record' \in [Ids -> ConsoleRecords] /\ ~Open(e)'
      /\ \A i \in Ids : Open(i)' => Open(i) /\ record'[i] = record[i]
      /\ \A i \in Ids \ {e} : record'[i] = record[i]
  BY <1>1, <1>2 DEF ConsoleInv, ConsoleTypeOK, Open
<1>4. ConsoleTypeOK'
  BY <1>2, <1>3 DEF ConsoleInv, ConsoleTypeOK
<1>5. AboutOneExecution'
  BY <1>2, <1>3 DEF ConsoleInv, AboutOneExecution, Busied
<1>6. GatesAreRaised'
  BY <1>2, <1>3 DEF ConsoleInv, GatesAreRaised
<1>7. (mode = "chat") => InChat'
  BY <1>2, <1>3 DEF ConsoleInv, InChat
<1>8. (mode = "command") => InCommand'
  BY <1>2, <1>3 DEF ConsoleInv, InCommand, Busied
<1>9. PickedIsApplied'
  BY <1>2, PickStays DEF ConsoleInv
<1> QED
  BY <1>2, <1>4, <1>5, <1>6, <1>7, <1>8, <1>9 DEF ConsoleInv

-----------------------------------------------------------------------------
(* The theorems about the console.                                         *)

LEMMA ConsoleInvInit ==
  ConsoleInit => ConsoleInv
<1> SUFFICES ASSUME ConsoleInit PROVE ConsoleInv
  OBVIOUS
<1>1. ConsoleTypeOK
  BY NoRecordIs, ConsoleConstants DEF ConsoleInit, ConsoleTypeOK
<1>2. \A e \in Ids : ~Open(e)
  BY NoRecordIs DEF ConsoleInit, Open
<1> QED
  BY <1>1, <1>2 DEF ConsoleInit, ConsoleInv, AboutOneExecution, GatesAreRaised, Busied,
     InChat, InCommand, PickedIsApplied

LEMMA ConsoleInvNext ==
  ASSUME ConsoleInv, [ConsoleNext]_consoleVars
  PROVE  ConsoleInv'
<1>1. CASE \E line \in Lines : \/ TurnRefused(line) \/ RoutePanic(line)
                               \/ \E e \in Ids : BeginTurn(line, e)
  BY <1>1, PromptStepKeepsInv
<1>2. CASE \E word \in Words : ChatDecides(word) \/ AskAgain(word) \/ CommandDecides(word)
  BY <1>2, ChatDecidesKeepsInv, AskAgainKeepsInv, CommandDecidesKeepsInv
<1>3. CASE \/ CallFails \/ \E gate \in Gates : CallAsks(gate)
           \/ \E rejected \in BOOLEAN : CallStops(rejected) \/ CallCompletes
  BY <1>3, CallFailsKeepsInv, CallAsksKeepsInv, CallEndsKeepsInv
<1>4. CASE NoDecision \/ DeliveryFails \/ Delivered
  BY <1>4, NoDecisionKeepsInv, DeliveryFailsKeepsInv, DeliveredKeepsInv
<1>5. CASE Quit \/ \E e \in Ids : CancelElsewhere(e)
  BY <1>5, QuitKeepsInv, CancelElsewhereKeepsInv
<1>6. CASE UNCHANGED consoleVars
  <2>1. UNCHANGED <<mode, at, record, current, copy, pending, prompts, exit, picked>>
    BY <1>6 DEF consoleVars
  <2> QED
    BY <2>1, PickStays DEF ConsoleInv, ConsoleTypeOK, AboutOneExecution, GatesAreRaised,
       InChat, InCommand, Open
<1> QED
  BY <1>1, <1>2, <1>3, <1>4, <1>5, <1>6 DEF ConsoleNext

LEMMA ConsoleInvHolds == ConsoleSpec => []ConsoleInv
<1>1. ConsoleInv /\ [ConsoleNext]_consoleVars => ConsoleInv'
  BY ConsoleInvNext
<1> QED
  BY ConsoleInvInit, <1>1, PTL DEF ConsoleSpec

\* Every variable of the console is of its type: a gate on record is one that
\* was raised, and the process ends with an exit code of cli/mod.rs.
THEOREM ConsoleTypeIsCorrect == ConsoleSpec => []ConsoleTypeOK
<1>1. ConsoleInv => ConsoleTypeOK
  BY DEF ConsoleInv
<1> QED
  BY ConsoleInvHolds, <1>1, PTL

\* Whatever fails and whoever cancels, for any gates and lines (cli/chat.rs,
\* run and resume_turn; cli/commands.rs, exit_code_for): the only open gate of a
\* chat is the one its next line decides, and a command that leaves one open
\* says so in its exit code, or that the delivery failed.
THEOREM NoGateIsEverForgotten == ConsoleSpec => []NoGateIsForgotten
<1>1. ConsoleInv => NoGateIsForgotten
  BY DEF ConsoleInv, InChat, InCommand, NoGateIsForgotten, Open
<1> QED
  BY ConsoleInvHolds, <1>1, PTL

\* For options of any ids that differ, those that look like numbers included
\* (application/resume.rs, resume; cli/commands.rs, prompt_for_decision): the
\* option applied is the one that was typed.
THEOREM PickedIsAlwaysApplied == ConsoleSpec => []PickedIsApplied
<1>1. ConsoleInv => PickedIsApplied
  BY DEF ConsoleInv
<1> QED
  BY ConsoleInvHolds, <1>1, PTL
=============================================================================

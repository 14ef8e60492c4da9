----------------------------- MODULE RunRecords -----------------------------
(***************************************************************************)
(* The records of a run on disk, at its end: _accept_campaign writes them  *)
(* one after the other, each with write_yaml through a temporary file, and *)
(* its handlers take back what a failed write has left half done, unless   *)
(* that fails too.  The process may be killed, or the host may lose power, *)
(* at any moment, and meanwhile `status` and `report` read the records.    *)
(***************************************************************************)
EXTENDS Integers, Sequences

CONSTANTS
    Blocks,             \* the size of a document, in the writes it takes
    MaxFaults           \* bound on the writes and removals that fail

ASSUME SizeAndFaults == Blocks \in Nat \ {0} /\ MaxFaults \in Nat

Names == {"run.yaml", "verdict.yaml", "report.yaml", "hashes.yaml"}

VARIABLES
    stage, step,        \* what the writer is executing, and the index of its step
    faults,             \* how many writes and removals have failed
    kept,               \* a history variable: the records whose removal has failed
    temp,               \* the temporary file of the current write
    dir,                \* the run's directory: the file each name stands for
    disk                \* the part of it that outlives a loss of power

writer == <<stage, step, faults, kept>>
files == <<temp, dir, disk>>

VARIABLES
    reader,             \* where `report` is
    began,              \* the stage of the writer when it began
    shown               \* what it has read

vars == <<writer, files, reader, began, shown>>

\* A file has so many blocks, and some of them have been synced.
Absent == [doc |-> "none", size |-> 0, synced |-> 0]
Whole(doc) == [doc |-> doc, size |-> Blocks, synced |-> Blocks]

Write(name, doc) == [op |-> "write", name |-> name, doc |-> doc]
Unlink(name) == [op |-> "unlink", name |-> name]
Verify == [op |-> "verify"]

\* _persist_failure_record, followed by write_hash_manifest
FailureSteps == <<Write("run.yaml", "failure"), Write("run.yaml", "failure with outcome"),
                  Write("hashes.yaml", "hashes")>>

\* The try clause of _accept_campaign once the evidence has been verified.
Accepting == <<Write("verdict.yaml", "accepted"), Write("report.yaml", "accepted"),
               Write("run.yaml", "accepted"), Write("run.yaml", "accepted with outcome"),
               Write("hashes.yaml", "hashes"), Verify>>

(* A mutant: the partial verdict is withdrawn when the failure has been recorded. *)
WithdrawnLast == FailureSteps \o <<Unlink("verdict.yaml"), Unlink("report.yaml")>>

\* Its except clause.
Handling == <<Unlink("verdict.yaml"), Unlink("report.yaml")>> \o FailureSteps

\* The except clause of run_campaign, which follows.
Steps == [accepting |-> Accepting, handling |-> Handling, terminal |-> FailureSteps]

Running == stage \in DOMAIN Steps
Current == Steps[stage][step]

Init ==
    /\ stage = "accepting" /\ step = 1 /\ faults = 0 /\ kept = {}
    /\ temp = Absent
    /\ dir = [n \in Names |-> CASE n = "run.yaml" -> Whole("assembling_evidence")
                                [] n = "hashes.yaml" -> Whole("hashes")
                                [] OTHER -> Absent]
    /\ disk = dir
    /\ reader = "idle" /\ began = "none" /\ shown = <<"none", "none">>

-----------------------------------------------------------------------------
(* The writer.                                                             *)

Ended == [accepting |-> "returned", handling |-> "terminal", terminal |-> "raised"]
Raised == [accepting |-> "handling", handling |-> "terminal", terminal |-> "raised"]

(* A mutant: one step too many. *)
PastLastStep == step > Len(Steps[stage])

LastStep == step = Len(Steps[stage])

Advance ==
    IF LastStep
    THEN step' = 1 /\ stage' = Ended[stage]
    ELSE step' = step + 1 /\ UNCHANGED stage

\* mkstemp
OpenTemp ==
    /\ Running /\ Current.op = "write" /\ temp = Absent
    /\ temp' = [doc |-> Current.doc, size |-> 0, synced |-> 0]
    /\ UNCHANGED <<writer, dir, disk, reader, began, shown>>

Dump ==
    /\ Running /\ temp # Absent /\ temp.size < Blocks
    /\ temp' = [temp EXCEPT !.size = @ + 1]
    /\ UNCHANGED <<writer, dir, disk, reader, began, shown>>

\* flush and fsync
Sync ==
    /\ Running /\ temp # Absent /\ temp.size = Blocks /\ temp.synced < Blocks
    /\ temp' = [temp EXCEPT !.synced = Blocks]
    /\ UNCHANGED <<writer, dir, disk, reader, began, shown>>

(* A mutant: the file is not synced. *)
Dumped(file) == file.size = Blocks

Synced(file) == file.synced = Blocks

\* os.replace
Replace ==
    /\ Running /\ temp # Absent /\ Synced(temp)
    /\ dir' = [dir EXCEPT ![Current.name] = temp]
    /\ temp' = Absent
    /\ Advance
    /\ UNCHANGED <<faults, kept, disk, reader, began, shown>>

\* The removals that have failed, with the current one.
KeptBy == IF Current.op = "unlink" THEN kept \cup {Current.name} ELSE kept

\* A write fails and takes its temporary file away; when what fails is the look at the artifact
\* after os.replace, the record is already in its place.  The check of the hashes may fail too,
\* and so may an unlink of the handler (missing_ok excuses only a missing file): the record stays,
\* and the rest of the handler is not executed.
Fail ==
    /\ Running /\ faults < MaxFaults
    /\ faults' = faults + 1 /\ kept' = KeptBy
    /\ stage' = Raised[stage] /\ step' = 1
    /\ temp' = Absent
    /\ \/ UNCHANGED dir
       \/ temp # Absent /\ Synced(temp) /\ dir' = [dir EXCEPT ![Current.name] = temp]
    /\ UNCHANGED <<disk, reader, began, shown>>

Remove ==
    /\ Running /\ Current.op = "unlink"
    /\ dir' = [dir EXCEPT ![Current.name] = Absent]
    /\ Advance
    /\ UNCHANGED <<faults, kept, temp, disk, reader, began, shown>>

VerifyHashes ==
    /\ Running /\ Current.op = "verify"
    /\ Advance
    /\ UNCHANGED <<faults, kept, files, reader, began, shown>>

\* The process is killed, or interrupted by an exception that no handler of these catches.
Kill ==
    /\ Running
    /\ stage' = "killed"
    /\ UNCHANGED <<step, faults, kept, files, reader, began, shown>>

Writer == OpenTemp \/ Dump \/ Sync \/ Replace \/ Remove \/ VerifyHashes

-----------------------------------------------------------------------------
(* The host: a change of the directory reaches the disk some time later,   *)
(* and blocks that were not synced may be lost with the power.             *)

Persist ==
    /\ \E n \in Names : disk' = [disk EXCEPT ![n] = dir[n]]
    /\ UNCHANGED <<writer, temp, dir, reader, began, shown>>

LosePower ==
    /\ \E size \in 0..Blocks :
         LET Left(file) == [file EXCEPT !.size = IF size < file.synced THEN file.synced
                                                 ELSE IF size < file.size THEN size ELSE @]
         IN  /\ dir' = [n \in Names |-> Left(disk[n])]
             /\ disk' = dir'
    /\ temp' = Absent
    /\ stage' = "lost" /\ reader' = "idle"
    /\ UNCHANGED <<step, faults, kept, began, shown>>

-----------------------------------------------------------------------------
(* `report`: run.yaml, then final/verdict.yaml, which may not be there; it *)
(* is looked at and then read.  `status` ends after the first of them.     *)

Text(n) == IF dir[n].size = Blocks \/ dir[n] = Absent THEN dir[n].doc ELSE "torn"

StartReport ==
    /\ reader \in {"idle", "done"}
    /\ reader' = "run" /\ began' = stage /\ shown' = <<"none", "none">>
    /\ UNCHANGED <<writer, files>>

ReadRun ==
    /\ reader = "run"
    /\ shown' = <<Text("run.yaml"), "none">>
    /\ reader' = "verdict"
    /\ UNCHANGED <<writer, files, began>>

LookAtVerdict ==
    /\ reader = "verdict"
    /\ reader' = IF dir["verdict.yaml"] = Absent THEN "done" ELSE "text"
    /\ UNCHANGED <<writer, files, began, shown>>

\* A verdict that has been withdrawn since the look is an error, and nothing is shown.
ReadVerdict ==
    /\ reader = "text"
    /\ \/ /\ dir["verdict.yaml"] # Absent
          /\ shown' = [shown EXCEPT ![2] = Text("verdict.yaml")]
          /\ reader' = "done"
       \/ /\ dir["verdict.yaml"] = Absent
          /\ shown' = <<"none", "none">> /\ reader' = "idle"
    /\ UNCHANGED <<writer, files, began>>

Reader == StartReport \/ ReadRun \/ LookAtVerdict \/ ReadVerdict

Next == Writer \/ Fail \/ Kill \/ Persist \/ LosePower \/ Reader

Spec == Init /\ [][Next]_vars /\ WF_vars(Writer)

-----------------------------------------------------------------------------
(* Properties.                                                             *)

Docs == {"none", "assembling_evidence", "accepted", "accepted with outcome",
         "failure", "failure with outcome", "hashes"}

\* Every variable has its type (runstore.py:51-69, orchestrator.py:1639-1668).
RecordsTypeOK ==
    /\ stage \in DOMAIN Steps \cup {"returned", "raised", "killed", "lost"}
    /\ Running => step \in 1..Len(Steps[stage])
    /\ faults \in 0..MaxFaults /\ kept \subseteq Names
    /\ \A file \in {temp} \cup {dir[n] : n \in Names} \cup {disk[n] : n \in Names} :
         file.doc \in Docs /\ file.synced \in 0..Blocks /\ file.size \in file.synced..Blocks
    /\ reader \in {"idle", "run", "verdict", "text", "done"}

\* Whenever the process is killed, a write fails or the power goes, a record that is there is whole,
\* so nobody who reads one ever sees a part of a document (runstore.py:58-69).
RecordsAreWhole ==
    /\ \A n \in Names : dir[n] = Absent \/ dir[n].size = Blocks
    /\ "torn" \notin {shown[1], shown[2]}

\* A report that begins when the campaign has ended shows the verdict of an accepted one.  It shows
\* a verdict of one that raised only if its removal failed, after a failed write of the acceptance,
\* and then it shows the failure too, unless a third call failed (orchestrator.py:1659-1668).
VerdictShownIsFinal ==
    reader = "done" /\ began \in {"returned", "raised"} =>
        /\ began = "returned" => shown[2] = "accepted"
        /\ began = "raised" /\ shown[2] = "accepted" =>
              "verdict.yaml" \in kept /\ (faults = 2 => shown[1] = "failure with outcome")

\* SPECIFICATION.md:575: "an interrupted run can never be interpreted as accepted".  Whoever asks
\* for the status or the report of a run that was killed is not told that it was accepted
\* (orchestrator.py:1651-1657).
InterruptedIsNotAccepted ==
    reader = "done" /\ began = "killed" =>
        shown[1] \notin {"accepted", "accepted with outcome"}
=============================================================================

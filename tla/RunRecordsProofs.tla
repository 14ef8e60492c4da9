-------------------------- MODULE RunRecordsProofs --------------------------
(***************************************************************************)
(* Proofs, for documents of any size and any number of failed writes and   *)
(* removals, that the records of a run are whole and that a report shows a *)
(* verdict of a failed campaign only if its removal failed.                *)
(***************************************************************************)
EXTENDS RunRecords, SequenceTheorems, TLAPS

File == [doc : Docs, size : 0..Blocks, synced : 0..Blocks]
WholeFiles == {file \in File : file.size = Blocks /\ file.synced = Blocks}
Ends == {"returned", "raised", "killed", "lost"}

(***************************************************************************)
(* The parts of the inductive invariant.                                   *)
(***************************************************************************)
FilesAreWhole ==
    /\ temp \in File /\ temp.synced <= temp.size
    /\ dir \in [Names -> WholeFiles \cup {Absent}]
    /\ disk \in [Names -> WholeFiles \cup {Absent}]

WriterTypes ==
    /\ stage \in DOMAIN Steps \cup Ends /\ step \in Nat
    /\ Running => step \in 1..Len(Steps[stage])
    /\ Running /\ temp # Absent => Current.op = "write" /\ temp.doc = Current.doc
    /\ faults \in 0..MaxFaults /\ kept \subseteq Names

\* The verdict is there while it is to be believed or is about to be taken back.
Verdict ==
    /\ (stage = "accepting" /\ step # 1) \/ stage = "returned" =>
          dir["verdict.yaml"] \in WholeFiles /\ dir["verdict.yaml"].doc = "accepted"
    /\ stage = "handling" /\ step # 1 => dir["verdict.yaml"] = Absent
    /\ stage \in {"terminal", "raised"} /\ "verdict.yaml" \notin kept =>
          dir["verdict.yaml"] = Absent

\* A verdict whose removal has failed was preceded by another failure, and the terminal handler
\* records that the campaign failed, or fails too.
FailureBesideVerdict == faults = 2 => dir["run.yaml"].doc = "failure with outcome"

Kept ==
    /\ stage \in {"accepting", "handling"} => kept = {}
    /\ stage = "handling" => faults >= 1
    /\ stage \in {"terminal", "raised"} /\ "verdict.yaml" \in kept => faults >= 2
    /\ stage = "terminal" /\ step > 2 => dir["run.yaml"].doc = "failure with outcome"
    /\ stage = "raised" /\ "verdict.yaml" \in kept => FailureBesideVerdict

ReaderTypes ==
    /\ reader \in {"idle", "run", "verdict", "text", "done"}
    /\ shown \in (Docs \X Docs)
    /\ began \in {"returned", "raised"} /\ reader # "idle" => stage = began
    /\ reader \in {"run", "verdict", "text"} => shown[2] = "none"
    /\ reader = "text" /\ began = "raised" => "verdict.yaml" \in kept
    /\ reader \in {"verdict", "text", "done"} /\ began = "raised" /\ "verdict.yaml" \in kept
          /\ faults = 2 => shown[1] = "failure with outcome"
    /\ reader = "done" /\ began = "returned" => shown[2] = "accepted"
    /\ reader = "done" /\ began = "raised" /\ shown[2] = "accepted" => "verdict.yaml" \in kept

IInv == FilesAreWhole /\ WriterTypes /\ Verdict /\ Kept /\ ReaderTypes

-----------------------------------------------------------------------------
(* The steps                                                               *)

LEMMA StepsAre ==
  /\ DOMAIN Steps = {"accepting", "handling", "terminal"}
  /\ Steps["accepting"] = Accepting /\ Steps["handling"] = Handling
  /\ Steps["terminal"] = FailureSteps
BY DEF Steps

LEMMA NamesAndDocs ==
  /\ "run.yaml" \in Names /\ "verdict.yaml" \in Names /\ "report.yaml" \in Names
  /\ "hashes.yaml" \in Names
  /\ "accepted" \in Docs /\ "accepted with outcome" \in Docs /\ "failure" \in Docs
  /\ "failure with outcome" \in Docs /\ "hashes" \in Docs /\ "none" \in Docs
BY DEF Names, Docs

LEMMA AcceptingSteps ==
  /\ Len(Accepting) = 6
  /\ Accepting[1].op = "write" /\ Accepting[1].name = "verdict.yaml" /\ Accepting[1].doc = "accepted"
  /\ Accepting[2].op = "write" /\ Accepting[2].name = "report.yaml" /\ Accepting[2].doc = "accepted"
  /\ Accepting[3].op = "write" /\ Accepting[3].name = "run.yaml" /\ Accepting[3].doc = "accepted"
  /\ Accepting[4].op = "write" /\ Accepting[4].name = "run.yaml" 
     /\ Accepting[4].doc = "accepted with outcome"
  /\ Accepting[5].op = "write" /\ Accepting[5].name = "hashes.yaml" /\ Accepting[5].doc = "hashes"
  /\ Accepting[6].op = "verify"
BY DEF Accepting, Write, Verify

LEMMA FailureStepsAre ==
  /\ Len(FailureSteps) = 3
  /\ FailureSteps[1].op = "write" /\ FailureSteps[1].name = "run.yaml" /\ FailureSteps[1].doc = "failure"
  /\ FailureSteps[2].op = "write" /\ FailureSteps[2].name = "run.yaml" 
     /\ FailureSteps[2].doc = "failure with outcome"
  /\ FailureSteps[3].op = "write" /\ FailureSteps[3].name = "hashes.yaml" /\ FailureSteps[3].doc = "hashes"
BY DEF FailureSteps, Write

LEMMA HandlingSteps ==
  /\ Len(Handling) = 5
  /\ Handling[1].op = "unlink" /\ Handling[1].name = "verdict.yaml"
  /\ Handling[2].op = "unlink" /\ Handling[2].name = "report.yaml"
  /\ Handling[3].op = "write" /\ Handling[3].name = "run.yaml" /\ Handling[3].doc = "failure"
  /\ Handling[4].op = "write" /\ Handling[4].name = "run.yaml" 
     /\ Handling[4].doc = "failure with outcome"
  /\ Handling[5].op = "write" /\ Handling[5].name = "hashes.yaml" /\ Handling[5].doc = "hashes"
<1>1. Handling = <<Unlink("verdict.yaml"), Unlink("report.yaml"),
                   Write("run.yaml", "failure"), Write("run.yaml", "failure with outcome"),
                   Write("hashes.yaml", "hashes")>>
  <2>1. Handling = <<Unlink("verdict.yaml"), Unlink("report.yaml")>> \o
                   <<Write("run.yaml", "failure"), Write("run.yaml", "failure with outcome"),
                     Write("hashes.yaml", "hashes")>>
    BY DEF Handling, FailureSteps
  <2>2. ASSUME NEW a, NEW b, NEW c, NEW d, NEW e
        PROVE  <<a, b>> \o <<c, d, e>> = <<a, b, c, d, e>>
    <3>1. DEFINE W == {a, b, c, d, e}
                 s == <<a, b>>
                 t == <<c, d, e>>
    <3>2. /\ s \in Seq(W) /\ t \in Seq(W)
          /\ Len(s) = 2 /\ Len(t) = 3
          /\ s[1] = a /\ s[2] = b /\ t[1] = c /\ t[2] = d /\ t[3] = e
      OBVIOUS
    <3>3. HIDE DEF W, s, t
    <3>4. /\ s \o t \in Seq(W) /\ Len(s \o t) = Len(s) + Len(t)
          /\ \A k \in 1 .. Len(s) + Len(t) :
                (s \o t)[k] = IF k <= Len(s) THEN s[k] ELSE t[k - Len(s)]
      BY <3>2, ConcatProperties
    <3>5. Len(s) + Len(t) = 5 /\ 3 - Len(s) = 1 /\ 4 - Len(s) = 2 /\ 5 - Len(s) = 3
      BY <3>2
    <3>6. /\ s \o t \in Seq(W) /\ Len(s \o t) = 5
          /\ (s \o t)[1] = a /\ (s \o t)[2] = b
          /\ (s \o t)[3] = c /\ (s \o t)[4] = d /\ (s \o t)[5] = e
      BY <3>2, <3>4, <3>5
    <3>7. DEFINE u == s \o t
                 v == <<a, b, c, d, e>>
    <3>8. /\ u \in Seq(W) /\ v \in Seq(W)
          /\ Len(u) = 5 /\ Len(v) = 5
          /\ \A k \in 1..5 : u[k] = v[k]
      BY <3>6 DEF W
    <3>9. HIDE DEF u, v
    <3>10. u = v
      BY <3>8, SeqEqual
    <3>11. QED
      BY <3>10 DEF s, t, u, v
  <2>3. QED
    BY <2>1, <2>2
<1>2. QED
  BY <1>1 DEF Write, Unlink

(* What the step that is executed is.                                      *)
LEMMA CurrentSteps ==
  ASSUME Running, WriterTypes
  PROVE  /\ Current.op \in {"write", "unlink", "verify"}
         /\ Current.op = "write" => Current.doc \in Docs /\ Current.name \in Names
         /\ Current.op = "unlink" => Current.name \in Names /\ stage = "handling"
         /\ Current.op = "verify" => stage = "accepting" /\ step # 1
         /\ stage = "accepting" /\ step = 1 =>
               Current.op = "write" /\ Current.name = "verdict.yaml" /\ Current.doc = "accepted"
         /\ stage = "handling" /\ step = 1 =>
               Current.op = "unlink" /\ Current.name = "verdict.yaml"
         /\ Current.op # "verify" /\ ~(stage \in {"accepting", "handling"} /\ step = 1) =>
               Current.name # "verdict.yaml"
<1>1. CASE stage = "accepting"
  <2>1. Current = Accepting[step] /\ step \in 1..6
    BY <1>1, StepsAre, AcceptingSteps DEF WriterTypes, Current
  <2>2. CASE step = 1
    BY <1>1, <2>1, <2>2, AcceptingSteps, NamesAndDocs
  <2>3. CASE step = 2
    BY <1>1, <2>1, <2>3, AcceptingSteps, NamesAndDocs
  <2>4. CASE step = 3
    BY <1>1, <2>1, <2>4, AcceptingSteps, NamesAndDocs
  <2>5. CASE step = 4
    BY <1>1, <2>1, <2>5, AcceptingSteps, NamesAndDocs
  <2>6. CASE step = 5
    BY <1>1, <2>1, <2>6, AcceptingSteps, NamesAndDocs
  <2>7. CASE step = 6
    <3>1. Current.op = "verify"
      BY <2>1, <2>7, AcceptingSteps
    <3>2. QED
      BY <1>1, <2>7, <3>1
  <2>8. QED
    BY <2>1, <2>2, <2>3, <2>4, <2>5, <2>6, <2>7
<1>2. CASE stage = "handling"
  <2>1. Current = Handling[step] /\ step \in 1..5
    BY <1>2, StepsAre, HandlingSteps DEF WriterTypes, Current
  <2>2. step = 1 => Current.op = "unlink" /\ Current.name = "verdict.yaml"
    BY <2>1, HandlingSteps
  <2>3. step = 2 => Current.op = "unlink" /\ Current.name = "report.yaml"
    BY <2>1, HandlingSteps
  <2>4. ASSUME step \notin {1, 2}
        PROVE  Current.op = "write" /\ Current.doc \in Docs
               /\ Current.name \in {"run.yaml", "hashes.yaml"}
    <3>1. CASE step = 3
      BY <2>1, <3>1, HandlingSteps, NamesAndDocs
    <3>2. CASE step = 4
      BY <2>1, <3>2, HandlingSteps, NamesAndDocs
    <3>3. CASE step = 5
      BY <2>1, <3>3, HandlingSteps, NamesAndDocs
    <3>4. QED
      BY <2>1, <2>4, <3>1, <3>2, <3>3
  <2>5. Current.op \in {"write", "unlink"} /\ (Current.op = "write" => Current.doc \in Docs)
        /\ Current.name \in Names
    BY <2>2, <2>3, <2>4, NamesAndDocs
  <2>6. step # 1 => Current.name # "verdict.yaml"
    BY <2>3, <2>4
  <2>7. QED
    BY <1>2, <2>2, <2>5, <2>6
<1>3. CASE stage = "terminal"
  <2>1. Current = FailureSteps[step] /\ step \in 1..3
    BY <1>3, StepsAre, FailureStepsAre DEF WriterTypes, Current
  <2>2. CASE step = 1
    BY <1>3, <2>1, <2>2, FailureStepsAre, NamesAndDocs
  <2>3. CASE step = 2
    BY <1>3, <2>1, <2>3, FailureStepsAre, NamesAndDocs
  <2>4. CASE step = 3
    BY <1>3, <2>1, <2>4, FailureStepsAre, NamesAndDocs
  <2>5. QED
    BY <2>1, <2>2, <2>3, <2>4
<1>4. QED
  BY <1>1, <1>2, <1>3, StepsAre DEF Running


LEMMA Advances ==
  ASSUME Running, WriterTypes, Advance
  PROVE  \/ stage' = stage /\ step' = step + 1 /\ step + 1 \in 1..Len(Steps[stage])
         \/ step' = 1 /\ step # 1 /\ stage = "accepting" /\ stage' = "returned"
         \/ step' = 1 /\ step # 1 /\ stage = "handling" /\ stage' = "terminal"
         \/ step' = 1 /\ stage = "terminal" /\ stage' = "raised"
<1>1. stage \in {"accepting", "handling", "terminal"}
  BY StepsAre DEF Running
<1>2. Len(Steps["accepting"]) = 6 /\ Len(Steps["handling"]) = 5 /\ Len(Steps["terminal"]) = 3
  BY StepsAre, AcceptingSteps, HandlingSteps, FailureStepsAre, ZenonT(60)
<1>3. step \in 1..Len(Steps[stage]) /\ Len(Steps[stage]) \in Nat
  BY <1>1, <1>2 DEF WriterTypes
<1>4. CASE step = Len(Steps[stage])
  <2>1. step' = 1 /\ stage' = Ended[stage]
    BY <1>4 DEF Advance, LastStep
  <2>2. step # 1
    <3>1. Len(Steps[stage]) # 1
      BY <1>1, <1>2
    <3>2. QED
      BY <1>4, <3>1
  <2>3. QED
    BY <1>1, <2>1, <2>2 DEF Ended
<1>5. CASE step # Len(Steps[stage])
  BY <1>3, <1>5 DEF Advance, LastStep
<1>6. QED
  BY <1>4, <1>5

(* The steps of the terminal handler, which records the failure in run.yaml. *)
LEMMA TerminalSteps ==
  ASSUME Running, WriterTypes, stage = "terminal"
  PROVE  /\ step \in 1..3 /\ Current.op = "write"
         /\ step = 2 => Current.name = "run.yaml" /\ Current.doc = "failure with outcome"
         /\ step = 3 => Current.name = "hashes.yaml"
         /\ Advance /\ step # 3 => stage' = "terminal" /\ step' = step + 1
         /\ Advance /\ step = 3 => stage' = "raised"
<1>1. Current = FailureSteps[step] /\ step \in 1..3 /\ Len(Steps[stage]) = 3
  BY StepsAre, FailureStepsAre DEF WriterTypes, Current
<1>2. Advance /\ step # 3 => stage' = "terminal" /\ step' = step + 1
  BY <1>1 DEF Advance, LastStep
<1>3. Advance /\ step = 3 => stage' = "raised"
  BY <1>1 DEF Advance, LastStep, Ended
<1>4. step = 2 => Current.name = "run.yaml" /\ Current.doc = "failure with outcome"
  BY <1>1, FailureStepsAre
<1>5. step = 3 => Current.name = "hashes.yaml"
  BY <1>1, FailureStepsAre
<1>6. Current.op = "write"
  <2>1. CASE step = 1
    BY <1>1, <2>1, FailureStepsAre
  <2>2. CASE step = 2
    BY <1>1, <2>2, FailureStepsAre
  <2>3. CASE step = 3
    BY <1>1, <2>3, FailureStepsAre
  <2>4. QED
    BY <1>1, <2>1, <2>2, <2>3
<1>7. QED
  BY <1>1, <1>2, <1>3, <1>4, <1>5, <1>6

LEMMA Raises ==
  ASSUME Running, stage' = Raised[stage]
  PROVE  \/ stage = "accepting" /\ stage' = "handling"
         \/ stage = "handling" /\ stage' = "terminal"
         \/ stage = "terminal" /\ stage' = "raised"
<1>1. stage \in {"accepting", "handling", "terminal"}
  BY StepsAre DEF Running
<1>2. QED
  BY <1>1 DEF Raised

(* The types of the writer, after a step of a stage has been done.          *)
LEMMA WriterGoesOn ==
  ASSUME Running, WriterTypes, temp' = Absent, faults' \in 0..MaxFaults, kept' \subseteq Names,
         \/ Advance
         \/ step' = 1 /\ stage' = Raised[stage]
  PROVE  WriterTypes'
<1>1. Len(Steps["handling"]) = 5 /\ Len(Steps["terminal"]) = 3
  BY StepsAre, HandlingSteps, FailureStepsAre
<1>2. stage \in DOMAIN Steps /\ step \in Nat
  BY DEF Running, WriterTypes
<1>3. step' \in Nat
  BY <1>2, Advances
<1>4. \/ stage' = stage /\ step' \in 1..Len(Steps[stage])
      \/ stage' \in {"returned", "raised"}
      \/ stage' \in {"handling", "terminal"} /\ step' = 1
  BY Advances, Raises
<1>5. stage' \in DOMAIN Steps \cup Ends
  BY <1>2, <1>4, StepsAre DEF Ends
<1>6. stage' \in DOMAIN Steps => step' \in 1..Len(Steps[stage'])
  <2>1. CASE stage' = stage /\ step' \in 1..Len(Steps[stage])
    BY <2>1
  <2>2. CASE stage' \in {"returned", "raised"}
    BY <2>2, StepsAre
  <2>3. CASE stage' = "handling" /\ step' = 1
    <3>1. Len(Steps[stage']) = 5
      BY <1>1, <2>3
    <3>2. QED
      BY <2>3, <3>1
  <2>4. CASE stage' = "terminal" /\ step' = 1
    <3>1. Len(Steps[stage']) = 3
      BY <1>1, <2>4
    <3>2. QED
      BY <2>4, <3>1
  <2>5. QED
    BY <1>4, <2>1, <2>2, <2>3, <2>4
<1>7. QED
  BY <1>3, <1>5, <1>6 DEF WriterTypes, Running

-----------------------------------------------------------------------------
(* What a step does to the files                                           *)

LEMMA AbsentIsAFile == Absent \in File /\ "verdict.yaml" \in Names
BY SizeAndFaults DEF Absent, File, Docs, Names

(* Nothing happens to the verdict or to what is known of it.               *)
LEMMA KeptIsQuiet ==
  ASSUME IInv, UNCHANGED <<stage, step, faults, kept, dir>>
  PROVE  Verdict' /\ Kept'
<1>1. Verdict'
  BY DEF IInv, Verdict
<1>2. FailureBesideVerdict' = FailureBesideVerdict
  BY DEF FailureBesideVerdict
<1>3. Kept'
  BY <1>2 DEF IInv, Kept
<1>4. QED
  BY <1>1, <1>3

LEMMA TempSteps ==
  ASSUME IInv, OpenTemp \/ Dump \/ Sync
  PROVE  IInv'
<1>1. UNCHANGED <<writer, dir, disk, reader, began, shown>> /\ Running
  BY DEF OpenTemp, Dump, Sync
<1>2. temp' \in File /\ temp'.synced <= temp'.size /\ temp'.doc = Current.doc
      /\ Current.op = "write"
  <2>1. CASE OpenTemp
    <3>1. Current.doc \in Docs /\ Current.op = "write"
      BY <1>1, <2>1, CurrentSteps DEF IInv, OpenTemp
    <3>2. QED
      BY <2>1, <3>1, SizeAndFaults DEF OpenTemp, File
  <2>2. CASE Dump
    BY <1>1, <2>2, SizeAndFaults DEF IInv, FilesAreWhole, WriterTypes, Dump, File
  <2>3. CASE Sync
    BY <1>1, <2>3, SizeAndFaults DEF IInv, FilesAreWhole, WriterTypes, Sync, File
  <2>4. QED
    BY <2>1, <2>2, <2>3
<1>3. FilesAreWhole'
  BY <1>1, <1>2 DEF IInv, FilesAreWhole
<1>4. WriterTypes'
  BY <1>1, <1>2 DEF IInv, WriterTypes, Running, Current, writer
<1>5. Verdict' /\ Kept' /\ ReaderTypes'
  <2>1. UNCHANGED <<stage, step, faults, kept, dir, reader, began, shown>>
    BY <1>1 DEF writer
  <2>2. ReaderTypes'
    BY <2>1 DEF IInv, ReaderTypes
  <2>3. QED
    BY <2>1, <2>2, KeptIsQuiet
<1>6. QED
  BY <1>3, <1>4, <1>5 DEF IInv


(* A step that does what it should records the failure in the terminal     *)
(* handler, and adds nothing to kept.                                      *)
LEMMA KeptGoesOn ==
  ASSUME IInv, Running, Advance, UNCHANGED <<faults, kept>>,
         stage = "terminal" =>
            temp.doc = Current.doc /\ dir' = [dir EXCEPT ![Current.name] = temp]
  PROVE  Kept'
<1>1. dir \in [Names -> WholeFiles \cup {Absent}]
  BY DEF IInv, FilesAreWhole
<1>2. CASE stage = "terminal"
  <2>1. step \in 1..3 /\ (step # 3 => stage' = "terminal" /\ step' = step + 1)
        /\ (step = 3 => stage' = "raised")
    BY <1>2, TerminalSteps DEF IInv
  <2>2. step = 2 => dir'["run.yaml"].doc = "failure with outcome"
    <3>1. step = 2 => Current.name = "run.yaml" /\ temp.doc = "failure with outcome"
      BY <1>2, TerminalSteps DEF IInv
    <3>2. QED
      BY <1>1, <1>2, <3>1, NamesAndDocs
  <2>3. step = 3 => dir'["run.yaml"] = dir["run.yaml"]
    <3>1. step = 3 => Current.name = "hashes.yaml"
      BY <1>2, TerminalSteps DEF IInv
    <3>2. QED
      BY <1>1, <1>2, <3>1, NamesAndDocs
  <2>4. CASE step = 3
    <3>1. stage' = "raised" /\ dir'["run.yaml"].doc = "failure with outcome"
      <4>1. stage' = "raised" /\ dir'["run.yaml"] = dir["run.yaml"]
        BY <2>1, <2>3, <2>4
      <4>2. step > 2
        BY <2>4
      <4>3. dir["run.yaml"].doc = "failure with outcome"
        BY <1>2, <4>2 DEF IInv, Kept
      <4>4. QED
        BY <4>1, <4>3
    <3>2. "verdict.yaml" \in kept' => faults' >= 2
      BY <1>2 DEF IInv, Kept
    <3>3. QED
      BY <3>1, <3>2 DEF Kept, FailureBesideVerdict
  <2>5. CASE step # 3
    <3>1. stage' = "terminal" /\ (step' > 2 => dir'["run.yaml"].doc = "failure with outcome")
      <4>1. stage' = "terminal" /\ step' = step + 1 /\ step \in 1..3
        BY <2>1, <2>5
      <4>2. step' > 2 => step = 2
        BY <2>5, <4>1
      <4>3. QED
        BY <2>2, <4>1, <4>2
    <3>2. "verdict.yaml" \in kept' => faults' >= 2
      BY <1>2 DEF IInv, Kept
    <3>3. QED
      BY <3>1, <3>2 DEF Kept
  <2>6. QED
    BY <2>4, <2>5
<1>3. CASE stage # "terminal"
  <2>1. \/ stage' = stage /\ stage' \in {"accepting", "handling"}
        \/ stage' = "returned"
        \/ stage = "handling" /\ stage' = "terminal" /\ step' = 1
    BY <1>3, Advances, StepsAre DEF IInv, Running
  <2>2. CASE stage' = stage /\ stage' \in {"accepting", "handling"}
    BY <2>2 DEF IInv, Kept
  <2>3. CASE stage' = "returned"
    BY <2>3 DEF Kept
  <2>4. CASE stage = "handling" /\ stage' = "terminal" /\ step' = 1
    BY <2>4 DEF IInv, Kept
  <2>5. QED
    BY <2>1, <2>2, <2>3, <2>4
<1>4. QED
  BY <1>2, <1>3

LEMMA ReplaceKeepsIInv ==
  ASSUME IInv, Replace
  PROVE  IInv'
<1>1. /\ Running /\ temp # Absent /\ temp \in WholeFiles /\ Advance
      /\ UNCHANGED <<faults, kept, disk, reader, began, shown>> /\ temp' = Absent
  BY SizeAndFaults DEF IInv, FilesAreWhole, Replace, Synced, WholeFiles, File
<1>2. Current.op = "write" /\ temp.doc = Current.doc /\ Current.name \in Names
  BY <1>1, CurrentSteps DEF IInv, WriterTypes
<1>3. dir' = [dir EXCEPT ![Current.name] = temp]
  BY DEF Replace
<1>4. FilesAreWhole'
  BY <1>1, <1>2, <1>3, AbsentIsAFile DEF IInv, FilesAreWhole, Absent
<1>5. WriterTypes'
  BY <1>1, WriterGoesOn DEF IInv, WriterTypes
<1>6. Verdict'
  <2>1. dir \in [Names -> WholeFiles \cup {Absent}]
    BY DEF IInv, FilesAreWhole
  <2>2. CASE stage = "accepting" /\ step = 1
    <3>1. dir'["verdict.yaml"] = temp /\ temp.doc = "accepted"
      BY <1>1, <1>2, <1>3, <2>1, <2>2, CurrentSteps DEF IInv
    <3>2. stage' = "accepting"
      BY <1>1, <2>2, Advances DEF IInv
    <3>3. QED
      BY <1>1, <3>1, <3>2 DEF Verdict
  <2>3. CASE ~(stage = "accepting" /\ step = 1)
    <3>1. ~(stage = "handling" /\ step = 1)
      BY <1>1, <1>2, CurrentSteps DEF IInv
    <3>2. Current.name # "verdict.yaml"
      BY <1>1, <1>2, <2>3, <3>1, CurrentSteps DEF IInv
    <3>3. dir'["verdict.yaml"] = dir["verdict.yaml"]
      BY <1>2, <1>3, <2>1, <3>2, AbsentIsAFile
    <3>4. QED
      BY <1>1, <2>3, <3>1, <3>3, Advances DEF IInv, Verdict
  <2>4. QED
    BY <2>2, <2>3
<1>7. ReaderTypes'
  BY <1>1, StepsAre DEF IInv, ReaderTypes, Running
<1>8. Kept'
  BY <1>1, <1>2, <1>3, KeptGoesOn
<1>9. QED
  BY <1>4, <1>5, <1>6, <1>7, <1>8 DEF IInv

LEMMA RemoveKeepsIInv ==
  ASSUME IInv, Remove
  PROVE  IInv'
<1>1. /\ Running /\ Current.op = "unlink" /\ Advance
      /\ UNCHANGED <<faults, kept, temp, disk, reader, began, shown>>
      /\ dir' = [dir EXCEPT ![Current.name] = Absent]
  BY DEF Remove
<1>2. Current.name \in Names /\ stage = "handling"
  BY <1>1, CurrentSteps DEF IInv
<1>3. temp = Absent
  BY <1>1 DEF IInv, WriterTypes
<1>4. FilesAreWhole'
  BY <1>1, <1>2 DEF IInv, FilesAreWhole
<1>5. WriterTypes'
  BY <1>1, <1>3, WriterGoesOn DEF IInv, WriterTypes
<1>6. dir'["verdict.yaml"] = Absent
  <2>1. dir \in [Names -> WholeFiles \cup {Absent}]
    BY DEF IInv, FilesAreWhole
  <2>2. step = 1 => Current.name = "verdict.yaml"
    BY <1>1, <1>2, CurrentSteps DEF IInv
  <2>3. step # 1 => dir["verdict.yaml"] = Absent
    BY <1>2 DEF IInv, Verdict
  <2>4. QED
    BY <1>1, <1>2, <2>1, <2>2, <2>3, AbsentIsAFile
<1>7. Verdict'
  BY <1>1, <1>2, <1>6, Advances DEF IInv, Verdict
<1>8. ReaderTypes'
  BY <1>1, StepsAre DEF IInv, ReaderTypes, Running
<1>9. Kept'
  BY <1>1, <1>2, KeptGoesOn
<1>10. QED
  BY <1>4, <1>5, <1>7, <1>8, <1>9 DEF IInv

LEMMA VerifyKeepsIInv ==
  ASSUME IInv, VerifyHashes
  PROVE  IInv'
<1>1. /\ Running /\ Current.op = "verify" /\ Advance
      /\ UNCHANGED <<faults, kept, temp, dir, disk, reader, began, shown>>
  BY DEF VerifyHashes, files
<1>2. stage = "accepting" /\ step # 1
  BY <1>1, CurrentSteps DEF IInv
<1>3. temp = Absent
  BY <1>1 DEF IInv, WriterTypes
<1>4. FilesAreWhole'
  BY <1>1 DEF IInv, FilesAreWhole
<1>5. WriterTypes'
  BY <1>1, <1>3, WriterGoesOn DEF IInv, WriterTypes
<1>6. Verdict'
  BY <1>1, <1>2, Advances DEF IInv, Verdict
<1>7. ReaderTypes'
  BY <1>1, StepsAre DEF IInv, ReaderTypes, Running
<1>8. Kept'
  BY <1>1, <1>2, KeptGoesOn
<1>9. QED
  BY <1>4, <1>5, <1>6, <1>7, <1>8 DEF IInv

(* A removal that fails is one of the handler, whose first step is that of *)
(* the verdict.                                                            *)
LEMMA KeptByIs ==
  ASSUME IInv, Running
  PROVE  /\ KeptBy \subseteq Names
         /\ stage # "handling" => KeptBy = kept
         /\ stage = "handling" /\ step = 1 => "verdict.yaml" \in KeptBy
<1>1. /\ Current.op = "unlink" => Current.name \in Names /\ stage = "handling"
      /\ stage = "handling" /\ step = 1 => Current.op = "unlink" /\ Current.name = "verdict.yaml"
  BY CurrentSteps DEF IInv
<1>2. kept \subseteq Names
  BY DEF IInv, WriterTypes
<1>3. QED
  BY <1>1, <1>2 DEF KeptBy

LEMMA FailKeepsTypes ==
  ASSUME IInv, Fail
  PROVE  WriterTypes' /\ ReaderTypes'
<1>1. /\ Running /\ stage' = Raised[stage] /\ step' = 1 /\ temp' = Absent
      /\ UNCHANGED <<reader, began, shown>>
  BY DEF Fail
<1>2. faults' \in 0..MaxFaults
  BY SizeAndFaults DEF IInv, WriterTypes, Fail
<1>3. WriterTypes'
  <2>1. kept' \subseteq Names
    BY <1>1, KeptByIs DEF Fail
  <2>2. QED
    BY <1>1, <1>2, <2>1, WriterGoesOn DEF IInv
<1>4. ReaderTypes'
  BY <1>1, StepsAre DEF IInv, ReaderTypes, Running
<1>5. QED
  BY <1>3, <1>4

LEMMA FailKeepsKept ==
  ASSUME IInv, Fail
  PROVE  Kept'
<1>1. /\ Running /\ faults' = faults + 1 /\ step' = 1 /\ stage' = Raised[stage]
      /\ kept' = KeptBy /\ faults \in Nat
  BY SizeAndFaults DEF IInv, WriterTypes, Fail
<1>2. stage # "handling" => kept' = kept
  BY <1>1, KeptByIs
<1>3. CASE stage = "accepting" /\ stage' = "handling"
  BY <1>1, <1>2, <1>3 DEF IInv, Kept
<1>4. CASE stage = "handling" /\ stage' = "terminal"
  BY <1>1, <1>4 DEF IInv, Kept
<1>5. CASE stage = "terminal" /\ stage' = "raised"
  <2>1. "verdict.yaml" \in kept' => faults' >= 2 /\ faults' # 2
    <3>1. "verdict.yaml" \in kept => faults >= 2
      BY <1>5 DEF IInv, Kept
    <3>2. kept' = kept
      BY <1>2, <1>5
    <3>3. QED
      BY <1>1, <3>1, <3>2
  <2>2. QED
    BY <1>5, <2>1 DEF Kept, FailureBesideVerdict
<1>6. QED
  BY <1>1, <1>3, <1>4, <1>5, Raises

LEMMA FailKeepsIInv ==
  ASSUME IInv, Fail
  PROVE  IInv'
<1>1. /\ Running /\ stage' = Raised[stage] /\ step' = 1 /\ temp' = Absent
      /\ kept' = KeptBy /\ UNCHANGED <<disk, reader, began, shown>>
  BY DEF Fail
<1>2. dir \in [Names -> WholeFiles \cup {Absent}]
  BY DEF IInv, FilesAreWhole
<1>3. CASE UNCHANGED dir
  <2>1. FilesAreWhole'
    BY <1>1, <1>3, AbsentIsAFile DEF IInv, FilesAreWhole, Absent
  <2>2. Verdict'
    <3>1. CASE stage = "accepting" /\ stage' = "handling"
      BY <1>1, <3>1 DEF Verdict
    <3>2. CASE stage = "handling" /\ stage' = "terminal"
      BY <1>1, <1>3, <3>2, KeptByIs DEF IInv, Verdict
    <3>3. CASE stage = "terminal" /\ stage' = "raised"
      BY <1>1, <1>3, <3>3, KeptByIs DEF IInv, Verdict
    <3>4. QED
      BY <1>1, <3>1, <3>2, <3>3, Raises
  <2>3. QED
    BY <2>1, <2>2, FailKeepsTypes, FailKeepsKept DEF IInv
<1>4. CASE temp # Absent /\ Synced(temp) /\ dir' = [dir EXCEPT ![Current.name] = temp]
  <2>1. temp \in WholeFiles
    BY <1>4, SizeAndFaults DEF IInv, FilesAreWhole, Synced, WholeFiles, File
  <2>2. Current.op = "write" /\ Current.name \in Names
    BY <1>1, <1>4, CurrentSteps DEF IInv, WriterTypes
  <2>3. FilesAreWhole'
    BY <1>1, <1>4, <2>1, <2>2, AbsentIsAFile DEF IInv, FilesAreWhole, Absent
  <2>4. Verdict'
    <3>1. CASE stage = "accepting"
      BY <1>1, <3>1, Raises DEF Verdict
    <3>2. CASE stage # "accepting"
      <4>1. ~(stage = "handling" /\ step = 1)
        BY <1>1, <2>2, CurrentSteps DEF IInv
      <4>2. Current.name # "verdict.yaml"
        BY <1>1, <2>2, <3>2, <4>1, CurrentSteps DEF IInv
      <4>3. dir'["verdict.yaml"] = dir["verdict.yaml"]
        BY <1>2, <1>4, <2>2, <4>2, AbsentIsAFile
      <4>4. kept' = kept
        BY <1>1, <2>2 DEF KeptBy
      <4>5. QED
        BY <1>1, <3>2, <4>1, <4>3, <4>4, Raises DEF IInv, Verdict
    <3>3. QED
      BY <3>1, <3>2
  <2>5. QED
    BY <2>3, <2>4, FailKeepsTypes, FailKeepsKept DEF IInv
<1>5. QED
  BY <1>3, <1>4 DEF Fail

-----------------------------------------------------------------------------
(* What the host and a reader do                                           *)

LEMMA HostKeepsIInv ==
  ASSUME IInv, Kill \/ Persist
  PROVE  IInv'
<1>1. CASE Kill
  <2>1. stage' = "killed" /\ UNCHANGED <<step, faults, kept, temp, dir, disk, reader, began, shown>>
        /\ Running
    BY <1>1 DEF Kill, files
  <2>2. FilesAreWhole' /\ Verdict' /\ Kept'
    BY <2>1 DEF IInv, FilesAreWhole, Verdict, Kept
  <2>3. WriterTypes'
    BY <2>1, StepsAre DEF IInv, WriterTypes, Running, Ends
  <2>4. ReaderTypes'
    BY <2>1, StepsAre DEF IInv, ReaderTypes, Running
  <2>5. QED
    BY <2>2, <2>3, <2>4 DEF IInv
<1>2. CASE Persist
  <2>1. UNCHANGED <<stage, step, faults, kept, temp, dir, reader, began, shown>>
    BY <1>2 DEF Persist, writer
  <2>2. FilesAreWhole'
    BY <1>2, <2>1 DEF IInv, FilesAreWhole, Persist
  <2>3. WriterTypes'
    BY <2>1 DEF IInv, WriterTypes, Running, Current
  <2>4. ReaderTypes'
    BY <2>1 DEF IInv, ReaderTypes
  <2>5. QED
    BY <2>1, <2>2, <2>3, <2>4, KeptIsQuiet DEF IInv
<1>3. QED
  BY <1>1, <1>2

(* A file that has been synced, or is not there, keeps what it holds.       *)
LEMMA PowerKeepsIInv ==
  ASSUME IInv, LosePower
  PROVE  IInv'
<1>1. /\ stage' = "lost" /\ reader' = "idle" /\ temp' = Absent
      /\ UNCHANGED <<step, faults, kept, began, shown>> /\ disk' = dir'
  BY DEF LosePower
<1>2. dir' = disk
  <2>1. DEFINE Left(file, size) ==
          [file EXCEPT !.size = IF size < file.synced THEN file.synced
                                ELSE IF size < file.size THEN size ELSE @]
  <2>2. PICK size \in 0..Blocks : dir' = [n \in Names |-> Left(disk[n], size)]
    BY DEF LosePower
  <2>3. ASSUME NEW n \in Names
        PROVE  Left(disk[n], size) = disk[n]
    <3>1. disk[n] \in WholeFiles \cup {Absent}
      BY DEF IInv, FilesAreWhole
    <3>2. CASE disk[n] \in WholeFiles
      BY <3>2, SizeAndFaults DEF WholeFiles, File
    <3>3. CASE disk[n] = Absent
      BY <3>3 DEF Absent
    <3>4. QED
      BY <3>1, <3>2, <3>3
  <2>4. HIDE DEF Left
  <2>5. dir' = [n \in Names |-> disk[n]]
    BY <2>2, <2>3
  <2>6. QED
    BY <2>5 DEF IInv, FilesAreWhole
<1>3. FilesAreWhole'
  BY <1>1, <1>2, AbsentIsAFile DEF IInv, FilesAreWhole, Absent
<1>4. WriterTypes'
  BY <1>1, StepsAre DEF IInv, WriterTypes, Running, Ends
<1>5. Verdict' /\ Kept' /\ ReaderTypes'
  BY <1>1, Zenon DEF IInv, Verdict, Kept, ReaderTypes
<1>6. QED
  BY <1>3, <1>4, <1>5 DEF IInv

(* What is read is a document, and never a part of one.                     *)
LEMMA TextIsADoc ==
  ASSUME IInv, NEW n \in Names
  PROVE  Text(n) \in Docs
<1>1. dir[n] \in WholeFiles \cup {Absent}
  BY DEF IInv, FilesAreWhole
<1>2. QED
  BY <1>1, AbsentIsAFile DEF Text, WholeFiles, File

LEMMA ReaderKeepsIInv ==
  ASSUME IInv, Reader
  PROVE  IInv'
<1>1. UNCHANGED <<stage, step, faults, kept, temp, dir, disk>>
  BY DEF Reader, StartReport, ReadRun, LookAtVerdict, ReadVerdict, writer, files
<1>2. FilesAreWhole' /\ WriterTypes' /\ Verdict' /\ Kept'
  <2>1. FilesAreWhole' /\ WriterTypes'
    BY <1>1 DEF IInv, FilesAreWhole, WriterTypes, Running, Current
  <2>2. QED
    BY <1>1, <2>1, KeptIsQuiet
<1>3. "none" \in Docs /\ "run.yaml" \in Names /\ "verdict.yaml" \in Names
  BY NamesAndDocs
<1>4. ReaderTypes'
  <2>1. CASE StartReport
    BY <1>1, <1>3, <2>1 DEF StartReport, ReaderTypes
  <2>2. CASE ReadRun
    <3>1. Text("run.yaml") \in Docs
      BY <1>3, TextIsADoc
    <3>2. stage = "raised" /\ "verdict.yaml" \in kept /\ faults = 2 =>
             Text("run.yaml") = "failure with outcome"
      <4>1. dir["run.yaml"] \in WholeFiles \cup {Absent}
        BY <1>3 DEF IInv, FilesAreWhole
      <4>2. QED
        BY <4>1 DEF IInv, Kept, FailureBesideVerdict, Text, WholeFiles
    <3>3. QED
      BY <1>1, <1>3, <2>2, <3>1, <3>2 DEF IInv, ReadRun, ReaderTypes
  <2>3. CASE LookAtVerdict
    <3>1. stage = "returned" => dir["verdict.yaml"] # Absent
      BY SizeAndFaults DEF IInv, Verdict, WholeFiles, Absent
    <3>2. stage = "raised" /\ "verdict.yaml" \notin kept => dir["verdict.yaml"] = Absent
      BY DEF IInv, Verdict
    <3>3. QED
      BY <1>1, <2>3, <3>1, <3>2 DEF IInv, LookAtVerdict, ReaderTypes
  <2>4. CASE ReadVerdict
    <3>1. stage = "returned" => Text("verdict.yaml") = "accepted"
      BY DEF IInv, Verdict, Text, WholeFiles
    <3>2. Text("verdict.yaml") \in Docs
      BY <1>3, TextIsADoc
    <3>3. shown \in Docs \X Docs
      BY DEF IInv, ReaderTypes
    <3>4. CASE shown' = [shown EXCEPT ![2] = Text("verdict.yaml")] /\ reader' = "done"
      <4>1. shown' \in Docs \X Docs /\ shown'[2] = Text("verdict.yaml") /\ shown'[1] = shown[1]
        BY <3>2, <3>3, <3>4
      <4>2. QED
        BY <1>1, <2>4, <3>1, <3>4, <4>1 DEF IInv, ReadVerdict, ReaderTypes
    <3>5. CASE shown' = <<"none", "none">> /\ reader' = "idle"
      BY <1>1, <1>3, <2>4, <3>5 DEF IInv, ReadVerdict, ReaderTypes
    <3>6. QED
      BY <2>4, <3>4, <3>5 DEF ReadVerdict
  <2>5. QED
    BY <2>1, <2>2, <2>3, <2>4 DEF Reader
<1>5. QED
  BY <1>2, <1>4 DEF IInv


-----------------------------------------------------------------------------
(* The invariant                                                           *)

LEMMA InitHasIInv ==
  ASSUME Init
  PROVE  IInv
<1>1. Whole("assembling_evidence") \in WholeFiles /\ Whole("hashes") \in WholeFiles
  BY SizeAndFaults DEF Whole, WholeFiles, File, Docs
<1>2. FilesAreWhole
  <2>1. dir \in [Names -> WholeFiles \cup {Absent}]
    BY <1>1 DEF Init
  <2>2. QED
    BY <2>1, AbsentIsAFile DEF Init, FilesAreWhole, Absent
<1>3. WriterTypes
  <2>1. stage \in DOMAIN Steps /\ Len(Steps[stage]) = 6
    BY StepsAre, AcceptingSteps DEF Init
  <2>2. step \in 1..Len(Steps[stage])
    BY <2>1 DEF Init
  <2>3. QED
    BY <2>1, <2>2, SizeAndFaults DEF Init, WriterTypes
<1>4. Verdict /\ Kept
  BY DEF Init, Verdict, Kept
<1>5. ReaderTypes
  BY NamesAndDocs DEF Init, ReaderTypes
<1>6. QED
  BY <1>2, <1>3, <1>4, <1>5 DEF IInv

LEMMA StepsKeepIInv ==
  ASSUME IInv, [Next]_vars
  PROVE  IInv'
<1>1. CASE Writer
  BY <1>1, TempSteps, ReplaceKeepsIInv, RemoveKeepsIInv, VerifyKeepsIInv DEF Writer
<1>2. CASE Fail
  BY <1>2, FailKeepsIInv
<1>3. CASE Kill \/ Persist
  BY <1>3, HostKeepsIInv
<1>4. CASE LosePower
  BY <1>4, PowerKeepsIInv
<1>5. CASE Reader
  BY <1>5, ReaderKeepsIInv
<1>6. CASE UNCHANGED vars
  <2>1. UNCHANGED <<stage, step, faults, kept, temp, dir, disk, reader, began, shown>>
    BY <1>6 DEF vars, writer, files
  <2>2. FilesAreWhole' /\ WriterTypes'
    BY <2>1 DEF IInv, FilesAreWhole, WriterTypes, Running, Current
  <2>3. ReaderTypes'
    BY <2>1 DEF IInv, ReaderTypes
  <2>4. QED
    BY <2>1, <2>2, <2>3, KeptIsQuiet DEF IInv
<1>7. QED
  BY <1>1, <1>2, <1>3, <1>4, <1>5, <1>6 DEF Next

LEMMA IInvHolds == Spec => []IInv
<1>1. Init => IInv
  BY InitHasIInv
<1>2. IInv /\ [Next]_vars => IInv'
  BY StepsKeepIInv
<1>3. QED
  BY <1>1, <1>2, PTL DEF Spec

(***************************************************************************)
(* Every variable has its type (runstore.py:51-69,                         *)
(* orchestrator.py:1639-1668).                                             *)
(***************************************************************************)
THEOREM RecordsTypeCorrect == Spec => []RecordsTypeOK
<1>1. IInv => RecordsTypeOK
  <2>1. SUFFICES ASSUME IInv
                 PROVE  RecordsTypeOK
    OBVIOUS
  <2>2. ASSUME NEW file \in {temp} \cup {dir[n] : n \in Names} \cup {disk[n] : n \in Names}
        PROVE  file.doc \in Docs /\ file.synced \in 0..Blocks /\ file.size \in file.synced..Blocks
    <3>1. file \in WholeFiles \cup {Absent} \cup {temp}
      BY <2>1 DEF IInv, FilesAreWhole
    <3>2. file \in File /\ file.synced <= file.size
      BY <2>1, <3>1, AbsentIsAFile, SizeAndFaults
         DEF IInv, FilesAreWhole, WholeFiles, File, Absent
    <3>3. QED
      BY <3>2, SizeAndFaults DEF File
  <2>3. QED
    BY <2>1, <2>2 DEF IInv, WriterTypes, ReaderTypes, Ends, RecordsTypeOK
<1>2. QED
  BY <1>1, IInvHolds, PTL

(***************************************************************************)
(* A record that is there is whole, and nobody reads a part of one,        *)
(* whatever its size and wherever writes fail, the process is killed or    *)
(* the power goes (runstore.py:58-69).                                     *)
(***************************************************************************)
THEOREM RecordsStayWhole == Spec => []RecordsAreWhole
<1>1. IInv => RecordsAreWhole
  <2>1. SUFFICES ASSUME IInv
                 PROVE  RecordsAreWhole
    OBVIOUS
  <2>2. \A n \in Names : dir[n] = Absent \/ dir[n].size = Blocks
    BY <2>1 DEF IInv, FilesAreWhole, WholeFiles
  <2>3. shown[1] \in Docs /\ shown[2] \in Docs
    BY <2>1 DEF IInv, ReaderTypes
  <2>4. "torn" \notin Docs
    BY DEF Docs
  <2>5. QED
    BY <2>2, <2>3, <2>4 DEF RecordsAreWhole
<1>2. QED
  BY <1>1, IInvHolds, PTL

(***************************************************************************)
(* A report that begins when the campaign has ended shows the verdict of   *)
(* an accepted one, and shows a verdict of one that raised only if an      *)
(* unlink of the handler failed, after the acceptance had; it then shows   *)
(* the failure beside it, unless a third call failed                       *)
(* (orchestrator.py:1659-1668).                                            *)
(***************************************************************************)
THEOREM VerdictsShownAreFinal == Spec => []VerdictShownIsFinal
<1>1. IInv => VerdictShownIsFinal
  BY DEF IInv, ReaderTypes, VerdictShownIsFinal
<1>2. QED
  BY <1>1, IInvHolds, PTL
=============================================================================

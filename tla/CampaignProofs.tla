--------------------------- MODULE CampaignProofs ---------------------------
(***************************************************************************)
(* Proofs, for every campaign and every bound, of the type invariant of    *)
(* Campaign and of the safety of its acceptance.                           *)
(***************************************************************************)
EXTENDS CampaignProperties, TLAPS

-----------------------------------------------------------------------------
(* What a write does to the run store. *)

(* Files that neither record a command or a patch nor are the verdict or   *)
(* the report.                                                             *)
Plain(fs) ==
    \A f \in fs : /\ f.root \in Roots \cup {PhaseC, Inputs} /\ f.status \in Statuses
                  /\ f.holds \in FilesHold \ {"check", "patch", "verdict", "report"}

(* From s to t no command, no patch and no acceptance was recorded, and    *)
(* neither verdict nor report was written.                                 *)
Quiet(s, t) ==
    /\ StoreOK(t)
    /\ \A f \in t.files : f.holds \in {"check", "patch", "verdict", "report"} => f \in s.files
    /\ SaysAccepted(t) => SaysAccepted(s)

(* A list of writes leaves the store as it was or as one of them left it,  *)
(* and counts at most one fault: whatever write of the list failed.        *)
LEMMA StoreAfterWrites ==
    ASSUME NEW stores, Len(stores) \in Nat \ {0}, faults \in 0..MaxStoreFaults,
           Writes(stores) \/ LosesOneOf(stores) \/ WriteFails(stores)
    PROVE  /\ store' = store \/ \E j \in 1..Len(stores) : store' = stores[j]
           /\ faults' \in 0..MaxStoreFaults
  <1>1. CASE Writes(stores)
    BY <1>1 DEF Writes
  <1>2. CASE LosesOneOf(stores) \/ MeetsLink(stores)
    <2>1. PICK j \in 1..Len(stores) : store' = Before(stores, j)
      BY <1>2 DEF LosesOneOf, MeetsLink
    <2>2. j # 1 => j - 1 \in 1..Len(stores)
      BY <2>1
    <2>3. faults' \in 0..MaxStoreFaults
      BY <1>2, PolicyIsValid DEF LosesOneOf, MeetsLink
    <2> QED BY <2>1, <2>2, <2>3 DEF Before
  <1> QED BY <1>1, <1>2 DEF WriteFails

(* Writing files keeps the store well formed: a file of a listed root only *)
(* makes that root's manifest stale.                                       *)
LEMMA AddingOK ==
    ASSUME NEW s, StoreOK(s), NEW fs,
           \A f \in fs : /\ f.root \in Roots \cup {PhaseC, Inputs}
                         /\ f.holds \in FilesHold /\ f.status \in Statuses
    PROVE  /\ StoreOK(Adding(s, fs))
           /\ Adding(s, fs).files = s.files \cup fs
           /\ Adding(s, fs).run = s.run
  BY DEF StoreOK, Adding

(* Writing logs, comparisons, manifests or integrity records records no check. *)
LEMMA AddingIsQuiet ==
    ASSUME NEW s, StoreOK(s), NEW fs, Plain(fs)
    PROVE  Quiet(s, Adding(s, fs))
  <1>1. Verdict.holds = "verdict"
    BY DEF Verdict, Single, File
  <1> QED BY AddingOK, <1>1 DEF Plain, Quiet, SaysAccepted

(* Neither does persisting a state, as long as it is not accepted. *)
LEMMA PersistingIsQuiet ==
    ASSUME NEW s, StoreOK(s), NEW state \in RunStates \ {"accepted"}
    PROVE  Quiet(s, Persisting(s, state))
  BY DEF Persisting, Recording, Run, Quiet, StoreOK, SaysAccepted, TerminalStates

(* Nor the outcome and the reason of a failure. *)
LEMMA RecordingFailureIsQuiet ==
    ASSUME NEW s, StoreOK(s), NEW state \in Failures, NEW reason
    PROVE  Quiet(s, Recording(s, Run(state, state, reason)))
  BY DEF Recording, Run, Quiet, StoreOK, SaysAccepted, TerminalStates, RunStates, Failures

(* Nor the manifest of a root. *)
LEMMA ListingIsQuiet ==
    ASSUME NEW s, StoreOK(s), NEW r \in Roots
    PROVE  Quiet(s, Listing(s, r))
  BY DEF Listing, Quiet, StoreOK, SaysAccepted

(* Nor hashes.yaml. *)
LEMMA HashingIsQuiet ==
    ASSUME NEW s, StoreOK(s)
    PROVE  Quiet(s, Hashing(s))
  BY DEF Hashing, Quiet, StoreOK, SaysAccepted

(* Several quiet writes are quiet together. *)
LEMMA QuietIsTransitive ==
    ASSUME NEW s, NEW t, NEW u, Quiet(s, t), Quiet(t, u)
    PROVE  Quiet(s, u)
  BY DEF Quiet

(* Nothing written is quiet. *)
LEMMA QuietIsReflexive ==
    ASSUME NEW s, StoreOK(s)
    PROVE  Quiet(s, s)
  BY DEF Quiet

(* A list of quiet writes is quiet, whichever of them fails. *)
LEMMA QuietWrites ==
    ASSUME StoreOK(store), faults \in 0..MaxStoreFaults,
           NEW stores, Len(stores) \in Nat \ {0},
           \A j \in 1..Len(stores) : Quiet(store, stores[j]),
           Writes(stores) \/ LosesOneOf(stores) \/ WriteFails(stores)
    PROVE  Quiet(store, store') /\ faults' \in 0..MaxStoreFaults
  BY StoreAfterWrites, QuietIsReflexive

(* The same for a single write. *)
LEMMA QuietWrite ==
    ASSUME StoreOK(store), faults \in 0..MaxStoreFaults, NEW s, Quiet(store, s),
           Writes(<<s>>) \/ LosesOneOf(<<s>>) \/ WriteFails(<<s>>)
    PROVE  Quiet(store, store') /\ faults' \in 0..MaxStoreFaults
  <1> DEFINE stores == <<s>>
  <1>1. Len(stores) \in Nat \ {0} /\ \A j \in 1..Len(stores) : Quiet(store, stores[j])
    OBVIOUS
  <1>2. Writes(stores) \/ LosesOneOf(stores) \/ WriteFails(stores)
    OBVIOUS
  <1> HIDE DEF stores
  <1> QED BY <1>1, <1>2, QuietWrites

(* A single write happens or it does not. *)
LEMMA OneWrite ==
    ASSUME NEW s, Writes(<<s>>) \/ LosesOneOf(<<s>>) \/ WriteFails(<<s>>)
    PROVE  store' = store \/ store' = s
  BY DEF Writes, LosesOneOf, WriteFails, MeetsLink, Before

(* The same for the three writes of a failure and of the start of a run. *)
LEMMA ThreeQuietWrites ==
    ASSUME StoreOK(store), faults \in 0..MaxStoreFaults,
           NEW r, NEW s, NEW t, Quiet(store, r), Quiet(store, s), Quiet(store, t),
           Writes(<<r, s, t>>) \/ LosesOneOf(<<r, s, t>>) \/ WriteFails(<<r, s, t>>)
    PROVE  Quiet(store, store') /\ faults' \in 0..MaxStoreFaults
  <1> DEFINE stores == <<r, s, t>>
  <1>1. Len(stores) \in Nat \ {0} /\ \A j \in 1..Len(stores) : Quiet(store, stores[j])
    OBVIOUS
  <1>2. Writes(stores) \/ LosesOneOf(stores) \/ WriteFails(stores)
    OBVIOUS
  <1> HIDE DEF stores
  <1> QED BY <1>1, <1>2, QuietWrites

(* A write that fails raises, and it raises no KeyboardInterrupt. *)
LEMMA FailedWriteRaises ==
    ASSUME NEW stores, WriteFails(stores)
    PROVE  exc' # NoException /\ exc' # KeyboardInterrupt /\ ExceptionOK(exc')
  BY DEF WriteFails, LosesOneOf, MeetsLink, StoreExceptions, ExceptionOK, MendRuneError, OtherError,
         NoException, KeyboardInterrupt, Exception

(* What is left in an output directory or among the evidence is no record  *)
(* of a command or a patch, and not the verdict.                           *)
LEMMA LeftIsPlain ==
    ASSUME NEW r \in Roots \cup {PhaseC, Inputs}, NEW kinds \in SUBSET {"record", "link"},
           NEW left \in Left(r, kinds)
    PROVE  Plain(left)
  <1>1. left = {} \/ \E kind \in kinds : left = {Single(r, kind, "none")}
    BY DEF Left
  <1>2. \A kind \in kinds : Plain({Single(r, kind, "none")})
    BY DEF Plain, Single, File, FilesHold, Statuses
  <1> QED BY <1>1, <1>2 DEF Plain

(* A command writes its records and, at most, something plain. *)
LEMMA LeavesAddsPlain ==
    ASSUME root \in Roots, NEW fs, Leaves(fs)
    PROVE  \E left : Plain(left) /\ store' = Adding(store, fs \cup left)
  BY LeftIsPlain, PolicyIsValid DEF Leaves

-----------------------------------------------------------------------------
(* Which actions leave the store quietly. *)
QuietStep == Quiet(store, store') /\ faults' \in 0..MaxStoreFaults

(* Preflight and the capture of the inputs record no check. *)
LEMMA PrepareIsQuiet == TypeOK /\ Prepare => QuietStep
  <1> SUFFICES ASSUME TypeOK, Prepare PROVE QuietStep
    OBVIOUS
  <1>0. StoreOK(store) /\ faults \in 0..MaxStoreFaults /\ Quiet(store, store)
    BY QuietIsReflexive DEF TypeOK
  <1> USE DEF QuietStep
  <1>1. \A state \in RunStates \ {"accepted"} : Quiet(store, Persisting(store, state))
    BY <1>0, PersistingIsQuiet
  <1>2. {"created", "validating", "preflight", "capturing_inputs", "phase_a_baseline",
         "infrastructure_error", "evidence_failure"} \subseteq RunStates \ {"accepted"}
    BY DEF RunStates, ActiveStates, TerminalStates, Failures
  <1>3. CASE RejectCampaign
    BY <1>0, <1>3 DEF RejectCampaign
  <1>4. CASE CreateRun
    BY <1>0, <1>1, <1>2, <1>4, ThreeQuietWrites DEF CreateRun
  <1>5. CASE QualifyRuntime
    BY <1>0, <1>1, <1>2, <1>5, QuietWrite DEF QualifyRuntime
  <1>6. CASE RejectRuntime
    BY <1>0, <1>1, <1>2, <1>6, QuietWrite DEF RejectRuntime
  <1>7. CASE CaptureInputs
    <2>0. PICK left \in Left(Inputs, Leavings \cap {"record"}) :
            LET captured == Adding(store, {Single(Inputs, "inputs", "passed")} \cup left)
                advanced == Persisting(captured, "phase_a_baseline")
                stores == <<captured, advanced, Hashing(advanced)>>
            IN  Writes(stores) \/ LosesOneOf(stores)
      BY <1>7 DEF CaptureInputs
    <2> DEFINE inputs == {Single(Inputs, "inputs", "passed")}
               captured == Adding(store, inputs \cup left)
               advanced == Persisting(captured, "phase_a_baseline")
               stores == <<captured, advanced, Hashing(advanced)>>
    <2>1. Quiet(store, captured)
      <3>1. Plain(inputs)
        BY DEF Plain, Single, File, FilesHold, Statuses
      <3>2. Plain(left)
        BY LeftIsPlain
      <3> HIDE DEF inputs
      <3>3. Plain(inputs \cup left)
        BY <3>1, <3>2 DEF Plain
      <3> QED BY <1>0, <3>3, AddingIsQuiet
    <2>2. Quiet(store, advanced)
      BY <2>1, <1>2, PersistingIsQuiet, QuietIsTransitive DEF Quiet
    <2>3. Quiet(store, Hashing(advanced))
      BY <2>2, HashingIsQuiet, QuietIsTransitive DEF Quiet
    <2>4. Writes(stores) \/ LosesOneOf(stores) \/ WriteFails(stores)
      BY <2>0
    <2> HIDE DEF captured, advanced
    <2> QED BY <1>0, <2>1, <2>2, <2>3, <2>4, ThreeQuietWrites
  <1>8. CASE FailCapture
    BY <1>0, <1>1, <1>2, <1>8, QuietWrite, PolicyIsValid DEF FailCapture
  <1>9. CASE OpenBaseline
    BY <1>0, <1>9 DEF OpenBaseline
  <1>10. CASE FailBaselineWorktree
    BY <1>0, <1>1, <1>2, <1>10, QuietWrite DEF FailBaselineWorktree
  <1> QED
    BY <1>3, <1>4, <1>5, <1>6, <1>7, <1>8, <1>9, <1>10 DEF Prepare

(* The roots a failure or a comparison is written to are of the run. *)
LEMMA FailureRootIsRoot ==
    ASSUME root \in Roots
    PROVE  FailureRoot \in Roots \cup {PhaseC, Inputs}
  <1>1. Len(Order) \in Stages
    BY CampaignIsValid DEF Stages
  <1>2. root.phase \in {"a", "b", "c", "final"}
    BY DEF Roots, PhaseA, Final, At
  <1>3. At("c", Len(Order)) \in Roots
    BY <1>1 DEF Roots
  <1> QED BY <1>2, <1>3 DEF FailureRoot

(* The except clause of a phase persists a failure state. *)
LEMMA FailureStateIsFailure == FailureState \in Failures
  BY DEF FailureState, Failures

(* So does _persist_terminal_failure, whatever state it finds on disk. *)
LEMMA TerminalFailureIsFailure ==
    ASSUME NEW state, NEW reason
    PROVE  TerminalFailure(state, reason) \in Failures
  BY DEF TerminalFailure, Failures

(* The files a root has one of are plain, the verdict and the report apart. *)
LEMMA SingleIsPlain ==
    ASSUME NEW r \in Roots \cup {PhaseC, Inputs},
           NEW holds \in FilesHold \ {"check", "patch", "verdict", "report"}, NEW status \in Statuses
    PROVE  Plain({Single(r, holds, status)})
  BY DEF Plain, Single, File

(* The records of the integrity checks are plain. *)
LEMMA IntegrityIsPlain ==
    ASSUME root \in Roots, NEW n, NEW item, NEW status \in Statuses
    PROVE  /\ Plain({IntegrityFile(root, n, item, status)})
           /\ \A holds \in {"initial-integrity", "final-integrity"} : Plain({IntegrityOnly(n, holds)})
  BY DEF Plain, IntegrityFile, IntegrityOnly, File, FilesHold, Statuses, Roots

(* The record of a terminal failure. *)
LEMMA FailureRecordIsQuiet ==
    ASSUME NEW s, StoreOK(s), NEW state \in Failures, NEW reason
    PROVE  LET record == FailureRecord(s, state, reason)
           IN  Quiet(s, record[1]) /\ Quiet(s, record[2]) /\ Quiet(s, record[3])
  <1>1. Quiet(s, Persisting(s, state))
    BY PersistingIsQuiet DEF RunStates, TerminalStates, Failures
  <1>2. Quiet(s, Recording(s, Run(state, state, reason)))
    BY RecordingFailureIsQuiet
  <1>3. Quiet(s, Hashing(Recording(s, Run(state, state, reason))))
    BY <1>2, HashingIsQuiet, QuietIsTransitive DEF Quiet
  <1> QED BY <1>1, <1>2, <1>3 DEF FailureRecord

(* Entering a phase records no check. *)
LEMMA EnterIsQuiet == TypeOK /\ Enter => QuietStep
  <1> SUFFICES ASSUME TypeOK, Enter PROVE QuietStep
    OBVIOUS
  <1>0. StoreOK(store) /\ faults \in 0..MaxStoreFaults /\ Quiet(store, store)
    BY QuietIsReflexive DEF TypeOK
  <1> USE DEF QuietStep
  <1>1. \A state \in {"phase_b_isolated", "phase_c_preapply"} :
            Quiet(store, Persisting(store, state))
    BY <1>0, PersistingIsQuiet DEF RunStates, ActiveStates
  <1>2. CASE EnterPhaseA
    BY <1>0, <1>2 DEF EnterPhaseA
  <1>3. CASE EnterPhaseB
    BY <1>0, <1>1, <1>3, QuietWrite DEF EnterPhaseB
  <1>4. CASE EnterPhaseC
    BY <1>0, <1>1, <1>4, QuietWrite DEF EnterPhaseC
  <1>5. CASE OpenWorktree
    BY <1>0, <1>5 DEF OpenWorktree
  <1> QED BY <1>2, <1>3, <1>4, <1>5 DEF Enter

(* Of the commands and patches only those that leave a record of success   *)
(* are not quiet.                                                          *)
LEMMA InterruptIsQuiet == TypeOK /\ Interrupt => QuietStep
  <1> SUFFICES ASSUME TypeOK, Interrupt PROVE QuietStep
    OBVIOUS
  <1>1. StoreOK(store) /\ root \in Roots /\ faults \in 0..MaxStoreFaults
    BY DEF TypeOK
  <1>2. "passed" \in Statuses
    BY DEF Statuses
  <1>3. Plain({IntegrityFile(root, step, Item, "passed")})
    BY <1>1, <1>2, IntegrityIsPlain
  <1>4. PICK left : /\ Plain(left) /\ faults' = faults
                    /\ store' = Adding(store, {IntegrityFile(root, step, Item, "passed")} \cup left)
    BY <1>1, LeavesAddsPlain DEF Interrupt
  <1>5. Plain({IntegrityFile(root, step, Item, "passed")} \cup left)
    BY <1>3, <1>4 DEF Plain
  <1> QED BY <1>1, <1>4, <1>5, AddingIsQuiet DEF QuietStep

(* A patch that fails leaves no record of it. *)
LEMMA PatchFailureIsQuiet ==
    TypeOK /\ (PatchFails \/ PatchRecordLost \/ BeginApply \/ BeginVerify) => QuietStep
  <1> SUFFICES ASSUME TypeOK, PatchFails \/ PatchRecordLost \/ BeginApply \/ BeginVerify
               PROVE  QuietStep
    OBVIOUS
  <1>0. StoreOK(store) /\ faults \in 0..MaxStoreFaults /\ Quiet(store, store)
    BY QuietIsReflexive DEF TypeOK
  <1> USE DEF QuietStep
  <1>1. \A state \in {"phase_c_apply", "phase_c_verify"} : Quiet(store, Persisting(store, state))
    BY <1>0, PersistingIsQuiet DEF RunStates, ActiveStates
  <1>2. CASE PatchFails
    BY <1>0, <1>2 DEF PatchFails
  <1>3. CASE PatchRecordLost
    BY <1>0, <1>3, PolicyIsValid DEF PatchRecordLost
  <1>4. CASE BeginApply
    BY <1>0, <1>1, <1>4, QuietWrite DEF BeginApply, AdvanceStage
  <1>5. CASE BeginVerify
    BY <1>0, <1>1, <1>5, QuietWrite DEF BeginVerify, AdvanceStage
  <1> QED BY <1>2, <1>3, <1>4, <1>5

(* The comparisons, manifests and hashes at the end of a root record no check. *)
LEMMA FinishIsQuiet == TypeOK /\ Finish => QuietStep
  <1> SUFFICES ASSUME TypeOK, Finish PROVE QuietStep
    OBVIOUS
  <1>0. StoreOK(store) /\ faults \in 0..MaxStoreFaults /\ root \in Roots
    BY DEF TypeOK
  <1>1. PhaseA \in Roots /\ Final \in Roots
    BY DEF Roots
  <1>2. Plain({Single(root, "scan-comparison", "passed")})
        /\ Plain({Single(root, "scan-comparison", "failed")})
    BY <1>0, SingleIsPlain DEF FilesHold, Statuses
  <1>3. Quiet(store, Compared("passed")) /\ Quiet(store, Compared("failed"))
    BY <1>0, <1>2, AddingIsQuiet DEF Compared
  <1>4. ASSUME NEW s, Quiet(store, s), NEW r \in Roots
        PROVE  Quiet(store, Listing(s, r)) /\ Quiet(store, Hashing(Listing(s, r)))
    <2>1. Quiet(store, Listing(s, r))
      BY <1>4, ListingIsQuiet, QuietIsTransitive DEF Quiet
    <2> QED BY <2>1, HashingIsQuiet, QuietIsTransitive DEF Quiet
  <1>5. ASSUME NEW s, Quiet(store, s), NEW state \in RunStates \ {"accepted"}
        PROVE  Quiet(store, Persisting(s, state))
    BY <1>5, PersistingIsQuiet, QuietIsTransitive DEF Quiet
  <1>6. ASSUME NEW s, Quiet(store, s), NEW fs, Plain(fs)
        PROVE  Quiet(store, Adding(s, fs))
    BY <1>6, AddingIsQuiet, QuietIsTransitive DEF Quiet
  <1>7. {"phase_c_preapply", "final_verification", "assembling_evidence"}
            \subseteq RunStates \ {"accepted"}
    BY DEF RunStates, ActiveStates, TerminalStates, Failures
  <1>8. CASE FinishBaseline
    <2> DEFINE listed == Listing(store, root)
               stores == <<listed, Hashing(listed)>>
    <2>1. Quiet(store, listed) /\ Quiet(store, Hashing(listed))
      BY <1>0, <1>4, QuietIsReflexive
    <2>2. Writes(stores) \/ LosesOneOf(stores) \/ WriteFails(stores)
      BY <1>8 DEF FinishBaseline
    <2> HIDE DEF listed
    <2>3. Len(stores) \in Nat \ {0} /\ \A j \in 1..Len(stores) : Quiet(store, stores[j])
      BY <2>1
    <2> HIDE DEF stores
    <2> QED BY <1>0, <2>2, <2>3, QuietWrites DEF QuietStep
  <1>9. CASE FinishUnit
    BY <1>0, <1>3, <1>4, <1>9, ThreeQuietWrites DEF FinishUnit, QuietStep
  <1>10. CASE FinishStage
    <2> DEFINE listed == Listing(Compared("passed"), root)
               advanced == Persisting(Hashing(listed), "phase_c_preapply")
               stores == <<Compared("passed"), listed, Hashing(listed), advanced>>
    <2>1. Quiet(store, listed) /\ Quiet(store, Hashing(listed))
      BY <1>0, <1>3, <1>4
    <2>2. Quiet(store, advanced)
      BY <2>1, <1>5, <1>7
    <2>3. Writes(stores) \/ LosesOneOf(stores) \/ WriteFails(stores)
      BY <1>10 DEF FinishStage
    <2> HIDE DEF listed, advanced
    <2>4. Len(stores) \in Nat \ {0} /\ \A j \in 1..Len(stores) : Quiet(store, stores[j])
      BY <1>3, <2>1, <2>2
    <2> HIDE DEF stores
    <2> QED BY <1>0, <2>3, <2>4, QuietWrites DEF QuietStep
  <1>11. CASE EnterFinal
    <2> DEFINE listed == Listing(Compared("passed"), root)
               advanced == Persisting(Hashing(listed), "final_verification")
               checked == Adding(advanced, {IntegrityOnly(0, "initial-integrity")})
               stores == <<Compared("passed"), listed, Hashing(listed), advanced, checked>>
    <2>1. Quiet(store, listed) /\ Quiet(store, Hashing(listed))
      BY <1>0, <1>3, <1>4
    <2>2. Quiet(store, advanced)
      BY <2>1, <1>5, <1>7
    <2>3. Quiet(store, checked)
      BY <1>0, <2>2, <1>6, IntegrityIsPlain DEF Statuses
    <2>4. Writes(stores) \/ LosesOneOf(stores) \/ WriteFails(stores)
      BY <1>11 DEF EnterFinal
    <2> HIDE DEF listed, advanced, checked
    <2>5. Len(stores) \in Nat \ {0} /\ \A j \in 1..Len(stores) : Quiet(store, stores[j])
      BY <1>3, <2>1, <2>2, <2>3
    <2> HIDE DEF stores
    <2> QED BY <1>0, <2>4, <2>5, QuietWrites DEF QuietStep
  <1>12. CASE FinishFinal
    <2> DEFINE strict == Adding(Compared("passed"), {IntegrityOnly(step, "final-integrity")})
               diff == Adding(strict, {Single(Final, "combined", "none")})
               series == Adding(diff, {Single(Final, "supplied-series", "none")})
               listed == Listing(series, Final)
               stores == <<Compared("passed"), strict, diff, series, listed, Hashing(listed)>>
    <2>1. Quiet(store, strict)
      BY <1>0, <1>3, <1>6, IntegrityIsPlain DEF Statuses
    <2>2. Plain({Single(Final, "combined", "none")})
          /\ Plain({Single(Final, "supplied-series", "none")})
      BY <1>1, SingleIsPlain DEF FilesHold, Statuses
    <2>3. Quiet(store, diff)
      BY <1>6, <2>1, <2>2
    <2>4. Quiet(store, series)
      BY <1>6, <2>2, <2>3
    <2>5. Quiet(store, listed) /\ Quiet(store, Hashing(listed))
      BY <1>1, <1>4, <2>4
    <2>6. Writes(stores) \/ LosesOneOf(stores) \/ WriteFails(stores)
      BY <1>12 DEF FinishFinal
    <2> HIDE DEF strict, diff, series, listed
    <2>7. Len(stores) \in Nat \ {0} /\ \A j \in 1..Len(stores) : Quiet(store, stores[j])
      BY <1>3, <2>1, <2>3, <2>4, <2>5
    <2> HIDE DEF stores
    <2> QED BY <1>0, <2>6, <2>7, QuietWrites DEF QuietStep
  <1>13. CASE RejectFindings
    BY <1>0, <1>3, <1>13, QuietWrite DEF RejectFindings, QuietStep
  <1>14. CASE AssembleEvidence
    <2> DEFINE advanced == Persisting(store, "assembling_evidence")
               prepared == Adding(advanced, {Single(Final, "verdict-prep", "none")})
               listed == Listing(prepared, Final)
               stores == <<advanced, prepared, listed, Hashing(listed)>>
    <2>1. Quiet(store, advanced)
      BY <1>0, <1>5, <1>7, QuietIsReflexive
    <2>2. Plain({Single(Final, "verdict-prep", "none")})
      BY <1>1, SingleIsPlain DEF FilesHold, Statuses
    <2>3. Quiet(store, prepared)
      BY <1>6, <2>1, <2>2
    <2>4. Quiet(store, listed) /\ Quiet(store, Hashing(listed))
      BY <1>1, <1>4, <2>3
    <2>5. Writes(stores) \/ LosesOneOf(stores) \/ WriteFails(stores)
      BY <1>14 DEF AssembleEvidence
    <2> HIDE DEF advanced, prepared, listed
    <2>6. Len(stores) \in Nat \ {0} /\ \A j \in 1..Len(stores) : Quiet(store, stores[j])
      BY <2>1, <2>3, <2>4
    <2> HIDE DEF stores
    <2> QED BY <1>0, <2>5, <2>6, QuietWrites DEF QuietStep
  <1> QED
    BY <1>8, <1>9, <1>10, <1>11, <1>12, <1>13, <1>14 DEF Finish

(* Nor does the except clause of a phase. *)
LEMMA FailPhaseIsQuiet == TypeOK /\ FailPhase => QuietStep
  <1> SUFFICES ASSUME TypeOK, FailPhase PROVE QuietStep
    OBVIOUS
  <1>0. StoreOK(store) /\ faults \in 0..MaxStoreFaults /\ root \in Roots
    BY DEF TypeOK
  <1> DEFINE noted == Adding(store, {Single(FailureRoot, "failure", "failed")})
             advanced == Persisting(noted, FailureState)
             stores == <<noted, advanced, Hashing(advanced)>>
  <1>1. Plain({Single(FailureRoot, "failure", "failed")})
    BY <1>0, FailureRootIsRoot, SingleIsPlain DEF FilesHold, Statuses
  <1>2. Quiet(store, noted)
    BY <1>0, <1>1, AddingIsQuiet
  <1>3. FailureState \in RunStates \ {"accepted"}
    BY FailureStateIsFailure DEF RunStates, TerminalStates, Failures
  <1>4. Quiet(store, advanced)
    BY <1>2, <1>3, PersistingIsQuiet, QuietIsTransitive DEF Quiet
  <1>5. Quiet(store, Hashing(advanced))
    BY <1>4, HashingIsQuiet, QuietIsTransitive DEF Quiet
  <1>6. Writes(stores) \/ LosesOneOf(stores) \/ WriteFails(stores)
    BY DEF FailPhase
  <1> QED BY <1>0, <1>2, <1>4, <1>5, <1>6, ThreeQuietWrites DEF QuietStep

(* Nor the removal of worktrees. *)
LEMMA CleanupIsQuiet == TypeOK /\ Cleanup => QuietStep
  <1> SUFFICES ASSUME TypeOK, Cleanup PROVE QuietStep
    OBVIOUS
  <1>0. StoreOK(store) /\ faults \in 0..MaxStoreFaults /\ root \in Roots /\ Quiet(store, store)
    BY QuietIsReflexive DEF TypeOK
  <1>1. CASE RemoveWorktree
    BY <1>0, <1>1 DEF RemoveWorktree, QuietStep
  <1>2. CASE FailWorktreeRemoval
    <2> DEFINE r == IF root.phase = "b" THEN root ELSE PhaseC
               noted == Adding(store, {Single(r, "cleanup-failure", "failed")})
               stores == <<noted, Hashing(noted)>>
    <2>1. Plain({Single(r, "cleanup-failure", "failed")})
      BY <1>0, SingleIsPlain DEF FilesHold, Statuses
    <2>2. Quiet(store, noted)
      BY <1>0, <2>1, AddingIsQuiet
    <2>3. Quiet(store, Hashing(noted))
      BY <2>2, HashingIsQuiet, QuietIsTransitive DEF Quiet
    <2>4. Writes(stores) \/ LosesOneOf(stores) \/ WriteFails(stores)
      BY <1>2 DEF FailWorktreeRemoval
    <2> HIDE DEF noted
    <2>5. Len(stores) \in Nat \ {0} /\ \A j \in 1..Len(stores) : Quiet(store, stores[j])
      BY <2>2, <2>3
    <2> HIDE DEF stores
    <2> QED BY <1>0, <2>4, <2>5, QuietWrites DEF QuietStep
  <1>3. CASE Close
    BY <1>0, <1>3 DEF Close, QuietStep
  <1>4. CASE FailClose
    BY <1>0, <1>4 DEF FailClose, QuietStep
  <1> QED BY <1>1, <1>2, <1>3, <1>4 DEF Cleanup

(* Nor the record of the terminal failure. *)
LEMMA PersistTerminalFailureIsQuiet == TypeOK /\ PersistTerminalFailure => QuietStep
  <1> SUFFICES ASSUME TypeOK, PersistTerminalFailure PROVE QuietStep
    OBVIOUS
  <1>0. StoreOK(store) /\ faults \in 0..MaxStoreFaults
    BY DEF TypeOK
  <1> DEFINE reason == AsMendRuneError(exc, "unexpected_exception").reason
             target == TerminalFailure(store.run.state, reason)
             record == FailureRecord(store, target, reason)
  <1>1. Quiet(store, record[1]) /\ Quiet(store, record[2]) /\ Quiet(store, record[3])
    BY <1>0, TerminalFailureIsFailure, FailureRecordIsQuiet
  <1>2. Writes(record) \/ LosesOneOf(record) \/ WriteFails(record)
    BY DEF PersistTerminalFailure
  <1>3. record = <<record[1], record[2], record[3]>>
    BY DEF FailureRecord
  <1> HIDE DEF record
  <1> QED BY <1>0, <1>1, <1>2, <1>3, ThreeQuietWrites DEF QuietStep

(* Of the acceptance only the verdict, the report and the accepted states  *)
(* are not quiet.                                                          *)
LEMMA AcceptIsQuiet ==
    TypeOK /\ (VerifyEvidence \/ RejectEvidence \/ SealAcceptance \/ WithdrawAcceptance)
        => QuietStep
  <1> SUFFICES ASSUME TypeOK, VerifyEvidence \/ RejectEvidence
                                \/ SealAcceptance \/ WithdrawAcceptance
               PROVE  QuietStep
    OBVIOUS
  <1>0. StoreOK(store) /\ faults \in 0..MaxStoreFaults /\ Quiet(store, store) /\ Final \in Roots
    BY QuietIsReflexive DEF TypeOK, Roots
  <1>1. CASE VerifyEvidence
    BY <1>0, <1>1 DEF VerifyEvidence, QuietStep
  <1>2. CASE RejectEvidence
    BY <1>0, <1>2 DEF RejectEvidence, QuietStep
  <1>3. CASE SealAcceptance
    BY <1>0, <1>3, HashingIsQuiet, QuietWrite DEF SealAcceptance, AcceptanceWrite, QuietStep
  <1>4. CASE WithdrawAcceptance
    <2> DEFINE removed == Withdrawn(store)
               reported == WithdrawnVerdict(store)
               reason == AsMendRuneError(exc, "provenance_incomplete").reason
               record == FailureRecord(removed, "evidence_failure", reason)
    <2>1. Quiet(store, removed) /\ Quiet(store, reported)
      BY <1>0 DEF Withdrawn, WithdrawnVerdict, Quiet, StoreOK, SaysAccepted
    <2>2. Quiet(removed, record[1]) /\ Quiet(removed, record[2]) /\ Quiet(removed, record[3])
      BY <2>1, FailureRecordIsQuiet DEF Quiet, Failures
    <2>3. Quiet(store, record[1]) /\ Quiet(store, record[2]) /\ Quiet(store, record[3])
      BY <2>1, <2>2, QuietIsTransitive
    <2>4. record = <<record[1], record[2], record[3]>>
      BY DEF FailureRecord
    <2>5. \/ Writes(record)
          \/ /\ faults < MaxStoreFaults /\ faults' = faults + 1
             /\ store' \in {store, reported, removed, record[1], record[2]}
      BY <1>4 DEF WithdrawAcceptance
    <2> HIDE DEF record, removed, reported
    <2>6. CASE Writes(record)
      BY <1>0, <2>3, <2>4, <2>6, ThreeQuietWrites DEF QuietStep
    <2>7. CASE /\ faults < MaxStoreFaults /\ faults' = faults + 1
               /\ store' \in {store, reported, removed, record[1], record[2]}
      BY <1>0, <2>1, <2>3, <2>7, PolicyIsValid DEF QuietStep
    <2> QED BY <2>5, <2>6, <2>7
  <1> QED BY <1>1, <1>2, <1>3, <1>4

(* The actions that are quiet, and those that are not. *)
QuietAction ==
    \/ Prepare \/ Enter \/ Interrupt \/ PatchFails \/ PatchRecordLost \/ BeginApply \/ BeginVerify
    \/ Finish \/ FailPhase \/ Cleanup \/ PersistTerminalFailure
    \/ VerifyEvidence \/ RejectEvidence \/ SealAcceptance \/ WithdrawAcceptance
    \/ Kill \/ UNCHANGED vars

RecordedAction ==
    \/ CheckPasses \/ CommandFails \/ ResultRejected \/ CheckRecordLost \/ PatchApplies
    \/ WriteVerdict \/ WriteReport \/ PersistAccepted \/ RecordOutcome

(* Every step is of one of the two kinds. *)
LEMMA ActionsAreQuietOrRecorded == [Next]_vars => QuietAction \/ RecordedAction
  BY DEF Next, Step, Command, Patch, Accept, Ended, QuietAction, RecordedAction

(* The actions called quiet are quiet. *)
LEMMA QuietActionsAreQuiet == TypeOK /\ QuietAction => QuietStep
  <1> SUFFICES ASSUME TypeOK, QuietAction PROVE QuietStep
    OBVIOUS
  <1>1. CASE Kill \/ UNCHANGED vars
    BY <1>1, QuietIsReflexive DEF TypeOK, Kill, vars, QuietStep
  <1> QED
    BY <1>1, PrepareIsQuiet, EnterIsQuiet, InterruptIsQuiet, PatchFailureIsQuiet, FinishIsQuiet,
       FailPhaseIsQuiet, CleanupIsQuiet, PersistTerminalFailureIsQuiet, AcceptIsQuiet
       DEF QuietAction

-----------------------------------------------------------------------------
(* Type correctness: the run store first, then everything else.            *)

(* The actions that do record a check or a verdict keep the store well formed. *)
LEMMA RecordedActionsKeepStore ==
    TypeOK /\ RecordedAction => StoreOK(store') /\ faults' \in 0..MaxStoreFaults
  <1> SUFFICES ASSUME TypeOK, RecordedAction
               PROVE  StoreOK(store') /\ faults' \in 0..MaxStoreFaults
    OBVIOUS
  <1>0. StoreOK(store) /\ faults \in 0..MaxStoreFaults /\ root \in Roots /\ Final \in Roots
    BY DEF TypeOK, Roots
  <1> DEFINE files(fs) == \A f \in fs : /\ f.root \in Roots \cup {PhaseC, Inputs}
                                       /\ f.holds \in FilesHold /\ f.status \in Statuses
  <1>1. \A status \in {"passed", "failed"} :
            /\ files({CheckFile(root, step, Item, status)})
            /\ files({IntegrityFile(root, step, Item, status)})
    BY <1>0 DEF CheckFile, IntegrityFile, File, FilesHold, Statuses
  <1>2. files(CommandFiles(root, step, Item))
    <2>1. files(ResultFiles(root, step, Item))
      BY <1>0 DEF ResultFiles, File, FilesHold, Statuses
    <2> QED BY <1>1, <2>1 DEF CommandFiles
  <1>3. files({PatchFile(root, step, Item)}) /\ files({Verdict}) /\ files({Report})
    BY <1>0 DEF PatchFile, Verdict, Report, Single, File, FilesHold, Statuses
  <1>4. ASSUME NEW fs, files(fs) PROVE StoreOK(Adding(store, fs))
    BY <1>0, <1>4, AddingOK
  <1>4a. ASSUME NEW fs, files(fs), Leaves(fs) PROVE StoreOK(store')
    <2>1. PICK left : Plain(left) /\ store' = Adding(store, fs \cup left)
      BY <1>0, <1>4a, LeavesAddsPlain
    <2>2. files(fs \cup left)
      BY <1>4a, <2>1 DEF Plain
    <2> HIDE DEF files
    <2> QED BY <1>4, <2>1, <2>2
  <1>5. ASSUME NEW run, run.state \in RunStates, run.outcome \in TerminalStates \cup {"none"}
        PROVE  StoreOK(Recording(store, run))
    BY <1>0, <1>5 DEF Recording, StoreOK
  <1>6. CASE CheckPasses
    <2>1. Leaves(CommandFiles(root, step, Item)) /\ faults' = faults
      BY <1>6 DEF CheckPasses
    <2> HIDE DEF files
    <2> QED BY <1>0, <1>2, <1>4a, <2>1
  <1>7. CASE CommandFails
    <2>1. PICK end \in Ends, effect \in Harmless \cup Harmful :
            Leaves(
                (IF end \notin Reported THEN {}
                 ELSE {CheckFile(root, step, Item, IF end = "zero" THEN "passed" ELSE "failed")})
                \cup
                (IF effect \in Harmless THEN {IntegrityFile(root, step, Item, "passed")}
                 ELSE IF root.phase = "a" /\ end \notin Reported THEN {}
                 ELSE {IntegrityFile(root, step, Item, "failed")}))
      BY <1>7 DEF CommandFails
    <2> DEFINE check == IF end \notin Reported THEN {}
                        ELSE {CheckFile(root, step, Item, IF end = "zero" THEN "passed" ELSE "failed")}
               integrity == IF effect \in Harmless THEN {IntegrityFile(root, step, Item, "passed")}
                            ELSE IF root.phase = "a" /\ end \notin Reported THEN {}
                            ELSE {IntegrityFile(root, step, Item, "failed")}
    <2>2. files(check) /\ files(integrity)
      BY <1>1
    <2>3. Leaves(check \cup integrity) /\ faults' = faults
      BY <2>1, <1>7 DEF CommandFails
    <2> HIDE DEF check, integrity
    <2>4. files(check \cup integrity)
      BY <2>2
    <2> HIDE DEF files
    <2> QED BY <1>0, <1>4a, <2>3, <2>4
  <1>8. CASE ResultRejected
    <2> DEFINE fs == {CheckFile(root, step, Item, "passed"), IntegrityFile(root, step, Item, "passed")}
    <2>1. files(fs)
      BY <1>1
    <2>2. Leaves(fs) /\ faults' = faults
      BY <1>8 DEF ResultRejected
    <2> HIDE DEF files, fs
    <2> QED BY <1>0, <1>4a, <2>1, <2>2
  <1>9. CASE CheckRecordLost
    <2>1. PICK fs \in SUBSET {CheckFile(root, step, Item, "passed"),
                              IntegrityFile(root, step, Item, "passed")} :
            Leaves(fs)
      BY <1>9 DEF CheckRecordLost
    <2>2. files(fs)
      BY <1>1
    <2>3. faults' \in 0..MaxStoreFaults
      BY <1>0, <1>9, PolicyIsValid DEF CheckRecordLost
    <2> HIDE DEF files
    <2> QED BY <1>4a, <2>1, <2>2, <2>3
  <1>10. CASE PatchApplies
    <2>1. store' = Adding(store, {PatchFile(root, step, Item)}) /\ faults' = faults
      BY <1>10 DEF PatchApplies
    <2> HIDE DEF files
    <2> QED BY <1>0, <1>3, <1>4, <2>1
  <1>11. ASSUME NEW s, StoreOK(s), Writes(<<s>>) \/ LosesOneOf(<<s>>) \/ WriteFails(<<s>>)
         PROVE  StoreOK(store') /\ faults' \in 0..MaxStoreFaults
    <2> DEFINE stores == <<s>>
    <2>1. Len(stores) \in Nat \ {0} /\ \A j \in 1..Len(stores) : stores[j] = s
      OBVIOUS
    <2>2. Writes(stores) \/ LosesOneOf(stores) \/ WriteFails(stores)
      BY <1>11
    <2> HIDE DEF stores
    <2> QED BY <1>0, <1>11, <2>1, <2>2, StoreAfterWrites
  <1>12. CASE WriteVerdict \/ WriteReport
    <2>1. StoreOK(Adding(store, {Verdict})) /\ StoreOK(Adding(store, {Report}))
      BY <1>3, <1>4
    <2> QED BY <1>11, <1>12, <2>1 DEF WriteVerdict, WriteReport, AcceptanceWrite
  <1>13. CASE PersistAccepted
    <2>1. StoreOK(Persisting(store, "accepted"))
      BY <1>5 DEF Persisting, Run, RunStates, TerminalStates
    <2> QED BY <1>11, <1>13, <2>1 DEF PersistAccepted, AcceptanceWrite
  <1>14. CASE RecordOutcome
    <2>1. StoreOK(Recording(store, AcceptedRun))
      BY <1>5 DEF AcceptedRun, Run, RunStates, TerminalStates
    <2> QED BY <1>11, <1>14, <2>1 DEF RecordOutcome, AcceptanceWrite
  <1> QED
    BY <1>6, <1>7, <1>8, <1>9, <1>10, <1>12, <1>13, <1>14 DEF RecordedAction

(* TypeOK but for the run store and the faults. *)
ControlOK ==
    /\ pc \in Places
    /\ root \in Roots /\ step \in Nat \ {0}
    /\ mem \in ActiveStates
    /\ ExceptionOK(exc) /\ TreeOK(tree) /\ TreeOK(combined)
    /\ worktrees \in [baseline : WorktreeStates, work : WorktreeStates]
    /\ closed \in BOOLEAN
    /\ found \in [baseline : FindingSets, previous : FindingSets, current : FindingSets]

(* The type invariant is that of the store and that of everything else. *)
LEMMA ControlIsTyped == TypeOK <=> ControlOK /\ StoreOK(store) /\ faults \in 0..MaxStoreFaults
  BY DEF TypeOK, ControlOK

(* Every exception the code makes has one of the classes of Exception.     *)
LEMMA ExceptionsAreTyped ==
    /\ ExceptionOK(NoException) /\ ExceptionOK(OtherError) /\ ExceptionOK(KeyboardInterrupt)
    /\ \A reason : ExceptionOK(MendRuneError(reason)) /\ ExceptionOK(ConfigurationError(reason))
    /\ \A e \in StoreExceptions : ExceptionOK(e)
    /\ \A e, reason : ExceptionOK(e) => ExceptionOK(AsMendRuneError(e, reason))
  BY DEF ExceptionOK, NoException, OtherError, KeyboardInterrupt, MendRuneError,
         ConfigurationError, StoreExceptions, AsMendRuneError, Exception

(* The roots the phases go to are roots of the run. *)
LEMMA RootsOfStages ==
    /\ PhaseA \in Roots /\ Final \in Roots
    /\ \A n \in Stages : At("b", n) \in Roots /\ At("c", n) \in Roots
    /\ 1 \in Stages
    /\ \A r \in Roots : r.phase \in {"b", "c"} => r.n \in Stages
    /\ \A n \in Stages : n < Len(Order) => n + 1 \in Stages
  <1>1. Len(Order) \in Nat \ {0}
    BY CampaignIsValid
  <1>2. PhaseA \in Roots /\ Final \in Roots
    BY DEF Roots
  <1>3. \A n \in Stages : At("b", n) \in Roots /\ At("c", n) \in Roots
    BY DEF Roots
  <1>4. \A r \in Roots : r.phase \in {"b", "c"} => r.n \in Stages
    BY DEF Roots, PhaseA, Final, At
  <1>5. 1 \in Stages /\ \A n \in Stages : n < Len(Order) => n + 1 \in Stages
    BY <1>1 DEF Stages
  <1> QED BY <1>2, <1>3, <1>4, <1>5

(* No findings are a set of findings. *)
LEMMA NoFindingsAreFindings == NoFindings \in FindingSets
  BY PolicyIsValid DEF NoFindings, FindingSets

(* Preflight keeps the types. *)
LEMMA PrepareKeepsControl == TypeOK /\ Prepare => ControlOK'
  <1> SUFFICES ASSUME TypeOK, Prepare PROVE ControlOK'
    OBVIOUS
  <1> USE DEF TypeOK, ControlOK, inputVars, Leave, Places, ActiveStates, WorktreeStates
  <1>1. CASE RejectCampaign
    BY <1>1, ExceptionsAreTyped DEF RejectCampaign
  <1>2. CASE CreateRun
    BY <1>2, ExceptionsAreTyped DEF CreateRun
  <1>3. CASE QualifyRuntime
    BY <1>3, ExceptionsAreTyped DEF QualifyRuntime
  <1>4. CASE RejectRuntime
    BY <1>4, ExceptionsAreTyped DEF RejectRuntime
  <1>5. CASE CaptureInputs
    BY <1>5, ExceptionsAreTyped DEF CaptureInputs
  <1>6. CASE FailCapture
    BY <1>6, ExceptionsAreTyped DEF FailCapture
  <1>7. CASE OpenBaseline
    BY <1>7 DEF OpenBaseline
  <1>8. CASE FailBaselineWorktree
    BY <1>8, ExceptionsAreTyped DEF FailBaselineWorktree
  <1> QED BY <1>1, <1>2, <1>3, <1>4, <1>5, <1>6, <1>7, <1>8 DEF Prepare

(* Entering a phase keeps the types. *)
LEMMA EnterKeepsControl == TypeOK /\ Enter => ControlOK'
  <1> SUFFICES ASSUME TypeOK, Enter PROVE ControlOK'
    OBVIOUS
  <1> USE DEF TypeOK, ControlOK, Start, Places, ActiveStates, WorktreeStates
  <1>1. CASE EnterPhaseA
    BY <1>1, ExceptionsAreTyped, FailedWriteRaises, RootsOfStages, NoFindingsAreFindings DEF EnterPhaseA
  <1>2. CASE EnterPhaseB
    BY <1>2, ExceptionsAreTyped, FailedWriteRaises, RootsOfStages, NoFindingsAreFindings DEF EnterPhaseB
  <1>3. CASE EnterPhaseC
    <2>1. found' \in [baseline : FindingSets, previous : FindingSets, current : FindingSets]
      BY <1>3, NoFindingsAreFindings DEF EnterPhaseC
    <2> QED BY <1>3, <2>1, ExceptionsAreTyped, FailedWriteRaises, RootsOfStages DEF EnterPhaseC
  <1>4. CASE OpenWorktree
    BY <1>4, ExceptionsAreTyped, FailedWriteRaises DEF OpenWorktree, BaseTree, TreeOK, Dirt
  <1> QED BY <1>1, <1>2, <1>3, <1>4 DEF Enter

(* A command keeps the types, the ranks of a scan's findings included. *)
LEMMA CommandKeepsControl == TypeOK /\ Command => ControlOK'
  <1> SUFFICES ASSUME TypeOK, Command PROVE ControlOK'
    OBVIOUS
  <1>1. \A effect \in Harmless \cup Harmful : TreeOK(Touched(tree, effect))
    BY DEF TypeOK, TreeOK, Touched, Harmless, Harmful, Dirt
  <1>2. \A effect, end, answer : /\ ExceptionOK(IntegrityError(effect)) /\ ExceptionOK(EndError(end))
    BY ExceptionsAreTyped DEF IntegrityError, EndError
  <1>3. \A e : ExceptionOK(e) => ExceptionOK(Rethrown(e))
    BY ExceptionsAreTyped DEF Rethrown
  <1>4. \A answer \in {"vulnerable", "mitigated", "invalid"} : ExceptionOK(ResultError(answer))
    BY ExceptionsAreTyped DEF ResultError
  <1> USE DEF TypeOK, ControlOK, commandVars, Places
  <1>5. CASE CheckPasses
    <2>1. ASSUME NEW f \in [Rules -> 0..MaxRank]
          PROVE  [found EXCEPT !.current[Item.id] = f]
                    \in [baseline : FindingSets, previous : FindingSets, current : FindingSets]
      <3>1. [found.current EXCEPT ![Item.id] = f] \in FindingSets
        BY <2>1 DEF FindingSets
      <3> QED BY <3>1
    <2>2. found' \in [baseline : FindingSets, previous : FindingSets, current : FindingSets]
      BY <1>5, <2>1 DEF CheckPasses
    <2> QED BY <1>1, <1>5, <2>2 DEF CheckPasses
  <1>6. CASE CommandFails
    BY <1>1, <1>2, <1>3, <1>6 DEF CommandFails
  <1>7. CASE ResultRejected
    BY <1>1, <1>3, <1>4, <1>7 DEF ResultRejected
  <1>8. CASE CheckRecordLost
    BY <1>1, <1>3, <1>8, ExceptionsAreTyped DEF CheckRecordLost
  <1>9. CASE Interrupt
    BY <1>9, ExceptionsAreTyped DEF Interrupt
  <1> QED BY <1>5, <1>6, <1>7, <1>8, <1>9 DEF Command

(* A patch keeps the types. *)
LEMMA PatchKeepsControl == TypeOK /\ Patch => ControlOK'
  <1> SUFFICES ASSUME TypeOK, Patch PROVE ControlOK'
    OBVIOUS
  <1>1. TreeOK(patched)
    BY DEF TypeOK, TreeOK, patched
  <1> USE DEF TypeOK, ControlOK, commandVars, Places, ActiveStates
  <1>2. CASE PatchApplies
    BY <1>1, <1>2 DEF PatchApplies
  <1>3. CASE PatchFails
    BY <1>3, ExceptionsAreTyped, FailedWriteRaises DEF PatchFails
  <1>4. CASE PatchRecordLost
    BY <1>1, <1>4, ExceptionsAreTyped, FailedWriteRaises DEF PatchRecordLost
  <1>5. CASE BeginApply
    BY <1>5, ExceptionsAreTyped, FailedWriteRaises DEF BeginApply, AdvanceStage
  <1>6. CASE BeginVerify
    BY <1>6, ExceptionsAreTyped, FailedWriteRaises DEF BeginVerify, AdvanceStage
  <1> QED BY <1>2, <1>3, <1>4, <1>5, <1>6 DEF Patch

(* The end of a root keeps the types; a stage that has a next one goes to a stage. *)
LEMMA FinishKeepsControl == TypeOK /\ Finish => ControlOK'
  <1> SUFFICES ASSUME TypeOK, Finish PROVE ControlOK'
    OBVIOUS
  <1>1. [found EXCEPT !.baseline = found.current]
            \in [baseline : FindingSets, previous : FindingSets, current : FindingSets]
        /\ [found EXCEPT !.previous = found.current, !.current = NoFindings]
            \in [baseline : FindingSets, previous : FindingSets, current : FindingSets]
    BY NoFindingsAreFindings DEF TypeOK
  <1> USE DEF TypeOK, ControlOK, finishVars, Places, ActiveStates
  <1>2. CASE FinishBaseline
    BY <1>1, <1>2, ExceptionsAreTyped, FailedWriteRaises DEF FinishBaseline
  <1>3. CASE FinishUnit
    BY <1>3, ExceptionsAreTyped, FailedWriteRaises DEF FinishUnit
  <1>4. CASE FinishStage
    <2>1. root.n < Len(Order) /\ root.phase = "c"
      BY <1>4 DEF FinishStage, Running
    <2>2. At("c", root.n + 1) \in Roots
      BY <2>1, RootsOfStages
    <2>3. /\ UNCHANGED <<tree, worktrees, closed, combined>> /\ pc = "run"
          /\ \/ /\ root' = At("c", root.n + 1) /\ step' = 1 /\ mem' = "phase_c_preapply"
                /\ found' = [found EXCEPT !.previous = found.current, !.current = NoFindings]
                /\ UNCHANGED <<pc, exc>>
             \/ /\ exc' # NoException /\ ExceptionOK(exc') /\ pc' = "handler"
                /\ UNCHANGED <<root, step, mem, found>>
      BY <1>4, FailedWriteRaises DEF FinishStage, Running
    <2>4. found' \in [baseline : FindingSets, previous : FindingSets, current : FindingSets]
      BY <1>1, <2>3
    <2>5. ExceptionOK(exc')
      BY <2>3, ExceptionsAreTyped, FailedWriteRaises
    <2>6. pc' \in Places /\ root' \in Roots /\ step' \in Nat \ {0} /\ mem' \in ActiveStates
      BY <2>2, <2>3
    <2> QED BY <2>3, <2>4, <2>5, <2>6
  <1>5. CASE EnterFinal
    <2>1. /\ UNCHANGED <<tree, worktrees, closed, combined>> /\ pc = "run"
          /\ \/ /\ root' = Final /\ step' = 1 /\ mem' = "final_verification"
                /\ found' = [found EXCEPT !.previous = found.current, !.current = NoFindings]
                /\ UNCHANGED <<pc, exc>>
             \/ /\ exc' # NoException /\ ExceptionOK(exc') /\ pc' = "handler"
                /\ mem' \in {"final_verification", mem}
                /\ UNCHANGED <<root, step, found>>
      BY <1>5, FailedWriteRaises DEF EnterFinal, Running
    <2>2. found' \in [baseline : FindingSets, previous : FindingSets, current : FindingSets]
      BY <1>1, <2>1
    <2>3. ExceptionOK(exc')
      BY <2>1, ExceptionsAreTyped, FailedWriteRaises
    <2>4. pc' \in Places /\ root' \in Roots /\ step' \in Nat \ {0} /\ mem' \in ActiveStates
      BY <2>1, RootsOfStages
    <2> QED BY <2>1, <2>2, <2>3, <2>4
  <1>6. CASE FinishFinal
    <2>1. TreeOK(WithoutGenerated(tree))
      BY DEF TreeOK, WithoutGenerated, Dirt
    <2> QED BY <1>6, <2>1, ExceptionsAreTyped, FailedWriteRaises DEF FinishFinal
  <1>7. CASE RejectFindings
    BY <1>7, ExceptionsAreTyped, FailedWriteRaises DEF RejectFindings
  <1>8. CASE AssembleEvidence
    BY <1>8, ExceptionsAreTyped, FailedWriteRaises DEF AssembleEvidence
  <1> QED BY <1>2, <1>3, <1>4, <1>5, <1>6, <1>7, <1>8 DEF Finish

(* The except clause of a phase keeps the types. *)
LEMMA FailPhaseKeepsControl == TypeOK /\ FailPhase => ControlOK'
  BY ExceptionsAreTyped, FailedWriteRaises DEF TypeOK, ControlOK, FailPhase, finishVars, Places

(* The cleanup keeps the types; a unit that has a next one goes to a unit. *)
LEMMA CleanupKeepsControl == TypeOK /\ Cleanup => ControlOK'
  <1> SUFFICES ASSUME TypeOK, Cleanup PROVE ControlOK'
    OBVIOUS
  <1>1. ASSUME NEW e, pc' = After(e), NextUnit
        PROVE  /\ pc' \in Places /\ root' \in Roots /\ step' \in Nat \ {0}
               /\ found' \in [baseline : FindingSets, previous : FindingSets, current : FindingSets]
    <2>1. pc' \in Places
      BY <1>1 DEF After, Places
    <2>2. CASE pc' = "open"
      <3>1. root.phase = "b" /\ root.n < Len(Order)
        BY <1>1, <2>2 DEF After
      <3>2. At("b", root.n + 1) \in Roots
        BY <3>1, RootsOfStages DEF TypeOK
      <3>3. [found EXCEPT !.current = NoFindings]
                \in [baseline : FindingSets, previous : FindingSets, current : FindingSets]
        BY NoFindingsAreFindings DEF TypeOK
      <3> QED BY <1>1, <2>1, <2>2, <3>2, <3>3 DEF NextUnit, Start
    <2>3. CASE pc' # "open"
      BY <1>1, <2>1, <2>3 DEF NextUnit, TypeOK
    <2> QED BY <2>2, <2>3
  <1> USE DEF TypeOK, ControlOK, WorktreeStates
  <1>2. CASE RemoveWorktree
    BY <1>1, <1>2 DEF RemoveWorktree, Removed
  <1>3. CASE FailWorktreeRemoval
    <2>1. ExceptionOK(exc')
      BY <1>3, ExceptionsAreTyped, FailedWriteRaises DEF FailWorktreeRemoval
    <2>2. pc' = After(exc') /\ NextUnit
      BY <1>3 DEF FailWorktreeRemoval
    <2>3. UNCHANGED <<mem, tree, closed, combined>>
      BY <1>3 DEF FailWorktreeRemoval
    <2>4. worktrees' \in [baseline : WorktreeStates, work : WorktreeStates]
      BY <1>3 DEF FailWorktreeRemoval
    <2> QED BY <1>1, <2>1, <2>2, <2>3, <2>4
  <1>4. CASE Close
    BY <1>4 DEF Close, Places, ActiveStates
  <1>5. CASE FailClose
    BY <1>5, ExceptionsAreTyped, FailedWriteRaises DEF FailClose, Places
  <1> QED BY <1>2, <1>3, <1>4, <1>5 DEF Cleanup

(* The acceptance, the terminal failure and the kill keep the types. *)
LEMMA EndKeepsControl ==
    TypeOK /\ (PersistTerminalFailure \/ Accept \/ Kill \/ UNCHANGED vars) => ControlOK'
  <1> SUFFICES ASSUME TypeOK, PersistTerminalFailure \/ Accept \/ Kill \/ UNCHANGED vars
               PROVE  ControlOK'
    OBVIOUS
  <1> USE DEF TypeOK, ControlOK, Places
  <1>1. CASE PersistTerminalFailure
    BY <1>1, ExceptionsAreTyped, FailedWriteRaises DEF PersistTerminalFailure, Leave, finishVars
  <1>2. CASE Accept
    <2> USE DEF acceptVars
    <2>1. CASE VerifyEvidence
      BY <2>1 DEF VerifyEvidence
    <2>2. CASE RejectEvidence
      BY <2>2, ExceptionsAreTyped, FailedWriteRaises DEF RejectEvidence
    <2>3. CASE WriteVerdict \/ WriteReport \/ PersistAccepted \/ RecordOutcome \/ SealAcceptance
      BY <2>3, ExceptionsAreTyped, FailedWriteRaises
         DEF WriteVerdict, WriteReport, PersistAccepted, RecordOutcome, SealAcceptance,
             AcceptanceWrite
    <2>4. CASE WithdrawAcceptance
      BY <2>4, ExceptionsAreTyped, FailedWriteRaises DEF WithdrawAcceptance
    <2> QED BY <1>2, <2>1, <2>2, <2>3, <2>4 DEF Accept
  <1>3. CASE Kill
    BY <1>3 DEF Kill, acceptVars
  <1>4. CASE UNCHANGED vars
    BY <1>4 DEF vars
  <1> QED BY <1>1, <1>2, <1>3, <1>4

(* run_campaign starts in a state of its types. *)
LEMMA TypeOKInit == Init => TypeOK
  <1> SUFFICES ASSUME Init PROVE TypeOK
    OBVIOUS
  <1>1. StoreOK(store)
    BY DEF Init, StoreOK, EmptyStore, NoRun
  <1>2. found \in [baseline : FindingSets, previous : FindingSets, current : FindingSets]
    BY NoFindingsAreFindings DEF Init
  <1>3. TreeOK(BaseTree)
    BY DEF BaseTree, TreeOK, Dirt
  <1>4. faults \in 0..MaxStoreFaults
    BY PolicyIsValid DEF Init
  <1>5. worktrees \in [baseline : WorktreeStates, work : WorktreeStates]
    BY DEF Init, WorktreeStates
  <1>6. pc \in Places /\ root \in Roots /\ step \in Nat \ {0} /\ mem \in ActiveStates
        /\ ExceptionOK(exc)
    BY ExceptionsAreTyped, RootsOfStages DEF Init, Places, ActiveStates
  <1> QED
    BY <1>1, <1>2, <1>3, <1>4, <1>5, <1>6 DEF Init, TypeOK

(* Every step keeps the types, of the store and of everything else. *)
LEMMA TypeOKStep == TypeOK /\ [Next]_vars => TypeOK'
  <1> SUFFICES ASSUME TypeOK, [Next]_vars PROVE TypeOK'
    OBVIOUS
  <1>1. StoreOK(store') /\ faults' \in 0..MaxStoreFaults
    BY ActionsAreQuietOrRecorded, QuietActionsAreQuiet, RecordedActionsKeepStore DEF QuietStep, Quiet
  <1>2. ControlOK'
    BY PrepareKeepsControl, EnterKeepsControl, CommandKeepsControl, PatchKeepsControl,
       FinishKeepsControl, FailPhaseKeepsControl, CleanupKeepsControl, EndKeepsControl
       DEF Next, Step, Ended
  <1> QED BY <1>1, <1>2 DEF TypeOK, ControlOK

(* Whatever fails, the state of a run is one the code can hold.            *)
THEOREM TypeCorrect == Spec => []TypeOK
  <1>1. Init => TypeOK
    BY TypeOKInit
  <1>2. TypeOK /\ [Next]_vars => TypeOK'
    BY TypeOKStep
  <1> QED BY <1>1, <1>2, PTL DEF Spec

-----------------------------------------------------------------------------
(* Acceptance is earned.  AcceptanceIsEarned is not inductive: it follows  *)
(* from what the records say only as long as they are true, and they are   *)
(* true only until an exception is in flight (CommandFails and             *)
(* ResultRejected leave a passed record of a check that has failed).       *)
AcceptPlaces == {"verdict", "report", "accept", "outcome", "seal"}

RecordsAreTrue ==
    exc = NoException =>
        \A f \in store.files :
            f.holds \in {"check", "patch"} /\ f.status = "passed" => f \in PassedChecks

TreeIsIntact == exc = NoException => tree.dirt # "tampered"

NoErrorOnTheWay == pc \in {"close", "verify"} => exc = NoException

EarnedOnTheWay == pc \in AcceptPlaces \/ Accepted => RequiredChecks \subseteq PassedChecks

EarnedInv == RecordsAreTrue /\ TreeIsIntact /\ NoErrorOnTheWay /\ EarnedOnTheWay

(* Whatever root and command, _verify_final_evidence wants it passed.      *)
LEMMA ExpectedFilesHavePassed == \A f \in ExpectedFiles : f.status = "passed"
  <1>1. \A r, n, item : \A f \in CommandFiles(r, n, item) : f.status = "passed"
    BY DEF CommandFiles, CheckFile, IntegrityFile, ResultFiles, File
  <1>2. \A r, after, kind, ids : \A f \in Commands(r, after, kind, ids) : f.status = "passed"
    BY <1>1 DEF Commands
  <1>3. \A r, after, u : \A f \in PatchFiles(r, after, u) : f.status = "passed"
    BY DEF PatchFiles, PatchFile, File
  <1>4. \A f \in ExpectedA : f.status = "passed"
    BY <1>2 DEF ExpectedA
  <1>5. \A n \in Stages : \A f \in ExpectedB(n) \cup ExpectedC(n) : f.status = "passed"
    BY <1>2, <1>3, ZenonT(60) DEF ExpectedB, ExpectedC
  <1>6. \A f \in ExpectedFinal : f.status = "passed"
    BY <1>2 DEF ExpectedFinal, IntegrityOnly, File
  <1> QED BY <1>4, <1>5, <1>6 DEF ExpectedFiles

(* No handler makes an exception disappear. *)
LEMMA ExceptionsStay ==
    ASSUME [Next]_vars, exc' = NoException
    PROVE  exc = NoException
  <1>1. \A reason : MendRuneError(reason) # NoException /\ ConfigurationError(reason) # NoException
    BY DEF MendRuneError, ConfigurationError, NoException, Exception
  <1>2. OtherError # NoException /\ KeyboardInterrupt # NoException
    BY DEF OtherError, KeyboardInterrupt, NoException, Exception
  <1>3. \A e, reason : AsMendRuneError(e, reason) # NoException
    BY <1>1 DEF AsMendRuneError, IsMendRuneError, NoException, Exception
  <1>4. NoException \notin StoreExceptions
    BY <1>1, <1>2 DEF StoreExceptions
  <1>5. CASE Prepare
    BY <1>3, <1>5 DEF Prepare, RejectCampaign, CreateRun, QualifyRuntime, RejectRuntime,
       CaptureInputs, FailCapture, OpenBaseline, FailBaselineWorktree, Leave
  <1>6. CASE Enter
    BY <1>1, <1>4, FailedWriteRaises, <1>6 DEF Enter, EnterPhaseA, EnterPhaseB, EnterPhaseC, OpenWorktree
  <1>7. CASE CheckPasses \/ PatchApplies
    BY <1>7 DEF CheckPasses, PatchApplies
  <1>8. CASE CommandFails \/ ResultRejected \/ CheckRecordLost \/ Interrupt
    <2>1. \A e : e # NoException => Rethrown(e) # NoException
      BY <1>1 DEF Rethrown
    <2>2. \A effect, end : IntegrityError(effect) # NoException /\ EndError(end) # NoException
      BY <1>1, <1>2 DEF IntegrityError, EndError
    <2>3. \A answer \in {"vulnerable", "mitigated", "invalid"} : ResultError(answer) # NoException
      BY <1>1 DEF ResultError
    <2> QED
      BY <1>2, <1>4, FailedWriteRaises, <1>8, <2>1, <2>2, <2>3
         DEF CommandFails, ResultRejected, CheckRecordLost, Interrupt
  <1>9. CASE PatchFails \/ PatchRecordLost \/ BeginApply \/ BeginVerify
    BY <1>1, <1>4, FailedWriteRaises, <1>9 DEF PatchFails, PatchRecordLost, BeginApply, BeginVerify, AdvanceStage
  <1>10. CASE Finish
    BY <1>1, <1>4, FailedWriteRaises, <1>10 DEF Finish, FinishBaseline, FinishUnit, FinishStage, EnterFinal,
       FinishFinal, RejectFindings, AssembleEvidence
  <1>11. CASE FailPhase
    BY <1>3, <1>4, FailedWriteRaises, <1>11 DEF FailPhase
  <1>12. CASE Cleanup
    BY <1>1, <1>4, FailedWriteRaises, <1>12 DEF Cleanup, RemoveWorktree, FailWorktreeRemoval, Close, FailClose
  <1>13. CASE PersistTerminalFailure
    BY <1>3, <1>4, FailedWriteRaises, <1>13 DEF PersistTerminalFailure, Leave
  <1>14. CASE Accept
    BY <1>1, <1>2, <1>3, <1>4, FailedWriteRaises, <1>14 DEF Accept, VerifyEvidence, RejectEvidence, WriteVerdict, WriteReport,
       PersistAccepted, RecordOutcome, SealAcceptance, AcceptanceWrite, WithdrawAcceptance
  <1>15. CASE Kill \/ UNCHANGED vars
    BY <1>15 DEF Kill, vars
  <1> QED
    BY <1>5, <1>6, <1>7, <1>8, <1>9, <1>10, <1>11, <1>12, <1>13, <1>14, <1>15
       DEF Next, Step, Command, Patch, Ended

(* No action forgets what was executed. *)
LEMMA ExecutionIsRemembered ==
    ASSUME [Next]_vars
    PROVE  PassedChecks \subseteq PassedChecks'
  <1>1. ran \subseteq ran'
    <2>1. \A end, answer : Logged(end, answer) => ran \subseteq ran'
      BY DEF Logged
    <2>2. CASE Command
      BY <2>1, <2>2 DEF Command, CheckPasses, CommandFails, ResultRejected, CheckRecordLost, Interrupt
    <2>3. CASE Patch
      BY <2>1, <2>3 DEF Patch, PatchApplies, PatchFails, PatchRecordLost, BeginApply, BeginVerify,
         AdvanceStage
    <2>4. CASE Prepare
      BY <2>4 DEF Prepare, RejectCampaign, CreateRun, QualifyRuntime, RejectRuntime, CaptureInputs,
         FailCapture, OpenBaseline, FailBaselineWorktree, inputVars
    <2>5. CASE Enter
      BY <2>5 DEF Enter, EnterPhaseA, EnterPhaseB, EnterPhaseC, OpenWorktree
    <2>6. CASE Finish
      BY <2>6 DEF Finish, FinishBaseline, FinishUnit, FinishStage, EnterFinal, FinishFinal,
         RejectFindings, AssembleEvidence, finishVars
    <2>7. CASE FailPhase \/ PersistTerminalFailure
      BY <2>7 DEF FailPhase, PersistTerminalFailure, finishVars
    <2>8. CASE Cleanup
      BY <2>8 DEF Cleanup, RemoveWorktree, FailWorktreeRemoval, Close, FailClose
    <2>9. CASE Accept
      BY <2>9 DEF Accept, VerifyEvidence, RejectEvidence, WriteVerdict, WriteReport, PersistAccepted,
         RecordOutcome, SealAcceptance, AcceptanceWrite, WithdrawAcceptance, acceptVars
    <2>10. CASE Kill \/ UNCHANGED vars
      BY <2>10 DEF Kill, acceptVars, vars
    <2> QED
      BY <2>2, <2>3, <2>4, <2>5, <2>6, <2>7, <2>8, <2>9, <2>10 DEF Next, Step, Ended
  <1> QED BY <1>1 DEF PassedChecks

(* While no exception is in flight the source tree is intact. *)
LEMMA TreeStaysIntact ==
    ASSUME TypeOK, TreeIsIntact, [Next]_vars
    PROVE  TreeIsIntact'
  <1> SUFFICES ASSUME exc = NoException, exc' = NoException, tree.dirt # "tampered"
               PROVE  tree'.dirt # "tampered"
    BY ExceptionsStay DEF TreeIsIntact
  <1>1. TreeOK(tree)
    BY DEF TypeOK
  <1>2. \A effect \in Harmless : Touched(tree, effect).dirt # "tampered"
    BY <1>1 DEF TreeOK, Touched, Harmless
  <1>3. tree' # tree => \/ CheckPasses \/ CommandFails \/ ResultRejected \/ CheckRecordLost
                        \/ PatchApplies \/ PatchRecordLost \/ OpenWorktree \/ FinishFinal
    <2>1. CASE Prepare
      BY <2>1 DEF Prepare, RejectCampaign, CreateRun, QualifyRuntime, RejectRuntime, CaptureInputs,
         FailCapture, OpenBaseline, FailBaselineWorktree, inputVars
    <2>2. CASE Enter
      BY <2>2 DEF Enter, EnterPhaseA, EnterPhaseB, EnterPhaseC
    <2>3. CASE Command \/ Patch
      BY <2>3 DEF Command, Interrupt, Patch, PatchFails, BeginApply, BeginVerify, AdvanceStage
    <2>4. CASE Finish
      BY <2>4 DEF Finish, FinishBaseline, FinishUnit, FinishStage, EnterFinal, RejectFindings,
         AssembleEvidence, finishVars
    <2>5. CASE FailPhase \/ PersistTerminalFailure
      BY <2>5 DEF FailPhase, PersistTerminalFailure, finishVars
    <2>6. CASE Cleanup
      BY <2>6 DEF Cleanup, RemoveWorktree, FailWorktreeRemoval, Close, FailClose
    <2>7. CASE Accept
      BY <2>7 DEF Accept, VerifyEvidence, RejectEvidence, WriteVerdict, WriteReport, PersistAccepted,
         RecordOutcome, SealAcceptance, AcceptanceWrite, WithdrawAcceptance, acceptVars
    <2>8. CASE Kill \/ UNCHANGED vars
      BY <2>8 DEF Kill, acceptVars, vars
    <2> QED
      BY <2>1, <2>2, <2>3, <2>4, <2>5, <2>6, <2>7, <2>8 DEF Next, Step, Ended
  <1>4. CASE CheckPasses \/ ResultRejected \/ CheckRecordLost
    BY <1>2, <1>4 DEF CheckPasses, ResultRejected, CheckRecordLost
  <1>5. CASE CommandFails
    <2>1. \A e : e # NoException => Rethrown(e) # NoException
      BY DEF Rethrown, MendRuneError, NoException, Exception
    <2>2. \A effect, end : IntegrityError(effect) # NoException /\ EndError(end) # NoException
      BY DEF IntegrityError, EndError, MendRuneError, ConfigurationError, OtherError, NoException,
         Exception
    <2> QED BY <1>5, <2>1, <2>2 DEF CommandFails
  <1>6. CASE PatchApplies \/ PatchRecordLost
    <2>1. patched.dirt = tree.dirt
      BY <1>1 DEF patched, TreeOK
    <2> QED BY <1>6, <2>1 DEF PatchApplies, PatchRecordLost
  <1>7. CASE OpenWorktree
    BY <1>7 DEF OpenWorktree, BaseTree
  <1>8. CASE FinishFinal
    <2>1. WithoutGenerated(tree).dirt # "tampered"
      BY <1>1 DEF WithoutGenerated, TreeOK
    <2> QED BY <1>8, <2>1 DEF FinishFinal
  <1> QED BY <1>3, <1>4, <1>5, <1>6, <1>7, <1>8

(* A new record of success is that of the command or patch just executed. *)
LEMMA RecordsStayTrue ==
    ASSUME TypeOK, RecordsAreTrue, TreeIsIntact, [Next]_vars
    PROVE  RecordsAreTrue'
  <1> SUFFICES ASSUME exc = NoException, exc' = NoException,
                      NEW f \in store'.files, f.holds \in {"check", "patch"}, f.status = "passed"
               PROVE  f \in PassedChecks'
    BY ExceptionsStay DEF RecordsAreTrue
  <1>1. f \in store.files => f \in PassedChecks'
    BY ExecutionIsRemembered DEF RecordsAreTrue
  <1>2. tree'.dirt # "tampered"
    BY TreeStaysIntact DEF TreeIsIntact
  <1>3. CASE QuietAction
    BY <1>1, <1>3, QuietActionsAreQuiet DEF QuietStep, Quiet
  <1>4. CASE CheckPasses
    <2>0. PICK left : Plain(left) /\ store' = Adding(store, CommandFiles(root, step, Item) \cup left)
      BY <1>4, LeavesAddsPlain DEF CheckPasses, TypeOK
    <2>1. store'.files = store.files \cup CommandFiles(root, step, Item) \cup left
      BY <2>0 DEF TypeOK, Adding, StoreOK
    <2>1a. f \notin left
      BY <2>0 DEF Plain
    <2>2. f \in CommandFiles(root, step, Item) => f = CheckFile(root, step, Item, "passed")
      BY DEF CommandFiles, ResultFiles, IntegrityFile, File
    <2> DEFINE c == [root |-> root, seq |-> step, kind |-> Item.kind, id |-> Item.id, end |-> "zero",
                     answer |-> Wanted(root, Item.kind), patches |-> tree'.patches,
                     intact |-> tree'.dirt # "tampered"]
    <2>3. c \in ran'
      BY <1>4 DEF CheckPasses, AnswersTaken, Logged
    <2>4. Passed(c)
      BY <1>2 DEF Passed
    <2>5. CheckOf(c) = CheckFile(root, step, Item, "passed")
      BY <1>4 DEF CheckOf, CheckFile, CheckPasses, AtCommand
    <2> HIDE DEF c
    <2>6. CheckOf(c) \in PassedChecks'
      BY <2>3, <2>4 DEF PassedChecks
    <2> QED BY <1>1, <2>1, <2>1a, <2>2, <2>5, <2>6
  <1>5. CASE PatchApplies
    <2>1. store'.files = store.files \cup {PatchFile(root, step, Item)}
      BY <1>5 DEF PatchApplies, TypeOK, Adding, StoreOK
    <2> DEFINE c == [root |-> root, seq |-> step, kind |-> Item.kind, id |-> Item.id, end |-> "zero",
                     answer |-> "none", patches |-> tree'.patches,
                     intact |-> tree'.dirt # "tampered"]
    <2>2. c \in ran'
      BY <1>5 DEF PatchApplies, Logged
    <2>3. Item.kind = "patch"
      BY <1>5 DEF PatchApplies, AtPatch
    <2>4. Passed(c)
      <3>1. \A r : Wanted(r, "patch") = "none"
        BY DEF Wanted, Oracles
      <3> QED BY <1>2, <2>3, <3>1 DEF Passed
    <2>5. CheckOf(c) = PatchFile(root, step, Item)
      BY <2>3 DEF CheckOf, PatchFile
    <2> HIDE DEF c
    <2>6. CheckOf(c) \in PassedChecks'
      BY <2>2, <2>4 DEF PassedChecks
    <2> QED BY <1>1, <2>1, <2>5, <2>6
  <1>6. CASE CommandFails \/ ResultRejected \/ CheckRecordLost
    <2>1. \A e : e # NoException => Rethrown(e) # NoException
      BY DEF Rethrown, MendRuneError, NoException, Exception
    <2>2. \A effect, end : IntegrityError(effect) # NoException /\ EndError(end) # NoException
      BY DEF IntegrityError, EndError, MendRuneError, ConfigurationError, OtherError, NoException,
         Exception
    <2>3. \A answer \in {"vulnerable", "mitigated", "invalid"} : ResultError(answer) # NoException
      BY DEF ResultError, MendRuneError, NoException, Exception
    <2>4. NoException \notin StoreExceptions
      BY DEF StoreExceptions, OtherError, MendRuneError, NoException, Exception
    <2> QED BY <1>6, <2>1, <2>2, <2>3, <2>4 DEF CommandFails, ResultRejected, CheckRecordLost
  <1>7. CASE WriteVerdict \/ WriteReport \/ PersistAccepted \/ RecordOutcome
    <2>1. PICK s \in {Adding(store, {Verdict}), Adding(store, {Report}),
                      Persisting(store, "accepted"), Recording(store, AcceptedRun)} :
             Writes(<<s>>) \/ LosesOneOf(<<s>>) \/ WriteFails(<<s>>)
      BY <1>7 DEF WriteVerdict, WriteReport, PersistAccepted, RecordOutcome, AcceptanceWrite
    <2>2. store' = store \/ store' = s
      BY <2>1, OneWrite
    <2>3. s.files \subseteq store.files \cup {Verdict, Report}
      <3>1. \A fs : Adding(store, fs).files = store.files \cup fs
        BY DEF TypeOK, StoreOK, Adding
      <3>2. /\ Persisting(store, "accepted").files = store.files
            /\ Recording(store, AcceptedRun).files = store.files
        BY DEF TypeOK, StoreOK, Persisting, Recording
      <3> QED BY <2>1, <3>1, <3>2
    <2>4. Verdict.holds = "verdict" /\ Report.holds = "report"
      BY DEF Verdict, Report, Single, File
    <2> QED BY <1>1, <2>2, <2>3, <2>4
  <1> QED
    BY <1>3, <1>4, <1>5, <1>6, <1>7, ActionsAreQuietOrRecorded DEF RecordedAction

(* The evidence is verified only when no exception is in flight. *)
LEMMA NoErrorStaysOnTheWay ==
    ASSUME NoErrorOnTheWay, [Next]_vars
    PROVE  NoErrorOnTheWay'
  <1> SUFFICES ASSUME pc' \in {"close", "verify"} PROVE exc' = NoException
    BY DEF NoErrorOnTheWay
  <1>1. CASE Prepare
    BY <1>1 DEF Prepare, RejectCampaign, CreateRun, QualifyRuntime, RejectRuntime, CaptureInputs,
       FailCapture, OpenBaseline, FailBaselineWorktree, Leave
  <1>2. CASE Enter
    BY <1>2 DEF Enter, EnterPhaseA, EnterPhaseB, EnterPhaseC, OpenWorktree
  <1>3. CASE Command \/ Patch
    BY <1>3 DEF Command, CheckPasses, CommandFails, ResultRejected, CheckRecordLost, Interrupt,
       AtCommand, Patch, PatchApplies, PatchFails, PatchRecordLost, AtPatch, BeginApply, BeginVerify,
       AdvanceStage, Running
  <1>4. CASE Finish
    BY <1>4 DEF Finish, FinishBaseline, FinishUnit, FinishStage, EnterFinal, FinishFinal,
       RejectFindings, AssembleEvidence, Running
  <1>5. CASE FailPhase \/ PersistTerminalFailure
    BY <1>5 DEF FailPhase, PersistTerminalFailure, Leave
  <1>6. CASE Cleanup
    BY <1>6 DEF NoErrorOnTheWay, Cleanup, RemoveWorktree, FailWorktreeRemoval, After, Close, FailClose
  <1>7. CASE Accept
    BY <1>7 DEF Accept, VerifyEvidence, RejectEvidence, WriteVerdict, WriteReport, PersistAccepted,
       RecordOutcome, SealAcceptance, AcceptanceWrite, WithdrawAcceptance
  <1>8. CASE Kill \/ UNCHANGED vars
    BY <1>8 DEF NoErrorOnTheWay, Kill, vars
  <1> QED BY <1>1, <1>2, <1>3, <1>4, <1>5, <1>6, <1>7, <1>8 DEF Next, Step, Ended

(* The verdict is written on one way only: past _verify_final_evidence.    *)
LEMMA WayToAcceptance ==
    ASSUME [Next]_vars, pc' \in AcceptPlaces
    PROVE  pc \in AcceptPlaces \/ VerifyEvidence
  <1> USE DEF AcceptPlaces
  <1>1. CASE Prepare
    BY <1>1 DEF Prepare, RejectCampaign, CreateRun, QualifyRuntime, RejectRuntime, CaptureInputs,
       FailCapture, OpenBaseline, FailBaselineWorktree, Leave
  <1>2. CASE Enter
    BY <1>2 DEF Enter, EnterPhaseA, EnterPhaseB, EnterPhaseC, OpenWorktree
  <1>3. CASE Command \/ Patch
    BY <1>3 DEF Command, CheckPasses, CommandFails, ResultRejected, CheckRecordLost, Interrupt,
       AtCommand, Patch, PatchApplies, PatchFails, PatchRecordLost, AtPatch, BeginApply, BeginVerify,
       AdvanceStage, Running
  <1>4. CASE Finish
    BY <1>4 DEF Finish, FinishBaseline, FinishUnit, FinishStage, EnterFinal, FinishFinal,
       RejectFindings, AssembleEvidence, Running
  <1>5. CASE FailPhase \/ PersistTerminalFailure
    BY <1>5 DEF FailPhase, PersistTerminalFailure, Leave
  <1>6. CASE Cleanup
    BY <1>6 DEF Cleanup, RemoveWorktree, FailWorktreeRemoval, After, Close, FailClose
  <1>7. CASE Accept
    BY <1>7 DEF Accept, RejectEvidence, WriteVerdict, WriteReport, PersistAccepted,
       RecordOutcome, SealAcceptance, AcceptanceWrite, WithdrawAcceptance
  <1>8. CASE Kill \/ UNCHANGED vars
    BY <1>8 DEF Kill, vars
  <1> QED BY <1>1, <1>2, <1>3, <1>4, <1>5, <1>6, <1>7, <1>8 DEF Next, Step, Ended

(* Only a step of the acceptance makes the store say accepted. *)
LEMMA AcceptedOnTheWay ==
    ASSUME TypeOK, [Next]_vars, Accepted'
    PROVE  Accepted \/ pc \in AcceptPlaces
  <1>1. CASE QuietAction
    BY <1>1, QuietActionsAreQuiet DEF QuietStep, Quiet, Accepted
  <1>2. CASE WriteVerdict \/ WriteReport \/ PersistAccepted \/ RecordOutcome
    BY <1>2 DEF WriteVerdict, WriteReport, PersistAccepted, RecordOutcome, AcceptanceWrite,
       AcceptPlaces
  <1>3. ASSUME NEW fs, store' = Adding(store, fs), \A f \in fs : f.holds # "verdict"
        PROVE  Accepted
    <2>1. Verdict.holds = "verdict"
      BY DEF Verdict, Single, File
    <2> QED BY <1>3, <2>1 DEF Accepted, SaysAccepted, Adding, TypeOK, StoreOK
  <1>3a. ASSUME NEW fs, Leaves(fs), \A f \in fs : f.holds # "verdict"
         PROVE  Accepted
    <2>1. PICK left : Plain(left) /\ store' = Adding(store, fs \cup left)
      BY <1>3a, LeavesAddsPlain DEF TypeOK
    <2>2. \A f \in fs \cup left : f.holds # "verdict"
      BY <1>3a, <2>1 DEF Plain
    <2> QED BY <1>3, <2>1, <2>2
  <1>4. \A status \in {"passed", "failed"} :
            /\ CheckFile(root, step, Item, status).holds = "check"
            /\ IntegrityFile(root, step, Item, status).holds = "integrity"
    BY DEF CheckFile, IntegrityFile, File
  <1>5. CASE CheckPasses
    <2>1. \A f \in CommandFiles(root, step, Item) : f.holds # "verdict"
      BY DEF CommandFiles, ResultFiles, CheckFile, IntegrityFile, File
    <2> QED BY <1>3a, <1>5, <2>1 DEF CheckPasses
  <1>6. CASE PatchApplies
    <2>1. \A f \in {PatchFile(root, step, Item)} : f.holds # "verdict"
      BY DEF PatchFile, File
    <2> QED BY <1>3, <1>6, <2>1 DEF PatchApplies
  <1>7. CASE CommandFails \/ ResultRejected \/ CheckRecordLost
    <2>1. PICK fs : /\ Leaves(fs)
                    /\ fs \subseteq {CheckFile(root, step, Item, "passed"),
                                     CheckFile(root, step, Item, "failed"),
                                     IntegrityFile(root, step, Item, "passed"),
                                     IntegrityFile(root, step, Item, "failed")}
      BY <1>7 DEF CommandFails, ResultRejected, CheckRecordLost
    <2>2. \A f \in fs : f.holds # "verdict"
      BY <1>4, <2>1
    <2> QED BY <1>3a, <2>1, <2>2
  <1> QED
    BY <1>1, <1>2, <1>5, <1>6, <1>7, ActionsAreQuietOrRecorded DEF RecordedAction

(* The step that verifies the evidence is the one that earns the acceptance. *)
LEMMA EarnedStaysOnTheWay ==
    ASSUME TypeOK, EarnedInv, [Next]_vars
    PROVE  EarnedOnTheWay'
  <1> SUFFICES ASSUME pc' \in AcceptPlaces \/ Accepted'
               PROVE  RequiredChecks \subseteq PassedChecks'
    BY DEF EarnedOnTheWay
  <1>1. CASE pc \in AcceptPlaces \/ Accepted
    BY <1>1, ExecutionIsRemembered DEF EarnedInv, EarnedOnTheWay
  <1>2. CASE VerifyEvidence
    <2>1. exc = NoException
      BY <1>2 DEF VerifyEvidence, EarnedInv, NoErrorOnTheWay
    <2>2. \A f \in ExpectedFiles : f \in store.files /\ f.status = "passed"
      BY <1>2, ExpectedFilesHavePassed DEF VerifyEvidence, EvidenceComplete
    <2>3. RequiredChecks \subseteq PassedChecks
      BY <2>1, <2>2 DEF RequiredChecks, EarnedInv, RecordsAreTrue
    <2> QED BY <2>3, ExecutionIsRemembered
  <1> QED BY <1>1, <1>2, WayToAcceptance, AcceptedOnTheWay

(* The records are true and the way to the verdict is earned: the inductive invariant *)
(* behind AcceptedOnlyIfEarned.                                                       *)
THEOREM EarnedInvariant == Spec => []EarnedInv
  <1>1. Init => EarnedInv
    BY DEF Init, EarnedInv, RecordsAreTrue, TreeIsIntact, NoErrorOnTheWay, EarnedOnTheWay,
       AcceptPlaces, Accepted, SaysAccepted, EmptyStore, NoRun, BaseTree
  <1>2. TypeOK /\ EarnedInv /\ [Next]_vars => EarnedInv'
    BY RecordsStayTrue, TreeStaysIntact, NoErrorStaysOnTheWay, EarnedStaysOnTheWay DEF EarnedInv
  <1> QED BY <1>1, <1>2, TypeCorrect, PTL DEF Spec

(* No verdict and no accepted state is ever on disk unless every patch and *)
(* command the frozen schedule demands was executed and passed: of every   *)
(* campaign, whatever fails.                                               *)
THEOREM AcceptedOnlyIfEarned == Spec => []AcceptanceIsEarned
  <1>1. EarnedInv => AcceptanceIsEarned
    BY DEF EarnedInv, EarnedOnTheWay, AcceptanceIsEarned
  <1> QED BY <1>1, EarnedInvariant, PTL

-----------------------------------------------------------------------------
(* No new severe finding.  Each stage is compared with the one before it,  *)
(* so the inductive invariant carries, from stage to stage, how the stage  *)
(* before compares with Phase A.                                           *)
NoWorse(baseline, current) ==
    \A s \in ToSet(Scans), x \in Rules :
        current[s][x] >= Threshold => baseline[s][x] >= current[s][x]

Compares == root.phase \in {"c", "final"} => NoWorse(found.baseline, found.previous)

LeavesFinal ==
    /\ pc = "assemble" => root.phase = "final"
    /\ pc = "cleanup" /\ exc = NoException => root.phase \in {"b", "final"}

AcceptedLate == Accepted => pc \in AcceptPlaces \cup {"withdraw", "except", "exit", "killed"}

Verified ==
    \/ pc \in {"assemble", "close", "verify"} \cup AcceptPlaces \/ Accepted
    \/ pc = "cleanup" /\ exc = NoException /\ root.phase = "final"

VerifiedIsNoWorse == Verified => NoWorse(found.baseline, found.current)

FindingsInv == Compares /\ LeavesFinal /\ AcceptedLate /\ VerifiedIsNoWorse

(* Comparisons with the previous stage add up to one with the baseline.    *)
LEMMA ComparisonsAddUp ==
    ASSUME NEW baseline \in FindingSets, NEW previous \in FindingSets, NEW current \in FindingSets,
           NoWorse(baseline, previous), Passes(previous, current)
    PROVE  NoWorse(baseline, current)
  <1> SUFFICES ASSUME NEW s \in ToSet(Scans), NEW x \in Rules, current[s][x] >= Threshold
               PROVE  baseline[s][x] >= current[s][x]
    BY DEF NoWorse
  <1>1. Threshold \in Nat /\ MaxRank \in Nat
    BY PolicyIsValid
  <1>2. baseline[s][x] \in Nat /\ previous[s][x] \in Nat /\ current[s][x] \in Nat
    BY <1>1 DEF FindingSets
  <1>3. ~(current[s][x] > previous[s][x])
    BY <1>1, <1>2 DEF Passes
  <1>4. previous[s][x] >= Threshold
    BY <1>1, <1>2, <1>3
  <1>5. baseline[s][x] >= previous[s][x]
    BY <1>4 DEF NoWorse
  <1> QED BY <1>2, <1>3, <1>5

(* The actions that change the findings or the root. *)
ScanningAction ==
    \/ EnterPhaseA \/ EnterPhaseB \/ EnterPhaseC \/ CheckPasses
    \/ FinishBaseline \/ FinishStage \/ EnterFinal \/ RemoveWorktree \/ FailWorktreeRemoval

(* Every other action leaves the findings and the root alone. *)
LEMMA OthersKeepFindings ==
    ASSUME [Next]_vars
    PROVE  ScanningAction \/ UNCHANGED <<root, found>>
  <1> USE DEF ScanningAction
  <1>1. CASE Prepare
    BY <1>1 DEF Prepare, RejectCampaign, CreateRun, QualifyRuntime, RejectRuntime, CaptureInputs,
       FailCapture, OpenBaseline, FailBaselineWorktree, inputVars
  <1>2. CASE Enter
    BY <1>2 DEF Enter, OpenWorktree
  <1>3. CASE Command \/ Patch
    BY <1>3 DEF Command, CommandFails, ResultRejected, CheckRecordLost, Interrupt, commandVars,
       Patch, PatchApplies, PatchFails, PatchRecordLost, BeginApply, BeginVerify, AdvanceStage
  <1>4. CASE Finish
    BY <1>4 DEF Finish, FinishUnit, FinishFinal, RejectFindings, AssembleEvidence
  <1>5. CASE FailPhase \/ PersistTerminalFailure
    BY <1>5 DEF FailPhase, PersistTerminalFailure
  <1>6. CASE Cleanup
    BY <1>6 DEF Cleanup, Close, FailClose
  <1>7. CASE Accept
    BY <1>7 DEF Accept, VerifyEvidence, RejectEvidence, WriteVerdict, WriteReport, PersistAccepted,
       RecordOutcome, SealAcceptance, AcceptanceWrite, WithdrawAcceptance, acceptVars
  <1>8. CASE Kill \/ UNCHANGED vars
    BY <1>8 DEF Kill, acceptVars, vars
  <1> QED BY <1>1, <1>2, <1>3, <1>4, <1>5, <1>6, <1>7, <1>8 DEF Next, Step, Ended

(* The phases of the roots are told apart. *)
LEMMA PhaseBIsNotC ==
    /\ \A n : At("b", n).phase = "b"
    /\ PhaseA.phase = "a" /\ Final.phase = "final" /\ \A n : At("c", n).phase = "c"
  BY DEF At, PhaseA, Final

(* What a stage is compared with is no worse than Phase A, stage after stage. *)
LEMMA ComparesStays ==
    ASSUME TypeOK, Compares, [Next]_vars
    PROVE  Compares'
  <1>1. CASE UNCHANGED <<root, found>>
    BY <1>1 DEF Compares
  <1>2. CASE EnterPhaseA
    BY <1>2, PhaseBIsNotC DEF EnterPhaseA, Start, Compares
  <1>3. CASE EnterPhaseB
    BY <1>3, PhaseBIsNotC DEF EnterPhaseB, Start, Compares
  <1>4. CASE EnterPhaseC
    <2>1. CASE UNCHANGED <<root, found>>
      BY <2>1 DEF Compares
    <2>2. CASE found' = [found EXCEPT !.current = NoFindings, !.previous = found.baseline]
      <3>1. found'.baseline = found.baseline /\ found'.previous = found.baseline
        BY <2>2 DEF TypeOK
      <3>2. \A s \in ToSet(Scans), x \in Rules : found.baseline[s][x] \in Nat
        BY PolicyIsValid DEF TypeOK, FindingSets
      <3> QED BY <3>1, <3>2 DEF Compares, NoWorse
    <2> QED BY <1>4, <2>1, <2>2 DEF EnterPhaseC
  <1>5. CASE CheckPasses
    <2>1. root' = root /\ found'.baseline = found.baseline /\ found'.previous = found.previous
      BY <1>5 DEF CheckPasses, commandVars, TypeOK
    <2> QED BY <2>1 DEF Compares
  <1>6. CASE FinishBaseline
    BY <1>6 DEF FinishBaseline, Running, Compares
  <1>7. CASE FinishStage \/ EnterFinal
    <2>1. CASE UNCHANGED found
      <3>1. root.phase = "c" /\ NoWorse(found.baseline, found.previous)
        BY <1>7 DEF FinishStage, EnterFinal, Running, Compares
      <3> QED BY <2>1, <3>1 DEF Compares
    <2>2. CASE found' = [found EXCEPT !.previous = found.current, !.current = NoFindings]
      <3>1. root.phase = "c" /\ Passes(found.previous, found.current)
        BY <1>7 DEF FinishStage, EnterFinal, Running
      <3>2. NoWorse(found.baseline, found.previous)
        BY <3>1 DEF Compares
      <3>3. NoWorse(found.baseline, found.current)
        BY <3>1, <3>2, ComparisonsAddUp DEF TypeOK
      <3>4. found'.baseline = found.baseline /\ found'.previous = found.current
        BY <2>2 DEF TypeOK
      <3> QED BY <3>3, <3>4 DEF Compares
    <2> QED BY <1>7, <2>1, <2>2 DEF FinishStage, EnterFinal
  <1>8. CASE RemoveWorktree \/ FailWorktreeRemoval
    <2>1. NextUnit
      BY <1>8 DEF RemoveWorktree, FailWorktreeRemoval
    <2> QED BY <1>1, <2>1, PhaseBIsNotC DEF NextUnit, Start, Compares
  <1> QED
    BY <1>1, <1>2, <1>3, <1>4, <1>5, <1>6, <1>7, <1>8, OthersKeepFindings DEF ScanningAction

(* Phase B's cleanup and the end of the final verification are told apart. *)
LEMMA LeavesFinalStays ==
    ASSUME LeavesFinal, [Next]_vars
    PROVE  LeavesFinal'
  <1> USE DEF LeavesFinal
  <1>1. \A e, reason : AsMendRuneError(e, reason) # NoException
    BY DEF AsMendRuneError, IsMendRuneError, MendRuneError, NoException, Exception
  <1>2. NoException \notin StoreExceptions /\ KeyboardInterrupt # NoException
    BY DEF StoreExceptions, OtherError, KeyboardInterrupt, MendRuneError, NoException, Exception
  <1>3. CASE Prepare
    BY <1>3 DEF Prepare, RejectCampaign, CreateRun, QualifyRuntime, RejectRuntime, CaptureInputs,
       FailCapture, OpenBaseline, FailBaselineWorktree, Leave
  <1>4. CASE Enter
    BY <1>4 DEF Enter, EnterPhaseA, EnterPhaseB, EnterPhaseC, OpenWorktree
  <1>5. CASE Command \/ Patch
    BY <1>2, <1>5 DEF Command, CheckPasses, CommandFails, ResultRejected, CheckRecordLost, Interrupt,
       AtCommand, Patch, PatchApplies, PatchFails, PatchRecordLost, AtPatch, BeginApply, BeginVerify,
       AdvanceStage, Running
  <1>6. CASE Finish
    BY <1>6 DEF Finish, FinishBaseline, FinishUnit, FinishStage, EnterFinal, FinishFinal,
       RejectFindings, AssembleEvidence, Running
  <1>7. CASE FailPhase \/ PersistTerminalFailure
    BY <1>1, <1>2, <1>7, FailedWriteRaises DEF FailPhase, PersistTerminalFailure, Leave
  <1>8. CASE Cleanup
    BY <1>8 DEF Cleanup, RemoveWorktree, FailWorktreeRemoval, After, Close, FailClose
  <1>9. CASE Accept
    BY <1>9 DEF Accept, VerifyEvidence, RejectEvidence, WriteVerdict, WriteReport, PersistAccepted,
       RecordOutcome, SealAcceptance, AcceptanceWrite, WithdrawAcceptance
  <1>10. CASE Kill \/ UNCHANGED vars
    BY <1>10 DEF Kill, vars
  <1> QED BY <1>3, <1>4, <1>5, <1>6, <1>7, <1>8, <1>9, <1>10 DEF Next, Step, Ended

(* Once the store says accepted the run is past every scan. *)
LEMMA AcceptedStaysLate ==
    ASSUME TypeOK, AcceptedLate, [Next]_vars
    PROVE  AcceptedLate'
  <1> SUFFICES ASSUME Accepted'
               PROVE  pc' \in AcceptPlaces \cup {"withdraw", "except", "exit", "killed"}
    BY DEF AcceptedLate
  <1>1. pc \in AcceptPlaces \cup {"withdraw", "except", "exit", "killed"}
    BY AcceptedOnTheWay DEF AcceptedLate
  <1> USE DEF AcceptPlaces
  <1>2. CASE Prepare
    BY <1>1, <1>2 DEF Prepare, RejectCampaign, CreateRun, QualifyRuntime, RejectRuntime, CaptureInputs,
       FailCapture, OpenBaseline, FailBaselineWorktree
  <1>3. CASE Enter
    BY <1>1, <1>3 DEF Enter, EnterPhaseA, EnterPhaseB, EnterPhaseC, OpenWorktree
  <1>4. CASE Command \/ Patch
    BY <1>1, <1>4 DEF Command, CheckPasses, CommandFails, ResultRejected, CheckRecordLost, Interrupt,
       AtCommand, Patch, PatchApplies, PatchFails, PatchRecordLost, AtPatch, BeginApply, BeginVerify,
       Running
  <1>5. CASE Finish
    BY <1>1, <1>5 DEF Finish, FinishBaseline, FinishUnit, FinishStage, EnterFinal, FinishFinal,
       RejectFindings, AssembleEvidence, Running
  <1>6. CASE FailPhase \/ PersistTerminalFailure
    BY <1>1, <1>6 DEF FailPhase, PersistTerminalFailure, Leave
  <1>7. CASE Cleanup
    BY <1>1, <1>7 DEF Cleanup, RemoveWorktree, FailWorktreeRemoval, Close, FailClose
  <1>8. CASE Accept
    BY <1>1, <1>8 DEF Accept, VerifyEvidence, RejectEvidence, WriteVerdict, WriteReport,
       PersistAccepted, RecordOutcome, SealAcceptance, AcceptanceWrite, WithdrawAcceptance
  <1>9. CASE Kill \/ UNCHANGED vars
    BY <1>1, <1>9 DEF Kill, vars
  <1> QED BY <1>2, <1>3, <1>4, <1>5, <1>6, <1>7, <1>8, <1>9 DEF Next, Step, Ended

(* Once the final scan has been compared, nothing is scanned any more.     *)
LEMMA VerifiedScansNoMore ==
    ASSUME LeavesFinal, AcceptedLate, Verified, [Next]_vars
    PROVE  UNCHANGED found
  <1>1. \/ pc \in {"assemble", "close", "verify", "withdraw", "except", "exit", "killed"}
                      \cup AcceptPlaces
        \/ pc = "cleanup" /\ root.phase = "final"
    BY DEF Verified, AcceptedLate
  <1> USE DEF AcceptPlaces
  <1>2. CASE EnterPhaseA \/ EnterPhaseB \/ EnterPhaseC
    BY <1>1, <1>2 DEF EnterPhaseA, EnterPhaseB, EnterPhaseC
  <1>3. CASE CheckPasses
    BY <1>1, <1>3 DEF CheckPasses, AtCommand
  <1>4. CASE FinishBaseline \/ FinishStage \/ EnterFinal
    BY <1>1, <1>4 DEF FinishBaseline, FinishStage, EnterFinal, Running
  <1>5. CASE RemoveWorktree \/ FailWorktreeRemoval
    <2>1. pc = "cleanup"
      BY <1>5 DEF RemoveWorktree, FailWorktreeRemoval
    <2>2. root.phase = "final"
      BY <1>1, <2>1
    <2>3. \A e : After(e) # "open"
      BY <2>2 DEF After
    <2>4. pc' # "open" /\ NextUnit
      BY <1>5, <2>3 DEF RemoveWorktree, FailWorktreeRemoval
    <2> QED BY <2>4 DEF NextUnit
  <1> QED BY <1>2, <1>3, <1>4, <1>5, OthersKeepFindings DEF ScanningAction

(* The final scan is compared before any of what follows it. *)
LEMMA WayToVerified ==
    ASSUME TypeOK, LeavesFinal, [Next]_vars, Verified'
    PROVE  Verified \/ FinishFinal
  <1>1. CASE Accepted'
    BY <1>1, AcceptedOnTheWay DEF Verified
  <1>2. CASE pc' \in AcceptPlaces
    BY <1>2, WayToAcceptance DEF Verified, VerifyEvidence
  <1>3. CASE pc' = "verify" \/ pc' = "close" \/ pc' = "assemble" \/ (pc' = "cleanup" /\ exc' = NoException)
    <2>1. \A e, reason : AsMendRuneError(e, reason) # NoException
      BY DEF AsMendRuneError, IsMendRuneError, MendRuneError, NoException, Exception
    <2>2. NoException \notin StoreExceptions /\ KeyboardInterrupt # NoException
      BY DEF StoreExceptions, OtherError, KeyboardInterrupt, MendRuneError, NoException, Exception
    <2>3. CASE Prepare
      BY <1>3, <2>3 DEF Prepare, RejectCampaign, CreateRun, QualifyRuntime, RejectRuntime,
         CaptureInputs, FailCapture, OpenBaseline, FailBaselineWorktree, Leave
    <2>4. CASE Enter
      BY <1>3, <2>4 DEF Enter, EnterPhaseA, EnterPhaseB, EnterPhaseC, OpenWorktree
    <2>5. CASE Command \/ Patch
      BY <1>3, <2>2, <2>5 DEF Command, CheckPasses, CommandFails, ResultRejected, CheckRecordLost,
         Interrupt, AtCommand, Patch, PatchApplies, PatchFails, PatchRecordLost, AtPatch, BeginApply,
         BeginVerify, AdvanceStage, Running
    <2>6. CASE FinishBaseline \/ FinishStage \/ EnterFinal \/ RejectFindings
      BY <1>3, <2>6 DEF FinishBaseline, FinishStage, EnterFinal, RejectFindings, Running
    <2>7. CASE FinishUnit
      <3>1. root.phase = "b" /\ root' = root
        BY <2>7 DEF FinishUnit, Running
      <3>2. pc' # "verify" /\ pc' # "close" /\ pc' # "assemble"
        BY <2>7 DEF FinishUnit
      <3>3. pc' \in AcceptPlaces \/ Accepted' \/ root'.phase = "final"
        BY <3>2 DEF Verified
      <3> QED BY <1>1, <1>2, <3>1, <3>3
    <2>8. CASE AssembleEvidence
      BY <2>8 DEF AssembleEvidence, Verified
    <2>9. CASE FailPhase \/ PersistTerminalFailure
      BY <1>3, <2>1, <2>2, <2>9, FailedWriteRaises DEF FailPhase, PersistTerminalFailure, Leave
    <2>10. CASE RemoveWorktree \/ FailWorktreeRemoval
      <3>1. /\ pc = "cleanup" /\ pc' = After(exc')
            /\ exc' = NoException => exc = NoException
        BY <2>10, ExceptionsStay DEF RemoveWorktree, FailWorktreeRemoval
      <3>2. pc' = "close" /\ exc' = NoException /\ root.phase # "b"
        BY <1>3, <3>1 DEF After
      <3> QED BY <3>1, <3>2 DEF LeavesFinal, Verified
    <2>11. CASE Close \/ FailClose
      BY <1>3, <2>11 DEF Close, FailClose, Verified
    <2>12. CASE Accept
      BY <1>3, <2>12 DEF Accept, VerifyEvidence, RejectEvidence, WriteVerdict, WriteReport,
         PersistAccepted, RecordOutcome, SealAcceptance, AcceptanceWrite, WithdrawAcceptance
    <2>13. CASE Kill
      BY <1>3, <2>13 DEF Kill
    <2>14. CASE UNCHANGED vars
      <3>1. UNCHANGED <<pc, exc, root, store>>
        BY <2>14 DEF vars
      <3> QED BY <3>1 DEF Verified, Accepted
    <2> QED
      BY <2>3, <2>4, <2>5, <2>6, <2>7, <2>8, <2>9, <2>10, <2>11, <2>12, <2>13, <2>14
         DEF Next, Step, Finish, Cleanup, Ended
  <1> QED BY <1>1, <1>2, <1>3 DEF Verified

(* What the acceptance relies on has been compared, and nothing is scanned after it. *)
LEMMA VerifiedStaysNoWorse ==
    ASSUME TypeOK, FindingsInv, [Next]_vars
    PROVE  VerifiedIsNoWorse'
  <1> SUFFICES ASSUME Verified' PROVE NoWorse(found.baseline, found.current)'
    BY DEF VerifiedIsNoWorse
  <1>1. CASE Verified
    <2>1. UNCHANGED found
      BY <1>1, VerifiedScansNoMore DEF FindingsInv
    <2>2. NoWorse(found.baseline, found.current)
      BY <1>1 DEF FindingsInv, VerifiedIsNoWorse
    <2> QED BY <2>1, <2>2
  <1>2. CASE FinishFinal
    <2>1. UNCHANGED found /\ root.phase = "final" /\ Passes(found.previous, found.current)
      BY <1>2 DEF FinishFinal, Running
    <2>2. NoWorse(found.baseline, found.previous)
      BY <2>1 DEF FindingsInv, Compares
    <2>3. NoWorse(found.baseline, found.current)
      BY <2>1, <2>2, ComparisonsAddUp DEF TypeOK
    <2> QED BY <2>1, <2>3
  <1> QED BY <1>1, <1>2, WayToVerified DEF FindingsInv

(* The findings compare as the phases say: the inductive invariant behind *)
(* AcceptedAddsNoSevereFinding.                                           *)
THEOREM FindingsInvariant == Spec => []FindingsInv
  <1>1. Init => FindingsInv
    <2>1. Init => ~Accepted
      BY DEF Init, Accepted, SaysAccepted, EmptyStore, NoRun
    <2> QED
      BY <2>1, PhaseBIsNotC DEF Init, FindingsInv, Compares, LeavesFinal, AcceptedLate,
         VerifiedIsNoWorse, Verified, AcceptPlaces
  <1>2. TypeOK /\ FindingsInv /\ [Next]_vars => FindingsInv'
    BY ComparesStays, LeavesFinalStays, AcceptedStaysLate, VerifiedStaysNoWorse DEF FindingsInv
  <1> QED BY <1>1, <1>2, TypeCorrect, PTL DEF Spec

(* A finding at or above the threshold in the final scan of an accepted    *)
(* run was there, at least as severe, before any patch: for every severity *)
(* order, threshold, number of stages and set of findings.                 *)
THEOREM AcceptedAddsNoSevereFinding == Spec => []NoNewSevereFinding
  <1>1. FindingsInv => NoNewSevereFinding
    BY DEF FindingsInv, VerifiedIsNoWorse, Verified, NoWorse, NoNewSevereFinding
  <1> QED BY <1>1, FindingsInvariant, PTL
=============================================================================

------------------------------ MODULE Campaign ------------------------------
(***************************************************************************)
(* run_campaign of src/src/mendrune/orchestrator.py: preflight, the Phase  *)
(* A baseline, the isolated units of Phase B, the cumulative stages of     *)
(* Phase C, the final repetition, and the acceptance decision, with the    *)
(* run store they leave on disk and the exception that is in flight.       *)
(*                                                                         *)
(* The environment chooses how a command ends, what it does to the tree,   *)
(* what an oracle or a scanner reports, whether git applies a patch or     *)
(* removes a worktree, which write to the run store fails, and when the    *)
(* process is interrupted or killed.                                       *)
(***************************************************************************)
EXTENDS Schedule, RunState

CONSTANTS
    Rules,                  \* identities of the findings a scanner may report
    MaxRank,                \* ranks of the severity order; 0: the finding is absent
    Threshold,              \* rank of reject_new_findings_at_or_above
    KeepFailedWorkspaces,   \* config.storage.keep_failed_workspaces
    CleanupMayFail,         \* whether git may fail to remove a worktree
    Ends,                   \* how a command may end
    Effects,                \* what it may do to the tree
    Leavings,               \* what it may leave in its output directory
    MaxStoreFaults          \* bound on the calls on the run store that fail

ASSUME PolicyIsValid ==
    /\ MaxRank \in Nat /\ Threshold \in 1..MaxRank
    /\ KeepFailedWorkspaces \in BOOLEAN /\ CleanupMayFail \in BOOLEAN
    /\ Ends \subseteq {"zero", "nonzero", "timeout", "launch", "uncertain", "escape"}
    /\ Effects \subseteq {"none", "generated", "edited", "deleted"}
    /\ Leavings \subseteq {"record", "link"}
    /\ MaxStoreFaults \in Nat

VARIABLES
    pc,        \* where run_campaign is
    root,      \* the root being verified
    step,      \* sequence number of its next patch or command
    mem,       \* the caller's own copy of the run state
    exc,       \* the exception in flight
    store,     \* the run store on disk
    tree,      \* the worktree commands run in
    worktrees, \* the worktrees that exist
    closed,    \* PreflightRun._closed
    found,     \* findings of this root, of the previous stage and of Phase A
    combined,  \* the tree combined.diff was taken from
    ran,       \* every patch and command so far and how it really ended
    faults     \* writes and removals in the run store that have failed

vars == <<pc, root, step, mem, exc, store, tree, worktrees, closed, found,
          combined, ran, faults>>

-----------------------------------------------------------------------------
(* Exceptions.  A ConfigurationError is a MendRuneError too. *)
Exception(class, reason) == [class |-> class, reason |-> reason]
NoException == Exception("none", "none")
MendRuneError(reason) == Exception("mendrune", reason)
ConfigurationError(reason) == Exception("configuration", reason)
OtherError == Exception("other", "none")
KeyboardInterrupt == Exception("interrupt", "none")

IsMendRuneError(e) == e.class \in {"mendrune", "configuration"}

(* `exc if isinstance(exc, MendRuneError)`, else a MendRuneError with `reason`. *)
AsMendRuneError(e, reason) == IF IsMendRuneError(e) THEN e ELSE MendRuneError(reason)

(* write_yaml turns a failed write into atomic_write_failed, but creating  *)
(* the directory and the temporary file is outside its try.                *)
StoreExceptions == {MendRuneError("atomic_write_failed"), OtherError}

-----------------------------------------------------------------------------
(* The run store.  run.yaml is a record of its own.  `manifest` tells of   *)
(* manifest.yaml of a root whether it lists exactly the files under it.    *)
(* `hashes` tells of hashes.yaml whether every entry still matches its     *)
(* file (valid) and whether every file has an entry (covers).              *)
NoRun == [state |-> "none", outcome |-> "none", reason |-> "none"]
Run(state, outcome, reason) == [state |-> state, outcome |-> outcome, reason |-> reason]

EmptyStore ==
    [files |-> {}, manifest |-> [r \in Roots |-> "none"], run |-> NoRun,
     hashes |-> [valid |-> FALSE, covers |-> FALSE]]

Adding(s, fs) ==
    [s EXCEPT !.files = @ \cup fs,
              !.manifest = [r \in Roots |-> IF @[r] = "complete" /\ \E f \in fs : f.root = r
                                            THEN "stale" ELSE @[r]],
              !.hashes.covers = FALSE]

Recording(s, run) == [s EXCEPT !.run = run, !.hashes.valid = FALSE]
Persisting(s, state) == Recording(s, Run(state, "none", "none"))

(* _write_unit_manifest *)
Listing(s, r) ==
    [s EXCEPT !.manifest[r] = "complete",
              !.hashes = [valid |-> @.valid /\ s.manifest[r] = "none", covers |-> FALSE]]

(* write_hash_manifest *)
Hashing(s) == [s EXCEPT !.hashes = [valid |-> TRUE, covers |-> TRUE]]

(* The output directories of commands and the copied evidence are in the  *)
(* run store.  A file there may have a path that _verify_final_evidence    *)
(* takes for that of a record, as **/checks/*.yaml does, or be a symbolic  *)
(* link.  At most one of them in a run.                                    *)
Strays == {f \in store.files : f.holds \in {"record", "link"}}
Linked == \E f \in Strays : f.holds = "link"

Left(r, kinds) ==
    {{}} \cup {{Single(r, kind, "none")} : kind \in IF Strays = {} THEN kinds ELSE {}}

(* A list of writes, each given as the store after it.  All of them        *)
(* happen, or one fails and those before it have happened.  The hashes are *)
(* not written when there is a link, nor a manifest when it leads to a     *)
(* file.                                                                   *)
Hashed(s) == s.hashes.valid /\ s.hashes.covers
Lists(s, t) == t.manifest[root] = "complete" /\ s.manifest[root] # "complete"

Before(stores, j) == IF j = 1 THEN store ELSE stores[j - 1]
Reached(stores, j) == \A i \in 1..(j - 1) : ~(Linked /\ Hashed(stores[i]))

Writes(stores) ==
    /\ Reached(stores, Len(stores) + 1)
    /\ store' = stores[Len(stores)] /\ UNCHANGED faults

LosesOneOf(stores) ==
    /\ faults < MaxStoreFaults /\ faults' = faults + 1
    /\ \E j \in 1..Len(stores) : Reached(stores, j) /\ store' = Before(stores, j)

MeetsLink(stores) ==
    /\ Linked /\ UNCHANGED faults
    /\ \E j \in 1..Len(stores) :
          /\ Reached(stores, j) /\ store' = Before(stores, j)
          /\ \/ Hashed(stores[j]) /\ exc' = MendRuneError("artifact_hash_failed")
             \/ Lists(store', stores[j]) /\ exc' = MendRuneError("artifact_missing")

WriteFails(stores) ==
    \/ LosesOneOf(stores) /\ exc' \in StoreExceptions
    \/ MeetsLink(stores)

-----------------------------------------------------------------------------
(* Worktrees.  A tree is the patches applied to the base commit and what   *)
(* commands have done to it: allowed generated files, or a change to a     *)
(* tracked file or an unexpected path.                                     *)
BaseTree == [patches |-> <<>>, dirt |-> "none"]

Touched(t, effect) ==
    [t EXCEPT !.dirt = CASE effect = "none"                -> @
                         [] effect = "generated"           -> IF @ = "none" THEN "generated" ELSE @
                         [] effect \in {"edited", "deleted"} -> "tampered"]

Harmless == Effects \cap {"none", "generated"}
Harmful == Effects \cap {"edited", "deleted"}

(* verify_integrity finds a changed tree; for a deleted tracked file the   *)
(* lstat of snapshot fails instead.                                        *)
IntegrityError(effect) ==
    IF effect = "deleted" THEN OtherError ELSE ConfigurationError("actual_diff_mismatch")

-----------------------------------------------------------------------------
Item == ItemsOf[root][step]
Unfinished == step <= Len(ItemsOf[root])
Running(phase) == pc = "run" /\ root.phase = phase

NoFindings == [s \in ToSet(Scans) |-> [x \in Rules |-> 0]]

(* A mutant: a finding that was there with a lower severity is let pass. *)
PassesUnlessIntroduced(previous, current) ==
    \A s \in ToSet(Scans), x \in Rules :
        previous[s][x] = 0 /\ current[s][x] > 0 => current[s][x] < Threshold

(* compare_findings with delta.passed: nothing introduced or increased is  *)
(* at or above the threshold.                                              *)
Passes(previous, current) ==
    \A s \in ToSet(Scans), x \in Rules :
        current[s][x] > previous[s][x] => current[s][x] < Threshold

Init ==
    /\ pc = "start" /\ root = PhaseA /\ step = 1
    /\ mem = "created" /\ exc = NoException
    /\ store = EmptyStore /\ tree = BaseTree
    /\ worktrees = [baseline |-> "none", work |-> "none"]
    /\ closed = FALSE
    /\ found = [baseline |-> NoFindings, previous |-> NoFindings, current |-> NoFindings]
    /\ combined = BaseTree
    /\ ran = {} /\ faults = 0

-----------------------------------------------------------------------------
(* prepare_preflight.  Until it returns run_campaign has no PreflightRun,  *)
(* so what it raises ends the program with nothing more persisted.         *)
Inputs == At("input", 0)
inputVars == <<root, step, tree, found, combined, ran>>

Leave(e) == pc' = "exit" /\ exc' = AsMendRuneError(e, "unexpected_exception")

(* verify_campaign refuses the campaign, or it changed while it was read. *)
RejectCampaign ==
    /\ pc = "start"
    /\ \E e \in {ConfigurationError("invalid_campaign"), MendRuneError("input_capture_race")} :
          Leave(e)
    /\ UNCHANGED <<mem, store, worktrees, closed, faults, inputVars>>

CreateRun ==
    LET stores == <<Persisting(store, "created"), Persisting(store, "validating"),
                    Persisting(store, "preflight")>>
    IN  /\ pc = "start"
        /\ \/ Writes(stores) /\ pc' = "preflight" /\ mem' = "preflight" /\ UNCHANGED exc
           \/ LosesOneOf(stores) /\ (\E e \in StoreExceptions : Leave(e)) /\ UNCHANGED mem
        /\ UNCHANGED <<worktrees, closed, inputVars>>

(* executor.preflight qualifies the runtime. *)
QualifyRuntime ==
    LET stores == <<Persisting(store, "capturing_inputs")>>
    IN  /\ pc = "preflight"
        /\ \/ Writes(stores) /\ pc' = "capture" /\ mem' = "capturing_inputs" /\ UNCHANGED exc
           \/ LosesOneOf(stores) /\ (\E e \in StoreExceptions : Leave(e)) /\ UNCHANGED mem
        /\ UNCHANGED <<worktrees, closed, inputVars>>

RejectRuntime ==
    LET stores == <<Persisting(store, "infrastructure_error")>>
    IN  /\ pc = "preflight"
        /\ \/ Writes(stores) /\ Leave(MendRuneError("podman_unavailable"))
           \/ LosesOneOf(stores) /\ \E e \in StoreExceptions : Leave(e)
        /\ UNCHANGED <<mem, worktrees, closed, inputVars>>

(* Patches, recipes, adaptations and evidence are copied and frozen; links *)
(* among the evidence are refused.                                         *)
CaptureInputs ==
    /\ pc = "capture"
    /\ \E left \in Left(Inputs, Leavings \cap {"record"}) :
          LET captured == Adding(store, {Single(Inputs, "inputs", "passed")} \cup left)
              advanced == Persisting(captured, "phase_a_baseline")
              stores == <<captured, advanced, Hashing(advanced)>>
          IN  \/ Writes(stores) /\ pc' = "open_baseline" /\ UNCHANGED exc
              \/ /\ LosesOneOf(stores) /\ store' # store   \* else it is FailCapture
                 /\ \E e \in StoreExceptions : Leave(e)
    /\ mem' = "phase_a_baseline"
    /\ UNCHANGED <<worktrees, closed, inputVars>>

(* An input changed, an adaptation was refused, or the copy was not written. *)
FailCapture ==
    LET stores == <<Persisting(store, "evidence_failure")>>
    IN  /\ pc = "capture"
        /\ \/ /\ Writes(stores)
              /\ \E reason \in {"input_capture_race", "goose_adaptation_failed"} :
                    Leave(MendRuneError(reason))
           \/ /\ faults < MaxStoreFaults /\ faults' = faults + 1
              /\ store' = stores[1] /\ \E e \in StoreExceptions : Leave(e)
           \/ LosesOneOf(stores) /\ \E e \in StoreExceptions : Leave(e)
        /\ UNCHANGED <<mem, worktrees, closed, inputVars>>

OpenBaseline ==
    /\ pc = "open_baseline" /\ pc' = "enter_a"
    /\ worktrees' = [worktrees EXCEPT !.baseline = "open"]
    /\ UNCHANGED <<mem, exc, store, closed, faults, inputVars>>

FailBaselineWorktree ==
    LET stores == <<Persisting(store, "infrastructure_error")>>
    IN  /\ pc = "open_baseline"
        /\ \/ Writes(stores) /\ Leave(ConfigurationError("repository_not_local_git"))
           \/ LosesOneOf(stores) /\ \E e \in StoreExceptions : Leave(e)
        /\ UNCHANGED <<mem, worktrees, closed, inputVars>>

Prepare ==
    \/ RejectCampaign \/ CreateRun \/ QualifyRuntime \/ RejectRuntime
    \/ CaptureInputs \/ FailCapture \/ OpenBaseline \/ FailBaselineWorktree

-----------------------------------------------------------------------------
(* Entering the phases. *)
Start(r) ==
    /\ root' = r /\ step' = 1
    /\ found' = [found EXCEPT !.current = NoFindings]

(* The snapshot of the baseline is taken before the try of Phase A: it     *)
(* refuses a repository that tracks anything but regular files.            *)
EnterPhaseA ==
    /\ pc = "enter_a"
    /\ \/ pc' = "run" /\ Start(PhaseA) /\ UNCHANGED exc
       \/ /\ pc' = "except" /\ exc' = ConfigurationError("actual_diff_mismatch")
          /\ UNCHANGED <<root, step, found>>
    /\ UNCHANGED <<mem, store, tree, worktrees, closed, combined, ran, faults>>

EnterPhaseB ==
    LET stores == <<Persisting(store, "phase_b_isolated")>>
    IN  /\ pc = "enter_b"
        /\ \/ /\ Writes(stores) /\ mem' = "phase_b_isolated" /\ pc' = "open"
              /\ Start(At("b", 1)) /\ UNCHANGED exc
           \/ /\ WriteFails(stores) /\ pc' = "except"
              /\ UNCHANGED <<root, step, found, mem>>
        /\ UNCHANGED <<tree, worktrees, closed, combined, ran>>

EnterPhaseC ==
    LET stores == <<Persisting(store, "phase_c_preapply")>>
    IN  /\ pc = "enter_c"
        /\ \/ /\ Writes(stores) /\ mem' = "phase_c_preapply" /\ pc' = "open"
              /\ root' = At("c", 1) /\ step' = 1 /\ UNCHANGED exc
              /\ found' = [found EXCEPT !.current = NoFindings, !.previous = found.baseline]
           \/ /\ WriteFails(stores) /\ pc' = "except"
              /\ UNCHANGED <<root, step, found, mem>>
        /\ UNCHANGED <<tree, worktrees, closed, combined, ran>>

(* A mutant: the next unit gets the worktree the last one has patched. *)
OpenWorktreeAgain ==
    /\ pc = "open" /\ pc' = "run"
    /\ worktrees' = [worktrees EXCEPT !.work = "open"]
    /\ UNCHANGED <<root, step, mem, exc, store, tree, closed, found, combined, ran, faults>>

(* Worktree.create: one per unit of Phase B, one for all of Phase C. *)
OpenWorktree ==
    /\ pc = "open"
    /\ \/ /\ pc' = "run" /\ tree' = BaseTree /\ UNCHANGED exc
          /\ worktrees' = [worktrees EXCEPT !.work = "open"]
       \/ /\ pc' = "handler" /\ exc' = ConfigurationError("worktree_invalid")
          /\ worktrees' = [worktrees EXCEPT !.work = "none"] /\ UNCHANGED tree
    /\ UNCHANGED <<root, step, mem, store, closed, found, combined, ran, faults>>

Enter == EnterPhaseA \/ EnterPhaseB \/ EnterPhaseC \/ OpenWorktree

-----------------------------------------------------------------------------
(* _run_command and _run_isolated_command.  A command exits, it is timed   *)
(* out, Podman cannot start it (launch), its container may survive         *)
(* (uncertain), or an exception that is no MendRuneError escapes.          *)
Reported == {"zero", "nonzero", "timeout"}   \* execute returned a result

(* Phase A's codes for a nonzero exit, and the failure_code of the others. *)
FailureCodes ==
    [a     |-> [build      |-> "build_failed",
                regression |-> "regression_failed",
                oracle     |-> "candidate_oracle_invalid",
                scanner    |-> "scanner_failed"],
     b     |-> [build      |-> "unit_build_failed",
                regression |-> "unit_regression_failed",
                oracle     |-> "unit_vulnerability_not_mitigated",
                scanner    |-> "scanner_failed"],
     c     |-> [preapply   |-> "unit_vulnerability_already_mitigated",
                build      |-> "cumulative_build_failed",
                regression |-> "accumulated_regression_failed",
                oracle     |-> "current_vulnerability_not_mitigated",
                scanner    |-> "scanner_failed"],
     final |-> [build      |-> "final_build_failed",
                regression |-> "final_regression_failed",
                oracle     |-> "final_vulnerability_not_mitigated",
                scanner    |-> "scanner_failed"]]

IsPrior == /\ root.phase = "c" /\ Item.kind = "oracle"
           /\ Item.id \notin ToSet(Vulns[Order[root.n]])

FailureCode ==
    IF IsPrior THEN "prior_vulnerability_reopened" ELSE FailureCodes[root.phase][Item.kind]

EndError(end) ==
    CASE end = "launch"    -> MendRuneError("container_launch_failed")
      [] end = "uncertain" -> MendRuneError("cleanup_uncertain")
      [] end = "escape"    -> OtherError
      [] end = "timeout" /\ root.phase = "a" -> MendRuneError("command_timed_out")
      [] OTHER             -> MendRuneError(FailureCode)

(* The oracle loops of Phases B and C catch every MendRuneError but an     *)
(* integrity failure, and raise their own in its place.                    *)
Rethrown(e) ==
    IF /\ root.phase \in {"b", "c"} /\ Item.kind \in Oracles
       /\ IsMendRuneError(e) /\ e.reason # "actual_diff_mismatch"
    THEN MendRuneError(FailureCode)
    ELSE e

(* expected_vulnerable: what an oracle has to answer. *)
Wanted(r, kind) ==
    IF kind \notin Oracles THEN "none"
    ELSE IF r.phase = "a" \/ kind = "preapply" THEN "vulnerable" ELSE "mitigated"

(* A mutant: a preapply oracle has to answer what the oracles after the patches do. *)
OracleAnswerTaken == {Wanted(root, IF Item.kind = "preapply" THEN "oracle" ELSE Item.kind)}

(* The answers evaluate_oracle_result lets pass. *)
AnswersTaken == {Wanted(root, Item.kind)}

(* evaluate_oracle_result and normalize_semgrep_json. *)
ResultError(answer) ==
    MendRuneError(IF Item.kind = "scanner" THEN "scanner_output_invalid"
                  ELSE CASE answer = "invalid"    -> "candidate_oracle_invalid"
                         [] answer = "mitigated"  -> "vulnerability_not_reproduced"
                         [] answer = "vulnerable" -> "exploit_still_effective")

Logged(end, answer) ==
    ran' = ran \cup {[root |-> root, seq |-> step, kind |-> Item.kind, id |-> Item.id,
                      end |-> end, answer |-> answer, patches |-> tree'.patches,
                      intact |-> tree'.dirt # "tampered"]}

(* The next item is a command, and the caller has made the transitions     *)
(* that come before it.                                                    *)
AtCommand ==
    /\ pc = "run" /\ Unfinished /\ Item.kind # "patch"
    /\ root.phase = "c" =>
          mem = IF Item.kind = "preapply" THEN "phase_c_preapply" ELSE "phase_c_verify"

commandVars == <<root, mem, worktrees, closed, combined>>

(* The records of the command, and what it left in its output directory. *)
Leaves(fs) == \E left \in Left(root, Leavings) : store' = Adding(store, fs \cup left)

(* The command passes and its records are written. *)
CheckPasses ==
    /\ AtCommand
    /\ \E effect \in Harmless : tree' = Touched(tree, effect)
    /\ Leaves(CommandFiles(root, step, Item))
    /\ \E answer \in AnswersTaken : Logged("zero", answer)
    /\ IF Item.kind = "scanner"
       THEN \E f \in [Rules -> 0..MaxRank] : found' = [found EXCEPT !.current[Item.id] = f]
       ELSE UNCHANGED found
    /\ step' = step + 1
    /\ UNCHANGED <<pc, exc, faults, commandVars>>

(* It does not exit with zero, or leaves the tree changed; an integrity    *)
(* failure hides the failure of the command.                               *)
CommandFails ==
    /\ AtCommand
    /\ \E end \in Ends, effect \in Harmless \cup Harmful :
          /\ end # "zero" \/ effect \in Harmful
          /\ tree' = Touched(tree, effect)
          /\ Leaves(
                (IF end \notin Reported THEN {}
                 ELSE {CheckFile(root, step, Item, IF end = "zero" THEN "passed" ELSE "failed")})
                \cup
                (IF effect \in Harmless THEN {IntegrityFile(root, step, Item, "passed")}
                 ELSE IF root.phase = "a" /\ end \notin Reported THEN {}
                 ELSE {IntegrityFile(root, step, Item, "failed")}))
          /\ exc' = Rethrown(IF effect \in Harmful THEN IntegrityError(effect) ELSE EndError(end))
          /\ Logged(end, "none")
    /\ pc' = "handler"
    /\ UNCHANGED <<step, found, faults, commandVars>>

(* It passes, but an oracle's result is not the one wanted or a scanner's  *)
(* output is not valid.                                                    *)
ResultRejected ==
    /\ AtCommand /\ Item.kind \in Oracles \cup {"scanner"}
    /\ \E effect \in Harmless : tree' = Touched(tree, effect)
    /\ Leaves({CheckFile(root, step, Item, "passed"), IntegrityFile(root, step, Item, "passed")})
    /\ \E answer \in IF Item.kind = "scanner" THEN {"invalid"}
                     ELSE {"vulnerable", "mitigated", "invalid"} \ AnswersTaken :
          exc' = Rethrown(ResultError(answer)) /\ Logged("zero", answer)
    /\ pc' = "handler"
    /\ UNCHANGED <<step, found, faults, commandVars>>

(* It passes, but one of its records cannot be written.  The result record *)
(* is written outside the try of the oracle loops.                         *)
CheckRecordLost ==
    LET check == CheckFile(root, step, Item, "passed")
        integrity == IntegrityFile(root, step, Item, "passed")
    IN  /\ AtCommand /\ faults < MaxStoreFaults /\ faults' = faults + 1
        /\ \E effect \in Harmless : tree' = Touched(tree, effect)
        /\ \E e \in StoreExceptions :
              \/ Leaves({integrity}) /\ exc' = Rethrown(e)
              \/ Leaves({check}) /\ exc' = Rethrown(e)
              \/ /\ Item.kind \in Oracles \cup {"scanner"}
                 /\ Leaves({check, integrity}) /\ exc' = e
        /\ Logged("zero", Wanted(root, Item.kind))
        /\ pc' = "handler"
        /\ UNCHANGED <<step, found, commandVars>>

(* Ctrl-C while a command runs: no handler catches it, but the finally of  *)
(* the command and of Phases B and C run.  When the command has changed    *)
(* the tree, the integrity failure takes its place, as in CommandFails.    *)
Interrupt ==
    /\ AtCommand
    /\ exc' = KeyboardInterrupt
    /\ pc' = IF root.phase = "a" THEN "exit" ELSE "cleanup"
    /\ Leaves({IntegrityFile(root, step, Item, "passed")})
    /\ UNCHANGED <<step, tree, found, ran, faults, commandVars>>

Command == CheckPasses \/ CommandFails \/ ResultRejected \/ CheckRecordLost \/ Interrupt

-----------------------------------------------------------------------------
(* The patches of a unit. *)
AtPatch ==
    /\ pc = "run" /\ Unfinished /\ Item.kind = "patch"
    /\ root.phase = "c" => mem = "phase_c_apply"

patched == [tree EXCEPT !.patches = Append(@, <<Order[root.n], Item.id>>)]

PatchApplies ==
    /\ AtPatch
    /\ tree' = patched
    /\ store' = Adding(store, {PatchFile(root, step, Item)})
    /\ Logged("zero", "none")
    /\ step' = step + 1
    /\ UNCHANGED <<pc, exc, found, faults, commandVars>>

(* Its frozen bytes do not hash to what was captured or it changes nothing *)
(* (actual_diff_mismatch), or git does not apply it.                       *)
PatchFails ==
    /\ AtPatch
    /\ exc' \in {MendRuneError("actual_diff_mismatch"),
                 IF root.phase = "b" THEN ConfigurationError("patch_check_failed")
                 ELSE MendRuneError("cumulative_patch_failed")}
    /\ pc' = "handler"
    /\ UNCHANGED <<step, tree, store, found, ran, faults, commandVars>>

PatchRecordLost ==
    /\ AtPatch /\ faults < MaxStoreFaults /\ faults' = faults + 1
    /\ tree' = patched
    /\ exc' \in StoreExceptions
    /\ pc' = "handler"
    /\ UNCHANGED <<step, store, found, ran, commandVars>>

(* An _advance of a stage, made once the items before it are done. *)
AdvanceStage(target) ==
    LET stores == <<Persisting(store, target)>>
    IN  /\ \/ Writes(stores) /\ mem' = target /\ UNCHANGED <<pc, exc>>
           \/ WriteFails(stores) /\ pc' = "handler" /\ UNCHANGED mem
        /\ UNCHANGED <<root, step, tree, worktrees, closed, found, combined, ran>>

BeginApply ==
    /\ Running("c") /\ Unfinished /\ Item.kind = "patch" /\ mem = "phase_c_preapply"
    /\ AdvanceStage("phase_c_apply")

BeginVerify ==
    /\ Running("c") /\ Unfinished /\ Item.kind = "build" /\ mem = "phase_c_apply"
    /\ AdvanceStage("phase_c_verify")

Patch == PatchApplies \/ PatchFails \/ PatchRecordLost \/ BeginApply \/ BeginVerify

-----------------------------------------------------------------------------
(* The end of a root: scan comparison, manifest and hashes. *)
Compared(status) == Adding(store, {Single(root, "scan-comparison", status)})

finishVars == <<step, tree, worktrees, closed, ran>>

FinishBaseline ==
    LET listed == Listing(store, root)
        stores == <<listed, Hashing(listed)>>
    IN  /\ Running("a") /\ ~Unfinished
        /\ \/ /\ Writes(stores) /\ pc' = "enter_b" /\ UNCHANGED exc
              /\ found' = [found EXCEPT !.baseline = found.current]
           \/ /\ WriteFails(stores) /\ pc' = "handler"
              /\ UNCHANGED found
        /\ UNCHANGED <<root, mem, combined, finishVars>>

FinishUnit ==
    LET listed == Listing(Compared("passed"), root)
        stores == <<Compared("passed"), listed, Hashing(listed)>>
    IN  /\ Running("b") /\ ~Unfinished /\ Passes(found.baseline, found.current)
        /\ \/ Writes(stores) /\ pc' = "cleanup" /\ UNCHANGED exc
           \/ WriteFails(stores) /\ pc' = "handler"
        /\ UNCHANGED <<root, mem, found, combined, finishVars>>

(* A stage but the last goes on to the next one. *)
FinishStage ==
    LET listed == Listing(Compared("passed"), root)
        advanced == Persisting(Hashing(listed), "phase_c_preapply")
        stores == <<Compared("passed"), listed, Hashing(listed), advanced>>
    IN  /\ Running("c") /\ ~Unfinished /\ Passes(found.previous, found.current)
        /\ root.n < Len(Order)
        /\ \/ /\ Writes(stores) /\ root' = At("c", root.n + 1) /\ step' = 1
              /\ mem' = "phase_c_preapply"
              /\ found' = [found EXCEPT !.previous = found.current, !.current = NoFindings]
              /\ UNCHANGED <<pc, exc>>
           \/ /\ WriteFails(stores) /\ pc' = "handler"
              /\ UNCHANGED <<root, step, mem, found>>
        /\ UNCHANGED <<tree, worktrees, closed, combined, ran>>

(* The last stage goes on to the final verification, which starts with an  *)
(* integrity check.                                                        *)
EnterFinal ==
    LET listed == Listing(Compared("passed"), root)
        advanced == Persisting(Hashing(listed), "final_verification")
        checked == Adding(advanced, {IntegrityOnly(0, "initial-integrity")})
        stores == <<Compared("passed"), listed, Hashing(listed), advanced, checked>>
    IN  /\ Running("c") /\ ~Unfinished /\ Passes(found.previous, found.current)
        /\ root.n = Len(Order)
        /\ \/ /\ Writes(stores) /\ root' = Final /\ step' = 1 /\ mem' = "final_verification"
              /\ found' = [found EXCEPT !.previous = found.current, !.current = NoFindings]
              /\ UNCHANGED <<pc, exc>>
           \/ /\ WriteFails(stores) /\ pc' = "handler"
              /\ mem' = IF store'.run.state = "final_verification" THEN "final_verification" ELSE mem
              /\ UNCHANGED <<root, step, found>>
        /\ UNCHANGED <<tree, worktrees, closed, combined, ran>>

(* A mutant: the generated files stay where they are. *)
WithGenerated(t) == t

(* _remove_allowed_generated *)
WithoutGenerated(t) == [t EXCEPT !.dirt = IF @ = "generated" THEN "none" ELSE @]

(* Generated files are removed, the tree is compared strictly, and the     *)
(* combined diff, the patch series, the manifest and the hashes follow.    *)
FinishFinal ==
    LET strict == Adding(Compared("passed"), {IntegrityOnly(step, "final-integrity")})
        diff == Adding(strict, {Single(Final, "combined", "none")})
        series == Adding(diff, {Single(Final, "supplied-series", "none")})
        listed == Listing(series, Final)
        stores == <<Compared("passed"), strict, diff, series, listed, Hashing(listed)>>
    IN  /\ Running("final") /\ ~Unfinished /\ Passes(found.previous, found.current)
        /\ \/ Writes(stores) /\ combined' = WithoutGenerated(tree)
              /\ pc' = "assemble" /\ UNCHANGED exc
           \/ WriteFails(stores) /\ pc' = "handler" /\ UNCHANGED combined
        /\ tree' = IF store' = store THEN tree ELSE WithoutGenerated(tree)
        /\ UNCHANGED <<root, step, mem, worktrees, closed, found, ran>>

(* A finding at or above the threshold is new or more severe. *)
RejectFindings ==
    LET stores == <<Compared("failed")>>
        baseline == IF root.phase = "b" THEN found.baseline ELSE found.previous
    IN  /\ pc = "run" /\ root.phase # "a" /\ ~Unfinished /\ ~Passes(baseline, found.current)
        /\ \/ Writes(stores) /\ exc' = MendRuneError("prohibited_new_finding")
           \/ WriteFails(stores)
        /\ pc' = "handler"
        /\ UNCHANGED <<root, mem, found, combined, finishVars>>

(* The state is persisted, but the caller's copy of it stays behind. *)
AssembleEvidence ==
    LET advanced == Persisting(store, "assembling_evidence")
        prepared == Adding(advanced, {Single(Final, "verdict-prep", "none")})
        listed == Listing(prepared, Final)
        stores == <<advanced, prepared, listed, Hashing(listed)>>
    IN  /\ pc = "assemble"
        /\ \/ Writes(stores) /\ pc' = "cleanup" /\ UNCHANGED exc
           \/ WriteFails(stores) /\ pc' = "handler"
        /\ UNCHANGED <<root, mem, found, combined, finishVars>>

Finish ==
    \/ FinishBaseline \/ FinishUnit \/ FinishStage \/ EnterFinal \/ FinishFinal
    \/ RejectFindings \/ AssembleEvidence

-----------------------------------------------------------------------------
(* The except clause of a phase: failure.yaml, the phase's failure state,  *)
(* the hashes, and the exception again.                                    *)
FailureRoot ==
    CASE root.phase \in {"a", "b"} -> root
      [] root.phase = "c"          -> IF worktrees.work = "none" THEN PhaseC ELSE root
      [] root.phase = "final"      -> At("c", Len(Order))

(* A mutant: Phase B fails as Phase C does. *)
FailureStateOfComposition ==
    CASE root.phase = "a" -> "baseline_failure"
      [] OTHER -> IF exc.reason = "unit_vulnerability_already_mitigated"
                  THEN "ambiguous_overlap" ELSE "cumulative_failure"

FailureState ==
    CASE root.phase = "a" -> "baseline_failure"
      [] root.phase = "b" -> "isolated_unit_failure"
      [] OTHER -> IF exc.reason = "unit_vulnerability_already_mitigated"
                  THEN "ambiguous_overlap" ELSE "cumulative_failure"

FailPhase ==
    LET noted == Adding(store, {Single(FailureRoot, "failure", "failed")})
        advanced == Persisting(noted, FailureState)
        stores == <<noted, advanced, Hashing(advanced)>>
    IN  /\ pc = "handler"
        /\ \/ /\ Writes(stores)
              /\ exc' = AsMendRuneError(exc, IF root.phase = "a" THEN "unexpected_internal_error"
                                             ELSE "unexpected_exception")
           \/ WriteFails(stores)
        /\ pc' = IF root.phase = "a" THEN "except" ELSE "cleanup"
        /\ UNCHANGED <<root, mem, found, combined, finishVars>>

-----------------------------------------------------------------------------
(* The finally clause of Phases B and C, and where it leads. *)

(* A mutant: one unit too many. *)
AfterPastTheLastUnit(e) ==
    IF e = NoException
    THEN IF root.phase = "b" THEN IF root.n <= Len(Order) THEN "open" ELSE "enter_c"
         ELSE "close"
    ELSE IF e = KeyboardInterrupt THEN "exit" ELSE "except"

After(e) ==
    IF e = NoException
    THEN IF root.phase = "b" THEN IF root.n < Len(Order) THEN "open" ELSE "enter_c"
         ELSE "close"
    ELSE IF e = KeyboardInterrupt THEN "exit" ELSE "except"

(* A mutant: the loop over the units does not go on to the next one. *)
SameUnit == IF pc' = "open" THEN Start(root) ELSE UNCHANGED <<root, step, found>>

NextUnit ==
    IF pc' = "open" THEN Start(At("b", root.n + 1)) ELSE UNCHANGED <<root, step, found>>

(* A mutant: the worktree is removed only when its unit has succeeded. *)
RemovedOnSuccess(w) ==
    IF w.work = "open" /\ exc = NoException THEN [w EXCEPT !.work = "removed"] ELSE w

Removed(w) == IF w.work = "open" THEN [w EXCEPT !.work = "removed"] ELSE w

RemoveWorktree ==
    /\ pc = "cleanup"
    /\ worktrees' = Removed(worktrees)
    /\ pc' = After(exc) /\ NextUnit
    /\ UNCHANGED <<mem, exc, store, tree, closed, combined, ran, faults>>

(* git worktree remove fails.  The failure replaces what was in flight,    *)
(* unless the campaign keeps failed workspaces.                            *)
FailWorktreeRemoval ==
    LET noted == Adding(store, {Single(IF root.phase = "b" THEN root ELSE PhaseC,
                                       "cleanup-failure", "failed")})
        stores == <<noted, Hashing(noted)>>
    IN  /\ pc = "cleanup" /\ CleanupMayFail /\ worktrees.work = "open"
        /\ worktrees' = [worktrees EXCEPT !.work = "uncertain"]
        /\ \/ /\ Writes(stores)
              /\ exc' = IF KeepFailedWorkspaces THEN exc ELSE MendRuneError("cleanup_uncertain")
           \/ WriteFails(stores)
        /\ pc' = After(exc') /\ NextUnit
        /\ UNCHANGED <<mem, tree, closed, combined, ran>>

(* PreflightRun.close, after Phase C or in the except of run_campaign. *)
Close ==
    /\ pc = "close" \/ (pc = "except" /\ ~closed)
    /\ closed' = TRUE
    /\ worktrees' = [worktrees EXCEPT !.baseline = "removed"]
    /\ IF pc = "close" THEN pc' = "verify" /\ mem' = "assembling_evidence" ELSE UNCHANGED <<pc, mem>>
    /\ UNCHANGED <<root, step, exc, store, tree, found, combined, ran, faults>>

FailClose ==
    /\ pc = "close" \/ (pc = "except" /\ ~closed)
    /\ CleanupMayFail
    /\ closed' = TRUE
    /\ worktrees' = [worktrees EXCEPT !.baseline = "uncertain"]
    /\ exc' = MendRuneError("cleanup_uncertain")
    /\ pc' = "except"
    /\ UNCHANGED <<root, step, mem, store, tree, found, combined, ran, faults>>

Cleanup == RemoveWorktree \/ FailWorktreeRemoval \/ Close \/ FailClose

-----------------------------------------------------------------------------
(* The except of run_campaign: _persist_terminal_failure keeps a failure   *)
(* state that is there, and classifies the reason otherwise.               *)
InfrastructureReasons ==
    {"rootless_required", "podman_unavailable", "runtime_unavailable", "runtime_unqualified",
     "image_digest_mismatch", "isolation_control_unavailable", "container_launch_failed",
     "cleanup_uncertain"}
InternalReasons ==
    {"illegal_state_transition", "unexpected_exception", "unexpected_internal_error",
     "atomic_write_failed"}

(* A mutant: the state is classified again. *)
TerminalFailureAgain(state, reason) ==
    IF reason \in InfrastructureReasons THEN "infrastructure_error"
    ELSE IF reason \in InternalReasons THEN "internal_error" ELSE "evidence_failure"

TerminalFailure(state, reason) ==
    IF state \in Failures THEN state
    ELSE IF reason \in InfrastructureReasons THEN "infrastructure_error"
    ELSE IF reason \in InternalReasons THEN "internal_error" ELSE "evidence_failure"

(* A mutant: persisting the state drops the outcome and the reason. *)
FailureRecordSwapped(s, state, reason) ==
    <<Recording(s, Run(state, state, reason)), Persisting(s, state),
      Hashing(Persisting(s, state))>>

(* _persist_failure_record, and the hashes that follow it. *)
FailureRecord(s, state, reason) ==
    <<Persisting(s, state), Recording(s, Run(state, state, reason)),
      Hashing(Recording(s, Run(state, state, reason)))>>

PersistTerminalFailure ==
    LET failure == AsMendRuneError(exc, "unexpected_exception")
        target == TerminalFailure(store.run.state, failure.reason)
        stores == FailureRecord(store, target, failure.reason)
    IN  /\ pc = "except" /\ closed
        /\ \/ Writes(stores) /\ Leave(failure)
           \/ WriteFails(stores) /\ pc' = "exit"
        /\ UNCHANGED <<root, mem, found, combined, finishVars>>

-----------------------------------------------------------------------------
(* _accept_campaign. *)
RecordKinds ==
    {"check", "integrity", "result", "patch", "initial-integrity", "final-integrity", "record"}

(* _verify_final_evidence: the records are exactly those expected and have *)
(* passed, so have the comparisons, and every manifest is complete.        *)
EvidenceComplete(s) ==
    /\ {f \in s.files : f.holds \in RecordKinds} = ExpectedFiles
    /\ {Single(Inputs, "inputs", "passed"), Single(Final, "combined", "none"),
        Single(Final, "supplied-series", "none")} \subseteq s.files
    /\ \A r \in Roots \ {PhaseA} : Single(r, "scan-comparison", "passed") \in s.files
    /\ \A r \in Roots : s.manifest[r] = "complete"

acceptVars == <<root, step, mem, tree, worktrees, closed, found, combined, ran>>

VerifyEvidence ==
    /\ pc = "verify"
    /\ store.run.state = "assembling_evidence"
    /\ EvidenceComplete(store) /\ store.hashes.valid
    /\ pc' = "verdict"
    /\ UNCHANGED <<exc, store, faults, acceptVars>>

RejectEvidence ==
    /\ pc = "verify"
    /\ \/ /\ store.run.state # "assembling_evidence" \/ ~EvidenceComplete(store)
          /\ exc' = MendRuneError("required_check_missing")
       \/ /\ store.run.state = "assembling_evidence" /\ EvidenceComplete(store)
          /\ ~store.hashes.valid /\ exc' = MendRuneError("artifact_hash_mismatch")
    /\ pc' = "withdraw"
    /\ UNCHANGED <<store, faults, acceptVars>>

(* The writes of the acceptance, one after the other. *)
AcceptanceWrite(at, next, s) ==
    /\ pc = at
    /\ \/ Writes(<<s>>) /\ pc' = next /\ UNCHANGED exc
       \/ WriteFails(<<s>>) /\ pc' = "withdraw"
    /\ UNCHANGED acceptVars

Verdict == Single(Final, "verdict", "none")
Report == Single(Final, "report", "none")
AcceptedRun == Run("accepted", "accepted", "all_required_checks_passed")

WriteVerdict == AcceptanceWrite("verdict", "report", Adding(store, {Verdict}))
WriteReport == AcceptanceWrite("report", "accept", Adding(store, {Report}))
PersistAccepted == AcceptanceWrite("accept", "outcome", Persisting(store, "accepted"))
RecordOutcome == AcceptanceWrite("outcome", "seal", Recording(store, AcceptedRun))
(* A mutant: the hashes are not written again after the outcome. *)
SealAcceptanceUnhashed == AcceptanceWrite("seal", "exit", store)

SealAcceptance == AcceptanceWrite("seal", "exit", Hashing(store))

(* The verdict is removed, and the report stays; a mutant of Withdrawn. *)
WithdrawnVerdict(s) == [s EXCEPT !.files = @ \ {Verdict}]

Withdrawn(s) == [s EXCEPT !.files = @ \ {Verdict, Report}]

(* The except of _accept_campaign: verdict and report are removed, and the *)
(* run is an evidence failure.  An unlink may fail as a write may, and     *)
(* nothing after it is done.  There is no link by then: the hashes of the  *)
(* final verification were written.                                        *)
WithdrawAcceptance ==
    LET removed == Withdrawn(store)
        failure == AsMendRuneError(exc, "provenance_incomplete")
        record == FailureRecord(removed, "evidence_failure", failure.reason)
    IN  /\ pc = "withdraw"
        /\ \/ Writes(record) /\ exc' = failure
           \/ /\ faults < MaxStoreFaults /\ faults' = faults + 1
              /\ \/ store' \in {store, WithdrawnVerdict(store)} /\ exc' = OtherError
                 \/ store' \in {removed, record[1], record[2]} /\ exc' \in StoreExceptions
        /\ pc' = "except"
        /\ UNCHANGED acceptVars

Accept ==
    \/ VerifyEvidence \/ RejectEvidence
    \/ WriteVerdict \/ WriteReport \/ PersistAccepted \/ RecordOutcome \/ SealAcceptance
    \/ WithdrawAcceptance

-----------------------------------------------------------------------------
(* The process is killed, or the machine stops. *)
Kill ==
    /\ pc \notin {"exit", "killed"}
    /\ pc' = "killed"
    /\ UNCHANGED <<exc, store, faults, acceptVars>>

Ended == pc \in {"exit", "killed"} /\ UNCHANGED vars

Step == Prepare \/ Enter \/ Command \/ Patch \/ Finish \/ FailPhase
            \/ Cleanup \/ PersistTerminalFailure \/ Accept

Next == Step \/ Kill \/ Ended

(* Every call of the program returns: commands have a timeout, git and     *)
(* Podman calls too, and the controller is a single sequential process.    *)
Fairness == WF_vars(Step)

Spec == Init /\ [][Next]_vars /\ Fairness

-----------------------------------------------------------------------------
(* cli.py: the exit code of `run`. *)
ExitCode ==
    IF exc = NoException THEN 0
    ELSE IF exc.class = "configuration" THEN 2
    ELSE IF exc.class = "other" THEN 5
    ELSE IF exc.reason \in InfrastructureReasons THEN 4
    ELSE IF exc.reason \in InternalReasons THEN 5 ELSE 3
=============================================================================

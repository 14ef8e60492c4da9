------------------------- MODULE CampaignProperties -------------------------
(***************************************************************************)
(* What must hold of run_campaign, whatever the commands, git, the disk    *)
(* and the operator do.                                                    *)
(***************************************************************************)
EXTENDS Campaign

FilesHold == {"check", "integrity", "result", "patch", "initial-integrity", "final-integrity",
              "inputs", "scan-comparison", "failure", "cleanup-failure", "combined",
              "supplied-series", "verdict-prep", "verdict", "report", "record", "link"}
Statuses == {"passed", "failed", "none"}
Dirt == {"none", "generated", "tampered"}
WorktreeStates == {"none", "open", "removed", "uncertain"}
Places ==
    {"start", "preflight", "capture", "open_baseline", "enter_a", "enter_b", "enter_c", "open",
     "run", "assemble", "handler", "cleanup", "close", "except", "verify", "verdict", "report",
     "accept", "outcome", "seal", "withdraw", "exit", "killed"}

(* The parts of the state: the run store, the exception in flight, a       *)
(* worktree, and the findings.                                             *)
StoreOK(s) ==
    /\ DOMAIN s = {"files", "manifest", "run", "hashes"}
    /\ \A f \in s.files : /\ f.root \in Roots \cup {PhaseC, Inputs}
                          /\ f.holds \in FilesHold /\ f.status \in Statuses
    /\ s.manifest \in [Roots -> {"none", "complete", "stale"}]
    /\ s.run.state \in RunStates \cup {"none"} /\ s.run.outcome \in TerminalStates \cup {"none"}
    /\ s.hashes \in [valid : BOOLEAN, covers : BOOLEAN]

ExceptionOK(e) == e.class \in {"none", "mendrune", "configuration", "other", "interrupt"}

TreeOK(t) == DOMAIN t = {"patches", "dirt"} /\ t.dirt \in Dirt

FindingSets == [ToSet(Scans) -> [Rules -> 0..MaxRank]]

(* The state of run_campaign is one the code can hold: every root is one   *)
(* of the campaign's, every file belongs to one, and every state is one of *)
(* state.py.                                                               *)
TypeOK ==
    /\ pc \in Places
    /\ root \in Roots /\ step \in Nat \ {0}
    /\ mem \in ActiveStates
    /\ ExceptionOK(exc) /\ StoreOK(store) /\ TreeOK(tree) /\ TreeOK(combined)
    /\ worktrees \in [baseline : WorktreeStates, work : WorktreeStates]
    /\ closed \in BOOLEAN
    /\ found \in [baseline : FindingSets, previous : FindingSets, current : FindingSets]
    /\ faults \in 0..MaxStoreFaults

-----------------------------------------------------------------------------
SaysAccepted(s) ==
    s.run.state = "accepted" \/ s.run.outcome = "accepted" \/ Verdict \in s.files

Accepted == SaysAccepted(store)
Returned == pc = "exit"
Succeeded == Returned /\ exc = NoException
Failed == Returned /\ exc \notin {NoException, KeyboardInterrupt}

(* The checks that really were executed, ended as they have to, and left   *)
(* the source tree as it was, named as _verify_final_evidence names them.  *)
Passed(c) == c.end = "zero" /\ c.answer = Wanted(c.root, c.kind) /\ c.intact

CheckOf(c) ==
    File(c.root, c.seq, c.kind, c.id, IF c.kind = "patch" THEN "patch" ELSE "check", "passed")

PassedChecks == {CheckOf(c) : c \in {d \in ran : Passed(d)}}

RequiredChecks == {f \in ExpectedFiles : f.holds \in {"check", "patch"}}

(* No verdict is written and no accepted state persisted unless every      *)
(* patch and command of the frozen schedule was executed and passed: what  *)
(* _accept_campaign concludes from the files is true of the execution.     *)
AcceptanceIsEarned == Accepted => RequiredChecks \subseteq PassedChecks

PatchesOf(us) ==
    FlattenSeq([j \in 1..Len(us) |-> [i \in 1..Len(Patches[us[j]]) |-> <<us[j], Patches[us[j]][i]>>]])

(* The patches of the n-th unit applied once its first `count` items ran.  *)
UnitPatches(n, count) ==
    SubSeq(PatchesOf(<<Order[n]>>), 1, IF count < Len(Patches[Order[n]]) THEN count
                                       ELSE Len(Patches[Order[n]]))

ComposedAt ==
    [r \in Roots |-> [seq \in 1..Len(ItemsOf[r]) |->
        CASE r.phase = "a"     -> <<>>
          [] r.phase = "b"     -> UnitPatches(r.n, seq)
          [] r.phase = "c"     -> PatchesOf(Applied(r.n - 1)) \o
                                  UnitPatches(r.n, IF seq <= Len(Vulns[Order[r.n]]) THEN 0
                                                   ELSE seq - Len(Vulns[Order[r.n]]))
          [] r.phase = "final" -> PatchesOf(Order)]]

(* Every command runs in the tree its phase is about: the base commit in   *)
(* Phase A, one unit alone in Phase B, the units so far in Phase C, all of *)
(* them, in composition order, in the final verification.                  *)
ChecksRunOnTheRightTree == \A c \in ran : c.patches = ComposedAt[c.root][c.seq]

(* A unit's patch is applied to the cumulative tree only after every       *)
(* vulnerability of the unit was reproduced there, before any patch of it. *)
OverlapIsCheckedFirst ==
    \A c \in ran : c.root.phase = "c" /\ c.kind = "patch" =>
        \A v \in ToSet(Vulns[Order[c.root.n]]) :
            \E o \in ran : /\ o.root = c.root /\ o.kind = "preapply" /\ o.id = v
                           /\ o.answer = "vulnerable"
                           /\ o.patches = PatchesOf(Applied(c.root.n - 1))

(* The combined diff of an accepted run is the delta of the verified tree: *)
(* all patches in composition order, without generated files or changes    *)
(* made by a command.                                                      *)
CombinedIsComposed ==
    Accepted => combined = [patches |-> PatchesOf(Order), dirt |-> "none"]

(* Comparing each stage with the one before it is as good as comparing the *)
(* last with Phase A: a finding at or above the threshold in the final     *)
(* scan of an accepted run was there before any patch, at least as severe. *)
NoNewSevereFinding ==
    Accepted => \A s \in ToSet(Scans), x \in Rules :
        found.current[s][x] >= Threshold => found.baseline[s][x] >= found.current[s][x]

(* Complete evidence is refused for two reasons only: the record of a      *)
(* worktree that Phase B could not remove, or a file elsewhere that looks  *)
(* like a record.  The numbers that _verify_final_evidence expects are     *)
(* those that execution used.                                              *)
EvidenceIsRefusedForCause ==
    exc.reason \in {"required_check_missing", "artifact_hash_mismatch"} =>
        \E f \in store.files : \/ f.holds = "cleanup-failure" /\ f.root.phase = "b"
                               \/ f.holds = "record"

(* A campaign that returned a verdict left a record that says the same and *)
(* hashes that cover and match everything on disk.                         *)
SuccessIsSealed ==
    Succeeded => /\ store.run = AcceptedRun /\ {Verdict, Report} \subseteq store.files
                 /\ Hashed(store)

(* A campaign that failed leaves a verdict or a report only if a write of  *)
(* the acceptance and then its removal failed.  In that case run.yaml says *)
(* that it failed, unless a third call failed.                             *)
LeftVerdictIsContradicted ==
    Failed /\ {Verdict, Report} \cap store.files # {} =>
        /\ faults >= 2
        /\ faults = 2 => store.run.state \in Failures /\ store.run.outcome = store.run.state

(* As long as the run store can be written, every failure after preflight  *)
(* is recorded: a failure state and the same outcome and, unless a command *)
(* left a link in its output directory, the reason the caller saw and      *)
(* hashes of all of it.                                                    *)
FailureIsRecorded ==
    Failed /\ worktrees.baseline # "none" /\ faults = 0 =>
        /\ store.run.state \in Failures /\ store.run.outcome = store.run.state
        /\ Linked \/ (store.run.reason = exc.reason /\ Hashed(store))

(* No run ends with a worktree that nobody tried to remove. *)
WorktreesAreReclaimed ==
    Returned /\ exc # KeyboardInterrupt =>
        worktrees.baseline # "open" /\ worktrees.work # "open"

-----------------------------------------------------------------------------
(* transition never raises: whatever the caller's copy of the state is,    *)
(* each _advance goes to a legal successor of it.                          *)
AdvancesAreLegal ==
    [][pc \notin {"start", "except", "withdraw"} /\ store'.run.state # store.run.state
          => Legal(mem, store'.run.state)]_vars

(* A failure state, once persisted, is never replaced by another state:    *)
(* later failures of cleanup or of recording keep the first diagnosis.     *)
FailureIsFinal ==
    [][store.run.state \in Failures => store'.run.state = store.run.state]_vars

-----------------------------------------------------------------------------
(* The campaign implements its promise: performed are the required checks  *)
(* that were really executed, and the verdict is what the caller sees.     *)
AnswerToCaller ==
    CASE pc = "killed" \/ (Returned /\ exc = KeyboardInterrupt) -> "abandoned"
      [] Succeeded -> "accepted"
      [] Failed    -> "rejected"
      [] OTHER     -> "pending"

Promise == INSTANCE Acceptance WITH
    Required <- RequiredChecks,
    performed <- RequiredChecks \cap PassedChecks,
    verdict <- AnswerToCaller

(* Every campaign keeps the promise of Acceptance, its termination         *)
(* included.                                                               *)
KeepsPromise == Promise!Spec

-----------------------------------------------------------------------------
(* What the documents say and the code does not do. *)

(* SPECIFICATION.md: a crash, a timeout or a malformed result is never     *)
(* evidence of mitigation, so an overlap is one an oracle has observed.    *)
OverlapWasObserved ==
    store.run.state = "ambiguous_overlap" =>
        \E c \in ran : c.kind = "preapply" /\ c.answer = "mitigated"

(* SPECIFICATION.md: a campaign is accepted if and only if all its checks  *)
(* have passed and no infrastructure or internal error remains.            *)
PassingCampaignIsAccepted ==
    Failed /\ faults = 0 /\ worktrees = [baseline |-> "removed", work |-> "removed"] =>
        \/ ~(RequiredChecks \subseteq PassedChecks)
        \/ \E r \in Roots \ {PhaseA} : Single(r, "scan-comparison", "passed") \notin store.files

(* SPECIFICATION.md: terminal states never transition. *)
TerminalStatesNeverTransition ==
    [][store.run.state \in TerminalStates => store'.run.state = store.run.state]_vars

(* run_campaign: an uncertain workspace must never be accepted. *)
UncertainWorkspaceIsNotAccepted ==
    Succeeded => worktrees.work # "uncertain" /\ worktrees.baseline # "uncertain"

(* errors.py: a ConfigurationError is raised before untrusted execution.   *)
ConfigurationErrorsPrecedeExecution == Returned /\ ExitCode = 2 => ran = {}
=============================================================================

# MendRune in TLA+

MendRune decides whether a series of vulnerability patches, grouped in *units*, may be accepted: it
runs builds, regressions, vulnerability oracles and scanners in containers, first on the base commit
(Phase A), then on each unit alone (Phase B), then on the units added one after the other (Phase C),
then once more on all of them (final verification), and accepts the campaign only if the evidence of
all of that is complete. The verdict matters, so a wrong verdict is what this project is about: one
given without the checks, one withdrawn half-way, one that no longer matches what is on disk.

Paths below are those of `src/src/mendrune/`; *SPEC* is `src/SPECIFICATION.md`. Line-by-line
correspondence is in the `map` of `PROJECT.json`; this file explains the parts and the checks.

## 1. Inventory of the system

The controller is one sequential Python process. The only concurrency in it are the two reader threads of
a running command (`executor.py`) and the world outside: the container, git, the file system under the
inputs, the operator's Ctrl-C, and the host.

| component | state it keeps | operations | what makes it correct |
|---|---|---|---|
| `orchestrator.py` | the caller's copy of the run state, the root and sequence number it is at, the exception in flight, findings of the previous stage and of Phase A | `prepare_preflight`, `execute_phase_a/b/c`, `_execute_final_verification`, `_accept_campaign`, their `except` and `finally` clauses | no verdict that was not earned; every failure recorded with its reason; worktrees removed; termination |
| `state.py` | none (a table) | `transition` | the advances that the phases make are in the table; terminal states stay |
| `runstore.py` | `run.yaml`, records, manifests, `hashes.yaml` | atomic writes, `write_hash_manifest` | a reader never sees half a record; hashes cover what is there |
| `repository.py` | worktrees, git's registration of them, the tree a command has touched | `Worktree.create`, `apply_patch`, `snapshot`, `verify_integrity`, `remove` | checks run on the tree they are about; a command's changes do not reach the diff |
| `executor.py` | a process, two reader threads and their buffers, the container | `preflight`, `execute` | a result is that of an ended container; nothing survives unnoticed; it always returns |
| `oracle.py` | none | `evaluate_oracle_result` | only a well-formed answer of this run counts |
| `scanner.py` | none | normalise, fingerprint, `compare_findings` | no finding at or above the threshold gets in |
| `regression.py` | none | the two selections | every accumulated regression is run at each stage |
| `verify.py`, `config.py`, `models.py` | none | load and validate a campaign | what the orchestrator takes for granted holds |
| `storage.py`, `paths.py` | the frozen copy of the inputs | inventory, capture | the copy is what was verified |
| `patches.py`, `policy.py` | none | parse diffs, `locate_hunks`, match path patterns | hunks are found where they belong; a path that a policy protects matches |
| `goose.py` | none | ask an external agent for an adapted patch | the answer is used only after the same checks |
| `reporting.py`, `cli.py`, `errors.py` | none | reports, exit codes, reason codes | the exit code says what happened |

How they interact: `cli` calls `run_campaign`, which calls everything else directly and synchronously.
Results come back as return values or as exceptions that pass through up to eight nested
`except`/`finally` clauses, each of which may write to the run store, fail in doing so, and replace the
exception it was handling. The run store is the only shared state: the phases write it, the acceptance
reads it back, and a later `status`, `report` or `verify` reads what is left.

The hard behaviours are therefore these:

- **Failures in handlers.** A command fails, its integrity check fails in the `finally`, the record of
  the failure cannot be written, the worktree cannot be removed; four exceptions, one diagnosis.
- **Two copies of a state.** The run state lives in a local variable and in `run.yaml`; the findings of
  "the previous stage" and of Phase A are two variables that have to move at the right time.
- **Two descriptions of one schedule.** Loops execute the checks and give them sequence numbers;
  `_verify_final_evidence` computes the same numbers again from the configuration.
- **Stale hashes.** Every write makes `hashes.yaml` stale until it is written again.
- **Interrupts and kills**, between any two writes.
- **Races with the outside**: inputs that change while they are copied, output that arrives after a
  timeout, a process that outlives its command.

`PROJECT.json` lists 40 hazards, each at the line where it bites.

## 2. Modules

| module | what it is |
|---|---|
| `RunState` | `state.py`: states, the table `Allowed`, `Legal` |
| `Schedule` | the campaign as constants; the checks each root executes (`ItemsOf`, from the loops of the phases) and the records that must exist (`ExpectedFiles`, from `_verify_final_evidence`), translated apart because the code computes them apart |
| `Campaign` | `run_campaign` as a state machine of 44 actions |
| `Acceptance` | what a campaign promises its caller: perform the required checks, give one verdict once, accept only with all of them, always end |
| `CampaignProperties` | the properties of `Campaign`, and the mapping under which it implements `Acceptance` |
| `MCCampaign` | the instance that TLC checks |
| `CampaignProofs`, `CampaignOutcomeProofs`, `CampaignEvidenceProofs` | theorems for every campaign: acceptance and findings; what `Schedule` computes and how campaigns end; what runs where and what is recorded of it |
| `Executor` | `executor.execute`: the executing thread, the two readers, the Podman client and the container |
| `CommandCheck` | a command followed by the integrity check of `_run_isolated_command`, entry by entry |
| `Execution` | what executing a command promises: it ends, and unless it says it does not know, nothing of it is left |
| `ExecutorProperties`, `MCExecutor`, `ExecutorProofs` | properties, instance, theorems |
| `Capture` | `prepare_preflight` from the first read of the campaign to the manifests, while somebody edits the inputs |
| `Snapshot` | what capturing evidence promises: each file as it was at one moment, all of them or none |
| `MCCapture`, `CaptureProofs` | instance, theorems |
| `RunRecords` | `_accept_campaign` and its handlers writing records through temporary files, with kills, power loss, and `report` reading |
| `RunRecordsProofs` | theorems |
| `Scanner`, `PathPolicy`, `Hunks`, `Config` | the pure parts: findings, path patterns, diffs and hunks, the validators of a campaign |
| `MCAlgorithms` | their inputs within bounds, and what each is compared with |
| `AlgorithmProofs`, `PathProofs` | theorems about findings, campaigns, diffs and hunks; about path patterns; for inputs of any size |

`Campaign` EXTENDS `Schedule` and `RunState`; `CampaignProperties` EXTENDS `Campaign` and INSTANCEs
`Acceptance`; `MCCampaign` and `CampaignProofs` extend `CampaignProperties`, and each of the three modules of
proofs the one before it. `CommandCheck` EXTENDS
`Executor` and adds the tree and its check to every step of it; `ExecutorProperties` EXTENDS
`CommandCheck` and INSTANCEs `Execution`; `Capture` INSTANCEs `Snapshot`; `MCAlgorithms` INSTANCEs the pure
parts, `AlgorithmProofs` extends it, and `PathProofs` extends that.

How the levels fit together: `Campaign` takes the whole of `execute` as one choice among the outcomes
`zero nonzero timeout launch uncertain escape`, which are the outcomes of `Executor`; `Execution` is what
`Campaign` may rely on. `CheckedTreeStays` is why `Campaign` may let a command change the tree only while
it runs. `Campaign` takes a capture as one action with two outcomes, `Capture` shows what the first of
them means. `Campaign` has a record that is there or not, `RunRecords` shows that a write gives no third
case. `Config` shows that what `Schedule` assumes of its constants is what the validators enforce.

### How `Campaign` corresponds to the code

A *root* is a directory of the run store that a phase fills: `phase-a`, `phase-b/<unit>`,
`phase-c/stages/<n>-<unit>`, `final`. Each root executes a sequence of *items* (patches and commands);
the j-th item has sequence number j. `step` is the next one.

| variable | in the code |
|---|---|
| `pc` | which function or clause `run_campaign` is in (`run` = in the loop over items, `handler` = the `except` of a phase, `cleanup` = the `finally` of Phases B and C, `except` = that of `run_campaign`, `withdraw` = that of `_accept_campaign`) |
| `root`, `step` | the `VerificationRoot` at hand and its sequence counter |
| `mem` | the local variable `state` |
| `exc` | the exception being raised: its class, and the reason code of a `MendRuneError` |
| `store` | the run directory: the files, per root whether `manifest.yaml` lists all of it, `run.yaml`, and whether `hashes.yaml` matches and covers everything |
| `tree`, `combined` | the worktree commands run in, and the one `combined.diff` was taken from: patches applied, and whether commands left allowed generated files or a real change |
| `worktrees`, `closed` | the baseline and the working worktree; `PreflightRun._closed` |
| `found` | findings of this root, of the previous stage, of Phase A: a rank per scanner and identity, 0 if absent |
| `ran` | history, not in the code: every patch and command that was executed, how it really ended, on which tree |
| `faults` | history: failed writes so far |

Actions are grouped as the code is. `Prepare`: `prepare_preflight`. `Enter`: the start of a phase,
`Worktree.create`. `Command`: `_run_command` and `_run_isolated_command` with the oracle and scanner
loops around them; one action is one command, from its launch to the records it leaves or to the exception
that leaves it, because nothing else in the process can act in between (Ctrl-C in it is `Interrupt`).
`Patch`: `apply_patch` and the advances inside a stage. `Finish`: the tail of a root (scan comparison,
manifest, hashes, the next advance), of the final verification, and the preparation of the verdict.
`FailPhase`, `Cleanup`, `PersistTerminalFailure`: the `except` and `finally` clauses. `Accept`:
`_accept_campaign`, one action per write. `Kill` stops the process anywhere.

Writes are modelled as lists of stores (`Writes`, `LosesOneOf`): either all happen, or one fails and
exactly those before it have happened, and the exception the code raises for it is in flight. A link
that a command has left in its output directory makes every later `write_hash_manifest`, and a manifest
of its root, raise (`MeetsLink`).

### How the other models correspond to the code

`Executor`: `pc` is the statement of `execute` that is next (`launch`, `readers`, the three waits, `stop`,
`join`, `rm`, `decide`). `client` is the `podman run` process and `code` its returncode; `box` is the
container. A pipe is `written` bytes, of which `total` have been read; `data` is what `_Capture` keeps, a
byte being known by its number. Every wait may expire at any time, every `podman` command may fail having
done its work or not, `held` stands for another process that has inherited the pipes, Ctrl-C comes at any of the waits and
in the `finally`.

`CommandCheck`: `tree` says of every entry whether it is as before the command; a container that runs
may change any of them and change it back; `seen` is the second snapshot so far.

`Capture`: `campaign`, `patchFile`, `recipe` are the files as they are now, each a version; `source` is an
evidence file as blocks, kind, executable bit, and a stamp that stands for inode and mtime; `original`,
`config`, `inventory`, `recipeDigest`, `before`, `chunks` are the locals of the same names; `input` is the
run's input directory. `went` and `reverted` are history.

`RunRecords`: `stage` and `step` say which list of writes is being executed, and which of them; `temp`
is the temporary file, `dir` the directory as processes see it, `disk` what outlives a loss of power; a file has so
many blocks, some of them synced. `reader`, `began`, `shown` are one invocation of `report`, whose first half is `status`.

`Scanner`, `PathPolicy`, `Hunks`, `Config` have an operator or a recursive function per function of the code, under its
name. A path and a pattern are sequences of characters, a diff is a sequence of lines whose kind is their first
character.

### What was abstracted

Contents of files are reduced to what the code tells apart later: their root, sequence number, kind,
what they hold, their status. Trees are the patches applied plus a degree of dirt. A finding is an identity with a
rank, one per scan. In `Campaign`, capturing the inputs, and the whole of `execute`, are one atomic choice of outcome.
An interrupt comes only while a command runs, where nearly all of the time is spent; an interrupt
between two writes leaves the disk as `Kill` there does. At most one stray file is left per run.

`Hunks`: a header is a prefix, a path and perhaps a rest, which `_parse_header_path` (`patches.py:248`) drops: all that follows the first
blank or tab. The path is what `PurePosixPath` makes of it. Files that are created or deleted are refused, as they are by default.

`Capture`: a change of content changes inode or mtime (nobody sets the time back), a `chmod` changes
neither; that the campaign file may be changed and changed back unnoticed is in the model, and
`FrozenIsVerified` says so with its condition. The limits on evidence (number, size, total) and the campaign's budget
of lines are left out, and so is the text of an adapted patch. The removal of a partial copy
(`shutil.rmtree(ignore_errors=True)`, `storage.py:74`) always succeeds.
`RunRecords`: documents are names, and hashes match whatever they were taken of (`mc_store` has the stale ones).
`Hunks`: hunks without an old side are parsed but not placed (see section 6).

## 3. The runs

The instance of `Campaign` has two units, declared in the order u1, u2 and composed in the order u2, u1,
with a vulnerability and a patch each; only u2 has a regression of its own; there is one shared
regression and one scanner with one identity. Two units are enough for everything the phases distinguish:
a first, an intermediate and a last stage, a prior and a current vulnerability, a declaration order that
is not the composition order, accumulated regressions that differ from the unit's own.

| run | configuration | states | what it asks |
|---|---|---|---|
| `mc_campaign` | every way to end (`zero nonzero timeout launch uncertain escape`), every effect on the tree, links in outputs, cleanup may fail, ranks 0..2 with threshold 2, no failed writes | 122 336 | what every check runs on, what is compared, what a failure leaves behind, and that every campaign ends with the verdict it has earned |
| `mc_store` | any two calls on the run store fail, writes and removals, in the whole run; commands pass or fail, or delete a tracked file; cleanup may fail; failed workspaces are kept | 515 725 | whether the acceptance, the failure records and the cleanup survive a fault in any of their steps; whether evidence that is complete is ever refused, other than for a stray file that is taken for a record |
| `mc_executor` | a limit of 3 bytes, chunks of 2, up to 4 bytes per stream, a tree of two entries | 1 167 732 | what the result of a command says about its container, its output, its exit code and the tree |
| `mc_capture` | two patches, one of them adapted, two evidence files of up to two blocks, two versions of each file, two edits | 258 468 | whether what is kept is what was verified |
| `mc_run_records` | documents of two blocks, three failed calls (writes, removals, hashes) | 157 239 | what a reader may see of a run that ends, fails, is killed or loses power |
| `mc_algorithms` | up to three findings; diffs of two hunks with bodies of up to two lines, each with a line removed or added, or with a name or a timestamp after the path of a header; files of up to nine lines; patterns and paths of up to three components; two units | 307 073 | whether the pure parts compute what they are for |
| `overlap_observed`, `terminal_final`, `uncertain_workspace`, `exit_code`, `passing_refused`, `interrupted` | as above | | statements of the documents that the code does not keep (section 6) |

The properties, by what could go wrong:

- `AcceptanceIsEarned`: no verdict and no accepted state on disk, not even for an instant or after a kill,
  unless each required check really was executed, ended with zero, gave the wanted answer and left the
  tree alone. The left side is about files, the right side about the history `ran`.
- `ChecksRunOnTheRightTree`, `OverlapIsCheckedFirst`: what ran ran on the base, the unit, the prefix of
  the composition, the whole; and no patch of a unit is applied to the cumulative tree before each of its
  vulnerabilities was reproduced there.
- `CombinedIsComposed`: the published delta is that of all patches in order and nothing else.
- `NoNewSevereFinding`: the code compares neighbours only; the property compares the ends.
- `EvidenceIsRefusedForCause`: the two descriptions of the schedule agree. A record of a failed cleanup in a passing
  unit (`orchestrator.py:468`) is a cause like a stray file: that such a campaign is refused is how the code is, and the property
  documents it.
- `SuccessIsSealed`, `FailureIsRecorded`, `WorktreesAreReclaimed`: what is left on disk when the caller has its answer.
  `FailureIsRecorded` is about a run store that works, and excuses links in outputs; failed writes are for `FailureIsFinal`.
- `LeftVerdictIsContradicted`: the handler of the acceptance calls `unlink` twice, and a file system that refuses a write may refuse
  that too. So a failed campaign may have a verdict or a report on disk; the property says that this takes two failed calls, and that with two
  the record beside it names a failure. With a third failed call `run.yaml` may say `accepted` beside the verdict.
- `AdvancesAreLegal`, `FailureIsFinal`: about single steps; `transition` never raises, and a diagnosis is not
  replaced by a later one.
- `NothingRunsOn`, `ZeroIsTheCommands`: after a timeout, `podman stop`, the second wait, `kill` and `podman rm` race the
  command's own exit; a result still means that the container is gone, and zero that the command ended by itself.
- `OutputIsWhole`: two threads append while a third one waits for them with a timeout, and the limit falls into a chunk.
- `CheckedTreeStays`: the check reads entry by entry; what makes it valid is that execute knows the container to be gone.
- `KeepsExecution`: `CommandCheck` implements `Execution`, so `execute` ends, whatever hangs. It may end with an exception that is no
  `MendRuneError` (`escape`: the wait after `kill` expires, a thread cannot be started); then nothing is promised of the container.
- `FrozenIsVerified`, `PatchesAreAsVerified`: between verification and freezing every file is read at least twice.
- `EvidenceIsWholeOrGone`, `KeepsSnapshot`: a file that changes while it is copied is detected or copied as it was at one moment.
- `RecordsAreWhole`: no kill, failed write or loss of power leaves, under its own name, a part of a record. Of the temporary files
  that are left beside it it says nothing.
- `VerdictShownIsFinal`: the handlers withdraw the verdict before they record the failure, so whoever asks after the end is
  told what the caller was told; a verdict that could not be removed is shown beside a recorded failure, unless a third call failed.
- `NormalisationKeepsTheWorst`, `ComparisonMissesNothing`: no duplicate hides a severe finding.
- `ParsedOrRefused`: rendering what the parser returns gives back the diff, but for what follows the paths of its headers, which is
  dropped and of which no property says that it may be (section 6); `DiffsApplyWhereTheySay`, `MovedDiffsApply`: hunks end where
  they belong, on the file the diff was made from and on one that has moved, where each old side is found once.
- `PatternsAreOfComponents`, `GeneratedAreSeparate`: patterns mean what a component-wise reading says, and a generated path
  below a directory is never one that a patch changes.
- `AcceptedIsRunnable`, `EvidenceIsKeptApart`: what the phases take for granted of a campaign is what the validators accept.
- `KeepsPromise`: `Campaign` implements `Acceptance`, liveness included. `performed` is refined by the
  required checks in `ran`, `verdict` by what the caller sees.

**Bounds.** `MaxRank` bounds severities; 2 with threshold 2 gives absent, below and at the threshold, all
that `Passes` tells apart, and a second rank so that a severity can rise. `MaxStoreFaults` bounds failed
calls on the run store; with 2, each of them fails in some run, and with it each call of the handlers that it leads to, so that a write and then
the removal of the verdict fail; the proofs hold for any number. One stray
file, since a second one is refused, or breaks the hashes, in the same places.
`mc_store` uses one rank and fewer ends, because it asks about writes and records and
`mc_campaign` covers the ends.

`Limit`, `Chunk`, `MaxBytes`: with 3, 2 and 4 a stream ends below, at and beyond the limit and the limit falls into a chunk;
the proofs hold for any. `MaxEdits` = 2 is a change and a change back, or two files; `MaxSize` = 2 puts an edit before, between and
after the blocks. `MaxFaults` = 3 in `RunRecords` lets a call of the acceptance and of each of its two handlers fail, a removal among them; `Blocks` = 2 makes a torn file
possible. The bounds of `mc_algorithms` make each case of the code occur (two hunks so that an offset is carried, three
components so that `**` stands at the beginning, in the middle and at the end, three findings so that two duplicates meet
another identity).

**Fairness.** In `Campaign`, weak fairness of `Step`, all the controller does. The controller is a single process that never waits
for itself: commands have a timeout, and the calls to Podman and git return. Nothing is assumed of `Kill`,
of the outcome of a command, or of which of two outcomes comes. Deadlock is checked in its runs; a
campaign that has ended stutters (`Ended`).

In `Executor`, weak fairness of `Main`, the executing thread: each of its waits has a timeout (`process.wait`, the joins,
`subprocess.run`). Nothing is assumed of the readers, the client or the container, which may all hang. In `Capture`, weak
fairness of `Program`, which only reads and writes files; nothing of the editor. In `RunRecords`, weak fairness of `Writer`; its
properties are safety and do not use it. These three systems really stop, so their runs do not
check for deadlock: a command, a capture and a run end, and an editor may have nothing left to change.

## 4. What is proved

`CampaignProofs`, `CampaignOutcomeProofs` and `CampaignEvidenceProofs` prove, for every campaign, any number of failed writes
and any bound:

| theorem | statement |
|---|---|
| `TypeCorrect` | `Spec => []TypeOK` |
| `EarnedInvariant`, `AcceptedOnlyIfEarned` | `Spec => []EarnedInv`, hence `Spec => []AcceptanceIsEarned` |
| `FindingsInvariant`, `AcceptedAddsNoSevereFinding` | `Spec => []FindingsInv`, hence `Spec => []NoNewSevereFinding` |
| `PlacesInvariant`, `WorktreesReclaimed` | `[](ExceptionsFollow /\ WorktreesFollow)`, hence `[]WorktreesAreReclaimed` |
| `VerdictInvariant`, `SuccessSealed`, `FailureContradictsVerdict` | `[](LinksFollow /\ VerdictFollows /\ SealFollows)`, hence `[]SuccessIsSealed` and `[]LeftVerdictIsContradicted` |
| `FailureRecorded` | `[]FailureIsRecorded` |
| `FailuresInvariant`, `FirstFailureIsKept` | `[]FailuresAreLate`, hence the action property `FailureIsFinal` |
| `StatesInvariant`, `EveryAdvanceIsLegal` | `[](MemFollows /\ StagesFollow)`, hence the action property `AdvancesAreLegal` |
| `CampaignKeepsPromise` | initial states and steps of `Acceptance` under the refinement mapping (its liveness stays with TLC) |
| `TreeInvariant`, `ChecksRightlyPlaced` | `[]TreeFollows`, hence `[]ChecksRunOnTheRightTree` |
| `OverlapIsLookedFor`, `CombinedIsTheComposition` | `[]OverlapIsCheckedFirst`, `[]CombinedIsComposed` |
| `EvidenceInvariant`, `RefusedForCause` | `[](ProgressFollows /\ EvidenceFollows /\ RefusalFollows)`, hence `[]EvidenceIsRefusedForCause` |

These are all the safety properties that `mc_campaign` and `mc_store` check. The assumptions are `CampaignIsValid` (what
`models.py` enforces: ids are strings, the order is a permutation of the units, and no list is empty but a unit's own
regressions) and `PolicyIsValid` (the ranges of the other constants). Every passing run evaluates both.

*Types.* `TypeOK` splits into `ControlOK` and `StoreOK`. Most actions change the store by writes
that add no record of success; the relation `Quiet` says so of a pair of stores, is transitive, and
makes one lemma (`QuietWrites`) of all the lists of writes and of their failures.

*Acceptance.* `AcceptanceIsEarned` is not inductive: nothing in it says why the files the acceptance
reads are true. It cannot simply be added that each record of success is that of a check that passed: a
command whose record says passed may have changed the tree, or be an oracle with the wrong answer. What
holds is that this is true *as long as no exception is in flight* (`RecordsAreTrue`), that in the same
condition the tree is intact (`TreeIsIntact`), that no exception is in flight on the way to the
acceptance (`NoErrorOnTheWay`), and that from `VerifyEvidence` on the checks are all there
(`EarnedOnTheWay`). `EarnedInv` is the conjunction. The proof has one lemma per conjunct, and `ExceptionsStay`
shows that nothing swallows an exception before the worktree is removed.

*Findings.* `ComparisonsAddUp` is the heart: if the stage before is no worse than Phase A at or above
the threshold, and the comparison passes, this stage is no worse either. `FindingsInv` carries it
through the stages (`Compares`), to the end of the final verification (`VerifiedIsNoWorse`), and says
that nothing scans afterwards (`LeavesFinal`, `AcceptedLate`).

*Ends.* The properties of a campaign that has returned are about one place; what makes them true is spread over every `except` and
`finally`. `ExceptionsFollow` says at which places an exception is in flight and at which none is; `WorktreesFollow`, which
worktree is open where, so that no handler leaves one behind. `VerdictFollows` says at which places of the acceptance
and its withdrawal a verdict can be on disk and after how many failed calls, and what the record says of a campaign that ended with one. That
a second failed call is needed, and that the failure is then recorded, rests on `LinksFollow`: a link in an output makes hashing fail without a
fault, but no campaign that gets as far as its last hashes has one. `SealFollows`, what each of its writes leaves for the next. `FailureRecorded`
compares the writes of `_persist_terminal_failure` with the files that `hashes.yaml` has to cover.

*States.* A failure state is never replaced because `_persist_terminal_failure` keeps one it finds, and because no other
writer runs then: `FailuresAreLate` says at which places a failure can be on disk. That `_advance` is legal depends on the
local variable `state`, which is behind the disk after the final verification and on some error paths: `MemFollows` gives its
value at each place, `StagesFollow` that within a stage of Phase C it agrees with the next item, which needs the order of
the items of a stage (preapply oracles, patches, verification).

*Trees.* `TreeFollows` gives the tree in terms of `root` and `step`: the patches of the units before (Phase C, final) or
none (Phases A and B), and those of this unit among the items that are done. It is an invariant of two nested loops, so `EnterPhaseB`, `FinishStage` and `EnterFinal` need
that a list of items that is done has contributed all its patches, in order.

*Evidence.* `_verify_final_evidence` recomputes, from the campaign alone, the sequence numbers that execution has counted up in
its loops. `RecordsExpected` proves the two equal for any number of units and commands. `EvidenceFollows` then says that,
with no exception in flight and no cause for a refusal on disk, the records are *exactly* those of the roots
that are done and of the items done of the running one (`Collected`), the manifests of the roots that are done are complete, and
each has its passing comparison of scans. Exactly is needed: a record too many is refused like one that is missing. It is not inductive by
itself: `ProgressFollows` says that a loop is left only at its end (and where `root` is), `RefusalFollows` that the reason of a refusal
is not in flight without its cause.

*Refinement.* A step of `Campaign` performs at most one check, gives the answer (`SealAcceptance`, or the step that raises
out of `run_campaign` or is killed), or is not seen by `Acceptance`. That it accepts with all checks performed is
`EarnedInvariant`.

`CampaignOutcomeProofs` first proves what the lists of `Schedule` contain. They are concatenations over the units, and the length is a
parameter: the induction is done without an induction theorem, by `NumbersAreReached` (a set that contains zero and is closed under
successor contains every number), which is proved from the well-foundedness of the naturals.

`ExecutorProofs`, for every limit, chunk size, amount of output and list of entries:

| theorem | statement |
|---|---|
| `ExecutionTypeCorrect`, `NothingIsLeft`, `OutputIsCaptured`, `ZeroIsEarned`, `CheckedTreesStay` | `CSpec => []` of `ExecutionTypeOK`, `NothingRunsOn`, `OutputIsWhole`, `ZeroIsTheCommands`, `CheckedTreeStays` |
| `ExecutorImplementsExecution` | initial states and steps of `Execution` (its liveness stays with TLC) |

The five properties speak of states in which execute has returned; the invariant has to say what is true on the way. `Places` says
what the place of the thread implies about the client; `Cleared`, that once `podman rm` has succeeded with no exception
in flight there is no container, and, with `Places`, no client that could make one; `Exits` traces a zero back from the client to
the container to the command; `Readers`, that a thread that is done has seen the end of a pipe that nobody holds open;
`Captured`, that what is kept is the first bytes of what was read (this rests on a lemma about the slice in
`_Capture.read`, `KeptBytes`); `Compared`, that the second snapshot agrees with the tree as soon as execute is sure of its end.

`CaptureProofs`, for any number of patches, files, versions and edits:

| theorem | statement |
|---|---|
| `CaptureTypeCorrect`, `VerifiedCampaignIsKept`, `VerifiedPatchesAreKept`, `EvidenceIsComplete` | `Spec => []` of `CaptureTypeOK`, `FrozenIsVerified`, `PatchesAreAsVerified`, `EvidenceIsWholeOrGone` |
| `CopyIsASnapshot` | initial states and steps of `Snapshot` |

`CampaignRead` is what makes three reads as good as one: unless it is reverted, a file that has once ceased to be `original` is not
`original` again, so if the third read agrees with the first, so does the one in between. `CopyFollows` is what makes
block-by-block copying atomic: as long as the file's stamp is that of the first `lstat`, the blocks copied so far are a
beginning of the file; the second `lstat` turns this into the whole file at that moment, which is the moment at which
`Snapshot` takes it.

`RunRecordsProofs`, for documents of any size and any number of failed writes: `RecordsTypeCorrect`, `RecordsStayWhole`,
`VerdictsShownAreFinal` (`Spec => []` of `RecordsTypeOK`, `RecordsAreWhole`, `VerdictShownIsFinal`). `FilesAreWhole` says that a
name only ever stands for a file that is written *and* synced, which is why a loss of power cannot tear it; `Verdict`, that
the verdict is there from the first step of the acceptance to its end, and gone from the first step of its handler on unless the
removal failed (`kept`, a history variable, has the records whose removal did); `Kept`, that then the failure is recorded unless a
third call fails; `ReaderTypes`, what a reader has seen by then.

`AlgorithmProofs` and `PathProofs` prove the eight properties of `mc_algorithms`, for inputs of any size:

| theorem | statement | of every input that |
|---|---|---|
| `FindingsAreNormalised` | `NormalisationKeepsTheWorst` | has a sequence of findings whose ranks and messages are numbers, with lines up to `LastLine`, which is any number (`AreReports`) |
| `FindingsAreCompared` | `ComparisonMissesNothing` | has two such sequences |
| `AcceptedCampaignsAreRunnable`, `AcceptedInputsAreRunnable` | `AcceptedIsRunnable` | has lists where YAML and the field types give them (`HasLists`) |
| `EvidenceStaysApart`, `AcceptedInputsAreApart` | `EvidenceIsKeptApart` | (any) |
| `DiffsAreReadWholeOrRefused` | `ParsedOrRefused` | is a diff of any number of lines, or a patch of any files with hunks, over any words that hold the empty one, `a/` and `b/` and neither `--` nor `++` (`AreWords`, `IsParseInput`), with any word after the path of any header |
| `DiffsAreAppliedInPlace` | `DiffsApplyWhereTheySay` | is a change of texts, two hunks with an old side (`IsChange`) |
| `DiffsAreAppliedWhereTheyHaveMoved` | `MovedDiffsApply` | is one |
| `GeneratedPathsAreSeparate` | `GeneratedAreSeparate` | has a pattern and a path of any number of components, each not empty, of any characters but the slash (over any set that holds the slash and none of the marks of `Expression`) |
| `PathPatternsAreOfComponents` | `PatternsAreOfComponents` | has a pattern of any number of the components `a`, `*`, `a*` and `**`, and such a path |

*Findings.* `normalize_findings` is a fold over a sequence. `SelectionsExist` gives the function that the fold is, by
`NumbersAreReached`; `NormalizedIsKept` shows by the same induction that after n findings exactly their identities are
there, each with a finding that is among them and that no other is preferred to (`KeptOf`), from what one finding does
(`NextKept`). The comparison follows from the two facts that nothing is lost (`KeptAreAll`) and that what is kept is as severe as
the worst (`KeptIsWorst`).

*Campaigns.* That an accepted order is a permutation of the units is a matter of counting: an order without duplicates whose values
are those of the unit ids has as many elements as there are units.

*Hunks.* `OnlyPlace` says that a text found once is found where it is, wherever it is first looked for; `HunkIsApplied`, that
a hunk with one place replaces its old side there and leaves the rest; `HunksAreApplied`, that the second goes to what the first has
left. A diff that is not moved needs no uniqueness: `ChangesAreExpected` shows that the offset that the first hunk leaves
behind makes the second expected exactly where it is, however many lines the first adds or removes, so no other place is looked at.
`IsChange` requires of the sides of a hunk that they are sequences; that they are taken from the lines of the hunk is not used.

*Diffs.* `parse_patch` is a fold of `Consume`, and `HasRead` is what it keeps from one line to the next: the files read so far,
rendered, are the significant lines of the diff up to here, every hunk before the last has the counts that its header gives, and the state
says which headers are still to come. The end of the diff adds what a refusal would have found missing (`FinishedIsWhole`), whence
`ReadWholeOrRefused`. `DiffHasBeenRead` carries along that the diff with its headers cut (`Cut`) leads to the same state, line by line: a
header is consumed like any other with the same three words (`WordsAreConsumed`). The other direction, that nothing good is refused, goes by three inductions: over the lines of a hunk
(`PlainLinesAreRead`), the hunks of a file and the files of a patch, each showing the state in which the next one begins (`RenderedIsParsed`).

*Paths.* `_expression` and `fullmatch` go by characters, the meaning of a pattern by components. A written path is its components
with a slash after each but the last, so the proofs lay the components out among the characters (the flattening lemmas of
`AlgorithmProofs`) and relate the table that `fullmatch` fills, place by place of the pattern and of the path, to the table of components
(`PathPatternsAreOfComponents`). Both tables are recursive functions; that there are such functions is proved
(`RecursionExists`), not assumed. For `GeneratedPathsAreSeparate` one part of the match is enough: what a pattern has before its first `*`
begins every path that matches it.

The assumptions of these modules are `SizesAreNumbers`, `EntriesAreListed`, `InputsAreGiven`, `SizeAndFaults` and
`BoundsAreNumbers`: ranges of constants, evaluated by the runs.

## 5. What is only model-checked

Termination and the liveness of `Acceptance`, `Execution` and `Snapshot` (liveness and ENABLED are beyond the prover). The
findings of section 6: a counterexample is a behaviour, and needs no proof. `locate_hunks` is checked and proved for diffs of two hunks
with an old side; for more hunks, or one that only adds lines, no property is stated.

## 6. Where code and documents differ

Shown by a run each:

- `overlap_observed`: a preapply oracle that times out or crashes ends the run as `ambiguous_overlap`;
  SPEC:392 says such an end is never evidence of mitigation.
- `terminal_final`: a write that fails after `accepted` was persisted takes the run from `accepted` to
  `evidence_failure`; SPEC:575 says terminal states never transition.
- `uncertain_workspace`: with `keep_failed_workspaces`, a composed worktree that could not be removed
  does not keep the run from being accepted; `orchestrator.py:1556` says it must.
- `exit_code`: `verify_integrity` raises a `ConfigurationError` after commands have run and the exit code
  is 2; SPEC:849 says configuration errors come before execution.
- `interrupted`: a process that is killed after `accepted` was persisted leaves a run that `status` and `report` show as accepted;
  SPEC:575 says an interrupted run can never be interpreted as accepted.
- `passing_refused`: evidence or output files with a path such as `checks/x.yaml` are taken for records
  and a passing campaign is refused.

Built into the model as the code has them, without a run of their own:

- `unlink(missing_ok=True)` (`orchestrator.py:1662`) raises when the file system refuses the removal, and the rest of the `except`
  clause of the acceptance is skipped: `verdict.yaml`, `report.yaml` or both stay beside a campaign that has raised. The comment at
  `orchestrator.py:1661` says a failure cannot leave a partial verdict. In `Campaign` and `RunRecords` each removal may fail; what holds
  then is `LeftVerdictIsContradicted` and `VerdictShownIsFinal`.
- A header is cut at its first blank (`patches.py:248`), so `--- a/f` with `+++ b/f g` is a change of `f` and no rename; SPEC:343
  says paths and headers are parsed independently and renames are rejected. A path with a blank in both headers is read as the shorter
  path too. The path that is cut is the one that the policy, the overlap with generated paths and `locate_hunks` see, and
  `git apply` is given the original bytes. `ParsedOrRefused` is about the diff with its headers cut.

And, also as the code has them: a link in an output directory hides
the recorded reason and leaves the hashes stale; after the final verification the caller's copy of the state
is behind, so a late failure is persisted as `cumulative_failure`; a failure of the baseline snapshot is outside
Phase A's `try` and becomes `evidence_failure`; a failed write while the acceptance is withdrawn may
leave `accepted` in `run.yaml`, and a failed removal the verdict or the report beside it; a kill between `PersistAccepted` and
`RecordOutcome` leaves an accepted state without outcome; `cleanup_uncertain` overrides the reason the
caller sees; a store fault on an oracle's check or integrity record is reported as the oracle's failure;
Ctrl-C in Phase A leaves the baseline worktree.

Noted while modelling the other parts, without a run: a refused Goose adaptation becomes
`evidence_failure` in `prepare_preflight`, while SPEC:841 lists its reason under `isolated_unit_failure`. `_validate_generated_path_overlaps` (`verify.py:165`) compares with the part of a pattern before its first
`*` only, so a pattern such as `*.log` or `src/a*` overlaps nothing, while SPEC:315 wants no pattern that matches a patched path; it sees supplied patches only, and
the paths of an adapted patch are not compared (`orchestrator.py:1898`). Of findings with one identity, severity and line
the greatest message is kept (`scanner.py:284`, SPEC:447); lines from 2**31 on are preferred less than none. A hunk `-k,0`, which
has no context, is placed before line k instead of after it (`patches.py:213`). A later hunk is searched for in the file as
earlier hunks have left it, so it may be recorded at lines that an earlier one has inserted. A worktree whose `create` fails
after `git worktree add` stays registered in the source repository (`repository.py:73`). A campaign file that changes and changes back between two
reads, and an executable bit that changes before the first `lstat` (`storage.py:59`), are not noticed.

## 7. Not modelled, and the plan

| part | why |
|---|---|
| git's registration of worktrees (`repository.py`) | what git does with a registration that is left over is git's; in `Campaign` a failed `create` leaves nothing |
| `goose.py` | an external agent; its bundle, its process and the schema of its answer are the choice of an outcome in `Capture` |
| qualification of the host (`executor.preflight`) | a sequence of queries of the host that changes nothing; an outcome of `Campaign` |
| YAML and JSON parsing, fingerprints, validators of single fields, reports as text, command lines of Podman and git | text processing that no property here is about |
| limits on evidence, walking a directory of evidence (`paths.py`) | counters compared with constants; order and races are those of declared files |
| the example campaign | prepares an example, not part of the program |

Not proved and worth proving: `locate_hunks` for diffs of any number of hunks, by an invariant of its fold (the hunks applied so far
stand in the file, the offset is the number of lines they have added, the rest is as it was).

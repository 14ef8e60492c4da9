---------------------------- MODULE CommandCheck ----------------------------
(***************************************************************************)
(* A command and the check of the tree it ran on: the finally clause of    *)
(* _run_root_command takes a second snapshot, entry by entry, while        *)
(* whatever execute has left behind may still write.                       *)
(***************************************************************************)
EXTENDS Executor

CONSTANT Entries        \* what a snapshot lists, in its order: files, and the untracked paths

ASSUME EntriesAreListed == Entries \in Seq({Entries[i] : i \in DOMAIN Entries})

VARIABLES
    tree,               \* is each entry as the snapshot before the command has it?
    seen,               \* what the second snapshot has read so far
    integrity           \* the verdict of verify_integrity

checked == <<tree, seen, integrity>>

CInit ==
    /\ Init
    /\ tree = [i \in DOMAIN Entries |-> TRUE]
    /\ seen = <<>>
    /\ integrity = "none"

\* The worktree is mounted writable; a change may be undone again.
BoxWrites ==
    /\ box = "running"
    /\ \E i \in DOMAIN tree : tree' = [tree EXCEPT ![i] = ~@]
    /\ UNCHANGED <<vars, seen, integrity>>

ReadEntry ==
    /\ outcome # "running" /\ integrity = "none"
    /\ Len(seen) < Len(Entries)
    /\ seen' = Append(seen, tree[Len(seen) + 1])
    /\ UNCHANGED <<vars, tree, integrity>>

Compare ==
    /\ outcome # "running" /\ integrity = "none"
    /\ Len(seen) = Len(Entries)
    /\ integrity' = IF \A i \in DOMAIN seen : seen[i] THEN "passed" ELSE "failed"
    /\ UNCHANGED <<vars, tree, seen>>

\* The command passes when it has exited with zero and left the tree alone.
Passed == outcome = "zero" /\ integrity = "passed"

CNext == (Next /\ UNCHANGED checked) \/ BoxWrites \/ ReadEntry \/ Compare

CSpec == CInit /\ [][CNext]_<<vars, checked>> /\ WF_vars(Main)
=============================================================================

------------------------- MODULE ExecutorProperties -------------------------
(***************************************************************************)
(* What has to be true of the execution of a command and of the check that *)
(* follows it.                                                             *)
(***************************************************************************)
EXTENDS CommandCheck

\* Every variable has its type, and a capture keeps within its limit however the bytes arrive
\* (executor.py:135-143, 207-218).
ExecutionTypeOK ==
    /\ pc \in {"launch", "readers", "wait", "stop", "waitStop", "waitKill",
               "join", "rm", "decide", "done"}
    /\ timedOut \in BOOLEAN /\ lifecycleError \in BOOLEAN /\ held \in BOOLEAN
    /\ error \in {"none", "launch", "raised"}
    /\ outcome \in {"running", "zero", "nonzero", "timeout", "launch", "uncertain", "escape"}
    /\ client \in {"none", "running", "exited"} /\ code \in Codes \cup {"none"}
    /\ box \in {"none", "running", "exited", "removed"} /\ boxCode \in Codes \cup {"none"}
    /\ finished \in Codes \cup {"no"}
    /\ reader \in [Streams -> {"idle", "reading", "done"}]
    /\ written \in [Streams -> 0..MaxBytes] /\ total \in [Streams -> 0..MaxBytes]
    /\ data \in [Streams -> Seq(1..MaxBytes)]
    /\ \A s \in Streams : Len(data[s]) <= Limit

Settled == {"zero", "nonzero", "timeout", "launch"}

\* Once execute has returned a result or said that the launch failed, there is no container and
\* no client that could still make one, whenever the client, the container, podman stop, kill()
\* and podman rm came in each other's way (executor.py:163-196).
NothingRunsOn ==
    outcome \in Settled => box \in {"none", "removed"} /\ client # "running"

\* A result holds, of each stream, all that was ever written to it: the bytes are counted, the
\* first of them up to the limit are kept in their order, and truncated says whether there
\* were more (executor.py:202-225).
OutputIsWhole ==
    outcome \in {"zero", "nonzero", "timeout"} =>
        \A s \in Streams :
            /\ total[s] = written[s]
            /\ data[s] = Bytes(1, IF written[s] < Limit THEN written[s] ELSE Limit)
            /\ Truncated(s) <=> written[s] > Len(data[s])

\* A result with exit code zero that is not timed out is the command's own: it ran to its end
\* and succeeded.  A command that exits with zero because it was told to stop has timed out
\* (executor.py:163-171, 193-196).
ZeroIsTheCommands == outcome = "zero" => finished = "zero"

\* When the check after a command has found the tree unchanged, it is unchanged and will be when
\* the next command starts, provided execute knows what became of the container
\* (orchestrator.py:1379, repository.py:118-146).
CheckedTreeStays ==
    outcome \in Settled /\ integrity = "passed" => \A i \in DOMAIN tree : tree[i]

Promise == INSTANCE Execution WITH container <- box \in {"running", "exited"}

\* The execution of a command implements Execution: among other things it ends, however long the
\* command, its client, podman and the readers take.
KeepsExecution == Promise!Spec
=============================================================================

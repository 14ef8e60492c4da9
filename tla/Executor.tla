------------------------------ MODULE Executor ------------------------------
(***************************************************************************)
(* executor.execute: one command in one named Podman container.  The       *)
(* thread that executes it (its place is pc), the two threads that read    *)
(* the client's output, the Podman client and the container interleave;    *)
(* every wait has a timeout, which may expire at any time.  A byte is its  *)
(* number in its stream.                                                   *)
(***************************************************************************)
EXTENDS Integers, Sequences

CONSTANTS
    Limit,              \* maximum_output_bytes
    Chunk,              \* how much a read of a pipe waits for (64 KiB in the code)
    MaxBytes            \* bound on what the command writes to a stream

ASSUME SizesAreNumbers ==
    /\ Limit \in Nat /\ MaxBytes \in Nat
    /\ Chunk \in Nat \ {0}

Streams == {"stdout", "stderr"}

VARIABLES
    pc,                 \* where the executing thread is
    timedOut,           \* timed_out
    lifecycleError,     \* lifecycle_error is not None
    error,              \* "launch": launch_error is set; "raised": an exception is in flight
    outcome,            \* what execute has returned or raised, "running" before
    client,             \* the process that Popen started
    code,               \* its returncode
    box,                \* the container
    boxCode,            \* the exit status of the container
    finished,           \* how the command in it ended by itself, if it did
    reader,             \* the two threads
    held,               \* another process holds the pipes' write ends too
    written,            \* how many bytes went into each pipe
    total, data         \* _Capture: total_bytes and data

main == <<pc, timedOut, lifecycleError, error, outcome>>
guest == <<box, boxCode, finished>>
process == <<client, code>>
output == <<reader, held, written, total, data>>
vars == <<main, process, guest, output>>

Codes == {"zero", "nonzero"}

Init ==
    /\ pc = "launch" /\ outcome = "running" /\ error = "none"
    /\ timedOut = FALSE /\ lifecycleError = FALSE
    /\ client = "none" /\ code = "none"
    /\ box = "none" /\ boxCode = "none" /\ finished = "no"
    /\ reader = [s \in Streams |-> "idle"] /\ held = FALSE
    /\ written = [s \in Streams |-> 0] /\ total = [s \in Streams |-> 0]
    /\ data = [s \in Streams |-> <<>>]

-----------------------------------------------------------------------------
(* The Podman client and its container.                                    *)

PipeOpen == client = "running" \/ held

Create ==
    /\ client = "running" /\ box = "none"
    /\ box' = "running"
    /\ UNCHANGED <<main, process, boxCode, finished, output>>

\* The command in the container ends by itself.
Finish ==
    /\ box = "running"
    /\ box' = "exited"
    /\ boxCode' \in Codes
    /\ finished' = boxCode'
    /\ UNCHANGED <<main, process, output>>

\* The client passes the status of the container on, or fails without one.
ClientExits ==
    /\ client = "running" /\ box # "running"
    /\ client' = "exited"
    /\ code' = IF box = "exited" THEN boxCode ELSE "nonzero"
    /\ UNCHANGED <<main, guest, output>>

\* It dies, of the signal of kill() or of another, and the container lives on.
ClientDies ==
    /\ client = "running"
    /\ client' = "exited" /\ code' = "nonzero"
    /\ UNCHANGED <<main, guest, output>>

Write(s) ==
    /\ PipeOpen /\ written[s] < MaxBytes
    /\ written' = [written EXCEPT ![s] = @ + 1]
    /\ UNCHANGED <<main, process, guest, reader, held, total, data>>

\* Whoever has inherited the pipes lets go of them.
Release ==
    /\ held
    /\ held' = FALSE
    /\ UNCHANGED <<main, process, guest, reader, written, total, data>>

Environment ==
    \/ Create \/ Finish \/ ClientExits \/ ClientDies \/ Release
    \/ \E s \in Streams : Write(s)

-----------------------------------------------------------------------------
(* The threads that read, _Capture.read: a read waits for a whole chunk or *)
(* for the end of the file, and the end of the file ends the thread.       *)

Bytes(first, last) == [i \in 1..(last - first + 1) |-> first + i - 1]

(* A mutant: a chunk is kept whole while there is room for any of it. *)
KeptWhole(kept, chunk) == IF Len(kept) < Limit THEN kept \o chunk ELSE kept

Kept(kept, chunk) ==
    LET remaining == Limit - Len(kept)
    IN  IF remaining > 0
        THEN kept \o SubSeq(chunk, 1, IF Len(chunk) < remaining THEN Len(chunk) ELSE remaining)
        ELSE kept

Take(s, n) ==
    /\ total' = [total EXCEPT ![s] = @ + n]
    /\ data' = [data EXCEPT ![s] = Kept(@, Bytes(total[s] + 1, total[s] + n))]
    /\ UNCHANGED reader

Read(s) ==
    LET available == written[s] - total[s]
    IN  /\ reader[s] = "reading"
        /\ \/ available >= Chunk /\ Take(s, Chunk)
           \/ ~PipeOpen /\ available \in 1..(Chunk - 1) /\ Take(s, available)
           \/ /\ ~PipeOpen /\ available = 0
              /\ reader' = [reader EXCEPT ![s] = "done"]
              /\ UNCHANGED <<total, data>>
        /\ UNCHANGED <<main, process, guest, held, written>>

\* _Capture.result
Truncated(s) == total[s] > Limit

-----------------------------------------------------------------------------
(* The executing thread.                                                   *)

Goto(next) == pc' = next /\ UNCHANGED outcome

Stop(how) == pc' = "done" /\ outcome' = how

\* The invocation is refused before anything is started: an image, a variable or a mount that is
\* not allowed, an output directory that is a link or not empty.
Refuse ==
    /\ pc = "launch"
    /\ Stop("escape")
    /\ UNCHANGED <<timedOut, lifecycleError, error, process, guest, output>>

\* Popen, which raises OSError or starts the client.
Launch ==
    /\ pc = "launch"
    /\ \/ /\ error' = "launch" /\ Goto("join")
          /\ UNCHANGED <<client, held>>
       \/ /\ client' = "running" /\ held' \in BOOLEAN /\ Goto("readers")
          /\ UNCHANGED error
    /\ UNCHANGED <<timedOut, lifecycleError, code, guest, reader, written, total, data>>

\* A thread that cannot be started raises RuntimeError, and so does the join of it in the finally
\* clause, before anything is removed.
StartReaders ==
    /\ pc = "readers"
    /\ \/ /\ reader' = [s \in Streams |-> "reading"] /\ Goto("wait")
       \/ /\ reader' \in {[s \in Streams |-> IF s \in started THEN "reading" ELSE "idle"] :
                            started \in {{}, {"stdout"}}}
          /\ Stop("escape")
    /\ UNCHANGED <<timedOut, lifecycleError, error, process, guest, held, written, total, data>>

\* process.wait returns.
Waited ==
    /\ pc \in {"wait", "waitStop", "waitKill"} /\ client # "running"
    /\ Goto("join")
    /\ UNCHANGED <<timedOut, lifecycleError, error, process, guest, output>>

TimesOut ==
    /\ pc = "wait" /\ client = "running"
    /\ timedOut' = TRUE
    /\ Goto("stop")
    /\ UNCHANGED <<lifecycleError, error, process, guest, output>>

\* podman stop: it may fail having stopped the container or not; with --ignore a container that
\* is not there yet is no failure.  A command that is told to stop may exit with zero.
PodmanStop ==
    /\ pc = "stop"
    /\ lifecycleError' \in BOOLEAN
    /\ \/ /\ box = "running"
          /\ box' = "exited" /\ boxCode' \in Codes
       \/ /\ box # "running" \/ lifecycleError'
          /\ UNCHANGED <<box, boxCode>>
    /\ Goto("waitStop")
    /\ UNCHANGED <<timedOut, error, process, finished, output>>

\* The second wait expires: process.kill().  The third one expires too: TimeoutExpired is no
\* OSError and leaves the try statement.
Kill ==
    /\ client = "running"
    /\ \/ pc = "waitStop" /\ Goto("waitKill") /\ UNCHANGED error
       \/ pc = "waitKill" /\ Goto("join") /\ error' = "raised"
    /\ UNCHANGED <<timedOut, lifecycleError, process, guest, output>>

(* A mutant: only the first thread is looked at. *)
StdoutAlive == reader["stdout"] = "reading"

ReadersAlive == \E s \in Streams : reader[s] = "reading"

(* A mutant: join() without a timeout. *)
JoinForever ==
    /\ pc = "join" /\ ~ReadersAlive
    /\ Goto("rm")
    /\ UNCHANGED <<timedOut, lifecycleError, error, process, guest, output>>

\* The joins end when the threads have or after their timeouts.
Join ==
    /\ pc = "join"
    /\ lifecycleError' = (lifecycleError \/ ReadersAlive)
    /\ Goto("rm")
    /\ UNCHANGED <<timedOut, error, process, guest, output>>

(* A mutant: a container is removed only after a timeout. *)
GoneIfTimedOut == IF box # "none" /\ timedOut THEN "removed" ELSE box

Gone == IF box = "none" THEN "none" ELSE "removed"

(* A mutant: what podman rm says is of no interest. *)
CleanupIgnored(failed) == failed \in BOOLEAN /\ UNCHANGED lifecycleError

Cleanup(failed) == lifecycleError' = (lifecycleError \/ failed)

\* podman rm --force --ignore: it may fail having removed the container or not.
Remove ==
    /\ pc = "rm"
    /\ \/ box' = Gone /\ Cleanup(FALSE)
       \/ box' \in {box, Gone} /\ Cleanup(TRUE)
    /\ Goto("decide")
    /\ UNCHANGED <<timedOut, error, process, boxCode, finished, output>>

(* A mutant: the exit code is believed although the command was told to stop. *)
ResultOfStopped == code

\* What the campaign makes of a result: _run_root_command.
Result == IF timedOut THEN "timeout" ELSE code

Decide ==
    /\ pc = "decide"
    /\ Stop(IF error = "raised" THEN "escape"
            ELSE IF lifecycleError THEN "uncertain"
            ELSE IF error = "launch" THEN "launch"
            ELSE Result)
    /\ UNCHANGED <<timedOut, lifecycleError, error, process, guest, output>>

\* Ctrl-C: the finally clause is still executed, unless it is what is interrupted.
Interrupt ==
    /\ \/ /\ pc \in {"wait", "stop", "waitStop", "waitKill"}
          /\ error' = "raised" /\ Goto("join")
       \/ /\ pc \in {"join", "rm"}
          /\ Stop("escape") /\ UNCHANGED error
    /\ UNCHANGED <<timedOut, lifecycleError, process, guest, output>>

Main ==
    \/ Refuse \/ Launch \/ StartReaders \/ Waited \/ TimesOut \/ PodmanStop \/ Kill
    \/ Join \/ Remove \/ Decide

Next == Environment \/ (\E s \in Streams : Read(s)) \/ Main \/ Interrupt

\* A thread that runs is scheduled, and a timeout expires.
Spec == Init /\ [][Next]_vars /\ WF_vars(Main)
=============================================================================

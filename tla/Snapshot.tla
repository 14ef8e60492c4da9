------------------------------ MODULE Snapshot ------------------------------
(***************************************************************************)
(* What the capture of the evidence promises: each file is taken at one    *)
(* moment, in the order of the files, when it is a regular file; at the    *)
(* end all of them have been taken, or the capture has given up and has    *)
(* left none or all of them.                                               *)
(***************************************************************************)
EXTENDS Naturals, Sequences

CONSTANT Evidence       \* the files, in their order

VARIABLES
    files,              \* what each file holds now
    snapshot,           \* what has been taken of them
    status              \* "open", "whole" or "given up"

vars == <<files, snapshot, status>>

Special == <<>>         \* what a link or a special file holds

Init == snapshot = <<>> /\ status = "open"

Change == files' # files /\ UNCHANGED <<snapshot, status>>

Take ==
    LET next == Len(snapshot) + 1
    IN  /\ status = "open" /\ next <= Len(Evidence)
        /\ files[Evidence[next]] # Special
        /\ snapshot' = Append(snapshot, files[Evidence[next]])
        /\ UNCHANGED <<files, status>>

Close ==
    /\ status = "open"
    /\ \/ status' = "whole" /\ Len(snapshot) = Len(Evidence) /\ UNCHANGED snapshot
       \/ status' = "given up" /\ snapshot' = <<>>
       \/ status' = "given up" /\ Len(snapshot) = Len(Evidence) /\ UNCHANGED snapshot
    /\ UNCHANGED files

Next == Change \/ Take \/ Close

Spec == Init /\ [][Next]_vars /\ WF_vars(Close)
=============================================================================

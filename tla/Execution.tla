----------------------------- MODULE Execution -----------------------------
(***************************************************************************)
(* What the execution of a command promises to the campaign: it ends, once *)
(* and for all, and unless it says that it does not know, or another       *)
(* exception has come out of it, its container is gone and stays gone.     *)
(***************************************************************************)
VARIABLES
    outcome,            \* "running", or how the command ended: one of Campaign's Ends
    container           \* is there a container of this command?

vars == <<outcome, container>>

Settled == {"zero", "nonzero", "timeout", "launch"}

Init == outcome = "running" /\ container = FALSE

\* The container comes and goes while nobody has vouched for its absence.
Live ==
    /\ outcome \notin Settled
    /\ container' \in BOOLEAN
    /\ UNCHANGED outcome

Settle ==
    /\ outcome = "running" /\ ~container
    /\ outcome' \in Settled
    /\ UNCHANGED container

GiveUp ==
    /\ outcome = "running"
    /\ outcome' \in {"uncertain", "escape"}
    /\ UNCHANGED container

Next == Live \/ Settle \/ GiveUp

Spec == Init /\ [][Next]_vars /\ WF_vars(Settle \/ GiveUp)
=============================================================================

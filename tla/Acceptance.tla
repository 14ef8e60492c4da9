----------------------------- MODULE Acceptance -----------------------------
(***************************************************************************)
(* What a campaign promises: it performs the checks it has to perform, and *)
(* then gives one verdict, once.  Only a campaign that has performed all   *)
(* of them is accepted (SPECIFICATION.md, section 11), and every campaign  *)
(* ends: accepted, rejected, or abandoned by its operator or its host.     *)
(***************************************************************************)
CONSTANT Required       \* the checks that have to pass

VARIABLES
    performed,          \* those that have passed
    verdict

vars == <<performed, verdict>>

Verdicts == {"pending", "accepted", "rejected", "abandoned"}

Init == performed = {} /\ verdict = "pending"

Perform ==
    /\ verdict = "pending"
    /\ performed' \in {performed \cup {check} : check \in Required \ performed}
    /\ UNCHANGED verdict

Accept ==
    /\ verdict = "pending" /\ performed = Required
    /\ verdict' = "accepted"
    /\ UNCHANGED performed

Refuse ==
    /\ verdict = "pending"
    /\ verdict' \in {"rejected", "abandoned"}
    /\ UNCHANGED performed

Next == Perform \/ Accept \/ Refuse

Spec == Init /\ [][Next]_vars /\ WF_vars(Accept \/ Refuse)
=============================================================================

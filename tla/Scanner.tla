------------------------------ MODULE Scanner ------------------------------
(***************************************************************************)
(* scanner.py: findings are normalized to one for each identity, and the   *)
(* normalized findings of two scans are compared.  A severity is its rank  *)
(* in severity_order; line 0 is a finding without a line.                  *)
(***************************************************************************)
EXTENDS Integers, SequencesExt

CONSTANT NoLine   \* 2**31, later than every line of a report

(* A mutant: the lines are compared the wrong way round. *)
PrefersLateLines(f) == f.line

\* The second component of _preference.
LinePreference(f) == -(IF f.line = 0 THEN NoLine ELSE f.line)

\* _preference(f) > _preference(g)
Preferred(f, g) ==
    \/ f.rank > g.rank
    \/ f.rank = g.rank /\ LinePreference(f) > LinePreference(g)
    \/ /\ f.rank = g.rank /\ LinePreference(f) = LinePreference(g)
       /\ f.message > g.message

\* selected[f.identity] = f
Selecting(selected, f) ==
    [id \in DOMAIN selected \cup {f.id} |-> IF id = f.id THEN f ELSE selected[id]]

(* A mutant: the first finding with an identity is kept. *)
FirstSelected(selected, f) ==
    IF f.id \in DOMAIN selected THEN selected ELSE Selecting(selected, f)

Selected(selected, f) ==
    IF f.id \notin DOMAIN selected \/ Preferred(f, selected[f.id])
    THEN Selecting(selected, f)
    ELSE selected

\* The finding of each identity.
normalize_findings(findings) == FoldLeft(Selected, <<>>, findings)

Introduced(old, new) == {id \in DOMAIN new : id \notin DOMAIN old}
Increased(old, new) == {id \in DOMAIN new \ Introduced(old, new) : new[id].rank > old[id].rank}

\* The identities of the findings that make a scan fail.
compare_findings(old, new, threshold) ==
    {id \in Introduced(old, new) \cup Increased(old, new) : new[id].rank >= threshold}
=============================================================================

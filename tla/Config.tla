------------------------------- MODULE Config -------------------------------
(***************************************************************************)
(* models.py: which campaigns are accepted, as far as a run depends on it, *)
(* and verify._evidence_declarations.  A campaign is                       *)
(* [units, order, shared, scans, severities, threshold, goose, recipe],    *)
(* with the IDs of its shared regressions and scanners; a unit is          *)
(* [id, vulns, patches, adapts, regs], with the IDs of what it declares    *)
(* and whether Goose may adapt one of its patches.                         *)
(***************************************************************************)
EXTENDS Integers, Sequences

Values(s) == {s[i] : i \in DOMAIN s}

\* _ensure_unique: no two of the places hold the same.
Unique(places, At(_)) == \A p, q \in places : At(p) = At(q) => p = q

AllDifferent(s) == Unique(DOMAIN s, LAMBDA i : s[i])

UnitId(c, i) == c.units[i].id
UnitIds(c) == {UnitId(c, i) : i \in DOMAIN c.units}

(***************************************************************************)
(* The places at which a campaign declares a command: in a list of its own *)
(* (unit 0) or of one of its units.                                        *)
(***************************************************************************)
Place(list, unit, at) == [list |-> list, unit |-> unit, at |-> at]

OwnPlaces(c, list) == {Place(list, 0, j) : j \in DOMAIN c[list]}
UnitPlaces(c, list) ==
    UNION {{Place(list, i, j) : j \in DOMAIN c.units[i][list]} : i \in DOMAIN c.units}

IdAt(c, p) == IF p.unit = 0 THEN c[p.list][p.at] ELSE c.units[p.unit][p.list][p.at]

CommandPlaces(c) ==
    OwnPlaces(c, "shared") \cup OwnPlaces(c, "scans") \cup UnitPlaces(c, "regs")

-----------------------------------------------------------------------------
(* The validators                                                          *)

\* UnitConfig.validate_contents
UnitIsValid(unit) ==
    /\ unit.vulns # <<>>
    /\ unit.patches # <<>> /\ AllDifferent(unit.patches)

\* CommandsConfig.validate_required_commands
CommandsAreValid(c) == c.shared # <<>> /\ c.scans # <<>>

\* ScanPolicyConfig.validate_threshold
ScanPolicyIsValid(c) ==
    /\ c.severities # <<>> /\ AllDifferent(c.severities)
    /\ c.threshold \in Values(c.severities)

\* The relations of goose.enabled: an adaptation needs it, and it needs a recipe.
GooseIsValid(c) ==
    /\ (\E i \in DOMAIN c.units : c.units[i].adapts) => c.goose
    /\ c.goose => c.recipe

(* A mutant: a unit may be in the order twice. *)
OrderCovers(c) == Values(c.order) = UnitIds(c)

\* CompositionConfig.validate_order, and that the order names the units.
OrderIsValid(c) ==
    /\ c.order # <<>> /\ AllDifferent(c.order)
    /\ Values(c.order) = UnitIds(c)

(* A mutant: only the IDs of one list are compared. *)
IdsAreUniqueInLists(c) ==
    /\ Unique(DOMAIN c.units, LAMBDA i : UnitId(c, i))
    /\ \A i \in DOMAIN c.units : AllDifferent(c.units[i].vulns) /\ AllDifferent(c.units[i].regs)
    /\ AllDifferent(c.shared) /\ AllDifferent(c.scans)

IdsAreUnique(c) ==
    /\ Unique(DOMAIN c.units, LAMBDA i : UnitId(c, i))
    /\ Unique(UnitPlaces(c, "vulns"), LAMBDA p : IdAt(c, p))
    /\ Unique(CommandPlaces(c), LAMBDA p : IdAt(c, p))

\* CampaignConfig: the validators of its parts come first.
Accepted(c) ==
    /\ \A i \in DOMAIN c.units : UnitIsValid(c.units[i])
    /\ CommandsAreValid(c) /\ ScanPolicyIsValid(c)
    /\ c.units # <<>>
    /\ OrderIsValid(c) /\ IdsAreUnique(c) /\ GooseIsValid(c)

-----------------------------------------------------------------------------
(***************************************************************************)
(* _evidence_declarations: a dictionary with an entry for every command.   *)
(* IDs hold no colon, so that a key is as good as the tuple of its parts.  *)
(***************************************************************************)
DeclarationPlaces(c) == CommandPlaces(c) \cup UnitPlaces(c, "vulns")

Key(c, p) ==
    IF p.list = "regs" THEN <<p.list, UnitId(c, p.unit), IdAt(c, p)>> ELSE <<p.list, IdAt(c, p)>>

\* The place whose evidence the dictionary holds for a key: the last one that wrote it.
Declared(c, p) == {q \in DeclarationPlaces(c) : Key(c, q) = Key(c, p)}

-----------------------------------------------------------------------------
(* What the rest of the program relies on                                  *)

(***************************************************************************)
(* An accepted campaign is one that the orchestrator can go through: every *)
(* unit is composed exactly once, in the order, and has something to       *)
(* reproduce and to apply; there is a check of every kind; and the ranks   *)
(* of the severities are those of a total order with the threshold in it.  *)
(***************************************************************************)
IsRunnable(c) ==
    /\ Len(c.order) = Len(c.units) /\ c.units # <<>>
    /\ \A i \in DOMAIN c.units :
          /\ \E n \in DOMAIN c.order : c.order[n] = UnitId(c, i)
          /\ Len(c.units[i].vulns) > 0 /\ Len(c.units[i].patches) > 0
    /\ Len(c.shared) > 0 /\ Len(c.scans) > 0
    /\ \E rank \in DOMAIN c.severities :
          \A other \in DOMAIN c.severities :
             c.severities[other] = c.threshold <=> other = rank

(***************************************************************************)
(* No command of an accepted campaign takes the evidence of another one:   *)
(* every key of _evidence_declarations is written once.                    *)
(***************************************************************************)
KeepsEvidenceApart(c) == \A p \in DeclarationPlaces(c) : Declared(c, p) = {p}
=============================================================================

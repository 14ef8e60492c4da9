------------------------------ MODULE Schedule ------------------------------
(***************************************************************************)
(* The campaign (its units, patches, vulnerabilities, regressions and      *)
(* scanners), the checks each verification root executes and, written      *)
(* from _verify_final_evidence and not from the loops that execute, the    *)
(* records a run must have before it is accepted.                          *)
(*                                                                         *)
(* A root is a directory of the run store: phase-a, phase-b/<unit>,        *)
(* phase-c/stages/<n>-<unit>, final, and phase-c itself.                   *)
(***************************************************************************)
EXTENDS Naturals, SequencesExt

CONSTANTS
    ConfigUnits,   \* config.units: the units in the order they are declared
    Order,         \* config.composition.order
    Patches,       \* per unit, the IDs of its patches
    Vulns,         \* per unit, the IDs of its vulnerabilities
    UnitRegs,      \* per unit, the IDs of its regressions
    SharedRegs,    \* config.commands.shared_regressions
    Scans          \* config.commands.scans

Units == ToSet(ConfigUnits)

(* What models.py enforces: IDs are strings, composition.order is a        *)
(* permutation of the units, and no list but a unit's own regressions may  *)
(* be empty.                                                               *)
ASSUME CampaignIsValid ==
    /\ ConfigUnits \in Seq(STRING) /\ SharedRegs \in Seq(STRING) /\ Scans \in Seq(STRING)
    /\ {Patches, Vulns, UnitRegs} \subseteq [Units -> Seq(STRING)]
    /\ Order \in Seq(Units) /\ ToSet(Order) = Units /\ Len(Order) = Len(ConfigUnits)
    /\ Len(Order) \in Nat \ {0}
    /\ \A u \in Units : Len(Patches[u]) > 0 /\ Len(Vulns[u]) > 0
    /\ Len(SharedRegs) > 0 /\ Len(Scans) > 0

Stages == 1..Len(Order)
At(phase, n) == [phase |-> phase, n |-> n]
PhaseA == At("a", 0)
PhaseC == At("c", 0)
Final == At("final", 0)
Roots == {PhaseA, Final} \cup {At(phase, n) : phase \in {"b", "c"}, n \in Stages}

OverUnits(ids, us) == FlattenSeq([j \in 1..Len(us) |-> ids[us[j]]])
Applied(n) == SubSeq(Order, 1, n)

select_unit_regressions(u) == SharedRegs \o UnitRegs[u]
select_accumulated_regressions(us) == SharedRegs \o OverUnits(UnitRegs, us)

(***************************************************************************)
(* What a root executes.  Every patch and every command of a root takes    *)
(* the next sequence number, so the j-th item has sequence number j.       *)
(***************************************************************************)
Items(kind, ids) == [j \in 1..Len(ids) |-> [kind |-> kind, id |-> ids[j]]]
Build == Items("build", <<"build">>)

BaselineItems ==
    Build \o Items("regression", SharedRegs)
          \o Items("oracle", OverUnits(Vulns, ConfigUnits)) \o Items("scanner", Scans)

IsolatedItems(u) ==
    Items("patch", Patches[u]) \o Build \o Items("oracle", Vulns[u])
        \o Items("regression", select_unit_regressions(u)) \o Items("scanner", Scans)

(* A mutant: the oracles reproduce the vulnerability once it is patched. *)
StageItemsPatchedFirst(n) ==
    Items("patch", Patches[Order[n]]) \o Items("preapply", Vulns[Order[n]]) \o Build
        \o Items("oracle", OverUnits(Vulns, Applied(n)))
        \o Items("regression", select_accumulated_regressions(Applied(n)))
        \o Items("scanner", Scans)

StageItems(n) ==
    Items("preapply", Vulns[Order[n]]) \o Items("patch", Patches[Order[n]]) \o Build
        \o Items("oracle", OverUnits(Vulns, Applied(n)))
        \o Items("regression", select_accumulated_regressions(Applied(n)))
        \o Items("scanner", Scans)

FinalItems ==
    Build \o Items("oracle", OverUnits(Vulns, Order))
          \o Items("regression", select_accumulated_regressions(Order))
          \o Items("scanner", Scans)

ItemsOf ==
    [r \in Roots |-> CASE r.phase = "a" -> BaselineItems
                       [] r.phase = "b" -> IsolatedItems(Order[r.n])
                       [] r.phase = "c" -> StageItems(r.n)
                       [] r.phase = "final" -> FinalItems]

(***************************************************************************)
(* Files of the run store.  A file is named by its root, the sequence      *)
(* number, kind and ID of its check, and what it holds; a yaml record also *)
(* has a status.                                                           *)
(***************************************************************************)
File(r, n, kind, id, holds, status) ==
    [root |-> r, seq |-> n, kind |-> kind, id |-> id, holds |-> holds, status |-> status]

(* A file of which the root has one. *)
Single(r, holds, status) == File(r, 0, "none", "none", holds, status)

CheckFile(r, n, item, status) == File(r, n, item.kind, item.id, "check", status)
IntegrityFile(r, n, item, status) == File(r, n, item.kind, item.id, "integrity", status)
PatchFile(r, n, item) == File(r, n, "patch", item.id, "patch", "passed")

(* The oracles that run before a unit's patches have the kind preapply-oracle *)
(* in the code.                                                            *)
Oracles == {"oracle", "preapply"}

(* The record written once an oracle's or a scanner's output is evaluated. *)
ResultFiles(r, n, item) ==
    IF item.kind \in Oracles \cup {"scanner"}
    THEN {File(r, n, item.kind, item.id, "result", "passed")}
    ELSE {}

CommandFiles(r, n, item) ==
    {CheckFile(r, n, item, "passed"), IntegrityFile(r, n, item, "passed")}
        \cup ResultFiles(r, n, item)

(***************************************************************************)
(* _verify_final_evidence.  `after` is the sequence number before the      *)
(* first of the commands.                                                  *)
(***************************************************************************)
(* A mutant: the first command has the number of the item before it. *)
CommandsFromAfter(r, after, kind, ids) ==
    UNION {CommandFiles(r, after + j - 1, [kind |-> kind, id |-> ids[j]]) : j \in 1..Len(ids)}

Commands(r, after, kind, ids) ==
    UNION {CommandFiles(r, after + j, [kind |-> kind, id |-> ids[j]]) : j \in 1..Len(ids)}

PatchFiles(r, after, u) ==
    {PatchFile(r, after + j, [id |-> Patches[u][j]]) : j \in 1..Len(Patches[u])}

IntegrityOnly(n, holds) == File(Final, n, "none", "none", holds, "passed")

ExpectedA ==
    LET regs == Len(SharedRegs)
        vulns == OverUnits(Vulns, ConfigUnits)
    IN  Commands(PhaseA, 0, "build", <<"build">>)
          \cup Commands(PhaseA, 1, "regression", SharedRegs)
          \cup Commands(PhaseA, 1 + regs, "oracle", vulns)
          \cup Commands(PhaseA, 1 + regs + Len(vulns), "scanner", Scans)

ExpectedB(n) ==
    LET u == Order[n]
        r == At("b", n)
        build == Len(Patches[u]) + 1
        regs == select_unit_regressions(u)
    IN  PatchFiles(r, 0, u)
          \cup Commands(r, build - 1, "build", <<"build">>)
          \cup Commands(r, build, "oracle", Vulns[u])
          \cup Commands(r, build + Len(Vulns[u]), "regression", regs)
          \cup Commands(r, build + Len(Vulns[u]) + Len(regs), "scanner", Scans)

ExpectedC(n) ==
    LET u == Order[n]
        r == At("c", n)
        build == Len(Vulns[u]) + Len(Patches[u]) + 1
        vulns == OverUnits(Vulns, Applied(n))
        regs == select_accumulated_regressions(Applied(n))
    IN  Commands(r, 0, "preapply", Vulns[u])
          \cup PatchFiles(r, Len(Vulns[u]), u)
          \cup Commands(r, build - 1, "build", <<"build">>)
          \cup Commands(r, build, "oracle", vulns)
          \cup Commands(r, build + Len(vulns), "regression", regs)
          \cup Commands(r, build + Len(vulns) + Len(regs), "scanner", Scans)

ExpectedFinal ==
    LET vulns == OverUnits(Vulns, Order)
        regs == select_accumulated_regressions(Order)
        last == 1 + Len(vulns) + Len(regs) + Len(Scans)
    IN  {IntegrityOnly(0, "initial-integrity"), IntegrityOnly(last + 1, "final-integrity")}
          \cup Commands(Final, 0, "build", <<"build">>)
          \cup Commands(Final, 1, "oracle", vulns)
          \cup Commands(Final, 1 + Len(vulns), "regression", regs)
          \cup Commands(Final, 1 + Len(vulns) + Len(regs), "scanner", Scans)

ExpectedFiles ==
    ExpectedA \cup (UNION {ExpectedB(n) \cup ExpectedC(n) : n \in Stages}) \cup ExpectedFinal
=============================================================================

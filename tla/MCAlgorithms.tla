---------------------------- MODULE MCAlgorithms ----------------------------
(***************************************************************************)
(* The pure parts of the program, each against a definition of its own of  *)
(* what it computes.  A state is one input of one of them; the runs are    *)
(* all inputs within the bounds below.                                     *)
(***************************************************************************)
EXTENDS Integers, Sequences, FiniteSets, SequencesExt

CONSTANTS MaxFindings, LastLine, MaxBody, MaxComponents   \* the bounds

ASSUME BoundsAreNumbers == {MaxFindings, LastLine, MaxBody, MaxComponents} \subseteq Nat

S == INSTANCE Scanner WITH NoLine <- LastLine + 1
H == INSTANCE Hunks
P == INSTANCE PathPolicy
C == INSTANCE Config

VARIABLE input

Upto(S_, n) == UNION {[1..k -> S_] : k \in 0..n}

-----------------------------------------------------------------------------
(* Findings                                                                *)

Finding == [id : {"i", "j"}, rank : 0..1, line : 0..LastLine, message : 1..2]
Located == [id : {"i", "j"}, rank : 0..2, line : 0..1, message : {1}]

Of(findings, id) == {findings[k] : k \in {l \in DOMAIN findings : findings[l].id = id}}
Ids(findings) == {findings[k].id : k \in DOMAIN findings}
Worst(findings, id) ==
    LET ranks == {f.rank : f \in Of(findings, id)} IN CHOOSE r \in ranks : \A q \in ranks : q <= r

FindingsInput == \E fs \in Upto(Finding, MaxFindings) : input = [of |-> "normalize", findings |-> fs]

ScansInput ==
    \E old, new \in Upto(Located, 2), threshold \in 1..2 :
       input = [of |-> "compare", old |-> old, new |-> new, threshold |-> threshold]

(***************************************************************************)
(* Whatever the order in which a tool reports them, the finding kept for   *)
(* an identity is one of the reported ones, none of the others is more     *)
(* severe, and none as severe is on an earlier line (a finding without a   *)
(* line comes last): scanner.normalize_findings.                           *)
(***************************************************************************)
NormalisationKeepsTheWorst ==
    input.of = "normalize" =>
      LET kept == S!normalize_findings(input.findings)
          Line(f) == IF f.line = 0 THEN LastLine + 1 ELSE f.line
      IN  /\ DOMAIN kept = Ids(input.findings)
          /\ \A id \in DOMAIN kept :
                /\ kept[id] \in Of(input.findings, id)
                /\ \A f \in Of(input.findings, id) :
                      \/ f.rank < kept[id].rank
                      \/ f.rank = kept[id].rank /\ Line(f) >= Line(kept[id])

(***************************************************************************)
(* A scan fails exactly for the identities whose worst report is at or     *)
(* above the threshold and is worse than every report of it in the scan it *)
(* is compared with: no duplicate hides a finding or an increase of one    *)
(* (scanner.compare_findings on what normalize_findings left of the two).  *)
(***************************************************************************)
ComparisonMissesNothing ==
    input.of = "compare" =>
      S!compare_findings(S!normalize_findings(input.old), S!normalize_findings(input.new),
                         input.threshold)
        = {id \in Ids(input.new) :
             /\ Worst(input.new, id) >= input.threshold
             /\ id \in Ids(input.old) => Worst(input.old, id) < Worst(input.new, id)}

-----------------------------------------------------------------------------
(* Diffs                                                                   *)

Line(kind, text) == [kind |-> kind, text |-> text]
BodyLine == {Line(" ", <<"x">>), Line("-", <<"x">>), Line("-", <<"--", "", "x">>),
             Line("+", <<"x">>), Line("+", <<"++", "", "x">>)}

Span(start, count) == [start |-> start, count |-> count]
Hunk(lines, more) ==
    [old |-> Span(1, Len(H!OldSide(lines))), new |-> Span(1, Len(H!NewSide(lines)) + more),
     lines |-> lines]

RenderHunk(hunk) == <<[kind |-> "@@", old |-> hunk.old, new |-> hunk.new]>> \o hunk.lines
RenderFile(file) ==
    <<Line("-", <<"--", "a/", file.path>>), Line("+", <<"++", "b/", file.path>>)>>
      \o FlattenSeq([k \in DOMAIN file.hunks |-> RenderHunk(file.hunks[k])])
Render(files) == FlattenSeq([k \in DOMAIN files |-> RenderFile(files[k])])

\* What may follow the path of a header: more of a name after a blank, or a timestamp.
MoreName == " g"
Timestamp == "\t2026-01-01"

IsHeader(diff, k) ==
    H!OldHeader(diff[k]) \/ (k > 1 /\ H!OldHeader(diff[k - 1]) /\ H!NewHeader(diff[k]))

\* The diff without what follows the paths of its headers.
Trimmed(line) == [line EXCEPT !.text = SubSeq(@, 1, 3)]
Cut(diff) == [k \in DOMAIN diff |-> IF IsHeader(diff, k) THEN Trimmed(diff[k]) ELSE diff[k]]

Noise == {"diff", "index", "blank", "no newline"}
Significant(diff) == H!LinesOf(diff, {" ", "-", "+", "@@"})

Policy == [allowed |-> {"f", "g"}, max_files |-> 1, max_lines |-> 3]

\* A patch of one hunk or two, in one file or in two.
Files(shape, first, second) ==
    CASE shape = "hunk"  -> <<[path |-> "f", hunks |-> <<first>>]>>
      [] shape = "hunks" -> <<[path |-> "f", hunks |-> <<first, second>>]>>
      [] shape = "files" -> <<[path |-> "f", hunks |-> <<first>>],
                              [path |-> "h", hunks |-> <<second>>]>>
      [] shape = "allowed" -> <<[path |-> "f", hunks |-> <<first>>],
                                [path |-> "g", hunks |-> <<second>>]>>

\* The first header or two with something after the path.
Followed(diff) ==
    {[k \in DOMAIN diff |-> IF k \in ks THEN [diff[k] EXCEPT !.text = Append(@, rest)] ELSE diff[k]] :
       ks \in {{1}, {2}, {1, 2}}, rest \in {MoreName, Timestamp}}

\* The diff as it is, with a line left out, with one more that says nothing, or
\* with another name in its second header.
Edits(diff) ==
    {diff, [diff EXCEPT ![2].text[3] = "g"]}
           \cup Followed(diff)
           \cup {RemoveAt(diff, k) : k \in DOMAIN diff}
           \cup {InsertAt(diff, k, [kind |-> kind]) : k \in DOMAIN diff, kind \in Noise}

DiffInput ==
    \E shape \in {"hunk", "hunks", "files", "allowed"}, more \in 0..1, max_files \in 1..2 :
    \E b \in Upto(BodyLine, MaxBody), c \in Upto(BodyLine, 1) :
       LET files == Files(shape, Hunk(b, more), Hunk(c, 0))
       IN  \E diff \in Edits(Render(files)) :
              input = [of |-> "parse", files |-> files, diff |-> diff,
                       policy |-> [Policy EXCEPT !.max_files = max_files]]

Hunks(files) == UNION {ToSet(files[k].hunks) : k \in DOMAIN files}

WellFormed(files, policy) ==
    /\ \A hunk \in Hunks(files) :
          /\ hunk.old.count = Cardinality({k \in DOMAIN hunk.lines : hunk.lines[k].kind # "+"})
          /\ hunk.new.count = Cardinality({k \in DOMAIN hunk.lines : hunk.lines[k].kind # "-"})
    /\ Len(files) <= policy.max_files
    /\ \A k \in DOMAIN files : files[k].path \in policy.allowed
    /\ H!ChangedLines(files) <= policy.max_lines

(***************************************************************************)
(* A diff is read whole or refused, but for what follows the path of a     *)
(* file header, which is dropped: rendering what parse_patch returns gives *)
(* the lines it was given, cut there and nowhere else, every count is that *)
(* of the lines, and the policy holds.  A diff of a patch that the policy  *)
(* allows is read as that patch, whatever follows the paths of its         *)
(* headers, unless it deletes a line that looks like one.                  *)
(***************************************************************************)
ParsedOrRefused ==
    input.of = "parse" =>
      LET p == H!parse_patch(input.diff, input.policy)
      IN  /\ p # H!Refused => /\ Render(p.files) = Significant(Cut(input.diff))
                              /\ WellFormed(p.files, input.policy)
          /\ /\ Cut(input.diff) = Render(input.files) /\ WellFormed(input.files, input.policy)
             /\ \A hunk \in Hunks(input.files) : \A k \in DOMAIN hunk.lines : ~H!OldHeader(hunk.lines[k])
             => p.files = input.files

(***************************************************************************)
(* A change of a file: the text before, between and after two hunks, the   *)
(* bodies of the hunks, and the lines (drift) that somebody has put before *)
(* the file since the diff was made.  Only hunks with an old side are      *)
(* generated: a diff without context is not one that git makes by default. *)
(***************************************************************************)
FileLine == {<<"x">>, <<"y">>}
Text == Upto(FileLine, 1)
Body == {b \in Upto({Line(kind, t) : kind \in {" ", "-", "+"}, t \in FileLine}, MaxBody) :
            H!OldSide(b) # <<>>}

ChangeInput ==
    \E before, between, drift \in Text, after \in {<<>>, <<<<"x">>>>}, b, c \in Body :
       input = [of |-> "locate", before |-> before, between |-> between, after |-> after,
                bodies |-> <<b, c>>, drift |-> drift]

OldText(b) == H!Texts(H!OldSide(b))
NewText(b) == H!Texts(H!NewSide(b))

OldFile(i) == i.before \o OldText(i.bodies[1]) \o i.between \o OldText(i.bodies[2]) \o i.after
HalfFile(i) == i.before \o NewText(i.bodies[1]) \o i.between \o OldText(i.bodies[2]) \o i.after
NewFile(i) == i.before \o NewText(i.bodies[1]) \o i.between \o NewText(i.bodies[2]) \o i.after

DiffHunk(b, old, new) ==
    [old |-> Span(old, Len(H!OldSide(b))), new |-> Span(new, Len(H!NewSide(b))), lines |-> b]

SecondAt(i, first) == Len(i.before) + Len(first) + Len(i.between) + 1

DiffHunks(i) ==
    <<DiffHunk(i.bodies[1], Len(i.before) + 1, Len(i.before) + 1),
      DiffHunk(i.bodies[2], SecondAt(i, OldText(i.bodies[1])), SecondAt(i, NewText(i.bodies[1])))>>

Occurrences(text, file) ==
    {k \in 1..Len(file) : IsPrefix(text, SubSeq(file, k, Len(file)))}

(***************************************************************************)
(* On the file that it was made from, a diff is applied where it says and  *)
(* gives the file that it was made to: no hunk is taken for ambiguous or   *)
(* put in another place, however the hunks before it change the number of  *)
(* lines (patches.locate_hunks).                                           *)
(***************************************************************************)
DiffsApplyWhereTheySay ==
    input.of = "locate" /\ input.drift = <<>> =>
      LET r == H!locate_hunks(OldFile(input), DiffHunks(input))
      IN  /\ r.ok /\ r.lines = NewFile(input)
          /\ \A k \in 1..2 : r.places[k] = DiffHunks(input)[k].new.start

(***************************************************************************)
(* On a file that has drifted, a diff still gives the same change when the *)
(* old side of each hunk is found once in the file as the hunks before it  *)
(* have left it, however far the file has moved (patches.locate_hunks).    *)
(***************************************************************************)
MovedDiffsApply ==
    /\ input.of = "locate"
    /\ Cardinality(Occurrences(OldText(input.bodies[1]), input.drift \o OldFile(input))) = 1
    /\ Cardinality(Occurrences(OldText(input.bodies[2]), input.drift \o HalfFile(input))) = 1
    => LET r == H!locate_hunks(input.drift \o OldFile(input), DiffHunks(input))
       IN  r.ok /\ r.lines = input.drift \o NewFile(input)

-----------------------------------------------------------------------------
(* Paths and patterns: sequences of components, written with slashes.      *)

Written(components) ==
    FlattenSeq([k \in DOMAIN components |->
        (IF k = 1 THEN <<>> ELSE <<"/">>) \o components[k]])

PatternComponent == {<<"a">>, <<"*">>, <<"a", "*">>, <<"*", "*">>}
PathComponent == {<<"a">>, <<"b">>, <<"a", "b">>}
Some(S_) == Upto(S_, MaxComponents) \ {<<>>}

PathInput ==
    \E pattern \in Some(PatternComponent), path \in Some(PathComponent) :
       input = [of |-> "path", pattern |-> pattern, path |-> path]

OfComponent(pattern, component) ==
    \/ pattern = component \/ pattern = <<"*">>
    \/ pattern = <<"a", "*">> /\ component[1] = "a"

\* `**` stands for any components; a pattern that ends in it, for at least one more.
Among(pattern, path) ==
    LET m == Len(pattern)
        n == Len(path)
        From[i \in 1..m + 1] ==
          [j \in 1..n + 1 |->
             IF i > m THEN j > n
             ELSE IF pattern[i] = <<"*", "*">>
             THEN IF i = m THEN j <= n ELSE \E k \in j..n + 1 : From[i + 1][k]
             ELSE j <= n /\ OfComponent(pattern[i], path[j]) /\ From[i + 1][j + 1]]
    IN  From[1][1]

(***************************************************************************)
(* A path pattern is one of components: `*` never crosses a slash, `**`    *)
(* takes whole components, none of them where more of the pattern follows  *)
(* (policy.matches_path, which goes by characters).                        *)
(***************************************************************************)
PatternsAreOfComponents ==
    input.of = "path" =>
      (P!matches_path(Written(input.pattern), Written(input.path)) <=> Among(input.pattern, input.path))

Stars(pattern) == {k \in DOMAIN pattern : "*" \in ToSet(pattern[k])}

\* The first star of the pattern begins a component after the first.
StarsBelowADirectory(pattern) ==
    \A k \in Stars(pattern) :
       (\A l \in Stars(pattern) : k <= l) => k > 1 /\ pattern[k][1] = "*"

(***************************************************************************)
(* What commands may generate and what patches change are separate: a      *)
(* pattern below a directory, or of one file, that verification lets       *)
(* through matches no path that a patch changes                            *)
(* (verify._validate_generated_path_overlaps and policy.matches_path).     *)
(***************************************************************************)
GeneratedAreSeparate ==
    /\ input.of = "path" /\ StarsBelowADirectory(input.pattern)
    /\ P!matches_path(Written(input.pattern), Written(input.path))
    => P!Overlaps(Written(input.pattern), Written(input.path))

-----------------------------------------------------------------------------
(* Campaigns                                                               *)

Unit(id, vulns, patches, adapts, regs) ==
    [id |-> id, vulns |-> vulns, patches |-> patches, adapts |-> adapts, regs |-> regs]

UnitChoice ==
    {Unit(id, vulns, patches, FALSE, regs) :
       id \in {"u", "v"}, vulns \in {<<>>, <<"x">>, <<"y">>},
       patches \in {<<"p">>, <<"p", "p">>}, regs \in {<<>>, <<"x">>, <<"y">>}}

Campaign(units, order, shared, scans) ==
    [units |-> units, order |-> order, shared |-> shared, scans |-> scans,
     severities |-> <<"low", "high">>, threshold |-> "high", goose |-> FALSE, recipe |-> FALSE]

\* The units and the names of everything; then the rest of one campaign.
NamesInput ==
    \E units \in Upto(UnitChoice, 2),
       order \in {<<>>, <<"u">>, <<"u", "u">>, <<"v", "u">>, <<"u", "v", "u">>},
       shared, scans \in {<<>>, <<"x">>, <<"z">>} :
       input = [of |-> "campaign", campaign |-> Campaign(units, order, shared, scans)]

PolicyInput ==
    \E severities \in {<<>>, <<"low">>, <<"low", "high">>, <<"high", "low", "high">>},
       threshold \in {"low", "high"}, goose, recipe, adapts \in BOOLEAN :
       input = [of |-> "campaign",
                campaign |-> [Campaign(<<Unit("u", <<"x">>, <<"p">>, adapts, <<>>)>>, <<"u">>,
                                       <<"x">>, <<"z">>)
                              EXCEPT !.severities = severities, !.threshold = threshold,
                                     !.goose = goose, !.recipe = recipe]]

(***************************************************************************)
(* The validators of models.py accept no campaign that the orchestrator    *)
(* cannot go through: see Config.IsRunnable, which is what Schedule        *)
(* assumes of its constants.                                               *)
(***************************************************************************)
AcceptedIsRunnable == input.of = "campaign" /\ C!Accepted(input.campaign) => C!IsRunnable(input.campaign)

(***************************************************************************)
(* No two commands of an accepted campaign share an entry of               *)
(* verify._evidence_declarations: every command is given the evidence that *)
(* it declares and not that of another.                                    *)
(***************************************************************************)
EvidenceIsKeptApart ==
    input.of = "campaign" /\ C!Accepted(input.campaign) => C!KeepsEvidenceApart(input.campaign)

Init == \/ FindingsInput \/ ScansInput \/ DiffInput \/ ChangeInput \/ PathInput
        \/ NamesInput \/ PolicyInput
Next == UNCHANGED input
=============================================================================

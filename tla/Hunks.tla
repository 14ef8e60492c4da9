------------------------------- MODULE Hunks -------------------------------
(***************************************************************************)
(* patches.py: parse_patch reads a diff line by line, and locate_hunks     *)
(* finds the place of every hunk in the files.                             *)
(*                                                                         *)
(* A line of a file is a sequence: <<"x">>, or <<"--", "", "x">> for one   *)
(* that begins with "-- ", and <<"++", "", "x">>.  A line of a diff is     *)
(* [kind, text] with kind " ", "-" or "+", [kind |-> "@@", old, new] with  *)
(* old and new [start, count], or [kind] with "diff", "index", "blank" or  *)
(* "no newline".  A file header is the line that begins with "-" or "+"    *)
(* and goes on as a line of a file might: <<"--", "a/", f>>, or            *)
(* <<"--", "a/", f, rest>> where the line has a rest that                  *)
(* _parse_header_path drops: all that follows the first blank or tab, a    *)
(* timestamp or more of a name (and what PurePosixPath normalises away).   *)
(* New and deleted files are as patch_policy has them by default: a header *)
(* of /dev/null is refused like one of another prefix.                     *)
(***************************************************************************)
EXTENDS Integers, SequencesExt

\* The lines of some kinds, in their order.
LinesOf(lines, kinds) ==
    LET f[n \in 0..Len(lines)] ==
          IF n = 0 THEN <<>>
          ELSE IF lines[n].kind \in kinds THEN Append(f[n - 1], lines[n]) ELSE f[n - 1]
    IN  f[Len(lines)]

OldSide(lines) == LinesOf(lines, {" ", "-"})
NewSide(lines) == LinesOf(lines, {" ", "+"})
Texts(lines) == [j \in DOMAIN lines |-> lines[j].text]

-----------------------------------------------------------------------------
(* parse_patch: Consume, line by line.  A refused diff is Refused,         *)
(* whatever was read of it.                                                *)

Nothing == [state |-> "top", old |-> "", files |-> <<>>]
Refused == [Nothing EXCEPT !.state = "refused"]

OldHeader(line) == line.kind = "-" /\ line.text[1] = "--"
NewHeader(line) == line.kind = "+" /\ line.text[1] = "++"

(* A mutant: only the lines of the old side are counted. *)
OldCountHolds(hunk) == Len(OldSide(hunk.lines)) = hunk.old.count

CountsHold(hunk) ==
    /\ Len(OldSide(hunk.lines)) = hunk.old.count
    /\ Len(NewSide(hunk.lines)) = hunk.new.count

Unfinished(p) ==
    \/ p.state = "old"
    \/ p.state = "file"
    \/ (p.state = "body" /\ ~CountsHold(Last(Last(p.files).hunks)))

\* _parse_header_path: the path that a header is taken to name.
PathOf(line) == line.text[3]

\* --- a/f: the hunk before it has ended, and the file has hunks.
StartFile(p, line) ==
    IF Unfinished(p) \/ line.text[2] # "a/" THEN Refused
    ELSE [p EXCEPT !.state = "old", !.old = PathOf(line)]

\* +++ b/f: the same path (_validate_file_state), and one that patches may change.
NameFile(p, line, policy) ==
    IF line.text[2] # "b/" \/ PathOf(line) # p.old \/ p.old \notin policy.allowed THEN Refused
    ELSE [p EXCEPT !.state = "file", !.files = Append(@, [path |-> p.old, hunks |-> <<>>])]

AddHunk(p, line) ==
    LET hunk == [old |-> line.old, new |-> line.new, lines |-> <<>>]
    IN  IF p.state = "file" \/ (p.state = "body" /\ ~Unfinished(p))
        THEN [p EXCEPT !.state = "body", !.files[Len(p.files)].hunks = Append(@, hunk)]
        ELSE Refused

AddLine(p, line) ==
    LET f == Len(p.files)
        h == Len(p.files[f].hunks)
    IN  [p EXCEPT !.files[f].hunks[h].lines = Append(@, line)]

Consume(p, line, policy) ==
    IF p.state = "refused" THEN p
    ELSE IF p.state = "old"
    THEN IF NewHeader(line) THEN NameFile(p, line, policy) ELSE Refused
    ELSE IF OldHeader(line) THEN StartFile(p, line)
    ELSE CASE line.kind = "@@" -> AddHunk(p, line)
           [] line.kind = "diff" -> IF Unfinished(p) THEN Refused ELSE [p EXCEPT !.state = "top"]
           [] line.kind \in {"index", "blank"} -> IF p.state = "body" THEN Refused ELSE p
           [] line.kind = "no newline" -> IF p.state = "body" THEN p ELSE Refused
           [] OTHER -> IF p.state = "body" THEN AddLine(p, line) ELSE Refused

Bodies(files) ==
    FlattenSeq([k \in DOMAIN files |->
        FlattenSeq([h \in DOMAIN files[k].hunks |-> files[k].hunks[h].lines])])

ChangedLines(files) == Len(LinesOf(Bodies(files), {"-", "+"}))

\* What has been read when all lines have been.
After(diff, policy) ==
    LET f[n \in 0..Len(diff)] ==
          IF n = 0 THEN Nothing ELSE Consume(f[n - 1], diff[n], policy)
    IN  f[Len(diff)]

\* policy: [allowed, max_files, max_lines].
parse_patch(diff, policy) ==
    LET p == After(diff, policy)
    IN  IF \/ p.state = "refused" \/ Unfinished(p) \/ p.files = <<>>
           \/ Len(p.files) > policy.max_files
           \/ ChangedLines(p.files) > policy.max_lines
        THEN Refused
        ELSE [p EXCEPT !.state = "parsed"]

-----------------------------------------------------------------------------
(* locate_hunks.  A place is the line, from 1, at which a hunk is applied. *)

Slice(lines, at, width) == SubSeq(lines, at, Min({at + width - 1, Len(lines)}))

(* A mutant: the last place is not looked at. *)
StartsButTheLast(lines, old) ==
    {at \in 1..Len(lines) - Len(old) : Slice(lines, at, Len(old)) = old}

\* _matching_starts
MatchingStarts(lines, old) ==
    IF old = <<>> THEN {Len(lines) + 1}
    ELSE {at \in 1..Len(lines) - Len(old) + 1 : Slice(lines, at, Len(old)) = old}

Expected(hunk, offset) == Max({1, hunk.old.start + offset})

\* Where the hunk goes: where it says, or at the only place with its old side.
Places(lines, old, expected) ==
    IF Slice(lines, expected, Len(old)) = old THEN {expected} ELSE MatchingStarts(lines, old)

Applied(lines, at, width, new) ==
    SubSeq(lines, 1, Min({at - 1, Len(lines)})) \o new \o SubSeq(lines, at + width, Len(lines))

(* A mutant: a hunk is looked for as if those before it had changed no count. *)
OffsetForgotten(offset, hunk) == offset

OffsetAfter(offset, hunk) == offset + hunk.new.count - hunk.old.count

\* r: [ok, lines, offset, places], of one file.
Locate(r, hunk) ==
    LET old == Texts(OldSide(hunk.lines))
        new == Texts(NewSide(hunk.lines))
        places == Places(r.lines, old, Expected(hunk, r.offset))
    IN  IF ~r.ok \/ Cardinality(places) # 1 THEN [r EXCEPT !.ok = FALSE]
        ELSE LET at == CHOOSE p \in places : TRUE
             IN  [ok |-> TRUE,
                  lines |-> Applied(r.lines, at, Len(old), new),
                  offset |-> OffsetAfter(r.offset, hunk),
                  places |-> Append(r.places, at)]

locate_hunks(lines, hunks) ==
    FoldLeft(Locate, [ok |-> TRUE, lines |-> lines, offset |-> 0, places |-> <<>>], hunks)
=============================================================================

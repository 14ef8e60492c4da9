----------------------------- MODULE PathPolicy -----------------------------
(***************************************************************************)
(* policy.matches_path and the check of verify.py that generated paths do  *)
(* not overlap with what patches change.  Patterns and paths are sequences *)
(* of characters.                                                          *)
(***************************************************************************)
EXTENDS Integers, SequencesExt

At(s, i) == IF i <= Len(s) THEN s[i] ELSE "end"

(***************************************************************************)
(* The regular expression: a sequence of characters, "any" (.* ), "within" *)
(* ([^/]* ) and "dirs" ((?:.*/)?).                                         *)
(***************************************************************************)
(* A mutant: the slash after `**` is not optional. *)
AlwaysSlash(pattern, i) == FALSE

\* Is there a slash after the two stars at i that belongs to them?
DirsAt(pattern, i) == At(pattern, i + 2) = "/"

Expression(pattern) ==
    LET From[i \in 1..Len(pattern) + 1] ==
          IF i > Len(pattern) THEN <<>>
          ELSE IF pattern[i] # "*" THEN <<pattern[i]>> \o From[i + 1]
          ELSE IF At(pattern, i + 1) # "*" THEN <<"within">> \o From[i + 1]
          ELSE IF DirsAt(pattern, i) THEN <<"dirs">> \o From[i + 3]
          ELSE <<"any">> \o From[i + 2]
    IN  From[1]

\* re.fullmatch: what the rest of the expression, from i, may match of the path, from j.
FullMatch(expression, path) ==
    LET n == Len(path)
        Matches[i \in 1..Len(expression) + 1] ==
          [j \in 1..n + 1 |->
             IF i > Len(expression) THEN j > n
             ELSE \/ expression[i] = "any" /\ \E k \in j..n + 1 : Matches[i + 1][k]
                  \/ /\ expression[i] = "within"
                     /\ \E k \in j..n + 1 :
                           (\A l \in j..k - 1 : path[l] # "/") /\ Matches[i + 1][k]
                  \/ /\ expression[i] = "dirs"
                     /\ \/ Matches[i + 1][j]
                        \/ \E k \in j..n : path[k] = "/" /\ Matches[i + 1][k + 1]
                  \/ /\ expression[i] \notin {"any", "within", "dirs"}
                     /\ j <= n /\ path[j] = expression[i] /\ Matches[i + 1][j + 1]]
    IN  Matches[1][1]

matches_path(pattern, path) == FullMatch(Expression(pattern), path)

\* enforce_path_policy: a denied path is not allowed, whatever allows it.
enforce_path_policy(path, allowed, denied) ==
    /\ ~ \E pattern \in denied : matches_path(pattern, path)
    /\ \E pattern \in allowed : matches_path(pattern, path)

-----------------------------------------------------------------------------
(* _validate_generated_path_overlaps                                       *)

\* pattern.split("*", 1)[0].rstrip("/")
BeforeStar(pattern) ==
    LET stars == {i \in 1..Len(pattern) : pattern[i] = "*"}
    IN  IF stars = {} THEN pattern
        ELSE SubSeq(pattern, 1, (CHOOSE i \in stars : \A j \in stars : i <= j) - 1)

(* A mutant: the slash at the end stays, and two follow each other. *)
KeepSlash(s) == s

StripSlash(s) ==
    LET kept == {i \in 0..Len(s) : \A j \in i + 1..Len(s) : s[j] = "/"}
    IN  SubSeq(s, 1, CHOOSE i \in kept : \A j \in kept : i <= j)

StaticPrefix(pattern) == StripSlash(BeforeStar(pattern))

Overlaps(pattern, changed) ==
    LET prefix == StaticPrefix(pattern)
    IN  changed = prefix \/ IsPrefix(Append(prefix, "/"), changed)
=============================================================================

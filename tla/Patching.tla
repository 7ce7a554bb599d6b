------------------------------ MODULE Patching ------------------------------
(***************************************************************************)
(* src/patch: a unified diff of two texts is applied, hunk by hunk, to a   *)
(* file that is the first of them, perhaps with lines put before it since; *)
(* or reversed, to the second.                                             *)
(*                                                                         *)
(* difflib, which makes the diff, is external: the texts differ in one or  *)
(* two places, by a line at most, so far apart that each has a hunk of its *)
(* own.  A line is "a", "b" or, at the end of a text alone, "c": a line    *)
(* without a newline.                                                      *)
(***************************************************************************)
EXTENDS Integers, Sequences, SequencesExt

CONSTANTS
  Contexts,     \* context_lines of the diff; its default is 3
  Fronts,       \* the lines before the first place where the texts differ,
  Gaps,         \* between the two
  Backs         \* and after the second

ASSUME PatchingAssumption ==
  Contexts \subseteq Nat /\ Fronts \cup Gaps \cup Backs \subseteq Seq({"a", "b"})

VARIABLES
  hunks,        \* those still to be applied
  lines,        \* the file
  expected,     \* the text that was meant
  offset, applied, failed,
  drifted,      \* lines were put before the text
  reversed,     \* the parameter reverse
  ambiguous,    \* history: a hunk fitted at more than one place
  astray        \* history: a hunk without old lines, and the file not empty

patchVars == <<hunks, lines, expected, offset, applied, failed, drifted, reversed,
               ambiguous, astray>>

EndOf(c, s) == SubSeq(s, IF c < Len(s) THEN Len(s) - c + 1 ELSE 1, Len(s))
StartOf(c, s) == SubSeq(s, 1, IF c < Len(s) THEN c ELSE Len(s))

\* _make_unified_diff and _parse_hunks: where old lines `del` between `before`
\* and `after` become `ins`, `shift` lines later in the new text.  A range
\* without lines is that after the line it names.  join sets the first new
\* line behind an old one without a newline, so that the hunk is read as one
\* that fits nowhere.
Hunk(c, before, del, ins, after, shift) ==
  LET old == EndOf(c, before) \o del \o StartOf(c, after)
      new == EndOf(c, before) \o ins \o StartOf(c, after)
      first == Len(before) - Len(EndOf(c, before))
  IN [oldStart |-> first + (IF old = <<>> THEN 0 ELSE 1), old |-> old,
      newStart |-> first + shift + (IF new = <<>> THEN 0 ELSE 1), new |-> new,
      joined |-> del # <<>> /\ ins # <<>> /\ Last(del) = "c"]

Reversed(h) == [oldStart |-> h.newStart, old |-> h.new,
                newStart |-> h.oldStart, new |-> h.old, joined |-> h.joined]

Replacements == {r \in {<<>>, <<"a">>, <<"b">>} \X {<<>>, <<"a">>, <<"b">>} : r[1] # r[2]}
LastReplacements == {r \in {<<>>, <<"a">>, <<"c">>} \X {<<>>, <<"a">>, <<"c">>} : r[1] # r[2]}
NoChange == <<<<>>, <<>>>>

PatchInit ==
  /\ \E c \in Contexts, reverse \in BOOLEAN, front \in Fronts, one \in Replacements,
        two \in LastReplacements \cup {NoChange}, back \in Backs,
        drift \in {<<>>, <<"a">>, <<"b", "a">>} :
     \E between \in {g \in Gaps : Len(g) > 2 * c} :
       LET was == front \o one[1] \o between \o two[1] \o back
           becomes == front \o one[2] \o between \o two[2] \o back
           shift == Len(one[2]) - Len(one[1])
           diff == <<Hunk(c, front, one[1], one[2], between \o two[1] \o back, 0)>> \o
             (IF two = NoChange THEN <<>>
              ELSE <<Hunk(c, front \o one[1] \o between, two[1], two[2], back, shift)>>)
       IN /\ back # <<>> => <<"c">> \notin {two[1], two[2]}
          /\ reversed = reverse /\ drifted = (drift # <<>>)
          /\ lines = drift \o (IF reverse THEN becomes ELSE was)
          /\ expected = drift \o (IF reverse THEN was ELSE becomes)
          /\ hunks = IF reverse THEN [i \in DOMAIN diff |-> Reversed(diff[i])] ELSE diff
  /\ offset = 0 /\ applied = 0 /\ failed = 0 /\ ambiguous = FALSE /\ astray = FALSE

-----------------------------------------------------------------------------
\* lines[pos:pos + old_len] == old_lines.  A position before the first line,
\* of a hunk without old lines, counts from the end.
Fits(h, pos) ==
  /\ ~ h.joined
  /\ \/ h.old = <<>>
     \/ /\ pos >= 0 /\ pos + Len(h.old) <= Len(lines)
        /\ SubSeq(lines, pos + 1, pos + Len(h.old)) = h.old

Where(pos) ==
  CASE pos < 0 -> IF lines = <<>> THEN 0 ELSE Len(lines) - 1
    [] pos >= 0 -> IF pos < Len(lines) THEN pos ELSE Len(lines)

\* Where the hunk is put: where it says, or else at the first place that fits
\* from five lines before to five lines after; none when it fits nowhere.
Place(h) ==
  LET start == h.oldStart - 1 + offset
      near == {p \in (start - 5)..(start + 5) :
                 p >= 0 /\ p + Len(h.old) <= Len(lines) /\ Fits(h, p)}
  IN IF Fits(h, start) THEN {start} ELSE {p \in near : \A q \in near : p <= q}

\* A round of the loop of _apply_diff; what fails is skipped, and the file is
\* written with the others.
ApplyHunk ==
  LET h == Head(hunks)
      moved == Len(h.new) - Len(h.old)
  IN /\ hunks # <<>> /\ hunks' = Tail(hunks)
     /\ IF Place(h) = {}
        THEN failed' = failed + 1 /\ UNCHANGED <<lines, offset, applied>>
        ELSE \E p \in Place(h) :
               /\ lines' = SubSeq(lines, 1, Where(p)) \o h.new
                             \o SubSeq(lines, Where(p) + Len(h.old) + 1, Len(lines))
               /\ offset' = offset + moved /\ applied' = applied + 1 /\ UNCHANGED failed
     /\ ambiguous' = (ambiguous \/ \E p, q \in 0..Len(lines) : p # q /\ Fits(h, p) /\ Fits(h, q))
     /\ astray' = (astray \/ (h.old = <<>> /\ lines # <<>>))
     /\ UNCHANGED <<expected, drifted, reversed>>

-----------------------------------------------------------------------------
PatchTypeOK ==
  /\ ToSet(lines) \cup ToSet(expected) \subseteq {"a", "b", "c"}
  /\ applied + failed + Len(hunks) <= 2 /\ offset \in -2..2

\* A diff that is applied to its own text, or reversed on its result, makes
\* the other, unless a hunk has no old lines, which is put one line too early,
\* or replaces a line without a newline.
PatchIsExact ==
  hunks = <<>> /\ ~ drifted /\ ~ astray /\ failed = 0 => lines = expected
NothingFails ==
  ~ drifted /\ (\A i \in DOMAIN hunks : ~ hunks[i].joined) /\ failed = 0 /\ ~ astray =>
    hunks = <<>> \/ Place(Head(hunks)) # {}

\* On a text that moved by a few lines, it does so when all hunks are applied
\* and none of them fitted at two places.
DriftIsFollowed ==
  hunks = <<>> /\ failed = 0 /\ ~ ambiguous => lines = expected

PatchesApply == PatchIsExact /\ NothingFails /\ DriftIsFollowed
=============================================================================

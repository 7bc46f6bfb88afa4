---------------------------- MODULE UnifiedDiff -----------------------------
(***************************************************************************)
(* patch_file for diffs that somebody made of two versions of a file.      *)
(*                                                                         *)
(* An edit script goes through the old version line by line and says of    *)
(* each line that it stays or is deleted, and which lines are inserted.    *)
(* The script determines both versions and the unified diff between them,  *)
(* so what patching must give is known without looking at the code.        *)
(* The file that is patched is the old version, or one in which somebody   *)
(* has meanwhile inserted or deleted a line; or the diff has been written  *)
(* by hand, by a model say, and counts the lines of the file wrong.        *)
(***************************************************************************)
EXTENDS Patch, SequencesExt

CONSTANTS
    Context,        \* how many unchanged lines a diff shows around a change
    MaxScript,      \* bound: length of the edit script
    MaxShift,       \* bound: by how much the numbers of a diff may be wrong
    FinalNewlines   \* whether the text of the diff may, or must, end with a newline

ASSUME DiffParameters ==
    /\ Context \in Nat
    /\ MaxScript \in Nat
    /\ MaxShift \in Nat
    /\ FinalNewlines \subseteq BOOLEAN

VARIABLES
    script,     \* the edit script; never changes
    shift,      \* how far the numbers of the diff are too high; never changes
    newline     \* whether the text of the diff ends with a newline; never changes

diffVars == <<vars, script, shift, newline>>

DiffLine == [op : Ops, text : Texts]

TextsOf(ds) == [i \in DOMAIN ds |-> ds[i].text]

Old(es) == LET IsOld(d) == d.op # "+" IN TextsOf(SelectSeq(es, IsOld))
New(es) == LET IsNew(d) == d.op # "-" IN TextsOf(SelectSeq(es, IsNew))

\* The entries of the script that the diff shows
Shown(es) == {i \in DOMAIN es : \E j \in DOMAIN es :
                 es[j].op # " " /\ j - Context <= i /\ i <= j + Context}

\* The first and last entries of the hunks, in order
HunkRanges(es) ==
    LET shown == Shown(es)
        starts == {i \in shown : i - 1 \notin shown}
        ends == {i \in shown : i + 1 \notin shown}
        Ascending(x, y) == x < y
        first == SetToSortSeq(starts, Ascending)
        last == SetToSortSeq(ends, Ascending)
    IN [k \in DOMAIN first |-> <<first[k], last[k]>>]

\* The number in the header is the first old line, or, if the hunk shows none,
\* the last old line before it
HeaderOf(es, range) ==
    LET before == Len(Old(SubSeq(es, 1, range[1] - 1)))
        shown == Old(SubSeq(es, range[1], range[2]))
    IN HunkHeader(shift + IF shown = <<>> THEN before ELSE before + 1)

\* style: context lines as diff writes them, with the space of an empty one
\* stripped by an editor, or without any space before them
WriteLine(d, style) ==
    CASE d.op = " " /\ d.text = Blank /\ style # "diff" -> EmptyLine
      [] d.op = " " /\ style = "bare" -> Bare(d.text)
      [] OTHER -> Written(d.op, d.text)

Styles == {"diff", "stripped", "bare"}

\* A text that ends with a newline has an empty line behind it when it is split at
\* its newlines
Ending(closed) == IF closed THEN EmptyLine ELSE Mark

DiffOf(es, style, closed) ==
    LET WriteHunk(range) ==
            <<HeaderOf(es, range)>>
            \o [i \in 1 .. range[2] - range[1] + 1 |->
                    WriteLine(es[range[1] + i - 1], style)]
        ranges == HunkRanges(es)
    IN <<FileHeader, FileHeader>>
       \o FlattenSeq([k \in DOMAIN ranges |-> WriteHunk(ranges[k])])
       \o <<Ending(closed)>>

\* What somebody else may have made of the old version
Touched(s) ==
    {RemoveAt(s, i) : i \in DOMAIN s}
    \cup {InsertAt(s, i, t) : i \in 1 .. Len(s) + 1, t \in Texts}

DiffInit ==
    /\ script \in BoundedSeq(DiffLine, MaxScript)
    /\ newline \in FinalNewlines
    /\ \/ /\ shift = 0
          /\ file = Old(script)
          /\ \E style \in Styles : patch = DiffOf(script, style, newline)
       \/ /\ shift = 0
          /\ file \in Touched(Old(script))
          /\ patch = DiffOf(script, "diff", newline)
       \/ /\ shift \in 1 .. MaxShift
          /\ file = Old(script)
          /\ patch = DiffOf(script, "diff", newline)
    /\ current = Nil
    /\ hunks = <<>>
    /\ lines = file
    /\ offset = 0
    /\ outcome = "parsing"
    /\ reach = 0
    /\ inOrder = TRUE

DiffSpec == DiffInit /\ [][Next /\ UNCHANGED <<script, shift, newline>>]_diffVars

-----------------------------------------------------------------------------

\* The diff of two versions turns the one into the other (FR-008: "The patch
\* format follows standard unified diff").  The code does not keep this for a diff
\* whose text ends with a newline, as that of every tool does: ParsePatch takes the
\* empty string behind the last newline for one more context line.
DiffApplies ==
    Ended /\ shift = 0 /\ file = Old(script) =>
        IF Shown(script) = {}
        THEN outcome = "noHunks"
        ELSE outcome = "patched" /\ lines = New(script)

\* What the hunks of a diff say of a file, all at once and by its own line
\* numbers: each hunk's old lines stand at its place, and only they are replaced
Spliced(hs, f) ==
    LET End(k) == IF k = 0 THEN 0 ELSE OldIdx(hs[k]) + Len(hs[k].old)
        Piece(k) == SubSeq(f, End(k - 1) + 1, OldIdx(hs[k])) \o hs[k].new
    IN FlattenSeq([k \in DOMAIN hs |-> Piece(k)]) \o SubSeq(f, End(Len(hs)) + 1, Len(f))

\* The hunks that the script's diff consists of
HunksOf(es) ==
    LET ranges == HunkRanges(es)
        Shows(k) == SubSeq(es, ranges[k][1], ranges[k][2])
    IN [k \in DOMAIN ranges |->
           [oldStart |-> HeaderOf(es, ranges[k]).oldStart,
            old |-> Old(Shows(k)), new |-> New(Shows(k))]]

\* All hunks or none (NFR-015): whatever the diff's text ends with, a file is
\* patched only if every hunk fits where its number says, and then exactly there:
\* lines added by one hunk never make the next one miss its place.  This is also
\* so for a file that somebody has touched and for a diff that counts wrong.
\* Otherwise the call fails and writes nothing; a hunk that fits fails only over
\* the empty line behind a final newline, and the error is a panic only for a hunk
\* that has no line to compare.
FitsOrFails ==
    Ended /\ outcome # "noHunks" =>
        LET hs == HunksOf(script)
            fits == \A k \in DOMAIN hs : Matches(file, hs[k], OldIdx(hs[k]))
        IN \/ fits /\ outcome = "patched" /\ lines = Spliced(hs, file)
           \/ (fits => newline) /\ outcome = "mismatch"
           \/ ~fits /\ outcome = "panic" /\ \E k \in DOMAIN hs : hs[k].old = <<>>

=============================================================================

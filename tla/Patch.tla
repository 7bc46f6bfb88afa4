------------------------------- MODULE Patch --------------------------------
(***************************************************************************)
(* ParsePatch and ApplyPatch of internal/filesystem/patch.go: patch_file   *)
(* reads a unified diff line by line into hunks and applies the hunks in   *)
(* order to the lines of a file, keeping in offset how far the lines have  *)
(* moved.                                                                  *)
(*                                                                         *)
(* The text of a line is a member of Texts.  A line of a diff is its kind, *)
(* the texts it carries and, for a hunk header, the only number the code   *)
(* uses, OldStart.  The file's content is the sequence of its lines: the   *)
(* result of ApplyPatch ends with a newline whether the file did or not.   *)
(***************************************************************************)
EXTENDS Integers, Sequences

CONSTANTS
    Texts,      \* the texts of lines
    Blank,      \* the empty text
    Dashed,     \* the texts that begin with "--" or with "++"
    Nil         \* no hunk

ASSUME PatchParameters ==
    /\ Blank \in Texts
    /\ Dashed \subseteq Texts

Ops == {" ", "-", "+"}

\* A hunk by what it expects to find, its " " and "-" lines, and by what it leaves
\* in their place, its " " and "+" lines
Hunk == [oldStart : Nat, old : Seq(Texts), new : Seq(Texts)]

ASSUME NilIsNoHunk == Nil \notin Hunk

VARIABLES
    patch,      \* the lines of the diff that have not been read
    current,    \* the hunk that is being read
    hunks,      \* the hunks that have been read and not been applied
    file,       \* the content of the file when patch_file read it
    lines,      \* origLines: the file with the hunks applied so far
    offset,     \* lines inserted minus lines deleted so far
    outcome,    \* of the call
    reach,      \* history: where in the file the last applied hunk ended
    inOrder     \* history: no hunk began before the end of the one before it

parseVars == <<patch, current, hunks>>
applyVars == <<file, lines, offset, reach, inOrder>>
vars == <<parseVars, applyVars, outcome>>

PatchLine == [kind : {"file", "empty", "mark"}]
             \cup [kind : {"hunk"}, oldStart : Nat]
             \cup [kind : {"body"}, op : Ops, text : Texts]
             \cup [kind : {"bare"}, text : Texts]

Outcomes == {"parsing", "applying", "patched", "noHunks", "mismatch", "panic"}

TypeOK ==
    /\ patch \in Seq(PatchLine)
    /\ current \in Hunk \cup {Nil}
    /\ hunks \in Seq(Hunk)
    /\ file \in Seq(Texts)
    /\ lines \in Seq(Texts)
    /\ offset \in Int
    /\ outcome \in Outcomes
    /\ reach \in Nat
    /\ inOrder \in BOOLEAN

\* Any file and any diff
Init ==
    /\ patch \in Seq(PatchLine)
    /\ file \in Seq(Texts)
    /\ current = Nil
    /\ hunks = <<>>
    /\ lines = file
    /\ offset = 0
    /\ outcome = "parsing"
    /\ reach = 0
    /\ inOrder = TRUE

-----------------------------------------------------------------------------
(***************************************************************************)
(* ParsePatch.  A diff line is read by its first bytes.                    *)
(***************************************************************************)

FileHeader == [kind |-> "file"]             \* "--- a/f", "+++ b/f"
HunkHeader(n) == [kind |-> "hunk", oldStart |-> n]
Body(op, text) == [kind |-> "body", op |-> op, text |-> text]
EmptyLine == [kind |-> "empty"]             \* nothing, not even a space
Mark == [kind |-> "mark"]                   \* "\ No newline at end of file"
Bare(text) == [kind |-> "bare", text |-> text]  \* a context line without its space

\* How a diff line reads: "-" before a text in "--" looks like a file header
Written(op, text) == IF op # " " /\ text \in Dashed THEN FileHeader ELSE Body(op, text)

Started(h) == IF h = Nil THEN <<>> ELSE <<h>>

AddLine(h, op, text) ==
    [h EXCEPT !.old = IF op = "+" THEN @ ELSE Append(@, text),
              !.new = IF op = "-" THEN @ ELSE Append(@, text)]

\* The line is left out: a file header, anything before the first hunk, the mark
SkipLine ==
    /\ outcome = "parsing"
    /\ patch # <<>>
    /\ \/ Head(patch).kind \in {"file", "mark"}
       \/ Head(patch).kind # "hunk" /\ current = Nil
    /\ patch' = Tail(patch)
    /\ UNCHANGED <<current, hunks, applyVars, outcome>>

StartHunk ==
    /\ outcome = "parsing"
    /\ patch # <<>>
    /\ Head(patch).kind = "hunk"
    /\ hunks' = hunks \o Started(current)
    /\ current' = [oldStart |-> Head(patch).oldStart, old |-> <<>>, new |-> <<>>]
    /\ patch' = Tail(patch)
    /\ UNCHANGED <<applyVars, outcome>>

\* An empty line is an empty context line, a bare line a context line
Parsed(h, line) ==
    IF line.kind = "empty" THEN AddLine(h, " ", Blank)
    ELSE AddLine(h, IF line.kind = "body" THEN line.op ELSE " ", line.text)

ReadLine ==
    /\ outcome = "parsing"
    /\ patch # <<>>
    /\ current # Nil
    /\ Head(patch).kind \in {"empty", "body", "bare"}
    /\ current' = Parsed(current, Head(patch))
    /\ patch' = Tail(patch)
    /\ UNCHANGED <<hunks, applyVars, outcome>>

EndOfPatch ==
    /\ outcome = "parsing"
    /\ patch = <<>>
    /\ hunks' = hunks \o Started(current)
    /\ current' = Nil
    /\ outcome' = IF hunks' = <<>> THEN "noHunks" ELSE "applying"
    /\ UNCHANGED <<patch, applyVars>>

-----------------------------------------------------------------------------
(***************************************************************************)
(* ApplyPatch.  Positions count from 0 as in the code: line k of the file  *)
(* is lines[k + 1].                                                        *)
(***************************************************************************)

\* Where in the original file the hunk begins
OldIdx(h) == IF h.oldStart = 0 THEN 0 ELSE h.oldStart - 1

\* Mutant of StartIdx: the lines inserted so far are not counted
StartIdxUnmoved(h, off) == OldIdx(h)

StartIdx(h, off) == OldIdx(h) + off

\* The lines that the hunk keeps and deletes are there
Matches(s, h, start) ==
    /\ start + Len(h.old) <= Len(s)
    /\ \A k \in 1 .. Len(h.old) : s[start + k] = h.old[k]

\* A slice bound that is out of range: before the first line, or, for a hunk
\* with nothing to compare, behind the last one
OutOfRange(s, h, start) ==
    \/ start < 0
    \/ h.old = <<>> /\ start > Len(s)

Replaced(s, start, oldLen, new) ==
    SubSeq(s, 1, start) \o new \o SubSeq(s, start + oldLen + 1, Len(s))

ApplyHunk ==
    /\ outcome = "applying"
    /\ hunks # <<>>
    /\ LET h == Head(hunks)
           start == StartIdx(h, offset)
           oldLen == Len(h.old) IN
       /\ ~OutOfRange(lines, h, start)
       /\ Matches(lines, h, start)
       /\ lines' = Replaced(lines, start, oldLen, h.new)
       /\ offset' = offset + Len(h.new) - oldLen
       /\ reach' = OldIdx(h) + oldLen
       /\ inOrder' = (inOrder /\ OldIdx(h) >= reach)
    /\ hunks' = Tail(hunks)
    /\ UNCHANGED <<patch, current, file, outcome>>

\* The call ends with an error, or with a panic that closes the connection.
\* Either way patch_file has not written anything.
HunkFails ==
    /\ outcome = "applying"
    /\ hunks # <<>>
    /\ LET h == Head(hunks)
           start == StartIdx(h, offset) IN
       \/ OutOfRange(lines, h, start) /\ outcome' = "panic"
       \/ ~OutOfRange(lines, h, start) /\ ~Matches(lines, h, start) /\ outcome' = "mismatch"
    /\ UNCHANGED <<parseVars, applyVars>>

Finished ==
    /\ outcome = "applying"
    /\ hunks = <<>>
    /\ outcome' = "patched"
    /\ UNCHANGED <<parseVars, applyVars>>

Ended == outcome \in {"patched", "noHunks", "mismatch", "panic"}

Next ==
    \/ SkipLine \/ StartHunk \/ ReadLine \/ EndOfPatch
    \/ ApplyHunk \/ HunkFails \/ Finished

Spec == Init /\ [][Next]_vars

-----------------------------------------------------------------------------

\* While hunks come in the order of the file, what lies behind the last one is
\* the rest of the file, moved by offset: the line numbers of the next hunk,
\* which speak of the file, find the right lines (ApplyPatch, startIdx).
OffsetFindsLines ==
    /\ Len(lines) = Len(file) + offset
    /\ inOrder =>
          /\ reach <= Len(file)
          /\ reach + offset >= 0
          /\ \A k \in reach + 1 .. Len(file) : lines[k + offset] = file[k]

\* A slice is out of bounds only for a hunk that is out of order, or one that
\* has no line to compare (ApplyPatch, origLines[:startIdx]).
PanicNeedsCause ==
    outcome = "panic" =>
        \/ ~inOrder
        \/ OldIdx(Head(hunks)) < reach
        \/ Head(hunks).old = <<>>

=============================================================================

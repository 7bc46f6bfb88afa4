---------------------------- MODULE Patch_proofs ----------------------------
(***************************************************************************)
(* Proofs about Patch: whatever the file and the diff, the offset leads to *)
(* the lines the hunks speak of, and ApplyPatch slices within bounds but   *)
(* for the two causes PanicNeedsCause names.                               *)
(***************************************************************************)
EXTENDS Patch, SequenceTheorems, TLAPS

\* The result of replacing a part of a sequence, by its length and its elements
\* behind the part
LEMMA ReplacedProperties ==
    ASSUME NEW s \in Seq(Texts), NEW new \in Seq(Texts),
           NEW start \in Nat, NEW oldLen \in Nat, start + oldLen <= Len(s)
    PROVE  LET r == Replaced(s, start, oldLen, new) IN
           /\ r \in Seq(Texts)
           /\ Len(r) = Len(s) + Len(new) - oldLen
           /\ \A j \in start + Len(new) + 1 .. Len(r) : r[j] = s[j - Len(new) + oldLen]
<1> DEFINE a == SubSeq(s, 1, start)
           b == SubSeq(s, start + oldLen + 1, Len(s))
           ab == a \o new
<1>1. Len(s) \in Nat /\ \A i \in 1 .. Len(s) : s[i] \in Texts
    BY LenProperties, ElementOfSeq
<1>2. a \in Seq(Texts) /\ Len(a) = start
  <2>1. \A i \in 1 .. start : s[i] \in Texts
      BY <1>1
  <2>2. a \in Seq(Texts) /\ Len(a) = IF 1 <= start THEN start - 1 + 1 ELSE 0
      BY <2>1, SubSeqProperties
  <2> QED BY <2>2
<1>3. /\ b \in Seq(Texts)
      /\ Len(b) = Len(s) - start - oldLen
      /\ \A i \in 1 .. Len(b) : b[i] = s[start + oldLen + i]
  <2> DEFINE m == start + oldLen + 1
  <2>1. m \in Int /\ \A i \in m .. Len(s) : s[i] \in Texts
      BY <1>1
  <2>2. /\ SubSeq(s, m, Len(s)) \in Seq(Texts)
        /\ Len(SubSeq(s, m, Len(s))) = IF m <= Len(s) THEN Len(s) - m + 1 ELSE 0
        /\ \A i \in 1 .. Len(s) - m + 1 : SubSeq(s, m, Len(s))[i] = s[m + i - 1]
      BY <2>1, <1>1, SubSeqProperties
  <2> QED BY <2>2, <1>1
<1> HIDE DEF a, b
<1>4. /\ ab \in Seq(Texts)
      /\ Len(ab) = start + Len(new)
    BY <1>2, ConcatProperties
<1> HIDE DEF ab
<1>5. /\ ab \o b \in Seq(Texts)
      /\ Len(ab \o b) = Len(ab) + Len(b)
      /\ \A i \in 1 .. Len(ab) + Len(b) :
            (ab \o b)[i] = IF i <= Len(ab) THEN ab[i] ELSE b[i - Len(ab)]
  <2>1. ab \in Seq(Texts) /\ b \in Seq(Texts)
      BY <1>3, <1>4
  <2> QED BY <2>1, ConcatProperties, Zenon
<1>6. Replaced(s, start, oldLen, new) = ab \o b
    BY DEF Replaced, a, b, ab
<1>7. Len(new) \in Nat
    BY LenProperties
<1>8. Len(ab \o b) = Len(s) + Len(new) - oldLen
    BY <1>1, <1>3, <1>4, <1>5, <1>7
<1>9. ASSUME NEW j \in start + Len(new) + 1 .. Len(ab \o b)
      PROVE  (ab \o b)[j] = s[j - Len(new) + oldLen]
  <2>1. j \in 1 .. Len(ab) + Len(b) /\ ~(j <= Len(ab)) /\ j - Len(ab) \in 1 .. Len(b)
      BY <1>1, <1>3, <1>4, <1>5, <1>7, <1>9
  <2>2. (ab \o b)[j] = b[j - Len(ab)]
      BY <2>1, <1>5
  <2>3. b[j - Len(ab)] = s[start + oldLen + (j - Len(ab))]
      BY <2>1, <1>3
  <2>4. start + oldLen + (j - Len(ab)) = j - Len(new) + oldLen
      BY <1>1, <1>4, <1>7, <1>9
  <2> QED BY <2>2, <2>3, <2>4
<1> QED BY <1>5, <1>6, <1>8, <1>9

\* The start of a hunk is a natural number once it is known not to be out of range
LEMMA StartInRange ==
    ASSUME NEW h \in Hunk, NEW off \in Int, NEW s,
           ~OutOfRange(s, h, StartIdx(h, off))
    PROVE  OldIdx(h) \in Nat /\ StartIdx(h, off) \in Nat /\ StartIdx(h, off) = OldIdx(h) + off
<1>1. OldIdx(h) \in Nat
    BY DEF Hunk, OldIdx
<1> QED BY <1>1 DEF StartIdx, OutOfRange

-----------------------------------------------------------------------------

\* A line added to a hunk leaves it a hunk (parseUnifiedDiff).
LEMMA AddLineType ==
    ASSUME NEW h \in Hunk, NEW op, NEW text \in Texts
    PROVE  AddLine(h, op, text) \in Hunk
<1>1. h.oldStart \in Nat /\ h.old \in Seq(Texts) /\ h.new \in Seq(Texts)
    BY DEF Hunk
<1>2. Append(h.old, text) \in Seq(Texts) /\ Append(h.new, text) \in Seq(Texts)
    BY <1>1
<1> DEFINE old == IF op = "+" THEN h.old ELSE Append(h.old, text)
           new == IF op = "-" THEN h.new ELSE Append(h.new, text)
<1>3. old \in Seq(Texts) /\ new \in Seq(Texts)
    BY <1>1, <1>2
<1>4. AddLine(h, op, text) = [h EXCEPT !.old = old, !.new = new]
    BY DEF AddLine
<1> HIDE DEF old, new
<1> QED BY <1>3, <1>4 DEF Hunk

\* Patch is typed, and every step keeps it so
LEMMA PatchTypeStep == TypeOK /\ [Next]_vars => TypeOK'
<1> SUFFICES ASSUME TypeOK, [Next]_vars PROVE TypeOK'
    OBVIOUS
<1> USE DEF TypeOK, parseVars, applyVars, vars
<1>0. patch # <<>> => Head(patch) \in PatchLine /\ Tail(patch) \in Seq(PatchLine)
    OBVIOUS
<1>s. ASSUME NEW h \in Hunk \cup {Nil} PROVE hunks \o Started(h) \in Seq(Hunk)
    BY DEF Started
<1>1. CASE SkipLine
    BY <1>0, <1>1 DEF SkipLine
<1>2. CASE StartHunk
  <2>1. Head(patch).oldStart \in Nat
      BY <1>0, <1>2 DEF StartHunk, PatchLine
  <2>2. current' \in Hunk
      BY <2>1, <1>2 DEF StartHunk, Hunk
  <2> QED BY <2>2, <1>0, <1>2, <1>s DEF StartHunk
<1>3. CASE ReadLine
  <2>1. current \in Hunk /\ Head(patch) \in PatchLine
      BY <1>0, <1>3 DEF ReadLine
  <2>2. Head(patch).kind \in {"body", "bare"} => Head(patch).text \in Texts
      BY <2>1 DEF PatchLine
  <2>3. Parsed(current, Head(patch)) \in Hunk
      BY <2>1, <2>2, <1>3, AddLineType, PatchParameters DEF Parsed, ReadLine
  <2> QED BY <2>3, <1>0, <1>3 DEF ReadLine
<1>4. CASE EndOfPatch
    BY <1>4, <1>s DEF EndOfPatch, Outcomes
<1>5. CASE ApplyHunk
  <2> DEFINE h == Head(hunks)
             start == StartIdx(h, offset)
             oldLen == Len(h.old)
  <2>1. h \in Hunk /\ Tail(hunks) \in Seq(Hunk)
      BY <1>5 DEF ApplyHunk
  <2>2. h.old \in Seq(Texts) /\ h.new \in Seq(Texts) /\ oldLen \in Nat /\ Len(h.new) \in Nat
      BY <2>1 DEF Hunk
  <2>3. OldIdx(h) \in Nat /\ start \in Nat /\ start + oldLen <= Len(lines)
      BY <2>1, <1>5, StartInRange DEF ApplyHunk, Matches
  <2>4. Replaced(lines, start, oldLen, h.new) \in Seq(Texts)
      BY <2>2, <2>3, ReplacedProperties
  <2> HIDE DEF h, start, oldLen
  <2>5. /\ lines' = Replaced(lines, start, oldLen, h.new)
        /\ offset' = offset + Len(h.new) - oldLen
        /\ reach' = OldIdx(h) + oldLen
        /\ inOrder' = (inOrder /\ OldIdx(h) >= reach)
        /\ hunks' = Tail(hunks)
        /\ UNCHANGED <<patch, current, file, outcome>>
      BY <1>5 DEF ApplyHunk, h, start, oldLen
  <2>6. inOrder' \in BOOLEAN
      BY <2>5
  <2> QED BY <2>1, <2>2, <2>3, <2>4, <2>5, <2>6, SMTT(30)
<1>6. CASE HunkFails
    BY <1>6 DEF HunkFails, Outcomes
<1>7. CASE Finished
    BY <1>7 DEF Finished, Outcomes
<1>8. CASE UNCHANGED vars
    BY <1>8
<1> QED BY <1>1, <1>2, <1>3, <1>4, <1>5, <1>6, <1>7, <1>8 DEF Next

\* The state of ParsePatch and ApplyPatch has the types of the Go variables
THEOREM PatchTypeCorrect == Spec => []TypeOK
<1>1. Init => TypeOK
    BY DEF Init, TypeOK, Outcomes
<1> QED BY <1>1, PatchTypeStep, PTL DEF Spec

-----------------------------------------------------------------------------

\* A step of parseUnifiedDiff or applyHunks keeps the offset where the lines are.
LEMMA OffsetStep == TypeOK /\ OffsetFindsLines /\ [Next]_vars => OffsetFindsLines'
<1> SUFFICES ASSUME TypeOK, OffsetFindsLines, [Next]_vars PROVE OffsetFindsLines'
    OBVIOUS
<1> USE DEF parseVars, applyVars, vars
<1>1. CASE ApplyHunk
  <2> DEFINE h == Head(hunks)
             start == StartIdx(h, offset)
             oldLen == Len(h.old)
             newLen == Len(h.new)
  <2>1. h \in Hunk
      BY <1>1 DEF ApplyHunk, TypeOK
  <2>2. h.old \in Seq(Texts) /\ h.new \in Seq(Texts) /\ oldLen \in Nat /\ newLen \in Nat
      BY <2>1 DEF Hunk
  <2>3. /\ OldIdx(h) \in Nat /\ start \in Nat
        /\ start = OldIdx(h) + offset
        /\ start + oldLen <= Len(lines)
      BY <2>1, <1>1, StartInRange DEF ApplyHunk, Matches, TypeOK
  <2>4. /\ Len(Replaced(lines, start, oldLen, h.new)) = Len(lines) + newLen - oldLen
        /\ \A j \in start + newLen + 1 .. Len(Replaced(lines, start, oldLen, h.new)) :
              Replaced(lines, start, oldLen, h.new)[j] = lines[j - newLen + oldLen]
    <3> DEFINE new == h.new
    <3>1. lines \in Seq(Texts) /\ new \in Seq(Texts)
        BY <2>2 DEF TypeOK
    <3> HIDE DEF h, start, oldLen, new
    <3>2. LET r == Replaced(lines, start, oldLen, new) IN
          /\ Len(r) = Len(lines) + Len(new) - oldLen
          /\ \A j \in start + Len(new) + 1 .. Len(r) : r[j] = lines[j - Len(new) + oldLen]
        BY <3>1, <2>2, <2>3, ReplacedProperties, SMTT(30)
    <3> QED BY <3>2 DEF new
  <2>5. /\ lines' = Replaced(lines, start, oldLen, h.new)
        /\ offset' = offset + newLen - oldLen
        /\ reach' = OldIdx(h) + oldLen
        /\ inOrder' = (inOrder /\ OldIdx(h) >= reach)
        /\ file' = file
      BY <1>1 DEF ApplyHunk
  <2> HIDE DEF h, start, oldLen, newLen
  <2>6. /\ offset \in Int /\ reach \in Nat /\ Len(file) \in Nat /\ Len(lines) \in Nat
        /\ Len(lines) = Len(file) + offset
      BY DEF TypeOK, OffsetFindsLines
  <2>7. Len(lines') = Len(file') + offset'
      BY <2>2, <2>4, <2>5, <2>6
  <2>8. ASSUME inOrder'
        PROVE  /\ reach' <= Len(file')
               /\ reach' + offset' >= 0
               /\ \A k \in reach' + 1 .. Len(file') : lines'[k + offset'] = file'[k]
    <3>1. OldIdx(h) >= reach /\ \A k \in reach + 1 .. Len(file) : lines[k + offset] = file[k]
        BY <2>5, <2>8 DEF OffsetFindsLines
    <3>2. reach' <= Len(file')
        BY <2>2, <2>3, <2>5, <2>6
    <3>3. reach' + offset' >= 0
        BY <2>2, <2>3, <2>5, <2>6, SMTT(30)
    <3>4. ASSUME NEW k \in reach' + 1 .. Len(file')
          PROVE  lines'[k + offset'] = file'[k]
      <4> DEFINE j == k + offset'
      <4>0. /\ k \in Int /\ k >= OldIdx(h) + oldLen + 1 /\ k <= Len(file)
            /\ j = k + (offset + newLen - oldLen)
            /\ Len(lines') = Len(file) + (offset + newLen - oldLen)
          BY <2>2, <2>3, <2>5, <2>6, <2>7, <3>4
      <4> HIDE DEF j
      <4>1. /\ j \in start + newLen + 1 .. Len(lines')
            /\ j - newLen + oldLen = k + offset
            /\ k \in reach + 1 .. Len(file)
        <5> DEFINE first == OldIdx(h)
        <5>1. first \in Nat /\ first >= reach /\ start = first + offset
            BY <2>3, <3>1
        <5>2. k >= first + oldLen + 1
            BY <4>0
        <5> HIDE DEF first
        <5>3. j - newLen + oldLen = k + offset /\ j \in Int
            BY <2>2, <2>6, <4>0
        <5>4. j >= start + newLen + 1
          <6>1. k + (offset + newLen - oldLen) >= first + oldLen + 1 + (offset + newLen - oldLen)
              BY <2>2, <2>6, <4>0, <5>1, <5>2
          <6>2. first + oldLen + 1 + (offset + newLen - oldLen) = (first + offset) + newLen + 1
              BY <2>2, <2>6, <5>1
          <6> QED BY <6>1, <6>2, <4>0, <5>1
        <5>5. j <= Len(lines')
            BY <2>2, <2>6, <4>0
        <5>6. k \in reach + 1 .. Len(file)
            BY <2>2, <2>6, <4>0, <5>1, <5>2
        <5>7. start + newLen + 1 \in Int /\ Len(lines') \in Int
            BY <2>2, <2>3, <2>6, <4>0
        <5> QED BY <5>3, <5>4, <5>5, <5>6, <5>7
      <4>2. lines'[j] = lines[j - newLen + oldLen]
          BY <4>1, <2>4, <2>5
      <4>3. lines[k + offset] = file[k]
          BY <4>1, <3>1
      <4> QED BY <4>1, <4>2, <4>3, <2>5 DEF j
    <3> QED BY <3>2, <3>3, <3>4
  <2> QED BY <2>7, <2>8 DEF OffsetFindsLines
<1>2. CASE UNCHANGED applyVars
    BY <1>2 DEF OffsetFindsLines
<1>3. CASE SkipLine \/ StartHunk \/ ReadLine \/ EndOfPatch \/ HunkFails \/ Finished
    BY <1>2, <1>3 DEF SkipLine, StartHunk, ReadLine, EndOfPatch, HunkFails, Finished
<1> QED BY <1>1, <1>2, <1>3 DEF Next

\* The offset that ApplyPatch carries from hunk to hunk finds the lines of the file
\* behind the last hunk, for every file and every diff with its hunks in order
THEOREM OffsetIsRight == Spec => []OffsetFindsLines
<1>1. Init => OffsetFindsLines
    BY LenProperties DEF Init, OffsetFindsLines
<1> QED BY <1>1, OffsetStep, PatchTypeCorrect, PTL DEF Spec

-----------------------------------------------------------------------------

\* applyHunks can only panic in a step that has a cause for it.
LEMMA PanicStep ==
    TypeOK /\ OffsetFindsLines /\ PanicNeedsCause /\ [Next]_vars => PanicNeedsCause'
<1> SUFFICES ASSUME TypeOK, OffsetFindsLines, PanicNeedsCause, [Next]_vars
             PROVE  PanicNeedsCause'
    OBVIOUS
<1> USE DEF parseVars, applyVars, vars
<1>1. CASE HunkFails
  <2> SUFFICES ASSUME outcome' = "panic", inOrder,
                      ~(OldIdx(Head(hunks)) < reach)
               PROVE  Head(hunks).old = <<>>
      BY <1>1 DEF HunkFails, PanicNeedsCause
  <2> DEFINE h == Head(hunks)
  <2>1. h \in Hunk /\ OutOfRange(lines, h, StartIdx(h, offset))
      BY <1>1 DEF HunkFails, TypeOK
  <2>2. OldIdx(h) \in Nat
      BY <2>1 DEF OldIdx, Hunk
  <2>3. StartIdx(h, offset) >= 0
      BY <2>2 DEF StartIdx, TypeOK, OffsetFindsLines
  <2> QED BY <2>1, <2>2, <2>3 DEF OutOfRange, StartIdx, TypeOK
<1>2. CASE EndOfPatch
    BY <1>2 DEF EndOfPatch, PanicNeedsCause
<1>3. CASE Finished
    BY <1>3 DEF Finished, PanicNeedsCause
<1>4. CASE SkipLine \/ StartHunk \/ ReadLine \/ ApplyHunk
    BY <1>4 DEF SkipLine, StartHunk, ReadLine, ApplyHunk, PanicNeedsCause
<1>5. CASE UNCHANGED vars
    BY <1>5 DEF PanicNeedsCause
<1> QED BY <1>1, <1>2, <1>3, <1>4, <1>5 DEF Next

\* ApplyPatch slices out of range only for hunks that are out of order or have no
\* line to compare: a diff with context, in order, patches the file or is refused
THEOREM PanicsHaveCause == Spec => []PanicNeedsCause
<1>1. Init => PanicNeedsCause
    BY DEF Init, PanicNeedsCause
<1> QED BY <1>1, PanicStep, PatchTypeCorrect, OffsetIsRight, PTL DEF Spec

=============================================================================

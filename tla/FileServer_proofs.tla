-------------------------- MODULE FileServer_proofs --------------------------
(***************************************************************************)
(* Proofs about FileServer, for any calls, paths, roots and texts.         *)
(* WInv is about the files and who may write them, and gives WritesHold;   *)
(* TInv adds the directory tree and what each call has yet to visit, and   *)
(* gives TypeOK; MInv adds how far a move has come that is alone, and      *)
(* gives MoveKeepsFiles; SInv adds that what a search must find is found   *)
(* or ahead of it, and gives SearchFindsAll; KInv adds what a call that    *)
(* is alone has done so far, step by step, and gives SoloCallHolds.        *)
(***************************************************************************)
EXTENDS FileServer, FiniteSetTheorems, SequenceTheorems, NaturalsInduction, TLAPS

-----------------------------------------------------------------------------
(***************************************************************************)
(* The invariant that WritesHold needs.                                    *)
(***************************************************************************)

\* The tools that have the step
ToolsAt(label) ==
    CASE label = "idle" -> {"none"}
      [] label = "stat" -> {"write_file"}
      [] label \in {"open", "write"} -> {"write_file", "patch_file"}
      [] label = "parents" -> {"patch_file", "copy", "move"}
      [] label = "unlink" -> {"remove_file"}
      [] label = "mkdir" -> {"create_folder"}
      [] label = "readdir" -> {"list_folder"}
      [] label \in {"openread", "read"} -> {"read_file", "hash_file"}
      [] label \in {"copy", "fill"} -> {"copy", "move"}
      [] label \in {"rename", "restat"} -> {"move"}
      [] label = "removeall" -> {"remove_folder", "move"}
      [] label = "walk" -> {"grep", "glob"}

Typed ==
    /\ tree \in [Paths -> Files \cup {Absent, Dir}]
    /\ data \in [Files -> Seq(Lines)]
    /\ nextFile \in 1 .. MaxFiles + 1
    /\ pc \in [Calls -> PCs]
    /\ call = [c \in Calls |-> call[c]]
    /\ handle \in [Calls -> Files \cup {Absent}]
    /\ source \in [Calls -> Files \cup {Absent, Dir}]
    /\ buf \in [Calls -> Seq(Lines)]
    /\ todo = [c \in Calls |-> todo[c]]
    /\ answer = [c \in Calls |-> answer[c]]

\* What a call that runs knows of itself
Doing(c) ==
    /\ pc[c] # "done" => call[c].tool \in ToolsAt(pc[c])
    /\ (pc[c] # "done" /\ call[c].tool = "write_file") => buf[c] = <<c>>
    /\ (pc[c] # "done" /\ call[c].tool = "patch_file") => call[c].opt.mode # "append"
    /\ (pc[c] # "done" /\ call[c].tool \notin {"grep", "glob"}) => answer[c] # Ok
    /\ pc[c] \in {"write", "fill"} => handle[c] # Absent
    /\ pc[c] \in {"read", "fill"} => source[c] # Absent

\* Files are numbered as they are created
Numbered ==
    /\ \A p \in Paths : tree[p] \in Files => tree[p] < nextFile
    /\ \A c \in Calls : handle[c] < nextFile

\* Nobody has a text that its call has not written yet
Unwritten ==
    \A c \in Calls : pc[c] # "done" =>
        /\ \A i \in Files : c \notin Range(data[i])
        /\ \A d \in Calls \ {c} : c \notin Range(buf[d])

\* A call that holds a file it has created
Holds(c) == Writes(c, "create_only") /\ (pc[c] = "write" \/ (pc[c] = "done" /\ answer[c] = Ok))

CreatedApart == \A c, d \in Calls : Holds(c) /\ Holds(d) /\ c # d => handle[c] # handle[d]

\* The text of c is one of the lines, and only one
OnceIn(c, lines) == \E k \in DOMAIN lines : \A j \in DOMAIN lines : lines[j] = c <=> j = k

OwedIsThere ==
    \A c \in owed : c \in Calls /\ pc[c] = "done" /\ handle[c] \in Files /\ OnceIn(c, data[handle[c]])

WInv ==
    /\ Typed
    /\ \A c \in Calls : Doing(c)
    /\ Numbered
    /\ Unwritten
    /\ CreatedApart
    /\ OwedIsThere

-----------------------------------------------------------------------------
(***************************************************************************)
(* Most steps leave the files' lines and the handles alone.                *)
(***************************************************************************)

Others(c) ==
    \A d \in Calls \ {c} :
        /\ pc'[d] = pc[d] /\ call'[d] = call[d] /\ handle'[d] = handle[d]
        /\ source'[d] = source[d] /\ buf'[d] = buf[d] /\ answer'[d] = answer[d]

\* A file's number is at a path because it was at some path before
TreeKept == \A p \in Paths : tree'[p] \in Files => \E q \in Paths : tree[q] = tree'[p]

\* A step of c that opens no file for writing and writes none: what happens to
\* the tree only hides files or moves them
Quiet(c) ==
    /\ Typed'
    /\ Others(c)
    /\ Doing(c)'
    /\ UNCHANGED <<data, nextFile, handle>>
    /\ TreeKept
    /\ pc[c] # "done" /\ pc'[c] # "write"
    /\ pc[c] = "write" => answer'[c] # Ok
    /\ pc'[c] = "done" => (answer'[c] # Ok \/ call'[c].tool # "write_file")
    /\ \A d \in Calls \ {c} : pc[d] # "done" => d \notin Range(buf'[c])

\* What the assumptions on the constants say, in the form the proofs use
LEMMA Constants ==
    /\ MaxFiles \in Nat /\ Absent = 0 /\ Dir = -1
    /\ Files = 1 .. MaxFiles
    /\ Calls \subseteq Lines /\ Known \in Lines /\ Known \notin Calls
BY FilesBound, FileServerConstants, TextsAreNew DEF Absent, Dir, Files

\* Only "ok" is the answer Ok
LEMMA Answers ==
    /\ Ok # Error /\ Ok # NoAnswer
    /\ \A v : Answer("full", v) # Ok
BY DEF Ok, Error, NoAnswer, Answer

\* Making directories replaces nothing and makes no file
LEMMA DirsKept ==
    ASSUME Typed, NEW p, tree' = WithDirs(p)
    PROVE  tree' \in [Paths -> Files \cup {Absent, Dir}] /\ TreeKept
BY Constants DEF Typed, WithDirs, TreeKept

\* Nor does making the parents of a path
LEMMA ParentsKept ==
    ASSUME Typed, NEW p, tree' = WithParents(p)
    PROVE  tree' \in [Paths -> Files \cup {Absent, Dir}] /\ TreeKept
BY Constants, DirsKept DEF Typed, WithParents, TreeKept

\* Removing an entry leaves the others, and the contents of every file
LEMMA DiscardKept ==
    ASSUME Typed, NEW p, Discard(p)
    PROVE  /\ tree' \in [Paths -> Files \cup {Absent, Dir}] /\ TreeKept
           /\ UNCHANGED <<data, nextFile>>
<1>1. tree' = [tree EXCEPT ![p] = Absent] /\ UNCHANGED <<data, nextFile>>  BY DEF Discard
<1>2. \A q \in Paths : tree'[q] = tree[q] \/ tree'[q] = Absent  BY <1>1 DEF Typed
<1>3. tree' = [q \in Paths |-> tree'[q]]  BY <1>1, Zenon DEF Typed
<1>4. tree' \in [Paths -> Files \cup {Absent, Dir}]  BY <1>2, <1>3 DEF Typed
<1>5. TreeKept  BY <1>2, Constants DEF TreeKept
<1> QED  BY <1>1, <1>4, <1>5

\* A renamed tree has the files it had
LEMMA RenameKept ==
    ASSUME Typed, NEW p, NEW q, tree' = Renamed(p, q)
    PROVE  tree' \in [Paths -> Files \cup {Absent, Dir}] /\ TreeKept
BY Constants DEF Typed, Renamed, At, TreeKept

\* A patched file has the lines it had, the text of its call and known text
LEMMA PatchedHas ==
    ASSUME NEW kind, NEW lines \in Seq(Lines), NEW c \in Calls, Applies(kind, lines)
    PROVE  /\ Patched(kind, lines, c) \in Seq(Lines)
           /\ Range(Patched(kind, lines, c)) \subseteq Range(lines) \cup {c, Known}
<1>1. CASE kind = "insert"
  <2>1. Patched(kind, lines, c) = <<c>> \o lines  BY <1>1 DEF Patched
  <2> QED  BY <2>1, Constants DEF Range
<1>2. CASE kind # "insert"
  <2>1. lines # <<>> /\ Patched(kind, lines, c) = <<Known, c>> \o Tail(lines)
    BY <1>2 DEF Patched, Applies
  <2>2. Tail(lines) \in Seq(Lines) /\ Len(Tail(lines)) = Len(lines) - 1
        /\ \A i \in 1 .. Len(lines) - 1 : Tail(lines)[i] = lines[i + 1]
    BY <2>1
  <2>3. <<Known, c>> \o Tail(lines) \in Seq(Lines)  BY <2>2, Constants
  <2>4. ASSUME NEW i \in DOMAIN (<<Known, c>> \o Tail(lines))
        PROVE  (<<Known, c>> \o Tail(lines))[i] \in Range(lines) \cup {c, Known}
    BY <2>2 DEF Range
  <2> QED  BY <2>1, <2>3, <2>4 DEF Range
<1> QED  BY <1>1, <1>2

\* A step of call c changes the calls' state at c only
At1(f, g, c) == g = [f EXCEPT ![c] = g[c]]
OnlyAt(c) ==
    /\ At1(pc, pc', c) /\ At1(call, call', c) /\ At1(source, source', c)
    /\ At1(buf, buf', c) /\ At1(todo, todo', c) /\ At1(answer, answer', c)

QuietAt(c) ==
    /\ pc'[c] \in PCs \ {"idle", "write", "fill"}
    /\ source'[c] \in Files \cup {Absent, Dir}
    /\ buf'[c] \in Seq(Lines)
    /\ pc[c] # "done"
    /\ pc[c] = "write" => answer'[c] # Ok
    /\ pc'[c] # "done" =>
          /\ call'[c].tool \in ToolsAt(pc'[c])
          /\ call'[c].tool = "write_file" => buf'[c] = <<c>>
          /\ call'[c].tool = "patch_file" => call'[c].opt.mode # "append"
          /\ call'[c].tool \notin {"grep", "glob"} => answer'[c] # Ok
    /\ pc'[c] = "read" => source'[c] # Absent
    /\ pc'[c] = "done" => (answer'[c] # Ok \/ call'[c].tool # "write_file")
    /\ \A d \in Calls \ {c} : pc[d] # "done" => d \notin Range(buf'[c])

\* What makes a step quiet, in parts: the call, and the tree
LEMMA QuietStep ==
    ASSUME WInv, NEW c \in Calls, OnlyAt(c), QuietAt(c),
           UNCHANGED <<data, nextFile, handle>>,
           tree' \in [Paths -> Files \cup {Absent, Dir}], TreeKept
    PROVE  Quiet(c)
<1>1. Typed'  BY Zenon DEF OnlyAt, At1, QuietAt, WInv, Typed
<1>2. Others(c)  BY Zenon DEF OnlyAt, At1, WInv, Typed, Others
<1>3. Doing(c)'  BY DEF QuietAt, Doing
<1> QED  BY <1>1, <1>2, <1>3 DEF Quiet, QuietAt

\* The functions on calls keep their types in a step of one call
LEMMA TypedAt ==
    ASSUME WInv, NEW c \in Calls, OnlyAt(c), pc'[c] \in PCs,
           source'[c] \in Files \cup {Absent, Dir}, buf'[c] \in Seq(Lines)
    PROVE  /\ pc' \in [Calls -> PCs] /\ call' = [d \in Calls |-> call'[d]]
           /\ source' \in [Calls -> Files \cup {Absent, Dir}]
           /\ buf' \in [Calls -> Seq(Lines)]
           /\ todo' = [d \in Calls |-> todo'[d]] /\ answer' = [d \in Calls |-> answer'[d]]
BY Zenon DEF OnlyAt, At1, WInv, Typed

\* A variable that does not change changes at most at the call
LEMMA Idle ==
    ASSUME WInv, NEW c \in Calls
    PROVE  /\ At1(pc, pc, c) /\ At1(call, call, c) /\ At1(source, source, c)
           /\ At1(buf, buf, c) /\ At1(todo, todo, c) /\ At1(answer, answer, c)
BY Zenon DEF WInv, Typed, At1

\* Set changes a function at the call, to the value given
LEMMA Changed1 ==
    ASSUME WInv, NEW c \in Calls, NEW x
    PROVE  /\ Set(pc, c, x) => At1(pc, pc', c) /\ pc'[c] = x
           /\ Set(call, c, x) => At1(call, call', c) /\ call'[c] = x
           /\ Set(source, c, x) => At1(source, source', c) /\ source'[c] = x
           /\ Set(buf, c, x) => At1(buf, buf', c) /\ buf'[c] = x
           /\ Set(todo, c, x) => At1(todo, todo', c) /\ todo'[c] = x
           /\ Set(answer, c, x) => At1(answer, answer', c) /\ answer'[c] = x
BY DEF WInv, Typed, At1, Set

\* Reply and Goto change pc and the answer at the call only
LEMMA Ended1 ==
    ASSUME WInv, NEW c \in Calls, NEW x
    PROVE  /\ Reply(c, x) => At1(pc, pc', c) /\ pc'[c] = "done" /\ At1(answer, answer', c) /\ answer'[c] = x
           /\ Goto(c, x) => At1(pc, pc', c) /\ pc'[c] = x /\ At1(answer, answer', c) /\ answer'[c] = answer[c]
<1>1. Reply(c, x) => At1(pc, pc', c) /\ pc'[c] = "done"  BY DEF WInv, Typed, At1, Reply
<1>2. Reply(c, x) => At1(answer, answer', c) /\ answer'[c] = x  BY DEF WInv, Typed, At1, Reply
<1>3. Goto(c, x) => At1(pc, pc', c) /\ pc'[c] = x  BY DEF WInv, Typed, At1, Goto
<1>4. Goto(c, x) => At1(answer, answer', c) /\ answer'[c] = answer[c]  BY DEF WInv, Typed, At1, Goto
<1> QED  BY <1>1, <1>2, <1>3, <1>4

\* ToolsAt, label by label
LEMMA ToolTable ==
    /\ ToolsAt("idle") = {"none"}
    /\ ToolsAt("stat") = {"write_file"}
    /\ ToolsAt("open") = {"write_file", "patch_file"}
    /\ ToolsAt("write") = {"write_file", "patch_file"}
    /\ ToolsAt("parents") = {"patch_file", "copy", "move"}
    /\ ToolsAt("unlink") = {"remove_file"}
    /\ ToolsAt("mkdir") = {"create_folder"}
    /\ ToolsAt("readdir") = {"list_folder"}
    /\ ToolsAt("openread") = {"read_file", "hash_file"}
    /\ ToolsAt("read") = {"read_file", "hash_file"}
    /\ ToolsAt("copy") = {"copy", "move"}
    /\ ToolsAt("fill") = {"copy", "move"}
    /\ ToolsAt("rename") = {"move"}
    /\ ToolsAt("restat") = {"move"}
    /\ ToolsAt("removeall") = {"remove_folder", "move"}
    /\ ToolsAt("walk") = {"grep", "glob"}
BY DEF ToolsAt

\* The invariant at one call
LEMMA Here ==
    ASSUME WInv, NEW c \in Calls
    PROVE  /\ pc[c] \in PCs
           /\ source[c] \in Files \cup {Absent, Dir}
           /\ buf[c] \in Seq(Lines)
           /\ pc[c] # "done" =>
                 /\ call[c].tool \in ToolsAt(pc[c])
                 /\ call[c].tool = "write_file" => buf[c] = <<c>>
                 /\ call[c].tool = "patch_file" => call[c].opt.mode # "append"
                 /\ call[c].tool \notin {"grep", "glob"} => answer[c] # Ok
           /\ \A d \in Calls \ {c} : pc[d] # "done" => d \notin Range(buf[c])
BY DEF WInv, Typed, Doing, Unwritten

\* What can be read has no text that is not written yet
LEMMA Texts ==
    ASSUME WInv, NEW c \in Calls
    PROVE  /\ \A p \in Paths : IsFile(p) =>
                 /\ data[tree[p]] \in Seq(Lines)
                 /\ \A d \in Calls : pc[d] # "done" => d \notin Range(data[tree[p]])
           /\ \A p : At(p) \in Files \cup {Absent, Dir}
           /\ <<>> \in Seq(Lines) /\ Range(<<>>) = {}
           /\ <<c>> \in Seq(Lines) /\ Range(<<c>>) = {c}
<1>1. ASSUME NEW p \in Paths, IsFile(p)  PROVE  tree[p] \in Files  BY <1>1 DEF IsFile, At
<1>2. \A p : At(p) \in Files \cup {Absent, Dir}  BY DEF At, WInv, Typed
<1> QED  BY <1>1, <1>2, Constants DEF WInv, Typed, Unwritten, Range

Quietly(c) ==
    \/ Refuse(c) \/ WriteFile(c) \/ CheckAbsent(c) \/ PatchFile(c) \/ MakeParents(c)
    \/ RemoveFile(c) \/ Unlink(c) \/ CreateFolder(c) \/ MakeFolder(c)
    \/ RemoveFolder(c) \/ RemoveNext(c) \/ RemovedAll(c) \/ RemoveBlocked(c)
    \/ StatFile(c) \/ ListFolder(c) \/ ReadFolder(c)
    \/ ReadFile(c) \/ HashFile(c) \/ OpenToRead(c) \/ ReadOpened(c)
    \/ Copy(c) \/ Move(c) \/ Rename(c) \/ Restat(c) \/ CopyFolder(c) \/ CopyEnds(c)
    \/ Search(c) \/ GrepVisit(c) \/ GlobVisit(c) \/ WalkEnds(c) \/ Deadline(c)
    \/ DiskFull(c)

\* Every step that opens no file to write it and writes none is quiet
LEMMA QuietSteps ==
    ASSUME WInv, NEW c \in Calls
    PROVE  Quietly(c) => Quiet(c)
<1>. USE Constants, Answers
<1>1. ASSUME Refuse(c)  PROVE  Quiet(c)
  <2>1. OnlyAt(c)
    BY <1>1, Idle, Changed1, Ended1 DEF OnlyAt, fileVars, callVars, Refuse
  <2>2. QuietAt(c)
    BY <1>1, Here, Texts, Changed1, Ended1, ToolTable DEF PCs, QuietAt, fileVars, callVars, Refuse, Call, NoOpt
  <2>3. UNCHANGED <<data, nextFile, handle>>
    BY <1>1, DiscardKept DEF WInv, fileVars, callVars, Refuse
  <2>4. tree' \in [Paths -> Files \cup {Absent, Dir}] /\ TreeKept
    BY <1>1, DirsKept, ParentsKept, DiscardKept, RenameKept DEF WInv, Typed, TreeKept, fileVars, Refuse
  <2> QED  BY <2>1, <2>2, <2>3, <2>4, QuietStep
<1>2. ASSUME WriteFile(c)  PROVE  Quiet(c)
  <2>1. OnlyAt(c)
    BY <1>2, Idle, Changed1, Ended1 DEF OnlyAt, fileVars, callVars, WriteFile, Begin, GotoIf
  <2>2. QuietAt(c)
    <3>1. PICK p \in Paths, mode \in Modes :
              /\ pc[c] = "idle"
              /\ Set(call, c, Call("write_file", p, p, [mode |-> mode]))
              /\ \/ Goto(c, IF mode = "create_only" THEN "stat" ELSE "open")
                 \/ Reply(c, Error)
              /\ Set(buf, c, <<c>>)
              /\ UNCHANGED source
      BY <1>2 DEF WriteFile, Begin, GotoIf
<3>2. pc'[c] \in {"stat", "open", "done"} /\ answer'[c] # Ok
      BY <3>1, Ended1, Here, ToolTable
    <3>3. call'[c].tool = "write_file"  BY <3>1, Changed1 DEF Call
    <3>4. buf'[c] = <<c>> /\ source'[c] = source[c]  BY <3>1, Changed1
    <3> QED  BY <3>1, <3>2, <3>3, <3>4, Here, Texts, ToolTable DEF PCs, QuietAt
  <2>3. UNCHANGED <<data, nextFile, handle>>
    BY <1>2, DiscardKept DEF WInv, fileVars, callVars, WriteFile, Begin, GotoIf
  <2>4. tree' \in [Paths -> Files \cup {Absent, Dir}] /\ TreeKept
    BY <1>2, DirsKept, ParentsKept, DiscardKept, RenameKept, Zenon DEF WInv, Typed, TreeKept, fileVars, WriteFile, Begin, GotoIf
  <2> QED  BY <2>1, <2>2, <2>3, <2>4, QuietStep
<1>3. ASSUME CheckAbsent(c)  PROVE  Quiet(c)
  <2>1. OnlyAt(c)
    BY <1>3, Idle, Changed1, Ended1 DEF OnlyAt, fileVars, callVars, CheckAbsent, GotoIf
  <2>2. QuietAt(c)
    BY <1>3, Here, Texts, Changed1, Ended1, ToolTable DEF PCs, QuietAt, fileVars, callVars, CheckAbsent, GotoIf
  <2>3. UNCHANGED <<data, nextFile, handle>>
    BY <1>3, DiscardKept DEF WInv, fileVars, callVars, CheckAbsent, GotoIf
  <2>4. tree' \in [Paths -> Files \cup {Absent, Dir}] /\ TreeKept
    BY <1>3, DirsKept, ParentsKept, DiscardKept, RenameKept DEF WInv, Typed, TreeKept, fileVars, CheckAbsent, GotoIf
  <2> QED  BY <2>1, <2>2, <2>3, <2>4, QuietStep
<1>4. ASSUME PatchFile(c)  PROVE  Quiet(c)
  <2>1. OnlyAt(c)
    BY <1>4, Idle, Changed1, Ended1 DEF OnlyAt, fileVars, callVars, PatchFile, Begin, GotoIf
  <2>2. QuietAt(c)
    <3>0. PICK p \in Paths, kind \in {"insert", "context"} :
              \E lines :
                  /\ lines = IF IsFile(p) THEN data[tree[p]] ELSE <<>>
                  /\ pc[c] = "idle"
                  /\ Set(call, c, Call("patch_file", p, p, [mode |-> kind]))
                  /\ Goto(c, "parents") \/ Reply(c, Error)
                  /\ Set(buf, c, IF Applies(kind, lines) THEN Patched(kind, lines, c) ELSE <<>>)
                  /\ UNCHANGED source
      BY <1>4 DEF PatchFile, Begin, GotoIf
    <3>1. PICK lines :
              /\ lines = IF IsFile(p) THEN data[tree[p]] ELSE <<>>
              /\ pc[c] = "idle"
              /\ Set(call, c, Call("patch_file", p, p, [mode |-> kind]))
              /\ Goto(c, "parents") \/ Reply(c, Error)
              /\ Set(buf, c, IF Applies(kind, lines) THEN Patched(kind, lines, c) ELSE <<>>)
              /\ UNCHANGED source
      BY <3>0
    <3>2. /\ lines \in Seq(Lines)
          /\ \A d \in Calls : pc[d] # "done" => d \notin Range(lines)
      BY <3>1, Texts, Zenon
    <3>3. /\ buf'[c] = (IF Applies(kind, lines) THEN Patched(kind, lines, c) ELSE <<>>)
          /\ source'[c] = source[c]
      BY <3>1, Changed1
    <3>4. /\ buf'[c] \in Seq(Lines)
          /\ Range(buf'[c]) \subseteq Range(lines) \cup {c, Known}
      <4>1. CASE Applies(kind, lines)  BY <4>1, <3>2, <3>3, PatchedHas
      <4>2. CASE ~Applies(kind, lines)  BY <4>2, <3>3, Texts, Zenon
      <4> QED  BY <4>1, <4>2
    <3>5. pc'[c] \in {"parents", "done"} /\ answer'[c] # Ok
      BY <3>1, Ended1, Here, ToolTable
    <3>6. call'[c].tool = "patch_file" /\ call'[c].opt.mode # "append"  BY <3>1, Changed1 DEF Call
    <3> QED  BY <3>1, <3>2, <3>3, <3>4, <3>5, <3>6, Here, ToolTable DEF PCs, QuietAt
  <2>3. UNCHANGED <<data, nextFile, handle>>
    BY <1>4, DiscardKept DEF WInv, fileVars, callVars, PatchFile, Begin, GotoIf
  <2>4. tree' \in [Paths -> Files \cup {Absent, Dir}] /\ TreeKept
    BY <1>4, DirsKept, ParentsKept, DiscardKept, RenameKept, Zenon DEF WInv, Typed, TreeKept, fileVars, PatchFile, Begin, GotoIf
  <2> QED  BY <2>1, <2>2, <2>3, <2>4, QuietStep
<1>5. ASSUME MakeParents(c)  PROVE  Quiet(c)
  <2>1. OnlyAt(c)
    BY <1>5, Idle, Changed1, Ended1 DEF OnlyAt, fileVars, callVars, MakeParents, GotoIf
  <2>2. QuietAt(c)
    BY <1>5, Here, Texts, Changed1, Ended1, ToolTable DEF PCs, QuietAt, fileVars, callVars, MakeParents, GotoIf
  <2>3. UNCHANGED <<data, nextFile, handle>>
    BY <1>5, DiscardKept DEF WInv, fileVars, callVars, MakeParents, GotoIf
  <2>4. tree' \in [Paths -> Files \cup {Absent, Dir}] /\ TreeKept
    BY <1>5, DirsKept, ParentsKept, DiscardKept, RenameKept, Zenon DEF WInv, Typed, TreeKept, fileVars, MakeParents, GotoIf
  <2> QED  BY <2>1, <2>2, <2>3, <2>4, QuietStep
<1>6. ASSUME RemoveFile(c)  PROVE  Quiet(c)
  <2>1. OnlyAt(c)
    BY <1>6, Idle, Changed1, Ended1 DEF OnlyAt, fileVars, callVars, RemoveFile, Begin, GotoIf
  <2>2. QuietAt(c)
    BY <1>6, Here, Texts, Changed1, Ended1, ToolTable DEF PCs, QuietAt, fileVars, callVars, RemoveFile, Begin, GotoIf, Call
  <2>3. UNCHANGED <<data, nextFile, handle>>
    BY <1>6, DiscardKept DEF WInv, fileVars, callVars, RemoveFile, Begin, GotoIf
  <2>4. tree' \in [Paths -> Files \cup {Absent, Dir}] /\ TreeKept
    BY <1>6, DirsKept, ParentsKept, DiscardKept, RenameKept DEF WInv, Typed, TreeKept, fileVars, RemoveFile, Begin, GotoIf
  <2> QED  BY <2>1, <2>2, <2>3, <2>4, QuietStep
<1>7. ASSUME Unlink(c)  PROVE  Quiet(c)
  <2>1. OnlyAt(c)
    BY <1>7, Idle, Changed1, Ended1 DEF OnlyAt, fileVars, callVars, Unlink
  <2>2. QuietAt(c)
    BY <1>7, Here, Texts, Changed1, Ended1, ToolTable DEF PCs, QuietAt, fileVars, callVars, Unlink
  <2>3. UNCHANGED <<data, nextFile, handle>>
    BY <1>7, DiscardKept DEF WInv, fileVars, callVars, Unlink
  <2>4. tree' \in [Paths -> Files \cup {Absent, Dir}] /\ TreeKept
    BY <1>7, DirsKept, ParentsKept, DiscardKept, RenameKept, Zenon DEF WInv, Typed, TreeKept, fileVars, Unlink
  <2> QED  BY <2>1, <2>2, <2>3, <2>4, QuietStep
<1>8. ASSUME CreateFolder(c)  PROVE  Quiet(c)
  <2>1. OnlyAt(c)
    BY <1>8, Idle, Changed1, Ended1 DEF OnlyAt, fileVars, callVars, CreateFolder, Begin
  <2>2. QuietAt(c)
    BY <1>8, Here, Texts, Changed1, Ended1, ToolTable DEF PCs, QuietAt, fileVars, callVars, CreateFolder, Begin, Call
  <2>3. UNCHANGED <<data, nextFile, handle>>
    BY <1>8, DiscardKept DEF WInv, fileVars, callVars, CreateFolder, Begin
  <2>4. tree' \in [Paths -> Files \cup {Absent, Dir}] /\ TreeKept
    BY <1>8, DirsKept, ParentsKept, DiscardKept, RenameKept DEF WInv, Typed, TreeKept, fileVars, CreateFolder, Begin
  <2> QED  BY <2>1, <2>2, <2>3, <2>4, QuietStep
<1>9. ASSUME MakeFolder(c)  PROVE  Quiet(c)
  <2>1. OnlyAt(c)
    BY <1>9, Idle, Changed1, Ended1 DEF OnlyAt, fileVars, callVars, MakeFolder
  <2>2. QuietAt(c)
    BY <1>9, Here, Texts, Changed1, Ended1, ToolTable DEF PCs, QuietAt, fileVars, callVars, MakeFolder
  <2>3. UNCHANGED <<data, nextFile, handle>>
    BY <1>9, DiscardKept DEF WInv, fileVars, callVars, MakeFolder
  <2>4. tree' \in [Paths -> Files \cup {Absent, Dir}] /\ TreeKept
    BY <1>9, DirsKept, ParentsKept, DiscardKept, RenameKept, Zenon DEF WInv, Typed, TreeKept, fileVars, MakeFolder
  <2> QED  BY <2>1, <2>2, <2>3, <2>4, QuietStep
<1>10. ASSUME RemoveFolder(c)  PROVE  Quiet(c)
  <2>1. OnlyAt(c)
    BY <1>10, Idle, Changed1, Ended1 DEF OnlyAt, fileVars, callVars, RemoveFolder, Begin, GotoIf
  <2>2. QuietAt(c)
    BY <1>10, Here, Texts, Changed1, Ended1, ToolTable DEF PCs, QuietAt, fileVars, callVars, RemoveFolder, Begin, GotoIf, Call
  <2>3. UNCHANGED <<data, nextFile, handle>>
    BY <1>10, DiscardKept DEF WInv, fileVars, callVars, RemoveFolder, Begin, GotoIf
  <2>4. tree' \in [Paths -> Files \cup {Absent, Dir}] /\ TreeKept
    BY <1>10, DirsKept, ParentsKept, DiscardKept, RenameKept DEF WInv, Typed, TreeKept, fileVars, RemoveFolder, Begin, GotoIf
  <2> QED  BY <2>1, <2>2, <2>3, <2>4, QuietStep
<1>11. ASSUME RemoveNext(c)  PROVE  Quiet(c)
  <2>1. OnlyAt(c)
    BY <1>11, Idle, Changed1, Ended1 DEF OnlyAt, fileVars, callVars, RemoveNext
  <2>2. QuietAt(c)
    BY <1>11, Here, Texts, Changed1, Ended1, ToolTable DEF PCs, QuietAt, fileVars, callVars, RemoveNext
  <2>3. UNCHANGED <<data, nextFile, handle>>
    BY <1>11, DiscardKept DEF WInv, fileVars, callVars, RemoveNext
  <2>4. tree' \in [Paths -> Files \cup {Absent, Dir}] /\ TreeKept
    BY <1>11, DirsKept, ParentsKept, DiscardKept, RenameKept, Zenon DEF WInv, Typed, TreeKept, fileVars, RemoveNext
  <2> QED  BY <2>1, <2>2, <2>3, <2>4, QuietStep
<1>12. ASSUME RemovedAll(c)  PROVE  Quiet(c)
  <2>1. OnlyAt(c)
    BY <1>12, Idle, Changed1, Ended1 DEF OnlyAt, fileVars, callVars, RemovedAll
  <2>2. QuietAt(c)
    BY <1>12, Here, Texts, Changed1, Ended1, ToolTable DEF PCs, QuietAt, fileVars, callVars, RemovedAll
  <2>3. UNCHANGED <<data, nextFile, handle>>
    BY <1>12, DiscardKept DEF WInv, fileVars, callVars, RemovedAll
  <2>4. tree' \in [Paths -> Files \cup {Absent, Dir}] /\ TreeKept
    BY <1>12, DirsKept, ParentsKept, DiscardKept, RenameKept DEF WInv, Typed, TreeKept, fileVars, RemovedAll
  <2> QED  BY <2>1, <2>2, <2>3, <2>4, QuietStep
<1>13. ASSUME RemoveBlocked(c)  PROVE  Quiet(c)
  <2>1. OnlyAt(c)
    BY <1>13, Idle, Changed1, Ended1 DEF OnlyAt, fileVars, callVars, RemoveBlocked
  <2>2. QuietAt(c)
    BY <1>13, Here, Texts, Changed1, Ended1, ToolTable DEF PCs, QuietAt, fileVars, callVars, RemoveBlocked
  <2>3. UNCHANGED <<data, nextFile, handle>>
    BY <1>13, DiscardKept DEF WInv, fileVars, callVars, RemoveBlocked
  <2>4. tree' \in [Paths -> Files \cup {Absent, Dir}] /\ TreeKept
    BY <1>13, DirsKept, ParentsKept, DiscardKept, RenameKept, Zenon DEF WInv, Typed, TreeKept, fileVars, RemoveBlocked
  <2> QED  BY <2>1, <2>2, <2>3, <2>4, QuietStep
<1>14. ASSUME StatFile(c)  PROVE  Quiet(c)
  <2>1. OnlyAt(c)
    BY <1>14, Idle, Changed1, Ended1 DEF OnlyAt, fileVars, callVars, StatFile, Begin
  <2>2. QuietAt(c)
    BY <1>14, Here, Texts, Changed1, Ended1, ToolTable DEF PCs, QuietAt, fileVars, callVars, StatFile, Begin, Call
  <2>3. UNCHANGED <<data, nextFile, handle>>
    BY <1>14, DiscardKept DEF WInv, fileVars, callVars, StatFile, Begin
  <2>4. tree' \in [Paths -> Files \cup {Absent, Dir}] /\ TreeKept
    BY <1>14, DirsKept, ParentsKept, DiscardKept, RenameKept DEF WInv, Typed, TreeKept, fileVars, StatFile, Begin
  <2> QED  BY <2>1, <2>2, <2>3, <2>4, QuietStep
<1>15. ASSUME ListFolder(c)  PROVE  Quiet(c)
  <2>1. OnlyAt(c)
    BY <1>15, Idle, Changed1, Ended1 DEF OnlyAt, fileVars, callVars, ListFolder, Begin, GotoIf
  <2>2. QuietAt(c)
    BY <1>15, Here, Texts, Changed1, Ended1, ToolTable DEF PCs, QuietAt, fileVars, callVars, ListFolder, Begin, GotoIf, Call
  <2>3. UNCHANGED <<data, nextFile, handle>>
    BY <1>15, DiscardKept DEF WInv, fileVars, callVars, ListFolder, Begin, GotoIf
  <2>4. tree' \in [Paths -> Files \cup {Absent, Dir}] /\ TreeKept
    BY <1>15, DirsKept, ParentsKept, DiscardKept, RenameKept DEF WInv, Typed, TreeKept, fileVars, ListFolder, Begin, GotoIf
  <2> QED  BY <2>1, <2>2, <2>3, <2>4, QuietStep
<1>16. ASSUME ReadFolder(c)  PROVE  Quiet(c)
  <2>1. OnlyAt(c)
    BY <1>16, Idle, Changed1, Ended1 DEF OnlyAt, fileVars, callVars, ReadFolder
  <2>2. QuietAt(c)
    BY <1>16, Here, Texts, Changed1, Ended1, ToolTable DEF PCs, QuietAt, fileVars, callVars, ReadFolder
  <2>3. UNCHANGED <<data, nextFile, handle>>
    BY <1>16, DiscardKept DEF WInv, fileVars, callVars, ReadFolder
  <2>4. tree' \in [Paths -> Files \cup {Absent, Dir}] /\ TreeKept
    BY <1>16, DirsKept, ParentsKept, DiscardKept, RenameKept DEF WInv, Typed, TreeKept, fileVars, ReadFolder
  <2> QED  BY <2>1, <2>2, <2>3, <2>4, QuietStep
<1>17. ASSUME ReadFile(c)  PROVE  Quiet(c)
  <2>1. OnlyAt(c)
    BY <1>17, Idle, Changed1, Ended1 DEF OnlyAt, fileVars, callVars, ReadFile, Begin, GotoIf
  <2>2. QuietAt(c)
    <3>1. PICK p \in Paths, w \in Windows :
              /\ pc[c] = "idle"
              /\ Set(call, c, Call("read_file", p, p, w))
              /\ Goto(c, "openread") \/ Reply(c, Error)
              /\ Set(buf, c, IF IsFile(p) THEN data[tree[p]] ELSE <<>>)
              /\ UNCHANGED source
      BY <1>17 DEF ReadFile, Begin, GotoIf
<3>2. pc'[c] \in {"openread", "done"} /\ answer'[c] # Ok
      BY <3>1, Ended1, Here, ToolTable
    <3>3. call'[c].tool = "read_file"  BY <3>1, Changed1 DEF Call
    <3>4. buf'[c] = (IF IsFile(p) THEN data[tree[p]] ELSE <<>>) /\ source'[c] = source[c]
      BY <3>1, Changed1
    <3>5. buf'[c] \in Seq(Lines) /\ \A d \in Calls : pc[d] # "done" => d \notin Range(buf'[c])
      BY <3>4, Texts, Zenon
    <3> QED  BY <3>1, <3>2, <3>3, <3>4, <3>5, Here, ToolTable DEF PCs, QuietAt
  <2>3. UNCHANGED <<data, nextFile, handle>>
    BY <1>17, DiscardKept DEF WInv, fileVars, callVars, ReadFile, Begin, GotoIf
  <2>4. tree' \in [Paths -> Files \cup {Absent, Dir}] /\ TreeKept
    BY <1>17, DirsKept, ParentsKept, DiscardKept, RenameKept DEF WInv, Typed, TreeKept, fileVars, ReadFile, Begin, GotoIf
  <2> QED  BY <2>1, <2>2, <2>3, <2>4, QuietStep
<1>18. ASSUME HashFile(c)  PROVE  Quiet(c)
  <2>1. OnlyAt(c)
    BY <1>18, Idle, Changed1, Ended1 DEF OnlyAt, fileVars, callVars, HashFile, Begin, GotoIf
  <2>2. QuietAt(c)
    BY <1>18, Here, Texts, Changed1, Ended1, ToolTable DEF PCs, QuietAt, fileVars, callVars, HashFile, Begin, GotoIf, Call
  <2>3. UNCHANGED <<data, nextFile, handle>>
    BY <1>18, DiscardKept DEF WInv, fileVars, callVars, HashFile, Begin, GotoIf
  <2>4. tree' \in [Paths -> Files \cup {Absent, Dir}] /\ TreeKept
    BY <1>18, DirsKept, ParentsKept, DiscardKept, RenameKept, Zenon DEF WInv, Typed, TreeKept, fileVars, HashFile, Begin, GotoIf
  <2> QED  BY <2>1, <2>2, <2>3, <2>4, QuietStep
<1>19. ASSUME OpenToRead(c)  PROVE  Quiet(c)
  <2>1. OnlyAt(c)
    BY <1>19, Idle, Changed1, Ended1 DEF OnlyAt, fileVars, callVars, OpenToRead, GotoIf
  <2>2. QuietAt(c)
    <3>1. /\ pc[c] = "openread" /\ Set(source, c, At(call[c].path)) /\ UNCHANGED <<call, buf>>
          /\ (At(call[c].path) # Absent /\ Goto(c, "read")) \/ Reply(c, Error)
      BY <1>19 DEF OpenToRead, GotoIf
    <3>2. pc'[c] \in {"read", "done"} /\ (pc'[c] = "read" => At(call[c].path) # Absent) /\ answer'[c] # Ok
      BY <3>1, Ended1, Here, ToolTable
    <3>3. source'[c] = At(call[c].path) /\ buf'[c] = buf[c] /\ call'[c] = call[c]  BY <3>1, Changed1
    <3>4. source'[c] \in Files \cup {Absent, Dir}  BY <3>3, Texts, Zenon
    <3>5. pc[c] # "done" /\ pc[c] # "write" /\ call'[c].tool \in {"read_file", "hash_file"}
      BY <3>1, <3>3, Here, ToolTable
    <3> QED  BY <3>2, <3>3, <3>4, <3>5, Here, ToolTable DEF PCs, QuietAt
  <2>3. UNCHANGED <<data, nextFile, handle>>
    BY <1>19, DiscardKept DEF WInv, fileVars, callVars, OpenToRead, GotoIf
  <2>4. tree' \in [Paths -> Files \cup {Absent, Dir}] /\ TreeKept
    BY <1>19, DirsKept, ParentsKept, DiscardKept, RenameKept DEF WInv, Typed, TreeKept, fileVars, OpenToRead, GotoIf
  <2> QED  BY <2>1, <2>2, <2>3, <2>4, QuietStep
<1>20. ASSUME ReadOpened(c)  PROVE  Quiet(c)
  <2>1. OnlyAt(c)
    BY <1>20, Idle, Changed1, Ended1 DEF OnlyAt, fileVars, callVars, ReadOpened
  <2>2. QuietAt(c)
    <3>1. /\ pc[c] = "read" /\ Set(buf, c, <<>>) /\ Set(source, c, Absent) /\ UNCHANGED call
          /\ \E a : Reply(c, a)
      BY <1>20 DEF ReadOpened
<3>2. pc'[c] = "done"  BY <3>1, Ended1
    <3>3. buf'[c] = <<>> /\ source'[c] = Absent /\ call'[c] = call[c]  BY <3>1, Changed1
    <3> QED  BY <3>1, <3>2, <3>3, Here, Texts, ToolTable, Zenon DEF PCs, QuietAt
  <2>3. UNCHANGED <<data, nextFile, handle>>
    BY <1>20, DiscardKept DEF WInv, fileVars, callVars, ReadOpened
  <2>4. tree' \in [Paths -> Files \cup {Absent, Dir}] /\ TreeKept
    BY <1>20, DirsKept, ParentsKept, DiscardKept, RenameKept DEF WInv, Typed, TreeKept, fileVars, ReadOpened
  <2> QED  BY <2>1, <2>2, <2>3, <2>4, QuietStep
<1>21. ASSUME Copy(c)  PROVE  Quiet(c)
  <2>1. OnlyAt(c)
    BY <1>21, Idle, Changed1, Ended1 DEF OnlyAt, fileVars, callVars, Copy, Begin, GotoIf
  <2>2. QuietAt(c)
    BY <1>21, Here, Texts, Changed1, Ended1, ToolTable DEF PCs, QuietAt, fileVars, callVars, Copy, Begin, GotoIf, Call
  <2>3. UNCHANGED <<data, nextFile, handle>>
    BY <1>21, DiscardKept DEF WInv, fileVars, callVars, Copy, Begin, GotoIf
  <2>4. tree' \in [Paths -> Files \cup {Absent, Dir}] /\ TreeKept
    BY <1>21, DirsKept, ParentsKept, DiscardKept, RenameKept DEF WInv, Typed, TreeKept, fileVars, Copy, Begin, GotoIf
  <2> QED  BY <2>1, <2>2, <2>3, <2>4, QuietStep
<1>22. ASSUME Move(c)  PROVE  Quiet(c)
  <2>1. OnlyAt(c)
    BY <1>22, Idle, Changed1, Ended1 DEF OnlyAt, fileVars, callVars, Move, Begin, GotoIf
  <2>2. QuietAt(c)
    BY <1>22, Here, Texts, Changed1, Ended1, ToolTable DEF PCs, QuietAt, fileVars, callVars, Move, Begin, GotoIf, Call
  <2>3. UNCHANGED <<data, nextFile, handle>>
    BY <1>22, DiscardKept DEF WInv, fileVars, callVars, Move, Begin, GotoIf
  <2>4. tree' \in [Paths -> Files \cup {Absent, Dir}] /\ TreeKept
    BY <1>22, DirsKept, ParentsKept, DiscardKept, RenameKept DEF WInv, Typed, TreeKept, fileVars, Move, Begin, GotoIf
  <2> QED  BY <2>1, <2>2, <2>3, <2>4, QuietStep
<1>23. ASSUME Rename(c)  PROVE  Quiet(c)
  <2>1. OnlyAt(c)
    BY <1>23, Idle, Changed1, Ended1 DEF OnlyAt, fileVars, callVars, Rename
  <2>2. QuietAt(c)
    BY <1>23, Here, Texts, Changed1, Ended1, ToolTable DEF PCs, QuietAt, fileVars, callVars, Rename
  <2>3. UNCHANGED <<data, nextFile, handle>>
    BY <1>23, DiscardKept DEF WInv, fileVars, callVars, Rename
  <2>4. tree' \in [Paths -> Files \cup {Absent, Dir}] /\ TreeKept
    BY <1>23, DirsKept, ParentsKept, DiscardKept, RenameKept, Zenon DEF WInv, Typed, TreeKept, fileVars, Rename
  <2> QED  BY <2>1, <2>2, <2>3, <2>4, QuietStep
<1>24. ASSUME Restat(c)  PROVE  Quiet(c)
  <2>1. OnlyAt(c)
    BY <1>24, Idle, Changed1, Ended1 DEF OnlyAt, fileVars, callVars, Restat, GotoIf
  <2>2. QuietAt(c)
    BY <1>24, Here, Texts, Changed1, Ended1, ToolTable DEF PCs, QuietAt, fileVars, callVars, Restat, GotoIf
  <2>3. UNCHANGED <<data, nextFile, handle>>
    BY <1>24, DiscardKept DEF WInv, fileVars, callVars, Restat, GotoIf
  <2>4. tree' \in [Paths -> Files \cup {Absent, Dir}] /\ TreeKept
    BY <1>24, DirsKept, ParentsKept, DiscardKept, RenameKept DEF WInv, Typed, TreeKept, fileVars, Restat, GotoIf
  <2> QED  BY <2>1, <2>2, <2>3, <2>4, QuietStep
<1>25. ASSUME CopyFolder(c)  PROVE  Quiet(c)
  <2>1. OnlyAt(c)
    BY <1>25, Idle, Changed1, Ended1 DEF OnlyAt, fileVars, callVars, CopyFolder
  <2>2. QuietAt(c)
    <3>1. /\ pc[c] = "copy" /\ UNCHANGED <<call, source, buf>>
          /\ Goto(c, "copy") \/ Reply(c, Error)
      BY <1>25 DEF CopyFolder
    <3>2. /\ pc'[c] \in {"copy", "done"}
          /\ answer'[c] \in {answer[c], Error}
      BY <3>1, Ended1
    <3> QED  BY <3>1, <3>2, Here, ToolTable DEF PCs, QuietAt
  <2>3. UNCHANGED <<data, nextFile, handle>>
    BY <1>25, DiscardKept DEF WInv, fileVars, callVars, CopyFolder
  <2>4. tree' \in [Paths -> Files \cup {Absent, Dir}] /\ TreeKept
    BY <1>25, DirsKept, ParentsKept, DiscardKept, RenameKept, Zenon DEF WInv, Typed, TreeKept, fileVars, CopyFolder
  <2> QED  BY <2>1, <2>2, <2>3, <2>4, QuietStep
<1>26. ASSUME CopyEnds(c)  PROVE  Quiet(c)
  <2>1. OnlyAt(c)
    BY <1>26, Idle, Changed1, Ended1 DEF OnlyAt, fileVars, callVars, CopyEnds
  <2>2. QuietAt(c)
    BY <1>26, Here, Texts, Changed1, Ended1, ToolTable DEF PCs, QuietAt, fileVars, callVars, CopyEnds
  <2>3. UNCHANGED <<data, nextFile, handle>>
    BY <1>26, DiscardKept DEF WInv, fileVars, callVars, CopyEnds
  <2>4. tree' \in [Paths -> Files \cup {Absent, Dir}] /\ TreeKept
    BY <1>26, DirsKept, ParentsKept, DiscardKept, RenameKept DEF WInv, Typed, TreeKept, fileVars, CopyEnds
  <2> QED  BY <2>1, <2>2, <2>3, <2>4, QuietStep
<1>27. ASSUME Search(c)  PROVE  Quiet(c)
  <2>1. OnlyAt(c)
    BY <1>27, Idle, Changed1, Ended1 DEF OnlyAt, fileVars, callVars, Search, Begin
  <2>2. QuietAt(c)
    BY <1>27, Here, Texts, Changed1, Ended1, ToolTable DEF PCs, QuietAt, fileVars, callVars, Search, Begin, Call
  <2>3. UNCHANGED <<data, nextFile, handle>>
    BY <1>27, DiscardKept DEF WInv, fileVars, callVars, Search, Begin
  <2>4. tree' \in [Paths -> Files \cup {Absent, Dir}] /\ TreeKept
    BY <1>27, DirsKept, ParentsKept, DiscardKept, RenameKept DEF WInv, Typed, TreeKept, fileVars, Search, Begin
  <2> QED  BY <2>1, <2>2, <2>3, <2>4, QuietStep
<1>28. ASSUME GrepVisit(c)  PROVE  Quiet(c)
  <2>1. OnlyAt(c)
    BY <1>28, Idle, Changed1, Ended1, ZenonT(40) DEF OnlyAt, fileVars, callVars, GrepVisit
  <2>2. QuietAt(c)
    <3>1. /\ pc[c] = "walk" /\ UNCHANGED <<buf, source, call>>
          /\ \E a : Reply(c, a) \/ (Set(answer, c, a) /\ UNCHANGED pc)
      BY <1>28, Zenon DEF GrepVisit
    <3> QED  BY <3>1, Here, Texts, Changed1, Ended1, ToolTable DEF PCs, QuietAt
  <2>3. UNCHANGED <<data, nextFile, handle>>
    BY <1>28, DiscardKept DEF WInv, fileVars, callVars, GrepVisit
  <2>4. tree' \in [Paths -> Files \cup {Absent, Dir}] /\ TreeKept
    BY <1>28, DirsKept, ParentsKept, DiscardKept, RenameKept DEF WInv, Typed, TreeKept, fileVars, GrepVisit
  <2> QED  BY <2>1, <2>2, <2>3, <2>4, QuietStep
<1>29. ASSUME GlobVisit(c)  PROVE  Quiet(c)
  <2>1. OnlyAt(c)
    BY <1>29, Idle, Changed1, Ended1 DEF OnlyAt, fileVars, callVars, GlobVisit
  <2>2. QuietAt(c)
    BY <1>29, Here, Texts, Changed1, Ended1, ToolTable DEF PCs, QuietAt, fileVars, callVars, GlobVisit
  <2>3. UNCHANGED <<data, nextFile, handle>>
    BY <1>29, DiscardKept DEF WInv, fileVars, callVars, GlobVisit
  <2>4. tree' \in [Paths -> Files \cup {Absent, Dir}] /\ TreeKept
    BY <1>29, DirsKept, ParentsKept, DiscardKept, RenameKept DEF WInv, Typed, TreeKept, fileVars, GlobVisit
  <2> QED  BY <2>1, <2>2, <2>3, <2>4, QuietStep
<1>30. ASSUME WalkEnds(c)  PROVE  Quiet(c)
  <2>1. OnlyAt(c)
    BY <1>30, Idle, Changed1, Ended1 DEF OnlyAt, fileVars, callVars, WalkEnds
  <2>2. QuietAt(c)
    BY <1>30, Here, Texts, Changed1, Ended1, ToolTable DEF PCs, QuietAt, fileVars, callVars, WalkEnds
  <2>3. UNCHANGED <<data, nextFile, handle>>
    BY <1>30, DiscardKept DEF WInv, fileVars, callVars, WalkEnds
  <2>4. tree' \in [Paths -> Files \cup {Absent, Dir}] /\ TreeKept
    BY <1>30, DirsKept, ParentsKept, DiscardKept, RenameKept DEF WInv, Typed, TreeKept, fileVars, WalkEnds
  <2> QED  BY <2>1, <2>2, <2>3, <2>4, QuietStep
<1>31. ASSUME Deadline(c)  PROVE  Quiet(c)
  <2>1. OnlyAt(c)
    BY <1>31, Idle, Changed1, Ended1 DEF OnlyAt, fileVars, callVars, Deadline
  <2>2. QuietAt(c)
    BY <1>31, Here, Texts, Changed1, Ended1, ToolTable DEF PCs, QuietAt, fileVars, callVars, Deadline
  <2>3. UNCHANGED <<data, nextFile, handle>>
    BY <1>31, DiscardKept DEF WInv, fileVars, callVars, Deadline
  <2>4. tree' \in [Paths -> Files \cup {Absent, Dir}] /\ TreeKept
    BY <1>31, DirsKept, ParentsKept, DiscardKept, RenameKept, Zenon DEF WInv, Typed, TreeKept, fileVars, Deadline
  <2> QED  BY <2>1, <2>2, <2>3, <2>4, QuietStep
<1>32. ASSUME DiskFull(c)  PROVE  Quiet(c)
  <2>1. OnlyAt(c)
    BY <1>32, Idle, Changed1, Ended1 DEF OnlyAt, fileVars, callVars, DiskFull
  <2>2. QuietAt(c)
    <3>1. /\ pc[c] \in {"write", "fill"} /\ Reply(c, Answer("full", <<>>)) /\ Set(buf, c, <<>>)
          /\ UNCHANGED <<call, source>>
      BY <1>32 DEF DiskFull
    <3>2. pc'[c] = "done" /\ answer'[c] # Ok  BY <3>1, Ended1
    <3>3. buf'[c] = <<>> /\ source'[c] = source[c]  BY <3>1, Changed1
    <3> QED  BY <3>1, <3>2, <3>3, Here, Texts, Zenon DEF PCs, QuietAt
  <2>3. UNCHANGED <<data, nextFile, handle>>
    BY <1>32, DiscardKept DEF WInv, fileVars, callVars, DiskFull
  <2>4. tree' \in [Paths -> Files \cup {Absent, Dir}] /\ TreeKept
    BY <1>32, DirsKept, ParentsKept, DiscardKept, RenameKept DEF WInv, Typed, TreeKept, fileVars, DiskFull
  <2> QED  BY <2>1, <2>2, <2>3, <2>4, QuietStep
<1> QED  BY <1>1, <1>2, <1>3, <1>4, <1>5, <1>6, <1>7, <1>8, <1>9, <1>10, <1>11, <1>12, <1>13, <1>14, <1>15, <1>16, <1>17, <1>18, <1>19, <1>20, <1>21, <1>22, <1>23, <1>24, <1>25, <1>26, <1>27, <1>28, <1>29, <1>30, <1>31, <1>32 DEF Quietly

-----------------------------------------------------------------------------
(***************************************************************************)
(* The steps that open a file for writing or write one.                    *)
(***************************************************************************)

\* What two texts joined have is in one of them
LEMMA Joined ==
    ASSUME NEW old \in Seq(Lines), NEW new \in Seq(Lines)
    PROVE  old \o new \in Seq(Lines) /\ Range(old \o new) \subseteq Range(old) \cup Range(new)
<1>1. ASSUME NEW i \in DOMAIN (old \o new)  PROVE  (old \o new)[i] \in Range(old) \cup Range(new)
  <2>1. i \in 1 .. Len(old) + Len(new)  BY <1>1
  <2>2. (old \o new)[i] = IF i <= Len(old) THEN old[i] ELSE new[i - Len(old)]  BY <2>1
  <2> QED  BY <2>1, <2>2 DEF Range
<1> QED  BY <1>1 DEF Range

\* What a text written over another has is in one of them
LEMMA Rests ==
    ASSUME NEW old \in Seq(Lines), NEW new \in Seq(Lines)
    PROVE  /\ Overlaid(old, new) \in Seq(Lines)
           /\ Range(Overlaid(old, new)) \subseteq Range(old) \cup Range(new)
<1> DEFINE rest == SubSeq(old, Len(new) + 1, Len(old))
<1>1. /\ rest \in Seq(Lines)
      /\ Range(rest) \subseteq Range(old)
  <2>1. \A i \in DOMAIN rest : Len(new) + i \in DOMAIN old /\ rest[i] = old[Len(new) + i]
    BY SubSeqProperties
  <2> QED  BY <2>1, SubSeqProperties DEF Range
<1>2. Overlaid(old, new) = new \o rest  BY DEF Overlaid
<1> HIDE DEF rest
<1> QED  BY <1>1, <1>2, Joined

\* A step of c that opens a file for writing, and may truncate it
Opens(c) ==
    /\ Typed' /\ Others(c) /\ Doing(c)'
    /\ pc[c] \in {"open", "copy"} /\ pc'[c] \in {"write", "fill"}
    /\ call'[c] = call[c] /\ buf'[c] = buf[c]
    /\ handle'[c] \in Files /\ handle'[c] < nextFile' /\ nextFile <= nextFile'
    /\ Writes(c, "create_only") => handle'[c] = nextFile
    /\ \A p \in Paths : tree'[p] \in Files => tree'[p] < nextFile'
    /\ \A i \in Files : data'[i] = data[i] \/ (data'[i] = <<>> /\ Clobbers(c, i))

\* What os.OpenFile does to the tree and to the files
LEMMA OpenedFile ==
    ASSUME WInv, NEW p \in Paths, NEW b \in BOOLEAN, OpenFile(p, b)
    PROVE  /\ tree' \in [Paths -> Files \cup {Absent, Dir}]
           /\ data' \in [Files -> Seq(Lines)]
           /\ nextFile' \in 1 .. MaxFiles + 1
           /\ nextFile <= nextFile'
           /\ \A q \in Paths : tree'[q] \in Files => tree'[q] < nextFile'
           /\ Opened(p) \in Files /\ Opened(p) < nextFile'
           /\ \A i \in Files : data'[i] = data[i] \/ (data'[i] = <<>> /\ i = Opened(p) /\ b)
           /\ ~IsFile(p) => Opened(p) = nextFile
<1>1. /\ tree \in [Paths -> Files \cup {Absent, Dir}]
      /\ data \in [Files -> Seq(Lines)]
      /\ nextFile \in 1 .. MaxFiles + 1
      /\ \A q \in Paths : tree[q] \in Files => tree[q] < nextFile
  BY DEF WInv, Typed, Numbered
<1>0. /\ data' \in [Files -> Seq(Lines)]
      /\ \A i \in Files : data'[i] = data[i] \/ (data'[i] = <<>> /\ i = Opened(p) /\ b)
  <2>1. CASE b /\ data' = [data EXCEPT ![Opened(p)] = <<>>]
    <3>1. data' = [i \in Files |-> IF i = Opened(p) THEN <<>> ELSE data[i]]  BY <1>1, <2>1, Zenon
    <3>2. <<>> \in Seq(Lines)  OBVIOUS
    <3> HIDE DEF Opened
    <3> QED  BY <1>1, <2>1, <3>1, <3>2, Zenon
  <2>2. CASE data' = data  BY <1>1, <2>2
  <2> QED  BY <2>1, <2>2 DEF OpenFile
<1>2. CASE IsFile(p)
  <2>1. tree[p] \in Files /\ Opened(p) = tree[p] /\ nextFile' = nextFile
    BY <1>2 DEF IsFile, At, Opened, OpenFile
  <2>2. tree' = tree  BY <2>1, <1>1 DEF OpenFile
  <2> QED  BY <1>1, <1>2, <1>0, <2>1, <2>2
<1>3. CASE ~IsFile(p)
  <2>1. Opened(p) = nextFile /\ nextFile' = nextFile + 1 /\ nextFile <= MaxFiles
    BY <1>3 DEF Opened, OpenFile
  <2>2. tree' = [tree EXCEPT ![p] = nextFile]  BY <2>1 DEF OpenFile
  <2>4. nextFile \in Files  BY <1>1, <2>1, Constants
  <2>5. tree' \in [Paths -> Files \cup {Absent, Dir}]  BY <1>1, <2>2, <2>4
  <2>6. \A q \in Paths : tree'[q] \in Files => tree'[q] < nextFile'
    BY <1>1, <2>1, <2>2, Constants
  <2>8. nextFile' \in 1 .. MaxFiles + 1  BY <1>1, <2>1, Constants
  <2> QED  BY <1>1, <1>3, <1>0, <2>1, <2>4, <2>5, <2>6, <2>8, Constants
<1> QED  BY <1>2, <1>3

\* Opening to write either fails quietly or opens
LEMMA OpenSteps ==
    ASSUME WInv, NEW c \in Calls, OpenToWrite(c) \/ CopyFile(c)
    PROVE  Quiet(c) \/ Opens(c)
<1> USE Constants
<1>1. CASE OpenToWrite(c) /\ ~MayOpen(c)
  <2>1. /\ pc[c] = "open" /\ Reply(c, Error)
        /\ UNCHANGED <<tree, data, nextFile, handle, call, source, buf, todo>>
    BY <1>1 DEF OpenToWrite, fileVars
  <2>2. OnlyAt(c)  BY <2>1, Idle, Ended1 DEF OnlyAt
  <2>3. pc'[c] = "done" /\ answer'[c] = Error  BY <2>1, Ended1
  <2>4. QuietAt(c)  BY <2>1, <2>3, Here, Answers DEF QuietAt, PCs
  <2>5. tree' \in [Paths -> Files \cup {Absent, Dir}] /\ TreeKept
    BY <2>1 DEF WInv, Typed, TreeKept
  <2> QED  BY <2>1, <2>2, <2>4, <2>5, QuietStep
<1>2. CASE CopyFile(c) /\ ~(At(Head(todo[c]).from) # Absent /\ CanOpen(Head(todo[c]).to))
  <2>1. /\ pc[c] = "copy" /\ Reply(c, Error) /\ Set(todo, c, <<>>)
        /\ UNCHANGED <<tree, data, nextFile, handle, call, source, buf>>
    BY <1>2, Zenon DEF CopyFile, fileVars
  <2>2. OnlyAt(c)  BY <2>1, Idle, Changed1, Ended1 DEF OnlyAt
  <2>3. pc'[c] = "done" /\ answer'[c] = Error  BY <2>1, Ended1
  <2>4. QuietAt(c)  BY <2>1, <2>3, Here, Answers DEF QuietAt, PCs
  <2>5. tree' \in [Paths -> Files \cup {Absent, Dir}] /\ TreeKept
    BY <2>1 DEF WInv, Typed, TreeKept
  <2> QED  BY <2>1, <2>2, <2>4, <2>5, QuietStep
<1>3. CASE OpenToWrite(c) /\ MayOpen(c)
  <2> DEFINE p == call[c].path
             b == Truncates(c)
  <2>1. /\ pc[c] = "open" /\ OpenFile(p, b) /\ Set(handle, c, Opened(p)) /\ Goto(c, "write")
        /\ UNCHANGED <<call, source, buf, todo>>
        /\ p \in Paths /\ (call[c].opt.mode = "create_only" => ~IsFile(p))
    BY <1>3 DEF OpenToWrite, MayOpen, CanOpen
  <2>2. b \in BOOLEAN  BY DEF Truncates
  <2>3. OnlyAt(c)  BY <2>1, Idle, Ended1 DEF OnlyAt
  <2>4. pc'[c] = "write"  BY <2>1, Ended1
  <2> HIDE DEF p, b
  <2>5. /\ tree' \in [Paths -> Files \cup {Absent, Dir}]
        /\ data' \in [Files -> Seq(Lines)]
        /\ nextFile' \in 1 .. MaxFiles + 1
        /\ nextFile <= nextFile'
        /\ \A q \in Paths : tree'[q] \in Files => tree'[q] < nextFile'
        /\ Opened(p) \in Files /\ Opened(p) < nextFile'
        /\ \A i \in Files : data'[i] = data[i] \/ (data'[i] = <<>> /\ i = Opened(p) /\ b)
        /\ ~IsFile(p) => Opened(p) = nextFile
    BY <2>1, <2>2, OpenedFile
  <2>6. handle' = [handle EXCEPT ![c] = Opened(p)]  BY <2>1 DEF Set
  <2>7. /\ handle' \in [Calls -> Files \cup {Absent}] /\ handle'[c] = Opened(p)
        /\ \A d \in Calls \ {c} : handle'[d] = handle[d]
    BY <2>5, <2>6 DEF WInv, Typed
  <2>8. Typed'
    <3>1. pc'[c] \in PCs /\ source'[c] \in Files \cup {Absent, Dir} /\ buf'[c] \in Seq(Lines)
      BY <2>1, <2>4, Here DEF PCs
    <3> QED  BY <2>3, <2>5, <2>7, <3>1, TypedAt, Zenon DEF Typed
  <2>9. Others(c)  BY <2>1, <2>3, <2>7, Zenon DEF OnlyAt, At1, WInv, Typed, Others
  <2>0. answer'[c] # Ok  BY <2>1, Ended1, Here, ToolTable
  <2>10. Doing(c)'
    BY <2>1, <2>0, <2>4, <2>5, <2>7, Here, ToolTable DEF Doing
  <2>11. \A i \in Files : data'[i] = data[i] \/ (data'[i] = <<>> /\ Clobbers(c, i))
    BY <2>1, <2>4, <2>5, <2>7 DEF Clobbers, b
  <2> QED  BY <2>1, <2>4, <2>5, <2>7, <2>8, <2>9, <2>10, <2>11 DEF Opens, Writes
<1>4. CASE CopyFile(c) /\ At(Head(todo[c]).from) # Absent /\ CanOpen(Head(todo[c]).to)
  <2> DEFINE p == Head(todo[c]).to
             s == At(Head(todo[c]).from)
  <2>1. /\ pc[c] = "copy" /\ OpenFile(p, TRUE) /\ Set(handle, c, Opened(p)) /\ Goto(c, "fill")
        /\ Set(source, c, s) /\ Set(todo, c, Tail(todo[c]))
        /\ UNCHANGED <<call, buf>>
        /\ p \in Paths /\ s # Absent
    BY <1>4, Zenon DEF CopyFile, CanOpen
  <2>2. s \in Files \cup {Absent, Dir}  BY Texts, Zenon
  <2> HIDE DEF p, s
  <2>3. OnlyAt(c)  BY <2>1, Idle, Changed1, Ended1 DEF OnlyAt
  <2>4. pc'[c] = "fill" /\ source'[c] = s  BY <2>1, Changed1, Ended1
  <2>5. /\ tree' \in [Paths -> Files \cup {Absent, Dir}]
        /\ data' \in [Files -> Seq(Lines)]
        /\ nextFile' \in 1 .. MaxFiles + 1
        /\ nextFile <= nextFile'
        /\ \A q \in Paths : tree'[q] \in Files => tree'[q] < nextFile'
        /\ Opened(p) \in Files /\ Opened(p) < nextFile'
        /\ \A i \in Files : data'[i] = data[i] \/ (data'[i] = <<>> /\ i = Opened(p))
    BY <2>1, OpenedFile, Zenon
  <2>6. handle' = [handle EXCEPT ![c] = Opened(p)]  BY <2>1 DEF Set
  <2>7. /\ handle' \in [Calls -> Files \cup {Absent}] /\ handle'[c] = Opened(p)
        /\ \A d \in Calls \ {c} : handle'[d] = handle[d]
    BY <2>5, <2>6 DEF WInv, Typed
  <2>8. Typed'
    <3>1. pc'[c] \in PCs /\ source'[c] \in Files \cup {Absent, Dir} /\ buf'[c] \in Seq(Lines)
      BY <2>2, <2>1, <2>4, Here DEF PCs
    <3> QED  BY <2>3, <2>5, <2>7, <3>1, TypedAt, Zenon DEF Typed
  <2>9. Others(c)  BY <2>1, <2>3, <2>7, Zenon DEF OnlyAt, At1, WInv, Typed, Others
  <2>0. answer'[c] # Ok  BY <2>1, Ended1, Here, ToolTable
  <2>10. Doing(c)'
    BY <2>1, <2>0, <2>4, <2>5, <2>7, Here, ToolTable DEF Doing
  <2>11. \A i \in Files : data'[i] = data[i] \/ (data'[i] = <<>> /\ Clobbers(c, i))
    BY <2>1, <2>4, <2>5, <2>7 DEF Clobbers
  <2>12. ~Writes(c, "create_only")  BY <2>1, Here, ToolTable DEF Writes
  <2> QED  BY <2>1, <2>4, <2>5, <2>7, <2>8, <2>9, <2>10, <2>11, <2>12 DEF Opens
<1> QED  BY <1>1, <1>2, <1>3, <1>4

\* A step of c that writes the file it has opened
Fills(c) ==
    /\ Typed' /\ Others(c) /\ Doing(c)'
    /\ pc[c] \in {"write", "fill"} /\ handle[c] \in Files
    /\ UNCHANGED <<tree, nextFile, handle, call>>
    /\ \A i \in Files : i # handle[c] => data'[i] = data[i]
    /\ \A d \in Calls \ {c} : pc[d] # "done" => d \notin Range(data'[handle[c]]) /\ d \notin Range(buf'[c])
    /\ \/ pc'[c] = "copy" /\ Clobbers(c, handle[c]) /\ \A d \in Calls : pc[d] # "done" => d \notin Range(data'[handle[c]])
       \/ /\ pc[c] = "write" /\ pc'[c] = "done"
          /\ \/ Clobbers(c, handle[c]) /\ call[c].opt.mode # "append"
             \/ data'[handle[c]] = Append(data[handle[c]], c)

\* Writing either fails quietly or fills the file that is open
LEMMA FillSteps ==
    ASSUME WInv, NEW c \in Calls, Write(c) \/ FillCopy(c)
    PROVE  Quiet(c) \/ Fills(c)
<1> DEFINE h == handle[c]
           old == data[handle[c]]
<1>1. CASE Write(c)
  <2>1. /\ pc[c] = "write" /\ data' = [data EXCEPT ![h] = Written(c, old)]
        /\ Reply(c, Ok) /\ Set(buf, c, <<>>)
        /\ UNCHANGED <<tree, nextFile, call, handle, source, todo>>
    BY <1>1 DEF Write
  <2>2. h \in Files /\ old \in Seq(Lines) /\ buf[c] \in Seq(Lines)
    BY <2>1 DEF WInv, Typed, Doing
  <2>3. /\ Written(c, old) \in Seq(Lines)
        /\ Range(Written(c, old)) \subseteq Range(old) \cup Range(buf[c])
    <3>1. old \o buf[c] \in Seq(Lines)  BY <2>2
    <3>3. Range(old \o buf[c]) \subseteq Range(old) \cup Range(buf[c])  BY <2>2, Joined
    <3> QED  BY <2>2, <3>1, <3>3, Rests DEF Written
  <2> HIDE DEF h, old
  <2>4. /\ data' \in [Files -> Seq(Lines)] /\ data'[h] = Written(c, old)
        /\ \A i \in Files : i # h => data'[i] = data[i]
    BY <2>1, <2>2, <2>3 DEF WInv, Typed
  <2>5. OnlyAt(c)  BY <2>1, Idle, Changed1, Ended1 DEF OnlyAt
  <2>6. pc'[c] = "done" /\ answer'[c] = Ok /\ buf'[c] = <<>>  BY <2>1, Changed1, Ended1
  <2>7. Typed'
    <3>1. pc'[c] \in PCs /\ source'[c] \in Files \cup {Absent, Dir} /\ buf'[c] \in Seq(Lines)
      BY <2>1, <2>6, Here, Texts DEF PCs
    <3> QED  BY <2>1, <2>4, <2>5, <3>1, TypedAt DEF WInv, Typed
  <2>8. Others(c)  BY <2>1, <2>5, Zenon DEF OnlyAt, At1, WInv, Typed, Others
  <2>9. Doing(c)'  BY <2>6 DEF Doing
  <2>10. \A d \in Calls \ {c} : pc[d] # "done" => d \notin Range(data'[h]) /\ d \notin Range(buf'[c])
    BY <2>2, <2>3, <2>4, <2>6, Here, Texts, Zenon DEF WInv, Unwritten, h, old
  <2>11. \/ Clobbers(c, h) /\ call[c].opt.mode # "append"
         \/ data'[h] = Append(old, c)
    <3>1. CASE call[c].opt.mode # "append"  BY <2>1, <3>1 DEF Clobbers, h
    <3>2. CASE call[c].opt.mode = "append"
      <4>1. buf[c] = <<c>>  BY <2>1, <3>2, Here, ToolTable
      <4> QED  BY <2>2, <2>4, <3>2, <4>1 DEF Written
    <3> QED  BY <3>1, <3>2
  <2> QED  BY <2>1, <2>2, <2>4, <2>6, <2>7, <2>8, <2>9, <2>10, <2>11 DEF Fills, h, old
<1>2. CASE FillCopy(c) /\ source[c] = Dir
  <2>1. /\ pc[c] = "fill" /\ Reply(c, Error) /\ Set(todo, c, <<>>) /\ Set(source, c, Absent)
        /\ UNCHANGED <<tree, data, nextFile, call, handle, buf>>
    BY <1>2 DEF FillCopy
  <2>2. OnlyAt(c)  BY <2>1, Idle, Changed1, Ended1 DEF OnlyAt
  <2>3. pc'[c] = "done" /\ answer'[c] = Error /\ source'[c] = Absent  BY <2>1, Changed1, Ended1
  <2>4. QuietAt(c)  BY <2>1, <2>3, Here, Answers DEF QuietAt, PCs
  <2>5. tree' \in [Paths -> Files \cup {Absent, Dir}] /\ TreeKept
    BY <2>1 DEF WInv, Typed, TreeKept
  <2> QED  BY <2>1, <2>2, <2>4, <2>5, QuietStep
<1>3. CASE FillCopy(c) /\ source[c] # Dir
  <2> DEFINE new == data[source[c]]
  <2>1. /\ pc[c] = "fill" /\ data' = [data EXCEPT ![h] = Overlaid(old, new)]
        /\ Goto(c, "copy") /\ Set(source, c, Absent)
        /\ UNCHANGED <<tree, nextFile, call, handle, buf, todo>>
    BY <1>3 DEF FillCopy
  <2>2. h \in Files /\ old \in Seq(Lines) /\ source[c] \in Files /\ new \in Seq(Lines)
    BY <1>3, <2>1 DEF WInv, Typed, Doing
  <2>3. \A d \in Calls : pc[d] # "done" => d \notin Range(old) /\ d \notin Range(new)
    BY <2>2 DEF WInv, Unwritten
  <2> HIDE DEF h, old, new
  <2>4. /\ data' \in [Files -> Seq(Lines)] /\ data'[h] = Overlaid(old, new)
        /\ \A i \in Files : i # h => data'[i] = data[i]
    BY <2>1, <2>2, Rests DEF WInv, Typed
  <2>5. OnlyAt(c)  BY <2>1, Idle, Changed1, Ended1 DEF OnlyAt
  <2>6. pc'[c] = "copy" /\ source'[c] = Absent /\ buf'[c] = buf[c]  BY <2>1, Changed1, Ended1
  <2>7. Typed'
    <3>1. pc'[c] \in PCs /\ source'[c] \in Files \cup {Absent, Dir} /\ buf'[c] \in Seq(Lines)
      BY <2>6, Here DEF PCs
    <3> QED  BY <2>1, <2>4, <2>5, <3>1, TypedAt DEF WInv, Typed
  <2>8. Others(c)  BY <2>1, <2>5, Zenon DEF OnlyAt, At1, WInv, Typed, Others
  <2>0. answer'[c] # Ok  BY <2>1, Ended1, Here, ToolTable
  <2>9. Doing(c)'
    BY <2>1, <2>0, <2>6, Here, ToolTable DEF Doing
  <2>10. \A d \in Calls : pc[d] # "done" => d \notin Range(data'[h])
    BY <2>2, <2>3, <2>4, Rests
  <2>11. Clobbers(c, h)  BY <2>1 DEF Clobbers, h
  <2> QED  BY <2>1, <2>2, <2>4, <2>6, <2>7, <2>8, <2>9, <2>10, <2>11, Here DEF Fills, h
<1> QED  BY <1>1, <1>2, <1>3

-----------------------------------------------------------------------------
(***************************************************************************)
(* The invariant is kept.                                                  *)
(***************************************************************************)

\* Who is owed its append after a step of call c
LEMMA OwedStep ==
    ASSUME WInv, NEW c \in Calls, Others(c), RecordHistory, NEW e \in owed'
    PROVE  /\ e \in Calls
           /\ \/ e \in owed /\ ~Clobbers(c, handle[e])
              \/ /\ e = c /\ pc[c] = "write" /\ pc'[c] = "done" /\ answer'[c] = Ok
                 /\ call[c].tool = "write_file" /\ call[c].opt.mode = "append"
<1>1. \/ e \in owed /\ \A d \in Calls : ~Clobbers(d, handle[e])
      \/ e \in Calls /\ pc[e] = "write" /\ Ends(e) /\ Writes(e, "append") /\ answer'[e] = Ok
  BY DEF RecordHistory
<1>2. CASE e \in owed /\ \A d \in Calls : ~Clobbers(d, handle[e])
  BY <1>2 DEF WInv, OwedIsThere
<1>3. CASE e \in Calls /\ pc[e] = "write" /\ Ends(e) /\ Writes(e, "append") /\ answer'[e] = Ok
  <2>1. e = c  BY <1>3 DEF Others, Ends
  <2> QED  BY <1>3, <2>1 DEF Ends, Writes
<1> QED  BY <1>1, <1>2, <1>3

\* A step of a call disturbs what no other call knows of itself
LEMMA DoingOfOthers ==
    ASSUME WInv, NEW c \in Calls, Others(c), Doing(c)'
    PROVE  \A d \in Calls : Doing(d)'
<1>1. ASSUME NEW d \in Calls \ {c}  PROVE  Doing(d)'
  <2>1. Doing(d)  BY DEF WInv
  <2> QED  BY <2>1 DEF Others, Doing
<1> QED  BY <1>1

\* Nor the files that other calls hold
LEMMA HoldsOfOthers ==
    ASSUME NEW c \in Calls, Others(c), NEW d \in Calls \ {c}
    PROVE  Holds(d)' = Holds(d) /\ handle'[d] = handle[d]
BY DEF Others, Holds, Writes

\* A quiet step keeps the invariant
LEMMA QuietInv ==
    ASSUME WInv, NEW c \in Calls, Quiet(c), RecordHistory
    PROVE  WInv'
<1>0. Typed' /\ Others(c) /\ Doing(c)' /\ UNCHANGED <<data, nextFile, handle>>  BY DEF Quiet
<1>1. \A d \in Calls : Doing(d)'  BY <1>0, DoingOfOthers
<1>2. Numbered'
  <2>1. ASSUME NEW p \in Paths, tree'[p] \in Files  PROVE  tree'[p] < nextFile'
    BY <1>0, <2>1 DEF WInv, Numbered, Quiet, TreeKept
  <2> QED  BY <1>0, <2>1 DEF WInv, Numbered, Files
<1>3. Unwritten'
  <2> SUFFICES ASSUME NEW e \in Calls, pc'[e] # "done"
               PROVE  /\ \A i \in Files : e \notin Range(data'[i])
                      /\ \A d \in Calls \ {e} : e \notin Range(buf'[d])
    BY DEF Unwritten
  <2>1. pc[e] # "done"  BY DEF Quiet, Others
  <2>2. \A i \in Files : e \notin Range(data'[i])  BY <1>0, <2>1 DEF WInv, Unwritten
  <2>3. ASSUME NEW d \in Calls \ {e}  PROVE  e \notin Range(buf'[d])
    <3>1. CASE d = c  BY <2>1, <2>3, <3>1 DEF Quiet
    <3>2. CASE d # c  BY <2>1, <2>3, <3>2 DEF WInv, Unwritten, Quiet, Others
    <3> QED  BY <3>1, <3>2
  <2> QED  BY <2>2, <2>3
<1>4. CreatedApart'
  <2>1. ~Holds(c)'  BY DEF Quiet, Holds, Writes
  <2> QED  BY <1>0, <2>1, HoldsOfOthers DEF WInv, CreatedApart
<1>5. OwedIsThere'
  <2> SUFFICES ASSUME NEW e \in owed'
               PROVE  e \in Calls /\ pc'[e] = "done" /\ handle'[e] \in Files /\ OnceIn(e, data'[handle'[e]])
    BY DEF OwedIsThere, OnceIn
  <2>1. e \in owed  BY <1>0, OwedStep DEF Quiet
  <2>2. e \in Calls /\ pc[e] = "done" /\ handle[e] \in Files /\ OnceIn(e, data[handle[e]])
    BY <2>1 DEF WInv, OwedIsThere
  <2>3. e # c  BY <2>2 DEF Quiet
  <2> QED  BY <1>0, <2>2, <2>3 DEF Others
<1> QED  BY <1>0, <1>1, <1>2, <1>3, <1>4, <1>5 DEF WInv

\* Opening a file keeps the invariant: a created file has a number nobody holds
LEMMA OpensInv ==
    ASSUME WInv, NEW c \in Calls, Opens(c), RecordHistory
    PROVE  WInv'
<1>0. Typed' /\ Others(c) /\ Doing(c)' /\ handle'[c] < nextFile' /\ nextFile <= nextFile'
      /\ nextFile \in Int /\ nextFile' \in Int
  BY Constants DEF Opens, WInv, Typed
<1>1. \A d \in Calls : Doing(d)'  BY <1>0, DoingOfOthers
<1>2. Numbered'
  <2>1. ASSUME NEW d \in Calls  PROVE  handle'[d] < nextFile'
    <3>1. CASE d = c  BY <1>0, <3>1
    <3>2. CASE d # c
      <4>1. handle'[d] = handle[d] /\ handle[d] < nextFile /\ handle[d] \in Int
        BY <1>0, <3>2, Constants DEF Others, WInv, Numbered, Typed
      <4> QED  BY <1>0, <4>1
    <3> QED  BY <3>1, <3>2
  <2> QED  BY <2>1 DEF Opens, Numbered, Files
<1>3. Unwritten'
  <2> SUFFICES ASSUME NEW e \in Calls, pc'[e] # "done"
               PROVE  /\ \A i \in Files : e \notin Range(data'[i])
                      /\ \A d \in Calls \ {e} : e \notin Range(buf'[d])
    BY DEF Unwritten
  <2>1. pc[e] # "done"  BY DEF Opens, Others
  <2>2. \A i \in Files : e \notin Range(data'[i])
    BY <2>1, Texts, Zenon DEF WInv, Unwritten, Opens
  <2>3. \A d \in Calls : buf'[d] = buf[d]  BY DEF Opens, Others
  <2> QED  BY <2>1, <2>2, <2>3 DEF WInv, Unwritten
<1>4. CreatedApart'
  <2>1. Holds(c)' => handle'[c] = nextFile
    BY DEF Opens, Holds, Writes
  <2>2. \A d \in Calls : handle[d] < nextFile /\ handle[d] \in Int
    BY Constants DEF WInv, Numbered, Typed
  <2> SUFFICES ASSUME NEW d \in Calls, NEW e \in Calls, Holds(d)', Holds(e)', d # e
               PROVE  handle'[d] # handle'[e]
    BY DEF CreatedApart
  <2>3. CASE d = c  BY <1>0, <2>1, <2>2, <2>3, HoldsOfOthers
  <2>4. CASE e = c  BY <1>0, <2>1, <2>2, <2>4, HoldsOfOthers
  <2>5. CASE d # c /\ e # c  BY <1>0, <2>5, HoldsOfOthers DEF WInv, CreatedApart
  <2> QED  BY <2>3, <2>4, <2>5
<1>5. OwedIsThere'
  <2> SUFFICES ASSUME NEW e \in owed'
               PROVE  e \in Calls /\ pc'[e] = "done" /\ handle'[e] \in Files /\ OnceIn(e, data'[handle'[e]])
    BY DEF OwedIsThere, OnceIn
  <2>1. e \in owed /\ ~Clobbers(c, handle[e])  BY <1>0, OwedStep DEF Opens
  <2>2. e \in Calls /\ pc[e] = "done" /\ handle[e] \in Files /\ OnceIn(e, data[handle[e]])
    BY <2>1 DEF WInv, OwedIsThere
  <2>3. e # c  BY <2>2 DEF Opens
  <2>4. data'[handle[e]] = data[handle[e]]  BY <2>1, <2>2 DEF Opens
  <2> QED  BY <1>0, <2>2, <2>3, <2>4 DEF Others
<1> QED  BY <1>0, <1>1, <1>2, <1>3, <1>4, <1>5 DEF WInv

\* An append adds its text once, and adds no other
LEMMA OnceAppended ==
    ASSUME NEW lines \in Seq(Lines), NEW c \in Calls
    PROVE  /\ c \notin Range(lines) => OnceIn(c, Append(lines, c))
           /\ \A e \in Calls \ {c} : OnceIn(e, lines) => OnceIn(e, Append(lines, c))
<1>1. /\ DOMAIN Append(lines, c) = 1 .. Len(lines) + 1
      /\ \A i \in 1 .. Len(lines) : Append(lines, c)[i] = lines[i]
      /\ Append(lines, c)[Len(lines) + 1] = c
      /\ DOMAIN lines = 1 .. Len(lines) /\ Len(lines) \in Nat
  BY Constants
<1>2. ASSUME c \notin Range(lines)  PROVE  OnceIn(c, Append(lines, c))
  <2>0. \A j \in 1 .. Len(lines) : lines[j] # c  BY <1>1, <1>2 DEF Range
  <2>1. \A j \in 1 .. Len(lines) + 1 : Append(lines, c)[j] = c <=> j = Len(lines) + 1
    <3> DEFINE n == Len(lines)
               more == Append(lines, c)
    <3>1. /\ \A i \in 1 .. n : more[i] = lines[i]
          /\ more[n + 1] = c /\ n \in Nat
      BY <1>1
    <3> HIDE DEF n, more
    <3>2. \A j \in 1 .. n + 1 : j \in 1 .. n \/ j = n + 1  BY <3>1
    <3>3. \A j \in 1 .. n : j # n + 1  BY <3>1
    <3>4. \A i \in 1 .. n : lines[i] # c  BY <2>0 DEF n
    <3>5. \A j \in 1 .. n + 1 : more[j] = c <=> j = n + 1  BY <3>1, <3>2, <3>3, <3>4
    <3> QED  BY <3>5 DEF n, more
  <2> DEFINE more == Append(lines, c)
             k == Len(lines) + 1
  <2>2. DOMAIN more = 1 .. k /\ k \in 1 .. k  BY <1>1
  <2>3. \A j \in 1 .. k : more[j] = c <=> j = k  BY <2>1
  <2> HIDE DEF more, k
  <2>4. OnceIn(c, more)  BY <2>2, <2>3 DEF OnceIn
  <2> QED  BY <2>4 DEF more
<1>3. ASSUME NEW e \in Calls \ {c}, OnceIn(e, lines)  PROVE  OnceIn(e, Append(lines, c))
  <2>1. PICK k \in DOMAIN lines : \A j \in DOMAIN lines : lines[j] = e <=> j = k  BY <1>3 DEF OnceIn
  <2>2. k \in 1 .. Len(lines) + 1  BY <1>1
  <2>3. \A j \in 1 .. Len(lines) + 1 : Append(lines, c)[j] = e <=> j = k  BY <1>1, <2>1
  <2> QED  BY <1>1, <2>2, <2>3 DEF OnceIn
<1> QED  BY <1>2, <1>3

\* Filling a file keeps the invariant
LEMMA FillsInv ==
    ASSUME WInv, NEW c \in Calls, Fills(c), RecordHistory
    PROVE  WInv'
<1>0. Typed' /\ Others(c) /\ Doing(c)' /\ UNCHANGED <<tree, nextFile, handle, call>>
      /\ pc[c] # "done" /\ handle[c] \in Files
  BY DEF Fills
<1>1. \A d \in Calls : Doing(d)'  BY <1>0, DoingOfOthers
<1>2. Numbered'  BY <1>0 DEF WInv, Numbered, Files
<1>3. Unwritten'
  <2> SUFFICES ASSUME NEW e \in Calls, pc'[e] # "done"
               PROVE  /\ \A i \in Files : e \notin Range(data'[i])
                      /\ \A d \in Calls \ {e} : e \notin Range(buf'[d])
    BY DEF Unwritten
  <2>1. pc[e] # "done"  BY DEF Fills, Others
  <2>2. e \notin Range(data'[handle[c]])  BY <2>1 DEF Fills
  <2>3. \A i \in Files : e \notin Range(data'[i])
    BY <2>1, <2>2 DEF WInv, Unwritten, Fills
  <2>4. ASSUME NEW d \in Calls \ {e}  PROVE  e \notin Range(buf'[d])
    <3>1. CASE d = c  BY <2>1, <2>4, <3>1 DEF Fills
    <3>2. CASE d # c  BY <1>0, <2>1, <2>4, <3>2 DEF WInv, Unwritten, Others
    <3> QED  BY <3>1, <3>2
  <2> QED  BY <2>3, <2>4
<1>4. CreatedApart'
  <2>1. Holds(c)' => Holds(c)
    <3>1. pc'[c] = "done" => pc[c] = "write"  BY DEF Fills
    <3>2. pc'[c] # "write"  BY DEF Fills
    <3> QED  BY <1>0, <3>1, <3>2 DEF Holds, Writes
  <2> QED  BY <1>0, <2>1, HoldsOfOthers DEF WInv, CreatedApart
<1>5. OwedIsThere'
  <2> SUFFICES ASSUME NEW e \in owed'
               PROVE  e \in Calls /\ pc'[e] = "done" /\ handle'[e] \in Files /\ OnceIn(e, data'[handle'[e]])
    BY DEF OwedIsThere, OnceIn
  <2>1. CASE e \in owed /\ ~Clobbers(c, handle[e])
    <3>1. e \in Calls /\ pc[e] = "done" /\ handle[e] \in Files /\ OnceIn(e, data[handle[e]])
      BY <2>1 DEF WInv, OwedIsThere
    <3>2. e # c  BY <1>0, <3>1
    <3>3. CASE handle[e] # handle[c]  BY <1>0, <3>1, <3>2, <3>3 DEF Fills, Others
    <3>4. CASE handle[e] = handle[c]
      <4>1. data'[handle[c]] = Append(data[handle[c]], c)  BY <2>1, <3>4 DEF Fills
      <4>2. data[handle[c]] \in Seq(Lines)  BY <1>0 DEF WInv, Typed
      <4> QED  BY <1>0, <3>1, <3>2, <3>4, <4>1, <4>2, OnceAppended DEF Others
    <3> QED  BY <3>3, <3>4
  <2>2. CASE /\ e = c /\ pc[c] = "write" /\ pc'[c] = "done" /\ answer'[c] = Ok
             /\ call[c].tool = "write_file" /\ call[c].opt.mode = "append"
    <3>1. data'[handle[c]] = Append(data[handle[c]], c)  BY <2>2 DEF Fills
    <3>2. data[handle[c]] \in Seq(Lines) /\ c \notin Range(data[handle[c]])
      BY <1>0 DEF WInv, Typed, Unwritten
    <3> QED  BY <1>0, <2>2, <3>1, <3>2, OnceAppended
  <2> QED  BY <1>0, <2>1, <2>2, OwedStep
<1> QED  BY <1>0, <1>1, <1>2, <1>3, <1>4, <1>5 DEF WInv

\* The first state satisfies the invariant
LEMMA InitWInv == Init => WInv
<1> SUFFICES ASSUME Init PROVE WInv  OBVIOUS
<1>1. PICK t \in Trees : tree = t.tree /\ data = t.data /\ nextFile = t.nextFile  BY DEF Init
<1>2. /\ pc = [c \in Calls |-> "idle"]
      /\ call = [c \in Calls |-> NoCall]
      /\ handle = [c \in Calls |-> Absent]
      /\ source = [c \in Calls |-> Absent]
      /\ buf = [c \in Calls |-> <<>>]
      /\ todo = [c \in Calls |-> <<>>]
      /\ answer = [c \in Calls |-> NoAnswer]
      /\ owed = {}
  BY DEF Init
<1>3. /\ tree \in [Paths -> Files \cup {Absent, Dir}]
      /\ data \in [Files -> Seq(Lines)]
      /\ nextFile \in 1 .. MaxFiles + 1
      /\ \A p \in Paths : tree[p] \in Files => tree[p] < nextFile
      /\ \A i \in Files : Range(data[i]) \cap Calls = {}
  BY <1>1, TreesAreTrees, TextsAreNew
<1>4. <<>> \in Seq(Lines) /\ Range(<<>>) = {}  BY DEF Range
<1>5. Typed  BY <1>2, <1>3, <1>4 DEF Typed, PCs
<1>6. ASSUME NEW c \in Calls  PROVE  Doing(c)
  <2>1. NoCall.tool = "none"  BY DEF NoCall, Call
  <2> QED  BY <1>2, <2>1, ToolTable, Answers DEF Doing
<1>7. Numbered  BY <1>2, <1>3, Constants DEF Numbered
<1>8. Unwritten  BY <1>2, <1>3, <1>4 DEF Unwritten
<1>9. CreatedApart
  <2>1. NoCall.tool = "none"  BY DEF NoCall, Call
  <2> QED  BY <1>2, <2>1 DEF CreatedApart, Holds, Writes
<1>10. OwedIsThere  BY <1>2 DEF OwedIsThere
<1> QED  BY <1>5, <1>6, <1>7, <1>8, <1>9, <1>10 DEF WInv

\* Every step is quiet, opens a file or fills one
LEMMA StepKinds ==
    ASSUME WInv, NEW c \in Calls, Step(c)
    PROVE  Quiet(c) \/ Opens(c) \/ Fills(c)
<1>1. Quietly(c) \/ OpenToWrite(c) \/ CopyFile(c) \/ Write(c) \/ FillCopy(c)  BY DEF Step, Quietly
<1> QED  BY <1>1, QuietSteps, OpenSteps, FillSteps

\* Every step keeps the invariant
LEMMA NextWInv == WInv /\ [Next]_vars => WInv'
<1> SUFFICES ASSUME WInv, [Next]_vars  PROVE WInv'  OBVIOUS
<1>1. CASE Next
  <2>1. PICK c \in Calls : Step(c)  BY <1>1 DEF Next
  <2>2. RecordHistory  BY <1>1 DEF Next
  <2>4. Quiet(c) \/ Opens(c) \/ Fills(c)  BY <2>1, StepKinds
  <2> QED  BY <2>2, <2>4, QuietInv, OpensInv, FillsInv
<1>2. CASE UNCHANGED vars
  <2>1. UNCHANGED <<tree, data, nextFile, pc, call, handle, source, buf, todo, answer, owed>>
    BY <1>2 DEF vars, fileVars, callVars, historyVars
  <2>2. Typed'  BY <2>1 DEF WInv, Typed
  <2>3. \A c \in Calls : Doing(c)'  BY <2>1 DEF WInv, Doing
  <2>4. Numbered' /\ Unwritten'  BY <2>1 DEF WInv, Numbered, Unwritten, Files
  <2>5. CreatedApart' /\ OwedIsThere'
    BY <2>1 DEF WInv, CreatedApart, Holds, Writes, OwedIsThere, OnceIn, Files
  <2> QED  BY <2>2, <2>3, <2>4, <2>5 DEF WInv
<1> QED  BY <1>1, <1>2

\* The invariant implies WritesHold
LEMMA WInvImplies == WInv => WritesHold
<1> SUFFICES ASSUME WInv PROVE WritesHold  OBVIOUS
<1>1. \A c \in owed : \E k \in DOMAIN data[handle[c]] :
          \A j \in DOMAIN data[handle[c]] : data[handle[c]][j] = c <=> j = k
  BY DEF WInv, OwedIsThere, OnceIn
<1>2. ASSUME NEW c \in Calls, NEW d \in Calls, c # d,
             Writes(c, "create_only"), answer[c] = Ok, Writes(d, "create_only"), answer[d] = Ok
      PROVE  handle[c] # handle[d]
  <2>1. pc[c] = "done" /\ pc[d] = "done"  BY <1>2, Here DEF Writes
  <2> QED  BY <1>2, <2>1 DEF WInv, CreatedApart, Holds
<1> QED  BY <1>1, <1>2 DEF WritesHold

\* No appended text is lost, or written twice, and no file is created by two calls:
\* whatever calls run at the same time, an append that was answered "ok" is in its
\* file exactly once until another call truncates that file or writes it from its
\* beginning, and two create_only calls that both succeeded hold different files.
THEOREM WritesAreKept == Spec => []WritesHold
<1>1. Init => WInv  BY InitWInv
<1>2. WInv /\ [Next]_vars => WInv'  BY NextWInv
<1>3. WInv => WritesHold  BY WInvImplies
<1> QED  BY <1>1, <1>2, <1>3, PTL DEF Spec

-----------------------------------------------------------------------------
(***************************************************************************)
(* Prefixes of paths.                                                      *)
(***************************************************************************)

\* A path is a nonempty sequence of names
LEMMA PathFacts ==
    ASSUME NEW p \in Paths
    PROVE  p \in Seq(STRING) /\ p # <<>> /\ Len(p) \in Nat \ {0}
BY PathsHaveParents

\* A prefix, name by name
LEMMA PrefixIs ==
    ASSUME NEW s \in Seq(STRING), NEW t \in Seq(STRING)
    PROVE  IsPrefix(s, t) <=> (Len(s) <= Len(t) /\ \A i \in 1 .. Len(s) : s[i] = t[i])
<1>1. CASE Len(s) <= Len(t)
  <2> DEFINE a == SubSeq(s, 1, Len(s))
             b == SubSeq(t, 1, Len(s))
  <2>1. /\ a \in Seq(STRING) /\ b \in Seq(STRING) /\ Len(a) = Len(s) /\ Len(b) = Len(s)
        /\ \A i \in 1 .. Len(s) : a[i] = s[i] /\ b[i] = t[i]
    BY <1>1
  <2> HIDE DEF a, b
  <2>2. a = b <=> \A i \in 1 .. Len(s) : a[i] = b[i]  BY <2>1
  <2> QED  BY <1>1, <2>1, <2>2 DEF IsPrefix, a, b
<1>2. CASE ~(Len(s) <= Len(t))  BY <1>2 DEF IsPrefix
<1> QED  BY <1>1, <1>2

\* Two sequences with the same names are the same
LEMMA SeqIsSeq ==
    ASSUME NEW s \in Seq(STRING), NEW t \in Seq(STRING), Len(s) = Len(t),
           \A i \in 1 .. Len(s) : s[i] = t[i]
    PROVE  s = t
OBVIOUS

\* Prefixes are an order, and the prefixes of one path a chain
LEMMA PrefixOrder ==
    ASSUME NEW s \in Seq(STRING), NEW t \in Seq(STRING), NEW u \in Seq(STRING)
    PROVE  /\ IsPrefix(s, s)
           /\ IsPrefix(s, t) /\ IsPrefix(t, u) => IsPrefix(s, u)
           /\ IsPrefix(s, u) /\ IsPrefix(t, u) => IsPrefix(s, t) \/ IsPrefix(t, s)
           /\ IsPrefix(s, t) /\ IsPrefix(t, s) => s = t
           /\ IsPrefix(s, t) => s = t \/ Len(s) < Len(t)
<1>1. IsPrefix(s, s)  BY PrefixIs
<1>2. IsPrefix(s, t) /\ IsPrefix(t, u) => IsPrefix(s, u)  BY PrefixIs
<1>3. IsPrefix(s, u) /\ IsPrefix(t, u) => IsPrefix(s, t) \/ IsPrefix(t, s)  BY PrefixIs
<1>4. IsPrefix(s, t) /\ IsPrefix(t, s) => s = t  BY PrefixIs, SeqIsSeq
<1>5. IsPrefix(s, t) => s = t \/ Len(s) < Len(t)  BY PrefixIs, SeqIsSeq
<1> QED  BY <1>1, <1>2, <1>3, <1>4, <1>5

\* The directory of a path is the longest path it is below
LEMMA FrontIs ==
    ASSUME NEW p \in Paths, Len(p) # 1
    PROVE  /\ Front(p) \in Paths /\ IsStrictPrefix(Front(p), p)
           /\ \A q \in Paths : IsStrictPrefix(q, p) => IsPrefix(q, Front(p))
<1>1. p \in Seq(STRING) /\ Len(p) \in Nat /\ Len(p) > 1
  <2>1. p \in Seq(STRING) /\ Len(p) \in Nat \ {0}  BY PathFacts
  <2> DEFINE n == Len(p)
  <2>2. n \in Nat \ {0} /\ n # 1  BY <2>1
  <2> HIDE DEF n
  <2>3. n \in Nat /\ n > 1  BY <2>2
  <2> QED  BY <2>1, <2>3 DEF n
<1>2. Front(p) \in Paths  BY <1>1, PathsHaveParents DEF Front
<1> DEFINE f == Front(p)
<1>3. f \in Seq(STRING) /\ Len(f) = Len(p) - 1 /\ \A i \in 1 .. Len(f) : f[i] = p[i]
  BY <1>1 DEF Front
<1> HIDE DEF f
<1>4. IsStrictPrefix(f, p)  BY <1>1, <1>3, PrefixIs DEF IsStrictPrefix
<1>5. ASSUME NEW q \in Paths, IsStrictPrefix(q, p)  PROVE  IsPrefix(q, f)
  <2>1. q \in Seq(STRING)  BY PathFacts
  <2>2. Len(q) < Len(p) /\ \A i \in 1 .. Len(q) : q[i] = p[i]
    BY <1>1, <1>5, <2>1, PrefixIs, PrefixOrder DEF IsStrictPrefix
  <2> QED  BY <1>1, <1>3, <2>1, <2>2, PrefixIs
<1> QED  BY <1>2, <1>4, <1>5 DEF f

\* What is below p goes below q, and nothing else does
LEMMA RestIs ==
    ASSUME NEW p \in Seq(STRING), NEW q \in Seq(STRING), NEW r \in Seq(STRING), IsPrefix(q, r)
    PROVE  /\ Rest(q, r) \in Seq(STRING) /\ Len(Rest(q, r)) = Len(r) - Len(q)
           /\ \A i \in 1 .. Len(r) - Len(q) : Rest(q, r)[i] = r[Len(q) + i]
           /\ p \o Rest(q, r) \in Seq(STRING)
           /\ IsPrefix(p, p \o Rest(q, r))
           /\ Len(p \o Rest(q, r)) = Len(p) + Len(r) - Len(q)
           /\ \A i \in 1 .. Len(p) : (p \o Rest(q, r))[i] = p[i]
           /\ \A i \in 1 .. Len(r) - Len(q) : (p \o Rest(q, r))[Len(p) + i] = r[Len(q) + i]
<1>1. Len(q) <= Len(r)  BY PrefixIs
<1> DEFINE rest == Rest(q, r)
<1>2. \A i \in Len(q) + 1 .. Len(r) : r[i] \in STRING  OBVIOUS
<1>3. /\ rest \in Seq(STRING) /\ Len(rest) = Len(r) - Len(q)
      /\ \A i \in 1 .. Len(r) - Len(q) : rest[i] = r[Len(q) + i]
  BY <1>1, <1>2, SubSeqProperties DEF Rest
<1> HIDE DEF rest
<1> DEFINE s == p \o rest
<1>4. /\ s \in Seq(STRING) /\ Len(s) = Len(p) + Len(r) - Len(q)
      /\ \A i \in 1 .. Len(p) : s[i] = p[i]
      /\ \A i \in 1 .. Len(r) - Len(q) : s[Len(p) + i] = r[Len(q) + i]
  <2>1. Len(r) - Len(q) \in Nat  BY <1>1
  <2>2. /\ s \in Seq(STRING) /\ Len(s) = Len(p) + Len(rest)
        /\ \A i \in 1 .. Len(p) + Len(rest) :
              s[i] = IF i <= Len(p) THEN p[i] ELSE rest[i - Len(p)]
    BY <1>3, ConcatProperties, Zenon
  <2> HIDE DEF s
  <2>3. Len(p) \in Nat /\ Len(q) \in Nat /\ Len(r) \in Nat  OBVIOUS
  <2>4. Len(s) = Len(p) + Len(r) - Len(q)  BY <1>3, <2>2, <2>3, SMTT(30)
  <2>5. \A i \in 1 .. Len(p) : s[i] = p[i]  BY <1>3, <2>1, <2>2, <2>3, SMTT(30)
  <2>6. ASSUME NEW i \in 1 .. Len(r) - Len(q)  PROVE  s[Len(p) + i] = r[Len(q) + i]
    <3>1. Len(p) + i \in 1 .. Len(p) + Len(rest) /\ ~(Len(p) + i <= Len(p)) /\ (Len(p) + i) - Len(p) = i
      BY <1>3, <2>1, <2>3
    <3> QED  BY <1>3, <2>2, <3>1
  <2> QED  BY <2>2, <2>4, <2>5, <2>6, Zenon
<1> HIDE DEF s
<1>5. IsPrefix(p, s)  BY <1>1, <1>4, PrefixIs
<1> QED  BY <1>3, <1>4, <1>5 DEF s, rest

-----------------------------------------------------------------------------
(***************************************************************************)
(* The tree is a tree: what is there is in directories all the way, and a  *)
(* file has one path.                                                      *)
(***************************************************************************)

\* What is there is in directories all the way up
InFolders == \A p, q \in Paths : tree[p] # Absent /\ IsStrictPrefix(q, p) => tree[q] = Dir
OnePath == \A p, q \in Paths : tree[p] \in Files /\ p # q => tree[p] # tree[q]
TreeInv == InFolders /\ OnePath

\* A path with a parent has directories all the way
LEMMA ParentsAbove ==
    ASSUME WInv, TreeInv, NEW q \in Paths, HasParent(q), NEW s \in Paths, IsStrictPrefix(s, q)
    PROVE  tree[s] = Dir
<1>1. s \in Seq(STRING) /\ q \in Seq(STRING) /\ Len(s) \in Nat \ {0}  BY PathFacts
<1>2. Len(q) # 1  BY <1>1, PrefixIs, PrefixOrder DEF IsStrictPrefix
<1>3. Front(q) \in Paths /\ IsPrefix(s, Front(q))  BY <1>2, FrontIs
<1>4. tree[Front(q)] = Dir  BY <1>2, <1>3 DEF HasParent, IsFolder, At
<1> QED  BY <1>3, <1>4, Constants DEF TreeInv, InFolders, IsStrictPrefix

\* os.MkdirAll leaves a tree
LEMMA WithDirsTree ==
    ASSUME WInv, TreeInv, NEW p, CanMkdirAll(p), tree' = WithDirs(p)
    PROVE  TreeInv'
<1>1. p \in Paths /\ \A q \in Paths : tree'[q] = IF IsPrefix(q, p) THEN Dir ELSE tree[q]
  BY DEF CanMkdirAll, WithDirs
<1>2. ASSUME NEW r \in Paths, NEW q \in Paths, tree'[r] # Absent, IsStrictPrefix(q, r)
      PROVE  tree'[q] = Dir
  <2>1. IsPrefix(r, p) => IsPrefix(q, p)  BY <1>1, <1>2, PathFacts, PrefixOrder DEF IsStrictPrefix
  <2> QED  BY <1>1, <1>2, <2>1 DEF TreeInv, InFolders
<1>3. OnePath'
  BY <1>1, Constants DEF TreeInv, OnePath, Files
<1> QED  BY <1>2, <1>3 DEF TreeInv, InFolders, Absent, Dir

\* Removing a file or an empty directory leaves a tree
LEMMA DiscardTree ==
    ASSUME WInv, TreeInv, NEW p, CanRemove(p), Discard(p)
    PROVE  TreeInv'
<1>1. p \in Paths  BY DEF CanRemove, At
<1>2. \A q \in Paths : tree'[q] = IF q = p THEN Absent ELSE tree[q]
  BY <1>1 DEF Discard, WInv, Typed
<1>3. ASSUME NEW r \in Paths, NEW q \in Paths, tree'[r] # Absent, IsStrictPrefix(q, r)
      PROVE  tree'[q] = Dir
  <2>1. tree[r] # Absent /\ tree[q] = Dir  BY <1>2, <1>3 DEF TreeInv, InFolders
  <2>2. q # p  BY <1>3, <2>1 DEF CanRemove, Below, IsStrictPrefix
  <2> QED  BY <1>2, <2>1, <2>2
<1>4. OnePath'  BY <1>2, Constants DEF TreeInv, OnePath, Files
<1> QED  BY <1>3, <1>4 DEF TreeInv, InFolders, Absent, Dir

\* Creating a file in a directory leaves a tree, and the file has one path
LEMMA OpenTree ==
    ASSUME WInv, TreeInv, NEW p, NEW b, CanOpen(p), OpenFile(p, b)
    PROVE  TreeInv'
<1>0. p \in Paths /\ HasParent(p) /\ tree[p] # Dir  BY DEF CanOpen, IsFolder, At
<1>1. CASE IsFile(p)
  <2>1. \A q \in Paths : tree'[q] = tree[q]
    BY <1>0, <1>1 DEF OpenFile, Opened, WInv, Typed
  <2> QED  BY <2>1 DEF TreeInv, InFolders, OnePath, Absent, Dir, Files
<1>2. CASE ~IsFile(p)
  <2>1. \A q \in Paths : tree'[q] = IF q = p THEN nextFile ELSE tree[q]
    BY <1>0, <1>2 DEF OpenFile, Opened, WInv, Typed
  <2>2. nextFile \in Files
    BY <1>2, Constants DEF OpenFile, WInv, Typed
  <2>3. ASSUME NEW r \in Paths, NEW q \in Paths, tree'[r] # Absent, IsStrictPrefix(q, r)
        PROVE  tree'[q] = Dir
    <3>1. CASE r = p  BY <1>0, <2>1, <2>3, <3>1, ParentsAbove DEF IsStrictPrefix
    <3>2. CASE r # p
      <4>1. tree[q] = Dir  BY <2>1, <2>3, <3>2 DEF TreeInv, InFolders
      <4> QED  BY <1>0, <2>1, <4>1
    <3> QED  BY <3>1, <3>2
  <2>4. \A q \in Paths : tree[q] # nextFile
    BY <2>2, Constants DEF WInv, Numbered
  <2>5. OnePath'  BY <2>1, <2>4 DEF TreeInv, OnePath, Files
  <2> QED  BY <2>3, <2>5 DEF TreeInv, InFolders, Absent, Dir
<1> QED  BY <1>1, <1>2

\* Where a path that is below q after a rename of p to q has come from
LEMMA Origin ==
    ASSUME NEW p \in Paths, NEW q \in Paths, NEW r \in Paths, NEW s \in Paths,
           IsPrefix(q, r), IsPrefix(q, s)
    PROVE  /\ IsPrefix(p, p \o Rest(q, r))
           /\ r # s => p \o Rest(q, r) # p \o Rest(q, s)
           /\ (IsStrictPrefix(s, r) /\ p \o Rest(q, r) \in Paths) =>
                 p \o Rest(q, s) \in Paths /\ IsStrictPrefix(p \o Rest(q, s), p \o Rest(q, r))
<1> DEFINE r0 == p \o Rest(q, r)
           s0 == p \o Rest(q, s)
<1>1. /\ p \in Seq(STRING) /\ q \in Seq(STRING) /\ r \in Seq(STRING) /\ s \in Seq(STRING)
      /\ Len(p) \in Nat /\ Len(q) \in Nat /\ Len(r) \in Nat /\ Len(s) \in Nat /\ Len(p) > 0
  BY PathFacts
<1>2. /\ Len(q) <= Len(r) /\ \A i \in 1 .. Len(q) : q[i] = r[i]
      /\ Len(q) <= Len(s) /\ \A i \in 1 .. Len(q) : q[i] = s[i]
  BY <1>1, PrefixIs
<1>3. /\ r0 \in Seq(STRING) /\ IsPrefix(p, r0) /\ Len(r0) = Len(p) + Len(r) - Len(q)
      /\ \A i \in 1 .. Len(p) : r0[i] = p[i]
      /\ \A i \in 1 .. Len(r) - Len(q) : r0[Len(p) + i] = r[Len(q) + i]
  <2>1. p \in Seq(STRING) /\ q \in Seq(STRING) /\ r \in Seq(STRING) /\ IsPrefix(q, r)  BY <1>1
  <2> QED  BY <2>1, RestIs
<1>4. /\ s0 \in Seq(STRING) /\ IsPrefix(p, s0) /\ Len(s0) = Len(p) + Len(s) - Len(q)
      /\ \A i \in 1 .. Len(p) : s0[i] = p[i]
      /\ \A i \in 1 .. Len(s) - Len(q) : s0[Len(p) + i] = s[Len(q) + i]
  <2>1. p \in Seq(STRING) /\ q \in Seq(STRING) /\ s \in Seq(STRING) /\ IsPrefix(q, s)  BY <1>1
  <2> QED  BY <2>1, RestIs
<1> HIDE DEF r0, s0
<1>5. ASSUME r0 = s0  PROVE  r = s
  <2>1. Len(r) = Len(s)  BY <1>1, <1>3, <1>4, <1>5
  <2>2. ASSUME NEW i \in 1 .. Len(r)  PROVE  r[i] = s[i]
    <3>1. CASE i <= Len(q)  BY <1>1, <1>2, <3>1
    <3>2. CASE i > Len(q)
      <4>1. i - Len(q) \in 1 .. Len(r) - Len(q) /\ Len(q) + (i - Len(q)) = i  BY <1>1, <1>2, <3>2
      <4> QED  BY <1>3, <1>4, <1>5, <2>1, <4>1, Zenon
    <3> QED  BY <1>1, <3>1, <3>2
  <2> QED  BY <1>1, <2>1, <2>2, SeqIsSeq
<1>6. ASSUME IsStrictPrefix(s, r), r0 \in Paths
      PROVE  s0 \in Paths /\ IsStrictPrefix(s0, r0)
  <2>1. Len(s) < Len(r) /\ \A i \in 1 .. Len(s) : s[i] = r[i]
    BY <1>1, <1>6, PrefixIs, PrefixOrder DEF IsStrictPrefix
  <2>2. Len(s0) < Len(r0) /\ Len(s0) \in 1 .. Len(r0)  BY <1>1, <1>2, <1>3, <1>4, <2>1
  <2>3. ASSUME NEW i \in 1 .. Len(s0)  PROVE  s0[i] = r0[i]
    <3>1. CASE i <= Len(p)  BY <1>1, <1>3, <1>4, <3>1
    <3>2. CASE i > Len(p)
      <4> DEFINE k == i - Len(p)
      <4>1. /\ k \in 1 .. Len(s) - Len(q) /\ k \in 1 .. Len(r) - Len(q) /\ Len(p) + k = i
            /\ Len(q) + k \in 1 .. Len(s)
        BY <1>1, <1>2, <1>4, <2>1, <3>2
      <4> HIDE DEF k
      <4>2. s0[Len(p) + k] = s[Len(q) + k] /\ r0[Len(p) + k] = r[Len(q) + k]  BY <1>3, <1>4, <4>1, Zenon
      <4> QED  BY <2>1, <4>1, <4>2
    <3> QED  BY <1>1, <3>1, <3>2
  <2>4. IsStrictPrefix(s0, r0)
    <3>1. IsPrefix(s0, r0)
      <4>1. Len(s0) <= Len(r0)  BY <1>1, <1>3, <1>4, <2>2
      <4>2. s0 \in Seq(STRING) /\ r0 \in Seq(STRING)  BY <1>3, <1>4
      <4> QED  BY <2>3, <4>1, <4>2, PrefixIs
    <3>2. s0 # r0  BY <1>1, <1>3, <1>4, <2>2
    <3> QED  BY <3>1, <3>2 DEF IsStrictPrefix
  <2> DEFINE t == SubSeq(r0, 1, Len(s0))
  <2>5. t \in Paths  BY <1>6, <2>2, PathsHaveParents
  <2>6. t \in Seq(STRING) /\ Len(t) = Len(s0) /\ \A i \in 1 .. Len(s0) : t[i] = r0[i]
    BY <1>3, <2>2
  <2> HIDE DEF t
  <2>7. t = s0  BY <1>4, <2>3, <2>6, SeqIsSeq, Zenon
  <2> QED  BY <2>4, <2>5, <2>7
<1> QED  BY <1>3, <1>5, <1>6, Zenon DEF r0, s0

\* os.Rename leaves a tree: what is below the old path moves below the new one
LEMMA RenameTree ==
    ASSUME WInv, TreeInv, NEW p \in Paths, NEW q \in Paths, CanRename(p, q), tree' = Renamed(p, q)
    PROVE  TreeInv'
<1>1. /\ tree[p] # Absent /\ HasParent(q) /\ tree[q] # Dir
      /\ tree[p] = Dir => ~IsStrictPrefix(p, q)
  BY DEF CanRename, IsFolder, At
<1>2. \A r \in Paths : tree'[r] = IF IsPrefix(q, r) THEN At(p \o Rest(q, r))
                                  ELSE IF IsPrefix(p, r) THEN Absent ELSE tree[r]
  BY DEF Renamed
<1>3. \A r \in Paths : r \in Seq(STRING)  BY PathFacts
<1>4. ASSUME NEW r \in Paths, IsPrefix(q, r), tree'[r] # Absent
      PROVE  p \o Rest(q, r) \in Paths /\ tree'[r] = tree[p \o Rest(q, r)]
  BY <1>2, <1>4 DEF At
\* What is above the destination stays
<1>5. ASSUME NEW s \in Paths, IsStrictPrefix(s, q)  PROVE  tree'[s] = Dir
  <2>1. tree[s] = Dir  BY <1>1, <1>5, ParentsAbove
  <2>2. ~IsPrefix(q, s)  BY <1>3, <1>5, PrefixOrder DEF IsStrictPrefix
  <2>3. ~IsPrefix(p, s)
    <3> SUFFICES ASSUME IsPrefix(p, s) PROVE FALSE  OBVIOUS
    <3>1. tree[p] = Dir  BY <2>1, Constants DEF TreeInv, InFolders, IsStrictPrefix
    <3>2. IsStrictPrefix(p, q)  BY <1>3, <1>5, PrefixOrder DEF IsStrictPrefix
    <3> QED  BY <1>1, <3>1, <3>2
  <2> QED  BY <1>2, <2>1, <2>2, <2>3
<1>6. ASSUME NEW r \in Paths, NEW s \in Paths, tree'[r] # Absent, IsStrictPrefix(s, r)
      PROVE  tree'[s] = Dir
  <2>1. CASE IsPrefix(q, r)
    <3>1. p \o Rest(q, r) \in Paths /\ tree[p \o Rest(q, r)] # Absent  BY <1>4, <1>6, <2>1
    <3>2. CASE IsPrefix(q, s)
      <4>1. p \o Rest(q, s) \in Paths /\ IsStrictPrefix(p \o Rest(q, s), p \o Rest(q, r))
        BY <1>6, <2>1, <3>1, <3>2, Origin
      <4>2. tree[p \o Rest(q, s)] = Dir  BY <3>1, <4>1 DEF TreeInv, InFolders
      <4> QED  BY <1>2, <3>2, <4>1, <4>2 DEF At
    <3>3. CASE ~IsPrefix(q, s)
      <4>1. IsStrictPrefix(s, q)  BY <1>3, <1>6, <2>1, <3>3, PrefixOrder DEF IsStrictPrefix
      <4> QED  BY <1>5, <4>1
    <3> QED  BY <3>2, <3>3
  <2>2. CASE ~IsPrefix(q, r)
    <3>1. tree'[r] = tree[r] /\ ~IsPrefix(p, r)  BY <1>2, <1>6, <2>2
    <3>2. ~IsPrefix(q, s) /\ ~IsPrefix(p, s)
      BY <1>3, <1>6, <2>2, <3>1, PrefixOrder DEF IsStrictPrefix
    <3>3. tree[s] = Dir  BY <1>6, <3>1 DEF TreeInv, InFolders
    <3> QED  BY <1>2, <3>2, <3>3
  <2> QED  BY <2>1, <2>2
<1>7. ASSUME NEW r \in Paths, NEW s \in Paths, tree'[r] \in Files, r # s
      PROVE  tree'[r] # tree'[s]
  <2> SUFFICES ASSUME tree'[r] = tree'[s] PROVE FALSE  OBVIOUS
  <2>0. tree'[r] # Absent /\ tree'[s] # Absent /\ tree'[s] \in Files  BY <1>7, Constants
  <2>1. \A t \in Paths : tree'[t] # Absent /\ ~IsPrefix(q, t) => tree'[t] = tree[t] /\ ~IsPrefix(p, t)
    BY <1>2
  <2>2. CASE IsPrefix(q, r) /\ IsPrefix(q, s)
    <3>1. p \o Rest(q, r) # p \o Rest(q, s)  BY <1>7, <2>2, Origin, Zenon
    <3>2. /\ p \o Rest(q, r) \in Paths /\ tree'[r] = tree[p \o Rest(q, r)]
          /\ p \o Rest(q, s) \in Paths /\ tree'[s] = tree[p \o Rest(q, s)]
      BY <1>4, <2>0, <2>2
    <3> QED  BY <1>7, <3>1, <3>2, Zenon DEF TreeInv, OnePath
  <2>3. CASE IsPrefix(q, r) /\ ~IsPrefix(q, s)
    <3>1. p \o Rest(q, r) # s  BY <2>0, <2>1, <2>3, Origin, Zenon
    <3> QED  BY <1>4, <1>7, <2>0, <2>1, <2>3, <3>1, ZenonT(40) DEF TreeInv, OnePath
  <2>4. CASE ~IsPrefix(q, r) /\ IsPrefix(q, s)
    <3>1. p \o Rest(q, s) # r  BY <2>0, <2>1, <2>4, Origin, Zenon
    <3> QED  BY <1>4, <1>7, <2>0, <2>1, <2>4, <3>1, ZenonT(40) DEF TreeInv, OnePath
  <2>5. CASE ~IsPrefix(q, r) /\ ~IsPrefix(q, s)
    BY <1>7, <2>0, <2>1, <2>5 DEF TreeInv, OnePath
  <2> QED  BY <2>2, <2>3, <2>4, <2>5
<1> QED  BY <1>6, <1>7 DEF TreeInv, InFolders, OnePath, Absent, Dir, Files

-----------------------------------------------------------------------------
(***************************************************************************)
(* Directories and todo lists.                                             *)
(***************************************************************************)

\* s has the numbers of S in ascending order
Sorted(s, S) == s \in [1 .. Cardinality(S) -> S] /\ \A i, j \in DOMAIN s : i < j => s[i] < s[j]

\* A nonempty set of numbers has a least one
LEMMA LeastNat ==
    ASSUME NEW T, T \subseteq Nat, T # {}
    PROVE  \E n \in T : \A m \in T : n <= m
<1>1. PICK n \in T : \A m \in T : ~ (<<m, n>> \in OpToRel(<, Nat))
  BY WFMin, NatLessThanWellFounded, Zenon
<1>2. ASSUME NEW m \in T  PROVE  ~(m < n)
  BY <1>1, Zenon DEF OpToRel
<1> QED  BY <1>2

\* A finite set of numbers can be sorted
LEMMA CanSort ==
    ASSUME NEW n \in Nat, NEW S \in SUBSET (1 .. n)
    PROVE  \E s : Sorted(s, S)
<1> DEFINE Bad == {m \in Nat : \E R \in SUBSET (1 .. m) : \A s : ~Sorted(s, R)}
<1>1. Bad = {}
  <2> SUFFICES ASSUME Bad # {} PROVE FALSE  OBVIOUS
  <2>0. Bad \subseteq Nat  OBVIOUS
  <2> HIDE DEF Bad
  <2>1. PICK m \in Bad : \A k \in Bad : m <= k  BY <2>0, LeastNat, Zenon
  <2>3. m \in Nat  BY <2>0, <2>1
  <2>7. \A k \in Nat : k < m => k \notin Bad  BY <2>1, <2>3
  <2> USE DEF Bad
  <2>2. PICK R \in SUBSET (1 .. m) : \A s : ~Sorted(s, R)  BY <2>1
  <2>4. IsFiniteSet(R) /\ Cardinality(R) \in Nat
    <3>1. IsFiniteSet(1 .. m)  BY <2>3, FS_Interval
    <3> QED  BY <3>1, FS_Subset, FS_CardinalityType, Zenon
  <2>5. CASE m = 0
    <3>1. R = {}  BY <2>5
    <3>2. Cardinality(R) = 0  BY <3>1, FS_EmptySet
    <3>3. <<>> \in [1 .. 0 -> R] /\ DOMAIN <<>> = {}  OBVIOUS
    <3>4. Sorted(<<>>, R)  BY <3>2, <3>3 DEF Sorted
    <3> QED  BY <2>2, <3>4
  <2>6. CASE m > 0
    <3> DEFINE Q == R \ {m}
               k == Cardinality(Q)
    <3>1. m - 1 \in Nat /\ m - 1 \notin Bad
      <4> HIDE DEF Bad
      <4> QED  BY <2>3, <2>6, <2>7
    <3>2. Q \in SUBSET (1 .. m - 1)  BY <2>3
    <3>3. PICK s : Sorted(s, Q)  BY <3>1, <3>2
    <3>4. k \in Nat /\ Cardinality(R) = IF m \in R THEN k + 1 ELSE k
      <4>1. /\ IsFiniteSet(Q)
            /\ Cardinality(Q) = IF m \in R THEN Cardinality(R) - 1 ELSE Cardinality(R)
        BY <2>4, FS_RemoveElement, Zenon
      <4>2. Cardinality(Q) \in Nat  BY <4>1, FS_CardinalityType
      <4> QED  BY <2>4, <4>1, <4>2
    <3>5. m \in R
      <4>1. m \notin R => Q = R  OBVIOUS
      <4> QED  BY <2>2, <3>3, <4>1
    <3> DEFINE t == [i \in 1 .. k + 1 |-> IF i = k + 1 THEN m ELSE s[i]]
    <3>6. s \in [1 .. k -> Q] /\ \A i, j \in 1 .. k : i < j => s[i] < s[j]  BY <3>3, Zenon DEF Sorted
    <3>7. \A i \in 1 .. k : s[i] \in R /\ s[i] \in 1 .. m - 1  BY <3>2, <3>6, Zenon
    <3> HIDE DEF k, Q
    <3>8. t \in [1 .. k + 1 -> R]  BY <3>4, <3>5, <3>7
    <3>9. \A i, j \in 1 .. k + 1 : i < j => t[i] < t[j]  BY <2>3, <3>4, <3>6, <3>7
    <3>10. DOMAIN t = 1 .. k + 1  OBVIOUS
    <3> HIDE DEF t
    <3>11. Sorted(t, R)  BY <3>4, <3>5, <3>8, <3>9, <3>10 DEF Sorted
    <3> QED  BY <2>2, <3>11
  <2> QED  BY <2>3, <2>5, <2>6
<1> QED  BY <1>1

\* Ascending sorts a finite set of numbers
LEMMA AscendingIs ==
    ASSUME NEW n \in Nat, NEW S \in SUBSET (1 .. n)
    PROVE  Sorted(Ascending(S), S) /\ Cardinality(S) \in Nat
<1>1. \E s \in [1 .. Cardinality(S) -> S] : \A i, j \in DOMAIN s : i < j => s[i] < s[j]
  BY CanSort, Zenon DEF Sorted
<1>2. IsFiniteSet(1 .. n)  BY FS_Interval
<1> QED  BY <1>1, <1>2, FS_Subset, FS_CardinalityType, Zenon DEF Sorted, Ascending

\* What os.ReadDir returns: different paths in the directory
LEMMA ChildrenAre ==
    ASSUME NEW t, NEW p \in Paths
    PROVE  /\ ChildrenIn(t, p) \in Seq(Paths)
           /\ \A i \in DOMAIN ChildrenIn(t, p) :
                 IsPrefix(p, ChildrenIn(t, p)[i]) /\ Len(ChildrenIn(t, p)[i]) = Len(p) + 1
           /\ \A i, j \in DOMAIN ChildrenIn(t, p) : i # j => ChildrenIn(t, p)[i] # ChildrenIn(t, p)[j]
<1> DEFINE child == [i \in DOMAIN NameOrder |-> Append(p, NameOrder[i])]
           present == {i \in DOMAIN NameOrder : child[i] \in Paths /\ t[child[i]] # Absent}
           inOrder == Ascending(present)
<1>1. ChildrenIn(t, p) = [k \in DOMAIN inOrder |-> child[inOrder[k]]]  BY DEF ChildrenIn
<1>2. /\ DOMAIN NameOrder = 1 .. Len(NameOrder) /\ Len(NameOrder) \in Nat
      /\ \A i \in DOMAIN NameOrder : NameOrder[i] \in STRING
      /\ \A i, j \in DOMAIN NameOrder : NameOrder[i] = NameOrder[j] => i = j
  BY NamesInOrder DEF IsInjective
<1>3. present \in SUBSET (1 .. Len(NameOrder))  BY <1>2
<1>4. Sorted(inOrder, present) /\ Cardinality(present) \in Nat  BY <1>2, <1>3, AscendingIs, Zenon
<1>5. p \in Seq(STRING) /\ Len(p) \in Nat  BY PathsHaveParents
<1>6. ASSUME NEW i \in DOMAIN NameOrder
      PROVE  /\ child[i] \in Seq(STRING) /\ IsPrefix(p, child[i]) /\ Len(child[i]) = Len(p) + 1
             /\ child[i][Len(p) + 1] = NameOrder[i]
  <2> DEFINE a == Append(p, NameOrder[i])
  <2>1. /\ a \in Seq(STRING) /\ Len(a) = Len(p) + 1 /\ a[Len(p) + 1] = NameOrder[i]
        /\ \A k \in 1 .. Len(p) : a[k] = p[k]
    BY <1>2, <1>5
  <2>2. child[i] = a  OBVIOUS
  <2> HIDE DEF a
  <2>3. IsPrefix(p, a)  BY <1>5, <2>1, PrefixIs
  <2> HIDE DEF child
  <2> QED  BY <2>1, <2>2, <2>3
<1>7. /\ inOrder \in [1 .. Cardinality(present) -> present]
      /\ \A i, j \in 1 .. Cardinality(present) : i < j => inOrder[i] < inOrder[j]
  BY <1>4, Zenon DEF Sorted
<1>8. \A i, j \in 1 .. Cardinality(present) : i # j => inOrder[i] # inOrder[j]
  <2>1. \A i \in present : i \in Int  BY <1>3
  <2> HIDE DEF present, inOrder
  <2>2. \A i \in 1 .. Cardinality(present) : inOrder[i] \in Int  BY <1>7, <2>1
  <2> QED  BY <1>4, <1>7, <2>2
<1>9. \A i \in present : i \in DOMAIN NameOrder /\ child[i] \in Paths  OBVIOUS
<1> HIDE DEF inOrder, present
<1> DEFINE n == Cardinality(present)
           ch == [k \in 1 .. n |-> child[inOrder[k]]]
<1>10. ChildrenIn(t, p) = ch  BY <1>1, <1>7
<1>11. \A k \in 1 .. n : inOrder[k] \in present  BY <1>7
<1>12. \A k \in 1 .. n : ch[k] = child[inOrder[k]] /\ ch[k] \in Paths  BY <1>9, <1>11
<1>13. ch \in Seq(Paths) /\ DOMAIN ch = 1 .. n  
  <2> HIDE DEF child
  <2>1. DOMAIN ch = 1 .. n /\ \A k \in 1 .. n : ch[k] \in Paths  BY <1>12
  <2> QED  BY <1>4, <2>1
<1>14. ASSUME NEW i \in 1 .. n, NEW j \in 1 .. n, i # j  PROVE  ch[i] # ch[j]
  <2>1. inOrder[i] # inOrder[j] /\ inOrder[i] \in DOMAIN NameOrder /\ inOrder[j] \in DOMAIN NameOrder
    BY <1>8, <1>9, <1>11, <1>14, Zenon
  <2> HIDE DEF child, ch, n
  <2> QED  BY <1>2, <1>6, <1>12, <1>14, <2>1
<1>15. \A k \in 1 .. n : IsPrefix(p, ch[k]) /\ Len(ch[k]) = Len(p) + 1
  <2> HIDE DEF child, ch, n
  <2> QED BY <1>6, <1>9, <1>11, <1>12
<1> HIDE DEF ch
<1> QED  BY <1>10, <1>13, <1>14, <1>15

Entries == [from : Paths, to : Seq(STRING), dir : BOOLEAN]

\* No two entries are for the same path
Distinct(s) == \A i, j \in DOMAIN s : i # j => s[i].from # s[j].from

\* No entry is in the directory of another
Antichain(s) == \A i, j \in DOMAIN s : i # j => ~IsPrefix(s[i].from, s[j].from)

\* Entries in no directory of each other are different
LEMMA ApartIsDistinct ==
    ASSUME NEW s \in Seq(Entries), Antichain(s)
    PROVE  Distinct(s)
<1>0. \A i \in DOMAIN s : s[i] \in Entries  OBVIOUS
<1>1. \A i \in DOMAIN s : s[i].from \in Seq(STRING)  BY <1>0, PathsHaveParents DEF Entries
<1> QED  BY <1>1, PrefixOrder DEF Antichain, Distinct

\* One entry is a list of entries to visit
LEMMA EntryIs ==
    ASSUME NEW p \in Paths, NEW q \in Paths
    PROVE  /\ Entry(p, q) \in Entries /\ Entry(p, q).from = p
           /\ <<Entry(p, q)>> \in Seq(Entries) /\ Antichain(<<Entry(p, q)>>)
           /\ <<>> \in Seq(Entries) /\ Antichain(<<>>) /\ Distinct(<<>>)
<1>1. Entry(p, q) \in Entries /\ Entry(p, q).from = p  BY PathsHaveParents DEF Entry, Entries, IsFolder
<1>2. DOMAIN <<Entry(p, q)>> = {1}  OBVIOUS
<1>3. Antichain(<<Entry(p, q)>>)  BY <1>2 DEF Antichain
<1> QED  BY <1>1, <1>3 DEF Antichain, Distinct

\* What is left to visit is apart from the entry being visited
LEMMA TailApart ==
    ASSUME NEW s \in Seq(Entries), s # <<>>, Antichain(s)
    PROVE  /\ Head(s) \in Entries /\ Tail(s) \in Seq(Entries) /\ Antichain(Tail(s))
           /\ \A i \in DOMAIN Tail(s) : /\ ~IsPrefix(Head(s).from, Tail(s)[i].from)
                                        /\ ~IsPrefix(Tail(s)[i].from, Head(s).from)
<1> DEFINE t == Tail(s)
<1>1. /\ t \in Seq(Entries) /\ DOMAIN t = 1 .. Len(s) - 1 /\ DOMAIN s = 1 .. Len(s)
      /\ Len(s) \in Nat \ {0}
      /\ \A i \in 1 .. Len(s) - 1 : t[i] = s[i + 1]
      /\ Head(s) = s[1] /\ s[1] \in Entries
  OBVIOUS
<1> HIDE DEF t
<1>2. ASSUME NEW i \in DOMAIN t, NEW j \in DOMAIN t, i # j
      PROVE  ~IsPrefix(t[i].from, t[j].from)
  <2>1. i + 1 \in DOMAIN s /\ j + 1 \in DOMAIN s /\ i + 1 # j + 1 /\ t[i] = s[i + 1] /\ t[j] = s[j + 1]
    BY <1>1, <1>2
  <2> QED  BY <2>1 DEF Antichain
<1>3. ASSUME NEW i \in DOMAIN t
      PROVE  ~IsPrefix(Head(s).from, t[i].from) /\ ~IsPrefix(t[i].from, Head(s).from)
  <2>1. i + 1 \in DOMAIN s /\ 1 \in DOMAIN s /\ i + 1 # 1 /\ t[i] = s[i + 1] /\ Head(s) = s[1]
    BY <1>1
  <2> QED  BY <2>1 DEF Antichain
<1> QED  BY <1>1, <1>2, <1>3 DEF t, Antichain

\* An entry gives way to what is in its directory
LEMMA ExpandApart ==
    ASSUME NEW s \in Seq(Entries), s # <<>>, Antichain(s), NEW t,
           NEW new \in Seq(Entries), Len(new) = Len(ChildrenIn(t, Head(s).from)),
           \A i \in DOMAIN new : new[i].from = ChildrenIn(t, Head(s).from)[i]
    PROVE  new \o Tail(s) \in Seq(Entries) /\ Antichain(new \o Tail(s))
<1> DEFINE p == Head(s).from
           ch == ChildrenIn(t, p)
           tl == Tail(s)
           both == new \o tl
<1>1. /\ Head(s) \in Entries /\ tl \in Seq(Entries) /\ Antichain(tl)
      /\ \A i \in DOMAIN tl : ~IsPrefix(p, tl[i].from) /\ ~IsPrefix(tl[i].from, p)
  BY TailApart
<1>2. p \in Paths  BY <1>1 DEF Entries
<1>3. /\ ch \in Seq(Paths)
      /\ \A i \in DOMAIN ch : IsPrefix(p, ch[i]) /\ Len(ch[i]) = Len(p) + 1
      /\ \A i, j \in DOMAIN ch : i # j => ch[i] # ch[j]
  <2> HIDE DEF p
  <2> QED  BY <1>2, ChildrenAre
<1>4. p \in Seq(STRING) /\ \A q \in Paths : q \in Seq(STRING)  BY <1>2, PathsHaveParents
<1>5. /\ \A i \in DOMAIN new : new[i].from \in Paths /\ new[i].from = ch[i] /\ i \in DOMAIN ch
      /\ \A i \in DOMAIN tl : tl[i].from \in Paths
  <2>1. DOMAIN new = 1 .. Len(new) /\ DOMAIN ch = 1 .. Len(ch)  BY <1>3
  <2>2. \A i \in DOMAIN new : new[i] \in Entries  OBVIOUS
  <2>3. \A i \in DOMAIN tl : tl[i] \in Entries  BY <1>1
  <2> QED  BY <2>1, <2>2, <2>3, Zenon DEF Entries
<1> HIDE DEF ch, tl, p
<1>6. /\ both \in Seq(Entries) /\ DOMAIN both = 1 .. Len(new) + Len(tl)
      /\ \A i \in 1 .. Len(new) + Len(tl) : both[i] = IF i <= Len(new) THEN new[i] ELSE tl[i - Len(new)]
  <2>1. /\ both \in Seq(Entries) /\ Len(both) = Len(new) + Len(tl)
        /\ \A i \in 1 .. Len(new) + Len(tl) :
              both[i] = IF i <= Len(new) THEN new[i] ELSE tl[i - Len(new)]
    BY <1>1, ConcatProperties, Zenon
  <2> HIDE DEF both
  <2>2. DOMAIN both = 1 .. Len(both)  BY <2>1
  <2> QED  BY <2>1, <2>2
<1>7. ASSUME NEW i \in DOMAIN new, NEW j \in DOMAIN new, i # j
      PROVE  ~IsPrefix(new[i].from, new[j].from)
  <2>1. ch[i] # ch[j] /\ Len(ch[i]) = Len(ch[j]) /\ ch[i] \in Seq(STRING) /\ ch[j] \in Seq(STRING)
    BY <1>3, <1>4, <1>5, <1>7
  <2>2. ~IsPrefix(ch[i], ch[j])  BY <2>1, PrefixOrder
  <2> QED  BY <1>5, <2>2
<1>8. ASSUME NEW i \in DOMAIN new, NEW j \in DOMAIN tl
      PROVE  ~IsPrefix(new[i].from, tl[j].from) /\ ~IsPrefix(tl[j].from, new[i].from)
  <2> DEFINE a == new[i].from
             b == tl[j].from
  <2>1. a \in Seq(STRING) /\ b \in Seq(STRING) /\ IsPrefix(p, a) /\ Len(a) = Len(p) + 1
    BY <1>3, <1>4, <1>5
  <2>2. ~IsPrefix(p, b) /\ ~IsPrefix(b, p)  BY <1>1
  <2> HIDE DEF a, b
  <2>3. ~IsPrefix(a, b)  BY <1>4, <2>1, <2>2, PrefixOrder
  <2>4. ~IsPrefix(b, a)  BY <1>4, <2>1, <2>2, PrefixOrder
  <2> QED  BY <2>3, <2>4 DEF a, b
<1>9. ASSUME NEW i \in DOMAIN both, NEW j \in DOMAIN both, i # j
      PROVE  ~IsPrefix(both[i].from, both[j].from)
  <2> HIDE DEF both
  <2>1. \A k \in DOMAIN both : \/ k \in DOMAIN new /\ both[k] = new[k]
                               \/ k > Len(new) /\ k - Len(new) \in DOMAIN tl /\ both[k] = tl[k - Len(new)]
    BY <1>1, <1>6, SMTT(30)
  <2>2. CASE i \in DOMAIN new /\ both[i] = new[i]
    <3>1. CASE j \in DOMAIN new /\ both[j] = new[j]  BY <1>7, <1>9, <2>2, <3>1
    <3>2. CASE j - Len(new) \in DOMAIN tl /\ both[j] = tl[j - Len(new)]  BY <1>8, <2>2, <3>2
    <3> QED  BY <2>1, <3>1, <3>2
  <2>3. CASE i - Len(new) \in DOMAIN tl /\ both[i] = tl[i - Len(new)]
    <3>1. CASE j \in DOMAIN new /\ both[j] = new[j]  BY <1>8, <2>3, <3>1
    <3>2. CASE j - Len(new) \in DOMAIN tl /\ both[j] = tl[j - Len(new)]
      <4>1. i - Len(new) # j - Len(new)  BY <1>6, <1>9
      <4> QED  BY <1>1, <2>3, <3>2, <4>1 DEF Antichain
    <3> QED  BY <2>1, <3>1, <3>2
  <2> QED  BY <2>1, <2>2, <2>3
<1> HIDE DEF both
<1>10. Antichain(both)  BY <1>9 DEF Antichain
<1> QED  BY <1>6, <1>10 DEF both, tl

\* Contents lists every path below a directory once
LEMMA ContentsAre ==
    ASSUME NEW p
    PROVE  Contents(p) \in Seq(Entries) /\ Distinct(Contents(p))
<1> DEFINE Q == {r \in Below(p) : tree[r] # Absent}
           S == {Entry(q, q) : q \in Q}
           f == [e \in S |-> e.from]
<1>1. Q \subseteq Paths  BY DEF Below
<1>2. \A q \in Q : Entry(q, q) \in Entries /\ Entry(q, q).from = q  BY <1>1, EntryIs, Zenon
<1>3. \A e \in S : e \in Entries /\ e.from \in Q /\ e = Entry(e.from, e.from)  BY <1>2
<1> HIDE DEF S
<1>4. f \in [S -> Paths] /\ \A a, b \in S : f[a] = f[b] => a = b  BY <1>1, <1>3
<1> HIDE DEF f
<1>5. f \in Injection(S, Paths)  BY <1>4 DEF Injection, IsInjective
<1>6. IsFiniteSet(S)  BY <1>5, FS_Injection, PathsHaveParents
<1>7. \E g \in [1 .. Cardinality(S) -> S] : IsInjective(g)
  <2>1. Cardinality(S) \in Nat  BY <1>6, FS_CardinalityType
  <2>2. ExistsBijection(1 .. Cardinality(S), S)  BY <1>6, FS_CardinalityType
  <2>3. PICK g : g \in Bijection(1 .. Cardinality(S), S)  BY <2>2 DEF ExistsBijection
  <2> QED  BY <2>3 DEF Bijection, Injection
<1> DEFINE g == SetToSeq(S)
<1>8. g \in [1 .. Cardinality(S) -> S] /\ IsInjective(g)  BY <1>7 DEF SetToSeq
<1>9. Contents(p) = g  BY DEF Contents, S
<1> HIDE DEF g
<1>10. g \in Seq(Entries) /\ DOMAIN g = 1 .. Cardinality(S) /\ \A i \in DOMAIN g : g[i] \in S
  <2>1. Cardinality(S) \in Nat  BY <1>6, FS_CardinalityType
  <2> QED  BY <1>3, <1>8, <2>1
<1>11. Distinct(g)
  <2>1. \A i, j \in DOMAIN g : i # j => g[i] # g[j]  BY <1>8 DEF IsInjective
  <2> QED  BY <1>3, <1>10, <2>1 DEF Distinct
<1> QED  BY <1>9, <1>10, <1>11

\* Different entries are at most as many as there are paths
LEMMA DistinctBound ==
    ASSUME NEW s \in Seq(Entries), Distinct(s)
    PROVE  Len(s) <= Cardinality(Paths)
<1> DEFINE f == [i \in 1 .. Len(s) |-> s[i].from]
<1>0. \A i \in 1 .. Len(s) : s[i] \in Entries  OBVIOUS
<1>1. \A i \in 1 .. Len(s) : s[i].from \in Paths  BY <1>0 DEF Entries
<1>2. f \in [1 .. Len(s) -> Paths] /\ \A i, j \in 1 .. Len(s) : f[i] = f[j] => i = j
  BY <1>1 DEF Distinct
<1> HIDE DEF f
<1>3. f \in Injection(1 .. Len(s), Paths)  BY <1>2 DEF Injection, IsInjective
<1>4. Cardinality(1 .. Len(s)) <= Cardinality(Paths)  BY <1>3, FS_Injection, PathsHaveParents
<1>5. Cardinality(1 .. Len(s)) = Len(s)
  <2>1. ASSUME NEW n \in Nat  PROVE  Cardinality(1 .. n) = n
    <3>1. n \in Int /\ 1 \in Int  OBVIOUS
    <3>2. Cardinality(1 .. n) = IF 1 > n THEN 0 ELSE n - 1 + 1  BY <3>1, FS_Interval
    <3> QED  BY <3>2
  <2> QED  BY <2>1
<1> QED  BY <1>4, <1>5

-----------------------------------------------------------------------------
(***************************************************************************)
(* The tree, the parameters and the todo lists after each step.            *)
(***************************************************************************)

\* The parameters of a call are paths
CallInv == \A c \in Calls : pc[c] # "idle" => call[c].path \in Paths /\ call[c].dest \in Paths

\* What a removal has yet to visit is a set of paths; what a copy or a search
\* has yet to visit is not one below another
TodoIs(s, label) == s \in Seq(Entries) /\ IF label = "removeall" THEN Distinct(s) ELSE Antichain(s)
TodoInv == \A c \in Calls : TodoIs(todo[c], pc[c])

TInv == WInv /\ TreeInv /\ CallInv /\ TodoInv

\* How a step changes the parameters of its call, and what it has yet to visit
CallNext(c) ==
    \/ \E tool, opt : \E p, q \in Paths : Set(call, c, Call(tool, p, q, opt))
    \/ UNCHANGED call /\ pc[c] # "idle"

TodoNext(c) ==
    \/ UNCHANGED todo /\ (pc'[c] = "removeall" => pc[c] = "removeall")
                      /\ (pc[c] = "removeall" => pc'[c] = "removeall")
    \/ \E s : Set(todo, c, s) /\ TodoIs(s, pc'[c])

\* Nothing changes when the tree does not
LEMMA SameTree ==
    ASSUME TreeInv, UNCHANGED tree
    PROVE  TreeInv'
BY DEF TreeInv, InFolders, OnePath, Absent, Dir, Files

\* Making the parents of a path leaves a tree
LEMMA ParentsTree ==
    ASSUME WInv, TreeInv, NEW p, tree' = IF CanMakeParents(p) THEN WithParents(p) ELSE tree
    PROVE  TreeInv'
<1>1. CASE CanMakeParents(p) /\ Len(p) # 1
  <2>1. CanMkdirAll(Front(p)) /\ tree' = WithDirs(Front(p))  BY <1>1 DEF CanMakeParents, WithParents
  <2> QED  BY <2>1, WithDirsTree
<1>2. CASE ~(CanMakeParents(p) /\ Len(p) # 1)
  <2>1. tree' = tree  BY <1>2 DEF WithParents
  <2> QED  BY <2>1, SameTree
<1> QED  BY <1>1, <1>2

\* The lists of entries that the steps start from
LEMMA Lists ==
    ASSUME TInv, NEW c \in Calls
    PROVE  /\ \A label : label # "removeall" => TodoIs(<<>>, label)
           /\ TodoIs(<<>>, "removeall")
           /\ \A p, q \in Paths : \A label : label # "removeall" => TodoIs(<<Entry(p, q)>>, label)
           /\ \A p : TodoIs(Contents(p), "removeall")
           /\ \A p : At(p) # Absent => p \in Paths
           /\ pc[c] # "idle" => call[c].path \in Paths /\ call[c].dest \in Paths
           /\ pc[c] # "removeall" => todo[c] \in Seq(Entries) /\ Antichain(todo[c])
<1>1. <<>> \in Seq(Entries) /\ Antichain(<<>>) /\ Distinct(<<>>)  BY DEF Antichain, Distinct
<1> QED  BY <1>1, EntryIs, ContentsAre DEF TodoIs, At, TInv, CallInv, TodoInv

\* What a search has left to visit after an entry
LEMMA AfterIs ==
    ASSUME TInv, NEW c \in Calls, pc[c] = "walk", todo[c] # <<>>
    PROVE  TodoIs(After(c, Head(todo[c])), "walk")
<1> DEFINE e == Head(todo[c])
           visited == e.dir /\ ~TooDeep(c, e) /\ IsFolder(e.from)
           children == IF visited THEN ChildrenIn(tree, e.from) ELSE <<>>
           new == [i \in DOMAIN children |-> Entry(children[i], children[i])]
<1>1. todo[c] \in Seq(Entries) /\ Antichain(todo[c])  BY Lists
<1>2. /\ e \in Entries /\ Tail(todo[c]) \in Seq(Entries) /\ Antichain(Tail(todo[c]))
  BY <1>1, TailApart
<1>3. After(c, e) = new \o Tail(todo[c])  BY DEF After
<1>4. CASE visited
  <2>1. children = ChildrenIn(tree, e.from) /\ children \in Seq(Paths)
    BY <1>2, <1>4, ChildrenAre DEF Entries
  <2> HIDE DEF children
  <2>2. \A i \in DOMAIN children : Entry(children[i], children[i]) \in Entries
                                  /\ Entry(children[i], children[i]).from = children[i]
    <3>1. \A i \in DOMAIN children : children[i] \in Paths  BY <2>1
    <3> QED  BY <3>1, EntryIs, Zenon
  <2>3. /\ new \in Seq(Entries) /\ Len(new) = Len(children)
        /\ \A i \in DOMAIN new : new[i].from = children[i]
    BY <2>1, <2>2
  <2> HIDE DEF new
  <2> QED  BY <1>1, <1>3, <2>1, <2>3, ExpandApart, ZenonT(40) DEF TodoIs
<1>5. CASE ~visited
  <2>1. new = <<>>  BY <1>5
  <2>2. new \o Tail(todo[c]) = Tail(todo[c])  BY <1>2, <2>1, ConcatEmptySeq, Zenon
  <2> QED  BY <1>2, <1>3, <2>2, Zenon DEF TodoIs
<1> QED  BY <1>4, <1>5

\* Every step leaves a tree, and a list of entries apart from each other
LEMMA TreeSteps ==
    ASSUME TInv, NEW c \in Calls, Step(c)
    PROVE  TreeInv' /\ TodoNext(c) /\ CallNext(c)
<1>0. WInv  BY DEF TInv
<1>1. ASSUME Refuse(c)  PROVE  TreeInv' /\ TodoNext(c) /\ CallNext(c)
  <2>1. TreeInv'
    BY <1>1, SameTree DEF TInv, Refuse, fileVars
  <2>2. TodoNext(c)
    BY <1>1, <1>0, Lists, Ended1 DEF TodoNext, callVars, Refuse
  <2>3. CallNext(c)
    BY <1>1 DEF CallNext, callVars, Refuse
  <2> QED  BY <2>1, <2>2, <2>3
<1>2. ASSUME WriteFile(c)  PROVE  TreeInv' /\ TodoNext(c) /\ CallNext(c)
  <2>1. TreeInv'
    BY <1>2, ParentsTree DEF TInv, WriteFile
  <2>2. TodoNext(c)
    BY <1>2, <1>0, Lists, Ended1 DEF TodoNext, callVars, WriteFile, Begin, GotoIf
  <2>3. CallNext(c)
    BY <1>2 DEF CallNext, callVars, WriteFile, Begin
  <2> QED  BY <2>1, <2>2, <2>3
<1>3. ASSUME CheckAbsent(c)  PROVE  TreeInv' /\ TodoNext(c) /\ CallNext(c)
  <2>1. TreeInv'
    BY <1>3, SameTree DEF TInv, CheckAbsent, fileVars
  <2>2. TodoNext(c)
    BY <1>3, <1>0, Lists, Ended1 DEF TodoNext, callVars, CheckAbsent, GotoIf
  <2>3. CallNext(c)
    BY <1>3 DEF CallNext, callVars, CheckAbsent
  <2> QED  BY <2>1, <2>2, <2>3
<1>4. ASSUME PatchFile(c)  PROVE  TreeInv' /\ TodoNext(c) /\ CallNext(c)
  <2>1. TreeInv'
    BY <1>4, SameTree DEF TInv, PatchFile, fileVars
  <2>2. TodoNext(c)
    BY <1>4, <1>0, Lists, Ended1 DEF TodoNext, callVars, PatchFile, Begin, GotoIf
  <2>3. CallNext(c)
    BY <1>4 DEF CallNext, callVars, PatchFile, Begin
  <2> QED  BY <2>1, <2>2, <2>3
<1>5. ASSUME MakeParents(c)  PROVE  TreeInv' /\ TodoNext(c) /\ CallNext(c)
  <2>1. TreeInv'
    BY <1>5, ParentsTree DEF TInv, MakeParents
  <2>2. TodoNext(c)
    <3>1. UNCHANGED todo /\ pc[c] = "parents"  BY <1>5 DEF MakeParents
    <3>2. \/ Goto(c, "open") \/ Goto(c, "copy") \/ Goto(c, "rename") \/ Reply(c, Error)
      BY <1>5, <1>0, <3>1, Here, ToolTable DEF MakeParents, GotoIf
    <3>3. pc'[c] # "removeall"  BY <1>0, <3>2, Ended1
    <3> QED  BY <3>1, <3>3 DEF TodoNext
  <2>3. CallNext(c)
    BY <1>5 DEF CallNext, callVars, MakeParents
  <2> QED  BY <2>1, <2>2, <2>3
<1>6. ASSUME OpenToWrite(c)  PROVE  TreeInv' /\ TodoNext(c) /\ CallNext(c)
  <2>1. TreeInv'
    BY <1>6, OpenTree, SameTree DEF TInv, OpenToWrite, MayOpen, fileVars
  <2>2. TodoNext(c)
    BY <1>6, <1>0, Lists, Ended1 DEF TodoNext, callVars, OpenToWrite
  <2>3. CallNext(c)
    BY <1>6 DEF CallNext, callVars, OpenToWrite
  <2> QED  BY <2>1, <2>2, <2>3
<1>7. ASSUME Write(c)  PROVE  TreeInv' /\ TodoNext(c) /\ CallNext(c)
  <2>1. TreeInv'
    BY <1>7, SameTree DEF TInv, Write, fileVars
  <2>2. TodoNext(c)
    BY <1>7, <1>0, Lists, Ended1 DEF TodoNext, callVars, Write
  <2>3. CallNext(c)
    BY <1>7 DEF CallNext, callVars, Write
  <2> QED  BY <2>1, <2>2, <2>3
<1>8. ASSUME DiskFull(c)  PROVE  TreeInv' /\ TodoNext(c) /\ CallNext(c)
  <2>1. TreeInv'
    BY <1>8, SameTree DEF TInv, DiskFull, fileVars
  <2>2. TodoNext(c)
    BY <1>8, <1>0, Lists, Ended1 DEF TodoNext, callVars, DiskFull
  <2>3. CallNext(c)
    BY <1>8 DEF CallNext, callVars, DiskFull
  <2> QED  BY <2>1, <2>2, <2>3
<1>9. ASSUME RemoveFile(c)  PROVE  TreeInv' /\ TodoNext(c) /\ CallNext(c)
  <2>1. TreeInv'
    BY <1>9, SameTree DEF TInv, RemoveFile, fileVars
  <2>2. TodoNext(c)
    BY <1>9, <1>0, Lists, Ended1 DEF TodoNext, callVars, RemoveFile, Begin, GotoIf
  <2>3. CallNext(c)
    BY <1>9 DEF CallNext, callVars, RemoveFile, Begin
  <2> QED  BY <2>1, <2>2, <2>3
<1>10. ASSUME Unlink(c)  PROVE  TreeInv' /\ TodoNext(c) /\ CallNext(c)
  <2>1. TreeInv'
    BY <1>10, DiscardTree, SameTree DEF TInv, Unlink, fileVars
  <2>2. TodoNext(c)
    BY <1>10, <1>0, Lists, Ended1 DEF TodoNext, callVars, Unlink
  <2>3. CallNext(c)
    BY <1>10 DEF CallNext, callVars, Unlink
  <2> QED  BY <2>1, <2>2, <2>3
<1>11. ASSUME CreateFolder(c)  PROVE  TreeInv' /\ TodoNext(c) /\ CallNext(c)
  <2>1. TreeInv'
    BY <1>11, SameTree DEF TInv, CreateFolder, fileVars
  <2>2. TodoNext(c)
    BY <1>11, <1>0, Lists, Ended1 DEF TodoNext, callVars, CreateFolder, Begin
  <2>3. CallNext(c)
    BY <1>11 DEF CallNext, callVars, CreateFolder, Begin
  <2> QED  BY <2>1, <2>2, <2>3
<1>12. ASSUME MakeFolder(c)  PROVE  TreeInv' /\ TodoNext(c) /\ CallNext(c)
  <2>1. TreeInv'
    BY <1>12, WithDirsTree, SameTree DEF TInv, MakeFolder
  <2>2. TodoNext(c)
    BY <1>12, <1>0, Lists, Ended1 DEF TodoNext, callVars, MakeFolder
  <2>3. CallNext(c)
    BY <1>12 DEF CallNext, callVars, MakeFolder
  <2> QED  BY <2>1, <2>2, <2>3
<1>13. ASSUME RemoveFolder(c)  PROVE  TreeInv' /\ TodoNext(c) /\ CallNext(c)
  <2>1. TreeInv'
    BY <1>13, SameTree DEF TInv, RemoveFolder, fileVars
  <2>2. TodoNext(c)
    BY <1>13, <1>0, Lists, Ended1 DEF TodoNext, callVars, RemoveFolder, Begin, GotoIf
  <2>3. CallNext(c)
    BY <1>13 DEF CallNext, callVars, RemoveFolder, Begin
  <2> QED  BY <2>1, <2>2, <2>3
<1>14. ASSUME RemoveNext(c)  PROVE  TreeInv' /\ TodoNext(c) /\ CallNext(c)
  <2>1. TreeInv'
    BY <1>14, DiscardTree DEF TInv, RemoveNext
  <2>2. TodoNext(c)
    BY <1>14, <1>0, Lists, Ended1 DEF TodoNext, callVars, RemoveNext
  <2>3. CallNext(c)
    BY <1>14 DEF CallNext, callVars, RemoveNext
  <2> QED  BY <2>1, <2>2, <2>3
<1>15. ASSUME RemovedAll(c)  PROVE  TreeInv' /\ TodoNext(c) /\ CallNext(c)
  <2>1. TreeInv'
    BY <1>15, SameTree DEF TInv, RemovedAll, fileVars
  <2>2. TodoNext(c)
    BY <1>15, <1>0, Lists, Ended1 DEF TodoNext, callVars, RemovedAll
  <2>3. CallNext(c)
    BY <1>15 DEF CallNext, callVars, RemovedAll
  <2> QED  BY <2>1, <2>2, <2>3
<1>16. ASSUME RemoveBlocked(c)  PROVE  TreeInv' /\ TodoNext(c) /\ CallNext(c)
  <2>1. TreeInv'
    BY <1>16, SameTree DEF TInv, RemoveBlocked, fileVars
  <2>2. TodoNext(c)
    BY <1>16, <1>0, Lists, Ended1 DEF TodoNext, callVars, RemoveBlocked
  <2>3. CallNext(c)
    BY <1>16 DEF CallNext, callVars, RemoveBlocked
  <2> QED  BY <2>1, <2>2, <2>3
<1>17. ASSUME StatFile(c)  PROVE  TreeInv' /\ TodoNext(c) /\ CallNext(c)
  <2>1. TreeInv'
    BY <1>17, SameTree DEF TInv, StatFile, fileVars
  <2>2. TodoNext(c)
    BY <1>17, <1>0, Lists, Ended1 DEF TodoNext, callVars, StatFile, Begin
  <2>3. CallNext(c)
    BY <1>17 DEF CallNext, callVars, StatFile, Begin
  <2> QED  BY <2>1, <2>2, <2>3
<1>18. ASSUME ListFolder(c)  PROVE  TreeInv' /\ TodoNext(c) /\ CallNext(c)
  <2>1. TreeInv'
    BY <1>18, SameTree DEF TInv, ListFolder, fileVars
  <2>2. TodoNext(c)
    BY <1>18, <1>0, Lists, Ended1 DEF TodoNext, callVars, ListFolder, Begin, GotoIf
  <2>3. CallNext(c)
    BY <1>18 DEF CallNext, callVars, ListFolder, Begin
  <2> QED  BY <2>1, <2>2, <2>3
<1>19. ASSUME ReadFolder(c)  PROVE  TreeInv' /\ TodoNext(c) /\ CallNext(c)
  <2>1. TreeInv'
    BY <1>19, SameTree DEF TInv, ReadFolder, fileVars
  <2>2. TodoNext(c)
    BY <1>19, <1>0, Lists, Ended1 DEF TodoNext, callVars, ReadFolder
  <2>3. CallNext(c)
    BY <1>19 DEF CallNext, callVars, ReadFolder
  <2> QED  BY <2>1, <2>2, <2>3
<1>20. ASSUME ReadFile(c)  PROVE  TreeInv' /\ TodoNext(c) /\ CallNext(c)
  <2>1. TreeInv'
    BY <1>20, SameTree DEF TInv, ReadFile, fileVars
  <2>2. TodoNext(c)
    BY <1>20, <1>0, Lists, Ended1 DEF TodoNext, callVars, ReadFile, Begin, GotoIf
  <2>3. CallNext(c)
    BY <1>20 DEF CallNext, callVars, ReadFile, Begin
  <2> QED  BY <2>1, <2>2, <2>3
<1>21. ASSUME HashFile(c)  PROVE  TreeInv' /\ TodoNext(c) /\ CallNext(c)
  <2>1. TreeInv'
    BY <1>21, SameTree DEF TInv, HashFile, fileVars
  <2>2. TodoNext(c)
    BY <1>21, <1>0, Lists, Ended1 DEF TodoNext, callVars, HashFile, Begin, GotoIf
  <2>3. CallNext(c)
    BY <1>21 DEF CallNext, callVars, HashFile, Begin
  <2> QED  BY <2>1, <2>2, <2>3
<1>22. ASSUME OpenToRead(c)  PROVE  TreeInv' /\ TodoNext(c) /\ CallNext(c)
  <2>1. TreeInv'
    BY <1>22, SameTree DEF TInv, OpenToRead, fileVars
  <2>2. TodoNext(c)
    BY <1>22, <1>0, Lists, Ended1 DEF TodoNext, callVars, OpenToRead, GotoIf
  <2>3. CallNext(c)
    BY <1>22 DEF CallNext, callVars, OpenToRead
  <2> QED  BY <2>1, <2>2, <2>3
<1>23. ASSUME ReadOpened(c)  PROVE  TreeInv' /\ TodoNext(c) /\ CallNext(c)
  <2>1. TreeInv'
    BY <1>23, SameTree DEF TInv, ReadOpened, fileVars
  <2>2. TodoNext(c)
    BY <1>23, <1>0, Lists, Ended1 DEF TodoNext, callVars, ReadOpened
  <2>3. CallNext(c)
    BY <1>23 DEF CallNext, callVars, ReadOpened
  <2> QED  BY <2>1, <2>2, <2>3
<1>24. ASSUME Copy(c)  PROVE  TreeInv' /\ TodoNext(c) /\ CallNext(c)
  <2>1. TreeInv'
    BY <1>24, SameTree DEF TInv, Copy, fileVars
  <2>2. TodoNext(c)
    BY <1>24, <1>0, Lists, Ended1 DEF TodoNext, callVars, Copy, Begin, GotoIf
  <2>3. CallNext(c)
    BY <1>24 DEF CallNext, callVars, Copy, Begin
  <2> QED  BY <2>1, <2>2, <2>3
<1>25. ASSUME Move(c)  PROVE  TreeInv' /\ TodoNext(c) /\ CallNext(c)
  <2>1. TreeInv'
    BY <1>25, SameTree DEF TInv, Move, fileVars
  <2>2. TodoNext(c)
    BY <1>25, <1>0, Lists, Ended1 DEF TodoNext, callVars, Move, Begin, GotoIf
  <2>3. CallNext(c)
    BY <1>25 DEF CallNext, callVars, Move, Begin
  <2> QED  BY <2>1, <2>2, <2>3
<1>26. ASSUME Rename(c)  PROVE  TreeInv' /\ TodoNext(c) /\ CallNext(c)
  <2>1. TreeInv'
    BY <1>26, RenameTree, SameTree, Lists DEF TInv, Rename
  <2>2. TodoNext(c)
    BY <1>26, <1>0, Lists, Ended1 DEF TodoNext, callVars, Rename
  <2>3. CallNext(c)
    BY <1>26 DEF CallNext, callVars, Rename
  <2> QED  BY <2>1, <2>2, <2>3
<1>27. ASSUME Restat(c)  PROVE  TreeInv' /\ TodoNext(c) /\ CallNext(c)
  <2>1. TreeInv'
    BY <1>27, SameTree DEF TInv, Restat, fileVars
  <2>2. TodoNext(c)
    BY <1>27, <1>0, Lists, Ended1 DEF TodoNext, callVars, Restat, GotoIf
  <2>3. CallNext(c)
    BY <1>27 DEF CallNext, callVars, Restat
  <2> QED  BY <2>1, <2>2, <2>3
<1>28. ASSUME CopyFolder(c)  PROVE  TreeInv' /\ TodoNext(c) /\ CallNext(c)
  <2>1. TreeInv'
    BY <1>28, WithDirsTree, SameTree DEF TInv, CopyFolder
  <2>2. TodoNext(c)
    <3> DEFINE e == Head(todo[c])
               made == WithDirs(e.to)
               children == ChildrenIn(made, e.from)
               child(p) == [from |-> p, to |-> Append(e.to, p[Len(p)]), dir |-> made[p] = Dir]
               new == [k \in DOMAIN children |-> child(children[k])]
    <3>1. pc[c] = "copy" /\ todo[c] # <<>>  BY <1>28 DEF CopyFolder
    <3>2. \/ Set(todo, c, new \o Tail(todo[c])) /\ Goto(c, "copy")
          \/ Set(todo, c, <<>>) /\ Reply(c, Error)
      BY <1>28 DEF CopyFolder
    <3>3. todo[c] \in Seq(Entries) /\ Antichain(todo[c])  BY <3>1, Lists
    <3>4. e \in Entries  BY <3>1, <3>3, TailApart
    <3>5. e.from \in Paths /\ e.to \in Seq(STRING)  BY <3>4 DEF Entries
    <3>6. children \in Seq(Paths)  BY <3>5, ChildrenAre
    <3>7. \A k \in DOMAIN children : children[k] \in Paths  BY <3>6
    <3>8. ASSUME NEW p \in Paths  PROVE  child(p) \in Entries /\ child(p).from = p
      <4>1. p \in Seq(STRING) /\ Len(p) \in 1 .. Len(p)  BY PathFacts
      <4>2. p[Len(p)] \in STRING  BY <4>1
      <4>3. Append(e.to, p[Len(p)]) \in Seq(STRING)  BY <3>5, <4>2
      <4> QED  BY <4>3 DEF Entries
    <3> HIDE DEF child
    <3>9. /\ new \in Seq(Entries) /\ Len(new) = Len(ChildrenIn(made, Head(todo[c]).from))
          /\ \A k \in DOMAIN new : new[k].from = ChildrenIn(made, Head(todo[c]).from)[k]
      <4>1. DOMAIN children = 1 .. Len(children) /\ Len(children) \in Nat  BY <3>6
      <4> HIDE DEF children
      <4>2. new \in Seq(Entries) /\ Len(new) = Len(children) /\ DOMAIN new = DOMAIN children
        BY <3>7, <3>8, <4>1
      <4>3. \A k \in DOMAIN new : new[k].from = children[k]  BY <3>7, <3>8
      <4> QED  BY <4>2, <4>3 DEF children
    <3> HIDE DEF new, made
    <3>10. new \o Tail(todo[c]) \in Seq(Entries) /\ Antichain(new \o Tail(todo[c]))
      BY <3>1, <3>3, <3>9, ExpandApart, Zenon
    <3>11. CASE Set(todo, c, new \o Tail(todo[c])) /\ Goto(c, "copy")
      <4>1. pc'[c] = "copy"  BY <1>0, <3>11, Ended1
      <4>2. TodoIs(new \o Tail(todo[c]), "copy")  BY <3>10 DEF TodoIs
      <4> QED  BY <3>11, <4>1, <4>2 DEF TodoNext
    <3>12. CASE Set(todo, c, <<>>) /\ Reply(c, Error)
      BY <1>0, <3>12, Lists, Ended1 DEF TodoNext
    <3> QED  BY <3>2, <3>11, <3>12
  <2>3. CallNext(c)
    BY <1>28 DEF CallNext, callVars, CopyFolder
  <2> QED  BY <2>1, <2>2, <2>3
<1>29. ASSUME CopyFile(c)  PROVE  TreeInv' /\ TodoNext(c) /\ CallNext(c)
  <2>1. TreeInv'
    BY <1>29, OpenTree, SameTree, Zenon DEF TInv, CopyFile, fileVars
  <2>2. TodoNext(c)
    <3>1. pc[c] = "copy" /\ todo[c] # <<>>  BY <1>29 DEF CopyFile
    <3>2. \/ Set(todo, c, Tail(todo[c])) /\ Goto(c, "fill")
          \/ Set(todo, c, <<>>) /\ Reply(c, Error)
      BY <1>29, Zenon DEF CopyFile
    <3>3. Tail(todo[c]) \in Seq(Entries) /\ Antichain(Tail(todo[c]))  BY <3>1, Lists, TailApart
    <3>4. CASE Set(todo, c, Tail(todo[c])) /\ Goto(c, "fill")
      <4>1. pc'[c] = "fill"  BY <1>0, <3>4, Ended1
      <4>2. TodoIs(Tail(todo[c]), "fill")  BY <3>3 DEF TodoIs
      <4> QED  BY <3>4, <4>1, <4>2 DEF TodoNext
    <3>5. CASE Set(todo, c, <<>>) /\ Reply(c, Error)
      BY <1>0, <3>5, Lists, Ended1 DEF TodoNext
    <3> QED  BY <3>2, <3>4, <3>5
  <2>3. CallNext(c)
    BY <1>29 DEF CallNext, callVars, CopyFile
  <2> QED  BY <2>1, <2>2, <2>3
<1>30. ASSUME FillCopy(c)  PROVE  TreeInv' /\ TodoNext(c) /\ CallNext(c)
  <2>1. TreeInv'
    BY <1>30, SameTree DEF TInv, FillCopy, fileVars
  <2>2. TodoNext(c)
    BY <1>30, <1>0, Lists, Ended1 DEF TodoNext, callVars, FillCopy
  <2>3. CallNext(c)
    BY <1>30 DEF CallNext, callVars, FillCopy
  <2> QED  BY <2>1, <2>2, <2>3
<1>31. ASSUME CopyEnds(c)  PROVE  TreeInv' /\ TodoNext(c) /\ CallNext(c)
  <2>1. TreeInv'
    BY <1>31, SameTree DEF TInv, CopyEnds, fileVars
  <2>2. TodoNext(c)
    BY <1>31, <1>0, Lists, Ended1 DEF TodoNext, callVars, CopyEnds
  <2>3. CallNext(c)
    BY <1>31 DEF CallNext, callVars, CopyEnds
  <2> QED  BY <2>1, <2>2, <2>3
<1>32. ASSUME Search(c)  PROVE  TreeInv' /\ TodoNext(c) /\ CallNext(c)
  <2>1. TreeInv'
    BY <1>32, SameTree DEF TInv, Search, fileVars
  <2>2. TodoNext(c)
    BY <1>32, <1>0, Lists, Ended1 DEF TodoNext, callVars, Search, Begin
  <2>3. CallNext(c)
    BY <1>32 DEF CallNext, callVars, Search, Begin
  <2> QED  BY <2>1, <2>2, <2>3
<1>33. ASSUME GrepVisit(c)  PROVE  TreeInv' /\ TodoNext(c) /\ CallNext(c)
  <2>1. TreeInv'
    BY <1>33, SameTree DEF TInv, GrepVisit, fileVars
  <2>2. TodoNext(c)
    <3>1. pc[c] = "walk" /\ todo[c] # <<>>  BY <1>33 DEF GrepVisit
    <3>2. \/ Set(todo, c, After(c, Head(todo[c]))) /\ UNCHANGED pc
          \/ Set(todo, c, <<>>) /\ \E a : Reply(c, a)
      BY <1>33, Zenon DEF GrepVisit
    <3>3. CASE Set(todo, c, After(c, Head(todo[c]))) /\ UNCHANGED pc
      BY <3>1, <3>3, AfterIs DEF TodoNext
    <3>4. CASE Set(todo, c, <<>>) /\ \E a : Reply(c, a)
      BY <1>0, <3>4, Lists, Ended1 DEF TodoNext
    <3> QED  BY <3>2, <3>3, <3>4
  <2>3. CallNext(c)
    BY <1>33 DEF CallNext, callVars, GrepVisit
  <2> QED  BY <2>1, <2>2, <2>3
<1>34. ASSUME GlobVisit(c)  PROVE  TreeInv' /\ TodoNext(c) /\ CallNext(c)
  <2>1. TreeInv'
    BY <1>34, SameTree DEF TInv, GlobVisit, fileVars
  <2>2. TodoNext(c)
    <3>1. pc[c] = "walk" /\ todo[c] # <<>>  BY <1>34 DEF GlobVisit
    <3>2. \/ Set(todo, c, After(c, Head(todo[c]))) /\ UNCHANGED pc
          \/ Set(todo, c, <<>>) /\ \E a : Reply(c, a)
      BY <1>34 DEF GlobVisit
    <3>3. CASE Set(todo, c, After(c, Head(todo[c]))) /\ UNCHANGED pc
      BY <3>1, <3>3, AfterIs DEF TodoNext
    <3>4. CASE Set(todo, c, <<>>) /\ \E a : Reply(c, a)
      BY <1>0, <3>4, Lists, Ended1 DEF TodoNext
    <3> QED  BY <3>2, <3>3, <3>4
  <2>3. CallNext(c)
    BY <1>34 DEF CallNext, callVars, GlobVisit
  <2> QED  BY <2>1, <2>2, <2>3
<1>35. ASSUME WalkEnds(c)  PROVE  TreeInv' /\ TodoNext(c) /\ CallNext(c)
  <2>1. TreeInv'
    BY <1>35, SameTree DEF TInv, WalkEnds, fileVars
  <2>2. TodoNext(c)
    BY <1>35, <1>0, Lists, Ended1 DEF TodoNext, callVars, WalkEnds
  <2>3. CallNext(c)
    BY <1>35 DEF CallNext, callVars, WalkEnds
  <2> QED  BY <2>1, <2>2, <2>3
<1>36. ASSUME Deadline(c)  PROVE  TreeInv' /\ TodoNext(c) /\ CallNext(c)
  <2>1. TreeInv'
    BY <1>36, SameTree DEF TInv, Deadline, fileVars
  <2>2. TodoNext(c)
    BY <1>36, <1>0, Lists, Ended1 DEF TodoNext, callVars, Deadline
  <2>3. CallNext(c)
    BY <1>36 DEF CallNext, callVars, Deadline
  <2> QED  BY <2>1, <2>2, <2>3
<1> QED  BY <1>1, <1>2, <1>3, <1>4, <1>5, <1>6, <1>7, <1>8, <1>9, <1>10, <1>11, <1>12, <1>13, <1>14, <1>15, <1>16, <1>17, <1>18, <1>19, <1>20, <1>21, <1>22, <1>23, <1>24, <1>25, <1>26, <1>27, <1>28, <1>29, <1>30, <1>31, <1>32, <1>33, <1>34, <1>35, <1>36 DEF Step

\* The first state satisfies the invariant
LEMMA InitTInv == Init => TInv
<1> SUFFICES ASSUME Init PROVE TInv  OBVIOUS
<1>1. PICK t \in Trees : tree = t.tree /\ data = t.data /\ nextFile = t.nextFile  BY DEF Init
<1>2. InFolders  BY <1>1, TreesAreTrees DEF InFolders
<1>3. OnePath  BY <1>1, TreesAreTrees DEF OnePath
<1>4. CallInv  BY DEF Init, CallInv
<1>5. TodoInv
  <2>1. <<>> \in Seq(Entries) /\ Antichain(<<>>)  BY DEF Antichain
  <2> QED  BY <2>1 DEF Init, TodoInv, TodoIs
<1> QED  BY <1>2, <1>3, <1>4, <1>5, InitWInv DEF TInv, TreeInv

\* Every step keeps the invariant
LEMMA NextTInv == TInv /\ [Next]_vars => TInv'
<1> SUFFICES ASSUME TInv, [Next]_vars  PROVE TInv'  OBVIOUS
<1>0. WInv /\ WInv'  BY NextWInv DEF TInv
<1>1. CASE Next
  <2>1. PICK c \in Calls : Step(c)  BY <1>1 DEF Next
  <2>2. Others(c)  BY <1>0, <2>1, StepKinds DEF Quiet, Opens, Fills
  <2>3. TreeInv' /\ TodoNext(c) /\ CallNext(c)  BY <2>1, TreeSteps
  <2>4. CallInv'
    <3>1. ASSUME NEW d \in Calls \ {c}, pc'[d] # "idle"
          PROVE  call'[d].path \in Paths /\ call'[d].dest \in Paths
      BY <2>2, <3>1 DEF Others, TInv, CallInv
    <3>2. call'[c].path \in Paths /\ call'[c].dest \in Paths
      <4>1. CASE UNCHANGED call /\ pc[c] # "idle"  BY <4>1 DEF TInv, CallInv
      <4>2. CASE \E tool, opt : \E p, q \in Paths : Set(call, c, Call(tool, p, q, opt))
        <5>1. PICK tool, opt : \E p, q \in Paths : Set(call, c, Call(tool, p, q, opt))  BY <4>2
        <5>2. PICK p \in Paths, q \in Paths : Set(call, c, Call(tool, p, q, opt))  BY <5>1
        <5>3. call'[c] = Call(tool, p, q, opt)  BY <1>0, <5>2, Changed1
        <5> QED  BY <5>3 DEF Call
      <4> QED  BY <2>3, <4>1, <4>2 DEF CallNext
    <3> QED  BY <3>1, <3>2 DEF CallInv
  <2>5. TodoInv'
    <3>1. \A d \in Calls \ {c} : todo'[d] = todo[d]
      BY <1>0, <2>3 DEF TodoNext, Set, WInv, Typed
    <3>2. ASSUME NEW d \in Calls \ {c}  PROVE  TodoIs(todo[d], pc[d])'
      <4>1. TodoIs(todo[d], pc[d])  BY DEF TInv, TodoInv
      <4>2. todo'[d] = todo[d] /\ pc'[d] = pc[d]  BY <2>2, <3>1 DEF Others
      <4> QED  BY <4>1, <4>2 DEF TodoIs, Entries, Distinct, Antichain
    <3>3. TodoIs(todo[c], pc[c])'
      <4>1. CASE UNCHANGED todo /\ (pc'[c] = "removeall" <=> pc[c] = "removeall")
        BY <4>1, Zenon DEF TInv, TodoInv, TodoIs, Entries, Distinct, Antichain
      <4>2. CASE \E s : Set(todo, c, s) /\ TodoIs(s, pc'[c])
        <5>1. PICK s : Set(todo, c, s) /\ TodoIs(s, pc'[c])  BY <4>2
        <5>2. todo'[c] = s  BY <1>0, <5>1, Changed1
        <5> QED  BY <5>1, <5>2 DEF TodoIs, Entries, Distinct, Antichain
      <4> QED  BY <2>3, <4>1, <4>2 DEF TodoNext
    <3> QED  BY <3>2, <3>3 DEF TodoInv
  <2> QED  BY <1>0, <2>3, <2>4, <2>5 DEF TInv
<1>2. CASE UNCHANGED vars
  <2>1. UNCHANGED <<tree, pc, call, todo>>  BY <1>2 DEF vars, fileVars, callVars
  <2>2. TreeInv'  BY <2>1, SameTree DEF TInv
  <2>3. CallInv'  BY <2>1 DEF TInv, CallInv
  <2>4. TodoInv'  BY <2>1, Zenon DEF TInv, TodoInv, TodoIs, Entries, Distinct, Antichain
  <2> QED  BY <1>0, <2>2, <2>3, <2>4 DEF TInv
<1> QED  BY <1>1, <1>2

\* The invariant implies TypeOK
LEMMA TInvImplies == TInv => TypeOK
<1> SUFFICES ASSUME TInv PROVE TypeOK  OBVIOUS
<1>1. TreeTypeOK  BY DEF TInv, WInv, Typed, TreeTypeOK
<1>2. /\ pc \in [Calls -> PCs]
      /\ handle \in [Calls -> Files \cup {Absent}]
      /\ source \in [Calls -> Files \cup {Absent, Dir}]
      /\ buf \in [Calls -> Seq(Lines)]
      /\ owed \subseteq Calls
  BY DEF TInv, WInv, Typed, OwedIsThere
<1>3. ASSUME NEW c \in Calls  PROVE  Len(todo[c]) <= Cardinality(Paths)
  <2>1. TodoIs(todo[c], pc[c])  BY DEF TInv, TodoInv
  <2>2. todo[c] \in Seq(Entries) /\ Distinct(todo[c])  BY <2>1, ApartIsDistinct DEF TodoIs
  <2> QED  BY <2>2, DistinctBound
<1>4. /\ \A c \in Calls : pc[c] \in {"write", "fill"} => handle[c] # Absent
      /\ \A c \in Calls : pc[c] \in {"read", "fill"} => source[c] # Absent
  BY DEF TInv, WInv, Doing
<1>5. ASSUME NEW p \in Paths, tree[p] # Absent  PROVE  HasParent(p)
  BY <1>5, FrontIs DEF TInv, TreeInv, InFolders, HasParent, IsFolder, At
<1>6. \A p, q \in Paths : IsFile(p) => tree[p] < nextFile /\ (p # q => tree[p] # tree[q])
  BY DEF TInv, TreeInv, OnePath, WInv, Numbered, IsFile, At
<1> QED  BY <1>1, <1>2, <1>3, <1>4, <1>5, <1>6 DEF TypeOK

\* Whatever calls run at the same time and wherever they stop, the tree stays a
\* tree: what is there is in a directory, a file has one path, and a call writes
\* and reads only what it has opened.  A copy or a search never has more entries to
\* visit than there are paths, though the tree changes below it: no entry it has yet
\* to visit is in the directory of another.
THEOREM TreeStaysTree == Spec => []TypeOK
<1>1. Init => TInv  BY InitTInv
<1>2. TInv /\ [Next]_vars => TInv'  BY NextTInv
<1>3. TInv => TypeOK  BY TInvImplies
<1> QED  BY <1>1, <1>2, <1>3, PTL DEF Spec

-----------------------------------------------------------------------------
(***************************************************************************)
(* Where a move puts what it moves.                                        *)
(***************************************************************************)

\* Nothing is left out of a set that is sorted
LEMMA AscendingAll ==
    ASSUME NEW n \in Nat, NEW S \in SUBSET (1 .. n), NEW x \in S
    PROVE  \E k \in DOMAIN Ascending(S) : Ascending(S)[k] = x
<1> DEFINE s == Ascending(S)
           m == Cardinality(S)
<1>1. Sorted(s, S) /\ m \in Nat  BY AscendingIs
<1>2. IsFiniteSet(S)
  <2>1. IsFiniteSet(1 .. n)  BY FS_Interval
  <2> QED  BY <2>1, FS_Subset, Zenon
<1>3. \A i \in S : i \in Int  OBVIOUS
<1> HIDE DEF s
<1>4. s \in [1 .. m -> S] /\ \A i, j \in 1 .. m : i < j => s[i] < s[j]  BY <1>1 DEF Sorted
<1> HIDE DEF m
<1>5. s \in Injection(1 .. m, S)
  <2>1. ASSUME NEW i \in 1 .. m, NEW j \in 1 .. m, s[i] = s[j]  PROVE  i = j
    <3>1. s[i] \in Int /\ s[j] \in Int  BY <1>3, <1>4, Zenon
    <3>2. ~(i < j) /\ ~(j < i)  BY <1>4, <2>1, <3>1
    <3> QED  BY <1>1, <3>2
  <2> QED  BY <1>4, <2>1 DEF Injection, IsInjective
<1>6. Cardinality(1 .. m) = m
  <2>1. 1 \in Int /\ m \in Int  BY <1>1
  <2>2. Cardinality(1 .. m) = IF 1 > m THEN 0 ELSE m - 1 + 1  BY <2>1, FS_Interval
  <2> QED  BY <1>1, <2>2
<1>7. s \in Surjection(1 .. m, S)  BY <1>2, <1>5, <1>6, FS_Injection DEF m
<1> QED  BY <1>4, <1>7 DEF Surjection, s

\* os.ReadDir names every entry of the directory
LEMMA ChildrenAll ==
    ASSUME NEW t, NEW p \in Paths, NEW r \in Paths, IsPrefix(p, r), Len(r) = Len(p) + 1, t[r] # Absent
    PROVE  \E i \in DOMAIN ChildrenIn(t, p) : ChildrenIn(t, p)[i] = r
<1> DEFINE child == [i \in DOMAIN NameOrder |-> Append(p, NameOrder[i])]
           present == {i \in DOMAIN NameOrder : child[i] \in Paths /\ t[child[i]] # Absent}
           inOrder == Ascending(present)
<1>1. ChildrenIn(t, p) = [k \in DOMAIN inOrder |-> child[inOrder[k]]]  BY DEF ChildrenIn
<1>2. DOMAIN NameOrder = 1 .. Len(NameOrder) /\ Len(NameOrder) \in Nat /\ \A i \in DOMAIN NameOrder : NameOrder[i] \in STRING
  BY NamesInOrder
<1>3. p \in Seq(STRING) /\ r \in Seq(STRING) /\ Len(p) \in Nat \ {0} /\ Len(r) \in Nat  BY PathFacts
<1>4. PICK i \in DOMAIN NameOrder : NameOrder[i] = r[Len(r)]
  <2>1. Len(r) \in 2 .. Len(r)  BY <1>3
  <2>2. r[Len(r)] \in Range(NameOrder)  BY <2>1, NamesInOrder
  <2> QED  BY <2>2 DEF Range
<1>5. child[i] = r
  <2> DEFINE a == Append(p, NameOrder[i])
  <2>1. /\ a \in Seq(STRING) /\ Len(a) = Len(p) + 1 /\ a[Len(p) + 1] = NameOrder[i]
        /\ \A k \in 1 .. Len(p) : a[k] = p[k]
    BY <1>2, <1>3
  <2>2. child[i] = a  OBVIOUS
  <2> HIDE DEF a
  <2>3. \A k \in 1 .. Len(p) : p[k] = r[k]  BY <1>3, PrefixIs
  <2>4. \A k \in 1 .. Len(a) : a[k] = r[k]  BY <1>3, <1>4, <2>1, <2>3
  <2>5. a = r  BY <1>3, <2>1, <2>4, SeqIsSeq
  <2> QED  BY <2>2, <2>5
<1>6. i \in present  BY <1>5, Zenon
<1>7. present \in SUBSET (1 .. Len(NameOrder))  BY <1>2
<1> HIDE DEF child, present
<1>8. PICK k \in DOMAIN inOrder : inOrder[k] = i  BY <1>2, <1>6, <1>7, AscendingAll, Zenon
<1> HIDE DEF inOrder
<1> QED  BY <1>1, <1>5, <1>8

\* On the way from a directory to a path below it comes an entry of the directory
LEMMA OnTheWay ==
    ASSUME NEW p \in Paths, NEW q \in Paths, IsStrictPrefix(p, q)
    PROVE  \E r \in Paths : IsPrefix(p, r) /\ Len(r) = Len(p) + 1 /\ IsPrefix(r, q)
<1> DEFINE r == SubSeq(q, 1, Len(p) + 1)
<1>1. p \in Seq(STRING) /\ q \in Seq(STRING) /\ Len(p) \in Nat \ {0} /\ Len(q) \in Nat  BY PathFacts
<1>2. Len(p) < Len(q) /\ \A i \in 1 .. Len(p) : p[i] = q[i]
  BY <1>1, PrefixIs, PrefixOrder DEF IsStrictPrefix
<1>3. Len(p) + 1 \in 1 .. Len(q)  BY <1>1, <1>2
<1>4. r \in Paths  BY <1>3, PathsHaveParents
<1>5. r \in Seq(STRING) /\ Len(r) = Len(p) + 1 /\ \A i \in 1 .. Len(p) + 1 : r[i] = q[i]
  BY <1>1, <1>3
<1> HIDE DEF r
<1>6. IsPrefix(p, r) /\ IsPrefix(r, q)  BY <1>1, <1>2, <1>5, PrefixIs
<1> QED  BY <1>4, <1>5, <1>6

\* Nothing is below both of two paths of which neither is below the other
LEMMA NotBoth ==
    ASSUME NEW k, k.path \in Paths, k.dest \in Paths, Apart(k),
           NEW r \in Seq(STRING), NEW s \in Seq(STRING), IsPrefix(k.path, r), IsPrefix(r, s)
    PROVE  ~IsPrefix(k.dest, s)
<1> DEFINE p == k.path
           d == k.dest
<1>1. p \in Seq(STRING) /\ d \in Seq(STRING)  BY PathFacts
<1>2. ~IsPrefix(p, d) /\ ~IsPrefix(d, p) /\ IsPrefix(p, r)  BY DEF Apart
<1> HIDE DEF p, d
<1>3. IsPrefix(p, s)  BY <1>1, <1>2, PrefixOrder
<1>4. ~IsPrefix(d, s)  BY <1>1, <1>2, <1>3, PrefixOrder
<1> QED  BY <1>4 DEF d

\* Two paths move to two places, below the destination
LEMMA MovedIs ==
    ASSUME NEW k, k.path \in Paths, k.dest \in Paths, NEW q \in Below(k.path)
    PROVE  /\ Moved(k, q) \in Seq(STRING) /\ IsPrefix(k.dest, Moved(k, q))
           /\ \A r \in Below(k.path) : r # q => Moved(k, r) # Moved(k, q)
           /\ k.path \o Rest(k.dest, Moved(k, q)) = q
           /\ Moved(k, k.path) = k.dest
<1> DEFINE p == k.path
           d == k.dest
<1>1. p \in Paths /\ d \in Paths /\ p \in Seq(STRING) /\ d \in Seq(STRING) /\ q \in Paths /\ q \in Seq(STRING)
  BY PathFacts DEF Below
<1>2. IsPrefix(p, q) /\ IsPrefix(p, p)  BY <1>1, PrefixOrder DEF Below
<1> DEFINE m == d \o Rest(p, q)
           n == d \o Rest(p, p)
           b == p \o Rest(d, m)
<1> HIDE DEF p, d
<1>3. /\ m \in Seq(STRING) /\ IsPrefix(d, m) /\ Len(m) = Len(d) + Len(q) - Len(p)
      /\ \A i \in 1 .. Len(q) - Len(p) : m[Len(d) + i] = q[Len(p) + i]
  BY <1>1, <1>2, RestIs, ZenonT(40)
<1>4. n \in Seq(STRING) /\ Len(n) = Len(d) /\ \A i \in 1 .. Len(d) : n[i] = d[i]
  <2>1. n \in Seq(STRING) /\ Len(n) = Len(d) + Len(p) - Len(p) /\ \A i \in 1 .. Len(d) : n[i] = d[i]
    BY <1>1, <1>2, RestIs, Zenon
  <2>2. Len(d) \in Nat /\ Len(p) \in Nat  BY <1>1
  <2> HIDE DEF n
  <2> QED  BY <2>1, <2>2
<1> HIDE DEF m
<1>5. /\ b \in Seq(STRING) /\ Len(b) = Len(p) + Len(m) - Len(d)
      /\ \A i \in 1 .. Len(p) : b[i] = p[i]
      /\ \A i \in 1 .. Len(m) - Len(d) : b[Len(p) + i] = m[Len(d) + i]
  <2>0. d \in Seq(STRING) /\ p \in Seq(STRING) /\ m \in Seq(STRING) /\ IsPrefix(d, m)  BY <1>1, <1>3
  <2>1. b \in Seq(STRING) /\ Len(b) = Len(p) + Len(m) - Len(d)  BY <2>0, RestIs, Zenon
  <2>2. \A i \in 1 .. Len(p) : b[i] = p[i]  BY <2>0, RestIs, Zenon
  <2>3. \A i \in 1 .. Len(m) - Len(d) : b[Len(p) + i] = m[Len(d) + i]
    <3> DEFINE good == \A i \in 1 .. Len(m) - Len(d) : b[Len(p) + i] = m[Len(d) + i]
    <3>1. good  BY <2>0, RestIs
    <3> QED  BY <3>1
  <2> QED  BY <2>1, <2>2, <2>3
<1> HIDE DEF n, b
<1>6. n = d  BY <1>1, <1>4, SeqIsSeq
<1>7. b = q
  <2>1. Len(p) \in Nat /\ Len(q) \in Nat /\ Len(d) \in Nat /\ Len(m) \in Nat /\ Len(p) <= Len(q)
    BY <1>1, <1>2, <1>3, PrefixIs
  <2>2. \A i \in 1 .. Len(p) : p[i] = q[i]  BY <1>1, <1>2, PrefixIs
  <2>3. Len(b) = Len(q) /\ Len(m) - Len(d) = Len(q) - Len(p)  BY <1>3, <1>5, <2>1
  <2>4. ASSUME NEW i \in 1 .. Len(b)  PROVE  b[i] = q[i]
    <3>1. CASE i <= Len(p)  BY <1>5, <2>1, <2>2, <2>3, <3>1
    <3>2. CASE i > Len(p)
      <4> DEFINE j == i - Len(p)
      <4>1. j \in 1 .. Len(q) - Len(p) /\ i = Len(p) + j  BY <2>1, <2>3, <3>2
      <4> HIDE DEF j
      <4> QED  BY <1>3, <1>5, <2>3, <4>1, Zenon
    <3> QED  BY <2>1, <2>3, <3>1, <3>2
  <2> QED  BY <1>1, <1>5, <2>3, <2>4, SeqIsSeq, Zenon
<1>8. \A r \in Paths : IsPrefix(p, r) /\ r # q => d \o Rest(p, r) # d \o Rest(p, q)
  BY <1>1, <1>2, Origin, Zenon
<1> QED  BY <1>3, <1>6, <1>7, <1>8, Zenon DEF Moved, Below, m, n, b, p, d

\* An entry of a directory moves to an entry of where the directory moves
LEMMA MovedChild ==
    ASSUME NEW k, k.path \in Paths, k.dest \in Paths, NEW q \in Below(k.path),
           NEW r \in Paths, IsPrefix(q, r), Len(r) = Len(q) + 1
    PROVE  r \in Below(k.path) /\ Moved(k, r) = Append(Moved(k, q), r[Len(r)])
<1> DEFINE p == k.path
           d == k.dest
<1>1. p \in Seq(STRING) /\ d \in Seq(STRING) /\ q \in Seq(STRING) /\ r \in Seq(STRING) /\ q \in Paths
  BY PathFacts DEF Below
<1>2. IsPrefix(p, q)  BY DEF Below
<1> DEFINE a == d \o Rest(p, q)
           b == d \o Rest(p, r)
           x == r[Len(r)]
           e == Append(a, x)
<1> HIDE DEF p, d
<1>3. IsPrefix(p, r)  BY <1>1, <1>2, PrefixOrder
<1>4. /\ a \in Seq(STRING) /\ Len(a) = Len(d) + Len(q) - Len(p)
      /\ \A i \in 1 .. Len(d) : a[i] = d[i]
      /\ \A i \in 1 .. Len(q) - Len(p) : a[Len(d) + i] = q[Len(p) + i]
  <2>0. d \in Seq(STRING) /\ p \in Seq(STRING) /\ q \in Seq(STRING) /\ IsPrefix(p, q)  BY <1>1, <1>2
  <2>1. a \in Seq(STRING) /\ Len(a) = Len(d) + Len(q) - Len(p)  BY <2>0, RestIs, ZenonT(40)
  <2>2. \A i \in 1 .. Len(d) : a[i] = d[i]  BY <2>0, RestIs, Zenon
  <2>3. \A i \in 1 .. Len(q) - Len(p) : a[Len(d) + i] = q[Len(p) + i]
    <3> DEFINE good == \A i \in 1 .. Len(q) - Len(p) : a[Len(d) + i] = q[Len(p) + i]
    <3>1. good  BY <2>0, RestIs
    <3> QED  BY <3>1, Zenon
  <2> QED  BY <2>1, <2>2, <2>3, Zenon
<1>5. /\ b \in Seq(STRING) /\ Len(b) = Len(d) + Len(r) - Len(p)
      /\ \A i \in 1 .. Len(d) : b[i] = d[i]
      /\ \A i \in 1 .. Len(r) - Len(p) : b[Len(d) + i] = r[Len(p) + i]
  <2>0. d \in Seq(STRING) /\ p \in Seq(STRING) /\ r \in Seq(STRING) /\ IsPrefix(p, r)  BY <1>1, <1>3
  <2>1. b \in Seq(STRING) /\ Len(b) = Len(d) + Len(r) - Len(p)  BY <2>0, RestIs, ZenonT(40)
  <2>2. \A i \in 1 .. Len(d) : b[i] = d[i]  BY <2>0, RestIs, Zenon
  <2>3. \A i \in 1 .. Len(r) - Len(p) : b[Len(d) + i] = r[Len(p) + i]
    <3> DEFINE good == \A i \in 1 .. Len(r) - Len(p) : b[Len(d) + i] = r[Len(p) + i]
    <3>1. good  BY <2>0, RestIs
    <3> QED  BY <3>1, Zenon
  <2> QED  BY <2>1, <2>2, <2>3
<1>6. /\ Len(p) \in Nat /\ Len(q) \in Nat /\ Len(d) \in Nat /\ Len(r) \in Nat
      /\ Len(p) <= Len(q) /\ \A i \in 1 .. Len(q) : q[i] = r[i]
  BY <1>1, <1>2, PrefixIs
<1>7. x \in STRING  BY <1>1, <1>6
<1> HIDE DEF a, b, x
<1>8. /\ e \in Seq(STRING) /\ Len(e) = Len(a) + 1 /\ e[Len(a) + 1] = x
      /\ \A i \in 1 .. Len(a) : e[i] = a[i]
  BY <1>4, <1>7
<1> HIDE DEF e
<1>9. Len(b) = Len(e)  BY <1>4, <1>5, <1>6, <1>8
<1>10. ASSUME NEW i \in 1 .. Len(b)  PROVE  b[i] = e[i]
  <2>1. CASE i <= Len(d)  BY <1>4, <1>5, <1>6, <1>8, <2>1
  <2>2. CASE i > Len(d)
    <3> DEFINE j == i - Len(d)
    <3>1. j \in 1 .. Len(r) - Len(p) /\ i = Len(d) + j  BY <1>5, <1>6, <2>2
    <3> HIDE DEF j
    <3>2. b[i] = r[Len(p) + j]  BY <1>5, <3>1
    <3>3. CASE j <= Len(q) - Len(p)
      <4>1. j \in 1 .. Len(q) - Len(p) /\ Len(p) + j \in 1 .. Len(q) /\ i \in 1 .. Len(a)
        BY <1>4, <1>6, <3>1, <3>3
      <4>2. e[i] = a[Len(d) + j]  BY <1>8, <3>1, <4>1
      <4>3. a[Len(d) + j] = q[Len(p) + j]  BY <1>4, <4>1
      <4>4. q[Len(p) + j] = r[Len(p) + j]  BY <1>6, <4>1
      <4> QED  BY <3>2, <4>2, <4>3, <4>4
    <3>4. CASE j > Len(q) - Len(p)
      <4>1. j = Len(r) - Len(p)
        <5> DEFINE lr == Len(r)
                   lp == Len(p)
                   lq == Len(q)
        <5>1. lr \in Nat /\ lp \in Nat /\ lq \in Nat /\ lr = lq + 1 /\ j \in 1 .. lr - lp /\ j > lq - lp
          BY <1>6, <3>1, <3>4
        <5> HIDE DEF lr, lp, lq
        <5>2. j = lr - lp  BY <5>1
        <5> QED  BY <5>2 DEF lr, lp
      <4>2. Len(p) + j = Len(r) /\ i = Len(a) + 1  BY <1>4, <1>6, <3>1, <4>1
      <4> QED  BY <1>8, <3>2, <4>2 DEF x
    <3> QED  BY <1>6, <3>1, <3>3, <3>4
  <2> QED  BY <1>1, <2>1, <2>2
<1>11. b = e  BY <1>5, <1>8, <1>9, <1>10, SeqIsSeq
<1> QED  BY <1>3, <1>11 DEF Moved, Below, a, b, e, p, d, x

-----------------------------------------------------------------------------
(***************************************************************************)
(* A copy or a move that is alone.                                         *)
(***************************************************************************)

\* What the tree v has below the path that is copied or moved
Sources(k, v) == {q \in Below(k.path) : v[q] # <<Absent>>}

Intact(k, v) == \A q \in Below(k.path) : View[q] = v[q]

Arrived(k, v, q) == Moved(k, q) \in Paths /\ View[Moved(k, q)] = v[q]

\* What is at q is what the copy has yet to come to
Ahead(c, q) == \E i \in DOMAIN todo[c] : IsPrefix(todo[c][i].from, q)

\* The text at q is being copied, to a file that is empty
Taking(c, q) ==
    LET r == Moved(call[c], q) IN
    /\ r \in Paths
    /\ source[c] \in Files /\ tree[q] = source[c]
    /\ handle[c] \in Files /\ tree[r] = handle[c] /\ data[handle[c]] = <<>>

\* The copy has its list of entries; a copy has it before it makes the parents
Listing(c) == pc[c] = "copy" \/ (pc[c] = "parents" /\ call[c].tool = "copy")

\* How far a copy or a move has come that began with the tree v
Progress(c, v) ==
    LET k == call[c] IN
    /\ pc[c] \in {"parents", "rename", "restat", "copy", "fill"} => Intact(k, v)
    /\ Listing(c) \/ pc[c] = "fill" => \A i \in DOMAIN todo[c] :
           todo[c][i].from \in Below(k.path) /\ todo[c][i].to = Moved(k, todo[c][i].from)
    /\ pc[c] = "fill" => source[c] = Dir \/ \E q \in Below(k.path) : Taking(c, q)
    /\ Listing(c) => \A q \in Sources(k, v) : Arrived(k, v, q) \/ Ahead(c, q)
    /\ pc[c] = "fill" => \A q \in Sources(k, v) :
           Arrived(k, v, q) \/ Ahead(c, q) \/ source[c] = Dir \/ Taking(c, q)
    /\ pc[c] = "removeall" => \A q \in Sources(k, v) : Arrived(k, v, q)
    /\ pc[c] = "done" => \A q \in Sources(k, v) : View[q] = v[q] \/ Arrived(k, v, q)
    /\ pc[c] = "done" /\ answer[c].status = "ok" => \A q \in Sources(k, v) : Arrived(k, v, q)

\* While a call is alone, nobody else has begun or will act
AloneInv ==
    \A c \in Calls : before[c] # <<>> =>
        Running(c) /\ \A d \in Calls \ {c} : ~Running(d)

MoveInv ==
    \A c \in Calls :
        (before[c] # <<>> /\ call[c].tool \in {"copy", "move"} /\ Apart(call[c]))
            => Progress(c, before[c])

MInv == TInv /\ AloneInv /\ MoveInv

\* What does not change at a path, nor in its file, looks the same
LEMMA SameView ==
    ASSUME NEW r \in Paths, tree'[r] = tree[r], tree[r] \in Files => data'[tree[r]] = data[tree[r]]
    PROVE  View'[r] = View[r]
BY DEF View, Files

\* A text is in a file
LEMMA TextIsFile ==
    ASSUME TInv, NEW r \in Paths, View[r] \notin {<<Absent>>, <<Dir>>}
    PROVE  tree[r] \in Files
BY DEF View, TInv, WInv, Typed

\* The directories made for a copy are outside of what is moved, and replace nothing
LEMMA DirsSpare ==
    ASSUME TInv, NEW k, k.path \in Paths, k.dest \in Paths, Apart(k),
           NEW s, CanMkdirAll(s), IsPrefix(k.dest, s) \/ IsPrefix(s, k.dest),
           tree' = WithDirs(s), UNCHANGED data
    PROVE  /\ \A r \in Below(k.path) : ~IsPrefix(r, s) /\ View'[r] = View[r]
           /\ \A r \in Paths : View[r] # <<Absent>> => View'[r] = View[r]
<1>1. s \in Paths /\ \A r \in Paths : tree'[r] = IF IsPrefix(r, s) THEN Dir ELSE tree[r]
  BY DEF CanMkdirAll, WithDirs
<1>2. k.path \in Seq(STRING) /\ k.dest \in Seq(STRING) /\ s \in Seq(STRING)  BY <1>1, PathFacts
<1>3. ASSUME NEW r \in Below(k.path)  PROVE  ~IsPrefix(r, s) /\ View'[r] = View[r]
  <2>1. r \in Paths /\ r \in Seq(STRING) /\ IsPrefix(k.path, r)  BY PathFacts DEF Below
  <2>2. ~IsPrefix(r, s)
    <3> SUFFICES ASSUME IsPrefix(r, s) PROVE FALSE  OBVIOUS
    <3>1. CASE IsPrefix(k.dest, s)  BY <1>2, <2>1, <3>1, NotBoth
    <3>2. CASE IsPrefix(s, k.dest)
      <4>1. IsPrefix(r, k.dest)
        <5> DEFINE d == k.dest
        <5>1. d \in Seq(STRING) /\ IsPrefix(s, d)  BY <1>2, <3>2
        <5> HIDE DEF d
        <5>2. IsPrefix(r, d)  BY <1>2, <2>1, <5>1, PrefixOrder
        <5> QED  BY <5>2 DEF d
      <4>2. IsPrefix(k.dest, k.dest)  BY <1>2, PrefixOrder
      <4> QED  BY <1>2, <2>1, <4>1, <4>2, NotBoth
    <3> QED  BY <3>1, <3>2
  <2> QED  BY <1>1, <2>1, <2>2, SameView
<1>4. ASSUME NEW r \in Paths, View[r] # <<Absent>>  PROVE  View'[r] = View[r]
  <2>1. tree[r] # Absent  BY <1>4, Constants DEF View
  <2>2. IsPrefix(r, s) => tree[r] = Dir  BY <2>1 DEF CanMkdirAll
  <2>3. tree'[r] = tree[r]  BY <1>1, <2>2
  <2> QED  BY <2>3, SameView
<1> QED  BY <1>3, <1>4

\* What a step of a copy or a move may rely on
Moves(c, v) ==
    /\ pc[c] \notin {"idle", "done"}
    /\ call[c].tool \in {"copy", "move"} /\ Apart(call[c])
    /\ Progress(c, v)

\* Where a copy or a move is, and what it moves
LEMMA MovePlaces ==
    ASSUME TInv, NEW c \in Calls, NEW v, Moves(c, v)
    PROVE  /\ call[c].path \in Paths /\ call[c].dest \in Paths /\ Apart(call[c])
           /\ \A q \in Sources(call[c], v) : q \in Below(call[c].path) /\ v[q] # <<Absent>>
           /\ \A q \in Below(call[c].path) : q \in Paths /\ IsPrefix(call[c].path, q)
           /\ pc[c] \in {"parents", "rename", "restat", "copy", "fill", "removeall"}
<1>1. call[c].path \in Paths /\ call[c].dest \in Paths  BY DEF TInv, CallInv, Moves
<1>2. pc[c] \in {"parents", "rename", "restat", "copy", "fill", "removeall"}
  BY Here, ToolTable DEF TInv, Moves, PCs
<1> QED  BY <1>1, <1>2 DEF Moves, Sources, Below

\* A step that leaves the source and every text where they are, and ends or goes on
\* before the copy
LEMMA EndsIntact ==
    ASSUME TInv, NEW c \in Calls, NEW v, Moves(c, v), Intact(call[c], v),
           call'[c] = call[c], pc'[c] \in {"rename", "restat", "done"},
           pc'[c] = "done" => answer'[c].status # "ok",
           \A r \in Below(call[c].path) : View'[r] = View[r]
    PROVE  Progress(c, v)'
<1> DEFINE k == call[c]
<1>1. \A q \in Below(k.path) : View'[q] = v[q]  BY DEF Intact
<1>2. k' = k  OBVIOUS
<1>3. Intact(k, v)'  BY <1>1, <1>2 DEF Intact, Below
<1>4. \A q \in Sources(k, v)' : View'[q] = v[q]  BY <1>1, <1>2 DEF Sources, Below
<1> QED  BY <1>3, <1>4 DEF Progress, Listing

\* Making the parents of the destination leaves the source where it is
LEMMA ParentsProgress ==
    ASSUME TInv, NEW c \in Calls, NEW v, Moves(c, v), MakeParents(c)
    PROVE  Progress(c, v)' /\ call' = call
<1> DEFINE k == call[c]
<1>1. k.path \in Paths /\ k.dest \in Paths /\ Apart(k) /\ k.tool \in {"copy", "move"}
  BY MovePlaces DEF Moves
<1>2. /\ UNCHANGED <<data, call, todo>> /\ pc[c] = "parents"
      /\ tree' = IF CanMakeParents(k.dest) THEN WithParents(k.dest) ELSE tree
  BY DEF MakeParents
<1>3. \/ pc'[c] = "rename" \/ (pc'[c] = "done" /\ answer'[c].status # "ok")
      \/ pc'[c] = "copy" /\ k.tool = "copy"
  <2>1. \/ Goto(c, "rename") \/ Reply(c, Error)
        \/ Goto(c, "copy") /\ k.tool = "copy"
    BY <1>1 DEF MakeParents, GotoIf
  <2> QED  BY <2>1, Ended1 DEF TInv, Error, Answer
<1>4. Intact(k, v)  BY <1>2 DEF Moves, Progress
<1>5. /\ \A r \in Below(k.path) : View'[r] = View[r]
      /\ \A r \in Paths : View[r] # <<Absent>> => View'[r] = View[r]
  <2>1. CASE tree' = tree  BY <1>2, <2>1, SameView DEF Below
  <2>2. CASE tree' # tree
    <3>1. Len(k.dest) # 1 /\ CanMkdirAll(Front(k.dest)) /\ tree' = WithDirs(Front(k.dest))
      <4> DEFINE d == k.dest
      <4>1. tree' = IF CanMakeParents(d) THEN WithParents(d) ELSE tree  BY <1>2
      <4> HIDE DEF d
      <4>2. Len(d) # 1 /\ CanMkdirAll(Front(d)) /\ tree' = WithDirs(Front(d))
        BY <2>2, <4>1 DEF CanMakeParents, WithParents
      <4> QED  BY <4>2 DEF d
    <3>2. IsPrefix(Front(k.dest), k.dest)
      <4> DEFINE d == k.dest
      <4>1. d \in Paths /\ Len(d) # 1  BY <1>1, <3>1
      <4> HIDE DEF d
      <4>2. IsPrefix(Front(d), d)  BY <4>1, FrontIs DEF IsStrictPrefix
      <4> QED  BY <4>2 DEF d
    <3> QED  BY <1>1, <1>2, <3>1, <3>2, DirsSpare
  <2> QED  BY <2>1, <2>2
<1>6. CASE pc'[c] \in {"rename", "done"}  BY <1>2, <1>3, <1>4, <1>5, <1>6, EndsIntact
<1>7. CASE pc'[c] = "copy" /\ k.tool = "copy"
  <2>1. Listing(c)  BY <1>2, <1>7 DEF Listing
  <2>2. /\ \A q \in Sources(k, v) : Arrived(k, v, q) \/ Ahead(c, q)
        /\ \A i \in DOMAIN todo[c] : todo[c][i].from \in Below(k.path) /\ todo[c][i].to = Moved(k, todo[c][i].from)
    BY <2>1 DEF Moves, Progress
  <2>3. ASSUME NEW q \in Sources(k, v)  PROVE  Arrived(k, v, q)' \/ Ahead(c, q)'
    <3>1. CASE Arrived(k, v, q)
      <4>1. v[q] # <<Absent>>  BY MovePlaces
      <4> QED  BY <1>2, <1>5, <3>1, <4>1 DEF Arrived, Moved
    <3>2. CASE Ahead(c, q)  BY <1>2, <3>2 DEF Ahead
    <3> QED  BY <2>2, <3>1, <3>2
  <2>4. \A q \in Sources(k, v)' : Arrived(k, v, q)' \/ Ahead(c, q)'
    BY <1>2, <2>3 DEF Sources, Below
  <2>5. Intact(k, v)'  BY <1>2, <1>4, <1>5 DEF Intact, Below
  <2>6. \A i \in DOMAIN todo'[c] : todo'[c][i].from \in Below(k.path) /\ todo'[c][i].to = Moved(k, todo'[c][i].from)
    BY <1>2, <2>2
  <2> QED  BY <1>2, <1>7, <2>4, <2>5, <2>6, Zenon DEF Progress, Listing, Below, Moved
<1> QED  BY <1>2, <1>3, <1>6, <1>7

\* A rename moves every file of the source at once, or nothing
LEMMA RenameProgress ==
    ASSUME TInv, NEW c \in Calls, NEW v, Moves(c, v), Rename(c)
    PROVE  Progress(c, v)' /\ call' = call
<1> DEFINE k == call[c]
           p == k.path
           d == k.dest
<1>1. k.path \in Paths /\ k.dest \in Paths /\ Apart(k)  BY MovePlaces
<1>2. UNCHANGED <<data, call>> /\ pc[c] = "rename"  BY DEF Rename
<1>3. Intact(k, v)  BY <1>2 DEF Moves, Progress
<1>4. CASE ~CanRename(p, d)
  <2>1. UNCHANGED tree /\ pc'[c] = "restat"  BY <1>4, Ended1 DEF Rename, TInv
  <2>2. \A r \in Below(k.path) : View'[r] = View[r]  BY <1>2, <2>1, SameView DEF Below
  <2> QED  BY <1>2, <1>3, <2>1, <2>2, EndsIntact
<1>5. CASE CanRename(p, d)
  <2>1. tree' = Renamed(p, d) /\ pc'[c] = "done"  BY <1>5, Ended1 DEF Rename, TInv
  <2>2. ASSUME NEW q \in Sources(k, v)  PROVE  Arrived(k, v, q)'
    <3>1. q \in Below(p) /\ q \in Paths /\ View[q] = v[q] /\ tree[q] # Absent
      <4>1. q \in Below(p) /\ q \in Paths /\ View[q] = v[q] /\ View[q] # <<Absent>>
        BY <1>3, MovePlaces DEF Intact
      <4> QED  BY <4>1, Constants DEF View
    <3> DEFINE m == Moved(k, q)
    <3>2. m \in Paths  BY <1>5, <3>1 DEF CanRename, Moved
    <3>3. IsPrefix(d, m) /\ p \o Rest(d, m) = q  BY <1>1, <3>1, MovedIs, Zenon
    <3> HIDE DEF m, p, d, k
    <3>4. tree'[m] = tree[q]  BY <2>1, <3>1, <3>2, <3>3, Zenon DEF Renamed, At
    <3>5. View'[m] = View[q]  BY <1>2, <3>1, <3>2, <3>4 DEF View
    <3> QED  BY <1>2, <3>1, <3>2, <3>5 DEF Arrived, m, Moved, k
  <2>3. Sources(k, v)' = Sources(k, v)  BY <1>2 DEF Sources, Below
  <2>4. \A q \in Sources(k, v)' : Arrived(k, v, q)'  BY <2>2, <2>3
  <2> QED  BY <1>2, <2>1, <2>4 DEF Progress, Listing
<1> QED  BY <1>4, <1>5

\* A copy begins with all of the source ahead
LEMMA RestatProgress ==
    ASSUME TInv, NEW c \in Calls, NEW v, Moves(c, v), Restat(c)
    PROVE  Progress(c, v)' /\ call' = call
<1> DEFINE k == call[c]
           p == k.path
           d == k.dest
<1>1. k.path \in Paths /\ k.dest \in Paths /\ Apart(k)  BY MovePlaces
<1>2. UNCHANGED <<tree, data, call>> /\ pc[c] = "restat"  BY DEF Restat, fileVars
<1>3. Intact(k, v)  BY <1>2 DEF Moves, Progress
<1>4. \A r \in Paths : View'[r] = View[r]  BY <1>2, SameView
<1>5. CASE At(p) = Absent
  <2>1. pc'[c] = "done" /\ answer'[c].status # "ok"
    BY <1>5, Ended1 DEF Restat, GotoIf, TInv, Error, Answer
  <2> QED  BY <1>2, <1>3, <1>4, <2>1, EndsIntact DEF Below
<1>6. CASE At(p) # Absent
  <2>1. pc'[c] = "copy" /\ todo'[c] = <<Entry(p, d)>>
    BY <1>6, Ended1, Changed1 DEF Restat, GotoIf, TInv
  <2>2. p \in Below(p) /\ Moved(k, p) = d
    <3>1. p \in Below(p)  BY <1>1, PathFacts, PrefixOrder DEF Below
    <3> QED  BY <1>1, <3>1, MovedIs, Zenon
  <2>3. DOMAIN todo'[c] = {1} /\ todo'[c][1].from = p /\ todo'[c][1].to = d
    BY <2>1 DEF Entry
  <2>4. \A q \in Sources(k, v)' : Ahead(c, q)'  BY <1>2, <2>3 DEF Ahead, Sources, Below
  <2>5. Intact(k, v)'  BY <1>2, <1>3, <1>4 DEF Intact, Below
  <2>6. \A i \in DOMAIN todo'[c] : todo'[c][i].from \in Below(p) /\ todo'[c][i].to = Moved(k, todo'[c][i].from)
    BY <2>2, <2>3
  <2> QED  BY <1>2, <2>1, <2>4, <2>5, <2>6, Zenon DEF Progress, Listing, Below, Moved
<1> QED  BY <1>5, <1>6

\* A full disk ends the copy with the source intact
LEMMA FullProgress ==
    ASSUME TInv, NEW c \in Calls, NEW v, Moves(c, v), DiskFull(c)
    PROVE  Progress(c, v)' /\ call' = call
<1>1. UNCHANGED <<tree, data, call>> /\ pc[c] \in {"write", "fill"}  BY DEF DiskFull, fileVars
<1>2. pc[c] = "fill"  BY <1>1, MovePlaces
<1>3. Intact(call[c], v)  BY <1>2 DEF Moves, Progress
<1>4. pc'[c] = "done" /\ answer'[c].status # "ok"  BY Ended1 DEF DiskFull, TInv, Answer
<1>5. \A r \in Paths : View'[r] = View[r]  BY <1>1, SameView
<1> QED  BY <1>1, <1>3, <1>4, <1>5, EndsIntact DEF Below

\* When no entry is left, every file has arrived
LEMMA CopyEndsProgress ==
    ASSUME TInv, NEW c \in Calls, NEW v, Moves(c, v), CopyEnds(c)
    PROVE  Progress(c, v)' /\ call' = call
<1> DEFINE k == call[c]
<1>1. UNCHANGED <<tree, data, call>> /\ pc[c] = "copy" /\ todo[c] = <<>>  BY DEF CopyEnds, fileVars
<1>2. pc'[c] \in {"removeall", "done"}  BY Ended1 DEF CopyEnds, TInv
<1>3. \A r \in Paths : View'[r] = View[r]  BY <1>1, SameView
<1>4. \A q \in Sources(k, v) : Arrived(k, v, q)
  <2>1. \A q : ~Ahead(c, q)  BY <1>1 DEF Ahead
  <2> QED  BY <1>1, <2>1 DEF Moves, Progress, Listing
<1>5. \A q \in Sources(k, v)' : Arrived(k, v, q)'
  BY <1>1, <1>3, <1>4 DEF Sources, Below, Arrived, Moved
<1> QED  BY <1>1, <1>2, <1>5 DEF Progress, Listing

\* What is removed from the source is still where it has arrived
LEMMA RemoveProgress ==
    ASSUME TInv, NEW c \in Calls, NEW v, Moves(c, v), RemoveNext(c) \/ RemovedAll(c) \/ RemoveBlocked(c)
    PROVE  Progress(c, v)' /\ call' = call
<1> DEFINE k == call[c]
<1>1. k.path \in Paths /\ k.dest \in Paths /\ Apart(k)  BY MovePlaces
<1>2. UNCHANGED <<data, call>> /\ pc[c] = "removeall"
  BY DEF RemoveNext, RemovedAll, RemoveBlocked, Discard, fileVars, callVars
<1>3. pc'[c] \in {"removeall", "done"}
  BY <1>2, Ended1 DEF RemoveNext, RemovedAll, RemoveBlocked, callVars, TInv
<1>4. \A r \in Paths : ~IsPrefix(k.path, r) => View'[r] = View[r]
  <2>1. CASE RemoveNext(c)
    <3>1. PICK p \in Below(k.path) : CanRemove(p) /\ Discard(p)  BY <2>1 DEF RemoveNext
    <3>2. \A r \in Paths : ~IsPrefix(k.path, r) => tree'[r] = tree[r]
      BY <3>1 DEF Discard, Below, TInv, WInv, Typed
    <3> QED  BY <1>2, <3>2, SameView
  <2>2. CASE RemovedAll(c) \/ RemoveBlocked(c)
    BY <1>2, <2>2, SameView DEF RemovedAll, RemoveBlocked, fileVars
  <2> QED  BY <2>1, <2>2
<1>5. ASSUME NEW q \in Sources(k, v)  PROVE  Arrived(k, v, q)'
  <2>1. Arrived(k, v, q)  BY <1>2 DEF Moves, Progress
  <2>2. q \in Below(k.path)  BY MovePlaces
  <2>3. Moved(k, q) \in Paths /\ Moved(k, q) \in Seq(STRING) /\ IsPrefix(k.dest, Moved(k, q))
    BY <1>1, <2>1, <2>2, MovedIs, Zenon DEF Arrived
  <2>4. ~IsPrefix(k.path, Moved(k, q))
    <3> DEFINE m == Moved(k, q)
    <3>1. m \in Seq(STRING) /\ IsPrefix(m, m) /\ IsPrefix(k.dest, m)  BY <2>3, PrefixOrder
    <3> HIDE DEF m
    <3>2. ~IsPrefix(k.path, m)  BY <1>1, <3>1, NotBoth
    <3> QED  BY <3>2 DEF m
  <2> QED  BY <1>2, <1>4, <2>1, <2>3, <2>4 DEF Arrived, Moved
<1>6. \A q \in Sources(k, v)' : Arrived(k, v, q)'  BY <1>2, <1>5 DEF Sources, Below
<1> QED  BY <1>2, <1>3, <1>6 DEF Progress, Listing

\* The file that is being copied arrives complete
LEMMA FillProgress ==
    ASSUME TInv, NEW c \in Calls, NEW v, Moves(c, v), FillCopy(c)
    PROVE  Progress(c, v)' /\ call' = call
<1> DEFINE k == call[c]
<1>1. k.path \in Paths /\ k.dest \in Paths /\ Apart(k)  BY MovePlaces
<1>2. UNCHANGED <<tree, call>> /\ pc[c] = "fill"  BY DEF FillCopy
<1>3. Intact(k, v)  BY <1>2 DEF Moves, Progress
<1>4. CASE source[c] = Dir
  <2>1. UNCHANGED data /\ pc'[c] = "done" /\ answer'[c].status # "ok"
    BY <1>4, Ended1 DEF FillCopy, TInv, Error, Answer
  <2>2. \A r \in Paths : View'[r] = View[r]  BY <1>2, <2>1, SameView
  <2> QED  BY <1>2, <1>3, <2>1, <2>2, EndsIntact DEF Below
<1>5. CASE source[c] # Dir
  <2>1. PICK q0 \in Below(k.path) : Taking(c, q0)  BY <1>2, <1>5 DEF Moves, Progress
  <2> DEFINE r0 == Moved(k, q0)
             old == data[source[c]]
  <2>2. /\ r0 \in Paths /\ source[c] \in Files /\ tree[q0] = source[c]
        /\ handle[c] \in Files /\ tree[r0] = handle[c] /\ data[handle[c]] = <<>>
    BY <2>1 DEF Taking
  <2>3. /\ data' = [data EXCEPT ![handle[c]] = Overlaid(<<>>, old)] /\ UNCHANGED todo
        /\ Goto(c, "copy")
    BY <1>5, <2>2 DEF FillCopy
  <2>4. pc'[c] = "copy"  BY <2>3, Ended1 DEF TInv
  <2>5. /\ data \in [Files -> Seq(Lines)] /\ old \in Seq(Lines)
    BY <2>2 DEF TInv, WInv, Typed
  <2>6. Overlaid(<<>>, old) = old
    <3> DEFINE none == SubSeq(<<>>, Len(old) + 1, 0)
    <3> HIDE DEF old
    <3>1. none = <<>>
      <4>1. Len(old) \in Nat  BY <2>5
      <4>2. Len(old) + 1 > 0  BY <4>1
      <4> QED  BY <4>1, <4>2
    <3>2. Overlaid(<<>>, old) = old \o none  BY DEF Overlaid
    <3>3. old \o <<>> = old  BY <2>5
    <3> QED  BY <3>1, <3>2, <3>3, Zenon
  <2>7. data'[handle[c]] = old /\ \A i \in Files : i # handle[c] => data'[i] = data[i]
    BY <2>2, <2>3, <2>5, <2>6
  <2>8. \A r \in Paths : r # r0 => View'[r] = View[r]
    <3>1. ASSUME NEW r \in Paths, r # r0  PROVE  tree[r] \in Files => tree[r] # handle[c]
      BY <2>2, <3>1 DEF TInv, TreeInv, OnePath
    <3> QED  BY <1>2, <2>7, <3>1, SameView
  <2>9. View'[r0] = View[q0] /\ q0 \in Paths
    <3>1. q0 \in Paths  BY <2>1 DEF Below
    <3> QED  BY <1>2, <2>2, <2>7, <3>1 DEF View
  <2>10. \A r \in Below(k.path) : r \in Paths /\ r # r0
    <3>1. ASSUME NEW r \in Below(k.path)  PROVE  r # r0
      <4>1. r \in Paths /\ r \in Seq(STRING) /\ IsPrefix(k.path, r) /\ IsPrefix(r, r)
        BY PathFacts, PrefixOrder DEF Below
      <4>2. ~IsPrefix(k.dest, r)  BY <1>1, <4>1, NotBoth
      <4>3. IsPrefix(k.dest, r0)  BY <1>1, <2>1, MovedIs, Zenon
      <4> QED  BY <4>2, <4>3
    <3> QED  BY <3>1 DEF Below
  <2>11. \A q \in Below(k.path) : Moved(k, q) = r0 => q = q0  BY <1>1, <2>1, MovedIs, Zenon
  <2>12. Intact(k, v)'  BY <1>2, <1>3, <2>8, <2>10 DEF Intact, Below
  <2>13. ASSUME NEW q \in Sources(k, v)  PROVE  Arrived(k, v, q)' \/ Ahead(c, q)'
    <3>1. q \in Below(k.path) /\ View[q0] = v[q0]  BY <1>3, <2>1, MovePlaces DEF Intact
    <3> HIDE DEF r0, old
    <3>2. CASE Arrived(k, v, q)
      <4>1. CASE Moved(k, q) = r0
        BY <1>2, <2>2, <2>9, <2>11, <3>1, <4>1, Zenon DEF Arrived, Moved
      <4>2. CASE Moved(k, q) # r0
        BY <1>2, <2>8, <3>2, <4>2, Zenon DEF Arrived, Moved
      <4> QED  BY <4>1, <4>2
    <3>3. CASE Ahead(c, q)  BY <2>3, <3>3 DEF Ahead
    <3>4. CASE Taking(c, q)
      <4>1. Moved(k, q) \in Paths /\ tree[Moved(k, q)] = tree[r0] /\ tree[r0] \in Files
        BY <2>2, <3>4 DEF Taking
      <4>2. Moved(k, q) = r0  BY <2>2, <4>1 DEF TInv, TreeInv, OnePath
      <4> QED  BY <1>2, <2>2, <2>9, <2>11, <3>1, <4>2, Zenon DEF Arrived, Moved
    <3> QED  BY <1>2, <1>5, <3>2, <3>3, <3>4 DEF Moves, Progress
  <2>14. \A q \in Sources(k, v)' : Arrived(k, v, q)' \/ Ahead(c, q)'
    BY <1>2, <2>13 DEF Sources, Below
  <2>15. \A i \in DOMAIN todo'[c] : todo'[c][i].from \in Below(k.path) /\ todo'[c][i].to = Moved(k, todo'[c][i].from)
    BY <1>2, <2>3 DEF Moves, Progress
  <2> QED  BY <1>2, <2>4, <2>12, <2>14, <2>15, Zenon DEF Progress, Listing, Below, Moved
<1> QED  BY <1>4, <1>5

\* The next entry of a copy, and the entries after it
LEMMA NextEntry ==
    ASSUME TInv, NEW c \in Calls, NEW v, Moves(c, v), pc[c] = "copy", todo[c] # <<>>
    PROVE  /\ Head(todo[c]).from \in Below(call[c].path)
           /\ Head(todo[c]).to = Moved(call[c], Head(todo[c]).from)
           /\ Tail(todo[c]) \in Seq(Entries)
           /\ \A i \in DOMAIN Tail(todo[c]) :
                 /\ Tail(todo[c])[i].from \in Below(call[c].path)
                 /\ Tail(todo[c])[i].to = Moved(call[c], Tail(todo[c])[i].from)
           /\ \A q : Ahead(c, q) => \/ IsPrefix(Head(todo[c]).from, q)
                                    \/ \E i \in DOMAIN Tail(todo[c]) : IsPrefix(Tail(todo[c])[i].from, q)
<1> DEFINE s == todo[c]
           t == Tail(s)
<1>1. s \in Seq(Entries) /\ s # <<>>  BY Lists
<1>2. \A i \in DOMAIN s : s[i].from \in Below(call[c].path) /\ s[i].to = Moved(call[c], s[i].from)
  BY DEF Moves, Progress, Listing
<1>3. \A q : Ahead(c, q) => \E i \in DOMAIN s : IsPrefix(s[i].from, q)  BY DEF Ahead
<1> HIDE DEF s
<1>4. /\ t \in Seq(Entries) /\ DOMAIN t = 1 .. Len(s) - 1 /\ DOMAIN s = 1 .. Len(s)
      /\ Len(s) \in Nat \ {0}
      /\ \A i \in 1 .. Len(s) - 1 : t[i] = s[i + 1]
      /\ Head(s) = s[1]
  BY <1>1
<1> HIDE DEF t
<1>5. 1 \in DOMAIN s /\ \A i \in DOMAIN t : i + 1 \in DOMAIN s /\ t[i] = s[i + 1]  BY <1>4
<1>6. \A i \in DOMAIN s : i = 1 \/ (i - 1 \in DOMAIN t /\ t[i - 1] = s[i])
  <2> SUFFICES ASSUME NEW i \in DOMAIN s, i # 1 PROVE i - 1 \in DOMAIN t /\ t[i - 1] = s[i]  OBVIOUS
  <2>1. i - 1 \in 1 .. Len(s) - 1 /\ (i - 1) + 1 = i  BY <1>4
  <2> QED  BY <1>4, <2>1
<1>7. \A q : Ahead(c, q) => IsPrefix(Head(s).from, q) \/ \E i \in DOMAIN t : IsPrefix(t[i].from, q)
  BY <1>3, <1>4, <1>6
<1> QED  BY <1>2, <1>4, <1>5, <1>7 DEF s, t

\* The file that is truncated for a copy is not one that is still needed
LEMMA CopyFileProgress ==
    ASSUME TInv, NEW c \in Calls, NEW v, Moves(c, v), CopyFile(c)
    PROVE  Progress(c, v)' /\ call' = call
<1> DEFINE k == call[c]
<1>1. k.path \in Paths /\ k.dest \in Paths /\ Apart(k)  BY MovePlaces
<1>2. UNCHANGED call /\ pc[c] = "copy" /\ todo[c] # <<>>  BY DEF CopyFile
<1>3. Intact(k, v)  BY <1>2 DEF Moves, Progress
<1>4. PICK f \in Below(k.path) : f = Head(todo[c]).from  BY <1>2, NextEntry
<1>5. PICK to : to = Head(todo[c]).to /\ to = Moved(k, f)  BY <1>2, <1>4, NextEntry
<1>6. PICK rest : rest = Tail(todo[c])  BY Zenon
<1>7. f \in Paths /\ IsPrefix(k.path, f)  BY DEF Below
<1>8. CASE ~(At(f) # Absent /\ CanOpen(to))
  <2>1. UNCHANGED <<tree, data>> /\ pc'[c] = "done" /\ answer'[c].status # "ok"
    <3>1. UNCHANGED <<tree, data>> /\ Reply(c, Error)
      BY <1>4, <1>5, <1>8, Zenon DEF CopyFile, fileVars
    <3> QED  BY <3>1, Ended1 DEF TInv, Error, Answer
  <2>2. \A r \in Paths : View'[r] = View[r]  BY <2>1, SameView
  <2> QED  BY <1>2, <1>3, <2>1, <2>2, EndsIntact DEF Below
<1>9. CASE At(f) # Absent /\ CanOpen(to)
  <2>1. PICK new : new = Opened(to)  OBVIOUS
  <2>2. /\ OpenFile(to, TRUE) /\ Set(handle, c, new) /\ Set(source, c, At(f))
        /\ Set(todo, c, rest) /\ Goto(c, "fill")
    BY <1>4, <1>5, <1>6, <1>9, <2>1, Zenon DEF CopyFile
  <2>3. to \in Paths  BY <1>9 DEF CanOpen
  <2>4. /\ pc'[c] = "fill" /\ todo'[c] = rest
        /\ handle'[c] = new /\ source'[c] = tree[f]
    <3>1. At(f) = tree[f]  BY <1>7 DEF At
    <3>2. handle'[c] = new  BY <2>2 DEF Set, TInv, WInv, Typed
    <3> QED  BY <2>2, <3>1, <3>2, Ended1, Changed1 DEF TInv
  <2>5. new \in Files /\ \A r \in Paths : r # to /\ tree[r] \in Files => tree[r] # new
    <3>1. new \in Files  BY <2>1, <2>2, <2>3, OpenedFile, Zenon DEF TInv
    <3>2. CASE IsFile(to)
      <4>1. new = tree[to] /\ tree[to] \in Files  BY <2>1, <2>3, <3>2 DEF Opened, IsFile, At
      <4> QED  BY <2>3, <3>1, <4>1 DEF TInv, TreeInv, OnePath
    <3>3. CASE ~IsFile(to)
      <4>1. new = nextFile  BY <2>1, <3>3 DEF Opened
      <4>2. \A r \in Paths : tree[r] \in Files => tree[r] < nextFile /\ tree[r] \in Int
        BY Constants DEF TInv, WInv, Numbered
      <4> QED  BY <3>1, <4>1, <4>2, Constants
    <3> QED  BY <3>2, <3>3
  <2>6. /\ tree'[to] = new /\ data'[new] = <<>>
        /\ \A r \in Paths : r # to => tree'[r] = tree[r]
        /\ \A i \in Files : i # new => data'[i] = data[i]
    <3>1. tree' = [tree EXCEPT ![to] = new] /\ data' = [data EXCEPT ![new] = <<>>]
      BY <2>1, <2>2 DEF OpenFile
    <3> QED  BY <2>3, <2>5, <3>1 DEF TInv, WInv, Typed
  <2>7. \A r \in Paths : r # to => View'[r] = View[r]  BY <2>5, <2>6, SameView
  <2>8. \A r \in Below(k.path) : r \in Paths /\ r # to
    <3>1. ASSUME NEW r \in Below(k.path)  PROVE  r # to
      <4>1. r \in Paths /\ r \in Seq(STRING) /\ IsPrefix(k.path, r) /\ IsPrefix(r, r)
        BY PathFacts, PrefixOrder DEF Below
      <4>2. ~IsPrefix(k.dest, r)  BY <1>1, <4>1, NotBoth
      <4>3. IsPrefix(k.dest, to)  BY <1>1, <1>5, MovedIs, Zenon
      <4> QED  BY <4>2, <4>3
    <3> QED  BY <3>1 DEF Below
  <2>9. Intact(k, v)'  BY <1>2, <1>3, <2>7, <2>8 DEF Intact, Below
  <2>10. source'[c] = Dir \/ Taking(c, f)'
    <3>1. tree[f] # Absent  BY <1>7, <1>9 DEF At
    <3>2. tree[f] \in Files \/ tree[f] = Dir  BY <1>7, <3>1 DEF TInv, WInv, Typed
    <3>3. ASSUME tree[f] \in Files  PROVE  Taking(c, f)'
      <4>1. f # to /\ Moved(call'[c], f) = to  BY <1>2, <1>5, <2>8
      <4>2. source'[c] = tree[f] /\ tree'[f] = tree[f]  BY <1>7, <2>4, <2>6, <4>1
      <4> QED  BY <2>3, <2>4, <2>5, <2>6, <3>3, <4>1, <4>2 DEF Taking, Moved, Files
    <3> QED  BY <2>4, <3>2, <3>3
  <2>11. \A i \in DOMAIN rest : rest[i].from \in Below(k.path) /\ rest[i].to = Moved(k, rest[i].from)
    BY <1>2, <1>6, NextEntry
  <2>12. ASSUME NEW q \in Sources(k, v)
         PROVE  Arrived(k, v, q)' \/ Ahead(c, q)' \/ source'[c] = Dir \/ Taking(c, q)'
    <3>1. q \in Below(k.path) /\ q \in Paths /\ v[q] # <<Absent>>
      BY MovePlaces DEF Below
    <3>2. CASE Arrived(k, v, q)
      <4>1. CASE Moved(k, q) = to
        <5>1. \A r \in Below(k.path) : r # f => Moved(k, r) # Moved(k, f)  BY <1>1, MovedIs, Zenon
        <5>2. q = f  BY <1>5, <3>1, <4>1, <5>1
        <5> QED  BY <2>10, <5>2
      <4>2. CASE Moved(k, q) # to
        BY <1>2, <2>7, <3>2, <4>2, Zenon DEF Arrived, Moved
      <4> QED  BY <4>1, <4>2
    <3>3. CASE IsPrefix(f, q)
      <4>1. CASE q = f  BY <2>10, <4>1
      <4>2. CASE q # f
        <5>1. View[q] = v[q]  BY <1>3, <3>1 DEF Intact
        <5>2. tree[q] # Absent  BY <3>1, <5>1, Constants DEF View
        <5>3. tree[f] = Dir
          BY <1>7, <3>1, <3>3, <4>2, <5>2, Constants DEF TInv, TreeInv, InFolders, IsStrictPrefix
        <5> QED  BY <2>4, <5>3
      <4> QED  BY <4>1, <4>2
    <3>4. CASE \E i \in DOMAIN rest : IsPrefix(rest[i].from, q)
      BY <2>4, <3>4 DEF Ahead
    <3>5. Ahead(c, q) => IsPrefix(f, q) \/ \E i \in DOMAIN rest : IsPrefix(rest[i].from, q)
      BY <1>2, <1>4, <1>6, NextEntry
    <3> QED  BY <1>2, <3>2, <3>3, <3>4, <3>5 DEF Moves, Progress, Listing
  <2>13. \A q \in Sources(k, v)' :
             Arrived(k, v, q)' \/ Ahead(c, q)' \/ source'[c] = Dir \/ Taking(c, q)'
    BY <1>2, <2>12 DEF Sources, Below
  <2>14. \A i \in DOMAIN todo'[c] : todo'[c][i].from \in Below(k.path) /\ todo'[c][i].to = Moved(k, todo'[c][i].from)
    BY <2>4, <2>11
  <2>15. source'[c] = Dir \/ \E q \in Below(k.path) : Taking(c, q)'  BY <2>10
  <2> QED  BY <1>2, <2>4, <2>9, <2>13, <2>14, <2>15, Zenon DEF Progress, Listing, Below, Moved
<1> QED  BY <1>8, <1>9

\* A copied directory is replaced by its entries, and none is left out
LEMMA CopyFolderProgress ==
    ASSUME TInv, NEW c \in Calls, NEW v, Moves(c, v), CopyFolder(c)
    PROVE  Progress(c, v)' /\ call' = call
<1> DEFINE k == call[c]
<1>1. k.path \in Paths /\ k.dest \in Paths /\ Apart(k)  BY MovePlaces
<1>2. UNCHANGED <<call, data>> /\ pc[c] = "copy" /\ todo[c] # <<>>  BY DEF CopyFolder
<1>3. Intact(k, v)  BY <1>2 DEF Moves, Progress
<1>4. PICK f \in Below(k.path) : f = Head(todo[c]).from  BY <1>2, NextEntry
<1>5. PICK to : to = Head(todo[c]).to /\ to = Moved(k, f)  BY <1>2, <1>4, NextEntry
<1>6. PICK rest : rest = Tail(todo[c])  BY Zenon
<1>7. PICK made : made = WithDirs(to)  OBVIOUS
<1>8. PICK children : children = ChildrenIn(made, f)  OBVIOUS
<1>9. f \in Paths /\ IsPrefix(k.path, f)  BY DEF Below
<1> DEFINE child(p) == [from |-> p, to |-> Append(to, p[Len(p)]), dir |-> made[p] = Dir]
           new == [i \in DOMAIN children |-> child(children[i])]
<1>10. /\ tree' = IF At(f) # Absent /\ CanMkdirAll(to) THEN made ELSE tree
       /\ IF IsFolder(f) /\ CanMkdirAll(to)
          THEN Goto(c, "copy") /\ Set(todo, c, new \o rest)
          ELSE Reply(c, Error) /\ Set(todo, c, <<>>)
  BY <1>4, <1>5, <1>6, <1>7, <1>8, Zenon DEF CopyFolder
<1> HIDE DEF new
<1>11. /\ \A r \in Below(k.path) : View'[r] = View[r]
       /\ \A r \in Paths : View[r] # <<Absent>> => View'[r] = View[r]
  <2>1. CASE tree' = tree  BY <1>2, <2>1, SameView DEF Below
  <2>2. CASE tree' # tree
    <3>1. CanMkdirAll(to) /\ tree' = WithDirs(to)  BY <1>7, <1>10, <2>2
    <3>2. IsPrefix(k.dest, to)  BY <1>1, <1>5, MovedIs, Zenon
    <3> QED  BY <1>1, <1>2, <3>1, <3>2, DirsSpare
  <2> QED  BY <2>1, <2>2
<1>12. CASE ~(IsFolder(f) /\ CanMkdirAll(to))
  <2>1. pc'[c] = "done" /\ answer'[c].status # "ok"
    BY <1>10, <1>12, Ended1 DEF TInv, Error, Answer
  <2> QED  BY <1>2, <1>3, <1>11, <2>1, EndsIntact
<1>13. CASE IsFolder(f) /\ CanMkdirAll(to)
  <2>1. pc'[c] = "copy" /\ todo'[c] = new \o rest  BY <1>10, <1>13, Ended1, Changed1, Zenon DEF TInv
  <2>2. tree[f] = Dir /\ to \in Seq(STRING)
    BY <1>1, <1>5, <1>9, <1>13, Constants, MovedIs, Zenon DEF IsFolder, At
  <2>3. /\ children \in Seq(Paths)
        /\ \A i \in DOMAIN children :
              /\ children[i] \in Below(k.path)
              /\ Moved(k, children[i]) = Append(to, children[i][Len(children[i])])
    <3>1. children \in Seq(Paths)
          /\ \A i \in DOMAIN children : IsPrefix(f, children[i]) /\ Len(children[i]) = Len(f) + 1
      BY <1>8, <1>9, ChildrenAre
    <3>2. \A i \in DOMAIN children : children[i] \in Paths  BY <3>1
    <3> QED  BY <1>1, <1>5, <3>1, <3>2, MovedChild, Zenon
  <2>4. /\ new \in Seq(Entries) /\ Len(new) = Len(children)
        /\ \A i \in DOMAIN new : new[i].from = children[i] /\ new[i].to = Moved(k, children[i])
    <3>1. DOMAIN children = 1 .. Len(children) /\ Len(children) \in Nat  BY <2>3
    <3>2. ASSUME NEW p \in Paths  PROVE  child(p) \in Entries
      <4>1. p \in Seq(STRING) /\ Len(p) \in 1 .. Len(p)  BY PathFacts
      <4>2. p[Len(p)] \in STRING  BY <4>1
      <4>3. Append(to, p[Len(p)]) \in Seq(STRING)  BY <2>2, <4>2
      <4> QED  BY <4>3 DEF Entries
    <3>3. \A p : child(p).from = p /\ child(p).to = Append(to, p[Len(p)])  OBVIOUS
    <3>4. \A i \in DOMAIN children : children[i] \in Paths  BY <2>3 DEF Below
    <3> HIDE DEF child
    <3>5. new \in Seq(Entries) /\ Len(new) = Len(children) /\ DOMAIN new = DOMAIN children
      BY <3>1, <3>2, <3>4 DEF new
    <3>6. \A i \in DOMAIN new : new[i] = child(children[i])  BY <3>5 DEF new
    <3> QED  BY <2>3, <3>3, <3>5, <3>6, Zenon
  <2>5. /\ rest \in Seq(Entries)
        /\ \A i \in DOMAIN rest : rest[i].from \in Below(k.path) /\ rest[i].to = Moved(k, rest[i].from)
    BY <1>2, <1>6, NextEntry
  <2> DEFINE all == new \o rest
  <2>6. /\ \A i \in DOMAIN all : \/ i \in DOMAIN new /\ all[i] = new[i]
                                 \/ \E j \in DOMAIN rest : all[i] = rest[j]
        /\ \A i \in DOMAIN new : i \in DOMAIN all /\ all[i] = new[i]
        /\ \A j \in DOMAIN rest : \E i \in DOMAIN all : all[i] = rest[j]
    <3>1. /\ Len(new) \in Nat /\ Len(rest) \in Nat /\ DOMAIN new = 1 .. Len(new) /\ DOMAIN rest = 1 .. Len(rest)
      BY <2>4, <2>5
    <3>2. /\ DOMAIN all = 1 .. Len(new) + Len(rest)
          /\ \A i \in 1 .. Len(new) + Len(rest) :
                all[i] = IF i <= Len(new) THEN new[i] ELSE rest[i - Len(new)]
      <4>1. all \in Seq(Entries) /\ Len(all) = Len(new) + Len(rest)  BY <2>4, <2>5, ConcatProperties, Zenon
      <4>2. DOMAIN all = 1 .. Len(all)  BY <4>1
      <4> QED  BY <2>4, <2>5, <4>1, <4>2, ConcatProperties
    <3> HIDE DEF all
    <3>3. ASSUME NEW i \in DOMAIN all
          PROVE  (i \in DOMAIN new /\ all[i] = new[i]) \/ \E j \in DOMAIN rest : all[i] = rest[j]
      <4>1. CASE i <= Len(new)  BY <3>1, <3>2, <4>1
      <4>2. CASE ~(i <= Len(new))
        <5>1. i - Len(new) \in DOMAIN rest  BY <3>1, <3>2, <4>2
        <5> QED  BY <3>2, <4>2, <5>1
      <4> QED  BY <4>1, <4>2
    <3>4. \A i \in DOMAIN new : i \in DOMAIN all /\ all[i] = new[i]  BY <3>1, <3>2
    <3>5. ASSUME NEW j \in DOMAIN rest  PROVE  \E i \in DOMAIN all : all[i] = rest[j]
      <4>1. /\ Len(new) + j \in 1 .. Len(new) + Len(rest) /\ ~(Len(new) + j <= Len(new))
            /\ (Len(new) + j) - Len(new) = j
        BY <3>1
      <4> QED  BY <3>2, <4>1
    <3> QED  BY <3>3, <3>4, <3>5
  <2> HIDE DEF all
  <2>7. ASSUME NEW i \in DOMAIN all
        PROVE  all[i].from \in Below(k.path) /\ all[i].to = Moved(k, all[i].from)
    <3>1. DOMAIN new = DOMAIN children  BY <2>3, <2>4
    <3>2. CASE i \in DOMAIN new /\ all[i] = new[i]  BY <2>3, <2>4, <3>1, <3>2
    <3>3. CASE \E j \in DOMAIN rest : all[i] = rest[j]  BY <2>5, <3>3
    <3> QED  BY <2>6, <3>2, <3>3
  <2>8. ASSUME NEW q \in Sources(k, v)  PROVE  Arrived(k, v, q)' \/ Ahead(c, q)'
    <3>1. q \in Below(k.path) /\ q \in Paths /\ v[q] # <<Absent>>
      BY MovePlaces DEF Below
    <3>2. CASE Arrived(k, v, q)  BY <1>2, <1>11, <3>1, <3>2 DEF Arrived, Moved
    <3>6. CASE q = f
      <4>1. View[q] = v[q]  BY <1>3, <3>1 DEF Intact
      <4>2. v[q] = <<Dir>>  BY <1>9, <2>2, <3>6, <4>1, Constants DEF View
      <4>3. to \in Paths /\ tree'[to] = Dir
        <5>1. to \in Paths  BY <1>13 DEF CanMkdirAll
        <5>2. IsPrefix(to, to)  BY <2>2, PrefixOrder
        <5>3. tree' = WithDirs(to)  BY <1>7, <1>10, <1>13, <2>2, Constants DEF IsFolder
        <5> QED  BY <5>1, <5>2, <5>3 DEF WithDirs
      <4>4. View'[to] = <<Dir>>  BY <4>3, Constants DEF View, Dir
      <4> QED  BY <1>2, <1>5, <3>6, <4>2, <4>3, <4>4 DEF Arrived, Moved
    <3>3. CASE IsPrefix(f, q) /\ q # f
      <4>1. View[q] = v[q]  BY <1>3, <3>1 DEF Intact
      <4>2. tree[q] # Absent  BY <3>1, <4>1, Constants DEF View
      <4>3. q # f  BY <3>3
      <4>4. PICK r \in Paths : IsPrefix(f, r) /\ Len(r) = Len(f) + 1 /\ IsPrefix(r, q)
        BY <1>9, <3>1, <3>3, <4>3, OnTheWay DEF IsStrictPrefix
      <4>5. tree[r] # Absent
        BY <3>1, <4>2, <4>4, Constants DEF TInv, TreeInv, InFolders, IsStrictPrefix
      <4>6. made[r] # Absent  BY <1>7, <4>5, Constants DEF WithDirs
      <4>7. PICK i \in DOMAIN children : children[i] = r  BY <1>8, <1>9, <4>4, <4>6, ChildrenAll
      <4>8. i \in DOMAIN new  BY <2>3, <2>4
      <4>9. i \in DOMAIN all /\ all[i].from = r  BY <2>4, <2>6, <4>7, <4>8
      <4> QED  BY <2>1, <4>4, <4>9 DEF Ahead, all
    <3>4. CASE \E j \in DOMAIN rest : IsPrefix(rest[j].from, q)
      <4>1. \E i \in DOMAIN all : IsPrefix(all[i].from, q)  BY <2>6, <3>4
      <4> QED  BY <2>1, <4>1 DEF Ahead, all
    <3>5. Ahead(c, q) => IsPrefix(f, q) \/ \E i \in DOMAIN rest : IsPrefix(rest[i].from, q)
      BY <1>2, <1>4, <1>6, NextEntry
    <3> QED  BY <1>2, <3>2, <3>3, <3>4, <3>5, <3>6 DEF Moves, Progress, Listing
  <2>9. \A q \in Sources(k, v)' : Arrived(k, v, q)' \/ Ahead(c, q)'
    BY <1>2, <2>8 DEF Sources, Below
  <2>10. \A i \in DOMAIN todo'[c] : todo'[c][i].from \in Below(k.path) /\ todo'[c][i].to = Moved(k, todo'[c][i].from)
    BY <2>1, <2>7 DEF all
  <2>11. Intact(k, v)'  BY <1>2, <1>3, <1>11 DEF Intact, Below
  <2> QED  BY <1>2, <2>1, <2>9, <2>10, <2>11, Zenon DEF Progress, Listing, Below, Moved
<1> QED  BY <1>12, <1>13

-----------------------------------------------------------------------------
(***************************************************************************)
(* The steps of a call that is alone, and everybody else's.                *)
(***************************************************************************)

\* Whatever a copy or a move does next, it makes progress
LEMMA MoveSteps ==
    ASSUME TInv, NEW c \in Calls, NEW v, Moves(c, v), Step(c)
    PROVE  Progress(c, v)' /\ call' = call
<1>1. call[c].tool \in {"copy", "move"} /\ pc[c] \in {"parents", "rename", "restat", "copy", "fill", "removeall"}
  BY MovePlaces DEF Moves
<1>2. \/ MakeParents(c) \/ Rename(c) \/ Restat(c) \/ CopyFolder(c) \/ CopyFile(c)
      \/ FillCopy(c) \/ DiskFull(c) \/ CopyEnds(c)
      \/ RemoveNext(c) \/ RemovedAll(c) \/ RemoveBlocked(c)
  <2>1. /\ ~Refuse(c) /\ ~WriteFile(c) /\ ~CheckAbsent(c) /\ ~PatchFile(c)
        /\ ~OpenToWrite(c) /\ ~Write(c)
    BY <1>1, Zenon DEF Refuse, WriteFile, CheckAbsent, PatchFile, OpenToWrite, Write, Begin
  <2>2. /\ ~RemoveFile(c) /\ ~Unlink(c) /\ ~CreateFolder(c) /\ ~MakeFolder(c) /\ ~RemoveFolder(c)
        /\ ~StatFile(c) /\ ~ListFolder(c) /\ ~ReadFolder(c)
    BY <1>1 DEF RemoveFile, Unlink, CreateFolder, MakeFolder, RemoveFolder, StatFile, ListFolder,
                ReadFolder, Begin
  <2>3. /\ ~ReadFile(c) /\ ~HashFile(c) /\ ~OpenToRead(c) /\ ~ReadOpened(c) /\ ~Copy(c) /\ ~Move(c)
        /\ ~Search(c) /\ ~GrepVisit(c) /\ ~GlobVisit(c) /\ ~WalkEnds(c) /\ ~Deadline(c)
    BY <1>1, Zenon DEF ReadFile, HashFile, OpenToRead, ReadOpened, Copy, Move, Search, GrepVisit,
                GlobVisit, WalkEnds, Deadline, Begin
  <2> QED  BY <2>1, <2>2, <2>3 DEF Step
<1> QED
  BY <1>2, ParentsProgress, RenameProgress, RestatProgress, CopyFolderProgress, CopyFileProgress,
     FillProgress, FullProgress, CopyEndsProgress, RemoveProgress

\* The steps that begin a call, and those that go on with one
Opening(c) ==
    \/ Refuse(c) \/ WriteFile(c) \/ PatchFile(c) \/ RemoveFile(c) \/ CreateFolder(c)
    \/ RemoveFolder(c) \/ StatFile(c) \/ ListFolder(c) \/ ReadFile(c) \/ HashFile(c)
    \/ Copy(c) \/ Move(c) \/ Search(c)

GoingOn(c) ==
    \/ CheckAbsent(c) \/ MakeParents(c) \/ OpenToWrite(c) \/ Write(c) \/ DiskFull(c)
    \/ Unlink(c) \/ MakeFolder(c) \/ RemoveNext(c) \/ RemovedAll(c) \/ RemoveBlocked(c)
    \/ ReadFolder(c) \/ OpenToRead(c) \/ ReadOpened(c) \/ Rename(c) \/ Restat(c)
    \/ CopyFolder(c) \/ CopyFile(c) \/ FillCopy(c) \/ CopyEnds(c)
    \/ GrepVisit(c) \/ GlobVisit(c) \/ WalkEnds(c) \/ Deadline(c)

\* A call that has begun goes on with the parameters it has
LEMMA OpeningFirst ==
    ASSUME NEW c \in Calls
    PROVE  /\ Step(c) => Opening(c) \/ GoingOn(c)
           /\ Opening(c) => pc[c] = "idle"
           /\ GoingOn(c) => pc[c] \notin {"idle", "done"} /\ call' = call
<1>1. Step(c) => Opening(c) \/ GoingOn(c)  BY DEF Step, Opening, GoingOn
<1>2. Opening(c) => pc[c] = "idle"
  BY Zenon DEF Opening, Refuse, WriteFile, PatchFile, RemoveFile, CreateFolder, RemoveFolder, StatFile,
         ListFolder, ReadFile, HashFile, Copy, Move, Search, Begin
<1>3. GoingOn(c) => pc[c] \notin {"idle", "done"}
  <2>1. CheckAbsent(c) \/ MakeParents(c) \/ OpenToWrite(c) \/ Write(c) \/ DiskFull(c)
            \/ Unlink(c) \/ MakeFolder(c) \/ RemoveNext(c) \/ RemovedAll(c) \/ RemoveBlocked(c)
            \/ ReadFolder(c) \/ OpenToRead(c)
        => pc[c] \notin {"idle", "done"}
    BY DEF CheckAbsent, MakeParents, OpenToWrite, Write, DiskFull, Unlink, MakeFolder, RemoveNext,
           RemovedAll, RemoveBlocked, ReadFolder, OpenToRead
  <2>2. ReadOpened(c) \/ Rename(c) \/ Restat(c) \/ CopyFolder(c) \/ CopyFile(c) \/ FillCopy(c)
            \/ CopyEnds(c) \/ GrepVisit(c) \/ GlobVisit(c) \/ WalkEnds(c) \/ Deadline(c)
        => pc[c] \notin {"idle", "done"}
    BY Zenon DEF ReadOpened, Rename, Restat, CopyFolder, CopyFile, FillCopy, CopyEnds, GrepVisit, GlobVisit,
           WalkEnds, Deadline
  <2> QED  BY <2>1, <2>2 DEF GoingOn
<1>4. GoingOn(c) => call' = call
  <2>1. CheckAbsent(c) \/ MakeParents(c) \/ OpenToWrite(c) \/ Write(c) \/ DiskFull(c)
            \/ Unlink(c) \/ MakeFolder(c) \/ RemoveNext(c) \/ RemovedAll(c) \/ RemoveBlocked(c)
            \/ ReadFolder(c) \/ OpenToRead(c)
        => call' = call
    BY DEF CheckAbsent, MakeParents, OpenToWrite, Write, DiskFull, Unlink, MakeFolder, RemoveNext,
           RemovedAll, RemoveBlocked, ReadFolder, OpenToRead, callVars
  <2>2. ReadOpened(c) \/ Rename(c) \/ Restat(c) \/ CopyFolder(c) \/ CopyFile(c) \/ FillCopy(c)
            \/ CopyEnds(c) \/ GrepVisit(c) \/ GlobVisit(c) \/ WalkEnds(c) \/ Deadline(c)
        => call' = call
    BY Zenon DEF ReadOpened, Rename, Restat, CopyFolder, CopyFile, FillCopy, CopyEnds, GrepVisit, GlobVisit,
           WalkEnds, Deadline
  <2> QED  BY <2>1, <2>2 DEF GoingOn
<1> QED  BY <1>1, <1>2, <1>3, <1>4

\* Only a call that is not done has a step, and then it has begun
LEMMA StepBegins ==
    ASSUME TInv, NEW c \in Calls, Step(c)
    PROVE  pc[c] # "done" /\ pc'[c] # "idle"
<1>0. WInv  BY DEF TInv
<1>1. Opening(c) \/ GoingOn(c)  BY OpeningFirst
<1>2. pc[c] # "done"  BY <1>1, OpeningFirst
<1>3. /\ \A x : Goto(c, x) => pc'[c] = x
      /\ \A a : Reply(c, a) => pc'[c] = "done"
  BY <1>0, Ended1
<1>4. CASE Opening(c)
  <2>1. Refuse(c) \/ PatchFile(c) \/ RemoveFile(c) \/ CreateFolder(c) \/ RemoveFolder(c) => pc'[c] # "idle"
    BY <1>3 DEF Refuse, PatchFile, RemoveFile, CreateFolder, RemoveFolder, Begin, GotoIf
  <2>2. WriteFile(c) => pc'[c] # "idle"
    <3> SUFFICES ASSUME WriteFile(c) PROVE pc'[c] # "idle"  OBVIOUS
    <3>1. Goto(c, "stat") \/ Goto(c, "open") \/ Reply(c, Error)  BY <1>3 DEF WriteFile, GotoIf
    <3> QED  BY <1>3, <3>1
  <2>3. StatFile(c) \/ ListFolder(c) \/ ReadFile(c) \/ HashFile(c) => pc'[c] # "idle"
    BY <1>3 DEF StatFile, ListFolder, ReadFile, HashFile, GotoIf
  <2>4. Copy(c) \/ Move(c) \/ Search(c) => pc'[c] # "idle"
    BY <1>3, Zenon DEF Copy, Move, Search, GotoIf
  <2> QED  BY <1>2, <1>4, <2>1, <2>2, <2>3, <2>4 DEF Opening
<1>5. CASE GoingOn(c)
  <2>1. UNCHANGED pc => pc'[c] # "idle"  BY <1>5, OpeningFirst
  <2>2. CheckAbsent(c) \/ OpenToWrite(c) \/ Write(c) \/ DiskFull(c) \/ Unlink(c) \/ MakeFolder(c)
            \/ RemovedAll(c) \/ RemoveBlocked(c) \/ ReadFolder(c) \/ OpenToRead(c) \/ ReadOpened(c) => pc'[c] # "idle"
    BY <1>3 DEF CheckAbsent, OpenToWrite, Write, DiskFull, Unlink, MakeFolder, RemovedAll, RemoveBlocked,
           ReadFolder, OpenToRead, ReadOpened, GotoIf
  <2>3. MakeParents(c) => pc'[c] # "idle"
    <3> SUFFICES ASSUME MakeParents(c) PROVE pc'[c] # "idle"  OBVIOUS
    <3>1. call[c].tool \in {"patch_file", "copy", "move"}  BY <1>0, Here, ToolTable DEF MakeParents
    <3>2. Goto(c, "open") \/ Goto(c, "copy") \/ Goto(c, "rename") \/ Reply(c, Error)
      BY <3>1 DEF MakeParents, GotoIf
    <3> QED  BY <1>3, <3>2
  <2>4. Rename(c) \/ Restat(c) \/ CopyFolder(c) \/ CopyFile(c) \/ FillCopy(c) \/ CopyEnds(c) => pc'[c] # "idle"
    BY <1>3, Zenon DEF Rename, Restat, CopyFolder, CopyFile, FillCopy, CopyEnds, GotoIf
  <2>5. RemoveNext(c) => UNCHANGED pc  BY <1>3 DEF RemoveNext, callVars
  <2>6. GrepVisit(c) \/ GlobVisit(c) \/ WalkEnds(c) \/ Deadline(c) => pc'[c] # "idle" \/ UNCHANGED pc
    BY <1>3, Zenon DEF GrepVisit, GlobVisit, WalkEnds, Deadline
  <2> QED  BY <1>2, <1>5, <2>1, <2>2, <2>3, <2>4, <2>5, <2>6 DEF GoingOn
<1> QED  BY <1>1, <1>2, <1>4, <1>5

\* What a call may do first: it touches no file, and a copy or a move touches nothing
\* and makes the parents of the destination next
LEMMA FirstStep ==
    ASSUME TInv, NEW c \in Calls, Step(c), pc[c] = "idle"
    PROVE  /\ data' = data
           /\ \/ tree' = tree
              \/ \E p \in Paths : CanMkdirAll(p) /\ tree' = WithDirs(p)
           /\ call'[c].tool \in {"copy", "move"} =>
                 /\ tree' = tree
                 /\ pc'[c] = "parents" \/ (pc'[c] = "done" /\ answer'[c].status # "ok")
                 /\ pc'[c] = "parents" /\ call'[c].tool = "copy" =>
                       \E x : x.from = call'[c].path /\ x.to = call'[c].dest /\ todo'[c] = <<x>>
<1>0. WInv  BY DEF TInv
<1>1. Opening(c)  BY OpeningFirst
<1>2. data' = data
  BY <1>1, Zenon DEF Opening, Refuse, WriteFile, PatchFile, RemoveFile, CreateFolder, RemoveFolder, StatFile,
         ListFolder, ReadFile, HashFile, Copy, Move, Search, fileVars
<1>3. CASE WriteFile(c)
  <2>1. PICK p \in Paths, mode \in Modes :
            /\ Begin(c, "write_file", p, p, [mode |-> mode])
            /\ tree' = IF CanMakeParents(p) THEN WithParents(p) ELSE tree
    BY <1>3 DEF WriteFile
  <2>2. call'[c].tool = "write_file"
    <3>1. call'[c] = Call("write_file", p, p, [mode |-> mode])  BY <1>0, <2>1, Changed1 DEF Begin
    <3> QED  BY <3>1 DEF Call
  <2>3. tree' = tree \/ (CanMkdirAll(Front(p)) /\ tree' = WithDirs(Front(p)))
    BY <2>1 DEF CanMakeParents, WithParents
  <2>4. CanMkdirAll(Front(p)) => Front(p) \in Paths  BY DEF CanMkdirAll
  <2> QED  BY <1>2, <2>2, <2>3, <2>4
<1>4. CASE ~WriteFile(c)
  <2>1. tree' = tree
    BY <1>1, <1>4, Zenon DEF Opening, Refuse, PatchFile, RemoveFile, CreateFolder, RemoveFolder, StatFile,
           ListFolder, ReadFile, HashFile, Copy, Move, Search, fileVars
  <2>2. Move(c) \/ Refuse(c) \/ Copy(c) =>
           pc'[c] = "parents" \/ (pc'[c] = "done" /\ answer'[c].status # "ok")
    <3>1. Move(c) \/ Refuse(c) \/ Copy(c) => Goto(c, "parents") \/ Reply(c, Error)
      BY DEF Move, Refuse, Copy, GotoIf
    <3>2. Error.status # "ok"  BY DEF Error, Answer
    <3> QED  BY <1>0, <3>1, <3>2, Ended1
  <2>4. Move(c) => call'[c].tool = "move"  BY <1>0, Changed1 DEF Move, Begin, Call
  <2>5. Refuse(c) => pc'[c] = "done"  BY <1>0, Ended1 DEF Refuse
  <2>6. ASSUME Copy(c), pc'[c] = "parents"
        PROVE  \E x : x.from = call'[c].path /\ x.to = call'[c].dest /\ todo'[c] = <<x>>
    <3>1. PICK p, q \in Paths :
            /\ Begin(c, "copy", p, q, NoOpt)
            /\ GotoIf(At(p) # Absent, c, "parents")
            /\ Set(todo, c, IF At(p) # Absent THEN <<Entry(p, q)>> ELSE <<>>)
      BY <2>6 DEF Copy
    <3>2. At(p) # Absent  BY <1>0, <2>6, <3>1, Ended1 DEF GotoIf
    <3>3. Set(todo, c, <<Entry(p, q)>>)  BY <3>1, <3>2
    <3>4. todo'[c] = <<Entry(p, q)>>  BY <1>0, <3>3, Changed1
    <3>5. call'[c] = Call("copy", p, q, NoOpt)  BY <1>0, <3>1, Changed1 DEF Begin
    <3>6. call'[c].path = p /\ call'[c].dest = q  BY <3>5 DEF Call
    <3>7. Entry(p, q).from = p /\ Entry(p, q).to = q  BY DEF Entry
    <3> QED  BY <3>4, <3>6, <3>7
  <2>3. ASSUME ~Move(c), ~Refuse(c), ~Copy(c)  PROVE  call'[c].tool \notin {"copy", "move"}
    <3>1. \A tool, p, q, opt : Set(call, c, Call(tool, p, q, opt)) => call'[c].tool = tool
      BY <1>0, Changed1 DEF Call
    <3> DEFINE tooled(tool) == call'[c].tool = tool
    <3>2. PatchFile(c) => tooled("patch_file")  BY <3>1 DEF PatchFile, Begin
    <3>3. RemoveFile(c) => tooled("remove_file")  BY <3>1 DEF RemoveFile, Begin
    <3>4. CreateFolder(c) => tooled("create_folder")  BY <3>1 DEF CreateFolder, Begin
    <3>5. RemoveFolder(c) => tooled("remove_folder")  BY <3>1 DEF RemoveFolder, Begin
    <3>6. StatFile(c) => tooled("stat_file") \/ tooled("permissions_file")  BY <3>1 DEF StatFile, Begin
    <3>7. ListFolder(c) => tooled("list_folder")  BY <3>1 DEF ListFolder, Begin
    <3>8. ReadFile(c) => tooled("read_file")  BY <3>1 DEF ReadFile, Begin
    <3>9. HashFile(c) => tooled("hash_file")  BY <3>1 DEF HashFile, Begin
    <3>11. Search(c) => tooled("grep") \/ tooled("glob")  BY <3>1 DEF Search, Begin
    <3> QED
      BY <1>1, <1>4, <2>3, <3>2, <3>3, <3>4, <3>5, <3>6, <3>7, <3>8, <3>9, <3>11 DEF Opening
  <2> QED  BY <1>2, <2>1, <2>2, <2>3, <2>4, <2>5, <2>6
<1> QED  BY <1>3, <1>4

\* While a call is alone, another's step is the first of that call
LEMMA SoloSteps ==
    ASSUME TInv, AloneInv, NEW c \in Calls, NEW e \in Calls, Step(e), Solo(c)
    PROVE  /\ pc[c] # "done"
           /\ \A d \in Calls \ {c} : ~Running(d)
           /\ e # c => pc[e] = "idle" /\ Begins(e)
<1>1. pc[e] # "done" /\ pc'[e] # "idle"  BY StepBegins
<1>2. CASE pc[c] = "idle"
  <2>1. \A d \in Calls \ {c} : ~Running(d)  BY <1>2 DEF Solo, SoloView
  <2> QED  BY <1>1, <1>2, <2>1 DEF Running, Begins
<1>3. CASE pc[c] # "idle"
  <2>1. Running(c) /\ \A d \in Calls \ {c} : ~Running(d)  BY <1>3 DEF Solo, SoloView, AloneInv
  <2> QED  BY <1>1, <2>1 DEF Running, Begins
<1> QED  BY <1>2, <1>3

\* The first step of a copy or a move that is alone, and every later one
LEMMA SoloMove ==
    ASSUME MInv, NEW c \in Calls, Step(c), Solo(c), NEW v, v = SoloView(c),
           call'[c].tool \in {"copy", "move"}, Apart(call'[c]), [Next]_vars
    PROVE  Progress(c, v)'
<1>1. TInv /\ AloneInv /\ MoveInv /\ TInv'  BY NextTInv DEF MInv
<1>2. CASE pc[c] = "idle"
  <2>1. /\ UNCHANGED <<tree, data>>
        /\ pc'[c] = "parents" \/ (pc'[c] = "done" /\ answer'[c].status # "ok")
    BY <1>1, <1>2, FirstStep
  <2>2. \A r \in Paths : View'[r] = View[r]  BY <2>1, SameView
  <2>3. v = View  BY <1>2 DEF Solo, SoloView
  <2>4. \A r \in Paths : View'[r] = v[r]  BY <2>2, <2>3
  <2>5. Intact(call[c], v)'  BY <2>4 DEF Intact, Below
  <2>6. \A q \in Sources(call[c], v)' : View'[q] = v[q]  BY <2>4 DEF Sources, Below
  <2>7. ASSUME Listing(c)'
        PROVE  /\ \A i \in DOMAIN todo'[c] : /\ todo'[c][i].from \in Below(call'[c].path)
                                              /\ todo'[c][i].to = Moved(call'[c], todo'[c][i].from)
               /\ \A q \in Sources(call[c], v)' : Ahead(c, q)'
    <3>1. PICK k : k = call'[c]  OBVIOUS
    <3>2. PICK x : x.from = k.path /\ x.to = k.dest /\ todo'[c] = <<x>>
      BY <1>1, <1>2, <2>1, <2>7, <3>1, FirstStep DEF Listing
    <3>3. k.path \in Paths /\ k.dest \in Paths  BY <1>1, <2>1, <3>1, Zenon DEF TInv, CallInv
    <3>4. k.path \in Below(k.path)  BY <3>3, PathFacts, PrefixOrder DEF Below
    <3>5. Moved(k, k.path) = k.dest  BY <3>3, <3>4, MovedIs, Zenon
    <3>6. DOMAIN todo'[c] = {1} /\ todo'[c][1] = x  BY <3>2
    <3>7. \A q \in Sources(call[c], v)' : IsPrefix(k.path, q)  BY <3>1 DEF Sources, Below
    <3> QED  BY <3>1, <3>2, <3>4, <3>5, <3>6, <3>7 DEF Ahead
  <2> QED  BY <2>1, <2>5, <2>6, <2>7 DEF Progress, Listing, Below, Moved
<1>3. CASE pc[c] # "idle"
  <2>1. pc[c] # "done" /\ v = before[c] /\ v # <<>>  BY <1>1, <1>3, SoloSteps DEF Solo, SoloView
  <2>2. call' = call  BY <1>3, OpeningFirst
  <2>3. Progress(c, v)  BY <1>1, <2>1, <2>2 DEF MoveInv
  <2>4. Moves(c, v)  BY <1>3, <2>1, <2>2, <2>3 DEF Moves
  <2> QED  BY <1>1, <2>4, MoveSteps
<1> QED  BY <1>2, <1>3

\* The first state satisfies the invariant
LEMMA InitMInv == Init => MInv
BY InitTInv DEF Init, MInv, AloneInv, MoveInv

\* Every step keeps the invariant
LEMMA NextMInv == MInv /\ [Next]_vars => MInv'
<1> SUFFICES ASSUME MInv, [Next]_vars  PROVE MInv'  OBVIOUS
<1>1. TInv /\ AloneInv /\ MoveInv /\ TInv'  BY NextTInv DEF MInv
<1>2. CASE Next
  <2>1. PICK e \in Calls : Step(e)  BY <1>2 DEF Next
  <2>2. Others(e)  BY <1>1, <2>1, StepKinds DEF Quiet, Opens, Fills, TInv
  <2>3. ASSUME NEW c \in Calls, before'[c] # <<>>
        PROVE  /\ pc'[c] \notin {"idle", "done"} /\ before'[c] = SoloView(c) /\ Solo(c)
               /\ e = c
    <3>1. /\ pc'[c] \notin {"idle", "done"} /\ ~\E d \in Calls \ {c} : Begins(d)
          /\ before'[c] = SoloView(c)
      BY <1>2, <2>3 DEF Next, RecordHistory
    <3>2. Solo(c)  BY <2>3, <3>1 DEF Solo
    <3>3. e = c  BY <1>1, <2>1, <3>1, <3>2, SoloSteps
    <3> QED  BY <3>1, <3>2, <3>3
  <2>4. AloneInv'
    <3>1. ASSUME NEW c \in Calls, before'[c] # <<>>
          PROVE  Running(c)' /\ \A d \in Calls \ {c} : ~Running(d)'
      <4>1. pc'[c] \notin {"idle", "done"} /\ Solo(c) /\ e = c  BY <2>3, <3>1
      <4>2. \A d \in Calls \ {c} : ~Running(d) /\ pc'[d] = pc[d]
        BY <1>1, <2>1, <2>2, <4>1, SoloSteps DEF Others
      <4> QED  BY <4>1, <4>2 DEF Running
    <3> QED  BY <3>1 DEF AloneInv
  <2>5. MoveInv'
    <3>1. ASSUME NEW c \in Calls, before'[c] # <<>>, call'[c].tool \in {"copy", "move"}, Apart(call'[c])
          PROVE  Progress(c, before[c])'
      <4>1. PICK v : v = before'[c]  OBVIOUS
      <4>2. Solo(c) /\ v = SoloView(c) /\ e = c  BY <2>3, <3>1, <4>1
      <4>3. Progress(c, v)'  BY <2>1, <3>1, <4>1, <4>2, SoloMove
      <4> QED  BY <4>1, <4>3
    <3> QED  BY <3>1 DEF MoveInv
  <2> QED  BY <1>1, <2>4, <2>5 DEF MInv
<1>3. CASE UNCHANGED vars
  <2>1. UNCHANGED <<tree, data, pc, call, handle, source, todo, answer, before>>
    BY <1>3 DEF vars, fileVars, callVars, historyVars
  <2>2. AloneInv'  BY <1>1, <2>1 DEF AloneInv, Running
  <2>3. MoveInv'
    <3>1. ASSUME NEW c \in Calls, before'[c] # <<>>, call'[c].tool \in {"copy", "move"}, Apart(call'[c])
          PROVE  Progress(c, before[c])'
      <4>1. PICK v : v = before[c]  OBVIOUS
      <4>2. Progress(c, v)  BY <1>1, <2>1, <3>1, <4>1 DEF MoveInv
      <4>3. View' = View  BY <2>1 DEF View
      <4>4. /\ Intact(call[c], v)' <=> Intact(call[c], v)
            /\ Sources(call[c], v)' = Sources(call[c], v) /\ (Listing(c)' <=> Listing(c))
            /\ \A q : (Arrived(call[c], v, q)' <=> Arrived(call[c], v, q))
            /\ \A q : (Ahead(c, q)' <=> Ahead(c, q)) /\ (Taking(c, q)' <=> Taking(c, q))
        BY <2>1, <4>3 DEF Intact, Sources, Arrived, Ahead, Taking, Listing, Below, Moved
      <4>5. Progress(c, v)'
        BY <2>1, <4>2, <4>3, <4>4 DEF Progress, Below, Moved
      <4> QED  BY <2>1, <4>1, <4>5
    <3> QED  BY <3>1 DEF MoveInv
  <2> QED  BY <1>1, <2>2, <2>3 DEF MInv
<1> QED  BY <1>2, <1>3

\* Another call that begins replaces no text
LEMMA TextsStay ==
    ASSUME TInv, NEW e \in Calls, Step(e), pc[e] = "idle",
           NEW r \in Paths, View[r] \notin {<<Absent>>, <<Dir>>}
    PROVE  View'[r] = View[r]
<1>1. tree[r] \in Files  BY TextIsFile
<1>2. data' = data /\ (tree' = tree \/ \E p \in Paths : CanMkdirAll(p) /\ tree' = WithDirs(p))
  BY FirstStep
<1>3. CASE tree' = tree  BY <1>2, <1>3, SameView
<1>4. CASE \E p \in Paths : CanMkdirAll(p) /\ tree' = WithDirs(p)
  <2>1. PICK p \in Paths : CanMkdirAll(p) /\ tree' = WithDirs(p)  BY <1>4
  <2>2. ~IsPrefix(r, p)  BY <1>1, <2>1, Constants DEF CanMkdirAll
  <2>3. tree'[r] = tree[r]  BY <2>1, <2>2 DEF WithDirs
  <2> QED  BY <1>2, <2>3, SameView
<1> QED  BY <1>2, <1>3, <1>4

\* Wherever a move stops that no other call interferes with, no text is lost: each
\* file of the source is where it was or, complete, where the move puts it.  Until the
\* copy has come to its end the source is intact, so a copy that fails has lost
\* nothing; every file has then been copied, since os.ReadDir leaves no entry out and
\* a file that is truncated or removed is never one that is still needed.
THEOREM MovesKeepFiles == Spec => MoveKeepsFiles
<1>1. Init => MInv  BY InitMInv
<1>2. MInv /\ [Next]_vars => MInv'  BY NextMInv
<1>3. ASSUME MInv, Next, NEW c \in Calls, pc[c] # "done", call'[c].tool = "move", Solo(c),
             Apart(call'[c]), NEW q \in Paths, IsPrefix(call'[c].path, q),
             SoloView(c)[q] \notin {<<Absent>>, <<Dir>>}
      PROVE  \E r \in {q, Moved(call'[c], q)} \cap Paths : View'[r] = SoloView(c)[q]
  <2>1. TInv /\ AloneInv /\ MoveInv /\ TInv'  BY <1>2, <1>3 DEF MInv
  <2>2. PICK e \in Calls : Step(e)  BY <1>3 DEF Next
  <2>3. PICK v : v = SoloView(c)  OBVIOUS
  <2>4. v # <<>> /\ v[q] \notin {<<Absent>>, <<Dir>>}  BY <1>3, <2>3 DEF Solo
  <2>5. CASE e = c
    <3>1. Progress(c, v)'  BY <1>3, <2>2, <2>3, <2>5, SoloMove
    <3>2. q \in Below(call'[c].path) /\ q \in Sources(call[c], v)'  BY <1>3, <2>4 DEF Below, Sources
    <3>3. pc'[c] \in {"parents", "rename", "restat", "copy", "fill", "removeall", "done"}
      <4>1. pc'[c] \in PCs /\ (pc'[c] # "done" => "move" \in ToolsAt(pc'[c]))
        BY <1>3, <2>1 DEF TInv, WInv, Typed, Doing
      <4> QED  BY <4>1, ToolTable DEF PCs
    <3>4. Intact(call[c], v)' => View'[q] = v[q]  BY <3>2 DEF Intact
    <3>5. Arrived(call[c], v, q)' =>
            Moved(call'[c], q) \in Paths /\ View'[Moved(call'[c], q)] = v[q]
      BY DEF Arrived, Moved
    <3>6. View'[q] = v[q] \/ Arrived(call[c], v, q)'  BY <3>1, <3>2, <3>3, <3>4 DEF Progress
    <3> QED  BY <1>3, <2>3, <3>5, <3>6
  <2>6. CASE e # c
    <3>1. pc[e] = "idle"  BY <1>3, <2>1, <2>2, <2>6, SoloSteps
    <3>2. Others(e)  BY <2>1, <2>2, StepKinds DEF Quiet, Opens, Fills, TInv
    <3>3. call'[c] = call[c]  BY <2>6, <3>2 DEF Others
    <3>4. pc[c] # "idle"  BY <1>3, <2>1, <3>3, Here, ToolTable DEF TInv
    <3>5. v = before[c]  BY <2>3, <3>4 DEF SoloView
    <3>6. Progress(c, v)  BY <1>3, <2>1, <2>4, <3>3, <3>5 DEF MoveInv
    <3>7. q \in Below(call[c].path) /\ q \in Sources(call[c], v)
      BY <1>3, <2>4, <3>3 DEF Below, Sources
    <3>8. pc[c] \in {"parents", "rename", "restat", "copy", "fill", "removeall"}
      BY <1>3, <2>1, <3>3, <3>4, Here, ToolTable DEF TInv, PCs
    <3>9. View[q] = v[q] \/ Arrived(call[c], v, q)  BY <3>6, <3>7, <3>8 DEF Progress, Intact
    <3>10. PICK r \in {q, Moved(call[c], q)} \cap Paths : View[r] = v[q]
      BY <1>3, <3>9 DEF Arrived
    <3>11. View'[r] = View[r]  BY <2>1, <2>2, <2>4, <3>1, <3>10, TextsStay
    <3> QED  BY <2>3, <3>3, <3>10, <3>11
  <2> QED  BY <2>5, <2>6
<1>4. MInv /\ [Next]_vars =>
        [\A c \in Calls :
          (pc[c] # "done" /\ call'[c].tool = "move" /\ Solo(c) /\ Apart(call'[c])) =>
             \A q \in Paths :
                (IsPrefix(call'[c].path, q) /\ SoloView(c)[q] \notin {<<Absent>>, <<Dir>>}) =>
                   \E r \in {q, Moved(call'[c], q)} \cap Paths : View'[r] = SoloView(c)[q]]_vars
  BY <1>3
<1> QED  BY <1>1, <1>2, <1>4, PTL DEF Spec, MoveKeepsFiles

-----------------------------------------------------------------------------
(***************************************************************************)
(* What a search finds while other calls change the tree.                  *)
(***************************************************************************)

\* The folders on the way to q are not too deep for the search k
Near(k, q) == k.opt.depth >= 0 => Len(Rest(k.path, q)) <= k.opt.depth + 2

\* The pattern of a glob, as Expected has it
Fits(o, rel) ==
    IF o.deep
    THEN \E n \in 0 .. Len(rel) :
            \E mid \in {SubSeq(rel, Len(o.prefix) + 1, n)} :
               /\ rel = o.prefix \o mid \o SubSeq(rel, n + 1, Len(rel))
               /\ Len(rel) - n = Len(o.last)
               /\ \A i \in 1 .. Len(rel) - n : rel[n + i] \in o.last[i]
    ELSE rel[Len(rel)] \in o.last[1]

\* m is the path and the number of a line for grep to find
GrepMatch(k, m) ==
    /\ m \in Paths \X Nat
    /\ IsPrefix(k.path, m[1]) /\ Near(k, m[1])
    /\ tree[m[1]] \in Files
    /\ LET lines == data[tree[m[1]]] IN
       Zero \notin Range(lines) /\ m[2] \in DOMAIN lines /\ lines[m[2]] \in Wanted

\* m is a path for glob to find
GlobMatch(k, m) ==
    /\ m \in (Below(k.path) \ {k.path}) \X {0}
    /\ Near(k, m[1])
    /\ tree[m[1]] # Absent
    /\ k.opt.type = "all" \/ (k.opt.type = "file") = (tree[m[1]] \in Files)
    /\ tree[m[1]] \in Files \/ k.opt.depth < 0 \/ Len(Rest(k.path, m[1])) <= k.opt.depth + 1
    /\ Fits(k.opt, Rest(k.path, m[1]))

\* m is there for the search k to find
IsMatch(k, m) == IF k.tool = "grep" THEN GrepMatch(k, m) ELSE GlobMatch(k, m)

\* The parameters of a search
Searching(k) ==
    \/ k.tool = "grep" /\ k.opt \in Searches
    \/ k.tool = "glob" /\ k.opt \in Globs

\* A search that visits e comes to q
OnWay(e, q) == IsPrefix(e.from, q) /\ (e.dir <=> (e.from # q \/ tree[q] = Dir))

\* What a search has found, and its answer while it goes on
Matches == Paths \X Nat
SearchAnswers == [status : {"none"}, value : Seq(Matches), truncated : BOOLEAN, timedOut : BOOLEAN]

\* What is due has been found, or the search is going to come to it
DueIsAhead(c) == \A m \in due[c] :
    /\ IsMatch(call[c], m)
    /\ \/ m \in Range(answer[c].value)
       \/ \E i \in DOMAIN todo[c] : OnWay(todo[c][i], m[1])

\* How far each search has come
SearchAt(c) ==
    /\ pc[c] = "idle" => answer[c] = NoAnswer
    /\ pc[c] = "walk" => Searching(call[c]) /\ answer[c] \in SearchAnswers /\ DueIsAhead(c)

SearchInv == \A c \in Calls : SearchAt(c)

SInv == TInv /\ SearchInv

\* The view of a tree t with the lines d
ViewIn(t, d) == [p \in Paths |-> IF t[p] \in Files THEN d[t[p]] ELSE <<t[p]>>]

\* A view tells files, directories and nothing apart
LEMMA ViewOf ==
    ASSUME NEW t \in [Paths -> Files \cup {Absent, Dir}], NEW d \in [Files -> Seq(Lines)],
           NEW q \in Paths
    PROVE  /\ ViewIn(t, d)[q] \notin {<<Absent>>, <<Dir>>} <=> t[q] \in Files
           /\ ViewIn(t, d)[q] = <<Absent>> <=> t[q] = Absent
           /\ t[q] \in Files => ViewIn(t, d)[q] = d[t[q]]
<1> DEFINE x == ViewIn(t, d)[q]
<1>0. x = IF t[q] \in Files THEN d[t[q]] ELSE <<t[q]>>  BY DEF ViewIn
<1> HIDE DEF x
<1>1. CASE t[q] \in Files
  <2>1. d[t[q]] \in Seq(Lines)  BY <1>1
  <2>2. ASSUME NEW s \in Seq(Lines), NEW y, s = <<y>>  PROVE  y \in Lines
    <3>1. 1 \in DOMAIN s /\ s[1] = y  BY <2>2
    <3> QED  BY <3>1
  <2>3. d[t[q]] # <<Absent>> /\ d[t[q]] # <<Dir>>
    BY <2>1, <2>2, FileServerConstants
  <2> QED  BY <1>0, <1>1, <2>3, Constants DEF x
<1>2. CASE t[q] \notin Files
  <2>1. t[q] \in {Absent, Dir}  BY <1>2
  <2>2. <<Absent>> # <<Dir>>  BY Constants
  <2> QED  BY <1>0, <1>2, <2>1, <2>2, Constants DEF x
<1> QED  BY <1>1, <1>2

\* So does the view of the tree
LEMMA ViewIs ==
    ASSUME Typed, NEW q \in Paths
    PROVE  /\ View[q] \notin {<<Absent>>, <<Dir>>} <=> tree[q] \in Files
           /\ View[q] = <<Absent>> <=> tree[q] = Absent
           /\ tree[q] \in Files => View[q] = data[tree[q]]
<1>1. View = ViewIn(tree, data)  BY DEF View, ViewIn
<1>2. tree \in [Paths -> Files \cup {Absent, Dir}] /\ data \in [Files -> Seq(Lines)]
  BY DEF Typed
<1> QED  BY <1>1, <1>2, ViewOf

\* What is expected of a search is a match for it
LEMMA ExpectedIs ==
    ASSUME Typed, NEW k, k.tool \in {"grep", "glob"}, NEW m \in Expected(View, k)
    PROVE  IsMatch(k, m)
<1>1. CASE k.tool = "grep"
  <2>1. PICK q \in Paths :
          /\ IsPrefix(k.path, q) /\ View[q] \notin {<<Absent>>, <<Dir>>}
          /\ k.opt.depth >= 0 => Len(Rest(k.path, q)) <= k.opt.depth + 2
          /\ Zero \notin Range(View[q])
          /\ m \in {q} \X {n \in DOMAIN View[q] : View[q][n] \in Wanted}
    BY <1>1 DEF Expected
  <2>2. m[1] = q /\ m[2] \in DOMAIN View[q] /\ View[q][m[2]] \in Wanted /\ m = <<q, m[2]>>
    BY <2>1
  <2>3. tree[q] \in Files /\ View[q] = data[tree[q]]  BY <2>1, ViewIs
  <2>4. data[tree[q]] \in Seq(Lines)  BY <2>3 DEF Typed
  <2>5. m[2] \in Nat  BY <2>2, <2>3, <2>4
  <2> QED  BY <1>1, <2>1, <2>2, <2>3, <2>5 DEF IsMatch, GrepMatch, Near
<1>2. CASE k.tool = "glob"
  <2>1. /\ m \in (Below(k.path) \ {k.path}) \X {0}
        /\ View[m[1]] # <<Absent>>
        /\ k.opt.depth >= 0 => Len(Rest(k.path, m[1])) <= k.opt.depth + 2
        /\ k.opt.type = "all" \/ (k.opt.type = "file") = (View[m[1]] \notin {<<Absent>>, <<Dir>>})
        /\ View[m[1]] \notin {<<Absent>>, <<Dir>>} \/ k.opt.depth < 0
             \/ Len(Rest(k.path, m[1])) <= k.opt.depth + 1
        /\ Fits(k.opt, Rest(k.path, m[1]))
    BY <1>2 DEF Expected, Fits
  <2>2. m[1] \in Paths  BY <2>1 DEF Below
  <2> QED  BY <1>2, <2>1, <2>2, ViewIs DEF IsMatch, GlobMatch, Near
<1> QED  BY <1>1, <1>2

\* A match is a match as long as it is left where it is
LEMMA MatchStays ==
    ASSUME Typed, Typed', NEW k, NEW m, IsMatch(k, m), Untouched(k, m)
    PROVE  /\ IsMatch(k, m)'
           /\ m[1] \in Paths /\ tree[m[1]] # Absent
           /\ tree'[m[1]] = Dir <=> tree[m[1]] = Dir
<1>1. CASE k.tool = "grep"
  <2>1. m[1] \in Paths /\ tree[m[1]] \in Files /\ GrepMatch(k, m)  BY <1>1 DEF IsMatch, GrepMatch
  <2>2. View[m[1]] = data[tree[m[1]]] /\ View[m[1]] \notin {<<Absent>>, <<Dir>>}  BY <2>1, ViewIs
  <2>3. View'[m[1]] = View[m[1]]  BY <1>1 DEF Untouched
  <2>4. /\ View'[m[1]] \notin {<<Absent>>, <<Dir>>} <=> tree'[m[1]] \in Files
        /\ tree'[m[1]] \in Files => View'[m[1]] = data'[tree'[m[1]]]
    <3>1. View' = ViewIn(tree', data')  BY DEF View, ViewIn, Files
    <3>2. tree' \in [Paths -> Files \cup {Absent, Dir}] /\ data' \in [Files -> Seq(Lines)]
      BY DEF Typed, Files, Absent, Dir
    <3> QED  BY <2>1, <3>1, <3>2, ViewOf
  <2>5. tree'[m[1]] \in Files /\ data'[tree'[m[1]]] = data[tree[m[1]]]  BY <2>2, <2>3, <2>4
  <2> QED  BY <1>1, <2>1, <2>5, Constants DEF IsMatch, GrepMatch, Near, Files
<1>2. CASE k.tool # "grep"
  <2>1. m[1] \in Paths /\ tree[m[1]] # Absent /\ GlobMatch(k, m)
    BY <1>2 DEF IsMatch, GlobMatch, Below
  <2>2. tree'[m[1]] = tree[m[1]]  BY <1>2 DEF Untouched
  <2> QED  BY <1>2, <2>1, <2>2 DEF IsMatch, GlobMatch, Near, Files, Below
<1> QED  BY <1>1, <1>2

\* How much longer a path is than another
LEMMA RestLength ==
    ASSUME NEW p \in Seq(STRING), NEW q \in Seq(STRING)
    PROVE  /\ Len(Rest(p, q)) \in Nat /\ Len(p) \in Nat /\ Len(q) \in Nat
           /\ Len(p) < Len(q) => Len(Rest(p, q)) = Len(q) - Len(p)
           /\ ~(Len(p) < Len(q)) => Len(Rest(p, q)) = 0
BY DEF Rest

\* A directory on the way has the next entry on the way
LEMMA WayDown ==
    ASSUME InFolders, NEW p \in Paths, NEW q \in Paths, IsStrictPrefix(p, q), tree[q] # Absent
    PROVE  \E k \in DOMAIN ChildrenIn(tree, p) :
              LET r == ChildrenIn(tree, p)[k] IN OnWay(Entry(r, r), q)
<1>1. PICK r \in Paths : IsPrefix(p, r) /\ Len(r) = Len(p) + 1 /\ IsPrefix(r, q)
  BY OnTheWay
<1>2. tree[r] # Absent /\ (r # q => tree[r] = Dir)
  BY <1>1, Constants DEF InFolders, IsStrictPrefix
<1>3. PICK ch : ch = ChildrenIn(tree, p)  OBVIOUS
<1>5. p \in Seq(STRING) /\ r \in Seq(STRING) /\ Len(p) \in Nat  BY PathFacts
<1>6. \E k \in DOMAIN ch : ch[k] = r  BY <1>1, <1>2, <1>3, <1>5, ChildrenAll
<1>4. OnWay(Entry(r, r), q)  BY <1>1, <1>2 DEF OnWay, Entry, IsFolder, At
<1> QED  BY <1>3, <1>4, <1>6

\* A part of a path
LEMMA PartIs ==
    ASSUME NEW s \in Seq(STRING), NEW m \in Nat \ {0}, NEW n \in 0 .. Len(s)
    PROVE  /\ SubSeq(s, m, n) \in Seq(STRING)
           /\ m <= n => Len(SubSeq(s, m, n)) = (n - m) + 1
           /\ ~(m <= n) => Len(SubSeq(s, m, n)) = 0
OBVIOUS

\* A list of what a directory has, and what was left to visit
LEMMA ListsJoined ==
    ASSUME NEW new \in Seq(Entries), NEW rest \in Seq(Entries), NEW e,
           \/ \E i \in DOMAIN new : new[i] = e
           \/ \E i \in DOMAIN rest : rest[i] = e
    PROVE  \E i \in DOMAIN (new \o rest) : (new \o rest)[i] = e
<1>1. /\ DOMAIN (new \o rest) = 1 .. Len(new) + Len(rest)
      /\ DOMAIN new = 1 .. Len(new) /\ DOMAIN rest = 1 .. Len(rest)
      /\ Len(new) \in Nat /\ Len(rest) \in Nat
      /\ \A i \in 1 .. Len(new) : (new \o rest)[i] = new[i]
      /\ \A i \in 1 .. Len(rest) : (new \o rest)[Len(new) + i] = rest[i]
  OBVIOUS
<1>2. CASE \E i \in DOMAIN new : new[i] = e  BY <1>1, <1>2
<1>3. CASE \E i \in DOMAIN rest : rest[i] = e
  <2>1. PICK i \in 1 .. Len(rest) : rest[i] = e  BY <1>1, <1>3
  <2>2. Len(new) + i \in DOMAIN (new \o rest) /\ (new \o rest)[Len(new) + i] = e  BY <1>1, <2>1
  <2> QED  BY <2>2
<1> QED  BY <1>2, <1>3

\* A search that visits an entry goes on to everything below it
LEMMA AfterFinds ==
    ASSUME TInv, NEW c \in Calls, pc[c] = "walk", todo[c] # <<>>, call[c].opt.depth \in Int,
           NEW q \in Paths, tree[q] # Absent, Near(call[c], q),
           NEW i \in DOMAIN todo[c], OnWay(todo[c][i], q)
    PROVE  \/ Head(todo[c]).from = q /\ OnWay(Head(todo[c]), q)
           \/ \E j \in DOMAIN After(c, Head(todo[c])) : OnWay(After(c, Head(todo[c]))[j], q)
<1> DEFINE e == Head(todo[c])
           visited == e.dir /\ ~TooDeep(c, e) /\ IsFolder(e.from)
           children == IF visited THEN ChildrenIn(tree, e.from) ELSE <<>>
           new == [j \in DOMAIN children |-> Entry(children[j], children[j])]
           rest == Tail(todo[c])
<1>1. todo[c] \in Seq(Entries) /\ Antichain(todo[c])  BY Lists
<1>2. /\ e \in Entries /\ rest \in Seq(Entries) /\ e = todo[c][1] /\ e.from \in Paths
      /\ \A j \in DOMAIN todo[c] : j # 1 => \E k \in DOMAIN rest : rest[k] = todo[c][j]
  <2>1. e \in Entries /\ rest \in Seq(Entries) /\ e = todo[c][1]  BY <1>1
  <2>2. ASSUME NEW j \in DOMAIN todo[c], j # 1
        PROVE  \E k \in DOMAIN rest : rest[k] = todo[c][j]
    <3>1. j - 1 \in DOMAIN rest /\ rest[j - 1] = todo[c][j]  BY <1>1, <2>2
    <3> QED  BY <3>1
  <2> QED  BY <2>1, <2>2 DEF Entries
<1>3. After(c, e) = new \o rest  BY DEF After
<1>4. new \in Seq(Entries) /\ DOMAIN new = DOMAIN children
  <2>1. children \in Seq(Paths)  BY <1>2, ChildrenAre
  <2> HIDE DEF children
  <2>2. \A j \in DOMAIN children : Entry(children[j], children[j]) \in Entries
    <3>1. \A j \in DOMAIN children : children[j] \in Paths  BY <2>1
    <3> QED  BY <3>1, EntryIs, Zenon
  <2> QED  BY <2>1, <2>2
<1>5. CASE i # 1
  <2>1. PICK k \in DOMAIN rest : rest[k] = todo[c][i]  BY <1>2, <1>5
  <2> HIDE DEF new, rest, e
  <2>2. PICK j \in DOMAIN (new \o rest) : (new \o rest)[j] = todo[c][i]
    <3>1. new \in Seq(Entries) /\ rest \in Seq(Entries)  BY <1>2, <1>4
    <3>2. PICK x : x = todo[c][i]  OBVIOUS
    <3>3. \E n \in DOMAIN rest : rest[n] = x  BY <2>1, <3>2
    <3>4. \E j \in DOMAIN (new \o rest) : (new \o rest)[j] = x  BY <3>1, <3>3, ListsJoined, ZenonT(40)
    <3> QED  BY <3>2, <3>4
  <2> QED  BY <1>3, <2>2 DEF e
<1>6. CASE i = 1 /\ e.from # q
  <2>1. IsPrefix(e.from, q) /\ e.dir  BY <1>2, <1>6 DEF OnWay
  <2>2. IsStrictPrefix(e.from, q)  BY <1>6, <2>1 DEF IsStrictPrefix
  <2>3. IsFolder(e.from)  BY <1>2, <2>2 DEF TInv, TreeInv, InFolders, IsFolder, At
  <2>4. ~TooDeep(c, e)
    <3>1. /\ e.from \in Seq(STRING) /\ q \in Seq(STRING) /\ call[c].path \in Paths
          /\ call[c].path \in Seq(STRING)
      BY <1>2, PathFacts, Lists
    <3>2. Len(e.from) < Len(q)  BY <1>6, <2>1, <3>1, PrefixOrder
    <3>3. Len(Rel(c, e)) \in Nat /\ Len(Rest(call[c].path, q)) \in Nat
          /\ (Len(Rel(c, e)) = 0 \/ Len(Rel(c, e)) < Len(Rest(call[c].path, q)))
      <4>1. PICK a, b, n : a = Len(call[c].path) /\ b = Len(e.from) /\ n = Len(q)  OBVIOUS
      <4>2. /\ a \in Nat /\ b \in Nat /\ n \in Nat /\ b < n
            /\ Len(Rel(c, e)) = IF a < b THEN b - a ELSE 0
            /\ Len(Rest(call[c].path, q)) = IF a < n THEN n - a ELSE 0
        BY <3>1, <3>2, <4>1, RestLength DEF Rel
      <4> QED  BY <4>2
    <3> QED  BY <3>3 DEF TooDeep, Near
  <2>5. PICK k \in DOMAIN ChildrenIn(tree, e.from) :
            LET r == ChildrenIn(tree, e.from)[k] IN OnWay(Entry(r, r), q)
    BY <1>2, <2>2, WayDown DEF TInv, TreeInv
  <2> DEFINE r == ChildrenIn(tree, e.from)[k]
  <2>8. k \in DOMAIN new /\ new[k] = Entry(r, r)  BY <2>1, <2>3, <2>4
  <2>9. OnWay(Entry(r, r), q)  BY <2>5
  <2> HIDE DEF new, rest, e
  <2>10. PICK j \in DOMAIN (new \o rest) : (new \o rest)[j] = Entry(r, r)
    BY <1>2, <1>4, <2>8, ListsJoined
  <2> QED  BY <1>3, <2>9, <2>10 DEF e
<1>7. CASE i = 1 /\ e.from = q  BY <1>2, <1>7
<1> QED  BY <1>5, <1>6, <1>7

\* grep finds every match in a file that it visits
LEMMA GrepFileFinds ==
    ASSUME Typed, NEW k, NEW m, GrepMatch(k, m), NEW e, e.from = m[1], ~e.dir
    PROVE  m \in Range(GrepFile(e))
<1> DEFINE lines == data[tree[m[1]]]
           S == {n \in DOMAIN lines : lines[n] \in Wanted}
           matching == Ascending(S)
<1>1. /\ m \in Paths \X Nat /\ m[1] \in Paths /\ tree[m[1]] \in Files
      /\ Zero \notin Range(lines) /\ m[2] \in S
  BY DEF GrepMatch
<1>2. lines \in Seq(Lines)  BY <1>1 DEF Typed
<1>3. Len(lines) \in Nat /\ S \in SUBSET (1 .. Len(lines))  BY <1>2
<1>4. PICK i \in DOMAIN matching : matching[i] = m[2]  BY <1>1, <1>3, AscendingAll, Zenon
<1>5. m = <<m[1], m[2]>>  BY <1>1
<1>6. GrepFile(e) = [j \in DOMAIN matching |-> <<e.from, matching[j]>>]
  BY <1>1 DEF GrepFile, IsFile, At
<1> HIDE DEF matching
<1>7. i \in DOMAIN GrepFile(e) /\ GrepFile(e)[i] = m  BY <1>4, <1>5, <1>6
<1> QED  BY <1>7 DEF Range

\* What grep finds in a file is a sequence of matches
LEMMA GrepFileType ==
    ASSUME Typed, NEW e, e.from \in Paths
    PROVE  GrepFile(e) \in Seq(Matches)
<1> DEFINE lines == data[tree[e.from]]
           S == {n \in DOMAIN lines : lines[n] \in Wanted}
           matching == Ascending(S)
<1>1. CASE e.dir \/ ~IsFile(e.from) \/ Zero \in Range(lines)  BY <1>1 DEF GrepFile
<1>2. CASE ~e.dir /\ IsFile(e.from) /\ Zero \notin Range(lines)
  <2>1. lines \in Seq(Lines)  BY <1>2 DEF Typed, IsFile, At
  <2>2. Len(lines) \in Nat /\ S \in SUBSET (1 .. Len(lines))  BY <2>1
  <2>3. Sorted(matching, S) /\ Cardinality(S) \in Nat  BY <2>2, AscendingIs
  <2>4. GrepFile(e) = [j \in DOMAIN matching |-> <<e.from, matching[j]>>]  BY <1>2 DEF GrepFile
  <2>5. S \subseteq Nat  BY <2>2
  <2> HIDE DEF matching, S
  <2>6. DOMAIN matching = 1 .. Cardinality(S) /\ \A j \in DOMAIN matching : matching[j] \in Nat
    BY <2>3, <2>5 DEF Sorted
  <2> QED  BY <2>3, <2>4, <2>6 DEF Matches
<1> QED  BY <1>1, <1>2

\* The last names of a path, in two ways
LEMMA FitsMatches ==
    ASSUME NEW o \in Globs, NEW rel \in Seq(STRING), rel # <<>>, Fits(o, rel)
    PROVE  MatchDoublestar(o, rel)
<1>1. /\ o.deep \in BOOLEAN /\ o.prefix \in Seq(STRING) /\ o.last \in Seq(SUBSET STRING)
      /\ IF o.deep THEN o.prefix # <<>> \/ o.last # <<>> ELSE Len(o.last) = 1
  BY GlobPatterns
<1> DEFINE prefix == o.prefix
           last == o.last
<1>2. prefix \in Seq(STRING) /\ Len(prefix) \in Nat /\ Len(last) \in Nat /\ DOMAIN last = 1 .. Len(last)
      /\ Len(rel) \in Nat \ {0}
  BY <1>1
<1>3. CASE ~o.deep
  <2>1. rel[Len(rel)] \in last[1] /\ Len(last) = 1  BY <1>1, <1>3 DEF Fits
  <2>2. LastMatch(last, rel)  BY <1>2, <2>1 DEF LastMatch
  <2> QED  BY <1>3, <2>1, <2>2 DEF MatchDoublestar
<1>4. CASE o.deep
  <2>1. PICK n \in 0 .. Len(rel) :
          /\ rel = prefix \o SubSeq(rel, Len(prefix) + 1, n) \o SubSeq(rel, n + 1, Len(rel))
          /\ Len(rel) - n = Len(last)
          /\ \A i \in 1 .. Len(rel) - n : rel[n + i] \in last[i]
    BY <1>4 DEF Fits
  <2> DEFINE mid == SubSeq(rel, Len(prefix) + 1, n)
             end == SubSeq(rel, n + 1, Len(rel))
  <2>2. /\ mid \in Seq(STRING) /\ end \in Seq(STRING)
        /\ Len(mid) = IF Len(prefix) < n THEN n - Len(prefix) ELSE 0
        /\ Len(end) = Len(rel) - n
    <3>1. Len(prefix) + 1 \in Nat \ {0} /\ n + 1 \in Nat \ {0} /\ Len(rel) \in 0 .. Len(rel)  BY <1>2
    <3>2. /\ mid \in Seq(STRING)
          /\ Len(prefix) + 1 <= n => Len(mid) = (n - (Len(prefix) + 1)) + 1
          /\ ~(Len(prefix) + 1 <= n) => Len(mid) = 0
      BY <3>1, PartIs
    <3>3. /\ end \in Seq(STRING)
          /\ n + 1 <= Len(rel) => Len(end) = (Len(rel) - (n + 1)) + 1
          /\ ~(n + 1 <= Len(rel)) => Len(end) = 0
      BY <3>1, PartIs
    <3> HIDE DEF mid, end
    <3> QED  BY <1>2, <3>2, <3>3
  <2>3. rel = (prefix \o mid) \o end  BY <2>1
  <2> HIDE DEF mid, end
  <2>4. Len(prefix) <= n /\ \A i \in 1 .. Len(prefix) : rel[i] = prefix[i]  BY <1>2, <2>2, <2>3
  <2> HIDE DEF prefix, last
  <2>5. IsPrefix(prefix, rel)  BY <1>2, <2>4, PrefixIs
  <2>6. CASE last = <<>>
    <3>1. prefix # <<>>  BY <1>1, <1>4, <2>6 DEF prefix, last
    <3> QED  BY <1>4, <2>5, <2>6, <3>1 DEF MatchDoublestar, IsStrictPrefix, prefix, last
  <2>7. CASE last # <<>> /\ prefix = <<>>
    <3>1. ASSUME NEW i \in DOMAIN last  PROVE  rel[Len(rel) - Len(last) + i] \in last[i]
      <4>1. i \in 1 .. Len(rel) - n /\ (Len(rel) - Len(last) + i) = n + i  BY <1>2, <2>1
      <4> QED  BY <2>1, <4>1
    <3>2. Len(last) <= Len(rel)  BY <1>2, <2>1
    <3>3. LastMatch(last, rel)  BY <2>7, <3>1, <3>2 DEF LastMatch
    <3> QED  BY <1>4, <2>7, <3>3 DEF MatchDoublestar, prefix, last
  <2>8. CASE last # <<>> /\ prefix # <<>>
    <3>1. Len(last) > 0  BY <1>1, <1>2, <2>8 DEF last
    <3>2. Len(prefix) < Len(rel)  BY <1>2, <2>1, <2>4, <3>1
    <3>3. IsStrictPrefix(prefix, rel)  BY <2>5, <3>2 DEF IsStrictPrefix
    <3> DEFINE rest == Rest(prefix, rel)
    <3>4. Len(rest) = Len(rel) - Len(prefix) /\ \A i \in 1 .. Len(rel) - Len(prefix) : rest[i] = rel[Len(prefix) + i]
      BY <1>2, <2>5, RestIs
    <3> HIDE DEF rest
    <3>5. ASSUME NEW i \in DOMAIN last  PROVE  rest[Len(rest) - Len(last) + i] \in last[i]
      <4>1. i \in 1 .. Len(rel) - n /\ (Len(rest) - Len(last) + i) = n - Len(prefix) + i
            /\ n - Len(prefix) + i \in 1 .. Len(rel) - Len(prefix)
            /\ Len(prefix) + (n - Len(prefix) + i) = n + i
        BY <1>2, <2>1, <2>4, <3>4
      <4>2. rest[n - Len(prefix) + i] = rel[n + i]  BY <3>4, <4>1
      <4> QED  BY <2>1, <4>1, <4>2
    <3>6. LastMatch(last, rest)  BY <1>2, <2>1, <2>4, <2>8, <3>4, <3>5 DEF LastMatch
    <3> QED  BY <1>4, <2>8, <3>3, <3>6 DEF MatchDoublestar, prefix, last, rest
  <2> QED  BY <2>6, <2>7, <2>8
<1> QED  BY <1>1, <1>3, <1>4

\* Where a match is
LEMMA MatchIs ==
    ASSUME NEW k, NEW m, IsMatch(k, m)
    PROVE  /\ m[1] \in Paths /\ IsPrefix(k.path, m[1]) /\ Near(k, m[1]) /\ tree[m[1]] # Absent
           /\ k.tool = "grep" => m \in Paths \X Nat /\ tree[m[1]] # Dir
BY Constants DEF IsMatch, GrepMatch, GlobMatch, Below

\* The steps that go on with a search, and those that end it
LEMMA WalkSteps ==
    ASSUME TInv, NEW c \in Calls, Step(c)
    PROVE  /\ pc'[c] = "walk" => Search(c) \/ GrepVisit(c) \/ GlobVisit(c)
           /\ pc[c] = "walk" => GrepVisit(c) \/ GlobVisit(c) \/ WalkEnds(c) \/ Deadline(c)
<1>0. WInv  BY DEF TInv
<1>1. Opening(c) \/ GoingOn(c)  BY OpeningFirst
<1>2. /\ \A x : Goto(c, x) => pc'[c] = x
      /\ \A a : Reply(c, a) => pc'[c] = "done"
  BY <1>0, Ended1
<1>3. Refuse(c) \/ PatchFile(c) \/ RemoveFile(c) \/ CreateFolder(c) \/ RemoveFolder(c) => pc'[c] # "walk"
  BY <1>2 DEF Refuse, PatchFile, RemoveFile, CreateFolder, RemoveFolder, Begin, GotoIf
<1>4. WriteFile(c) => pc'[c] # "walk"
  <2> SUFFICES ASSUME WriteFile(c) PROVE pc'[c] # "walk"  OBVIOUS
  <2>1. Goto(c, "stat") \/ Goto(c, "open") \/ Reply(c, Error)  BY <1>2 DEF WriteFile, GotoIf
  <2> QED  BY <1>2, <2>1
<1>5. StatFile(c) \/ ListFolder(c) \/ ReadFile(c) \/ HashFile(c) => pc'[c] # "walk"
  BY <1>2 DEF StatFile, ListFolder, ReadFile, HashFile, GotoIf
<1>6. Copy(c) \/ Move(c) => pc'[c] # "walk"  BY <1>2, Zenon DEF Copy, Move, GotoIf
<1>7. CheckAbsent(c) \/ OpenToWrite(c) \/ Write(c) \/ DiskFull(c) \/ Unlink(c) \/ MakeFolder(c)
          \/ RemovedAll(c) \/ RemoveBlocked(c) \/ ReadFolder(c) \/ OpenToRead(c) \/ ReadOpened(c)
      => pc[c] # "walk" /\ pc'[c] # "walk"
  <2>1. CheckAbsent(c) \/ OpenToWrite(c) \/ Write(c) \/ DiskFull(c) \/ Unlink(c) \/ MakeFolder(c)
        => pc[c] # "walk" /\ pc'[c] # "walk"
    BY <1>2 DEF CheckAbsent, OpenToWrite, Write, DiskFull, Unlink, MakeFolder, GotoIf
  <2>2. RemovedAll(c) \/ RemoveBlocked(c) \/ ReadFolder(c) \/ OpenToRead(c) \/ ReadOpened(c)
        => pc[c] # "walk" /\ pc'[c] # "walk"
    BY <1>2 DEF RemovedAll, RemoveBlocked, ReadFolder, OpenToRead, ReadOpened, GotoIf
  <2> QED  BY <2>1, <2>2
<1>8. MakeParents(c) => pc[c] # "walk" /\ pc'[c] # "walk"
  <2> SUFFICES ASSUME MakeParents(c) PROVE pc[c] # "walk" /\ pc'[c] # "walk"  OBVIOUS
  <2>1. pc[c] = "parents" /\ call[c].tool \in {"patch_file", "copy", "move"}
    BY <1>0, Here, ToolTable DEF MakeParents
  <2>2. Goto(c, "open") \/ Goto(c, "copy") \/ Goto(c, "rename") \/ Reply(c, Error)
    BY <2>1 DEF MakeParents, GotoIf
  <2> QED  BY <1>2, <2>1, <2>2
<1>9. Rename(c) \/ Restat(c) \/ CopyFolder(c) \/ CopyFile(c) \/ FillCopy(c) \/ CopyEnds(c)
      => pc[c] # "walk" /\ pc'[c] # "walk"
  BY <1>2, Zenon DEF Rename, Restat, CopyFolder, CopyFile, FillCopy, CopyEnds, GotoIf
<1>10. RemoveNext(c) => pc[c] # "walk" /\ pc'[c] # "walk"  BY DEF RemoveNext, callVars
<1>11. WalkEnds(c) \/ Deadline(c) => pc'[c] # "walk"  BY <1>2, Zenon DEF WalkEnds, Deadline
<1>12. Opening(c) => pc[c] # "walk"  BY OpeningFirst
<1>13. CASE Opening(c)  BY <1>3, <1>4, <1>5, <1>6, <1>12, <1>13 DEF Opening
<1>14. CASE GoingOn(c)  BY <1>7, <1>8, <1>9, <1>10, <1>11, <1>14 DEF GoingOn
<1> QED  BY <1>1, <1>13, <1>14

\* What is due, after a step that goes on with a search
LEMMA StillDue ==
    ASSUME RecordHistory, NEW c \in Calls, pc'[c] = "walk"
    PROVE  /\ pc[c] = "idle" => due'[c] = Expected(View, call'[c])
           /\ pc[c] # "idle" => due'[c] = {m \in due[c] : Untouched(call[c], m)}
BY DEF RecordHistory, Begins

\* A match that is ahead of a search stays so while other calls run
LEMMA OthersSearch ==
    ASSUME Typed, Typed', RecordHistory, NEW d \in Calls, SearchAt(d),
           pc'[d] = pc[d], call'[d] = call[d], answer'[d] = answer[d], todo'[d] = todo[d]
    PROVE  SearchAt(d)'
<1>1. CASE pc[d] # "walk"  BY <1>1 DEF SearchAt, NoAnswer, Answer
<1>2. CASE pc[d] = "walk"
  <2>1. Searching(call[d])' /\ answer'[d] \in SearchAnswers
    BY <1>2 DEF SearchAt, Searching, SearchAnswers, Matches
  <2>2. ASSUME NEW m \in due'[d]
        PROVE  /\ IsMatch(call[d], m)'
               /\ \/ m \in Range(answer'[d].value)
                  \/ (\E i \in DOMAIN todo[d] : OnWay(todo[d][i], m[1]))'
    <3>1. m \in due[d] /\ Untouched(call[d], m)  BY <1>2, StillDue
    <3>2. IsMatch(call[d], m)  BY <1>2, <3>1 DEF SearchAt, DueIsAhead
    <3>3. \A k : IsMatch(k, m) /\ Untouched(k, m)
                   => IsMatch(k, m)' /\ (tree'[m[1]] = Dir <=> tree[m[1]] = Dir)
      BY MatchStays
    <3>4. IsMatch(call[d], m)' /\ (tree'[m[1]] = Dir <=> tree[m[1]] = Dir)
      BY <3>1, <3>2, <3>3
    <3>5. \/ m \in Range(answer[d].value)
          \/ \E i \in DOMAIN todo[d] : OnWay(todo[d][i], m[1])
      BY <1>2, <3>1 DEF SearchAt, DueIsAhead
    <3>6. (\E i \in DOMAIN todo[d] : OnWay(todo[d][i], m[1]))
            => (\E i \in DOMAIN todo[d] : OnWay(todo[d][i], m[1]))'
      BY <3>4 DEF OnWay, Dir
    <3> QED  BY <3>4, <3>5, <3>6
  <2>3. DueIsAhead(d)'  BY <2>2 DEF DueIsAhead
  <2> QED  BY <1>2, <2>1, <2>3 DEF SearchAt
<1> QED  BY <1>1, <1>2

\* What is a match, and on the way, when no file or directory changes
LEMMA SameMatches ==
    ASSUME UNCHANGED fileVars, NEW k, NEW m
    PROVE  /\ IsMatch(k, m)' <=> IsMatch(k, m)
           /\ \A e : OnWay(e, m[1])' <=> OnWay(e, m[1])
<1>1. tree' = tree /\ data' = data  BY DEF fileVars
<1> QED  BY <1>1 DEF IsMatch, GrepMatch, GlobMatch, Near, Fits, Below, Files, OnWay, Dir

\* What has been found, and what is found next
LEMMA FoundJoined ==
    ASSUME NEW s \in Seq(Matches), NEW t \in Seq(Matches)
    PROVE  s \o t \in Seq(Matches) /\ Range(s) \cup Range(t) \subseteq Range(s \o t)
<1>1. /\ s \o t \in Seq(Matches)
      /\ DOMAIN (s \o t) = 1 .. Len(s) + Len(t) /\ DOMAIN s = 1 .. Len(s) /\ DOMAIN t = 1 .. Len(t)
      /\ Len(s) \in Nat /\ Len(t) \in Nat
      /\ \A i \in 1 .. Len(s) : (s \o t)[i] = s[i]
      /\ \A i \in 1 .. Len(t) : (s \o t)[Len(s) + i] = t[i]
  OBVIOUS
<1>2. ASSUME NEW i \in 1 .. Len(s)  PROVE  i \in DOMAIN (s \o t) /\ (s \o t)[i] = s[i]
  BY <1>1
<1>3. ASSUME NEW i \in 1 .. Len(t)  PROVE  Len(s) + i \in DOMAIN (s \o t) /\ (s \o t)[Len(s) + i] = t[i]
  BY <1>1
<1>4. Range(s) \subseteq Range(s \o t)  BY <1>1, <1>2, Zenon DEF Range
<1>5. ASSUME NEW x \in Range(t)  PROVE  x \in Range(s \o t)
  <2>1. PICK i \in 1 .. Len(t) : t[i] = x  BY <1>1 DEF Range
  <2> QED  BY <1>3, <2>1 DEF Range
<1> QED  BY <1>1, <1>4, <1>5

\* A search begins with an entry on the way to everything it must find
LEMMA SearchStarts ==
    ASSUME TInv, RecordHistory, NEW c \in Calls, SearchAt(c), Search(c), pc'[c] = "walk"
    PROVE  SearchAt(c)'
<1>0. WInv /\ Typed /\ InFolders  BY DEF TInv, WInv, TreeInv
<1>1. PICK p \in Paths, tool \in {"grep", "glob"} :
        \E opt \in (IF tool = "grep" THEN Searches ELSE Globs) :
           /\ Begin(c, tool, p, p, opt)
           /\ IF At(p) = Absent THEN Reply(c, Ok) ELSE Goto(c, "walk")
           /\ Set(todo, c, IF At(p) = Absent THEN <<>> ELSE <<Entry(p, p)>>)
           /\ UNCHANGED <<fileVars, handle, source, buf>>
  BY Zenon DEF Search
<1>2. PICK opt \in (IF tool = "grep" THEN Searches ELSE Globs) :
           /\ Begin(c, tool, p, p, opt)
           /\ IF At(p) = Absent THEN Reply(c, Ok) ELSE Goto(c, "walk")
           /\ Set(todo, c, IF At(p) = Absent THEN <<>> ELSE <<Entry(p, p)>>)
           /\ UNCHANGED <<fileVars, handle, source, buf>>
  BY <1>1, Zenon
<1>3. At(p) # Absent /\ Goto(c, "walk")  BY <1>0, <1>2, Ended1
<1>4. /\ pc[c] = "idle" /\ answer'[c] = NoAnswer /\ UNCHANGED fileVars
      /\ call'[c] = Call(tool, p, p, opt) /\ todo'[c] = <<Entry(p, p)>>
  BY <1>0, <1>2, <1>3, Ended1, Changed1 DEF Begin, SearchAt
<1>5. PICK k : k = call'[c]  OBVIOUS
<1>6. k.tool = tool /\ k.path = p /\ k.opt = opt  BY <1>4, <1>5 DEF Call
<1>7. Searching(call[c])'  BY <1>2, <1>5, <1>6 DEF Searching
<1>8. answer'[c] \in SearchAnswers
  <2>1. <<>> \in Seq(Matches)  OBVIOUS
  <2> QED  BY <1>4, <2>1 DEF NoAnswer, Answer, SearchAnswers
<1>9. ASSUME NEW m \in due'[c]
      PROVE  IsMatch(call[c], m)' /\ (\E i \in DOMAIN todo[c] : OnWay(todo[c][i], m[1]))'
  <2>1. m \in Expected(View, k)  BY <1>4, <1>5, StillDue
  <2>2. k.tool \in {"grep", "glob"}  BY <1>6
  <2>3. IsMatch(k, m)  BY <1>0, <2>1, <2>2, ExpectedIs
  <2>4. IsMatch(call[c], m)'
    <3>1. \A j : IsMatch(j, m)' <=> IsMatch(j, m)  BY <1>4, SameMatches
    <3> QED  BY <1>5, <2>3, <3>1
  <2>5. m[1] \in Paths /\ IsPrefix(p, m[1]) /\ tree[m[1]] # Absent  BY <1>6, <2>3, MatchIs
  <2>6. OnWay(Entry(p, p), m[1])
    <3>1. p # m[1] => tree[p] = Dir  BY <1>0, <2>5 DEF InFolders, IsStrictPrefix
    <3> QED  BY <2>5, <3>1, Constants DEF OnWay, Entry, IsFolder, At
  <2>7. OnWay(todo[c][1], m[1])'
    <3>1. \A e : OnWay(e, m[1])' <=> OnWay(e, m[1])  BY <1>4, SameMatches
    <3>2. todo'[c][1] = Entry(p, p)  BY <1>4
    <3> QED  BY <2>6, <3>1, <3>2
  <2>8. 1 \in DOMAIN todo'[c]  BY <1>4
  <2> QED  BY <2>4, <2>7, <2>8
<1>10. DueIsAhead(c)'  BY <1>9 DEF DueIsAhead
<1> QED  BY <1>7, <1>8, <1>10 DEF SearchAt

\* A visit that goes on: what is found is added, and nothing on the way is lost
LEMMA VisitGoes ==
    ASSUME TInv, RecordHistory, NEW c \in Calls, SearchAt(c), pc[c] = "walk", pc'[c] = "walk",
           todo[c] # <<>>, UNCHANGED <<fileVars, call>>,
           todo'[c] = After(c, Head(todo[c])),
           answer'[c] \in SearchAnswers, Range(answer[c].value) \subseteq Range(answer'[c].value),
           \A m \in due'[c] : /\ IsMatch(call[c], m)
                              /\ Head(todo[c]).from = m[1] /\ OnWay(Head(todo[c]), m[1])
                              => m \in Range(answer'[c].value)
    PROVE  SearchAt(c)'
<1>1. Searching(call[c]) /\ DueIsAhead(c)  BY DEF SearchAt
<1>2. call[c].opt.depth \in Int  BY <1>1, GlobPatterns DEF Searching
<1>3. ASSUME NEW m \in due'[c]
      PROVE  /\ IsMatch(call[c], m)'
             /\ m \in Range(answer'[c].value) \/ (\E i \in DOMAIN todo[c] : OnWay(todo[c][i], m[1]))'
  <2>1. m \in due[c]  BY StillDue
  <2>2. /\ IsMatch(call[c], m)
        /\ m \in Range(answer[c].value) \/ \E i \in DOMAIN todo[c] : OnWay(todo[c][i], m[1])
    BY <1>1, <2>1 DEF DueIsAhead
  <2>3. IsMatch(call[c], m)'
    <3>1. \A j : IsMatch(j, m)' <=> IsMatch(j, m)  BY SameMatches
    <3> QED  BY <2>2, <3>1
  <2>4. m[1] \in Paths /\ Near(call[c], m[1]) /\ tree[m[1]] # Absent  BY <2>2, MatchIs
  <2>5. CASE \E i \in DOMAIN todo[c] : OnWay(todo[c][i], m[1])
    <3>1. \/ Head(todo[c]).from = m[1] /\ OnWay(Head(todo[c]), m[1])
          \/ \E j \in DOMAIN After(c, Head(todo[c])) : OnWay(After(c, Head(todo[c]))[j], m[1])
      BY <1>2, <2>4, <2>5, AfterFinds
    <3>2. CASE \E j \in DOMAIN After(c, Head(todo[c])) : OnWay(After(c, Head(todo[c]))[j], m[1])
      <4>1. PICK s : s = todo'[c]  OBVIOUS
      <4>2. PICK j \in DOMAIN s : OnWay(s[j], m[1])  BY <3>2, <4>1
      <4>3. \A e : OnWay(e, m[1])' <=> OnWay(e, m[1])  BY SameMatches
      <4>4. (\E i \in DOMAIN todo[c] : OnWay(todo[c][i], m[1]))'  BY <4>1, <4>2, <4>3
      <4> QED  BY <2>3, <4>4
    <3> QED  BY <2>2, <2>3, <3>1, <3>2
  <2> QED  BY <2>2, <2>3, <2>5
<1>4. DueIsAhead(c)'  BY <1>3 DEF DueIsAhead
<1>5. Searching(call[c])'  BY <1>1 DEF Searching
<1> QED  BY <1>4, <1>5 DEF SearchAt

\* grep goes on
LEMMA GrepGoes ==
    ASSUME TInv, RecordHistory, NEW c \in Calls, SearchAt(c), GrepVisit(c), pc'[c] = "walk"
    PROVE  SearchAt(c)'
<1> DEFINE e == Head(todo[c])
           found == GrepFile(e)
           all == answer[c].value \o found
<1>0. WInv /\ Typed  BY DEF TInv, WInv
<1>1. /\ pc[c] = "walk" /\ call[c].tool = "grep" /\ todo[c] # <<>>
      /\ UNCHANGED <<fileVars, call>>
      /\ Set(answer, c, [answer[c] EXCEPT !.value = all])
      /\ Set(todo, c, After(c, e))
  BY <1>0, Ended1 DEF GrepVisit
<1>2. todo'[c] = After(c, e) /\ answer'[c] = [answer[c] EXCEPT !.value = all]
  BY <1>0, <1>1, Changed1
<1>3. answer[c] \in SearchAnswers  BY <1>1 DEF SearchAt
<1>4. todo[c] \in Seq(Entries) /\ Antichain(todo[c])  BY <1>1, Lists
<1>5. e \in Entries /\ e.from \in Paths  BY <1>1, <1>4, TailApart DEF Entries
<1>6. found \in Seq(Matches)  BY <1>0, <1>5, GrepFileType
<1>7. answer[c].value \in Seq(Matches)  BY <1>3 DEF SearchAnswers
<1> HIDE DEF found
<1>8. all \in Seq(Matches) /\ Range(answer[c].value) \cup Range(found) \subseteq Range(all)
  BY <1>6, <1>7, FoundJoined
<1> HIDE DEF all
<1>9. answer'[c] \in SearchAnswers /\ answer'[c].value = all
  BY <1>2, <1>3, <1>8 DEF SearchAnswers
<1>10. ASSUME NEW m \in due'[c], IsMatch(call[c], m), e.from = m[1], OnWay(e, m[1])
       PROVE  m \in Range(answer'[c].value)
  <2>1. GrepMatch(call[c], m) /\ tree[m[1]] # Dir  BY <1>1, <1>10, MatchIs DEF IsMatch
  <2>2. ~e.dir  BY <1>10, <2>1 DEF OnWay
  <2>3. m \in Range(found)  BY <1>0, <1>10, <2>1, <2>2, GrepFileFinds DEF found
  <2> QED  BY <1>8, <1>9, <2>3
<1> QED  BY <1>1, <1>2, <1>8, <1>9, <1>10, VisitGoes

\* glob goes on
LEMMA GlobGoes ==
    ASSUME TInv, RecordHistory, NEW c \in Calls, SearchAt(c), GlobVisit(c), pc'[c] = "walk"
    PROVE  SearchAt(c)'
<1> DEFINE e == Head(todo[c])
           o == call[c].opt
           old == answer[c].value
           matches == /\ e.from # call[c].path
                      /\ ~TooDeep(c, e)
                      /\ o.type \in {"all", IF e.dir THEN "directory" ELSE "file"}
                      /\ MatchDoublestar(o, Rel(c, e))
                      /\ At(e.from) # Absent
           new == IF matches THEN [answer[c] EXCEPT !.value = Append(@, <<e.from, 0>>)] ELSE answer[c]
<1>0. WInv /\ Typed  BY DEF TInv, WInv
<1>1. /\ pc[c] = "walk" /\ call[c].tool = "glob" /\ todo[c] # <<>>
      /\ UNCHANGED <<fileVars, call>>
      /\ Set(answer, c, new)
      /\ Set(todo, c, After(c, e))
  BY <1>0, Ended1 DEF GlobVisit
<1> HIDE DEF new
<1>2. todo'[c] = After(c, e) /\ answer'[c] = new  BY <1>0, <1>1, Changed1
<1>3. answer[c] \in SearchAnswers /\ Searching(call[c])  BY <1>1 DEF SearchAt
<1>4. todo[c] \in Seq(Entries) /\ Antichain(todo[c])  BY <1>1, Lists
<1>5. e \in Entries /\ e.from \in Paths  BY <1>1, <1>4, TailApart DEF Entries
<1>6. old \in Seq(Matches) /\ <<e.from, 0>> \in Matches  BY <1>3, <1>5 DEF SearchAnswers, Matches
<1>7. <<<<e.from, 0>>>> \in Seq(Matches) /\ <<e.from, 0>> \in Range(<<<<e.from, 0>>>>)
  BY <1>6 DEF Range
<1>8. PICK one : one = <<<<e.from, 0>>>>  OBVIOUS
<1>9. /\ old \o one \in Seq(Matches) /\ Append(old, <<e.from, 0>>) = old \o one
      /\ Range(old) \cup Range(one) \subseteq Range(old \o one)
  <2>1. \A s \in Seq(Matches), x \in Matches : Append(s, x) = s \o <<x>>  OBVIOUS
  <2>2. Append(old, <<e.from, 0>>) = old \o <<<<e.from, 0>>>>  BY <1>6, <2>1
  <2> QED  BY <1>6, <1>7, <1>8, <2>2, FoundJoined
<1>10. /\ new \in SearchAnswers /\ Range(old) \subseteq Range(new.value)
       /\ matches => <<e.from, 0>> \in Range(new.value)
  <2> HIDE DEF matches
  <2>1. CASE ~matches  BY <1>3, <2>1 DEF new
  <2>2. CASE matches
    <3>1. new = [answer[c] EXCEPT !.value = old \o one]  BY <1>9, <2>2 DEF new
    <3>2. new \in SearchAnswers /\ new.value = old \o one  BY <1>3, <1>9, <3>1 DEF SearchAnswers
    <3> QED  BY <1>7, <1>8, <1>9, <3>2
  <2> QED  BY <2>1, <2>2
<1>11. ASSUME NEW m \in due'[c], IsMatch(call[c], m), e.from = m[1], OnWay(e, m[1])
       PROVE  m \in Range(answer'[c].value)
  <2>1. GlobMatch(call[c], m)  BY <1>1, <1>11 DEF IsMatch
  <2>2. /\ m = <<e.from, 0>> /\ e.from # call[c].path /\ IsPrefix(call[c].path, e.from)
        /\ e.dir <=> tree[e.from] = Dir
    BY <1>11, <2>1 DEF GlobMatch, Below, OnWay
  <2>3. tree[e.from] # Absent /\ At(e.from) # Absent /\ (tree[e.from] \in Files <=> ~e.dir)
    <3>1. tree[e.from] \in Files \cup {Absent, Dir} /\ tree[e.from] # Absent
      BY <1>0, <1>5, <1>11, <2>1 DEF Typed, GlobMatch
    <3> QED  BY <1>5, <2>2, <3>1, Constants DEF At
  <2>4. o \in Globs  BY <1>1, <1>3 DEF Searching
  <2>5. o.depth \in Int /\ o.type \in {"all", "file", "directory"}  BY <2>4, GlobPatterns
  <2>6. /\ o.type = "all" \/ (o.type = "file") = (tree[e.from] \in Files)
        /\ tree[e.from] \in Files \/ o.depth < 0 \/ Len(Rest(call[c].path, e.from)) <= o.depth + 1
        /\ Fits(o, Rest(call[c].path, e.from))
    BY <1>11, <2>1 DEF GlobMatch
  <2>7. o.type \in {"all", IF e.dir THEN "directory" ELSE "file"}  BY <2>3, <2>5, <2>6
  <2>8. /\ call[c].path \in Seq(STRING) /\ e.from \in Seq(STRING)
    BY <1>1, <1>5, PathFacts, Lists
  <2>9. Rel(c, e) = Rest(call[c].path, e.from)  BY DEF Rel
  <2>10. Rel(c, e) \in Seq(STRING) /\ Len(Rel(c, e)) \in Nat /\ Rel(c, e) # <<>>
    <3>1. Len(call[c].path) < Len(e.from)  BY <2>2, <2>8, PrefixOrder
    <3>2. Rel(c, e) \in Seq(STRING)  BY <2>2, <2>8, <2>9, RestIs
    <3>3. PICK n, a, b : n = Len(Rel(c, e)) /\ a = Len(call[c].path) /\ b = Len(e.from)  OBVIOUS
    <3>4. n = b - a /\ a < b /\ a \in Nat /\ b \in Nat  BY <2>8, <2>9, <3>1, <3>3, RestLength
    <3>5. n \in Nat /\ n # 0  BY <3>4
    <3>6. Rel(c, e) # <<>>  BY <3>3, <3>5
    <3> QED  BY <3>2, <3>3, <3>5, <3>6
  <2>11. ~TooDeep(c, e)  BY <2>3, <2>5, <2>6, <2>9, <2>10 DEF TooDeep
  <2>12. MatchDoublestar(o, Rel(c, e))  BY <2>4, <2>6, <2>9, <2>10, FitsMatches
  <2>13. matches  BY <2>2, <2>3, <2>7, <2>11, <2>12
  <2> QED  BY <1>2, <1>10, <2>2, <2>13
<1> QED  BY <1>1, <1>2, <1>10, <1>11, VisitGoes

\* No search has begun
LEMMA InitSInv == Init => SInv
<1> SUFFICES ASSUME Init PROVE SInv  OBVIOUS
<1>1. TInv  BY InitTInv
<1>2. \A c \in Calls : pc[c] = "idle" /\ answer[c] = NoAnswer  BY DEF Init
<1> QED  BY <1>1, <1>2 DEF SInv, SearchInv, SearchAt

\* Every step keeps what is due ahead of its search
LEMMA NextSInv == SInv /\ [Next]_vars => SInv'
<1> SUFFICES ASSUME SInv, [Next]_vars  PROVE SInv'  OBVIOUS
<1>1. TInv /\ TInv' /\ WInv /\ Typed /\ Typed'  BY NextTInv DEF SInv, TInv, WInv
<1>2. CASE Next
  <2>1. PICK e \in Calls : Step(e)  BY <1>2 DEF Next
  <2>2. RecordHistory  BY <1>2 DEF Next
  <2>3. Others(e)  BY <1>1, <2>1, StepKinds DEF Quiet, Opens, Fills
  <2>4. TodoNext(e)  BY <1>1, <2>1, TreeSteps
  <2>5. ASSUME NEW d \in Calls \ {e}  PROVE  SearchAt(d)'
    <3>1. todo'[d] = todo[d]  BY <1>1, <2>4 DEF TodoNext, Set, Typed
    <3>2. pc'[d] = pc[d] /\ call'[d] = call[d] /\ answer'[d] = answer[d]  BY <2>3 DEF Others
    <3>3. SearchAt(d)  BY DEF SInv, SearchInv
    <3> QED  BY <1>1, <2>2, <3>1, <3>2, <3>3, OthersSearch
  <2>6. SearchAt(e)'
    <3>1. SearchAt(e)  BY DEF SInv, SearchInv
    <3>2. pc'[e] # "idle"  BY <1>1, <2>1, StepBegins
    <3>3. CASE pc'[e] # "walk"  BY <3>2, <3>3 DEF SearchAt
    <3>4. CASE pc'[e] = "walk"
      <4>1. Search(e) \/ GrepVisit(e) \/ GlobVisit(e)  BY <1>1, <2>1, <3>4, WalkSteps
      <4> QED  BY <1>1, <2>2, <3>1, <3>4, <4>1, SearchStarts, GrepGoes, GlobGoes
    <3> QED  BY <3>3, <3>4
  <2> QED  BY <1>1, <2>5, <2>6 DEF SInv, SearchInv
<1>3. CASE UNCHANGED vars
  <2>1. UNCHANGED <<fileVars, pc, call, todo, answer, due>>
    BY <1>3 DEF vars, callVars, historyVars
  <2>2. ASSUME NEW c \in Calls  PROVE  SearchAt(c)'
    <3>1. SearchAt(c)  BY DEF SInv, SearchInv
    <3>2. \A k, m : /\ IsMatch(k, m)' <=> IsMatch(k, m)
                    /\ \A x : OnWay(x, m[1])' <=> OnWay(x, m[1])
      BY <2>1, SameMatches
    <3>3. DueIsAhead(c) => DueIsAhead(c)'  BY <2>1, <3>2 DEF DueIsAhead
    <3> QED  BY <2>1, <3>1, <3>3 DEF SearchAt, Searching, SearchAnswers, Matches, NoAnswer, Answer
  <2> QED  BY <1>1, <2>2 DEF SInv, SearchInv
<1> QED  BY <1>2, <1>3

\* Whatever calls run at the same time, a search that was neither cut off nor timed out
\* has found every match that was there from its beginning to its end: a path on the way
\* to such a match is never missing from what the search has yet to visit, and neither
\* the depth nor the pattern leaves out more than they say.
THEOREM SearchesFindAll == Spec => SearchFindsAll
<1>1. Init => SInv  BY InitSInv
<1>2. SInv /\ [Next]_vars => SInv'  BY NextSInv
<1>3. SInv /\ [Next]_vars =>
        [\A c \in Calls :
            (pc[c] = "walk" /\ pc'[c] = "done" /\ ~answer'[c].truncated /\ ~answer'[c].timedOut) =>
               due[c] \subseteq Range(answer'[c].value)]_vars
  <2> SUFFICES ASSUME SInv, Next, NEW c \in Calls, pc[c] = "walk", pc'[c] = "done",
                      ~answer'[c].truncated, ~answer'[c].timedOut
               PROVE  due[c] \subseteq Range(answer'[c].value)
    OBVIOUS
  <2>1. TInv /\ WInv /\ answer[c] \in SearchAnswers /\ DueIsAhead(c)
    BY DEF SInv, TInv, SearchInv, SearchAt
  <2>2. PICK e \in Calls : Step(e)  BY DEF Next
  <2>3. Others(e)  BY <2>1, <2>2, StepKinds DEF Quiet, Opens, Fills
  <2>4. e = c  BY <2>3 DEF Others
  <2>5. GrepVisit(c) \/ GlobVisit(c) \/ WalkEnds(c) \/ Deadline(c)  BY <2>1, <2>2, <2>4, WalkSteps
  <2>6. ~GrepVisit(c)
    <3>1. ASSUME NEW a, NEW v, a = [Answer("ok", v) EXCEPT !.truncated = TRUE]  PROVE  a.truncated
      BY <3>1 DEF Answer
    <3>2. \A a : Reply(c, a) => answer'[c] = a  BY <2>1, Ended1
    <3>3. SUFFICES ASSUME GrepVisit(c) PROVE FALSE  OBVIOUS
    <3>4. PICK v : Reply(c, [Answer("ok", v) EXCEPT !.truncated = TRUE])
      BY <3>3 DEF GrepVisit
    <3> QED  BY <3>1, <3>2, <3>4
  <2>7. ~GlobVisit(c)
    <3>1. [answer[c] EXCEPT !.status = "ok", !.truncated = TRUE].truncated  BY <2>1 DEF SearchAnswers
    <3> QED  BY <2>1, <3>1, Ended1 DEF GlobVisit
  <2>8. ~Deadline(c)
    <3>1. [answer[c] EXCEPT !.status = "ok", !.timedOut = TRUE].timedOut  BY <2>1 DEF SearchAnswers
    <3> QED  BY <2>1, <3>1, Ended1 DEF Deadline
  <2>9. CASE WalkEnds(c)
    <3>1. todo[c] = <<>> /\ answer'[c] = [answer[c] EXCEPT !.status = "ok"]
      BY <2>1, <2>9, Ended1 DEF WalkEnds
    <3>2. answer'[c].value = answer[c].value  BY <2>1, <3>1 DEF SearchAnswers
    <3> QED  BY <2>1, <3>1, <3>2 DEF DueIsAhead
  <2> QED  BY <2>5, <2>6, <2>7, <2>8, <2>9
<1> QED  BY <1>1, <1>2, <1>3, PTL DEF Spec, SearchFindsAll

-----------------------------------------------------------------------------
(***************************************************************************)
(* What a call that is alone keeps from its first step to its last.        *)
(***************************************************************************)

\* No lines are in a file that has not been created
Fresh == \A i \in Files : i >= nextFile => data[i] = <<>>

\* What a call k that was answered a promises of the tree v before it and w after it
Promise(c, k, v, w, a) ==
    /\ IF a.status = "ok" THEN Changed(c, k, v, w) /\ Reported(k, v, a)
       ELSE ChangedByFailure(k, v, w, a)
    /\ ~ReadsBehindEnd(k, v) => a.status # "panic"

\* What write_file or patch_file is to put into its file
Goal(c, k, v) ==
    IF k.tool = "patch_file" THEN Patched(k.opt.mode, Text(v[k.path]), c)
    ELSE IF k.opt.mode = "append" THEN Append(Text(v[k.path]), c) ELSE <<c>>

\* Until it writes, a call has only made directories and opened its file
Writing(c, v) ==
    LET k == call[c] IN
    pc[c] \in {"stat", "parents", "open", "write"} /\ k.tool \in {"write_file", "patch_file"} =>
        /\ k.tool = "write_file" => k.opt.mode \in Modes
        /\ k.tool = "patch_file" => buf[c] = Goal(c, k, v)
        /\ pc[c] # "write" => SameBut({}, v, View)
        /\ pc[c] = "write" =>
              /\ SameBut({k.path}, v, View)
              /\ tree[k.path] = handle[c]
              /\ Written(c, data[handle[c]]) = Goal(c, k, v)
              /\ k.opt.mode = "create_only" => v[k.path] = <<Absent>>

\* A call that has looked at the tree sees it again as it was
Looking(c, v) ==
    LET k == call[c] IN
    /\ pc[c] \in {"unlink", "mkdir", "readdir", "openread", "read", "walk"} => View = v
    /\ pc[c] \in {"unlink", "openread", "read"} => tree[k.path] \in Files
    /\ pc[c] \in {"openread", "read"} =>
          IF k.tool = "hash_file" THEN k.opt.by = "all"
          ELSE k.opt \in Windows /\ buf[c] = v[k.path]
    /\ pc[c] = "read" => source[c] = tree[k.path]

\* What is left below a directory that is being removed was there when it began
Removing(c, v) ==
    LET k == call[c] IN
    pc[c] = "removeall" =>
        /\ k.tool = "remove_folder" => SameBut(Below(k.path), v, View)
        /\ k.tool = "move" /\ Apart(k) => SameBut(Below(k.dest) \cup Below(k.path), v, View)
        /\ \A q \in Below(k.path) : tree[q] # Absent => \E i \in DOMAIN todo[c] : todo[c][i].from = q

\* A copy, and a move until it removes, changes nothing but the destination
Copying(c, v) ==
    LET k == call[c] IN
    (pc[c] \in {"parents", "rename", "restat", "copy", "fill"} /\ k.tool \in {"copy", "move"} /\ Apart(k)) =>
        SameBut(Below(k.dest), v, View)

\* An entry that a search has yet to visit is there, and not too deep
Visitable(k, e) ==
    /\ e.from \in Below(k.path) /\ tree[e.from] # Absent /\ (e.dir <=> tree[e.from] = Dir)
    /\ Near(k, e.from)

\* What a search has found is true, found once, and not more than it may report
Finding(c, v) ==
    LET k == call[c]
        s == answer[c].value IN
    pc[c] = "walk" =>
        /\ ~answer[c].truncated
        /\ Range(s) \subseteq Expected(v, k)
        /\ \A i, j \in DOMAIN s : i # j => s[i] # s[j]
        /\ Len(s) <= k.opt.max /\ (k.tool = "grep" => Len(s) < k.opt.max)
        /\ \A i \in DOMAIN s : \A j \in DOMAIN todo[c] : ~IsPrefix(todo[c][j].from, s[i][1])
        /\ \A j \in DOMAIN todo[c] : Visitable(k, todo[c][j])

\* Where a call is that began alone with the tree v
Kept(c, v) ==
    /\ Writing(c, v) /\ Looking(c, v) /\ Removing(c, v) /\ Copying(c, v) /\ Finding(c, v)
    /\ pc[c] = "done" => Promise(c, call[c], v, View, answer[c])

KeptInv == \A c \in Calls : before[c] # <<>> => Kept(c, before[c])

KInv == MInv /\ SInv /\ Fresh /\ KeptInv

-----------------------------------------------------------------------------
(***************************************************************************)
(* Views of the tree before and after a step.                              *)
(***************************************************************************)

\* What stays but for S, and then but for T, stays but for both
LEMMA SameTwice ==
    ASSUME NEW S, NEW T, NEW U, NEW v, NEW w, NEW x,
           SameBut(S, v, w), SameBut(T, w, x), S \cap Paths \subseteq U, T \cap Paths \subseteq U
    PROVE  SameBut(U, v, x)
<1>1. <<Absent>> # <<Dir>>  BY Constants
<1> QED  BY <1>1 DEF SameBut

\* A tree that is as it was is so but for anything
LEMMA SameAll ==
    ASSUME NEW S, NEW v
    PROVE  SameBut(S, v, v)
BY DEF SameBut

\* The view depends on the tree and the lines only
LEMMA ViewStays ==
    ASSUME UNCHANGED <<tree, data>>
    PROVE  View' = View
BY DEF View, Files

\* The view at a path after a step
LEMMA ViewNext ==
    ASSUME Typed', NEW q \in Paths
    PROVE  /\ View'[q] \notin {<<Absent>>, <<Dir>>} <=> tree'[q] \in Files
           /\ View'[q] = <<Absent>> <=> tree'[q] = Absent
           /\ View'[q] = <<Dir>> <=> tree'[q] = Dir
           /\ tree'[q] \in Files => View'[q] = data'[tree'[q]]
<1>1. View' = ViewIn(tree', data')  BY DEF View, ViewIn, Files
<1>2. tree' \in [Paths -> Files \cup {Absent, Dir}] /\ data' \in [Files -> Seq(Lines)]
  BY DEF Typed, Files, Absent, Dir
<1>3. /\ ViewIn(tree', data')[q] \notin {<<Absent>>, <<Dir>>} <=> tree'[q] \in Files
      /\ ViewIn(tree', data')[q] = <<Absent>> <=> tree'[q] = Absent
      /\ tree'[q] \in Files => ViewIn(tree', data')[q] = data'[tree'[q]]
  BY <1>2, ViewOf
<1>4. tree'[q] \in {Absent, Dir} => View'[q] = <<tree'[q]>>  BY Constants DEF View, Files
<1>5. <<Absent>> # <<Dir>>  BY Constants
<1> QED  BY <1>1, <1>2, <1>3, <1>4, <1>5, Constants

\* The same of the view before it
LEMMA ViewNow ==
    ASSUME Typed, NEW q \in Paths
    PROVE  /\ View[q] \notin {<<Absent>>, <<Dir>>} <=> tree[q] \in Files
           /\ View[q] = <<Absent>> <=> tree[q] = Absent
           /\ View[q] = <<Dir>> <=> tree[q] = Dir
           /\ tree[q] \in Files => View[q] = data[tree[q]]
<1>1. tree[q] \in {Absent, Dir} => View[q] = <<tree[q]>>  BY Constants DEF View
<1>2. <<Absent>> # <<Dir>>  BY Constants
<1>3. tree[q] \in Files \cup {Absent, Dir}  BY DEF Typed
<1> QED  BY <1>1, <1>2, <1>3, ViewIs, Constants

\* Directories that are made change nothing that is there
LEMMA DirsSame ==
    ASSUME Typed, NEW s, CanMkdirAll(s), tree' = WithDirs(s), data' = data
    PROVE  /\ SameBut({}, View, View')
           /\ View'[s] = <<Dir>>
           /\ \A q \in Paths : q # s /\ ~IsPrefix(q, s) => View'[q] = View[q]
<1>1. s \in Paths /\ s \in Seq(STRING) /\ IsPrefix(s, s)  BY PathFacts, PrefixOrder DEF CanMkdirAll
<1>2. \A q \in Paths : tree'[q] = IF IsPrefix(q, s) THEN Dir ELSE tree[q]  BY DEF WithDirs
<1>3. \A q \in Paths : tree'[q] = Dir => View'[q] = <<Dir>>  BY Constants DEF View, Files
<1>4. ASSUME NEW q \in Paths  PROVE  View'[q] = View[q] \/ (View[q] = <<Absent>> /\ View'[q] = <<Dir>>)
  <2>1. CASE IsPrefix(q, s) /\ tree[q] = Absent
    BY <1>2, <1>3, <2>1, ViewNow
  <2>2. CASE ~(IsPrefix(q, s) /\ tree[q] = Absent)
    <3>1. IsPrefix(q, s) => tree[q] = Dir  BY <2>2 DEF CanMkdirAll
    <3>2. tree'[q] = tree[q]  BY <1>2, <3>1
    <3> QED  BY <3>2, SameView
  <2> QED  BY <2>1, <2>2
<1>5. \A q \in Paths : ~IsPrefix(q, s) => View'[q] = View[q]  BY <1>2, SameView
<1> QED  BY <1>1, <1>2, <1>3, <1>4, <1>5 DEF SameBut

\* Nor do the parents of a path
LEMMA ParentsSame ==
    ASSUME Typed, NEW p, tree' = IF CanMakeParents(p) THEN WithParents(p) ELSE tree, data' = data
    PROVE  SameBut({}, View, View')
<1>1. CASE CanMakeParents(p) /\ Len(p) # 1
  <2>1. CanMkdirAll(Front(p)) /\ tree' = WithDirs(Front(p))  BY <1>1 DEF CanMakeParents, WithParents
  <2> QED  BY <2>1, DirsSame
<1>2. CASE ~(CanMakeParents(p) /\ Len(p) # 1)
  <2>1. tree' = tree  BY <1>2 DEF WithParents
  <2>2. View' = View  BY <2>1, ViewStays
  <2> QED  BY <2>2, SameAll
<1> QED  BY <1>1, <1>2

\* What is removed is gone, and nothing else
LEMMA DiscardSame ==
    ASSUME Typed, NEW p \in Paths, Discard(p)
    PROVE  /\ SameBut({p}, View, View') /\ View'[p] = <<Absent>>
           /\ \A q \in Paths : tree'[q] = IF q = p THEN Absent ELSE tree[q]
<1>1. tree' = [tree EXCEPT ![p] = Absent] /\ data' = data  BY DEF Discard
<1>2. \A q \in Paths : tree'[q] = IF q = p THEN Absent ELSE tree[q]  BY <1>1 DEF Typed
<1>3. \A q \in Paths : q # p => View'[q] = View[q]  BY <1>1, <1>2, SameView
<1>4. View'[p] = <<Absent>>  BY <1>2, Constants DEF View, Files
<1> QED  BY <1>2, <1>3, <1>4 DEF SameBut

\* A file that is opened to write has the lines it had, or none
LEMMA OpenSame ==
    ASSUME TInv, Fresh, NEW p, NEW b \in BOOLEAN, CanOpen(p), OpenFile(p, b)
    PROVE  /\ p \in Paths /\ SameBut({p}, View, View')
           /\ Opened(p) \in Files /\ tree'[p] = Opened(p)
           /\ data'[Opened(p)] = IF b THEN <<>> ELSE Text(View[p])
           /\ View[p] # <<Dir>>
           /\ ~IsFile(p) => View[p] = <<Absent>>
<1>1. WInv /\ Typed /\ OnePath  BY DEF TInv, WInv, TreeInv
<1>2. p \in Paths /\ tree[p] # Dir  BY DEF CanOpen, IsFolder, At
<1>3. Opened(p) \in Files  BY <1>1, <1>2, OpenedFile
<1>4. PICK o : o = Opened(p)  OBVIOUS
<1>5. \A q \in Paths : tree'[q] = IF q = p THEN o ELSE tree[q]
  BY <1>1, <1>2, <1>4 DEF OpenFile, Typed
<1>6. data' = IF b THEN [data EXCEPT ![o] = <<>>] ELSE data  BY <1>4 DEF OpenFile
<1>7. \A i \in Files : i # o => data'[i] = data[i]  BY <1>1, <1>3, <1>4, <1>6 DEF Typed
<1>8. \A q \in Paths : q # p => tree[q] # o
  <2>1. CASE IsFile(p)  BY <1>1, <1>2, <1>3, <1>4, <2>1 DEF Opened, OnePath
  <2>2. CASE ~IsFile(p)
    <3>1. o = nextFile /\ o \in Nat  BY <1>1, <1>4, <2>2, Constants DEF Opened, Typed
    <3>2. \A q \in Paths : tree[q] \in Files => tree[q] < nextFile  BY <1>1 DEF WInv, Numbered
    <3> QED  BY <1>3, <1>4, <3>1, <3>2
  <2> QED  BY <2>1, <2>2
<1>9. \A q \in Paths : q # p => View'[q] = View[q]
  <2>1. ASSUME NEW q \in Paths, q # p  PROVE  View'[q] = View[q]
    <3>1. tree'[q] = tree[q] /\ tree[q] # o  BY <1>5, <1>8, <2>1
    <3> QED  BY <1>7, <3>1, SameView
  <2> QED  BY <2>1
<1>10. View[p] # <<Dir>> /\ (~IsFile(p) => View[p] = <<Absent>>)
  <2>1. tree[p] \in Files \cup {Absent, Dir}  BY <1>1, <1>2 DEF Typed
  <2> QED  BY <1>1, <1>2, <2>1, ViewNow DEF IsFile, At
<1>11. data[o] = Text(View[p])
  <2>1. CASE IsFile(p)
    <3>1. o = tree[p] /\ tree[p] \in Files  BY <1>2, <1>4, <2>1 DEF Opened, IsFile, At
    <3>2. View[p] = data[o] /\ View[p] \notin {<<Absent>>, <<Dir>>}  BY <1>1, <1>2, <3>1, ViewNow
    <3> QED  BY <3>2 DEF Text
  <2>2. CASE ~IsFile(p)
    <3>1. o = nextFile  BY <1>4, <2>2 DEF Opened
    <3>2. data[o] = <<>>  BY <1>1, <1>3, <1>4, <3>1, Constants DEF Fresh, Typed
    <3>3. Text(View[p]) = <<>>  BY <1>10, <2>2 DEF Text
    <3> QED  BY <3>2, <3>3
  <2> QED  BY <2>1, <2>2
<1>12. data'[o] = IF b THEN <<>> ELSE data[o]  BY <1>1, <1>3, <1>4, <1>6 DEF Typed
<1> QED  BY <1>2, <1>3, <1>4, <1>5, <1>9, <1>10, <1>11, <1>12 DEF SameBut

\* A file that is written changes at its path only
LEMMA WriteSame ==
    ASSUME TInv, NEW p \in Paths, tree[p] \in Files, NEW x \in Seq(Lines),
           data' = [data EXCEPT ![tree[p]] = x], tree' = tree
    PROVE  SameBut({p}, View, View') /\ View'[p] = x
<1>1. Typed /\ OnePath  BY DEF TInv, WInv, TreeInv
<1>2. data'[tree[p]] = x /\ \A i \in Files : i # tree[p] => data'[i] = data[i]  BY <1>1 DEF Typed
<1>3. ASSUME NEW q \in Paths, q # p  PROVE  View'[q] = View[q]
  <2>1. tree[q] # tree[p]  BY <1>1, <1>3 DEF OnePath
  <2> QED  BY <1>2, <2>1, SameView
<1>4. View'[p] = x  BY <1>2 DEF View, Files
<1> QED  BY <1>3, <1>4 DEF SameBut

-----------------------------------------------------------------------------
(***************************************************************************)
(* How a call that is alone begins.                                        *)
(***************************************************************************)

\* A file that has not been created stays empty
LEMMA FreshStays ==
    ASSUME TInv, Fresh, NEW c \in Calls, Step(c)
    PROVE  Fresh'
<1>1. WInv  BY DEF TInv
<1>2. Quiet(c) \/ Opens(c) \/ Fills(c)  BY <1>1, StepKinds
<1>3. CASE Quiet(c)  BY <1>3 DEF Quiet, Fresh, Files
<1>4. CASE Opens(c)
  <2>1. /\ nextFile \in Nat /\ nextFile' \in Nat /\ nextFile <= nextFile'
        /\ \A i \in Files : data'[i] = data[i] \/ data'[i] = <<>>
    BY <1>1, <1>4, Constants DEF Opens, Typed, WInv, Files, Absent, Dir
  <2> QED  BY <2>1, Constants DEF Fresh, Files
<1>5. CASE Fills(c)
  <2>1. /\ nextFile' = nextFile /\ handle[c] < nextFile
        /\ \A i \in Files : i # handle[c] => data'[i] = data[i]
    BY <1>1, <1>5 DEF Fills, WInv, Numbered
  <2>2. handle[c] \in Files  BY <1>5 DEF Fills
  <2>3. nextFile \in Nat  BY <1>1, Constants DEF WInv, Typed
  <2> QED  BY <2>1, <2>2, <2>3, Constants DEF Fresh, Files
<1> QED  BY <1>2, <1>3, <1>4, <1>5

\* A call that has been answered needs only what it promises
LEMMA KeptDone ==
    ASSUME NEW c \in Calls, NEW v, pc'[c] = "done",
           Promise(c, call'[c], v, View', answer'[c])
    PROVE  Kept(c, v)'
<1>1. Writing(c, v)' /\ Looking(c, v)' /\ Removing(c, v)' /\ Copying(c, v)' /\ Finding(c, v)'
  BY DEF Writing, Looking, Removing, Copying, Finding
<1>2. Promise(c, call[c], v, View, answer[c])'
  BY DEF Promise, Changed, ChangedByFailure, Reported, SameBut, Apart, Moved, Below, Text,
         Patched, Expected, Asked
<1> QED  BY <1>1, <1>2 DEF Kept

\* A call that failed and changed nothing promises no more
LEMMA FailHolds ==
    ASSUME NEW c, NEW k, NEW v, NEW w, NEW a, SameBut({}, v, w), a.status \notin {"ok", "panic"}
    PROVE  Promise(c, k, v, w, a)
<1>1. \A S : SameBut(S, v, w)  BY DEF SameBut
<1>2. ChangedByFailure(k, v, w, a)
  <2>1. CASE k.tool \in {"copy", "move"}  BY <1>1, <2>1 DEF ChangedByFailure
  <2>2. CASE k.tool \notin {"copy", "move"}  BY <1>1, <2>2 DEF ChangedByFailure
  <2> QED  BY <2>1, <2>2
<1> QED  BY <1>2 DEF Promise

\* The tools that change nothing and report no more than that
LEMMA NothingHolds ==
    ASSUME NEW c, NEW k, NEW v, NEW a, a.status = "ok", k.tool \in {"stat_file", "permissions_file"}
    PROVE  Promise(c, k, v, v, a)
BY DEF Promise, Changed, Reported

LEMMA Statuses ==
    /\ Ok.status = "ok" /\ Error.status = "error"
    /\ \A s, v : Answer(s, v).status = s /\ Answer(s, v).value = v /\ ~Answer(s, v).truncated
    /\ Ok.value = <<>> /\ ~Ok.truncated
BY DEF Ok, Error, Answer

\* A call that is refused, and one that looks once
LEMMA RefuseKeeps ==
    ASSUME TInv, NEW c \in Calls, Refuse(c), NEW v, v = View
    PROVE  Kept(c, v)'
<1>1. UNCHANGED <<tree, data>> /\ pc'[c] = "done" /\ answer'[c] = Error
  BY Ended1 DEF Refuse, fileVars, TInv
<1>2. View' = v  BY <1>1, ViewStays
<1>3. Promise(c, call'[c], v, View', answer'[c])  BY <1>1, <1>2, FailHolds, SameAll, Statuses
<1> QED  BY <1>1, <1>3, KeptDone

LEMMA StatKeeps ==
    ASSUME TInv, NEW c \in Calls, StatFile(c), NEW v, v = View
    PROVE  Kept(c, v)'
<1>0. WInv  BY DEF TInv
<1>1. PICK p \in Paths, tool \in {"stat_file", "permissions_file"} :
        /\ Begin(c, tool, p, p, NoOpt)
        /\ Reply(c, IF At(p) = Absent THEN Error ELSE Ok)
        /\ UNCHANGED <<fileVars, handle, source, buf, todo>>
  BY DEF StatFile
<1>2. UNCHANGED <<tree, data>> /\ pc'[c] = "done" /\ answer'[c] \in {Error, Ok}
  BY <1>0, <1>1, Ended1 DEF fileVars
<1>3. call'[c] = Call(tool, p, p, NoOpt)  BY <1>0, <1>1, Changed1 DEF Begin
<1>4. call'[c].tool \in {"stat_file", "permissions_file"}  BY <1>3 DEF Call
<1>5. View' = v  BY <1>2, ViewStays
<1>6. Promise(c, call'[c], v, View', answer'[c])
  BY <1>2, <1>4, <1>5, FailHolds, NothingHolds, SameAll, Statuses
<1> QED  BY <1>2, <1>6, KeptDone

\* A call that ends with an error, and has changed nothing but for directories made
LEMMA ErrorKeeps ==
    ASSUME NEW c \in Calls, NEW v, pc'[c] = "done", answer'[c] = Error, SameBut({}, v, View')
    PROVE  Kept(c, v)'
<1>1. Promise(c, call'[c], v, View', answer'[c])  BY FailHolds, Statuses
<1> QED  BY <1>1, KeptDone

\* A call that has looked at the tree, and goes on
LEMMA LookKeeps ==
    ASSUME NEW c \in Calls, NEW v, View' = v,
           pc'[c] \in {"unlink", "mkdir", "readdir", "openread"},
           pc'[c] \in {"unlink", "openread"} => tree'[call'[c].path] \in Files,
           pc'[c] = "openread" =>
              IF call'[c].tool = "hash_file" THEN call'[c].opt.by = "all"
              ELSE call'[c].opt \in Windows /\ buf'[c] = v[call'[c].path]
    PROVE  Kept(c, v)'
<1>1. Writing(c, v)' /\ Removing(c, v)' /\ Copying(c, v)' /\ Finding(c, v)'
  BY DEF Writing, Removing, Copying, Finding
<1>2. Looking(c, v)'  BY DEF Looking, Files
<1> QED  BY <1>1, <1>2 DEF Kept

\* remove_file, create_folder and list_folder look before they act
LEMMA RemoveFileKeeps ==
    ASSUME TInv, NEW c \in Calls, RemoveFile(c), NEW v, v = View
    PROVE  Kept(c, v)'
<1>0. WInv  BY DEF TInv
<1>1. PICK p \in Paths :
        /\ Begin(c, "remove_file", p, p, NoOpt)
        /\ GotoIf(IsFile(p), c, "unlink")
        /\ UNCHANGED <<fileVars, handle, source, buf, todo>>
  BY DEF RemoveFile
<1>2. UNCHANGED <<tree, data>>  BY <1>1 DEF fileVars
<1>3. View' = v  BY <1>2, ViewStays
<1>4. call'[c].path = p
  <2>1. call'[c] = Call("remove_file", p, p, NoOpt)  BY <1>0, <1>1, Changed1 DEF Begin
  <2> QED  BY <2>1 DEF Call
<1>5. CASE IsFile(p)
  <2>1. pc'[c] = "unlink"  BY <1>0, <1>1, <1>5, Ended1 DEF GotoIf
  <2>2. tree'[p] \in Files  BY <1>2, <1>5 DEF IsFile, At
  <2> QED  BY <1>3, <1>4, <2>1, <2>2, LookKeeps
<1>6. CASE ~IsFile(p)
  <2>1. pc'[c] = "done" /\ answer'[c] = Error  BY <1>0, <1>1, <1>6, Ended1 DEF GotoIf
  <2> QED  BY <1>3, <2>1, ErrorKeeps, SameAll
<1> QED  BY <1>5, <1>6

LEMMA CreateFolderKeeps ==
    ASSUME TInv, NEW c \in Calls, CreateFolder(c), NEW v, v = View
    PROVE  Kept(c, v)'
<1>0. WInv /\ Typed  BY DEF TInv, WInv
<1>1. PICK p \in Paths :
        /\ Begin(c, "create_folder", p, p, NoOpt)
        /\ IF At(p) = Absent THEN Goto(c, "mkdir")
           ELSE Reply(c, IF IsFolder(p) THEN Ok ELSE Error)
        /\ UNCHANGED <<fileVars, handle, source, buf, todo>>
  BY DEF CreateFolder
<1>2. UNCHANGED <<tree, data>>  BY <1>1 DEF fileVars
<1>3. View' = v  BY <1>2, ViewStays
<1>4. call'[c].path = p /\ call'[c].tool = "create_folder"
  <2>1. call'[c] = Call("create_folder", p, p, NoOpt)  BY <1>0, <1>1, Changed1 DEF Begin
  <2> QED  BY <2>1 DEF Call
<1>5. CASE At(p) = Absent
  <2>1. pc'[c] = "mkdir"  BY <1>0, <1>1, <1>5, Ended1
  <2> QED  BY <1>3, <2>1, LookKeeps
<1>6. CASE At(p) # Absent /\ IsFolder(p)
  <2>1. pc'[c] = "done" /\ answer'[c] = Ok  BY <1>0, <1>1, <1>6, Ended1
  <2>2. v[p] = <<Dir>>  BY <1>0, <1>6, ViewNow DEF IsFolder, At
  <2>3. Changed(c, call'[c], v, View')  BY <1>3, <1>4, <2>2, SameAll DEF Changed
  <2>4. Reported(call'[c], v, answer'[c])  BY <1>4 DEF Reported
  <2> QED  BY <2>1, <2>3, <2>4, KeptDone, Statuses DEF Promise
<1>7. CASE At(p) # Absent /\ ~IsFolder(p)
  <2>1. pc'[c] = "done" /\ answer'[c] = Error  BY <1>0, <1>1, <1>7, Ended1
  <2> QED  BY <1>3, <2>1, ErrorKeeps, SameAll
<1> QED  BY <1>5, <1>6, <1>7

LEMMA ListFolderKeeps ==
    ASSUME TInv, NEW c \in Calls, ListFolder(c), NEW v, v = View
    PROVE  Kept(c, v)'
<1>0. WInv  BY DEF TInv
<1>1. PICK p \in Paths :
        GotoIf(IsFolder(p), c, "readdir") /\ UNCHANGED <<fileVars, handle, source, buf, todo>>
  BY DEF ListFolder
<1>2. View' = v  BY <1>1, ViewStays DEF fileVars
<1>3. pc'[c] = "readdir" \/ (pc'[c] = "done" /\ answer'[c] = Error)
  BY <1>0, <1>1, Ended1 DEF GotoIf
<1> QED  BY <1>2, <1>3, LookKeeps, ErrorKeeps, SameAll

\* read_file and hash_file know that there is a file, and how large it is
LEMMA ReadFileKeeps ==
    ASSUME TInv, NEW c \in Calls, ReadFile(c), NEW v, v = View
    PROVE  Kept(c, v)'
<1>0. WInv /\ Typed  BY DEF TInv, WInv
<1>1. PICK p \in Paths, w \in Windows :
        /\ Begin(c, "read_file", p, p, w)
        /\ GotoIf(IsFile(p) /\ (w.by = "all" => Len(data[tree[p]]) <= MaxFullRead), c, "openread")
        /\ Set(buf, c, IF IsFile(p) THEN data[tree[p]] ELSE <<>>)
        /\ UNCHANGED <<fileVars, handle, source, todo>>
  BY DEF ReadFile
<1>2. UNCHANGED <<tree, data>>  BY <1>1 DEF fileVars
<1>3. View' = v  BY <1>2, ViewStays
<1>4. call'[c].path = p /\ call'[c].tool = "read_file" /\ call'[c].opt = w
  <2>1. call'[c] = Call("read_file", p, p, w)  BY <1>0, <1>1, Changed1 DEF Begin
  <2> QED  BY <2>1 DEF Call
<1>5. \/ pc'[c] = "openread" /\ IsFile(p)
      \/ pc'[c] = "done" /\ answer'[c] = Error
  BY <1>0, <1>1, Ended1 DEF GotoIf
<1>6. CASE pc'[c] = "openread" /\ IsFile(p)
  <2>1. tree[p] \in Files  BY <1>6 DEF IsFile, At
  <2>2. buf'[c] = data[tree[p]]  BY <1>0, <1>1, <1>6, Changed1
  <2>3. buf'[c] = v[p]  BY <1>0, <2>1, <2>2, ViewNow
  <2> QED  BY <1>2, <1>3, <1>4, <1>6, <2>1, <2>3, LookKeeps
<1>7. CASE pc'[c] = "done" /\ answer'[c] = Error  BY <1>3, <1>7, ErrorKeeps, SameAll
<1> QED  BY <1>5, <1>6, <1>7

LEMMA HashFileKeeps ==
    ASSUME TInv, NEW c \in Calls, HashFile(c), NEW v, v = View
    PROVE  Kept(c, v)'
<1>0. WInv  BY DEF TInv
<1>1. PICK p \in Paths :
        /\ Begin(c, "hash_file", p, p, [by |-> "all", offset |-> -1, limit |-> -1])
        /\ GotoIf(IsFile(p), c, "openread")
        /\ UNCHANGED <<fileVars, handle, source, buf, todo>>
  BY DEF HashFile
<1>2. UNCHANGED <<tree, data>>  BY <1>1 DEF fileVars
<1>3. View' = v  BY <1>2, ViewStays
<1>4. call'[c].path = p /\ call'[c].tool = "hash_file" /\ call'[c].opt.by = "all"
  <2>1. call'[c] = Call("hash_file", p, p, [by |-> "all", offset |-> -1, limit |-> -1])
    BY <1>0, <1>1, Changed1 DEF Begin
  <2> QED  BY <2>1 DEF Call
<1>5. \/ pc'[c] = "openread" /\ IsFile(p)
      \/ pc'[c] = "done" /\ answer'[c] = Error
  BY <1>0, <1>1, Ended1 DEF GotoIf
<1>6. CASE pc'[c] = "openread" /\ IsFile(p)
  <2>1. tree'[p] \in Files  BY <1>2, <1>6 DEF IsFile, At
  <2> QED  BY <1>3, <1>4, <1>6, <2>1, LookKeeps
<1>7. CASE pc'[c] = "done" /\ answer'[c] = Error  BY <1>3, <1>7, ErrorKeeps, SameAll
<1> QED  BY <1>5, <1>6, <1>7

\* write_file may make directories; patch_file has computed the lines it is to write
LEMMA WriteFileKeeps ==
    ASSUME TInv, NEW c \in Calls, WriteFile(c), NEW v, v = View
    PROVE  Kept(c, v)'
<1>0. WInv /\ Typed  BY DEF TInv, WInv
<1>1. PICK p \in Paths, mode \in Modes :
        /\ Begin(c, "write_file", p, p, [mode |-> mode])
        /\ tree' = IF CanMakeParents(p) THEN WithParents(p) ELSE tree
        /\ GotoIf(CanMakeParents(p), c, IF mode = "create_only" THEN "stat" ELSE "open")
        /\ UNCHANGED <<data, nextFile, handle, source, todo>>
  BY DEF WriteFile
<1>2. SameBut({}, v, View')  BY <1>0, <1>1, ParentsSame
<1>3. call'[c].tool = "write_file" /\ call'[c].opt.mode \in Modes
  <2>1. call'[c] = Call("write_file", p, p, [mode |-> mode])
    BY <1>0, <1>1, Changed1 DEF Begin
  <2> QED  BY <2>1 DEF Call
<1>4. \/ Goto(c, "stat") \/ Goto(c, "open") \/ Reply(c, Error)  BY <1>1 DEF GotoIf
<1>5. pc'[c] \in {"stat", "open"} \/ (pc'[c] = "done" /\ answer'[c] = Error)
  BY <1>0, <1>4, Ended1
<1>6. CASE pc'[c] \in {"stat", "open"}
  <2>1. Looking(c, v)' /\ Removing(c, v)' /\ Copying(c, v)' /\ Finding(c, v)'
    BY <1>6 DEF Looking, Removing, Copying, Finding
  <2>2. Writing(c, v)'  BY <1>2, <1>3, <1>6 DEF Writing
  <2> QED  BY <1>6, <2>1, <2>2 DEF Kept
<1> QED  BY <1>2, <1>5, <1>6, ErrorKeeps

LEMMA PatchFileKeeps ==
    ASSUME TInv, NEW c \in Calls, PatchFile(c), NEW v, v = View
    PROVE  Kept(c, v)'
<1>0. WInv /\ Typed  BY DEF TInv, WInv
<1>1. PICK p \in Paths, kind \in {"insert", "context"} :
        LET lines == IF IsFile(p) THEN data[tree[p]] ELSE <<>> IN
        /\ Begin(c, "patch_file", p, p, [mode |-> kind])
        /\ GotoIf(Applies(kind, lines), c, "parents")
        /\ Set(buf, c, IF Applies(kind, lines) THEN Patched(kind, lines, c) ELSE <<>>)
        /\ UNCHANGED <<fileVars, handle, source, todo>>
  BY DEF PatchFile
<1>2. PICK lines : lines = IF IsFile(p) THEN data[tree[p]] ELSE <<>>  OBVIOUS
<1>3. /\ GotoIf(Applies(kind, lines), c, "parents")
      /\ Set(buf, c, IF Applies(kind, lines) THEN Patched(kind, lines, c) ELSE <<>>)
      /\ UNCHANGED <<tree, data>>
  BY <1>1, <1>2 DEF fileVars
<1>4. View' = v  BY <1>3, ViewStays
<1>5. call'[c].tool = "patch_file" /\ call'[c].opt.mode = kind /\ call'[c].path = p
  <2>1. call'[c] = Call("patch_file", p, p, [mode |-> kind])  BY <1>0, <1>1, Changed1 DEF Begin
  <2> QED  BY <2>1 DEF Call
<1>6. lines = Text(v[p])
  <2>1. CASE IsFile(p)
    <3>1. tree[p] \in Files  BY <2>1 DEF IsFile, At
    <3> QED  BY <1>0, <1>2, <2>1, <3>1, ViewNow DEF Text
  <2>2. CASE ~IsFile(p)
    <3>1. tree[p] \notin Files  BY <2>2 DEF IsFile, At
    <3> QED  BY <1>0, <1>2, <2>2, <3>1, ViewNow DEF Text
  <2> QED  BY <2>1, <2>2
<1>7. CASE Applies(kind, lines)
  <2>1. pc'[c] = "parents" /\ buf'[c] = Patched(kind, lines, c)
    BY <1>0, <1>3, <1>7, Ended1, Changed1 DEF GotoIf
  <2>2. buf'[c] = Goal(c, call'[c], v)  BY <1>5, <1>6, <2>1 DEF Goal
  <2>3. Looking(c, v)' /\ Removing(c, v)' /\ Copying(c, v)' /\ Finding(c, v)'
    BY <1>5, <2>1 DEF Looking, Removing, Copying, Finding
  <2>4. SameBut({}, v, View')  BY <1>4, SameAll
  <2>5. Goal(c, call[c], v)' = Goal(c, call'[c], v)  BY DEF Goal, Patched, Text
  <2>6. Writing(c, v)'  BY <1>5, <2>1, <2>2, <2>4, <2>5 DEF Writing
  <2> QED  BY <2>1, <2>3, <2>6 DEF Kept
<1>8. CASE ~Applies(kind, lines)
  <2>1. pc'[c] = "done" /\ answer'[c] = Error  BY <1>0, <1>3, <1>8, Ended1 DEF GotoIf
  <2> QED  BY <1>4, <2>1, ErrorKeeps, SameAll
<1> QED  BY <1>7, <1>8

\* Contents leaves nothing out that is below a directory
LEMMA ContentsAll ==
    ASSUME NEW p, NEW q \in Below(p), tree[q] # Absent
    PROVE  \E i \in DOMAIN Contents(p) : Contents(p)[i].from = q
<1> DEFINE Q == {r \in Below(p) : tree[r] # Absent}
           S == {Entry(r, r) : r \in Q}
           f == [e \in S |-> e.from]
<1>1. Q \subseteq Paths  BY DEF Below
<1>2. \A r \in Q : Entry(r, r) \in Entries /\ Entry(r, r).from = r  BY <1>1, EntryIs, Zenon
<1>3. \A e \in S : e \in Entries /\ e.from \in Q /\ e = Entry(e.from, e.from)  BY <1>2
<1>4. Entry(q, q) \in S /\ Entry(q, q).from = q  BY <1>2
<1> HIDE DEF S
<1>5. f \in [S -> Paths] /\ \A a, b \in S : f[a] = f[b] => a = b  BY <1>1, <1>3
<1> HIDE DEF f
<1>6. f \in Injection(S, Paths)  BY <1>5 DEF Injection, IsInjective
<1>7. IsFiniteSet(S)  BY <1>6, FS_Injection, PathsHaveParents
<1> DEFINE m == Cardinality(S)
           g == SetToSeq(S)
<1>8. m \in Nat  BY <1>7, FS_CardinalityType
<1>9. \E h \in [1 .. m -> S] : IsInjective(h)
  <2>1. ExistsBijection(1 .. m, S)  BY <1>7, FS_CardinalityType
  <2>2. PICK h : h \in Bijection(1 .. m, S)  BY <2>1 DEF ExistsBijection
  <2> QED  BY <2>2 DEF Bijection, Injection
<1>10. g \in [1 .. m -> S] /\ IsInjective(g)  BY <1>9 DEF SetToSeq
<1>11. Contents(p) = g  BY DEF Contents, S
<1> HIDE DEF g
<1>12. Cardinality(1 .. m) = m
  <2> HIDE DEF m
  <2>1. 1 \in Int /\ m \in Int  BY <1>8
  <2>2. Cardinality(1 .. m) = IF 1 > m THEN 0 ELSE m - 1 + 1  BY <2>1, FS_Interval
  <2> QED  BY <1>8, <2>2
<1>13. g \in Injection(1 .. m, S)  BY <1>10 DEF Injection
<1>14. g \in Surjection(1 .. m, S)  BY <1>7, <1>12, <1>13, FS_Injection
<1>15. PICK i \in 1 .. m : g[i] = Entry(q, q)  BY <1>4, <1>14 DEF Surjection
<1> QED  BY <1>4, <1>10, <1>11, <1>15

\* remove_folder has listed all there is to remove
LEMMA RemoveFolderKeeps ==
    ASSUME TInv, NEW c \in Calls, RemoveFolder(c), NEW v, v = View
    PROVE  Kept(c, v)'
<1>0. WInv  BY DEF TInv
<1>1. PICK p \in Paths :
        /\ Begin(c, "remove_folder", p, p, NoOpt)
        /\ GotoIf(Len(p) > 1 /\ IsFolder(p), c, "removeall")
        /\ Set(todo, c, IF Len(p) > 1 /\ IsFolder(p) THEN Contents(p) ELSE <<>>)
        /\ UNCHANGED <<fileVars, handle, source, buf>>
  BY DEF RemoveFolder
<1>2. UNCHANGED <<tree, data>>  BY <1>1 DEF fileVars
<1>3. View' = v  BY <1>2, ViewStays
<1>4. call'[c].path = p /\ call'[c].tool = "remove_folder"
  <2>1. call'[c] = Call("remove_folder", p, p, NoOpt)  BY <1>0, <1>1, Changed1 DEF Begin
  <2> QED  BY <2>1 DEF Call
<1>5. CASE Len(p) > 1 /\ IsFolder(p)
  <2>1. pc'[c] = "removeall" /\ todo'[c] = Contents(p)  BY <1>0, <1>1, <1>5, Ended1, Changed1 DEF GotoIf
  <2>2. \A q \in Below(p) : tree'[q] # Absent => \E i \in DOMAIN todo'[c] : todo'[c][i].from = q
    BY <1>2, <2>1, ContentsAll
  <2>3. Writing(c, v)' /\ Looking(c, v)' /\ Copying(c, v)' /\ Finding(c, v)'
    BY <2>1 DEF Writing, Looking, Copying, Finding
  <2>4. SameBut(Below(p), v, View')  BY <1>3, SameAll
  <2>5. Removing(c, v)'  BY <1>4, <2>2, <2>4 DEF Removing, Below, Absent
  <2> QED  BY <2>1, <2>3, <2>5 DEF Kept
<1>6. CASE ~(Len(p) > 1 /\ IsFolder(p))
  <2>1. pc'[c] = "done" /\ answer'[c] = Error
    <3>1. Reply(c, Error)  BY <1>1, <1>6 DEF GotoIf
    <3> QED  BY <1>0, <3>1, Ended1
  <2> QED  BY <1>3, <2>1, ErrorKeeps, SameAll
<1> QED  BY <1>5, <1>6

\* A copy or a move that goes on has changed nothing but the destination
LEMMA CopyGoes ==
    ASSUME NEW c \in Calls, NEW v,
           pc'[c] \in {"parents", "rename", "restat", "copy", "fill"}, call'[c].tool \in {"copy", "move"},
           Apart(call'[c]) => SameBut(Below(call'[c].dest), v, View')
    PROVE  Kept(c, v)'
<1>1. Writing(c, v)' /\ Looking(c, v)' /\ Removing(c, v)' /\ Finding(c, v)'
  BY DEF Writing, Looking, Removing, Finding
<1>2. Copying(c, v)'  BY DEF Copying, Apart, Below, SameBut
<1> QED  BY <1>1, <1>2 DEF Kept

\* Copy and Move look for the source first
LEMMA CopyStarts ==
    ASSUME TInv, NEW c \in Calls, Copy(c) \/ Move(c), NEW v, v = View
    PROVE  Kept(c, v)'
<1>0. WInv  BY DEF TInv
<1>1. PICK tool \in {"copy", "move"}, p \in Paths, q \in Paths :
        /\ Begin(c, tool, p, q, NoOpt)
        /\ GotoIf(At(p) # Absent, c, "parents")
        /\ UNCHANGED fileVars
  BY DEF Copy, Move
<1>2. View' = v  BY <1>1, ViewStays DEF fileVars
<1>3. call'[c].tool = tool
  <2>1. call'[c] = Call(tool, p, q, NoOpt)  BY <1>0, <1>1, Changed1 DEF Begin
  <2> QED  BY <2>1 DEF Call
<1>4. pc'[c] = "parents" \/ (pc'[c] = "done" /\ answer'[c] = Error)
  BY <1>0, <1>1, Ended1 DEF GotoIf
<1>5. SameBut(Below(call'[c].dest), v, View') /\ SameBut({}, v, View')  BY <1>2, SameAll
<1>6. CASE pc'[c] = "parents"  BY <1>3, <1>5, <1>6, CopyGoes
<1> QED  BY <1>4, <1>5, <1>6, ErrorKeeps

-----------------------------------------------------------------------------
(***************************************************************************)
(* How it goes on, when it is not a search.                                *)
(***************************************************************************)

\* What each call may rely on
Alone(c, v) == TInv /\ Fresh /\ c \in Calls /\ pc[c] \notin {"idle", "done"} /\ Kept(c, v)

\* write_file checks that there is nothing
LEMMA CheckKeeps ==
    ASSUME NEW c \in Calls, NEW v, Alone(c, v), CheckAbsent(c)
    PROVE  Kept(c, v)'
<1>0. WInv /\ Typed /\ TInv  BY DEF Alone, TInv, WInv
<1>1. /\ pc[c] = "stat" /\ UNCHANGED <<tree, data, call, buf>>
      /\ GotoIf(At(call[c].path) = Absent, c, "open")
  BY DEF CheckAbsent, fileVars
<1>2. call[c].tool = "write_file"  BY <1>0, <1>1, Here, ToolTable
<1>3. View' = View  BY <1>1, ViewStays
<1>4. call[c].opt.mode \in Modes /\ SameBut({}, v, View)
  BY <1>1, <1>2 DEF Alone, Kept, Writing
<1>5. pc'[c] = "open" \/ (pc'[c] = "done" /\ answer'[c] = Error)
  BY <1>0, <1>1, Ended1 DEF GotoIf
<1>6. CASE pc'[c] = "open"
  <2>1. Looking(c, v)' /\ Removing(c, v)' /\ Copying(c, v)' /\ Finding(c, v)'
    BY <1>6 DEF Looking, Removing, Copying, Finding
  <2>2. Writing(c, v)'  BY <1>1, <1>2, <1>3, <1>4, <1>6 DEF Writing
  <2> QED  BY <1>6, <2>1, <2>2 DEF Kept
<1> QED  BY <1>3, <1>4, <1>5, <1>6, ErrorKeeps

\* patch_file, copy and move make directories
LEMMA ParentsKeep ==
    ASSUME NEW c \in Calls, NEW v, Alone(c, v), MakeParents(c)
    PROVE  Kept(c, v)'
<1>0. WInv /\ Typed /\ TInv  BY DEF Alone, TInv, WInv
<1>1. PICK p : p = call[c].dest  OBVIOUS
<1>2. /\ pc[c] = "parents" /\ UNCHANGED <<data, call, buf>>
      /\ tree' = IF CanMakeParents(p) THEN WithParents(p) ELSE tree
  BY <1>1 DEF MakeParents
<1>3. call[c].tool \in {"patch_file", "copy", "move"}  BY <1>0, <1>2, Here, ToolTable
<1>4. SameBut({}, View, View')  BY <1>0, <1>2, ParentsSame
<1>5. CASE call[c].tool = "patch_file"
  <2>1. SameBut({}, v, View) /\ buf[c] = Goal(c, call[c], v)
    BY <1>2, <1>5 DEF Alone, Kept, Writing
  <2>2. SameBut({}, v, View')  BY <1>4, <2>1, SameTwice
  <2>3. Goto(c, "open") \/ Reply(c, Error)  BY <1>5 DEF MakeParents, GotoIf
  <2>4. pc'[c] = "open" \/ (pc'[c] = "done" /\ answer'[c] = Error)  BY <1>0, <2>3, Ended1
  <2>5. CASE pc'[c] = "open"
    <3>1. Looking(c, v)' /\ Removing(c, v)' /\ Copying(c, v)' /\ Finding(c, v)'
      BY <2>5 DEF Looking, Removing, Copying, Finding
    <3>2. Goal(c, call[c], v)' = Goal(c, call[c], v)  BY <1>2 DEF Goal, Patched, Text
    <3>3. Writing(c, v)'  BY <1>2, <1>5, <2>1, <2>2, <2>5, <3>2 DEF Writing
    <3> QED  BY <2>5, <3>1, <3>3 DEF Kept
  <2> QED  BY <2>2, <2>4, <2>5, ErrorKeeps
<1>6. CASE call[c].tool \in {"copy", "move"}
  <2>1. Apart(call[c]) => SameBut(Below(call[c].dest), v, View)
    BY <1>2, <1>6 DEF Alone, Kept, Copying
  <2>2. Apart(call[c]) => SameBut(Below(call[c].dest), v, View')  BY <1>4, <2>1, SameTwice
  <2>3. Goto(c, "copy") \/ Goto(c, "rename") \/ Reply(c, Error)  BY <1>6 DEF MakeParents, GotoIf
  <2>4. pc'[c] \in {"copy", "rename"} \/ (pc'[c] = "done" /\ answer'[c] = Error)
    BY <1>0, <2>3, Ended1
  <2>5. CASE pc'[c] \in {"copy", "rename"}  BY <1>2, <1>6, <2>2, <2>5, CopyGoes
  <2>6. CASE pc'[c] = "done" /\ answer'[c] = Error
    <3>1. ChangedByFailure(call'[c], v, View', answer'[c])  BY <1>2, <1>6, <2>2 DEF ChangedByFailure
    <3>2. Promise(c, call'[c], v, View', answer'[c])  BY <2>6, <3>1, Statuses DEF Promise
    <3> QED  BY <2>6, <3>2, KeptDone
  <2> QED  BY <2>4, <2>5, <2>6
<1> QED  BY <1>3, <1>5, <1>6

\* The lines of a text
LEMMA TextIsLines ==
    ASSUME Typed, NEW q \in Paths
    PROVE  Text(View[q]) \in Seq(Lines)
<1>1. tree[q] \in Files \cup {Absent, Dir} /\ data \in [Files -> Seq(Lines)]  BY DEF Typed
<1>2. CASE tree[q] \in Files  BY <1>1, <1>2, ViewNow DEF Text
<1>3. CASE tree[q] \notin Files
  <2>1. Text(View[q]) = <<>>  BY <1>1, <1>3, ViewNow DEF Text
  <2>2. <<>> \in Seq(Lines)  OBVIOUS
  <2> QED  BY <2>1, <2>2, Zenon
<1> QED  BY <1>2, <1>3

\* What is written to an empty file is all there is
LEMMA OverEmpty ==
    ASSUME NEW new \in Seq(Lines)
    PROVE  Overlaid(<<>>, new) = new
<1> DEFINE none == SubSeq(<<>>, Len(new) + 1, 0)
<1>1. Len(new) \in Nat  OBVIOUS
<1>2. none = <<>>  BY <1>1
<1>3. Overlaid(<<>>, new) = new \o none  BY DEF Overlaid
<1>4. new \o <<>> = new  OBVIOUS
<1> QED  BY <1>2, <1>3, <1>4, Zenon

\* A file that has been opened has what the goal says, but for what will be written
LEMMA OpenKeeps ==
    ASSUME NEW c \in Calls, NEW v, Alone(c, v), OpenToWrite(c)
    PROVE  Kept(c, v)'
<1>0. WInv /\ Typed /\ TInv /\ Fresh  BY DEF Alone, TInv, WInv
<1>1. PICK p \in Paths : p = call[c].path  BY <1>0, Lists DEF OpenToWrite
<1>2. pc[c] = "open" /\ UNCHANGED <<call, buf>>  BY DEF OpenToWrite
<1>3. call[c].tool \in {"write_file", "patch_file"}  BY <1>0, <1>2, Here, ToolTable
<1>4. /\ SameBut({}, v, View)
      /\ call[c].tool = "write_file" => call[c].opt.mode \in Modes
      /\ call[c].tool = "patch_file" => buf[c] = Goal(c, call[c], v)
  BY <1>2, <1>3 DEF Alone, Kept, Writing
<1>5. CASE ~MayOpen(c)
  <2>1. Reply(c, Error) /\ UNCHANGED <<tree, data>>  BY <1>5 DEF OpenToWrite, fileVars
  <2>2. pc'[c] = "done" /\ answer'[c] = Error /\ View' = View  BY <1>0, <2>1, Ended1, ViewStays
  <2> QED  BY <1>4, <2>2, ErrorKeeps
<1>6. CASE MayOpen(c)
  <2>1. PICK b \in BOOLEAN : b = Truncates(c)  BY DEF Truncates
  <2>2. PICK o : o = Opened(p)  OBVIOUS
  <2>3. /\ CanOpen(p) /\ OpenFile(p, b) /\ Set(handle, c, o) /\ Goto(c, "write")
        /\ call[c].opt.mode = "create_only" => ~IsFile(p)
    BY <1>1, <1>6, <2>1, <2>2 DEF OpenToWrite, MayOpen
  <2>4. /\ SameBut({p}, View, View') /\ tree'[p] = o
        /\ data'[o] = IF b THEN <<>> ELSE Text(View[p])
        /\ View[p] # <<Dir>> /\ (~IsFile(p) => View[p] = <<Absent>>)
    BY <1>0, <2>2, <2>3, OpenSame
  <2>5. pc'[c] = "write"  BY <1>0, <2>3, Ended1
  <2>6. handle'[c] = o  BY <1>0, <2>3 DEF Set, Typed
  <2>7. v[p] = View[p]  BY <1>4, <2>4 DEF SameBut
  <2>8. SameBut({p}, v, View')  BY <1>4, <2>4, SameTwice
  <2>9. PICK old : old = Text(v[p])  OBVIOUS
  <2>10. old \in Seq(Lines) /\ data'[o] = IF b THEN <<>> ELSE old
    BY <1>0, <2>4, <2>7, <2>9, TextIsLines
  <2>18. PICK now : now = data'[o]  OBVIOUS
  <2>11. Written(c, now)' = Goal(c, call[c], v)
    <3>1. Written(c, now)' = IF call[c].opt.mode = "append" THEN now \o buf[c]
                             ELSE Overlaid(now, buf[c])
      BY <1>2 DEF Written, Overlaid
    <3>2. buf[c] \in Seq(Lines)  BY <1>0 DEF Typed
    <3>3. CASE call[c].tool = "patch_file"
      <4>1. b = TRUE /\ call[c].opt.mode # "append"  BY <1>0, <1>2, <2>1, <3>3, Here DEF Truncates
      <4>2. Overlaid(<<>>, buf[c]) = buf[c]  BY <3>2, OverEmpty
      <4> QED  BY <1>4, <2>10, <2>18, <3>1, <3>3, <4>1, <4>2
    <3>4. CASE call[c].tool = "write_file"
      <4>1. buf[c] = <<c>> /\ b = (call[c].opt.mode = "overwrite")
        BY <1>0, <1>2, <2>1, <3>4, Here DEF Truncates
      <4>2. Overlaid(<<>>, <<c>>) = <<c>>  BY <3>2, <4>1, OverEmpty
      <4>3. CASE call[c].opt.mode = "append"
        <5>1. old \o <<c>> = Append(old, c)  BY <2>10, <2>18, Constants
        <5> QED  BY <1>1, <2>9, <2>10, <2>18, <3>1, <3>4, <4>1, <4>3, <5>1, Zenon DEF Goal
      <4>4. CASE call[c].opt.mode = "overwrite"
        BY <2>10, <2>18, <3>1, <3>4, <4>1, <4>2, <4>4 DEF Goal
      <4>5. CASE call[c].opt.mode = "create_only"
        <5>1. old = <<>>  BY <2>3, <2>4, <2>7, <2>9, <4>5 DEF Text
        <5> QED  BY <2>10, <2>18, <3>1, <3>4, <4>1, <4>2, <4>5, <5>1 DEF Goal
      <4> QED  BY <1>4, <3>4, <4>3, <4>4, <4>5 DEF Modes
    <3> QED  BY <1>3, <3>3, <3>4
  <2>12. call[c].opt.mode = "create_only" => v[p] = <<Absent>>  BY <2>3, <2>4, <2>7
  <2>13. Looking(c, v)' /\ Removing(c, v)' /\ Copying(c, v)' /\ Finding(c, v)'
    BY <2>5 DEF Looking, Removing, Copying, Finding
  <2>14. Goal(c, call[c], v)' = Goal(c, call[c], v)  BY <1>2 DEF Goal, Patched, Text
  <2>15. Written(c, data[handle[c]])' = Written(c, now)'  BY <2>6, <2>18 DEF Written
  <2>16. SameBut({call[c].path}, v, View)'  BY <1>1, <1>2, <2>8 DEF SameBut
  <2>17. Writing(c, v)'
    BY <1>1, <1>2, <1>4, <2>4, <2>5, <2>6, <2>11, <2>12, <2>14, <2>15, <2>16 DEF Writing, Absent
  <2> QED  BY <2>5, <2>13, <2>17 DEF Kept
<1> QED  BY <1>5, <1>6

\* What is written is what was to be written
LEMMA WriteKeeps ==
    ASSUME NEW c \in Calls, NEW v, Alone(c, v), Write(c)
    PROVE  Kept(c, v)'
<1>0. WInv /\ Typed /\ TInv /\ Fresh  BY DEF Alone, TInv, WInv
<1>1. PICK p \in Paths : p = call[c].path  BY <1>0, Lists DEF Write
<1>2. /\ pc[c] = "write" /\ UNCHANGED <<call, tree>>
      /\ data' = [data EXCEPT ![handle[c]] = Written(c, @)] /\ Reply(c, Ok)
  BY DEF Write
<1>3. call[c].tool \in {"write_file", "patch_file"} /\ handle[c] # Absent
  BY <1>0, <1>2, Here, ToolTable DEF WInv, Doing
<1>4. handle[c] \in Files  BY <1>0, <1>3 DEF Typed
<1>5. /\ SameBut({p}, v, View) /\ tree[p] = handle[c]
      /\ Written(c, data[handle[c]]) = Goal(c, call[c], v)
      /\ call[c].opt.mode = "create_only" => v[p] = <<Absent>>
  BY <1>1, <1>2, <1>3 DEF Alone, Kept, Writing
<1>6. PICK x : x = Goal(c, call[c], v)  OBVIOUS
<1>7. data' = [data EXCEPT ![tree[p]] = x]  BY <1>2, <1>4, <1>5, <1>6
<1>8. x \in Seq(Lines)
  <2>1. data[handle[c]] \in Seq(Lines) /\ buf[c] \in Seq(Lines)  BY <1>0, <1>4 DEF Typed
  <2>2. Overlaid(data[handle[c]], buf[c]) \in Seq(Lines)  BY <2>1, Rests
  <2>3. data[handle[c]] \o buf[c] \in Seq(Lines)  BY <2>1
  <2> QED  BY <1>5, <1>6, <2>2, <2>3 DEF Written
<1>9. SameBut({p}, View, View') /\ View'[p] = x  BY <1>0, <1>2, <1>4, <1>5, <1>7, <1>8, WriteSame
<1>10. SameBut({p}, v, View')  BY <1>5, <1>9, SameTwice
<1>11. pc'[c] = "done" /\ answer'[c] = Ok  BY <1>0, <1>2, Ended1
<1>12. Changed(c, call[c], v, View') /\ Reported(call[c], v, answer'[c])
  <2>1. CASE call[c].tool = "write_file"
    BY <1>1, <1>5, <1>6, <1>9, <1>10, <2>1 DEF Changed, Reported, Goal
  <2>2. CASE call[c].tool = "patch_file"
    BY <1>1, <1>5, <1>6, <1>9, <1>10, <2>2 DEF Changed, Reported, Goal
  <2> QED  BY <1>3, <2>1, <2>2
<1>13. Promise(c, call'[c], v, View', answer'[c])  BY <1>2, <1>11, <1>12, Statuses DEF Promise
<1> QED  BY <1>11, <1>13, KeptDone

\* A call that ends without an answer to rely on, and leaves the tree alone
LEMMA FullKeeps ==
    ASSUME NEW c \in Calls, NEW v, Alone(c, v), DiskFull(c)
    PROVE  Kept(c, v)'
<1>0. WInv /\ TInv  BY DEF Alone, TInv
<1>1. /\ pc[c] \in {"write", "fill"} /\ UNCHANGED <<tree, data, call>>
      /\ Reply(c, Answer("full", <<>>))
  BY DEF DiskFull, fileVars
<1>2. pc'[c] = "done" /\ answer'[c].status = "full"  BY <1>0, <1>1, Ended1, Statuses
<1>3. View' = View  BY <1>1, ViewStays
<1>4. call[c].tool \in ToolsAt(pc[c])  BY <1>0, <1>1, Here
<1>5. ChangedByFailure(call[c], v, View, answer'[c])
  <2>1. CASE pc[c] = "write"
    <3>1. call[c].tool \in {"write_file", "patch_file"}  BY <1>4, <2>1, ToolTable
    <3>2. SameBut({call[c].path}, v, View)  BY <2>1, <3>1 DEF Alone, Kept, Writing
    <3> QED  BY <1>2, <3>1, <3>2 DEF ChangedByFailure
  <2>2. CASE pc[c] = "fill"
    <3>1. call[c].tool \in {"copy", "move"}  BY <1>4, <2>2, ToolTable
    <3>2. Apart(call[c]) => SameBut(Below(call[c].dest), v, View)
      BY <2>2, <3>1 DEF Alone, Kept, Copying
    <3> QED  BY <3>1, <3>2 DEF ChangedByFailure
  <2> QED  BY <1>1, <2>1, <2>2
<1>6. Promise(c, call'[c], v, View', answer'[c])  BY <1>1, <1>2, <1>3, <1>5 DEF Promise
<1> QED  BY <1>2, <1>6, KeptDone

\* remove_file removes the file that it saw
LEMMA UnlinkKeeps ==
    ASSUME NEW c \in Calls, NEW v, Alone(c, v), Unlink(c)
    PROVE  Kept(c, v)'
<1>0. WInv /\ Typed /\ TInv  BY DEF Alone, TInv, WInv
<1>1. PICK p \in Paths : p = call[c].path  BY <1>0, Lists DEF Unlink
<1>2. /\ pc[c] = "unlink" /\ UNCHANGED call
      /\ IF CanRemove(p) THEN Discard(p) /\ Reply(c, Ok) ELSE UNCHANGED fileVars /\ Reply(c, Error)
  BY <1>1 DEF Unlink
<1>3. call[c].tool = "remove_file"  BY <1>0, <1>2, Here, ToolTable
<1>4. View = v /\ tree[p] \in Files  BY <1>1, <1>2 DEF Alone, Kept, Looking
<1>5. CASE CanRemove(p)
  <2>1. pc'[c] = "done" /\ answer'[c] = Ok  BY <1>0, <1>2, <1>5, Ended1
  <2>2. SameBut({p}, v, View') /\ View'[p] = <<Absent>>  BY <1>0, <1>2, <1>4, <1>5, DiscardSame
  <2>3. v[p] # <<Dir>>  BY <1>0, <1>4, ViewNow
  <2>4. Changed(c, call[c], v, View') /\ Reported(call[c], v, answer'[c])
    BY <1>1, <1>3, <2>2, <2>3 DEF Changed, Reported
  <2>5. Promise(c, call'[c], v, View', answer'[c])  BY <1>2, <2>1, <2>4, Statuses DEF Promise
  <2> QED  BY <2>1, <2>5, KeptDone
<1>6. CASE ~CanRemove(p)
  <2>1. pc'[c] = "done" /\ answer'[c] = Error /\ View' = View
    BY <1>0, <1>2, <1>6, Ended1, ViewStays DEF fileVars
  <2> QED  BY <1>4, <2>1, ErrorKeeps, SameAll
<1> QED  BY <1>5, <1>6

\* create_folder makes the folder and what was missing above it
LEMMA FolderKeeps ==
    ASSUME NEW c \in Calls, NEW v, Alone(c, v), MakeFolder(c)
    PROVE  Kept(c, v)'
<1>0. WInv /\ Typed /\ TInv  BY DEF Alone, TInv, WInv
<1>1. PICK p \in Paths : p = call[c].path  BY <1>0, Lists DEF MakeFolder
<1>2. /\ pc[c] = "mkdir" /\ UNCHANGED <<call, data>>
      /\ tree' = IF CanMkdirAll(p) THEN WithDirs(p) ELSE tree
      /\ Reply(c, IF CanMkdirAll(p) THEN Ok ELSE Error)
  BY <1>1 DEF MakeFolder
<1>3. call[c].tool = "create_folder"  BY <1>0, <1>2, Here, ToolTable
<1>4. View = v  BY <1>2 DEF Alone, Kept, Looking
<1>5. CASE CanMkdirAll(p)
  <2>1. pc'[c] = "done" /\ answer'[c] = Ok  BY <1>0, <1>2, <1>5, Ended1
  <2>2. tree' = WithDirs(p) /\ data' = data  BY <1>2, <1>5
  <2>3. SameBut({}, v, View') /\ View'[p] = <<Dir>>  BY <1>0, <1>4, <1>5, <2>2, DirsSame
  <2>4. SameBut({p}, v, View')  BY <2>3 DEF SameBut
  <2>5. Changed(c, call[c], v, View') /\ Reported(call[c], v, answer'[c])
    BY <1>1, <1>3, <2>3, <2>4 DEF Changed, Reported
  <2>6. Promise(c, call'[c], v, View', answer'[c])  BY <1>2, <2>1, <2>5, Statuses DEF Promise
  <2> QED  BY <2>1, <2>6, KeptDone
<1>6. CASE ~CanMkdirAll(p)
  <2>1. UNCHANGED <<tree, data>> /\ Reply(c, Error)  BY <1>2, <1>6
  <2>2. pc'[c] = "done" /\ answer'[c] = Error /\ View' = View
    BY <1>0, <2>1, Ended1, ViewStays
  <2> QED  BY <1>4, <2>2, ErrorKeeps, SameAll
<1> QED  BY <1>5, <1>6

\* While a directory is being removed, only what it has is removed
LEMMA RemoveKeeps ==
    ASSUME NEW c \in Calls, NEW v, Alone(c, v), RemoveNext(c) \/ RemovedAll(c) \/ RemoveBlocked(c),
           call[c].tool = "move" /\ Apart(call[c]) => Progress(c, v)'
    PROVE  Kept(c, v)'
<1>0. WInv /\ Typed /\ TInv /\ InFolders  BY DEF Alone, TInv, WInv, TreeInv
<1>1. PICK p \in Paths : p = call[c].path
  BY <1>0, Lists DEF RemoveNext, RemovedAll, RemoveBlocked
<1>2. PICK k : k = call[c]  OBVIOUS
<1>3. pc[c] = "removeall" /\ data' = data /\ call' = call
  BY DEF RemoveNext, RemovedAll, RemoveBlocked, Discard, fileVars, callVars
<1>4. k.tool \in {"remove_folder", "move"}  BY <1>0, <1>2, <1>3, Here, ToolTable
<1>5. /\ k.tool = "remove_folder" => SameBut(Below(p), v, View)
      /\ k.tool = "move" /\ Apart(k) => SameBut(Below(k.dest) \cup Below(p), v, View)
      /\ \A q \in Below(p) : tree[q] # Absent => \E i \in DOMAIN todo[c] : todo[c][i].from = q
  BY <1>1, <1>2, <1>3 DEF Alone, Kept, Removing
<1>6. CASE RemoveNext(c)
  <2>1. PICK r \in Below(p) : CanRemove(r) /\ Discard(r)  BY <1>1, <1>6 DEF RemoveNext
  <2>2. r \in Paths /\ pc' = pc /\ todo' = todo  BY <1>6 DEF Below, RemoveNext, callVars
  <2>3. SameBut({r}, View, View') /\ \A q \in Paths : tree'[q] # Absent => tree[q] # Absent
    BY <1>0, <2>1, <2>2, DiscardSame
  <2>4. SameBut(Below(p), v, View) => SameBut(Below(p), v, View')  BY <2>1, <2>3, SameTwice
  <2>5. SameBut(Below(k.dest) \cup Below(p), v, View) => SameBut(Below(k.dest) \cup Below(p), v, View')
    BY <2>1, <2>3, SameTwice
  <2>6. \A q \in Below(p) : tree'[q] # Absent => \E i \in DOMAIN todo'[c] : todo'[c][i].from = q
    BY <1>5, <2>2, <2>3 DEF Below
  <2>7. Writing(c, v)' /\ Looking(c, v)' /\ Copying(c, v)' /\ Finding(c, v)'
    BY <1>3, <2>2 DEF Writing, Looking, Copying, Finding
  <2>8. /\ (k.tool = "remove_folder" => SameBut(Below(p), v, View'))
        /\ (k.tool = "move" /\ Apart(k) => SameBut(Below(k.dest) \cup Below(p), v, View'))
    BY <1>5, <2>4, <2>5
  <2>9. Removing(c, v)'
    BY <1>1, <1>2, <1>3, <2>6, <2>8 DEF Removing, Below, SameBut, Apart, Absent
  <2>10. pc'[c] = "removeall"  BY <1>3, <2>2
  <2> QED  BY <2>7, <2>9, <2>10 DEF Kept
<1>7. CASE RemovedAll(c)
  <2>1. Reply(c, Ok) /\ At(p) = Absent /\ tree' = tree  BY <1>1, <1>7 DEF RemovedAll, fileVars
  <2>2. pc'[c] = "done" /\ answer'[c] = Ok /\ View' = View
    BY <1>0, <1>3, <2>1, Ended1, ViewStays
  <2>3. ASSUME NEW q \in Below(p)  PROVE  View[q] = <<Absent>>
    <3>1. q \in Paths /\ IsPrefix(p, q) /\ tree[p] = Absent  BY <2>1 DEF Below, At
    <3>2. tree[q] = Absent  BY <1>0, <3>1, Constants DEF InFolders, IsStrictPrefix
    <3> QED  BY <1>0, <3>1, <3>2, ViewNow
  <2>4. CASE k.tool = "remove_folder"
    <3>1. Changed(c, k, v, View') /\ Reported(k, v, answer'[c])
      BY <1>1, <1>2, <1>5, <2>2, <2>3, <2>4 DEF Changed, Reported
    <3>2. Promise(c, call'[c], v, View', answer'[c])  BY <1>2, <1>3, <2>2, <3>1, Statuses DEF Promise
    <3> QED  BY <2>2, <3>2, KeptDone
  <2>5. CASE k.tool = "move"
    <3>1. ASSUME Apart(k), NEW q \in Below(p), v[q] # <<Absent>>
          PROVE  Moved(k, q) \in Paths /\ View'[Moved(k, q)] = v[q]
      <4>1. Progress(c, v)'  BY <1>2, <2>5, <3>1
      <4>2. q \in Sources(call[c], v)'  BY <1>1, <1>2, <1>3, <3>1 DEF Sources, Below
      <4>3. Arrived(call[c], v, q)'  BY <2>2, <4>1, <4>2, Statuses DEF Progress
      <4> QED  BY <1>2, <1>3, <4>3 DEF Arrived, Moved
    <3>2. Changed(c, k, v, View') /\ Reported(k, v, answer'[c])
      BY <1>1, <1>2, <1>5, <2>2, <2>3, <2>5, <3>1 DEF Changed, Reported
    <3>3. Promise(c, call'[c], v, View', answer'[c])  BY <1>2, <1>3, <2>2, <3>2, Statuses DEF Promise
    <3> QED  BY <2>2, <3>3, KeptDone
  <2> QED  BY <1>4, <2>4, <2>5
<1>8. ~RemoveBlocked(c)  BY <1>1, <1>5, Zenon DEF RemoveBlocked, Below
<1> QED  BY <1>6, <1>7, <1>8

\* A directory is read as it is: what is listed is there
LEMMA ChildrenThere ==
    ASSUME NEW t, NEW p \in Paths
    PROVE  \A i \in DOMAIN ChildrenIn(t, p) : t[ChildrenIn(t, p)[i]] # Absent
<1> DEFINE child == [i \in DOMAIN NameOrder |-> Append(p, NameOrder[i])]
           present == {i \in DOMAIN NameOrder : child[i] \in Paths /\ t[child[i]] # Absent}
           inOrder == Ascending(present)
<1>1. ChildrenIn(t, p) = [k \in DOMAIN inOrder |-> child[inOrder[k]]]  BY DEF ChildrenIn
<1>2. DOMAIN NameOrder = 1 .. Len(NameOrder) /\ Len(NameOrder) \in Nat  BY NamesInOrder
<1>3. present \in SUBSET (1 .. Len(NameOrder))  BY <1>2
<1>4. Sorted(inOrder, present)  BY <1>2, <1>3, AscendingIs, Zenon
<1>5. \A i \in present : t[child[i]] # Absent  OBVIOUS
<1> HIDE DEF child, present, inOrder
<1>6. \A k \in DOMAIN inOrder : inOrder[k] \in present  BY <1>4 DEF Sorted
<1> QED  BY <1>1, <1>5, <1>6

\* list_folder
LEMMA ListKeeps ==
    ASSUME NEW c \in Calls, NEW v, Alone(c, v), ReadFolder(c)
    PROVE  Kept(c, v)'
<1>0. WInv /\ Typed /\ TInv  BY DEF Alone, TInv, WInv
<1>1. PICK p \in Paths : p = call[c].path  BY <1>0, Lists DEF ReadFolder
<1>2. /\ pc[c] = "readdir" /\ UNCHANGED <<call, tree, data>>
      /\ Reply(c, IF IsFolder(p) THEN Answer("ok", Names(ChildrenIn(tree, p))) ELSE Error)
  BY <1>1 DEF ReadFolder, fileVars
<1>3. call[c].tool = "list_folder"  BY <1>0, <1>2, Here, ToolTable
<1>4. View = v /\ View' = v  BY <1>2, ViewStays DEF Alone, Kept, Looking
<1>5. CASE IsFolder(p)
  <2>1. PICK s : s = ChildrenIn(tree, p)  OBVIOUS
  <2>2. pc'[c] = "done" /\ answer'[c] = Answer("ok", Names(s))  BY <1>0, <1>2, <1>5, <2>1, Ended1
  <2>3. answer'[c].status = "ok" /\ answer'[c].value = Names(s)  BY <2>2, Statuses
  <2>4. /\ s \in Seq(Paths)
        /\ \A i \in DOMAIN s : IsPrefix(p, s[i]) /\ Len(s[i]) = Len(p) + 1 /\ tree[s[i]] # Absent
    BY <2>1, ChildrenAre, ChildrenThere
  <2>5. \A r \in Paths : IsPrefix(p, r) /\ Len(r) = Len(p) + 1 /\ tree[r] # Absent =>
           \E i \in DOMAIN s : s[i] = r
    BY <2>1, ChildrenAll
  <2>6. Range(Names(s)) = {<<s[i], 0>> : i \in DOMAIN s}  BY DEF Range, Names
  <2>7. \A r \in Paths : v[r] # <<Absent>> <=> tree[r] # Absent  BY <1>0, <1>4, ViewNow
  <2> DEFINE Q == {r \in Below(p) : Len(r) = Len(p) + 1 /\ v[r] # <<Absent>>}
  <2>8. \A i \in DOMAIN s : s[i] \in Paths /\ s[i] \in Q  BY <2>4, <2>7 DEF Below
  <2>9. \A r \in Q : \E i \in DOMAIN s : s[i] = r  BY <2>5, <2>7 DEF Below
  <2> HIDE DEF Q
  <2>10. {<<s[i], 0>> : i \in DOMAIN s} = {<<r, 0>> : r \in Q}  BY <2>8, <2>9
  <2>11. Reported(call[c], v, answer'[c])  BY <1>1, <1>3, <2>3, <2>6, <2>10 DEF Reported, Q
  <2>12. Changed(c, call[c], v, View')  BY <1>3, <1>4 DEF Changed
  <2>13. Promise(c, call'[c], v, View', answer'[c])
    BY <1>2, <2>3, <2>11, <2>12 DEF Promise
  <2> QED  BY <2>2, <2>13, KeptDone
<1>6. CASE ~IsFolder(p)
  <2>1. Reply(c, Error)  BY <1>2, <1>6
  <2>2. pc'[c] = "done" /\ answer'[c] = Error  BY <1>0, <2>1, Ended1
  <2> QED  BY <1>4, <2>2, ErrorKeeps, SameAll
<1> QED  BY <1>5, <1>6

-----------------------------------------------------------------------------
(***************************************************************************)
(* Windows of a file, and copies.                                          *)
(***************************************************************************)

\* A part of the lines
LEMMA LinesPart ==
    ASSUME NEW s \in Seq(Lines), NEW m \in Nat \ {0}, NEW n \in 0 .. Len(s),
           NEW u, u = SubSeq(s, m, n)
    PROVE  /\ u \in Seq(Lines)
           /\ m <= n => Len(u) = (n - m) + 1 /\ \A i \in 1 .. Len(u) : u[i] = s[(m + i) - 1]
           /\ ~(m <= n) => Len(u) = 0
OBVIOUS

\* How many there are behind the first m of len, as far as last
Reach(e, m, last, len) ==
    /\ m <= len => e = (IF last > len THEN len ELSE last) - m
    /\ m > len => e = 0

\* The part u of s behind the first m, as far as last
IsPart(u, s, m, last) ==
    /\ u \in Seq(Lines) /\ Reach(Len(u), m, last, Len(s))
    /\ m <= Len(s) => \A i \in 1 .. Len(u) : u[i] = s[m + i]

LEMMA UptoIs ==
    ASSUME NEW s \in Seq(Lines), NEW m \in Nat, NEW n \in Int, n >= m,
           NEW u, u = Upto(s, m + 1, n)
    PROVE  IsPart(u, s, m, n)
<1>1. PICK l \in 0 .. Len(s) : l = IF n > Len(s) THEN Len(s) ELSE n  OBVIOUS
<1>2. u = SubSeq(s, m + 1, l)  BY <1>1 DEF Upto
<1>3. Len(s) \in Nat /\ l \in Nat /\ l <= Len(s)  OBVIOUS
<1>4. /\ u \in Seq(Lines)
      /\ m + 1 <= l => Len(u) = (l - (m + 1)) + 1 /\ \A i \in 1 .. Len(u) : u[i] = s[((m + 1) + i) - 1]
      /\ ~(m + 1 <= l) => Len(u) = 0
  <2>1. m + 1 \in Nat \ {0}  OBVIOUS
  <2> QED  BY <1>2, <2>1, LinesPart, ZenonT(40)
<1>5. CASE m <= Len(s)
  <2>1. l >= m  BY <1>1, <1>3, <1>5
  <2>2. CASE m + 1 <= l
    <3>1. Len(u) = l - m  BY <1>3, <1>4, <2>2
    <3>2. \A i \in 1 .. Len(u) : u[i] = s[m + i]
      <4>1. ASSUME NEW i \in 1 .. Len(u)  PROVE  u[i] = s[m + i]
        <5>1. ((m + 1) + i) - 1 = m + i  BY <3>1
        <5> QED  BY <1>4, <2>2, <5>1
      <4> QED  BY <4>1
    <3> QED  BY <1>1, <1>3, <1>4, <1>5, <3>1, <3>2 DEF IsPart, Reach
  <2>3. CASE ~(m + 1 <= l)
    <3>1. l = m /\ Len(u) = 0  BY <1>3, <1>4, <2>1, <2>3
    <3> QED  BY <1>1, <1>3, <1>4, <1>5, <3>1 DEF IsPart, Reach
  <2> QED  BY <2>2, <2>3
<1>6. CASE m > Len(s)
  <2>1. ~(m + 1 <= l)  BY <1>3, <1>6
  <2> QED  BY <1>3, <1>4, <1>6, <2>1 DEF IsPart, Reach
<1> QED  BY <1>3, <1>5, <1>6

\* What an answer promises of the lines that its window asks for
Windowed(lines, w, a) ==
    LET asked == Asked(lines, w)
        start == IF w.offset < 1 THEN 1 ELSE w.offset IN
    /\ \E first \in 0 .. Len(lines) :
          /\ asked = first + 1 .. first + Len(a.value)
          /\ \A i \in DOMAIN a.value : a.value[i] = lines[first + i]
    /\ a.truncated = IF w.by = "lines"
                     THEN \E i \in DOMAIN lines : w.limit >= 0 /\ i >= start + w.limit
                     ELSE w.by = "bytes" /\ Cardinality(asked) < w.limit

\* A file without a window is the whole file
LEMMA WholeWindow ==
    ASSUME NEW lines \in Seq(Lines), NEW w, w.offset \in Int, w.limit \in Int,
           w.by = "all", w.offset < 0, w.limit < 0
    PROVE  Windowed(lines, w, Answer("ok", lines))
<1>1. Answer("ok", lines).value = lines /\ Answer("ok", lines).truncated = FALSE  BY DEF Answer
<1>2. DOMAIN lines = 1 .. Len(lines) /\ Len(lines) \in Nat  OBVIOUS
<1>3. Asked(lines, w) = {i \in DOMAIN lines : 1 <= i /\ (w.limit >= 0 => i < 1 + w.limit)}
  BY DEF Asked
<1>4. Asked(lines, w) = 0 + 1 .. 0 + Len(lines)  BY <1>2, <1>3
<1>5. 0 \in 0 .. Len(lines) /\ \A i \in DOMAIN lines : lines[i] = lines[0 + i]  BY <1>2
<1> QED  BY <1>1, <1>4, <1>5 DEF Windowed

WindowOf(n, m, l) == {i \in 1 .. n : m + 1 <= i /\ (l >= 0 => i < (m + 1) + l)}

\* No limit is one that goes to the end
LimitIs(lb, l, m, n) == (l >= 0 => lb = l) /\ (l < 0 => (lb = n \/ (lb = n - m /\ m <= n)))

WindowHas(n, m, l, lb, e) ==
    /\ m <= n => WindowOf(n, m, l) = m + 1 .. m + e
    /\ m > n => WindowOf(n, m, l) = 0 + 1 .. 0 + e
    /\ (\E i \in 1 .. n : l >= 0 /\ i >= (m + 1) + l) <=> (m < n /\ m + lb < n)
    /\ lb = n - m \/ l >= 0 => (e < l <=> e < lb)

\* A window in numbers: what is asked for of n lines from behind the first m, at most l
\* of them if l is not negative, and how many there are
LEMMA WindowIs ==
    ASSUME NEW n \in Nat, NEW m \in Nat, NEW l \in Int, NEW lb \in Nat, LimitIs(lb, l, m, n),
           NEW e \in Nat, Reach(e, m, m + lb, n)
    PROVE  WindowHas(n, m, l, lb, e)
<1>1. m <= n => WindowOf(n, m, l) = m + 1 .. m + e
  BY DEF Reach, WindowOf, LimitIs
<1>2. m > n => WindowOf(n, m, l) = 0 + 1 .. 0 + e
  BY DEF Reach, WindowOf, LimitIs
<1>3. (\E i \in 1 .. n : l >= 0 /\ i >= (m + 1) + l) <=> (m < n /\ m + lb < n)
  <2>1. ASSUME m < n, m + lb < n  PROVE  \E i \in 1 .. n : l >= 0 /\ i >= (m + 1) + l
    <3>1. l >= 0 /\ n \in 1 .. n /\ n >= (m + 1) + l  BY <2>1 DEF Reach, LimitIs
    <3> QED  BY <3>1
  <2>2. ASSUME NEW i \in 1 .. n, l >= 0, i >= (m + 1) + l  PROVE  m < n /\ m + lb < n
    BY <2>2 DEF LimitIs
  <2> QED  BY <2>1, <2>2
<1>4. lb = n - m \/ l >= 0 => (e < l <=> e < lb)
  BY DEF Reach, WindowOf, LimitIs
<1> QED  BY <1>1, <1>2, <1>3, <1>4, Zenon DEF WindowHas

\* The lines asked for, in numbers
LEMMA AskedIs ==
    ASSUME NEW lines \in Seq(Lines), NEW w, w.offset \in Int, w.limit \in Int, NEW m \in Nat,
           m = IF w.by = "lines" THEN (IF w.offset > 1 THEN w.offset - 1 ELSE 0)
               ELSE (IF w.offset >= 0 THEN w.offset ELSE 0)
    PROVE  /\ Asked(lines, w) =
                 WindowOf(Len(lines), m, w.limit)
           /\ w.by = "lines" => (IF w.offset < 1 THEN 1 ELSE w.offset) = m + 1
<1>1. DOMAIN lines = 1 .. Len(lines)  OBVIOUS
<1>2. PICK first : first = IF w.by = "lines" THEN (IF w.offset < 1 THEN 1 ELSE w.offset)
                           ELSE (IF w.offset < 0 THEN 1 ELSE w.offset + 1)
  OBVIOUS
<1>3. first = m + 1
  <2>1. CASE w.by = "lines"  BY <1>2, <2>1
  <2>2. CASE w.by # "lines"  BY <1>2, <2>2
  <2> QED  BY <2>1, <2>2
<1>4. Asked(lines, w) = {i \in DOMAIN lines : first <= i /\ (w.limit >= 0 => i < first + w.limit)}
  BY <1>2 DEF Asked
<1> QED  BY <1>1, <1>2, <1>3, <1>4 DEF WindowOf

\* offset_lines and limit_lines
LEMMA LinesWindow ==
    ASSUME NEW lines \in Seq(Lines), NEW w, w.offset \in Int, w.limit \in Int, w.by = "lines",
           NEW a, a = LineWindow(lines, w)
    PROVE  Windowed(lines, w, a) /\ a.status = "ok"
<1>1. PICK n \in Nat : n = Len(lines)  OBVIOUS
<1>2. PICK l \in Int : l = w.limit  OBVIOUS
<1>3. PICK m \in Nat : m = IF w.offset > 1 THEN w.offset - 1 ELSE 0  OBVIOUS
<1>4. PICK lb \in Nat : lb = IF l >= 0 THEN l ELSE n  BY <1>1
<1>5. a = IF m >= n THEN Ok
          ELSE [Answer("ok", Upto(lines, m + 1, m + lb)) EXCEPT !.truncated = m + lb < n]
  BY <1>1, <1>2, <1>3, <1>4 DEF LineWindow
<1>6. /\ Asked(lines, w) = WindowOf(n, m, l)
      /\ (IF w.offset < 1 THEN 1 ELSE w.offset) = m + 1
  BY <1>1, <1>2, <1>3, AskedIs
<1>7. DOMAIN lines = 1 .. n  BY <1>1
<1>8. Windowed(lines, w, a) <=>
        /\ \E first \in 0 .. n :
              /\ Asked(lines, w) = first + 1 .. first + Len(a.value)
              /\ \A i \in DOMAIN a.value : a.value[i] = lines[first + i]
        /\ a.truncated = \E i \in 1 .. n : l >= 0 /\ i >= (m + 1) + l
  BY <1>1, <1>2, <1>6, <1>7 DEF Windowed
<1>9. PICK u : u = IF m >= n THEN <<>> ELSE Upto(lines, m + 1, m + lb)  OBVIOUS
<1>10. PICK e \in Nat : /\ e = Len(u) /\ DOMAIN u = 1 .. e /\ Reach(e, m, m + lb, n)
                        /\ m <= n => \A i \in 1 .. e : u[i] = lines[m + i]
  <2>1. CASE m >= n
    <3>1. Len(u) = 0 /\ DOMAIN u = 1 .. 0  BY <1>9, <2>1
    <3>2. Reach(0, m, m + lb, n)  BY <2>1 DEF Reach
    <3> QED  BY <3>1, <3>2
  <2>2. CASE m < n
    <3>1. u = Upto(lines, m + 1, m + lb) /\ m + lb \in Int /\ m + lb >= m  BY <1>9, <2>2
    <3>2. IsPart(u, lines, m, m + lb)  BY <3>1, UptoIs, Zenon
    <3>3. Len(u) \in Nat /\ DOMAIN u = 1 .. Len(u)  BY <3>2 DEF IsPart
    <3> QED  BY <1>1, <3>2, <3>3 DEF IsPart
  <2>3. m >= n \/ m < n  OBVIOUS
  <2> QED  BY <2>1, <2>2, <2>3, Zenon
<1>11. /\ a.value = u /\ a.status = "ok"
       /\ a.truncated <=> (m < n /\ m + lb < n)
       /\ a.truncated \in BOOLEAN
  <2>1. CASE m >= n
    <3>1. a = Ok /\ u = <<>>  BY <1>5, <1>9, <2>1
    <3> QED  BY <2>1, <3>1 DEF Ok, Answer
  <2>2. CASE m < n
    <3>1. a = [Answer("ok", u) EXCEPT !.truncated = m + lb < n]  BY <1>5, <1>9, <2>2
    <3>2. PICK t \in BOOLEAN : t <=> (m + lb < n)  OBVIOUS
    <3>3. a = [Answer("ok", u) EXCEPT !.truncated = t]  BY <3>1, <3>2
    <3>4. a.value = u /\ a.truncated = t /\ a.status = "ok"  BY <3>3 DEF Answer
    <3> QED  BY <2>2, <3>2, <3>4
  <2> QED  BY <2>1, <2>2
<1>12. /\ m <= n => Asked(lines, w) = m + 1 .. m + e
       /\ m > n => Asked(lines, w) = 0 + 1 .. 0 + e
       /\ (\E i \in 1 .. n : l >= 0 /\ i >= (m + 1) + l) <=> (m < n /\ m + lb < n)
  <2>1. LimitIs(lb, l, m, n)  BY <1>4 DEF LimitIs
  <2>2. WindowHas(n, m, l, lb, e)  BY <1>10, <2>1, WindowIs
  <2> QED  BY <1>6, <2>2, Zenon DEF WindowHas
<1>13. \E first \in 0 .. n : /\ Asked(lines, w) = first + 1 .. first + Len(a.value)
                            /\ \A i \in DOMAIN a.value : a.value[i] = lines[first + i]
  <2>1. CASE m <= n
    <3>1. m \in 0 .. n  BY <2>1
    <3> QED  BY <1>10, <1>11, <1>12, <2>1, <3>1
  <2>2. CASE m > n
    <3>1. 0 \in 0 .. n /\ 1 .. e = {}  BY <1>10, <2>2 DEF Reach
    <3> QED  BY <1>10, <1>11, <1>12, <2>2, <3>1
  <2> QED  BY <2>1, <2>2
<1> QED  BY <1>8, <1>11, <1>12, <1>13, Zenon

\* offset and limit in bytes, of a file as large as it was
LEMMA BytesWindow ==
    ASSUME NEW lines \in Seq(Lines), NEW w, w.offset \in Int, w.limit \in Int, w.by = "bytes",
           NEW a, a = ByteWindow(lines, Len(lines), w)
    PROVE  \/ a.status = "ok" /\ Windowed(lines, w, a)
           \/ a.status = "panic" /\ w.limit < 0 /\ w.offset > Len(lines)
<1>1. PICK n \in Nat : n = Len(lines)  OBVIOUS
<1>2. PICK l \in Int : l = w.limit  OBVIOUS
<1>3. PICK m \in Nat : m = IF w.offset >= 0 THEN w.offset ELSE 0  OBVIOUS
<1>4. PICK lb \in Int : lb = IF l >= 0 THEN l ELSE n - m
  <2>1. n - m \in Int  OBVIOUS
  <2> QED  BY <2>1, Zenon
<1>5. a = IF lb < 0 THEN Answer("panic", <<>>)
          ELSE [Answer("ok", Upto(lines, m + 1, m + lb))
                EXCEPT !.truncated = Len(Upto(lines, m + 1, m + lb)) < lb]
  BY <1>1, <1>2, <1>3, <1>4 DEF ByteWindow
<1>6. Asked(lines, w) = WindowOf(n, m, l)
  BY <1>1, <1>2, <1>3, AskedIs
<1>7. CASE lb < 0
  <2>1. a.status = "panic"  BY <1>5, <1>7, Statuses
  <2>2. l < 0 /\ m > n  BY <1>4, <1>7
  <2>3. w.offset > n  BY <1>3, <2>2
  <2> QED  BY <1>1, <1>2, <2>1, <2>2, <2>3
<1>8. CASE ~(lb < 0)
  <2>1. PICK u : u = Upto(lines, m + 1, m + lb)  OBVIOUS
  <2>2. PICK e \in Nat : /\ e = Len(u) /\ DOMAIN u = 1 .. e /\ Reach(e, m, m + lb, n)
                         /\ m <= n => \A i \in 1 .. e : u[i] = lines[m + i]
    <3>1. m + lb \in Int /\ m + lb >= m  BY <1>8
    <3>2. IsPart(u, lines, m, m + lb)  BY <2>1, <3>1, UptoIs, Zenon
    <3>3. Len(u) \in Nat /\ DOMAIN u = 1 .. Len(u)  BY <3>2 DEF IsPart
    <3> QED  BY <1>1, <3>2, <3>3 DEF IsPart
  <2>3. PICK t : t = (e < lb)  OBVIOUS
  <2>4. a = [Answer("ok", u) EXCEPT !.truncated = t]
    <3>1. ~(lb < 0) /\ t = (e < lb)  BY <1>8, <2>3
    <3> QED  BY <1>5, <2>1, <2>2, <3>1, Zenon
  <2>5. a.value = u /\ a.truncated = t /\ a.status = "ok"  BY <2>4 DEF Answer
  <2>6. lb \in Nat /\ (l >= 0 => lb = l) /\ (l < 0 => lb = n - m /\ m <= n) /\ (lb = n - m \/ l >= 0)
    BY <1>4, <1>8
  <2>7. /\ m <= n => Asked(lines, w) = m + 1 .. m + e
        /\ m > n => Asked(lines, w) = 0 + 1 .. 0 + e
        /\ e < l <=> e < lb
    <3>1. LimitIs(lb, l, m, n)  BY <2>6 DEF LimitIs
    <3>2. WindowHas(n, m, l, lb, e)  BY <2>2, <2>6, <3>1, WindowIs
    <3> QED  BY <1>6, <2>6, <3>2, Zenon DEF WindowHas
  <2>8. PICK first \in 0 .. n : /\ Asked(lines, w) = first + 1 .. first + e
                                /\ \A i \in 1 .. e : u[i] = lines[first + i]
    <3>1. CASE m <= n
      <4>1. m \in 0 .. n  BY <3>1
      <4> QED  BY <2>2, <2>7, <3>1, <4>1
    <3>2. CASE m > n
      <4>1. 0 \in 0 .. n /\ 1 .. e = {}  BY <2>2, <3>2 DEF Reach
      <4> QED  BY <2>7, <3>2, <4>1
    <3>3. m <= n \/ m > n  OBVIOUS
    <3> QED  BY <3>1, <3>2, <3>3
  <2>9. Cardinality(Asked(lines, w)) = e
    <3>1. first + 1 \in Int /\ first + e \in Int  OBVIOUS
    <3>2. Cardinality(first + 1 .. first + e) =
             IF first + 1 > first + e THEN 0 ELSE (first + e) - (first + 1) + 1
      BY <3>1, FS_Interval
    <3> QED  BY <2>8, <3>2
  <2>10. a.truncated = (Cardinality(Asked(lines, w)) < w.limit)
    <3>1. Cardinality(Asked(lines, w)) < w.limit <=> e < lb  BY <1>2, <2>7, <2>9
    <3>2. CASE e < lb
      <4>1. (e < lb) = TRUE /\ (Cardinality(Asked(lines, w)) < w.limit) = TRUE
        BY <3>1, <3>2
      <4> QED  BY <2>3, <2>5, <4>1, Zenon
    <3>3. CASE ~(e < lb)
      <4>1. (e < lb) = FALSE /\ (Cardinality(Asked(lines, w)) < w.limit) = FALSE
        BY <3>1, <3>3
      <4> QED  BY <2>3, <2>5, <4>1, Zenon
    <3> QED  BY <3>2, <3>3
  <2>11. Windowed(lines, w, a)
    <3>1. PICK asked : asked = Asked(lines, w)  OBVIOUS
    <3>2. \E k \in 0 .. Len(lines) : /\ asked = k + 1 .. k + Len(a.value)
                                      /\ \A i \in DOMAIN a.value : a.value[i] = lines[k + i]
      <4>1. first \in 0 .. Len(lines)  BY <1>1
      <4>2. asked = first + 1 .. first + Len(a.value)  BY <2>2, <2>5, <2>8, <3>1, Zenon
      <4>3. \A i \in DOMAIN a.value : a.value[i] = lines[first + i]  BY <2>2, <2>5, <2>8, Zenon
      <4> QED  BY <4>1, <4>2, <4>3
    <3>3. w.by = "bytes" /\ w.by # "lines"  OBVIOUS
    <3>4. a.truncated = (Cardinality(asked) < w.limit)  BY <2>10, <3>1, Zenon
    <3>5. a.truncated = (w.by = "bytes" /\ Cardinality(asked) < w.limit)
      <4>1. PICK x : x = (Cardinality(asked) < w.limit)  OBVIOUS
      <4>2. x \in BOOLEAN  BY <4>1
      <4>3. (w.by = "bytes" /\ x) = x  BY <3>3, <4>2, Zenon
      <4> QED  BY <3>4, <4>1, <4>3, Zenon
    <3>6. a.truncated = IF w.by = "lines"
                        THEN \E i \in DOMAIN lines :
                                w.limit >= 0 /\ i >= (IF w.offset < 1 THEN 1 ELSE w.offset) + w.limit
                        ELSE w.by = "bytes" /\ Cardinality(asked) < w.limit
      BY <3>3, <3>5, Zenon
    <3> QED  BY <3>1, <3>2, <3>6, Zenon DEF Windowed
  <2> QED  BY <2>5, <2>11
<1> QED  BY <1>7, <1>8

\* read_file and hash_file open the file that they saw
LEMMA OpenReadKeeps ==
    ASSUME NEW c \in Calls, NEW v, Alone(c, v), OpenToRead(c)
    PROVE  Kept(c, v)'
<1>0. WInv /\ Typed /\ TInv  BY DEF Alone, TInv, WInv
<1>1. PICK p \in Paths : p = call[c].path  BY <1>0, Lists DEF OpenToRead
<1>2. /\ pc[c] = "openread" /\ UNCHANGED <<call, tree, data, buf>>
      /\ GotoIf(At(p) # Absent, c, "read") /\ Set(source, c, At(p))
  BY <1>1 DEF OpenToRead, fileVars
<1>3. /\ View = v /\ tree[p] \in Files
      /\ IF call[c].tool = "hash_file" THEN call[c].opt.by = "all"
         ELSE call[c].opt \in Windows /\ buf[c] = v[p]
  BY <1>1, <1>2 DEF Alone, Kept, Looking
<1>4. At(p) = tree[p] /\ tree[p] # Absent  BY <1>3, Constants DEF At
<1>5. pc'[c] = "read" /\ source'[c] = tree[p]
  BY <1>0, <1>2, <1>4, Ended1, Changed1 DEF GotoIf
<1>6. View' = v  BY <1>2, <1>3, ViewStays
<1>7. Writing(c, v)' /\ Removing(c, v)' /\ Copying(c, v)' /\ Finding(c, v)'
  BY <1>5 DEF Writing, Removing, Copying, Finding
<1>8. Looking(c, v)'  BY <1>1, <1>2, <1>3, <1>5, <1>6 DEF Looking, Files
<1> QED  BY <1>5, <1>7, <1>8 DEF Kept

\* What they report is what is in it
LEMMA ReadKeeps ==
    ASSUME NEW c \in Calls, NEW v, Alone(c, v), ReadOpened(c)
    PROVE  Kept(c, v)'
<1>0. WInv /\ Typed /\ TInv  BY DEF Alone, TInv, WInv
<1>1. PICK p \in Paths : p = call[c].path  BY <1>0, Lists DEF ReadOpened
<1>2. PICK w : w = call[c].opt  OBVIOUS
<1>3. pc[c] = "read" /\ UNCHANGED <<call, tree, data>>  BY DEF ReadOpened, fileVars
<1>4. call[c].tool \in {"read_file", "hash_file"}  BY <1>0, <1>3, Here, ToolTable
<1>5. /\ View = v /\ tree[p] \in Files /\ source[c] = tree[p]
      /\ IF call[c].tool = "hash_file" THEN w.by = "all" ELSE w \in Windows /\ buf[c] = v[p]
  BY <1>1, <1>2, <1>3 DEF Alone, Kept, Looking
<1>6. v[p] = data[source[c]] /\ v[p] \notin {<<Absent>>, <<Dir>>}  BY <1>0, <1>5, ViewNow
<1>7. Text(v[p]) = v[p] /\ v[p] \in Seq(Lines)  BY <1>0, <1>5, <1>6 DEF Text, Typed
<1>8. View' = v  BY <1>3, <1>5, ViewStays
<1>9. source[c] # Dir  BY <1>5, Constants
<1>10. PICK a : a = CASE w.by = "lines" -> LineWindow(v[p], w)
                      [] w.by = "bytes" -> ByteWindow(v[p], Len(buf[c]), w)
                      [] OTHER -> Answer("ok", v[p])
  OBVIOUS
<1>11. Reply(c, a)  BY <1>2, <1>6, <1>9, <1>10, Zenon DEF ReadOpened
<1>12. pc'[c] = "done" /\ answer'[c] = a  BY <1>0, <1>11, Ended1
<1>13. Changed(c, call[c], v, View')  BY <1>4, <1>8 DEF Changed
<1>14. CASE call[c].tool = "hash_file"
  <2>1. a = Answer("ok", v[p])  BY <1>5, <1>10, <1>14
  <2>2. a.status = "ok" /\ a.value = v[p]  BY <2>1, Statuses
  <2>3. Reported(call[c], v, a)  BY <1>1, <1>14, <2>2 DEF Reported
  <2>4. Promise(c, call'[c], v, View', answer'[c])  BY <1>3, <1>12, <1>13, <2>2, <2>3 DEF Promise
  <2> QED  BY <1>12, <2>4, KeptDone
<1>15. CASE call[c].tool = "read_file"
  <2>1. w \in Windows /\ buf[c] = v[p]  BY <1>5, <1>15
  <2>2. /\ w.by \in {"all", "lines", "bytes"} /\ w.offset \in Int /\ w.limit \in Int
        /\ w.by = "all" => w.offset < 0 /\ w.limit < 0
    BY <2>1, ReadWindows
  <2>3. \/ a.status = "ok" /\ Windowed(v[p], w, a)
        \/ a.status = "panic" /\ w.by = "bytes" /\ w.limit < 0 /\ w.offset > Len(v[p])
    <3>1. CASE w.by = "all"
      <4>1. a = Answer("ok", v[p])  BY <1>10, <3>1
      <4> QED  BY <1>7, <2>2, <3>1, <4>1, WholeWindow, Statuses
    <3>2. CASE w.by = "lines"
      <4>1. a = LineWindow(v[p], w)  BY <1>10, <3>2
      <4> QED  BY <1>7, <2>2, <3>2, <4>1, LinesWindow
    <3>3. CASE w.by = "bytes"
      <4>1. a = ByteWindow(v[p], Len(v[p]), w)  BY <1>10, <2>1, <3>3
      <4>2. w.offset \in Int /\ w.limit \in Int  BY <2>2
      <4> QED  BY <1>7, <3>3, <4>1, <4>2, BytesWindow
    <3> QED  BY <2>2, <3>1, <3>2, <3>3
  <2>4. Windowed(v[p], w, a) => Reported(call[c], v, a)
    BY <1>1, <1>2, <1>7, <1>15 DEF Windowed, Reported
  <2>5. ChangedByFailure(call[c], v, View', a) 
    BY <1>8, <1>15, SameAll DEF ChangedByFailure, SameBut
  <2>6. a.status = "panic" => ReadsBehindEnd(call[c], v)
    BY <1>1, <1>2, <1>15, <2>3, Statuses DEF ReadsBehindEnd
  <2>7. Promise(c, call'[c], v, View', answer'[c])
    BY <1>1, <1>2, <1>3, <1>12, <1>13, <2>3, <2>4, <2>5, <2>6, Statuses DEF Promise
  <2> QED  BY <1>12, <2>7, KeptDone
<1> QED  BY <1>4, <1>14, <1>15

\* A copy or a move that fails
LEMMA CopyFails ==
    ASSUME NEW c \in Calls, NEW v, pc'[c] = "done", answer'[c] = Error,
           call'[c].tool \in {"copy", "move"},
           Apart(call'[c]) => SameBut(Below(call'[c].dest), v, View')
    PROVE  Kept(c, v)'
<1>1. ChangedByFailure(call'[c], v, View', answer'[c])  BY DEF ChangedByFailure
<1>2. Promise(c, call'[c], v, View', answer'[c])  BY <1>1, Statuses DEF Promise
<1> QED  BY <1>2, KeptDone

\* What a copy or a move relies on, and what its step keeps
CopyRuns(c, v) ==
    /\ Alone(c, v)
    /\ Apart(call[c]) => Moves(c, v) /\ Progress(c, v)'

\* The step of a move that renames, or begins to copy
LEMMA RenameKeeps ==
    ASSUME NEW c \in Calls, NEW v, CopyRuns(c, v), Rename(c)
    PROVE  Kept(c, v)'
<1>0. WInv /\ Typed /\ TInv  BY DEF CopyRuns, Alone, TInv, WInv
<1>1. PICK p \in Paths, q \in Paths : p = call[c].path /\ q = call[c].dest
  BY <1>0, Lists DEF Rename
<1>2. PICK k : k = call[c]  OBVIOUS
<1>3. /\ pc[c] = "rename" /\ UNCHANGED <<call, data>>
      /\ IF CanRename(p, q) THEN tree' = Renamed(p, q) /\ Reply(c, Ok)
         ELSE UNCHANGED tree /\ Goto(c, "restat")
  BY <1>1 DEF Rename
<1>4. k.tool = "move"  BY <1>0, <1>2, <1>3, Here, ToolTable
<1>5. Apart(k) => SameBut(Below(q), v, View)
  BY <1>1, <1>2, <1>3, <1>4 DEF CopyRuns, Alone, Kept, Copying
<1>6. CASE CanRename(p, q)
  <2>1. tree' = Renamed(p, q) /\ pc'[c] = "done" /\ answer'[c] = Ok  BY <1>0, <1>3, <1>6, Ended1
  <2>2. ASSUME Apart(k)
        PROVE  /\ \A r \in Below(p) : v[r] # <<Absent>> => Moved(k, r) \in Paths /\ View'[Moved(k, r)] = v[r]
               /\ \A r \in Below(p) : View'[r] = <<Absent>>
               /\ SameBut(Below(q) \cup Below(p), v, View')
    <3>1. Progress(c, v)'  BY <1>2, <2>2 DEF CopyRuns
    <3>2. ASSUME NEW r \in Below(p), v[r] # <<Absent>>
          PROVE  Moved(k, r) \in Paths /\ View'[Moved(k, r)] = v[r]
      <4>1. r \in Sources(call[c], v)'  BY <1>1, <1>3, <3>2 DEF Sources, Below
      <4>2. Arrived(call[c], v, r)'  BY <2>1, <3>1, <4>1, Statuses DEF Progress
      <4> QED  BY <1>2, <1>3, <4>2 DEF Arrived, Moved
    <3>3. ASSUME NEW r \in Below(p)  PROVE  View'[r] = <<Absent>>
      <4>1. r \in Paths /\ r \in Seq(STRING) /\ IsPrefix(p, r)  BY PathFacts DEF Below
      <4>2. IsPrefix(r, r)  BY <4>1, PrefixOrder
      <4>3. ~IsPrefix(q, r)  BY <1>1, <1>2, <2>2, <4>1, <4>2, NotBoth
      <4>4. tree'[r] = Absent  BY <2>1, <4>1, <4>3 DEF Renamed
      <4> QED  BY <4>1, <4>4, Constants DEF View, Files
    <3>4. SameBut(Below(q) \cup Below(p), View, View')
      <4>1. ASSUME NEW r \in Paths \ (Below(q) \cup Below(p))  PROVE  View'[r] = View[r]
        <5>1. ~IsPrefix(p, r) /\ ~IsPrefix(q, r)  BY <4>1 DEF Below
        <5>2. tree'[r] = tree[r]  BY <2>1, <5>1 DEF Renamed
        <5> QED  BY <1>3, <5>2, SameView
      <4> QED  BY <4>1 DEF SameBut
    <3>5. SameBut(Below(q) \cup Below(p), v, View')
      <4>1. SameBut(Below(q), v, View)  BY <1>5, <2>2
      <4>2. PICK S : S = Below(q)  OBVIOUS
      <4>3. PICK T : T = Below(q) \cup Below(p)  OBVIOUS
      <4>4. S \cap Paths \subseteq T /\ T \cap Paths \subseteq T  BY <4>2, <4>3
      <4> QED  BY <3>4, <4>1, <4>2, <4>3, <4>4, SameTwice
    <3> QED  BY <3>2, <3>3, <3>5
  <2>3. Changed(c, k, v, View') /\ Reported(k, v, answer'[c])
    BY <1>1, <1>2, <1>4, <2>2 DEF Changed, Reported
  <2>4. Promise(c, call'[c], v, View', answer'[c])  BY <1>2, <1>3, <2>1, <2>3, Statuses DEF Promise
  <2> QED  BY <2>1, <2>4, KeptDone
<1>7. CASE ~CanRename(p, q)
  <2>1. pc'[c] = "restat" /\ UNCHANGED <<tree, data>>  BY <1>0, <1>3, <1>7, Ended1
  <2>2. View' = View  BY <2>1, ViewStays
  <2> QED  BY <1>1, <1>2, <1>3, <1>4, <1>5, <2>1, <2>2, CopyGoes
<1> QED  BY <1>6, <1>7

LEMMA RestatKeeps ==
    ASSUME NEW c \in Calls, NEW v, Alone(c, v), Restat(c)
    PROVE  Kept(c, v)'
<1>0. WInv /\ TInv  BY DEF Alone, TInv
<1>1. /\ pc[c] = "restat" /\ UNCHANGED <<call, tree, data>>
      /\ GotoIf(At(call[c].path) # Absent, c, "copy")
  BY DEF Restat, fileVars
<1>2. call[c].tool = "move"  BY <1>0, <1>1, Here, ToolTable
<1>3. View' = View  BY <1>1, ViewStays
<1>4. Apart(call[c]) => SameBut(Below(call[c].dest), v, View)
  BY <1>1, <1>2 DEF Alone, Kept, Copying
<1>5. pc'[c] = "copy" \/ (pc'[c] = "done" /\ answer'[c] = Error)
  BY <1>0, <1>1, Ended1 DEF GotoIf
<1>6. CASE pc'[c] = "copy"  BY <1>1, <1>2, <1>3, <1>4, <1>6, CopyGoes
<1> QED  BY <1>1, <1>2, <1>3, <1>4, <1>5, <1>6, CopyFails

\* The directories of a copy replace nothing
LEMMA CopyFolderKeeps ==
    ASSUME NEW c \in Calls, NEW v, Alone(c, v), CopyFolder(c)
    PROVE  Kept(c, v)'
<1>0. WInv /\ TInv /\ Typed  BY DEF Alone, TInv, WInv
<1>1. PICK e : e = Head(todo[c])  OBVIOUS
<1>2. PICK to : to = e.to  OBVIOUS
<1>3. /\ pc[c] = "copy" /\ UNCHANGED <<call, data>>
      /\ tree' = IF At(e.from) # Absent /\ CanMkdirAll(to) THEN WithDirs(to) ELSE tree
      /\ Goto(c, "copy") \/ Reply(c, Error)
  BY <1>1, <1>2 DEF CopyFolder
<1>4. call[c].tool \in {"copy", "move"}  BY <1>0, <1>3, Here, ToolTable
<1>5. Apart(call[c]) => SameBut(Below(call[c].dest), v, View)
  BY <1>3, <1>4 DEF Alone, Kept, Copying
<1>6. SameBut({}, View, View')
  <2>1. CASE At(e.from) # Absent /\ CanMkdirAll(to)
    <3>1. tree' = WithDirs(to)  BY <1>3, <2>1
    <3> QED  BY <1>0, <1>3, <2>1, <3>1, DirsSame
  <2>2. CASE ~(At(e.from) # Absent /\ CanMkdirAll(to))
    <3>1. View' = View  BY <1>3, <2>2, ViewStays
    <3> QED  BY <3>1, SameAll
  <2> QED  BY <2>1, <2>2
<1>7. Apart(call[c]) => SameBut(Below(call[c].dest), v, View')  BY <1>5, <1>6, SameTwice
<1>8. pc'[c] = "copy" \/ (pc'[c] = "done" /\ answer'[c] = Error)  BY <1>0, <1>3, Ended1
<1>9. CASE pc'[c] = "copy"  BY <1>3, <1>4, <1>7, <1>9, CopyGoes
<1> QED  BY <1>3, <1>4, <1>7, <1>8, <1>9, CopyFails

\* A file that is opened for a copy is below the destination
LEMMA CopyFileKeeps ==
    ASSUME NEW c \in Calls, NEW v, CopyRuns(c, v), CopyFile(c)
    PROVE  Kept(c, v)'
<1>0. WInv /\ TInv /\ Typed /\ Fresh  BY DEF CopyRuns, Alone, TInv, WInv
<1>1. PICK e : e = Head(todo[c])  OBVIOUS
<1>2. PICK to : to = e.to  OBVIOUS
<1>3. /\ pc[c] = "copy" /\ todo[c] # <<>> /\ UNCHANGED call
      /\ \/ CanOpen(to) /\ OpenFile(to, TRUE) /\ Goto(c, "fill")
         \/ UNCHANGED fileVars /\ Reply(c, Error)
  BY <1>1, <1>2 DEF CopyFile
<1>4. call[c].tool \in {"copy", "move"}  BY <1>0, <1>3, Here, ToolTable
<1>5. Apart(call[c]) => SameBut(Below(call[c].dest), v, View)
  BY <1>3, <1>4 DEF CopyRuns, Alone, Kept, Copying
<1>6. CASE CanOpen(to) /\ OpenFile(to, TRUE) /\ Goto(c, "fill")
  <2>1. SameBut({to}, View, View') /\ to \in Paths  BY <1>0, <1>6, OpenSame
  <2>2. ASSUME Apart(call[c])  PROVE  SameBut(Below(call[c].dest), v, View')
    <3>1. Moves(c, v)  BY <2>2 DEF CopyRuns
    <3>2. e.from \in Below(call[c].path) /\ to = Moved(call[c], e.from)
      BY <1>0, <1>1, <1>2, <1>3, <3>1, NextEntry
    <3>3. call[c].path \in Paths /\ call[c].dest \in Paths  BY <1>0, <3>1, MovePlaces
    <3>4. IsPrefix(call[c].dest, to)  BY <3>2, <3>3, MovedIs
    <3>5. PICK S : S = Below(call[c].dest)  OBVIOUS
    <3>6. {to} \cap Paths \subseteq S /\ S \cap Paths \subseteq S  BY <2>1, <3>4, <3>5 DEF Below
    <3> QED  BY <1>5, <2>1, <2>2, <3>5, <3>6, SameTwice
  <2>3. pc'[c] = "fill"  BY <1>0, <1>6, Ended1
  <2> QED  BY <1>3, <1>4, <2>2, <2>3, CopyGoes
<1>7. CASE UNCHANGED fileVars /\ Reply(c, Error)
  <2>1. pc'[c] = "done" /\ answer'[c] = Error /\ View' = View
    BY <1>0, <1>7, Ended1, ViewStays DEF fileVars
  <2> QED  BY <1>3, <1>4, <1>5, <2>1, CopyFails
<1> QED  BY <1>3, <1>6, <1>7

\* And so is the one that it fills
LEMMA FillKeeps ==
    ASSUME NEW c \in Calls, NEW v, CopyRuns(c, v), FillCopy(c)
    PROVE  Kept(c, v)'
<1>0. WInv /\ TInv /\ Typed  BY DEF CopyRuns, Alone, TInv, WInv
<1>1. /\ pc[c] = "fill" /\ UNCHANGED <<call, tree>>
      /\ IF source[c] = Dir THEN Reply(c, Error) /\ UNCHANGED data
         ELSE /\ data' = [data EXCEPT ![handle[c]] = Overlaid(@, data[source[c]])]
              /\ Goto(c, "copy")
  BY DEF FillCopy
<1>2. call[c].tool \in {"copy", "move"}  BY <1>0, <1>1, Here, ToolTable
<1>3. Apart(call[c]) => SameBut(Below(call[c].dest), v, View)
  BY <1>1, <1>2 DEF CopyRuns, Alone, Kept, Copying
<1>4. CASE source[c] = Dir
  <2>1. pc'[c] = "done" /\ answer'[c] = Error /\ View' = View
    BY <1>0, <1>1, <1>4, Ended1, ViewStays
  <2> QED  BY <1>1, <1>2, <1>3, <2>1, CopyFails
<1>5. CASE source[c] # Dir
  <2>1. pc'[c] = "copy"  BY <1>0, <1>1, <1>5, Ended1
  <2>2. ASSUME Apart(call[c])  PROVE  SameBut(Below(call[c].dest), v, View')
    <3>1. Moves(c, v)  BY <2>2 DEF CopyRuns
    <3>2. PICK q \in Below(call[c].path) : Taking(c, q)  BY <1>1, <1>5, <3>1 DEF Moves, Progress
    <3>3. PICK r : r = Moved(call[c], q)  OBVIOUS
    <3>4. /\ r \in Paths /\ source[c] \in Files /\ handle[c] \in Files /\ tree[r] = handle[c]
      BY <3>2, <3>3 DEF Taking
    <3>5. call[c].path \in Paths /\ call[c].dest \in Paths  BY <1>0, <3>1, MovePlaces
    <3>6. IsPrefix(call[c].dest, r)  BY <3>3, <3>5, MovedIs
    <3>7. PICK x : x = Overlaid(data[handle[c]], data[source[c]])  OBVIOUS
    <3>8. x \in Seq(Lines)
      <4>1. data[handle[c]] \in Seq(Lines) /\ data[source[c]] \in Seq(Lines)  BY <1>0, <3>4 DEF Typed
      <4> QED  BY <3>7, <4>1, Rests
    <3>9. data' = [data EXCEPT ![tree[r]] = x]  BY <1>1, <1>5, <3>4, <3>7
    <3>10. SameBut({r}, View, View')  BY <1>0, <1>1, <3>4, <3>8, <3>9, WriteSame
    <3>11. PICK S : S = Below(call[c].dest)  OBVIOUS
    <3>12. {r} \cap Paths \subseteq S /\ S \cap Paths \subseteq S  BY <3>4, <3>6, <3>11 DEF Below
    <3> QED  BY <1>3, <2>2, <3>10, <3>11, <3>12, SameTwice
  <2> QED  BY <1>1, <1>2, <2>1, <2>2, CopyGoes
<1> QED  BY <1>4, <1>5

\* A copy that ends has copied everything, and a move has it yet to remove
LEMMA CopyEndsKeeps ==
    ASSUME NEW c \in Calls, NEW v, CopyRuns(c, v), CopyEnds(c)
    PROVE  Kept(c, v)'
<1>0. WInv /\ TInv /\ Typed  BY DEF CopyRuns, Alone, TInv, WInv
<1>1. PICK p \in Paths : p = call[c].path  BY <1>0, Lists DEF CopyEnds
<1>2. PICK k : k = call[c]  OBVIOUS
<1>3. /\ pc[c] = "copy" /\ UNCHANGED <<call, tree, data>>
      /\ IF k.tool = "move" THEN Goto(c, "removeall") /\ Set(todo, c, Contents(p))
         ELSE Reply(c, Ok)
  BY <1>1, <1>2 DEF CopyEnds, fileVars
<1>4. k.tool \in {"copy", "move"}  BY <1>0, <1>2, <1>3, Here, ToolTable
<1>5. View' = View  BY <1>3, ViewStays
<1>6. Apart(k) => SameBut(Below(k.dest), v, View)
  BY <1>2, <1>3, <1>4 DEF CopyRuns, Alone, Kept, Copying
<1>7. CASE k.tool = "move"
  <2>1. pc'[c] = "removeall" /\ todo'[c] = Contents(p)  BY <1>0, <1>3, <1>7, Ended1, Changed1
  <2>2. \A q \in Below(p) : tree'[q] # Absent => \E i \in DOMAIN todo'[c] : todo'[c][i].from = q
    BY <1>3, <2>1, ContentsAll
  <2>3. Apart(k) => SameBut(Below(k.dest) \cup Below(p), v, View')  BY <1>5, <1>6 DEF SameBut
  <2>4. Writing(c, v)' /\ Looking(c, v)' /\ Copying(c, v)' /\ Finding(c, v)'
    BY <2>1 DEF Writing, Looking, Copying, Finding
  <2>5. Removing(c, v)'
    BY <1>1, <1>2, <1>3, <1>7, <2>2, <2>3 DEF Removing, Below, SameBut, Apart, Absent
  <2> QED  BY <2>1, <2>4, <2>5 DEF Kept
<1>8. CASE k.tool = "copy"
  <2>1. pc'[c] = "done" /\ answer'[c] = Ok  BY <1>0, <1>3, <1>8, Ended1
  <2>2. ASSUME Apart(k), NEW r \in Below(p), v[r] # <<Absent>>
        PROVE  Moved(k, r) \in Paths /\ View'[Moved(k, r)] = v[r]
    <3>1. Progress(c, v)'  BY <1>2, <2>2 DEF CopyRuns
    <3>2. r \in Sources(call[c], v)'  BY <1>1, <1>3, <2>2 DEF Sources, Below
    <3>3. Arrived(call[c], v, r)'  BY <2>1, <3>1, <3>2, Statuses DEF Progress
    <3> QED  BY <1>2, <1>3, <3>3 DEF Arrived, Moved
  <2>3. Changed(c, k, v, View') /\ Reported(k, v, answer'[c])
    BY <1>1, <1>2, <1>5, <1>6, <1>8, <2>2 DEF Changed, Reported
  <2>4. Promise(c, call'[c], v, View', answer'[c])  BY <1>2, <1>3, <2>1, <2>3, Statuses DEF Promise
  <2> QED  BY <2>1, <2>4, KeptDone
<1> QED  BY <1>4, <1>7, <1>8

-----------------------------------------------------------------------------
(***************************************************************************)
(* What a search finds that is alone.                                      *)
(***************************************************************************)

\* A match is expected
LEMMA MatchExpected ==
    ASSUME Typed, NEW k, k.tool \in {"grep", "glob"}, NEW m, IsMatch(k, m)
    PROVE  m \in Expected(View, k)
<1>1. CASE k.tool = "grep"
  <2>1. GrepMatch(k, m)  BY <1>1 DEF IsMatch
  <2>2. PICK q \in Paths, n \in Nat : m = <<q, n>>  BY <2>1 DEF GrepMatch
  <2>3. m[1] = q /\ m[2] = n  BY <2>2
  <2>4. View[q] = data[tree[q]] /\ View[q] \notin {<<Absent>>, <<Dir>>}  BY <2>1, <2>3, ViewIs DEF GrepMatch
  <2>5. /\ IsPrefix(k.path, q) /\ (k.opt.depth >= 0 => Len(Rest(k.path, q)) <= k.opt.depth + 2)
        /\ Zero \notin Range(View[q]) /\ n \in DOMAIN View[q] /\ View[q][n] \in Wanted
    BY <2>1, <2>3, <2>4 DEF GrepMatch, Near
  <2>6. m \in {q} \X {i \in DOMAIN View[q] : View[q][i] \in Wanted}  BY <2>2, <2>5
  <2> QED  BY <1>1, <2>4, <2>5, <2>6 DEF Expected
<1>2. CASE k.tool = "glob"
  <2>1. GlobMatch(k, m)  BY <1>2 DEF IsMatch
  <2>2. m \in (Below(k.path) \ {k.path}) \X {0} /\ m[1] \in Paths  BY <2>1 DEF GlobMatch, Below
  <2>3. /\ View[m[1]] # <<Absent>>
        /\ View[m[1]] \notin {<<Absent>>, <<Dir>>} <=> tree[m[1]] \in Files
    BY <2>1, <2>2, ViewIs DEF GlobMatch
  <2>4. k.opt.type = "all" \/ (k.opt.type = "file") = (View[m[1]] \notin {<<Absent>>, <<Dir>>})
    BY <2>1, <2>3, Zenon DEF GlobMatch
  <2>5. /\ k.opt.depth >= 0 => Len(Rest(k.path, m[1])) <= k.opt.depth + 2
        /\ View[m[1]] \notin {<<Absent>>, <<Dir>>} \/ k.opt.depth < 0
             \/ Len(Rest(k.path, m[1])) <= k.opt.depth + 1
        /\ Fits(k.opt, Rest(k.path, m[1]))
    BY <2>1, <2>3 DEF GlobMatch, Near
  <2> QED  BY <1>2, <2>2, <2>3, <2>4, <2>5 DEF Expected, Fits
<1> QED  BY <1>1, <1>2

\* u has the m names of s and then the n names of t
Joins(u, s, m, t, n) ==
    /\ u \in Seq(STRING) /\ Len(u) = m + n
    /\ \A i \in 1 .. m : u[i] = s[i]
    /\ \A i \in 1 .. n : u[m + i] = t[i]

LEMMA JoinIs ==
    ASSUME NEW s \in Seq(STRING), NEW t \in Seq(STRING), NEW m, m = Len(s), NEW n, n = Len(t),
           NEW u, u = s \o t
    PROVE  Joins(u, s, m, t, n)
<1>1. u \in Seq(STRING) /\ Len(u) = Len(s) + Len(t) /\ Len(s) \in Nat /\ Len(t) \in Nat  OBVIOUS
<1>2. \A i \in 1 .. Len(s) + Len(t) : u[i] = IF i <= Len(s) THEN s[i] ELSE t[i - Len(s)]  OBVIOUS
<1>3. PICK k \in Nat, l \in Nat : k = Len(s) /\ l = Len(t)  BY <1>1
<1>4. \A i \in 1 .. k : u[i] = s[i]  BY <1>2, <1>3
<1>5. \A i \in 1 .. l : u[k + i] = t[i]
  <2>1. ASSUME NEW i \in 1 .. l  PROVE  u[k + i] = t[i]
    <3>1. k + i \in 1 .. k + l /\ ~(k + i <= k) /\ (k + i) - k = i  BY <1>3
    <3> QED  BY <1>2, <1>3, <3>1
  <2> QED  BY <2>1
<1> QED  BY <1>1, <1>3, <1>4, <1>5 DEF Joins

\* The last names of a path are a part of it
LEMMA LastIsPart ==
    ASSUME NEW rel \in Seq(STRING), NEW prefix \in Seq(STRING), IsPrefix(prefix, rel),
           NEW n \in Len(prefix) .. Len(rel)
    PROVE  rel = prefix \o SubSeq(rel, Len(prefix) + 1, n) \o SubSeq(rel, n + 1, Len(rel))
<1>1. PICK r \in Nat, k \in Nat : r = Len(rel) /\ k = Len(prefix)  OBVIOUS
<1>2. n \in Nat /\ k <= n /\ n <= r  BY <1>1
<1>3. \A i \in 1 .. k : rel[i] = prefix[i]  BY <1>1, PrefixIs
<1>4. PICK mid : mid = SubSeq(rel, k + 1, n)  OBVIOUS
<1>5. mid \in Seq(STRING) /\ Len(mid) = n - k /\ \A i \in 1 .. n - k : mid[i] = rel[k + i]
  BY <1>1, <1>2, <1>4, SMTT(20)
<1>6. PICK end : end = SubSeq(rel, n + 1, r)  OBVIOUS
<1>7. end \in Seq(STRING) /\ Len(end) = r - n /\ \A i \in 1 .. r - n : end[i] = rel[n + i]
  BY <1>1, <1>2, <1>6, SMTT(20)
<1>8. PICK half : half = prefix \o mid  OBVIOUS
<1>9. /\ half \in Seq(STRING) /\ Len(half) = n
      /\ \A i \in 1 .. k : half[i] = prefix[i]
      /\ \A i \in 1 .. n - k : half[k + i] = mid[i]
  <2>1. PICK d \in Nat : d = n - k /\ k + d = n  BY <1>2
  <2>2. d = Len(mid) /\ k = Len(prefix)  BY <1>1, <1>5, <2>1
  <2>3. Joins(half, prefix, k, mid, d)  BY <1>5, <1>8, <2>2, JoinIs, ZenonT(40)
  <2> QED  BY <2>1, <2>3 DEF Joins
<1>10. \A i \in 1 .. n : half[i] = rel[i]
  <2>1. ASSUME NEW i \in 1 .. n, ~(i <= k)  PROVE  half[i] = rel[i]
    <3>1. PICK j \in 1 .. n - k : k + j = i
      <4>1. i - k \in 1 .. n - k /\ k + (i - k) = i  BY <1>2, <2>1
      <4> QED  BY <4>1
    <3> QED  BY <1>5, <1>9, <3>1
  <2>2. ASSUME NEW i \in 1 .. n, i <= k  PROVE  half[i] = rel[i]
    <3>1. i \in 1 .. k  BY <1>2, <2>2
    <3> QED  BY <1>3, <1>9, <3>1
  <2> QED  BY <2>1, <2>2
<1>11. PICK all : all = half \o end  OBVIOUS
<1>12. /\ all \in Seq(STRING) /\ Len(all) = r
       /\ \A i \in 1 .. n : all[i] = half[i]
       /\ \A i \in 1 .. r - n : all[n + i] = end[i]
  <2>1. PICK d \in Nat : d = r - n /\ n + d = r  BY <1>2
  <2>2. d = Len(end) /\ n = Len(half) /\ n \in Nat  BY <1>2, <1>7, <1>9, <2>1
  <2>3. Joins(all, half, n, end, d)  BY <1>7, <1>9, <1>11, <2>2, JoinIs, ZenonT(40)
  <2> QED  BY <2>1, <2>3 DEF Joins
<1>13. \A i \in 1 .. r : all[i] = rel[i]
  <2>1. ASSUME NEW i \in 1 .. r, ~(i <= n)  PROVE  all[i] = rel[i]
    <3>1. PICK j \in 1 .. r - n : n + j = i
      <4>1. i - n \in 1 .. r - n /\ n + (i - n) = i  BY <1>2, <2>1
      <4> QED  BY <4>1
    <3> QED  BY <1>7, <1>12, <3>1
  <2>2. ASSUME NEW i \in 1 .. r, i <= n  PROVE  all[i] = rel[i]
    <3>1. i \in 1 .. n  BY <1>2, <2>2
    <3> QED  BY <1>10, <1>12, <3>1
  <2> QED  BY <2>1, <2>2
<1>14. all = rel  BY <1>1, <1>12, <1>13, SeqIsSeq
<1> QED  BY <1>1, <1>4, <1>6, <1>8, <1>11, <1>14

\* What follows a prefix
LEMMA RestOf ==
    ASSUME NEW q \in Seq(STRING), NEW r \in Seq(STRING), IsPrefix(q, r)
    PROVE  /\ Rest(q, r) \in Seq(STRING) /\ Len(Rest(q, r)) = Len(r) - Len(q)
           /\ \A i \in 1 .. Len(r) - Len(q) : Rest(q, r)[i] = r[Len(q) + i]
<1>1. Len(q) <= Len(r) /\ Len(q) \in Nat /\ Len(r) \in Nat  BY PrefixIs
<1> QED  BY <1>1 DEF Rest

\* What matchDoublestar matches fits the pattern
LEMMA MatchesFit ==
    ASSUME ProperSearches, NEW o \in Globs, NEW rel \in Seq(STRING), rel # <<>>, MatchDoublestar(o, rel)
    PROVE  Fits(o, rel)
<1>1. /\ o.deep \in BOOLEAN /\ o.prefix \in Seq(STRING) /\ o.last \in Seq(SUBSET STRING)
  BY GlobPatterns
<1>2. PICK prefix \in Seq(STRING), last \in Seq(SUBSET STRING) : prefix = o.prefix /\ last = o.last
  BY <1>1
<1>3. Len(rel) \in Nat \ {0} /\ Len(prefix) \in Nat /\ Len(last) \in Nat /\ DOMAIN last = 1 .. Len(last)
  OBVIOUS
<1>4. CASE ~o.deep
  <2>1. Len(last) = 1 /\ LastMatch(last, rel)  BY <1>2, <1>4 DEF MatchDoublestar
  <2>2. rel[Len(rel) - 1 + 1] \in last[1]  BY <1>3, <2>1 DEF LastMatch
  <2>3. Len(rel) - 1 + 1 = Len(rel)  BY <1>3
  <2> QED  BY <1>2, <1>4, <2>2, <2>3 DEF Fits
<1>5. CASE o.deep
  <2>1. ASSUME IsPrefix(prefix, rel), NEW n \in Len(prefix) .. Len(rel), Len(rel) - n = Len(last),
               \A i \in 1 .. Len(rel) - n : rel[n + i] \in last[i]
        PROVE  Fits(o, rel)
    <3>1. rel = prefix \o SubSeq(rel, Len(prefix) + 1, n) \o SubSeq(rel, n + 1, Len(rel))
      BY <2>1, LastIsPart
    <3>2. n \in 0 .. Len(rel)  BY <1>3
    <3> QED  BY <1>2, <1>5, <2>1, <3>1, <3>2 DEF Fits
  <2>2. ASSUME IsPrefix(prefix, rel), LastMatch(last, rel), Len(prefix) + Len(last) <= Len(rel)
        PROVE  Fits(o, rel)
    <3>1. PICK n \in Len(prefix) .. Len(rel) : n = Len(rel) - Len(last)
      <4>1. Len(rel) - Len(last) \in Len(prefix) .. Len(rel)  BY <1>3, <2>2
      <4> QED  BY <4>1
    <3>2. Len(rel) - n = Len(last)  BY <1>3, <3>1
    <3>3. ASSUME NEW i \in 1 .. Len(rel) - n  PROVE  rel[n + i] \in last[i]
      <4>1. i \in DOMAIN last  BY <1>3, <3>2
      <4>2. rel[Len(rel) - Len(last) + i] \in last[i]  BY <2>2, <4>1 DEF LastMatch
      <4> QED  BY <3>1, <4>2
    <3> QED  BY <2>1, <2>2, <3>2, <3>3
  <2>3. CASE prefix = <<>>
    <3>1. LastMatch(last, rel)  BY <1>2, <1>5, <2>3 DEF MatchDoublestar
    <3>2. IsPrefix(prefix, rel)
      <4>1. Len(prefix) <= Len(rel) /\ \A i \in 1 .. Len(prefix) : prefix[i] = rel[i]  BY <1>3, <2>3
      <4> QED  BY <4>1, PrefixIs
    <3>3. Len(last) <= Len(rel) /\ Len(prefix) = 0  BY <2>3, <3>1 DEF LastMatch
    <3> QED  BY <1>3, <2>2, <2>3, <3>1, <3>2, <3>3
  <2>4. CASE prefix # <<>>
    <3> DEFINE inside == IsStrictPrefix(prefix, rel)
    <3>1. inside \/ rel = prefix  BY <1>2, <1>5, <2>4 DEF MatchDoublestar
    <3>2. last = <<>> \/ LastMatch(last, IF inside THEN Rest(prefix, rel) ELSE rel)
      BY <1>2, <1>5, <2>4 DEF MatchDoublestar
    <3>3. IsPrefix(prefix, rel)  BY <3>1, PrefixOrder DEF IsStrictPrefix
    <3>4. Len(prefix) <= Len(rel)  BY <3>3, PrefixIs
    <3>5. CASE last = <<>>
      <4>1. PICK n \in Len(prefix) .. Len(rel) : n = Len(rel)  BY <1>3, <3>4
      <4> QED  BY <1>3, <2>1, <3>3, <3>5, <4>1
    <3>6. CASE last # <<>> /\ inside
      <4>1. PICK rest : rest = Rest(prefix, rel)  OBVIOUS
      <4>2. /\ Len(rest) = Len(rel) - Len(prefix)
            /\ \A i \in 1 .. Len(rel) - Len(prefix) : rest[i] = rel[Len(prefix) + i]
        BY <3>3, <4>1, RestOf
      <4>3. LastMatch(last, rest)  BY <3>2, <3>6, <4>1
      <4>4. Len(last) <= Len(rel) - Len(prefix)  BY <4>2, <4>3 DEF LastMatch
      <4>5. ASSUME NEW i \in DOMAIN last  PROVE  rel[Len(rel) - Len(last) + i] \in last[i]
        <5>1. PICK j \in 1 .. Len(rel) - Len(prefix) : j = Len(rest) - Len(last) + i
          BY <1>3, <4>2, <4>4
        <5>2. rest[j] \in last[i]  BY <4>3, <5>1 DEF LastMatch
        <5>3. Len(prefix) + j = Len(rel) - Len(last) + i  BY <1>3, <4>2, <5>1
        <5> QED  BY <4>2, <5>2, <5>3
      <4>6. LastMatch(last, rel)  BY <1>3, <3>6, <4>4, <4>5 DEF LastMatch
      <4>7. Len(prefix) + Len(last) <= Len(rel)  BY <1>3, <4>4
      <4> QED  BY <2>2, <3>3, <4>6, <4>7
    <3>7. CASE last # <<>> /\ ~inside
      <4>1. LastMatch(last, prefix)  BY <3>1, <3>2, <3>7
      <4> QED  BY <1>2, <1>5, <2>4, <4>1 DEF ProperSearches
    <3> QED  BY <3>5, <3>6, <3>7
  <2> QED  BY <2>3, <2>4
<1> QED  BY <1>1, <1>4, <1>5

\* Matches that a search k of the tree v may report, each once
Good(k, v, s) ==
    /\ s \in Seq(Matches) /\ Range(s) \subseteq Expected(v, k)
    /\ \A i, j \in DOMAIN s : i # j => s[i] # s[j]

LEMMA GoodJoin ==
    ASSUME NEW k, NEW v, NEW s, NEW t, Good(k, v, s), Good(k, v, t),
           \A i \in DOMAIN s, j \in DOMAIN t : s[i] # t[j]
    PROVE  Good(k, v, s \o t)
<1>1. s \in Seq(Matches) /\ t \in Seq(Matches)  BY DEF Good
<1>2. PICK m \in Nat, n \in Nat : m = Len(s) /\ n = Len(t)  BY <1>1
<1>3. PICK u : u = s \o t  OBVIOUS
<1>4. u \in Seq(Matches) /\ Len(u) = m + n /\ DOMAIN u = 1 .. m + n  BY <1>1, <1>2, <1>3
<1>5. ASSUME NEW i \in DOMAIN u
      PROVE  \/ i \in DOMAIN s /\ u[i] = s[i]
             \/ i - m \in DOMAIN t /\ u[i] = t[i - m]
  <2>1. i \in 1 .. m + n  BY <1>4
  <2>2. CASE i <= m  BY <1>1, <1>2, <1>3, <2>1, <2>2
  <2>3. CASE i > m
    <3>1. i - m \in 1 .. n  BY <2>1, <2>3
    <3> QED  BY <1>1, <1>2, <1>3, <2>1, <2>3, <3>1
  <2> QED  BY <2>1, <2>2, <2>3
<1>6. Range(u) \subseteq Expected(v, k)  BY <1>5 DEF Good, Range
<1>7. ASSUME NEW i \in DOMAIN u, NEW j \in DOMAIN u, i # j  PROVE  u[i] # u[j]
  <2>1. i \in Int /\ j \in Int /\ i - m # j - m  BY <1>4, <1>7
  <2> QED  BY <1>5, <1>7, <2>1 DEF Good
<1> QED  BY <1>3, <1>4, <1>6, <1>7 DEF Good

\* The first n of s
Leads(u, s, n) == n \in 0 .. Len(s) /\ u = SubSeq(s, 1, n)

LEMMA GoodPart ==
    ASSUME NEW k, NEW v, NEW s, Good(k, v, s), NEW n, NEW u, Leads(u, s, n)
    PROVE  Good(k, v, u) /\ Len(u) = n
<1>0. n \in 0 .. Len(s) /\ u = SubSeq(s, 1, n)  BY DEF Leads
<1>1. s \in Seq(Matches) /\ Len(s) \in Nat  BY DEF Good
<1>2. /\ u \in Seq(Matches) /\ Len(u) = n /\ DOMAIN u = 1 .. n
      /\ \A i \in 1 .. n : i \in DOMAIN s /\ u[i] = s[i]
  BY <1>0, <1>1
<1> QED  BY <1>2 DEF Good, Range

LEMMA GoodCount ==
    ASSUME NEW k, NEW v, NEW s, Good(k, v, s)
    PROVE  Cardinality(Range(s)) = Len(s) /\ Len(s) \in Nat
<1>1. s \in Seq(Matches)  BY DEF Good
<1>2. PICK n \in Nat : n = Len(s) /\ DOMAIN s = 1 .. n  BY <1>1
<1>3. PICK S : S = Range(s)  OBVIOUS
<1>4. s \in Surjection(1 .. n, S) /\ s \in Injection(1 .. n, S)
  <2>1. s \in [1 .. n -> S]  BY <1>1, <1>2, <1>3 DEF Range
  <2>2. \A x \in S : \E i \in 1 .. n : s[i] = x  BY <1>2, <1>3 DEF Range
  <2>3. IsInjective(s)  BY <1>2 DEF IsInjective, Good
  <2> QED  BY <2>1, <2>2, <2>3 DEF Surjection, Injection
<1>5. IsFiniteSet(1 .. n) /\ Cardinality(1 .. n) = n
  <2>1. 1 \in Int /\ n \in Int  OBVIOUS
  <2>2. Cardinality(1 .. n) = (IF 1 > n THEN 0 ELSE n - 1 + 1) /\ IsFiniteSet(1 .. n)
    BY <2>1, FS_Interval
  <2> QED  BY <2>2
<1>6. Cardinality(S) = Cardinality(1 .. n)  BY <1>4, <1>5, FS_Surjection, Zenon
<1> QED  BY <1>2, <1>3, <1>5, <1>6

\* What grep finds in a file is in it, each line once
LEMMA GrepFound ==
    ASSUME Typed, NEW k, k.tool = "grep", NEW e, e.from \in Paths, e.from \in Below(k.path),
           Near(k, e.from)
    PROVE  /\ Good(k, View, GrepFile(e))
           /\ \A i \in DOMAIN GrepFile(e) : GrepFile(e)[i][1] = e.from
<1> DEFINE lines == data[tree[e.from]]
           S == {n \in DOMAIN lines : lines[n] \in Wanted}
           matching == Ascending(S)
<1>1. CASE e.dir \/ ~IsFile(e.from) \/ Zero \in Range(lines)
  <2>1. GrepFile(e) = <<>>  BY <1>1 DEF GrepFile
  <2>2. <<>> \in Seq(Matches) /\ DOMAIN <<>> = {} /\ Range(<<>>) = {}  BY DEF Range
  <2> QED  BY <2>1, <2>2 DEF Good
<1>2. CASE ~e.dir /\ IsFile(e.from) /\ Zero \notin Range(lines)
  <2>1. lines \in Seq(Lines) /\ tree[e.from] \in Files  BY <1>2 DEF Typed, IsFile, At
  <2>2. Len(lines) \in Nat /\ S \in SUBSET (1 .. Len(lines))  BY <2>1
  <2>3. Sorted(matching, S) /\ Cardinality(S) \in Nat  BY <2>2, AscendingIs
  <2>4. GrepFile(e) = [j \in DOMAIN matching |-> <<e.from, matching[j]>>]  BY <1>2 DEF GrepFile
  <2>5. S \subseteq Nat  BY <2>2
  <2>6. \A n \in S : n \in DOMAIN lines /\ lines[n] \in Wanted  OBVIOUS
  <2> HIDE DEF matching, S
  <2>7. /\ DOMAIN matching = 1 .. Cardinality(S)
        /\ \A j \in DOMAIN matching : matching[j] \in S
        /\ \A i, j \in DOMAIN matching : i # j => matching[i] # matching[j]
    <3>1. matching \in [1 .. Cardinality(S) -> S]  BY <2>3 DEF Sorted
    <3>2. \A i, j \in DOMAIN matching : i < j => matching[i] < matching[j]  BY <2>3 DEF Sorted
    <3>3. ASSUME NEW i \in DOMAIN matching, NEW j \in DOMAIN matching, i # j
          PROVE  matching[i] # matching[j]
      <4>1. i \in Int /\ j \in Int /\ matching[i] \in Int /\ matching[j] \in Int
        <5>1. DOMAIN matching = 1 .. Cardinality(S) /\ matching[i] \in S /\ matching[j] \in S  BY <3>1
        <5>2. matching[i] \in Nat /\ matching[j] \in Nat  BY <2>5, <5>1
        <5>3. PICK n \in Nat : n = Cardinality(S)  BY <2>3
        <5>4. i \in 1 .. n /\ j \in 1 .. n  BY <3>3, <5>1, <5>3
        <5> QED  BY <5>2, <5>4
      <4> QED  BY <3>2, <3>3, <4>1
    <3> QED  BY <3>1, <3>3
  <2>8. PICK f : f = GrepFile(e)  OBVIOUS
  <2>9. DOMAIN f = 1 .. Cardinality(S) /\ \A j \in DOMAIN f : f[j] = <<e.from, matching[j]>>
    BY <2>4, <2>7, <2>8
  <2>10. f \in Seq(Matches)  BY <2>8, GrepFileType
  <2>11. ASSUME NEW j \in DOMAIN f  PROVE  f[j] \in Expected(View, k)
    <3>1. PICK n \in S : f[j] = <<e.from, n>>  BY <2>7, <2>9
    <3>2. n \in Nat /\ n \in DOMAIN lines /\ lines[n] \in Wanted  BY <2>5, <2>6
    <3>3. IsPrefix(k.path, e.from)  BY DEF Below
    <3>4. GrepMatch(k, f[j])  BY <1>2, <2>1, <3>1, <3>2, <3>3 DEF GrepMatch
    <3> QED  BY <3>4, MatchExpected DEF IsMatch
  <2>12. \A i, j \in DOMAIN f : i # j => f[i] # f[j]  BY <2>7, <2>9
  <2>13. Good(k, View, f)  BY <2>10, <2>11, <2>12 DEF Good, Range
  <2> QED  BY <2>8, <2>9, <2>13
<1> QED  BY <1>1, <1>2

\* A search that has been answered, and has found what it may report
LEMMA SearchEnds ==
    ASSUME NEW c \in Calls, NEW v, pc'[c] = "done", View' = v, NEW k, call'[c] = k,
           k.tool \in {"grep", "glob"}, NEW a, answer'[c] = a, a.status = "ok",
           Good(k, v, a.value), Len(a.value) <= k.opt.max,
           a.truncated => Len(a.value) = k.opt.max
    PROVE  Kept(c, v)'
<1>1. Changed(c, k, v, View')  BY DEF Changed
<1>2. Reported(k, v, a)  BY GoodCount DEF Reported, Good
<1>3. Promise(c, call'[c], v, View', answer'[c])  BY <1>1, <1>2 DEF Promise
<1> QED  BY <1>3, KeptDone

\* What is left to visit is there, and is not below what was visited
LEMMA AfterThere ==
    ASSUME TInv, NEW c \in Calls, pc[c] = "walk", todo[c] # <<>>, call[c].opt.depth \in Int,
           \A j \in DOMAIN todo[c] : Visitable(call[c], todo[c][j]),
           NEW t, t = After(c, Head(todo[c]))
    PROVE  \A j \in DOMAIN t :
              /\ Visitable(call[c], t[j])
              /\ ~IsPrefix(t[j].from, Head(todo[c]).from)
              /\ \/ IsPrefix(Head(todo[c]).from, t[j].from)
                 \/ \E i \in DOMAIN todo[c] : todo[c][i] = t[j]
<1> DEFINE e == Head(todo[c])
           visited == e.dir /\ ~TooDeep(c, e) /\ IsFolder(e.from)
           children == IF visited THEN ChildrenIn(tree, e.from) ELSE <<>>
           new == [i \in DOMAIN children |-> Entry(children[i], children[i])]
<1>0. PICK k : k = call[c]  OBVIOUS
<1>1. todo[c] \in Seq(Entries) /\ Antichain(todo[c]) /\ k.path \in Paths  BY <1>0, Lists
<1>2. /\ e \in Entries /\ Tail(todo[c]) \in Seq(Entries)
      /\ \A i \in DOMAIN Tail(todo[c]) : ~IsPrefix(Tail(todo[c])[i].from, e.from)
  BY <1>1, TailApart
<1>3. t = new \o Tail(todo[c])  BY DEF After
<1>4. Visitable(k, e) /\ e = todo[c][1] /\ 1 \in DOMAIN todo[c]  BY <1>0, <1>1
<1>5. ASSUME NEW i \in DOMAIN Tail(todo[c])
      PROVE  \E j \in DOMAIN todo[c] : todo[c][j] = Tail(todo[c])[i]
  <2>1. i + 1 \in DOMAIN todo[c] /\ todo[c][i + 1] = Tail(todo[c])[i]  BY <1>1
  <2> QED  BY <2>1
<1>6. children \in Seq(Paths)
  <2>1. CASE visited  BY <1>2, <2>1, ChildrenAre DEF Entries
  <2>2. CASE ~visited  BY <2>2
  <2> QED  BY <2>1, <2>2
<1>7. ASSUME NEW i \in DOMAIN children
      PROVE  /\ Entry(children[i], children[i]) \in Entries
             /\ Visitable(k, Entry(children[i], children[i]))
             /\ ~IsPrefix(children[i], e.from) /\ IsPrefix(e.from, children[i])
             /\ Entry(children[i], children[i]).from = children[i]
  <2>1. visited /\ children = ChildrenIn(tree, e.from)  BY <1>7
  <2> HIDE DEF children
  <2>2. PICK p \in Paths : p = e.from  BY <1>2 DEF Entries
  <2>3. PICK r \in Paths : r = children[i]  BY <1>6
  <2>4. IsPrefix(p, r) /\ Len(r) = Len(p) + 1 /\ tree[r] # Absent
    BY <2>1, <2>2, <2>3, ChildrenAre, ChildrenThere
  <2>5. /\ p \in Seq(STRING) /\ r \in Seq(STRING) /\ k.path \in Seq(STRING)
        /\ Len(p) \in Nat /\ Len(k.path) \in Nat
    BY <1>1, PathFacts
  <2>6. IsPrefix(k.path, p)  BY <1>4, <2>2 DEF Visitable, Below
  <2>7. IsPrefix(k.path, r)  BY <2>4, <2>5, <2>6, PrefixOrder
  <2>8. ~IsPrefix(r, p)  BY <2>4, <2>5, PrefixIs
  <2>9. Near(k, r)
    <3>1. Len(k.path) <= Len(p)  BY <2>5, <2>6, PrefixIs
    <3>2. PICK d \in Int : d = k.opt.depth  BY <1>0
    <3>3. d >= 0 => ~(Len(Rest(k.path, p)) - 1 > d)
      <4>1. ~(d >= 0 /\ e.dir /\ Len(Rel(c, e)) - 1 > d)  BY <1>0, <2>1, <3>2 DEF TooDeep
      <4>2. e.dir /\ Rel(c, e) = Rest(k.path, p)  BY <1>0, <2>1, <2>2 DEF Rel
      <4> QED  BY <4>1, <4>2
    <3>4. Len(Rest(k.path, p)) = Len(p) - Len(k.path)  BY <2>5, <2>6, RestOf
    <3>5. Len(Rest(k.path, r)) = Len(r) - Len(k.path)  BY <2>5, <2>7, RestOf
    <3>6. Len(Rest(k.path, r)) = Len(Rest(k.path, p)) + 1 /\ Len(Rest(k.path, p)) \in Nat
      BY <2>4, <2>5, <3>1, <3>4, <3>5
    <3>7. d >= 0 => Len(Rest(k.path, r)) <= d + 2  BY <3>3, <3>6
    <3> QED  BY <3>2, <3>7, Zenon DEF Near
  <2>10. PICK x : x = Entry(r, r)  OBVIOUS
  <2>11. x \in Entries /\ x.from = r /\ (x.dir <=> tree[r] = Dir)
    <3>1. x \in Entries /\ x.from = r  BY <2>10, EntryIs
    <3>2. x.dir = IsFolder(r)  BY <2>10 DEF Entry
    <3> QED  BY <3>1, <3>2 DEF IsFolder, At
  <2>12. Visitable(k, x)  BY <2>4, <2>7, <2>9, <2>11 DEF Visitable, Below
  <2> QED  BY <2>2, <2>3, <2>4, <2>8, <2>10, <2>11, <2>12
<1> HIDE DEF children
<1>8. new \in Seq(Entries) /\ DOMAIN new = DOMAIN children  BY <1>6, <1>7
<1>9. \A i \in DOMAIN new : new[i] = Entry(children[i], children[i])  BY <1>8
<1> HIDE DEF new
<1>10. ASSUME NEW j \in DOMAIN t
       PROVE  \/ \E i \in DOMAIN new : t[j] = new[i]
              \/ \E i \in DOMAIN Tail(todo[c]) : t[j] = Tail(todo[c])[i]
  <2>1. PICK rest \in Seq(Entries) : rest = Tail(todo[c])  BY <1>2
  <2>2. PICK first \in Seq(Entries) : first = new  BY <1>8
  <2>3. PICK m \in Nat, n \in Nat : m = Len(first) /\ n = Len(rest)  OBVIOUS
  <2>4. t = first \o rest  BY <1>3, <2>1, <2>2
  <2>5. j \in 1 .. m + n  BY <2>3, <2>4
  <2>6. CASE j <= m
    <3>1. j \in DOMAIN first /\ t[j] = first[j]  BY <2>3, <2>4, <2>5, <2>6
    <3> QED  BY <2>2, <3>1
  <2>7. CASE j > m
    <3>1. PICK i \in 1 .. n : i = j - m
      <4>1. j - m \in 1 .. n  BY <2>5, <2>7
      <4> QED  BY <4>1
    <3>2. i \in DOMAIN rest /\ m + i = j  BY <2>3, <2>5, <2>7, <3>1
    <3>3. (first \o rest)[m + i] = rest[i]  BY <2>3, <3>1
    <3>4. t[j] = rest[i]  BY <2>4, <3>2, <3>3
    <3> QED  BY <2>1, <3>2, <3>4
  <2> QED  BY <2>5, <2>6, <2>7
<1>11. ASSUME NEW j \in DOMAIN t
       PROVE  /\ Visitable(k, t[j]) /\ ~IsPrefix(t[j].from, e.from)
              /\ \/ IsPrefix(e.from, t[j].from)
                 \/ \E i \in DOMAIN todo[c] : todo[c][i] = t[j]
  <2>1. CASE \E i \in DOMAIN new : t[j] = new[i]  BY <1>7, <1>8, <1>9, <2>1
  <2>2. CASE \E i \in DOMAIN Tail(todo[c]) : t[j] = Tail(todo[c])[i]
    <3>1. PICK i \in DOMAIN Tail(todo[c]) : t[j] = Tail(todo[c])[i]  BY <2>2
    <3>2. PICK n \in DOMAIN todo[c] : todo[c][n] = t[j]  BY <1>5, <3>1
    <3>3. Visitable(k, t[j])  BY <1>0, <3>2
    <3> QED  BY <1>2, <3>1, <3>2, <3>3
  <2> QED  BY <1>10, <2>1, <2>2
<1> QED  BY <1>0, <1>11


\* A search that goes on to visit has found more at the entry only
LEMMA VisitKeeps ==
    ASSUME NEW c \in Calls, NEW v, Alone(c, v), SearchAt(c), pc[c] = "walk", pc'[c] = "walk",
           UNCHANGED <<fileVars, call>>, todo[c] # <<>>, todo'[c] = After(c, Head(todo[c])),
           ~answer'[c].truncated, NEW new, Good(call[c], v, new),
           \A i \in DOMAIN new : new[i][1] = Head(todo[c]).from,
           NEW s, s = answer[c].value \o new, answer'[c].value = s,
           Len(s) <= call[c].opt.max, call[c].tool = "grep" => Len(s) < call[c].opt.max
    PROVE  Kept(c, v)'
<1>0. WInv /\ TInv /\ Typed  BY DEF Alone, TInv, WInv
<1>1. PICK k : k = call[c]  OBVIOUS
<1>2. PICK t : t = After(c, Head(todo[c]))  OBVIOUS
<1>3. PICK p \in Paths : p = Head(todo[c]).from
  BY <1>0, Lists, TailApart DEF Entries
<1>4. PICK old : old = answer[c].value  OBVIOUS
<1>5. /\ \A i, j \in DOMAIN old : i # j => old[i] # old[j]
      /\ Range(old) \subseteq Expected(v, k)
      /\ \A i \in DOMAIN old : \A j \in DOMAIN todo[c] : ~IsPrefix(todo[c][j].from, old[i][1])
      /\ \A j \in DOMAIN todo[c] : Visitable(k, todo[c][j])
  BY <1>1, <1>4 DEF Alone, Kept, Finding
<1>6. old \in Seq(Matches) /\ k.opt.depth \in Int
  BY <1>1, <1>4, GlobPatterns DEF SearchAt, SearchAnswers, Searching
<1>7. Good(k, v, old)  BY <1>5, <1>6 DEF Good
<1>8. \A j \in DOMAIN t :
         /\ Visitable(k, t[j]) /\ ~IsPrefix(t[j].from, p)
         /\ IsPrefix(p, t[j].from) \/ \E i \in DOMAIN todo[c] : todo[c][i] = t[j]
  <2>1. call[c].opt.depth \in Int /\ \A j \in DOMAIN todo[c] : Visitable(call[c], todo[c][j])
    BY <1>1, <1>5, <1>6
  <2>2. \A j \in DOMAIN t :
           /\ Visitable(call[c], t[j]) /\ ~IsPrefix(t[j].from, Head(todo[c]).from)
           /\ \/ IsPrefix(Head(todo[c]).from, t[j].from)
              \/ \E i \in DOMAIN todo[c] : todo[c][i] = t[j]
    BY <1>0, <1>2, <2>1, AfterThere, ZenonT(40)
  <2> QED  BY <1>1, <1>3, <2>2
<1>9. \A i \in DOMAIN old : ~IsPrefix(p, old[i][1])
  <2>1. todo[c] \in Seq(Entries)  BY <1>0, Lists
  <2>2. 1 \in DOMAIN todo[c] /\ Head(todo[c]) = todo[c][1]  BY <2>1
  <2> QED  BY <1>3, <1>5, <2>2
<1>10. \A i \in DOMAIN old, j \in DOMAIN new : old[i] # new[j]
  <2>1. IsPrefix(p, p)  BY PathFacts, PrefixOrder
  <2> QED  BY <1>3, <1>9, <2>1
<1>11. Good(k, v, s)  BY <1>1, <1>4, <1>7, <1>10, GoodJoin
<1>12. new \in Seq(Matches)  BY DEF Good
<1>13. \A i \in DOMAIN s : s[i][1] \in Paths /\ (s[i][1] = p \/ \E j \in DOMAIN old : s[i] = old[j])
  <2>1. ASSUME NEW i \in DOMAIN s
        PROVE  (\E j \in DOMAIN new : s[i] = new[j]) \/ (\E j \in DOMAIN old : s[i] = old[j])
    <3>1. s = old \o new  BY <1>4
    <3>2. i \in 1 .. Len(old) + Len(new)  BY <1>6, <1>12, <3>1
    <3>3. CASE i <= Len(old)
      <4>1. i \in DOMAIN old /\ s[i] = old[i]  BY <1>6, <1>12, <3>1, <3>2, <3>3
      <4> QED  BY <4>1
    <3>4. CASE i > Len(old)
      <4>1. i - Len(old) \in DOMAIN new /\ s[i] = new[i - Len(old)]  BY <1>6, <1>12, <3>1, <3>2, <3>4
      <4> QED  BY <4>1
    <3> QED  BY <1>6, <3>2, <3>3, <3>4
  <2>2. \A j \in DOMAIN old : old[j][1] \in Paths
    <3>1. \A j \in DOMAIN old : old[j] \in Matches  BY <1>6
    <3> QED  BY <3>1 DEF Matches
  <2> QED  BY <1>3, <2>1, <2>2
<1>14. ASSUME NEW i \in DOMAIN s, NEW j \in DOMAIN t  PROVE  ~IsPrefix(t[j].from, s[i][1])
  <2>1. CASE s[i][1] = p  BY <1>8, <2>1
  <2>2. CASE \E n \in DOMAIN old : s[i] = old[n]
    <3>1. PICK n \in DOMAIN old : s[i] = old[n]  BY <2>2
    <3>2. CASE \E m \in DOMAIN todo[c] : todo[c][m] = t[j]  BY <1>5, <3>1, <3>2
    <3>3. CASE IsPrefix(p, t[j].from)
      <4>1. t[j].from \in Seq(STRING) /\ p \in Seq(STRING) /\ s[i][1] \in Seq(STRING)
        BY <1>8, <1>13, PathFacts DEF Visitable, Below
      <4>2. ~IsPrefix(p, s[i][1])  BY <1>9, <3>1
      <4> QED  BY <3>3, <4>1, <4>2, PrefixOrder
    <3> QED  BY <1>8, <3>2, <3>3
  <2> QED  BY <1>13, <2>1, <2>2
<1>15. View' = View  BY ViewStays DEF fileVars
<1>16. Writing(c, v)' /\ Removing(c, v)' /\ Copying(c, v)'  BY DEF Writing, Removing, Copying
<1>17. Looking(c, v)'
  <2>1. View = v  BY DEF Alone, Kept, Looking
  <2> QED  BY <1>15, <2>1 DEF Looking
<1>18. Finding(c, v)'
  <2>1. call' = call /\ tree' = tree /\ todo'[c] = t /\ answer'[c].value = s  BY <1>2 DEF fileVars
  <2>2. Range(s) \subseteq Expected(v, k) /\ \A i, j \in DOMAIN s : i # j => s[i] # s[j]
    BY <1>11 DEF Good
  <2>3. \A j \in DOMAIN t : Visitable(k, t[j])'  BY <1>8, <2>1 DEF Visitable, Near, Below, Absent, Dir
  <2>4. Expected(v, k)' = Expected(v, k)  BY DEF Expected, Below
  <2> QED  BY <1>1, <1>14, <2>1, <2>2, <2>3 DEF Finding
<1> QED  BY <1>16, <1>17, <1>18 DEF Kept

\* An entry that glob reports is one to report
LEMMA GlobFound ==
    ASSUME ProperSearches, TInv, NEW c \in Calls, call[c].tool = "glob", call[c].opt \in Globs,
           pc[c] = "walk", NEW e, e.from \in Paths, Visitable(call[c], e), e.from # call[c].path,
           ~TooDeep(c, e), call[c].opt.type \in {"all", IF e.dir THEN "directory" ELSE "file"},
           MatchDoublestar(call[c].opt, Rel(c, e))
    PROVE  <<e.from, 0>> \in Expected(View, call[c])
<1>0. Typed  BY DEF TInv, WInv
<1>1. PICK k : k = call[c]  OBVIOUS
<1>2. PICK q \in Paths : q = e.from  OBVIOUS
<1>3. k.path \in Paths  BY <1>0, <1>1, Lists
<1>4. /\ q \in Below(k.path) /\ tree[q] # Absent /\ (e.dir <=> tree[q] = Dir) /\ Near(k, q)
  BY <1>1, <1>2 DEF Visitable
<1>5. PICK m : m = <<q, 0>>  OBVIOUS
<1>6. m[1] = q /\ m \in (Below(k.path) \ {k.path}) \X {0}  BY <1>1, <1>2, <1>4, <1>5
<1>7. tree[q] \in Files <=> ~e.dir  BY <1>0, <1>4, Constants DEF Typed
<1>8. k.opt.type = "all" \/ (k.opt.type = "file") = (tree[q] \in Files)
  <2>1. CASE e.dir
    <3>1. tree[q] \notin Files /\ (k.opt.type = "all" \/ k.opt.type # "file")  BY <1>1, <1>7, <2>1
    <3> QED  BY <3>1
  <2>2. CASE ~e.dir
    <3>1. tree[q] \in Files /\ (k.opt.type = "all" \/ k.opt.type = "file")  BY <1>1, <1>7, <2>2
    <3> QED  BY <3>1
  <2> QED  BY <2>1, <2>2
<1>9. PICK rel : rel = Rest(k.path, q)  OBVIOUS
<1>10. rel \in Seq(STRING) /\ rel # <<>> /\ Len(rel) \in Nat
  <2>1. PICK p \in Paths : p = k.path /\ IsPrefix(p, q) /\ p # q  BY <1>1, <1>2, <1>3, <1>4 DEF Below
  <2>2. p \in Seq(STRING) /\ q \in Seq(STRING)  BY PathFacts
  <2>3. Len(p) < Len(q)  BY <2>1, <2>2, PrefixOrder
  <2>4. rel \in Seq(STRING) /\ Len(rel) = Len(q) - Len(p)  BY <1>9, <2>1, <2>2, RestOf
  <2> QED  BY <2>2, <2>3, <2>4
<1>11. tree[q] \in Files \/ k.opt.depth < 0 \/ Len(rel) <= k.opt.depth + 1
  <2>1. PICK d \in Int : d = k.opt.depth  BY <1>1, GlobPatterns
  <2>2. ~(d >= 0 /\ e.dir /\ Len(rel) - 1 > d)  BY <1>1, <1>2, <1>9, <2>1 DEF TooDeep, Rel
  <2>3. ~e.dir \/ d < 0 \/ Len(rel) <= d + 1  BY <1>10, <2>2
  <2> QED  BY <1>7, <2>1, <2>3
<1>12. Fits(k.opt, rel)
  <2>1. MatchDoublestar(k.opt, rel) /\ k.opt \in Globs  BY <1>1, <1>2, <1>9 DEF Rel
  <2> QED  BY <1>10, <2>1, MatchesFit
<1>13. GlobMatch(k, m)  BY <1>4, <1>6, <1>8, <1>9, <1>11, <1>12, Zenon DEF GlobMatch
<1>14. k.tool = "glob"  BY <1>1
<1>15. IsMatch(k, m)  BY <1>13, <1>14 DEF IsMatch
<1> QED  BY <1>0, <1>1, <1>2, <1>5, <1>14, <1>15, MatchExpected

\* What a search that is alone has found, and the entry that it comes to
LEMMA SearchHas ==
    ASSUME NEW c \in Calls, NEW v, Alone(c, v), SearchAt(c), pc[c] = "walk"
    PROVE  /\ View = v /\ Typed /\ TInv /\ WInv
           /\ answer[c] \in SearchAnswers /\ ~answer[c].truncated
           /\ Searching(call[c]) /\ call[c].tool \in {"grep", "glob"}
           /\ Good(call[c], v, answer[c].value)
           /\ Len(answer[c].value) <= call[c].opt.max
           /\ call[c].tool = "grep" => Len(answer[c].value) < call[c].opt.max
           /\ todo[c] # <<>> =>
                 /\ Head(todo[c]).from \in Paths /\ Visitable(call[c], Head(todo[c]))
                 /\ \A i \in DOMAIN answer[c].value : answer[c].value[i][1] # Head(todo[c]).from
<1>0. WInv /\ TInv /\ Typed /\ View = v  BY DEF Alone, TInv, WInv, Kept, Looking
<1>1. PICK k : k = call[c]  OBVIOUS
<1>2. PICK s : s = answer[c].value  OBVIOUS
<1>3. /\ ~answer[c].truncated /\ Range(s) \subseteq Expected(v, k)
      /\ \A i, j \in DOMAIN s : i # j => s[i] # s[j]
      /\ Len(s) <= k.opt.max /\ (k.tool = "grep" => Len(s) < k.opt.max)
      /\ \A i \in DOMAIN s : \A j \in DOMAIN todo[c] : ~IsPrefix(todo[c][j].from, s[i][1])
      /\ \A j \in DOMAIN todo[c] : Visitable(k, todo[c][j])
  BY <1>1, <1>2 DEF Alone, Kept, Finding
<1>4. answer[c] \in SearchAnswers /\ Searching(k) /\ k.tool \in {"grep", "glob"}
  BY <1>1 DEF SearchAt, Searching
<1>5. s \in Seq(Matches)  BY <1>2, <1>4 DEF SearchAnswers
<1>6. Good(k, v, s)  BY <1>3, <1>5 DEF Good
<1>7. ASSUME todo[c] # <<>>
      PROVE  /\ Head(todo[c]).from \in Paths /\ Visitable(k, Head(todo[c]))
             /\ \A i \in DOMAIN s : s[i][1] # Head(todo[c]).from
  <2>1. todo[c] \in Seq(Entries)  BY <1>0, Lists
  <2>2. 1 \in DOMAIN todo[c] /\ Head(todo[c]) = todo[c][1] /\ todo[c][1] \in Entries  BY <1>7, <2>1
  <2>3. PICK p \in Paths : p = Head(todo[c]).from  BY <2>2 DEF Entries
  <2>4. IsPrefix(p, p)  BY PathFacts, PrefixOrder
  <2> QED  BY <1>3, <2>2, <2>3, <2>4
<1> QED  BY <1>0, <1>1, <1>2, <1>3, <1>4, <1>6, <1>7

\* A search begins with the folder that it is given
LEMMA SearchBegins ==
    ASSUME ProperSearches, TInv, NEW c \in Calls, SearchAt(c), Search(c), NEW v, v = View
    PROVE  Kept(c, v)'
<1>0. WInv  BY DEF TInv
<1>1. PICK p \in Paths, tool \in {"grep", "glob"} :
      \E opt \in (IF tool = "grep" THEN Searches ELSE Globs) :
        /\ Begin(c, tool, p, p, opt)
        /\ IF At(p) = Absent THEN Reply(c, Ok) ELSE Goto(c, "walk")
        /\ Set(todo, c, IF At(p) = Absent THEN <<>> ELSE <<Entry(p, p)>>)
        /\ UNCHANGED <<fileVars, handle, source, buf>>
  BY DEF Search
<1>2. PICK opt \in (IF tool = "grep" THEN Searches ELSE Globs) :
        /\ Begin(c, tool, p, p, opt)
        /\ IF At(p) = Absent THEN Reply(c, Ok) ELSE Goto(c, "walk")
        /\ Set(todo, c, IF At(p) = Absent THEN <<>> ELSE <<Entry(p, p)>>)
        /\ UNCHANGED <<fileVars, handle, source, buf>>
  BY <1>1
<1>3. UNCHANGED <<tree, data>> /\ pc[c] = "idle"  BY <1>2 DEF fileVars, Begin
<1>4. View' = v  BY <1>3, ViewStays
<1>5. call'[c] = Call(tool, p, p, opt)  BY <1>0, <1>2, Changed1 DEF Begin
<1>6. PICK k : k = call'[c]  OBVIOUS
<1>7. k.tool = tool /\ k.path = p /\ k.opt = opt  BY <1>5, <1>6 DEF Call
<1>8. opt.max \in Nat /\ (tool = "grep" => opt.max > 0) /\ opt.depth \in Int
  <2>1. CASE tool = "grep"  BY <2>1, GlobPatterns DEF ProperSearches
  <2>2. CASE tool = "glob"  BY <2>2, GlobPatterns DEF ProperSearches
  <2> QED  BY <2>1, <2>2
<1>9. PICK m \in Nat : m = k.opt.max /\ (tool = "grep" => m > 0)  BY <1>7, <1>8
<1>10. PICK none : none = <<>>  OBVIOUS
<1>11. Good(k, v, none) /\ Len(none) = 0 /\ DOMAIN none = {} /\ Range(none) = {}
  <2>1. none \in Seq(Matches) /\ Len(none) = 0 /\ DOMAIN none = {} /\ Range(none) = {}
    BY <1>10 DEF Range
  <2> QED  BY <2>1 DEF Good
<1>12. CASE At(p) = Absent
  <2>1. pc'[c] = "done" /\ answer'[c] = Ok  BY <1>0, <1>2, <1>12, Ended1
  <2>2. PICK a : a = Ok  OBVIOUS
  <2>3. a.status = "ok" /\ a.value = none /\ ~a.truncated  BY <1>10, <2>2, Statuses
  <2>4. Len(a.value) <= k.opt.max  BY <1>9, <1>11, <2>3
  <2> QED  BY <1>4, <1>6, <1>7, <1>11, <2>1, <2>2, <2>3, <2>4, SearchEnds
<1>13. CASE At(p) # Absent
  <2>1. pc'[c] = "walk" /\ answer'[c] = NoAnswer
    <3>1. answer[c] = NoAnswer  BY <1>3 DEF SearchAt
    <3> QED  BY <1>0, <1>2, <1>13, <3>1, Ended1
  <2>2. answer'[c].value = none /\ ~answer'[c].truncated  BY <1>10, <2>1 DEF NoAnswer, Answer
  <2>3. PICK e : e = Entry(p, p)  OBVIOUS
  <2>4. todo'[c] = <<e>>  BY <1>0, <1>2, <1>13, <2>3, Changed1
  <2>5. e.from = p /\ e.dir = IsFolder(p)  BY <2>3 DEF Entry
  <2>6. Visitable(k, e)'
    <3>1. p \in Seq(STRING) /\ IsPrefix(p, p)  BY PathFacts, PrefixOrder
    <3>2. tree[p] # Absent /\ (e.dir <=> tree[p] = Dir)  BY <1>13, <2>5 DEF At, IsFolder
    <3>3. Len(Rest(p, p)) = 0  BY <3>1, RestLength
    <3>4. PICK d \in Int : d = k.opt.depth  BY <1>7, <1>8
    <3>5. d >= 0 => Len(Rest(p, p)) <= d + 2  BY <3>3
    <3>6. Near(k, p)  BY <1>7, <3>4, <3>5, Zenon DEF Near
    <3>7. Visitable(k, e)  BY <1>7, <2>5, <3>1, <3>2, <3>6 DEF Visitable, Below
    <3>8. Near(k, e.from)' = Near(k, e.from)  BY DEF Near
    <3> QED  BY <1>3, <3>7, <3>8 DEF Visitable, Below, Absent, Dir
  <2>7. Writing(c, v)' /\ Removing(c, v)' /\ Copying(c, v)' /\ Looking(c, v)'
    BY <1>4, <2>1 DEF Writing, Removing, Copying, Looking
  <2>8. PICK t : t = todo'[c] /\ \A j \in DOMAIN t : t[j] = e  BY <2>4
  <2>9. Finding(c, v)'
    <3>1. \A j \in DOMAIN t : Visitable(k, t[j])'  BY <2>6, <2>8
    <3> QED  BY <1>6, <1>7, <1>9, <1>11, <2>2, <2>8, <3>1 DEF Finding
  <2> QED  BY <2>1, <2>7, <2>9 DEF Kept
<1> QED  BY <1>12, <1>13

\* A search that has visited everything, or runs out of time
LEMMA WalkEndsKeeps ==
    ASSUME NEW c \in Calls, NEW v, Alone(c, v), SearchAt(c), WalkEnds(c) \/ Deadline(c)
    PROVE  Kept(c, v)'
<1>1. pc[c] = "walk" /\ UNCHANGED <<tree, data, call>>  BY DEF WalkEnds, Deadline, fileVars
<1>2. PICK old : old = answer[c]  OBVIOUS
<1>3. /\ WInv /\ View = v /\ old \in SearchAnswers /\ ~old.truncated
      /\ call[c].tool \in {"grep", "glob"}
      /\ Good(call[c], v, old.value) /\ Len(old.value) <= call[c].opt.max
  BY <1>1, <1>2, SearchHas
<1>4. PICK a : Reply(c, a) /\ (a = [old EXCEPT !.status = "ok"] \/ a = [old EXCEPT !.status = "ok", !.timedOut = TRUE])
  BY <1>2 DEF WalkEnds, Deadline
<1>5. a.status = "ok" /\ a.value = old.value /\ ~a.truncated  BY <1>3, <1>4 DEF SearchAnswers
<1>6. pc'[c] = "done" /\ answer'[c] = a  BY <1>3, <1>4, Ended1
<1>7. View' = v  BY <1>1, <1>3, ViewStays
<1> QED  BY <1>1, <1>3, <1>5, <1>6, <1>7, SearchEnds

\* grep adds the lines of a file, and stops at max_results
LEMMA GrepKeeps ==
    ASSUME ProperSearches, NEW c \in Calls, NEW v, Alone(c, v), SearchAt(c), GrepVisit(c)
    PROVE  Kept(c, v)'
<1>1. pc[c] = "walk" /\ call[c].tool = "grep" /\ todo[c] # <<>> /\ UNCHANGED <<fileVars, call>>
  BY DEF GrepVisit
<1>2. PICK old : old = answer[c].value  OBVIOUS
<1>3. PICK e : e = Head(todo[c])  OBVIOUS
<1>4. PICK k : k = call[c]  OBVIOUS
<1>5. /\ WInv /\ Typed /\ View = v /\ answer[c] \in SearchAnswers /\ ~answer[c].truncated
      /\ Good(k, v, old) /\ Len(old) < k.opt.max /\ Searching(k)
      /\ e.from \in Paths /\ Visitable(k, e)
      /\ \A i \in DOMAIN old : old[i][1] # e.from
  BY <1>1, <1>2, <1>3, <1>4, SearchHas
<1>6. PICK found : found = GrepFile(e)  OBVIOUS
<1>7. Good(k, v, found) /\ \A i \in DOMAIN found : found[i][1] = e.from
  BY <1>1, <1>4, <1>5, <1>6, GrepFound DEF Visitable
<1>8. PICK all : all = old \o found  OBVIOUS
<1>9. Good(k, v, all)  BY <1>5, <1>7, <1>8, GoodJoin
<1>10. PICK n \in Nat : n = Len(all)  BY <1>9, GoodCount
<1>11. PICK m \in Nat \ {0} : m = k.opt.max  BY <1>1, <1>4, <1>5 DEF Searching, ProperSearches
<1>12. IF Enough(n, m, found)
       THEN /\ Reply(c, [Answer("ok", Upto(all, 1, IF m < 1 THEN 1 ELSE m)) EXCEPT !.truncated = TRUE])
       ELSE /\ Set(answer, c, [answer[c] EXCEPT !.value = all])
            /\ Set(todo, c, After(c, e)) /\ UNCHANGED pc
  BY <1>2, <1>3, <1>4, <1>6, <1>8, <1>10, <1>11 DEF GrepVisit
<1>13. View' = v  BY <1>1, <1>5, ViewStays DEF fileVars
<1>14. CASE Enough(n, m, found)
  <2>1. m \in 0 .. Len(all) /\ m <= n  BY <1>10, <1>11, <1>14 DEF Enough
  <2>2. PICK u : u = SubSeq(all, 1, m)  OBVIOUS
  <2>3. Good(k, v, u) /\ Len(u) = m
    <3>1. Leads(u, all, m)  BY <2>1, <2>2 DEF Leads
    <3> QED  BY <1>9, <3>1, GoodPart, Zenon
  <2>4. Upto(all, 1, IF m < 1 THEN 1 ELSE m) = u  BY <1>10, <2>1, <2>2 DEF Upto
  <2>5. PICK a : a = [Answer("ok", u) EXCEPT !.truncated = TRUE]  OBVIOUS
  <2>6. a.status = "ok" /\ a.value = u  BY <2>5 DEF Answer
  <2>7. Reply(c, a)  BY <1>12, <1>14, <2>4, <2>5
  <2>8. pc'[c] = "done" /\ answer'[c] = a  BY <1>5, <2>7, Ended1
  <2>9. Len(a.value) <= k.opt.max /\ Len(a.value) = k.opt.max  BY <1>11, <2>3, <2>6
  <2> QED  BY <1>1, <1>4, <1>13, <2>3, <2>6, <2>8, <2>9, SearchEnds
<1>15. CASE ~Enough(n, m, found)
  <2>1. /\ answer'[c] = [answer[c] EXCEPT !.value = all] /\ todo'[c] = After(c, e) /\ pc'[c] = "walk"
    BY <1>1, <1>5, <1>12, <1>15, Changed1
  <2>2. answer'[c].value = all /\ ~answer'[c].truncated  BY <1>5, <2>1 DEF SearchAnswers
  <2>3. n < m
    <3>1. CASE found = <<>>
      <4>1. old \in Seq(Matches)  BY <1>5 DEF Good
      <4>2. all = old  BY <1>8, <3>1, <4>1
      <4> QED  BY <1>5, <1>10, <1>11, <4>2
    <3>2. CASE found # <<>>  BY <1>15, <3>2 DEF Enough
    <3> QED  BY <3>1, <3>2
  <2>4. Len(all) <= k.opt.max /\ Len(all) < k.opt.max  BY <1>10, <1>11, <2>3
  <2> QED  BY <1>1, <1>2, <1>3, <1>4, <1>7, <1>8, <2>1, <2>2, <2>4, VisitKeeps
<1> QED  BY <1>14, <1>15

\* glob adds an entry that matches, and stops when it may report no more
LEMMA GlobKeeps ==
    ASSUME ProperSearches, NEW c \in Calls, NEW v, Alone(c, v), SearchAt(c), GlobVisit(c)
    PROVE  Kept(c, v)'
<1>1. pc[c] = "walk" /\ call[c].tool = "glob" /\ todo[c] # <<>> /\ UNCHANGED <<fileVars, call>>
  BY DEF GlobVisit
<1>2. PICK old : old = answer[c].value  OBVIOUS
<1>3. PICK e : e = Head(todo[c])  OBVIOUS
<1>4. PICK k : k = call[c]  OBVIOUS
<1>5. /\ WInv /\ Typed /\ TInv /\ View = v /\ answer[c] \in SearchAnswers /\ ~answer[c].truncated
      /\ Good(k, v, old) /\ Len(old) <= k.opt.max /\ Searching(k)
      /\ e.from \in Paths /\ Visitable(k, e)
      /\ \A i \in DOMAIN old : old[i][1] # e.from
  BY <1>1, <1>2, <1>3, <1>4, SearchHas
<1>6. k.opt \in Globs /\ k.tool = "glob"  BY <1>1, <1>4, <1>5 DEF Searching
<1>7. PICK m \in Nat : m = k.opt.max  BY <1>6 DEF ProperSearches
<1>8. PICK n \in Nat : n = Len(old)  BY <1>5, GoodCount
<1>9. View' = v  BY <1>1, <1>5, ViewStays DEF fileVars
<1>10. PICK old1 : old1 = answer[c]  OBVIOUS
<1>11. PICK matches \in BOOLEAN :
          matches <=> /\ e.from # k.path /\ ~TooDeep(c, e)
                      /\ k.opt.type \in {"all", IF e.dir THEN "directory" ELSE "file"}
                      /\ MatchDoublestar(k.opt, Rel(c, e))
                      /\ At(e.from) # Absent
  OBVIOUS
<1>12. IF n >= m
       THEN Reply(c, [old1 EXCEPT !.status = "ok", !.truncated = TRUE])
       ELSE /\ Set(answer, c, IF matches THEN [old1 EXCEPT !.value = Append(@, <<e.from, 0>>)] ELSE old1)
            /\ Set(todo, c, After(c, e)) /\ UNCHANGED pc
  BY <1>2, <1>3, <1>4, <1>7, <1>8, <1>10, <1>11 DEF GlobVisit
<1>13. CASE n >= m
  <2>1. PICK a : a = [old1 EXCEPT !.status = "ok", !.truncated = TRUE]  OBVIOUS
  <2>2. a.status = "ok" /\ a.value = old  BY <1>2, <1>5, <1>10, <2>1 DEF SearchAnswers
  <2>3. pc'[c] = "done" /\ answer'[c] = a  BY <1>5, <1>12, <1>13, <2>1, Ended1
  <2>4. Len(a.value) <= k.opt.max /\ Len(a.value) = k.opt.max  BY <1>5, <1>7, <1>8, <1>13, <2>2
  <2> QED  BY <1>1, <1>4, <1>5, <1>6, <1>9, <2>2, <2>3, <2>4, SearchEnds
<1>14. CASE ~(n >= m)
  <2>1. /\ answer'[c] = IF matches THEN [old1 EXCEPT !.value = Append(@, <<e.from, 0>>)] ELSE old1
        /\ todo'[c] = After(c, e) /\ pc'[c] = "walk"
    BY <1>1, <1>5, <1>12, <1>14, Changed1
  <2>2. old \in Seq(Matches)  BY <1>5 DEF Good
  <2>3. PICK new : new = IF matches THEN <<<<e.from, 0>>>> ELSE <<>>  OBVIOUS
  <2>4. Good(k, v, new) /\ Len(new) <= 1 /\ \A i \in DOMAIN new : new[i][1] = e.from
    <3>1. CASE ~matches
      <4>1. new = <<>> /\ new \in Seq(Matches) /\ DOMAIN new = {} /\ Range(new) = {} /\ Len(new) = 0
        BY <2>3, <3>1 DEF Range
      <4> QED  BY <4>1 DEF Good
    <3>2. CASE matches
      <4>1. PICK x : x = <<e.from, 0>>  OBVIOUS
      <4>2. x \in Matches /\ x[1] = e.from  BY <1>5, <4>1 DEF Matches
      <4>3. new = <<x>>  BY <2>3, <3>2, <4>1
      <4>4. /\ new \in Seq(Matches) /\ DOMAIN new = {1} /\ new[1] = x /\ Range(new) = {x}
            /\ Len(new) = 1
        BY <4>2, <4>3 DEF Range
      <4>5. x \in Expected(v, k)
        <5>1. /\ e.from # call[c].path /\ ~TooDeep(c, e)
              /\ call[c].opt.type \in {"all", IF e.dir THEN "directory" ELSE "file"}
              /\ MatchDoublestar(call[c].opt, Rel(c, e))
          BY <1>4, <1>11, <3>2
        <5>2. call[c].opt \in Globs /\ Visitable(call[c], e)  BY <1>4, <1>5, <1>6
        <5>3. <<e.from, 0>> \in Expected(View, call[c])  BY <1>1, <1>5, <5>1, <5>2, GlobFound
        <5> QED  BY <1>4, <1>5, <4>1, <5>3
      <4> QED  BY <4>2, <4>4, <4>5 DEF Good
    <3> QED  BY <3>1, <3>2
  <2>5. PICK all : all = old \o new  OBVIOUS
  <2>6. answer'[c].value = all /\ ~answer'[c].truncated
    <3>1. CASE ~matches
      <4>1. all = old  BY <2>2, <2>3, <2>5, <3>1
      <4> QED  BY <1>2, <1>5, <1>10, <2>1, <3>1, <4>1
    <3>2. CASE matches
      <4>1. PICK x : x = <<e.from, 0>>  OBVIOUS
      <4>2. x \in Matches  BY <1>5, <4>1 DEF Matches
      <4>3. Append(old, x) = old \o <<x>>  BY <2>2, <4>2
      <4>4. answer'[c] = [old1 EXCEPT !.value = all]
        BY <1>2, <1>10, <2>1, <2>3, <2>5, <3>2, <4>1, <4>3
      <4> QED  BY <1>5, <1>10, <4>4 DEF SearchAnswers
    <3> QED  BY <3>1, <3>2
  <2>7. Len(all) <= k.opt.max
    <3>1. new \in Seq(Matches)  BY <2>4 DEF Good
    <3>2. Len(all) = n + Len(new) /\ Len(new) \in Nat  BY <1>8, <2>2, <2>5, <3>1
    <3> QED  BY <1>7, <1>8, <1>14, <2>4, <3>2
  <2> QED  BY <1>1, <1>2, <1>3, <1>4, <1>6, <2>1, <2>4, <2>5, <2>6, <2>7, VisitKeeps
<1> QED  BY <1>13, <1>14

-----------------------------------------------------------------------------
(***************************************************************************)
(* What every call keeps that is alone.                                    *)
(***************************************************************************)

\* What a call that is alone keeps with each of its steps, from its first one
LEMMA SoloKept ==
    ASSUME ProperSearches, KInv, [Next]_vars, NEW c \in Calls, Step(c), Solo(c),
           NEW v, v = SoloView(c)
    PROVE  Kept(c, v)'
<1>1. TInv /\ AloneInv /\ MoveInv /\ MInv /\ Fresh /\ SearchAt(c)
  BY DEF KInv, MInv, SInv, SearchInv
<1>2. CASE pc[c] = "idle"
  <2>1. v = View  BY <1>2 DEF Solo, SoloView
  <2>2. Opening(c)  BY <1>2, OpeningFirst
  <2>3. Refuse(c) \/ WriteFile(c) \/ PatchFile(c) \/ RemoveFile(c) \/ CreateFolder(c) => Kept(c, v)'
    BY <1>1, <2>1, RefuseKeeps, WriteFileKeeps, PatchFileKeeps, RemoveFileKeeps, CreateFolderKeeps, Zenon
  <2>4. RemoveFolder(c) \/ StatFile(c) \/ ListFolder(c) \/ ReadFile(c) \/ HashFile(c) => Kept(c, v)'
    BY <1>1, <2>1, RemoveFolderKeeps, StatKeeps, ListFolderKeeps, ReadFileKeeps, HashFileKeeps, Zenon
  <2>5. Copy(c) \/ Move(c) \/ Search(c) => Kept(c, v)'
    BY <1>1, <2>1, CopyStarts, SearchBegins, Zenon
  <2> QED  BY <2>2, <2>3, <2>4, <2>5, Zenon DEF Opening
<1>3. CASE pc[c] # "idle"
  <2>1. pc[c] # "done" /\ v = before[c] /\ v # <<>>  BY <1>1, <1>3, SoloSteps DEF Solo, SoloView
  <2>2. GoingOn(c) /\ call' = call  BY <1>3, OpeningFirst
  <2>3. Kept(c, v)  BY <2>1 DEF KInv, KeptInv
  <2>4. Alone(c, v)  BY <1>1, <1>3, <2>1, <2>3 DEF Alone
  <2>5. ASSUME call[c].tool \in {"copy", "move"}, Apart(call[c])
        PROVE  Moves(c, v) /\ Progress(c, v)'
    <3>1. Progress(c, v)  BY <1>1, <2>1, <2>5 DEF MoveInv
    <3>2. Progress(c, v)'  BY <1>1, <2>2, <2>5, SoloMove
    <3> QED  BY <1>3, <2>1, <2>5, <3>1, <3>2 DEF Moves
  <2>6. Rename(c) \/ CopyFile(c) \/ FillCopy(c) \/ CopyEnds(c) => CopyRuns(c, v)
    <3>1. Rename(c) \/ CopyFile(c) \/ FillCopy(c) \/ CopyEnds(c) => pc[c] \in {"rename", "copy", "fill"}
      BY Zenon DEF Rename, CopyFile, FillCopy, CopyEnds
    <3>2. pc[c] \in {"rename", "copy", "fill"} => call[c].tool \in {"copy", "move"}
      BY <1>1, <2>1, Here, ToolTable DEF TInv
    <3> QED  BY <2>4, <2>5, <3>1, <3>2, Zenon DEF CopyRuns
  <2>7. CheckAbsent(c) \/ MakeParents(c) \/ OpenToWrite(c) \/ Write(c) \/ DiskFull(c) => Kept(c, v)'
    BY <2>4, CheckKeeps, ParentsKeep, OpenKeeps, WriteKeeps, FullKeeps, Zenon
  <2>8. Unlink(c) \/ MakeFolder(c) \/ ReadFolder(c) \/ OpenToRead(c) \/ ReadOpened(c) => Kept(c, v)'
    BY <2>4, UnlinkKeeps, FolderKeeps, ListKeeps, OpenReadKeeps, ReadKeeps, Zenon
  <2>9. RemoveNext(c) \/ RemovedAll(c) \/ RemoveBlocked(c) => Kept(c, v)'
    <3>1. call[c].tool = "move" /\ Apart(call[c]) => Progress(c, v)'  BY <2>5
    <3> QED  BY <2>4, <3>1, RemoveKeeps, Zenon
  <2>10. Rename(c) \/ CopyFile(c) \/ FillCopy(c) \/ CopyEnds(c) => Kept(c, v)'
    BY <2>6, RenameKeeps, CopyFileKeeps, FillKeeps, CopyEndsKeeps, Zenon
  <2>11. Restat(c) \/ CopyFolder(c) => Kept(c, v)'
    BY <2>4, RestatKeeps, CopyFolderKeeps, Zenon
  <2>12. GrepVisit(c) \/ GlobVisit(c) \/ WalkEnds(c) \/ Deadline(c) => Kept(c, v)'
    BY <1>1, <2>4, GrepKeeps, GlobKeeps, WalkEndsKeeps, Zenon
  <2> QED  BY <2>2, <2>7, <2>8, <2>9, <2>10, <2>11, <2>12, Zenon DEF GoingOn
<1> QED  BY <1>2, <1>3

\* The first state satisfies the invariant
LEMMA InitKInv == Init => KInv
<1> SUFFICES ASSUME Init PROVE KInv  OBVIOUS
<1>1. MInv /\ SInv  BY InitMInv, InitSInv
<1>2. Fresh  BY TreesAreTrees DEF Init, Fresh
<1>3. KeptInv  BY DEF Init, KeptInv
<1> QED  BY <1>1, <1>2, <1>3 DEF KInv

\* Nothing is lost while nothing happens
LEMMA KeptStays ==
    ASSUME UNCHANGED vars, NEW c \in Calls, NEW v, Kept(c, v)
    PROVE  Kept(c, v)'
<1>1. UNCHANGED <<tree, data, pc, call, handle, source, buf, todo, answer>>
  BY DEF vars, fileVars, callVars
<1>2. View' = View  BY <1>1, ViewStays
<1>3. Writing(c, v)'  BY <1>1, <1>2 DEF Kept, Writing, Written, Goal, Text, Patched
<1>4. Looking(c, v)'  BY <1>1, <1>2 DEF Kept, Looking
<1>5. Removing(c, v)'  BY <1>1, <1>2 DEF Kept, Removing
<1>6. Copying(c, v)'  BY <1>1, <1>2 DEF Kept, Copying
<1>7. Finding(c, v)'
  <2>1. \A k, e : Visitable(k, e)' <=> Visitable(k, e)  BY <1>1 DEF Visitable, Near
  <2> QED  BY <1>1, <1>2, <2>1 DEF Kept, Finding
<1>8. pc'[c] = "done" => Promise(c, call'[c], v, View', answer'[c])  BY <1>1, <1>2 DEF Kept
<1> QED  BY <1>3, <1>4, <1>5, <1>6, <1>7, <1>8 DEF Kept

\* Every step keeps the invariant
LEMMA NextKInv == ProperSearches /\ KInv /\ [Next]_vars => KInv'
<1> SUFFICES ASSUME ProperSearches, KInv, [Next]_vars  PROVE KInv'  OBVIOUS
<1>1. TInv /\ AloneInv /\ MInv /\ SInv /\ Fresh /\ KeptInv  BY DEF KInv, MInv
<1>2. MInv' /\ SInv'  BY <1>1, NextMInv, NextSInv
<1>3. CASE Next
  <2>1. PICK e \in Calls : Step(e)  BY <1>3 DEF Next
  <2>2. Fresh'  BY <1>1, <2>1, FreshStays
  <2>3. ASSUME NEW c \in Calls, before'[c] # <<>>
        PROVE  Kept(c, before[c])'
    <3>1. /\ pc'[c] \notin {"idle", "done"} /\ ~\E d \in Calls \ {c} : Begins(d)
          /\ before'[c] = SoloView(c)
      BY <1>3, <2>3 DEF Next, RecordHistory
    <3>2. PICK v : v = before'[c]  OBVIOUS
    <3>3. Solo(c) /\ v = SoloView(c)  BY <2>3, <3>1, <3>2 DEF Solo
    <3>4. e = c  BY <1>1, <2>1, <3>1, <3>3, SoloSteps
    <3>5. Kept(c, v)'  BY <2>1, <3>3, <3>4, SoloKept
    <3> QED  BY <3>2, <3>5
  <2> QED  BY <1>2, <2>2, <2>3 DEF KInv, KeptInv
<1>4. CASE UNCHANGED vars
  <2>1. UNCHANGED <<data, nextFile, before>>  BY <1>4 DEF vars, fileVars, historyVars
  <2>2. Fresh'  BY <1>1, <2>1 DEF Fresh
  <2>3. ASSUME NEW c \in Calls, before'[c] # <<>>
        PROVE  Kept(c, before[c])'
    <3>1. PICK v : v = before[c]  OBVIOUS
    <3>2. Kept(c, v)  BY <1>1, <2>1, <2>3, <3>1 DEF KeptInv
    <3>3. Kept(c, v)'  BY <1>4, <3>2, KeptStays
    <3> QED  BY <2>1, <3>1, <3>3
  <2> QED  BY <1>2, <2>2, <2>3 DEF KInv, KeptInv
<1> QED  BY <1>3, <1>4

\* A call that no other one overlaps does what its tool promises, and one that fails has
\* changed no more than it may: what it has read is still so when it writes, nothing but
\* its paths has changed, every entry below a removed or moved directory has been
\* visited, and what a search has found is there, each once and within max_results.
THEOREM SoloCallsHold == ASSUME ProperSearches PROVE Spec => SoloCallHolds
<1>1. Init => KInv  BY InitKInv
<1>2. KInv /\ [Next]_vars => KInv'  BY NextKInv
<1>3. ASSUME KInv, Next, NEW c \in Calls, Ends(c), Solo(c)
      PROVE  LET k == call'[c]
                 a == answer'[c]
                 v == SoloView(c) IN
             /\ IF a.status = "ok" THEN Changed(c, k, v, View') /\ Reported(k, v, a)
                ELSE ChangedByFailure(k, v, View', a)
             /\ ~ReadsBehindEnd(k, v) => a.status # "panic"
  <2>1. TInv /\ AloneInv /\ WInv  BY <1>3 DEF KInv, MInv, TInv
  <2>2. PICK e \in Calls : Step(e)  BY <1>3 DEF Next
  <2>3. Others(e)  BY <2>1, <2>2, StepKinds DEF Quiet, Opens, Fills
  <2>4. e = c  BY <1>3, <2>3 DEF Others, Ends
  <2>5. PICK v : v = SoloView(c)  OBVIOUS
  <2>6. Kept(c, v)'  BY <1>3, <2>2, <2>4, <2>5, SoloKept
  <2>7. Promise(c, call'[c], v, View', answer'[c])  BY <1>3, <2>6 DEF Kept, Ends
  <2> QED  BY <2>5, <2>7 DEF Promise
<1>4. KInv /\ [Next]_vars =>
        [\A c \in Calls : (Ends(c) /\ Solo(c)) =>
          LET k == call'[c]
              a == answer'[c]
              v == SoloView(c) IN
          /\ IF a.status = "ok" THEN Changed(c, k, v, View') /\ Reported(k, v, a)
             ELSE ChangedByFailure(k, v, View', a)
          /\ ~ReadsBehindEnd(k, v) => a.status # "panic"]_vars
  BY <1>3
<1> QED  BY <1>1, <1>2, <1>4, PTL DEF Spec, SoloCallHolds

=============================================================================

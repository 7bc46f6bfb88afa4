----------------------------- MODULE FileServer -----------------------------
(***************************************************************************)
(* The filesystem MCP server (internal/filesystem/tools.go): its tools, as *)
(* calls that run at the same time over one tree of files.  No lock is     *)
(* held: a call is a sequence of system calls, and other calls act between *)
(* two of them.  An action is one system call with the code up to the next *)
(* one; opening the source of a copy and creating its destination are one  *)
(* action, and so are visiting a directory and reading it.                 *)
(*                                                                         *)
(* Paths are what ValidatePath returns for a path without symbolic links.  *)
(* Two writers of a file are told apart by what they write: the text of a  *)
(* call is the call itself.  patch_file is modelled here by its effect on  *)
(* whole lines; the module Patch has its algorithm.                        *)
(***************************************************************************)
EXTENDS FileTree

CONSTANTS
    Calls,          \* the calls that are made
    Allowed,        \* the tools that each root allows
    Trees,          \* the trees the server may start with
    Known,          \* the context line of a patch
    Zero,           \* a line that contains a null byte
    Wanted,         \* the lines that the pattern of grep matches
    MaxFullRead,    \* max_full_read_size
    Windows,        \* parameters of read_file: [by, offset, limit]
    Searches,       \* parameters of grep: [max, depth]
    Globs           \* parameters of glob: [max, depth, deep, prefix, last]

ASSUME FileServerConstants ==
    /\ Calls \cup Wanted \cup {Known, Zero} \subseteq Lines
    /\ Absent \notin Lines /\ Dir \notin Lines
    /\ MaxFullRead \in Nat

\* A pattern is one for the last name, or has `**` with a folder before or a name
\* behind it: matchDoublestar finds nothing for `**` alone
ASSUME GlobPatterns ==
    /\ \A o \in Searches : o.depth \in Int
    /\ \A o \in Globs :
          /\ o.depth \in Int /\ o.type \in {"all", "file", "directory"}
          /\ o.deep \in BOOLEAN
          /\ o.prefix \in Seq(STRING) /\ o.last \in Seq(SUBSET STRING)
          /\ IF o.deep THEN o.prefix # <<>> \/ o.last # <<>> ELSE Len(o.last) = 1

\* read_file: the whole file, without a window, or a window by lines or by bytes
ASSUME ReadWindows ==
    \A w \in Windows :
        /\ w.by \in {"all", "lines", "bytes"} /\ w.offset \in Int /\ w.limit \in Int
        /\ w.by = "all" => w.offset < 0 /\ w.limit < 0

\* A tree in which a file or a directory is in a directory, and a file has one path
ASSUME TreesAreTrees ==
    \A t \in Trees :
        /\ t.tree \in [Paths -> Files \cup {Absent, Dir}]
        /\ t.data \in [Files -> Seq(Lines)]
        /\ t.nextFile \in 1 .. MaxFiles + 1
        /\ \A i \in Files : i >= t.nextFile => t.data[i] = <<>>
        /\ \A p, q \in Paths : t.tree[p] # Absent /\ IsStrictPrefix(q, p) => t.tree[q] = Dir
        /\ \A p, q \in Paths : t.tree[p] \in Files =>
               t.tree[p] < t.nextFile /\ (p # q => t.tree[p] # t.tree[q])

\* What a call writes can be told from everything else
ASSUME TextsAreNew ==
    /\ Known \notin Calls
    /\ \A t \in Trees : \A i \in Files : Range(t.data[i]) \cap Calls = {}

VARIABLES
    pc,         \* where each call is
    call,       \* its tool and parameters
    handle,     \* the file it has opened for writing, or to read
    source,     \* what it has opened to copy from
    buf,        \* lines it has read or computed
    todo,       \* entries that a copy, a move or a search has yet to visit
    answer,     \* what it has been answered
    before,     \* history: the tree at its start, while it is the only call
    owed,       \* history: appends that nobody has overwritten
    due         \* history: what a search must find

callVars == <<pc, call, handle, source, buf, todo, answer>>
historyVars == <<before, owed, due>>
vars == <<fileVars, callVars, historyVars>>

\* The parameter of a tool that only has paths
NoOpt == [mode |-> "none"]

Call(tool, p, q, opt) == [tool |-> tool, path |-> p, dest |-> q, opt |-> opt]
NoCall == Call("none", <<>>, <<>>, NoOpt)

Answer(status, value) ==
    [status |-> status, value |-> value, truncated |-> FALSE, timedOut |-> FALSE]
NoAnswer == Answer("none", <<>>)
Ok == Answer("ok", <<>>)
Error == Answer("error", <<>>)

Modes == {"overwrite", "append", "create_only"}

PCs == {"idle", "done", "stat", "parents", "open", "write", "unlink", "mkdir",
        "readdir", "openread", "read", "copy", "fill", "rename", "restat",
        "removeall", "walk"}

TypeOK ==
    /\ TreeTypeOK
    /\ pc \in [Calls -> PCs]
    /\ handle \in [Calls -> Files \cup {Absent}]
    /\ source \in [Calls -> Files \cup {Absent, Dir}]
    /\ buf \in [Calls -> Seq(Lines)]
    /\ owed \subseteq Calls
    /\ \A c \in Calls : Len(todo[c]) <= Cardinality(Paths)
    \* what a call reads or writes has been opened
    /\ \A c \in Calls : pc[c] \in {"write", "fill"} => handle[c] # Absent
    /\ \A c \in Calls : pc[c] \in {"read", "fill"} => source[c] # Absent
    \* a file or a directory is in a directory
    /\ \A p \in Paths : tree[p] # Absent => HasParent(p)
    \* a path has a file that has been created, and a file one path
    /\ \A p, q \in Paths : IsFile(p) => tree[p] < nextFile /\ (p # q => tree[p] # tree[q])

Init ==
    /\ \E t \in Trees : tree = t.tree /\ data = t.data /\ nextFile = t.nextFile
    /\ pc = [c \in Calls |-> "idle"]
    /\ call = [c \in Calls |-> NoCall]
    /\ handle = [c \in Calls |-> Absent]
    /\ source = [c \in Calls |-> Absent]
    /\ buf = [c \in Calls |-> <<>>]
    /\ todo = [c \in Calls |-> <<>>]
    /\ answer = [c \in Calls |-> NoAnswer]
    /\ before = [c \in Calls |-> <<>>]
    /\ owed = {}
    /\ due = [c \in Calls |-> {}]

-----------------------------------------------------------------------------
(***************************************************************************)
(* How a step of a call ends: the call goes on, or it is answered.         *)
(***************************************************************************)

Goto(c, label) ==
    /\ pc' = [pc EXCEPT ![c] = label]
    /\ UNCHANGED <<answer>>

Reply(c, a) ==
    /\ pc' = [pc EXCEPT ![c] = "done"]
    /\ answer' = [answer EXCEPT ![c] = a]

GotoIf(condition, c, label) ==
    IF condition THEN Goto(c, label) ELSE Reply(c, Error)

Set(f, c, x) == f' = [f EXCEPT ![c] = x]

\* GetRoot, CheckAllowlist and ValidatePath
Admitted(tool, p) == tool \in Allowed[Head(p)] /\ IsFolder(<<Head(p)>>)

\* A tool begins with its first system call, for parameters of its own
Begin(c, tool, p, q, opt) ==
    /\ pc[c] = "idle"
    /\ Admitted(tool, p)
    /\ Admitted(tool, q)
    /\ Set(call, c, Call(tool, p, q, opt))

Refuse(c) ==
    /\ pc[c] = "idle"
    /\ \E tool \in {"write_file", "move"}, p, q \in Paths :
          /\ tool = "write_file" => p = q
          /\ ~(Admitted(tool, p) /\ Admitted(tool, q))
          /\ Set(call, c, Call(tool, p, q, NoOpt))
    /\ Reply(c, Error)
    /\ UNCHANGED <<fileVars, handle, source, buf, todo>>

-----------------------------------------------------------------------------
(***************************************************************************)
(* write_file and patch_file                                               *)
(***************************************************************************)

WriteFile(c) ==
    \E p \in Paths, mode \in Modes :
        /\ Begin(c, "write_file", p, p, [mode |-> mode])
        /\ tree' = IF CanMakeParents(p) THEN WithParents(p) ELSE tree
        /\ GotoIf(CanMakeParents(p), c, IF mode = "create_only" THEN "stat" ELSE "open")
        /\ Set(buf, c, <<c>>)
        /\ UNCHANGED <<data, nextFile, handle, source, todo>>

CheckAbsent(c) ==
    /\ pc[c] = "stat"
    /\ GotoIf(At(call[c].path) = Absent, c, "open")
    /\ UNCHANGED <<fileVars, call, handle, source, buf, todo>>

\* What the hunks of patch_file make of the lines: one kind of patch inserts a
\* line before the first, the other behind a line that it expects to be first
Applies(kind, lines) == kind = "insert" \/ (lines # <<>> /\ Head(lines) = Known)
Patched(kind, lines, text) ==
    IF kind = "insert" THEN <<text>> \o lines ELSE <<Known, text>> \o Tail(lines)

\* A file that cannot be read is patched as an empty one
PatchFile(c) ==
    \E p \in Paths, kind \in {"insert", "context"} :
        LET lines == IF IsFile(p) THEN data[tree[p]] ELSE <<>> IN
        /\ Begin(c, "patch_file", p, p, [mode |-> kind])
        /\ GotoIf(Applies(kind, lines), c, "parents")
        /\ Set(buf, c, IF Applies(kind, lines) THEN Patched(kind, lines, c) ELSE <<>>)
        /\ UNCHANGED <<fileVars, handle, source, todo>>

\* patch_file, copy and move: the directories above the destination
MakeParents(c) ==
    LET next == CASE call[c].tool = "patch_file" -> "open"
                  [] call[c].tool = "copy" -> "copy"
                  [] call[c].tool = "move" -> "rename"
        p == call[c].dest IN
    /\ pc[c] = "parents"
    /\ tree' = IF CanMakeParents(p) THEN WithParents(p) ELSE tree
    /\ GotoIf(CanMakeParents(p), c, next)
    /\ UNCHANGED <<data, nextFile, call, handle, source, buf, todo>>

\* create_only has O_EXCL, the other modes open what is there
MayOpen(c) ==
    CanOpen(call[c].path) /\ (call[c].opt.mode = "create_only" => ~IsFile(call[c].path))

\* O_TRUNC
Truncates(c) == call[c].tool = "patch_file" \/ call[c].opt.mode = "overwrite"

OpenToWrite(c) ==
    /\ pc[c] = "open"
    /\ \/ /\ MayOpen(c)
          /\ OpenFile(call[c].path, Truncates(c))
          /\ Set(handle, c, Opened(call[c].path))
          /\ Goto(c, "write")
       \/ /\ ~MayOpen(c)
          /\ Reply(c, Error)
          /\ UNCHANGED <<fileVars, handle>>
    /\ UNCHANGED <<call, source, buf, todo>>

\* Mutant of Written: append without O_APPEND writes where the file ended
WrittenOver(c, old) == Overlaid(old, buf[c])

\* O_APPEND: the text goes to the end, wherever that is now
Written(c, old) == IF call[c].opt.mode = "append" THEN old \o buf[c] ELSE Overlaid(old, buf[c])

Write(c) ==
    /\ pc[c] = "write"
    /\ data' = [data EXCEPT ![handle[c]] = Written(c, @)]
    /\ Reply(c, Ok)
    /\ Set(buf, c, <<>>)
    /\ UNCHANGED <<tree, nextFile, call, handle, source, todo>>

\* Mutant of DiskFull: the error of copyFile is dropped
DiskFullUnseen(c) ==
    /\ pc[c] \in {"write", "fill"}
    /\ IF pc[c] = "fill" THEN Goto(c, "copy") /\ UNCHANGED todo
       ELSE Reply(c, Answer("full", <<>>)) /\ Set(todo, c, <<>>)
    /\ Set(buf, c, <<>>)
    /\ UNCHANGED <<fileVars, call, handle, source>>

\* No space left: nothing, here, has been written
DiskFull(c) ==
    /\ pc[c] \in {"write", "fill"}
    /\ Reply(c, Answer("full", <<>>))
    /\ Set(buf, c, <<>>)
    /\ Set(todo, c, <<>>)
    /\ UNCHANGED <<fileVars, call, handle, source>>

-----------------------------------------------------------------------------
(***************************************************************************)
(* remove_file, create_folder, remove_folder                               *)
(***************************************************************************)

RemoveFile(c) ==
    \E p \in Paths :
        /\ Begin(c, "remove_file", p, p, NoOpt)
        /\ GotoIf(IsFile(p), c, "unlink")
        /\ UNCHANGED <<fileVars, handle, source, buf, todo>>

\* os.Remove removes an empty directory as well
Unlink(c) ==
    LET p == call[c].path IN
    /\ pc[c] = "unlink"
    /\ IF CanRemove(p) THEN Discard(p) /\ Reply(c, Ok)
       ELSE UNCHANGED fileVars /\ Reply(c, Error)
    /\ UNCHANGED <<call, handle, source, buf, todo>>

CreateFolder(c) ==
    \E p \in Paths :
        /\ Begin(c, "create_folder", p, p, NoOpt)
        /\ IF At(p) = Absent THEN Goto(c, "mkdir")
           ELSE Reply(c, IF IsFolder(p) THEN Ok ELSE Error)
        /\ UNCHANGED <<fileVars, handle, source, buf, todo>>

MakeFolder(c) ==
    LET p == call[c].path IN
    /\ pc[c] = "mkdir"
    /\ tree' = IF CanMkdirAll(p) THEN WithDirs(p) ELSE tree
    /\ Reply(c, IF CanMkdirAll(p) THEN Ok ELSE Error)
    /\ UNCHANGED <<data, nextFile, call, handle, source, buf, todo>>

Entry(from, to) == [from |-> from, to |-> to, dir |-> IsFolder(from)]

\* The entries that os.RemoveAll finds
Contents(p) == SetToSeq({Entry(q, q) : q \in {r \in Below(p) : tree[r] # Absent}})

RemoveFolder(c) ==
    \E p \in Paths :
        /\ Begin(c, "remove_folder", p, p, NoOpt)
        /\ GotoIf(Len(p) > 1 /\ IsFolder(p), c, "removeall")
        /\ Set(todo, c, IF Len(p) > 1 /\ IsFolder(p) THEN Contents(p) ELSE <<>>)
        /\ UNCHANGED <<fileVars, handle, source, buf>>

\* os.RemoveAll, also of move: one entry after the other, the deepest first
RemoveNext(c) ==
    /\ pc[c] = "removeall"
    /\ \E p \in Below(call[c].path) : CanRemove(p) /\ Discard(p)
    /\ UNCHANGED callVars

RemovedAll(c) ==
    /\ pc[c] = "removeall"
    /\ At(call[c].path) = Absent
    /\ Reply(c, Ok)
    /\ Set(todo, c, <<>>)
    /\ UNCHANGED <<fileVars, call, handle, source, buf>>

\* An entry that another call has made meanwhile may keep a directory from going
RemoveBlocked(c) ==
    /\ pc[c] = "removeall"
    /\ \E p \in Below(call[c].path) :
          tree[p] # Absent /\ \A i \in DOMAIN todo[c] : todo[c][i].from # p
    /\ Reply(c, Error)
    /\ Set(todo, c, <<>>)
    /\ UNCHANGED <<fileVars, call, handle, source, buf>>

-----------------------------------------------------------------------------
(***************************************************************************)
(* Tools that only read                                                    *)
(***************************************************************************)

\* One Lstat, and an answer
StatFile(c) ==
    \E p \in Paths, tool \in {"stat_file", "permissions_file"} :
        /\ Begin(c, tool, p, p, NoOpt)
        /\ Reply(c, IF At(p) = Absent THEN Error ELSE Ok)
        /\ UNCHANGED <<fileVars, handle, source, buf, todo>>

\* An entry of an answer: a path and, for a match of grep, the line's number
Names(ps) == [i \in DOMAIN ps |-> <<ps[i], 0>>]

ListFolder(c) ==
    \E p \in Paths :
        /\ Begin(c, "list_folder", p, p, NoOpt)
        /\ GotoIf(IsFolder(p), c, "readdir")
        /\ UNCHANGED <<fileVars, handle, source, buf, todo>>

ReadFolder(c) ==
    LET p == call[c].path IN
    /\ pc[c] = "readdir"
    /\ Reply(c, IF IsFolder(p) THEN Answer("ok", Names(ChildrenIn(tree, p))) ELSE Error)
    /\ UNCHANGED <<fileVars, call, handle, source, buf, todo>>

\* read_file by bytes or lines, or the whole file; the byte size found by Stat
\* goes into the window.  A size is kept as so many lines in buf.
ReadFile(c) ==
    \E p \in Paths, w \in Windows :
        /\ Begin(c, "read_file", p, p, w)
        /\ GotoIf(IsFile(p) /\ (w.by = "all" => Len(data[tree[p]]) <= MaxFullRead), c, "openread")
        /\ Set(buf, c, IF IsFile(p) THEN data[tree[p]] ELSE <<>>)
        /\ UNCHANGED <<fileVars, handle, source, todo>>

HashFile(c) ==
    \E p \in Paths :
        /\ Begin(c, "hash_file", p, p, [by |-> "all", offset |-> -1, limit |-> -1])
        /\ GotoIf(IsFile(p), c, "openread")
        /\ UNCHANGED <<fileVars, handle, source, buf, todo>>

\* Mutant of OpenToRead: the error of os.Open is dropped
OpenToReadUnchecked(c) ==
    /\ pc[c] = "openread"
    /\ Goto(c, "read")
    /\ Set(source, c, At(call[c].path))
    /\ UNCHANGED <<fileVars, call, handle, buf, todo>>

OpenToRead(c) ==
    LET p == call[c].path IN
    /\ pc[c] = "openread"
    /\ GotoIf(At(p) # Absent, c, "read")
    /\ Set(source, c, At(p))
    /\ UNCHANGED <<fileVars, call, handle, buf, todo>>

\* The part of a sequence from first to last, as far as there is one
Upto(s, first, last) == SubSeq(s, first, IF last > Len(s) THEN Len(s) ELSE last)

\* Mutant of LineWindow: line 1 is taken for the second
LineWindowFromZero(lines, w) ==
    LET start == IF w.offset > 0 THEN w.offset ELSE 0
        limit == IF w.limit >= 0 THEN w.limit ELSE Len(lines)
    IN IF start >= Len(lines) THEN Ok
       ELSE [Answer("ok", Upto(lines, start + 1, start + limit))
             EXCEPT !.truncated = start + limit < Len(lines)]

\* allLines[startLine:endLine], with offset_lines counting from 1
LineWindow(lines, w) ==
    LET start == IF w.offset > 1 THEN w.offset - 1 ELSE 0
        limit == IF w.limit >= 0 THEN w.limit ELSE Len(lines)
    IN IF start >= Len(lines) THEN Ok
       ELSE [Answer("ok", Upto(lines, start + 1, start + limit))
             EXCEPT !.truncated = start + limit < Len(lines)]

\* make([]byte, lb) panics when lb is negative
ByteWindow(bytes, size, w) ==
    LET start == IF w.offset >= 0 THEN w.offset ELSE 0
        lb == IF w.limit >= 0 THEN w.limit ELSE size - start
        read == Upto(bytes, start + 1, start + lb)
    IN IF lb < 0 THEN Answer("panic", <<>>)
       ELSE [Answer("ok", read) EXCEPT !.truncated = Len(read) < lb]

ReadOpened(c) ==
    LET w == call[c].opt IN
    /\ pc[c] = "read"
    /\ Reply(c, IF source[c] = Dir THEN Error
                ELSE CASE w.by = "lines" -> LineWindow(data[source[c]], w)
                       [] w.by = "bytes" -> ByteWindow(data[source[c]], Len(buf[c]), w)
                       [] OTHER -> Answer("ok", data[source[c]]))
    /\ Set(buf, c, <<>>)
    /\ Set(source, c, Absent)
    /\ UNCHANGED <<fileVars, call, handle, todo>>

-----------------------------------------------------------------------------
(***************************************************************************)
(* copy and move.  An entry of todo has been read from its directory: what *)
(* it was then, a directory or a file, decides how it is copied.           *)
(***************************************************************************)

Copy(c) ==
    \E p, q \in Paths :
        /\ Begin(c, "copy", p, q, NoOpt)
        /\ GotoIf(At(p) # Absent, c, "parents")
        /\ Set(todo, c, IF At(p) # Absent THEN <<Entry(p, q)>> ELSE <<>>)
        /\ UNCHANGED <<fileVars, handle, source, buf>>

Move(c) ==
    \E p, q \in Paths :
        /\ Begin(c, "move", p, q, NoOpt)
        /\ GotoIf(At(p) # Absent, c, "parents")
        /\ UNCHANGED <<fileVars, handle, source, buf, todo>>

Rename(c) ==
    LET p == call[c].path
        q == call[c].dest IN
    /\ pc[c] = "rename"
    /\ IF CanRename(p, q) THEN tree' = Renamed(p, q) /\ Reply(c, Ok)
       ELSE UNCHANGED tree /\ Goto(c, "restat")
    /\ UNCHANGED <<data, nextFile, call, handle, source, buf, todo>>

\* The rename has failed, for whatever reason: copy, then remove the source
Restat(c) ==
    LET p == call[c].path IN
    /\ pc[c] = "restat"
    /\ GotoIf(At(p) # Absent, c, "copy")
    /\ Set(todo, c, IF At(p) # Absent THEN <<Entry(p, call[c].dest)>> ELSE <<>>)
    /\ UNCHANGED <<fileVars, call, handle, source, buf>>

\* copyDir: the directory is made before the source is read, so that a copy into
\* the source's own subtree finds itself
CopyFolder(c) ==
    LET e == Head(todo[c])
        made == WithDirs(e.to)
        children == ChildrenIn(made, e.from)
        child(p) == [from |-> p, to |-> Append(e.to, p[Len(p)]), dir |-> made[p] = Dir]
    IN
    /\ pc[c] = "copy"
    /\ todo[c] # <<>>
    /\ e.dir
    /\ tree' = IF At(e.from) # Absent /\ CanMkdirAll(e.to) THEN made ELSE tree
    /\ IF IsFolder(e.from) /\ CanMkdirAll(e.to)
       THEN Goto(c, "copy") /\ Set(todo, c, [i \in DOMAIN children |-> child(children[i])] \o Tail(todo[c]))
       ELSE Reply(c, Error) /\ Set(todo, c, <<>>)
    /\ UNCHANGED <<data, nextFile, call, handle, source, buf>>

\* copyFile: os.Create truncates the destination before a line has been read
CopyFile(c) ==
    LET e == Head(todo[c]) IN
    /\ pc[c] = "copy"
    /\ todo[c] # <<>>
    /\ ~e.dir
    /\ IF At(e.from) # Absent /\ CanOpen(e.to)
       THEN /\ OpenFile(e.to, TRUE)
            /\ Set(handle, c, Opened(e.to))
            /\ Set(source, c, At(e.from))
            /\ Set(todo, c, Tail(todo[c]))
            /\ Goto(c, "fill")
       ELSE /\ Reply(c, Error)
            /\ Set(todo, c, <<>>)
            /\ UNCHANGED <<fileVars, handle, source>>
    /\ UNCHANGED <<call, buf>>

\* io.Copy.  A directory cannot be read.
FillCopy(c) ==
    /\ pc[c] = "fill"
    /\ IF source[c] = Dir THEN Reply(c, Error) /\ Set(todo, c, <<>>) /\ UNCHANGED data
       ELSE /\ data' = [data EXCEPT ![handle[c]] = Overlaid(@, data[source[c]])]
            /\ Goto(c, "copy")
            /\ UNCHANGED todo
    /\ Set(source, c, Absent)
    /\ UNCHANGED <<tree, nextFile, call, handle, buf>>

CopyEnds(c) ==
    /\ pc[c] = "copy"
    /\ todo[c] = <<>>
    /\ IF call[c].tool = "move"
       THEN Goto(c, "removeall") /\ Set(todo, c, Contents(call[c].path))
       ELSE Reply(c, Ok) /\ UNCHANGED todo
    /\ UNCHANGED <<fileVars, call, handle, source, buf>>

-----------------------------------------------------------------------------
(***************************************************************************)
(* grep and glob: filepath.WalkDir visits a directory before its entries,  *)
(* these by name.  answer collects the matches.  glob sorts what it found, *)
(* which says nothing of which matches these are.                          *)
(***************************************************************************)

\* A search below a path that does not exist finds nothing and is no error
Search(c) ==
    \E p \in Paths, tool \in {"grep", "glob"} :
    \E opt \in (IF tool = "grep" THEN Searches ELSE Globs) :
        /\ Begin(c, tool, p, p, opt)
        /\ IF At(p) = Absent THEN Reply(c, Ok) ELSE Goto(c, "walk")
        /\ Set(todo, c, IF At(p) = Absent THEN <<>> ELSE <<Entry(p, p)>>)
        /\ UNCHANGED <<fileVars, handle, source, buf>>

Rel(c, e) == Rest(call[c].path, e.from)

\* Mutant of TooDeep: directories at the maximum depth are left out too
TooDeepAtMax(c, e) == LET o == call[c].opt IN
    o.depth >= 0 /\ e.dir /\ Rel(c, e) # <<>> /\ Len(Rel(c, e)) - 1 >= o.depth

\* A directory is left out by the number of separators in its relative path
TooDeep(c, e) == LET o == call[c].opt IN
    o.depth >= 0 /\ e.dir /\ Len(Rel(c, e)) - 1 > o.depth

\* What is left to visit once the entry has been visited
After(c, e) ==
    LET children == IF e.dir /\ ~TooDeep(c, e) /\ IsFolder(e.from)
                    THEN ChildrenIn(tree, e.from) ELSE <<>>
    IN [i \in DOMAIN children |-> Entry(children[i], children[i])] \o Tail(todo[c])

\* The matching lines of a file that is not binary
GrepFile(e) ==
    IF e.dir \/ ~IsFile(e.from) THEN <<>>
    ELSE LET lines == data[tree[e.from]]
             matching == Ascending({k \in DOMAIN lines : lines[k] \in Wanted})
         IN IF Zero \in Range(lines) THEN <<>>
            ELSE [i \in DOMAIN matching |-> <<e.from, matching[i]>>]

\* max_results is looked at after each match
Enough(count, max, found) == found # <<>> /\ count >= max

GrepVisit(c) ==
    LET e == Head(todo[c])
        max == call[c].opt.max
        found == GrepFile(e)
        all == answer[c].value \o found
    IN
    /\ pc[c] = "walk"
    /\ call[c].tool = "grep"
    /\ todo[c] # <<>>
    /\ IF Enough(Len(all), max, found)
       THEN /\ Reply(c, [Answer("ok", Upto(all, 1, IF max < 1 THEN 1 ELSE max))
                         EXCEPT !.truncated = TRUE])
            /\ Set(todo, c, <<>>)
       ELSE /\ Set(answer, c, [answer[c] EXCEPT !.value = all])
            /\ Set(todo, c, After(c, e))
            /\ UNCHANGED pc
    /\ UNCHANGED <<fileVars, call, handle, source, buf>>

\* The last names of a path match the patterns that follow "**/"
LastMatch(last, rel) ==
    /\ last # <<>>
    /\ Len(last) <= Len(rel)
    /\ \A i \in DOMAIN last : rel[Len(rel) - Len(last) + i] \in last[i]

\* matchDoublestar: prefix/**/last, **/last, or one pattern for the last name
MatchDoublestar(o, rel) ==
    LET inside == IsStrictPrefix(o.prefix, rel)
        remainder == IF inside THEN Rest(o.prefix, rel) ELSE rel
    IN CASE ~o.deep -> Len(o.last) = 1 /\ LastMatch(o.last, rel)
         [] o.deep /\ o.prefix = <<>> -> LastMatch(o.last, rel)
         [] o.deep /\ o.prefix # <<>> ->
                /\ inside \/ rel = o.prefix
                /\ o.last = <<>> \/ LastMatch(o.last, remainder)

GlobVisit(c) ==
    LET e == Head(todo[c])
        o == call[c].opt
        isRoot == e.from = call[c].path
        matches == /\ ~isRoot
                   /\ ~TooDeep(c, e)
                   /\ o.type \in {"all", IF e.dir THEN "directory" ELSE "file"}
                   /\ MatchDoublestar(o, Rel(c, e))
                   /\ At(e.from) # Absent
    IN
    /\ pc[c] = "walk"
    /\ call[c].tool = "glob"
    /\ todo[c] # <<>>
    /\ IF Len(answer[c].value) >= o.max
       THEN /\ Reply(c, [answer[c] EXCEPT !.status = "ok", !.truncated = TRUE])
            /\ Set(todo, c, <<>>)
       ELSE /\ Set(answer, c, IF matches THEN [answer[c] EXCEPT !.value = Append(@, <<e.from, 0>>)] ELSE answer[c])
            /\ Set(todo, c, After(c, e))
            /\ UNCHANGED pc
    /\ UNCHANGED <<fileVars, call, handle, source, buf>>

WalkEnds(c) ==
    /\ pc[c] = "walk"
    /\ todo[c] = <<>>
    /\ Reply(c, [answer[c] EXCEPT !.status = "ok"])
    /\ UNCHANGED <<fileVars, call, handle, source, buf, todo>>

\* timeout_seconds: checked before each entry
Deadline(c) ==
    /\ pc[c] = "walk"
    /\ todo[c] # <<>>
    /\ Reply(c, [answer[c] EXCEPT !.status = "ok", !.timedOut = TRUE])
    /\ Set(todo, c, <<>>)
    /\ UNCHANGED <<fileVars, call, handle, source, buf>>

-----------------------------------------------------------------------------

Step(c) ==
    \/ Refuse(c)
    \/ WriteFile(c) \/ CheckAbsent(c) \/ PatchFile(c) \/ MakeParents(c)
    \/ OpenToWrite(c) \/ Write(c) \/ DiskFull(c)
    \/ RemoveFile(c) \/ Unlink(c) \/ CreateFolder(c) \/ MakeFolder(c)
    \/ RemoveFolder(c) \/ RemoveNext(c) \/ RemovedAll(c) \/ RemoveBlocked(c)
    \/ StatFile(c) \/ ListFolder(c) \/ ReadFolder(c)
    \/ ReadFile(c) \/ HashFile(c) \/ OpenToRead(c) \/ ReadOpened(c)
    \/ Copy(c) \/ Move(c) \/ Rename(c) \/ Restat(c)
    \/ CopyFolder(c) \/ CopyFile(c) \/ FillCopy(c) \/ CopyEnds(c)
    \/ Search(c) \/ GrepVisit(c) \/ GlobVisit(c) \/ WalkEnds(c) \/ Deadline(c)

Running(c) == pc[c] \notin {"idle", "done"}
Begins(c) == pc[c] = "idle" /\ pc'[c] # "idle"
Ends(c) == pc[c] # "done" /\ pc'[c] = "done"

\* The tree at the start of a call that has been alone since
SoloView(c) ==
    IF pc[c] # "idle" THEN before[c]
    ELSE IF \E d \in Calls \ {c} : Running(d) THEN <<>> ELSE View

\* Text may be lost from file i: it is truncated, or written from its beginning
Clobbers(d, i) ==
    \/ pc[d] = "open" /\ pc'[d] = "write" /\ handle'[d] = i /\ Truncates(d)
    \/ pc[d] = "write" /\ handle[d] = i /\ call[d].opt.mode # "append"
    \/ pc[d] = "copy" /\ pc'[d] = "fill" /\ handle'[d] = i
    \/ pc[d] = "fill" /\ handle[d] = i

Writes(c, mode) == call[c].tool = "write_file" /\ call[c].opt.mode = mode

\* What a search of a tree must find, said of the tree as a whole
Expected(v, k) ==
    LET IsText(q) == v[q] \notin {<<Absent>>, <<Dir>>}
        Segments(q) == Len(Rest(k.path, q))
        \* the folders on the way are not too deep
        Near(q) == k.opt.depth >= 0 => Segments(q) <= k.opt.depth + 2
        \* some folders of the prefix's, then any, then the last names
        Match(rel) == IF k.opt.deep
                      THEN \E n \in 0 .. Len(rel) :
                              \E mid \in {SubSeq(rel, Len(k.opt.prefix) + 1, n)} :
                                 /\ rel = k.opt.prefix \o mid \o SubSeq(rel, n + 1, Len(rel))
                                 /\ Len(rel) - n = Len(k.opt.last)
                                 /\ \A i \in 1 .. Len(rel) - n : rel[n + i] \in k.opt.last[i]
                      ELSE rel[Len(rel)] \in k.opt.last[1]
        Typed(q) == k.opt.type = "all" \/ (k.opt.type = "file") = IsText(q)
    IN CASE k.tool = "grep" ->
              UNION {{q} \X {n \in DOMAIN v[q] : v[q][n] \in Wanted} : q \in {r \in Paths :
                  IsPrefix(k.path, r) /\ IsText(r) /\ Near(r) /\ Zero \notin Range(v[r])}}
         [] k.tool = "glob" ->
              {m \in (Below(k.path) \ {k.path}) \X {0} : LET q == m[1] IN
                  /\ v[q] # <<Absent>> /\ Near(q) /\ Typed(q)
                  /\ IsText(q) \/ k.opt.depth < 0 \/ Segments(q) <= k.opt.depth + 1
                  /\ Match(Rest(k.path, q))}
         [] OTHER -> {}

\* A match that the step leaves where it is
Untouched(k, m) ==
    IF k.tool = "grep" THEN View[m[1]] = View'[m[1]] ELSE tree[m[1]] = tree'[m[1]]

RecordHistory ==
    /\ before' = [c \in Calls |->
          IF pc'[c] \in {"idle", "done"} \/ \E d \in Calls \ {c} : Begins(d) THEN <<>>
          ELSE SoloView(c)]
    /\ owed' = {c \in owed : \A d \in Calls : ~Clobbers(d, handle[c])}
               \cup {c \in Calls : pc[c] = "write" /\ Ends(c) /\ Writes(c, "append") /\ answer'[c] = Ok}
    /\ due' = [c \in Calls |->
          IF pc'[c] # "walk" THEN {}
          ELSE IF Begins(c) THEN Expected(View, call'[c])
          ELSE {m \in due[c] : Untouched(call[c], m)}]

Next == (\E c \in Calls : Step(c)) /\ RecordHistory

Spec == Init /\ [][Next]_vars

-----------------------------------------------------------------------------

\* What open's flags promise to calls that write one file at a time: an append that
\* was answered "ok" is in its file, once, until somebody truncates the file or
\* writes it from its beginning (O_APPEND), and two calls that were both told they
\* created a file did not write the same one, whatever they saw before (O_EXCL)
\* (FR-006).
WritesHold ==
    /\ \A c \in owed : \E k \in DOMAIN data[handle[c]] :
          \A j \in DOMAIN data[handle[c]] : data[handle[c]][j] = c <=> j = k
    /\ \A c, d \in {e \in Calls : Writes(e, "create_only") /\ answer[e] = Ok} :
          c # d => handle[c] # handle[d]

Solo(c) == SoloView(c) # <<>>

\* Source and destination of a copy or a move are not one within the other
Apart(k) == ~IsPrefix(k.path, k.dest) /\ ~IsPrefix(k.dest, k.path)

\* Where q goes when path goes to dest
Moved(k, q) == k.dest \o Rest(k.path, q)

\* As long as no other call interferes, and wherever it stops, a move leaves every
\* file of the source at its old place or, complete, at its new one: the copy is
\* finished before anything is removed (tools.go, Move).
MoveKeepsFiles ==
    [][\A c \in Calls :
          (pc[c] # "done" /\ call'[c].tool = "move" /\ Solo(c) /\ Apart(call'[c])) =>
             \A q \in Paths :
                (IsPrefix(call'[c].path, q) /\ SoloView(c)[q] \notin {<<Absent>>, <<Dir>>}) =>
                   \E r \in {q, Moved(call'[c], q)} \cap Paths : View'[r] = SoloView(c)[q]]_vars

Text(x) == IF x \in {<<Absent>>, <<Dir>>} THEN <<>> ELSE x

\* The tree is as before, but for what is in S and for folders that were missing
SameBut(S, v, w) ==
    \A q \in Paths \ S : w[q] = v[q] \/ (v[q] = <<Absent>> /\ w[q] = <<Dir>>)

\* What a call promises of the tree v before it and the tree w after it
Changed(c, k, v, w) ==
    LET p == k.path
        Now(x) == SameBut({p}, v, w) /\ w[p] = x
        Gone == \A q \in Below(p) : w[q] = <<Absent>>
        Arrived == \A q \in Below(p) : v[q] # <<Absent>> =>
                       Moved(k, q) \in Paths /\ w[Moved(k, q)] = v[q]
    IN CASE k.tool = "write_file" -> Now(IF k.opt.mode = "append" THEN Append(Text(v[p]), c) ELSE <<c>>)
                                     /\ (k.opt.mode = "create_only" => v[p] = <<Absent>>)
         [] k.tool = "patch_file" -> Now(Patched(k.opt.mode, Text(v[p]), c))
         [] k.tool = "remove_file" -> Now(<<Absent>>) /\ v[p] # <<Dir>>
         [] k.tool = "create_folder" -> Now(<<Dir>>)
         [] k.tool = "remove_folder" -> SameBut(Below(p), v, w) /\ Gone
         [] k.tool = "copy" -> Apart(k) => Arrived /\ SameBut(Below(k.dest), v, w)
         [] k.tool = "move" -> Apart(k) =>
                Arrived /\ Gone /\ SameBut(Below(k.dest) \cup Below(p), v, w)
         [] OTHER -> w = v

\* What a call that failed may have changed: the destination of a copy, or, on a
\* full disk, the file it was writing
ChangedByFailure(k, v, w, a) ==
    IF k.tool \in {"copy", "move"} THEN Apart(k) => SameBut(Below(k.dest), v, w)
    ELSE SameBut(IF a.status = "full" THEN {k.path} ELSE {}, v, w)

\* The lines, or bytes, of a file that a window asks for
Asked(lines, w) ==
    LET first == IF w.by = "lines" THEN (IF w.offset < 1 THEN 1 ELSE w.offset)
                 ELSE (IF w.offset < 0 THEN 1 ELSE w.offset + 1)
    IN {i \in DOMAIN lines : first <= i /\ (w.limit >= 0 => i < first + w.limit)}

\* What a call says of the tree v
Reported(k, v, a) ==
    LET p == k.path
        asked == Asked(Text(v[p]), k.opt)
        last == Cardinality(asked)
        start == IF k.opt.offset < 1 THEN 1 ELSE k.opt.offset
    IN CASE k.tool = "list_folder" ->
               Range(a.value) = {<<q, 0>> : q \in {r \in Below(p) : Len(r) = Len(p) + 1 /\ v[r] # <<Absent>>}}
         [] k.tool = "hash_file" -> a.value = v[p]
         [] k.tool = "read_file" ->
               /\ \E first \in 0 .. Len(v[p]) :
                     /\ asked = first + 1 .. first + Len(a.value)
                     /\ \A i \in DOMAIN a.value : a.value[i] = v[p][first + i]
               /\ a.truncated = IF k.opt.by = "lines"
                                THEN \E i \in DOMAIN v[p] : k.opt.limit >= 0 /\ i >= start + k.opt.limit
                                ELSE k.opt.by = "bytes" /\ last < k.opt.limit
         [] k.tool \in {"grep", "glob"} ->
               /\ Range(a.value) \subseteq Expected(v, k)
               /\ Cardinality(Range(a.value)) = Len(a.value)
               /\ Len(a.value) <= k.opt.max
               /\ a.truncated => Len(a.value) = k.opt.max
         [] OTHER -> TRUE

\* The searches of which SoloCallHolds is true: in a pattern `prefix/**/last` the
\* last names do not match the end of the prefix, and a search may report a match, for
\* grep at least one
ProperSearches ==
    /\ \A o \in Globs : o.deep /\ o.prefix # <<>> => ~LastMatch(o.last, o.prefix)
    /\ \A o \in Globs : o.max \in Nat
    /\ \A o \in Searches : o.max \in Nat \ {0}

\* A read of the rest of a file from a byte behind the file's end
ReadsBehindEnd(k, v) ==
    k.tool = "read_file" /\ k.opt.by = "bytes" /\ k.opt.limit < 0 /\ k.opt.offset > Len(v[k.path])

\* A call that ran alone has done to the tree what its tool does, and one that failed
\* has lost nothing (FR-006 to FR-015; NFR-015, of patches).  What it reports is what
\* is there: the window of a file, the entries of a folder, true matches and no more
\* than max_results of them (FR-004, FR-005, FR-012, FR-016, FR-017).  No call panics,
\* but for the read that SpecifiedOutcomes is about, and which this property leaves
\* to it; nor is what a copy to an existing folder does what FR-014 says.
SoloCallHolds ==
    [][\A c \in Calls : (Ends(c) /\ Solo(c)) =>
          LET k == call'[c]
              a == answer'[c]
              v == SoloView(c) IN
          /\ IF a.status = "ok" THEN Changed(c, k, v, View') /\ Reported(k, v, a)
             ELSE ChangedByFailure(k, v, View', a)
          /\ ~ReadsBehindEnd(k, v) => a.status # "panic"]_vars

\* What FR-005 and FR-014 say of a call that ran alone.  "Reading beyond the end of
\* file returns what's available without error", and "If destination exists and is a
\* directory, the source is copied into it".  The code keeps neither: it takes the
\* size minus the offset for the length of its buffer and panics, and it merges a
\* copied folder with the one that is there.
SpecifiedOutcomes ==
    [][\A c \in Calls : (Ends(c) /\ Solo(c)) =>
          LET k == call'[c]
              a == answer'[c]
              v == SoloView(c)
              into == Append(k.dest, Last(k.path)) IN
          /\ ReadsBehindEnd(k, v) /\ v[k.path] \notin {<<Absent>>, <<Dir>>} => a = Ok
          /\ (/\ k.tool = "copy" /\ a.status = "ok" /\ Apart(k)
              /\ v[k.dest] = <<Dir>> /\ into \in Paths) => View'[into] = v[k.path]]_vars

\* A search that was neither cut off nor timed out has found every match that was
\* there from its beginning to its end, whatever other calls did meanwhile
\* (FR-016, FR-017).
SearchFindsAll ==
    [][\A c \in Calls :
          (pc[c] = "walk" /\ pc'[c] = "done" /\ ~answer'[c].truncated /\ ~answer'[c].timedOut) =>
             due[c] \subseteq Range(answer'[c].value)]_vars

=============================================================================

------------------------------ MODULE FileTree ------------------------------
(***************************************************************************)
(* The part of a POSIX file system, and of the package os of Go, that the  *)
(* filesystem MCP server uses.  It is external to the repository.          *)
(*                                                                         *)
(* A path is the name of a root followed by the names below it.  tree maps *)
(* a path to nothing, to a directory or to a file, and data maps a file to *)
(* its lines: a call that has opened a file keeps it when its path is      *)
(* removed or renamed.  Every operator here is one system call, or the     *)
(* part of one that a tool cannot observe in pieces.                       *)
(***************************************************************************)
EXTENDS Integers, Sequences, SequencesExt

CONSTANTS
    Paths,      \* bound: the paths; a longer one is too long for the system
    NameOrder,  \* the names in the order in which directories are read
    Device,     \* the device that each root is on
    MaxFiles,   \* bound: how many files ever exist
    Lines       \* the texts of lines

VARIABLES
    tree,       \* what is at each path
    data,       \* the lines of each file
    nextFile    \* the file that will be created next

fileVars == <<tree, data, nextFile>>

Absent == 0
Dir == -1
Files == 1 .. MaxFiles

ASSUME FilesBound == MaxFiles \in Nat

\* With a path there are the paths of the directories it is in
ASSUME PathsHaveParents ==
    /\ Paths \subseteq Seq(STRING) \ {<<>>}
    /\ IsFiniteSet(Paths)
    /\ \A p \in Paths : \A n \in 1 .. Len(p) : SubSeq(p, 1, n) \in Paths

\* Every name in a directory has its place in the order
ASSUME NamesInOrder ==
    /\ NameOrder \in Seq(STRING) /\ IsInjective(NameOrder)
    /\ \A p \in Paths : \A n \in 2 .. Len(p) : p[n] \in Range(NameOrder)

TreeTypeOK ==
    /\ tree \in [Paths -> Files \cup {Absent, Dir}]
    /\ data \in [Files -> Seq(Lines)]
    /\ nextFile \in 1 .. MaxFiles + 1

\* What a reader of the whole tree sees: the lines at a path, or <<Absent>> or <<Dir>>
View == [p \in Paths |-> IF tree[p] \in Files THEN data[tree[p]] ELSE <<tree[p]>>]

At(p) == IF p \in Paths THEN tree[p] ELSE Absent

IsFile(p) == At(p) \in Files
IsFolder(p) == At(p) = Dir

\* A root's own parent is outside of the tree and always there
HasParent(p) == Len(p) = 1 \/ IsFolder(Front(p))

Below(p) == {q \in Paths : IsPrefix(p, q)}

\* The path q below p, seen from p
Rest(p, q) == SubSeq(q, Len(p) + 1, Len(q))

\* The numbers in S in ascending order
Ascending(S) ==
    CHOOSE s \in [1 .. Cardinality(S) -> S] : \A i, j \in DOMAIN s : i < j => s[i] < s[j]

\* os.ReadDir: sorted by name
ChildrenIn(t, p) ==
    LET child == [i \in DOMAIN NameOrder |-> Append(p, NameOrder[i])]
        present == {i \in DOMAIN NameOrder : child[i] \in Paths /\ t[child[i]] # Absent}
        inOrder == Ascending(present)
    IN [k \in DOMAIN inOrder |-> child[inOrder[k]]]

\* os.MkdirAll
CanMkdirAll(p) == p \in Paths /\ \A q \in Paths : IsPrefix(q, p) => tree[q] \in {Absent, Dir}
WithDirs(p) == [q \in Paths |-> IF IsPrefix(q, p) THEN Dir ELSE tree[q]]

\* os.MkdirAll(filepath.Dir(p))
CanMakeParents(p) == Len(p) = 1 \/ CanMkdirAll(Front(p))
WithParents(p) == IF Len(p) = 1 THEN tree ELSE WithDirs(Front(p))

\* os.OpenFile with O_CREATE, for writing
CanOpen(p) == p \in Paths /\ HasParent(p) /\ ~IsFolder(p)
Opened(p) == IF IsFile(p) THEN tree[p] ELSE nextFile

OpenFile(p, truncated) ==
    /\ nextFile <= MaxFiles \/ IsFile(p)                            \* bound
    /\ tree' = [tree EXCEPT ![p] = Opened(p)]
    /\ data' = IF truncated THEN [data EXCEPT ![Opened(p)] = <<>>] ELSE data
    /\ nextFile' = IF IsFile(p) THEN nextFile ELSE nextFile + 1

\* A write through a handle that stands at the beginning of the file
Overlaid(old, new) == new \o SubSeq(old, Len(new) + 1, Len(old))

\* os.Rename, which refuses to replace a directory, even by itself
CanRename(p, q) ==
    /\ At(p) # Absent
    /\ HasParent(q)
    /\ ~IsFolder(q)
    /\ IsFolder(p) => ~IsFile(q) /\ ~IsStrictPrefix(p, q)
    /\ Device[Head(p)] = Device[Head(q)]
    /\ \A r \in Below(p) : tree[r] # Absent => q \o Rest(p, r) \in Paths

Renamed(p, q) ==
    [r \in Paths |-> IF IsPrefix(q, r) THEN At(p \o Rest(q, r))
                     ELSE IF IsPrefix(p, r) THEN Absent ELSE tree[r]]

\* unlink and rmdir: nothing is left below
CanRemove(p) == At(p) # Absent /\ \A q \in Below(p) \ {p} : tree[q] = Absent

Discard(p) ==
    /\ tree' = [tree EXCEPT ![p] = Absent]
    /\ UNCHANGED <<data, nextFile>>

=============================================================================

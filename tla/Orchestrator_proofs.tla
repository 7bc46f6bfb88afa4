------------------------ MODULE Orchestrator_proofs -------------------------
(***************************************************************************)
(* Theorems about Orchestrator, for every tree.                            *)
(***************************************************************************)
EXTENDS Orchestrator, SequenceTheorems, FiniteSetTheorems, TLAPS

-----------------------------------------------------------------------------
(***************************************************************************)
(* The inductive invariant.                                                *)
(***************************************************************************)

\* A composite node runs one of its children, or none yet.  What is left of the
\* resume path leads from the node to a node of the tree.  A node that has
\* returned has a result.
FrameOf(n, f) ==
    /\ n \notin Leaves => f.at \in 0 .. Width(n)
    /\ f.via # Nil => n \o f.via \in Nodes
    /\ f.st = "done" => f.res # Nil

Paths == \A n \in Nodes : FrameOf(n, frame[n])

\* The approval and the pipeline of a conversation belong together, but for the
\* second approval of a remote task
Linked(c) ==
    /\ c.pipe # Nil => c.pending # Nil /\ c.pipe.path = c.pending.node
    /\ c.pending # Nil /\ c.pending.node # Nil /\ ~c.pending.remote => c.pipe # Nil

\* A proxy is marked while its approval is pending
MarksPending == \A n \in Nodes : frame[n].st = "mark" => conv.pending # Nil

\* A resolution begins when nothing runs, with an approval in hand and none in the
\* conversation
Resolving ==
    /\ main \in {"exec", "proxy", "loop"} => Quiet /\ conv.pipe = Nil
    /\ main \in {"exec", "proxy"} => held.pending # Nil
    /\ main = "proxy" => held.pending.remote

\* The stored approval has been answered with an error for every run of its action,
\* except for the one that is under way
Repeats ==
    /\ main \in {"resume", "loop"} => executed <= errors + 1
    /\ main \notin {"resume", "loop"} => executed <= errors
    /\ main \in {"exec", "proxy", "resume", "loop"} => errors < MaxErrors

IInv ==
    /\ TypeOK
    /\ Paths
    /\ Linked(conv)
    /\ Linked(disk)
    /\ MarksPending
    /\ Resolving
    /\ Repeats

\* The history is as it was, or begins again with a save
RunsKept == UNCHANGED runVars \/ (executed' = 0 /\ errors' = 0)

-----------------------------------------------------------------------------
(***************************************************************************)
(* Paths in the tree.                                                      *)
(***************************************************************************)

\* A node is named by its path
LEMMA NodesAreSequences ==
    ASSUME NEW n \in Nodes
    PROVE  n \in Seq(Nat \ {0})
  BY TreeOK

\* The children of a composite node are nodes of the tree
LEMMA ChildIsNode ==
    ASSUME NEW n \in Nodes \ Leaves, NEW i \in 1 .. Width(n)
    PROVE  Child(n, i) \in Nodes
  <1>1. Child(n, i) \in Children(n)
    BY TreeOK
  <1>. QED
    BY <1>1 DEF Children

\* The child that a resume path names exists, and the rest of the path leads on
LEMMA PathStep ==
    ASSUME NEW n \in Nodes \ Leaves, NEW via \in Seq(Nat \ {0}), via # <<>>,
           n \o via \in Nodes
    PROVE  /\ Head(via) \in 1 .. Width(n)
           /\ Tail(via) \in Seq(Nat \ {0})
           /\ Child(n, Head(via)) \o Tail(via) = n \o via
  <1>. DEFINE c == Child(n, Head(via))
  <1>1. n \in Seq(Nat \ {0})
    BY NodesAreSequences
  <1>2. Head(via) \in Nat \ {0} /\ Tail(via) \in Seq(Nat \ {0}) /\ Len(via) > 0
    BY EmptySeq, HeadTailProperties
  <1>3. Len(via) \in Nat \ {0} /\ Len(Tail(via)) = Len(via) - 1
    BY EmptySeq, HeadTailProperties
  <1>4. c \o Tail(via) = n \o via
    BY <1>1, <1>2 DEF Child
  <1>5. c \in Nodes
    <2>1. Len(n \o via) = Len(n) + Len(via) /\ Len(n) \in Nat /\ Len(via) \in Nat
      BY <1>1
    <2>2. CASE Len(via) = 1
      <3>1. Len(Tail(via)) = 0
        BY <1>3, <2>2
      <3>2. Tail(via) = <<>>
        BY <1>2, <3>1, EmptySeq, Zenon
      <3>3. c \in Seq(Nat \ {0})
        BY <1>1, <1>2 DEF Child
      <3>4. c \o <<>> = c
        BY <3>3, ConcatEmptySeq, Zenon
      <3>. QED
        BY <1>4, <3>2, <3>4, Zenon
    <2>3. CASE Len(via) > 1
      <3>1. Len(n) + 1 \in 0 .. Len(n \o via) - 1
        BY <2>1, <2>3
      <3>2. SubSeq(n \o via, 1, Len(n) + 1) \in Nodes
        BY <3>1, TreeOK DEF Ancestors
      <3>3. SubSeq(n \o via, 1, Len(n) + 1) = c
        BY <1>1, <1>2, <2>1, <2>3 DEF Child
      <3>. QED
        BY <3>2, <3>3
    <2>4. Len(via) = 1 \/ Len(via) > 1
      BY <1>3
    <2>. QED
      BY <2>2, <2>3, <2>4
  <1>6. Parent(c) = n /\ c # Root
    BY <1>1, <1>2, SMTT(30) DEF Child, Parent, Root
  <1>7. PICK i \in 1 .. Width(n) : c = Child(n, i)
    BY <1>5, <1>6, TreeOK DEF Children
  <1>8. Head(via) = i
    BY <1>1, <1>2, <1>7 DEF Child
  <1>. QED
    BY <1>2, <1>4, <1>7, <1>8

-----------------------------------------------------------------------------
(***************************************************************************)
(* What a step makes of the activations.                                   *)
(***************************************************************************)

\* f may follow frame: it is typed, keeps the paths, and marks nothing anew
Follows(f) ==
    /\ f \in [Nodes -> Frame]
    /\ \A m \in Nodes : FrameOf(m, f[m])
    /\ \A m \in Nodes : f[m].st = "mark" => frame[m].st = "mark"

\* No activation is an activation
LEMMA NoFrameType == NoFrame \in Frame
  BY EmptySeq DEF NoFrame, Frame

\* Every step replaces frames of nodes by frames that fit them
LEMMA FollowsExcept ==
    ASSUME NEW f, Follows(f), NEW n \in Nodes, NEW r \in Frame,
           FrameOf(n, r), r.st = "mark" => frame[n].st = "mark"
    PROVE  Follows([f EXCEPT ![n] = r])
  BY DEF Follows

\* A call of executeNode for a node of the tree leaves activations that fit
LEMMA EnterFollows ==
    ASSUME NEW f, Follows(f), NEW n \in Nodes,
           NEW via \in {Nil} \cup Seq(Nat \ {0}), via # Nil => n \o via \in Nodes
    PROVE  Follows(Enter(f, n, via))
  <1>. DEFINE r == [NoFrame EXCEPT !.st = "run", !.via = via]
  <1>1. r \in Frame /\ r.st = "run" /\ r.st # "mark" /\ r.at = 0 /\ r.via = via
    BY DEF NoFrame, Frame
  <1>2. FrameOf(n, r)
    <2>1. n \notin Leaves => 0 \in 0 .. Width(n)
      BY TreeOK
    <2>. QED
      BY <1>1, <2>1 DEF FrameOf
  <1>3. Enter(f, n, via) = [f EXCEPT ![n] = r]
    BY DEF Enter
  <1>4. r.st = "mark" => frame[n].st = "mark"
    BY <1>1
  <1>. HIDE DEF r
  <1>5. Follows([f EXCEPT ![n] = r])
    BY <1>1, <1>2, <1>4, FollowsExcept
  <1>. QED
    BY <1>3, <1>5, Zenon

\* ... so does a return with a result
LEMMA ReturnFollows ==
    ASSUME NEW f, Follows(f), NEW n \in Nodes, NEW res \in Results
    PROVE  Follows(Return(f, n, res))
  <1>. DEFINE r == [f[n] EXCEPT !.st = "done", !.res = res]
  <1>1. f[n] \in Frame /\ FrameOf(n, f[n])
    BY DEF Follows
  <1>2. r \in Frame /\ r.st # "mark" /\ r.at = f[n].at /\ r.via = f[n].via /\ r.res = res
    BY <1>1 DEF Frame
  <1>3. FrameOf(n, r)
    BY <1>1, <1>2, NilIsNoResult DEF FrameOf
  <1>4. Return(f, n, res) = [f EXCEPT ![n] = r]
    BY DEF Return, Follows
  <1>5. r.st = "mark" => frame[n].st = "mark"
    BY <1>2
  <1>. HIDE DEF r
  <1>6. Follows([f EXCEPT ![n] = r])
    BY <1>2, <1>3, <1>5, FollowsExcept
  <1>. QED
    BY <1>4, <1>6, Zenon

\* ... and the caller's taking it
LEMMA LeaveFollows ==
    ASSUME NEW f, Follows(f), NEW n \in Nodes
    PROVE  Follows(Leave(f, n))
  <1>1. FrameOf(n, NoFrame) /\ NoFrame.st # "mark"
    BY TreeOK DEF FrameOf, NoFrame
  <1>. QED
    BY <1>1, NoFrameType, FollowsExcept DEF Leave

\* ... and a composite node that goes on with another child
LEMMA MoveFollows ==
    ASSUME NEW f, Follows(f), NEW n \in Nodes \ Leaves,
           NEW j \in 0 .. Width(n), NEW round \in Nat
    PROVE  Follows([f EXCEPT ![n].at = j, ![n].round = round])
  <1>. DEFINE r == [f[n] EXCEPT !.at = j, !.round = round]
  <1>1. f[n] \in Frame /\ FrameOf(n, f[n]) /\ (f[n].st = "mark" => frame[n].st = "mark")
    BY DEF Follows
  <1>2. j \in Nat
    BY TreeOK
  <1>3. r \in Frame /\ r.st = f[n].st /\ r.at = j /\ r.via = f[n].via /\ r.res = f[n].res
    BY <1>1, <1>2 DEF Frame
  <1>4. FrameOf(n, r)
    BY <1>1, <1>3 DEF FrameOf
  <1>5. [f EXCEPT ![n].at = j, ![n].round = round] = [f EXCEPT ![n] = r]
    BY DEF Follows
  <1>. HIDE DEF r
  <1>. QED
    BY <1>1, <1>3, <1>4, <1>5, FollowsExcept

\* ... or begins with one
LEMMA AtFollows ==
    ASSUME NEW f, Follows(f), NEW n \in Nodes \ Leaves, NEW j \in 0 .. Width(n)
    PROVE  Follows([f EXCEPT ![n].at = j])
  <1>. DEFINE r == [f[n] EXCEPT !.at = j]
  <1>1. f[n] \in Frame /\ FrameOf(n, f[n]) /\ (f[n].st = "mark" => frame[n].st = "mark")
    BY DEF Follows
  <1>2. j \in Nat
    BY TreeOK
  <1>3. r \in Frame /\ r.st = f[n].st /\ r.at = j /\ r.via = f[n].via /\ r.res = f[n].res
    BY <1>1, <1>2 DEF Frame
  <1>4. FrameOf(n, r)
    BY <1>1, <1>3 DEF FrameOf
  <1>5. [f EXCEPT ![n].at = j] = [f EXCEPT ![n] = r]
    BY DEF Follows
  <1>. HIDE DEF r
  <1>. QED
    BY <1>1, <1>3, <1>4, <1>5, FollowsExcept

-----------------------------------------------------------------------------
(***************************************************************************)
(* Composite nodes.                                                        *)
(***************************************************************************)

\* The activations of a state of the invariant fit
LEMMA FrameFollows ==
    ASSUME IInv
    PROVE  Follows(frame)
  BY DEF IInv, TypeOK, Paths, Follows

\* A step that only changes the activations
LEMMA TreeStepKeeps ==
    ASSUME IInv, NEW f, Follows(f), TreeStep(f), ~Quiet
    PROVE  IInv'
  <1>1. frame' = f
    BY DEF TreeStep
  <1>2. TypeOK'
    BY <1>1 DEF TreeStep, IInv, TypeOK, Follows, runVars
  <1>3. Paths'
    BY <1>1 DEF Follows, Paths, FrameOf
  <1>4. Linked(conv)' /\ Linked(disk)'
    BY DEF TreeStep, IInv, Linked
  <1>5. MarksPending'
    BY <1>1 DEF TreeStep, IInv, MarksPending, Follows
  <1>6. Resolving' /\ Repeats'
    BY DEF TreeStep, IInv, Resolving, Repeats, runVars
  <1>. QED
    BY <1>2, <1>3, <1>4, <1>5, <1>6 DEF IInv

\* A loop or a sequence that begins keeps the invariant
LEMMA StartKeeps ==
    ASSUME IInv, NEW n \in Nodes \ Leaves, Running(n), NEW i \in 1 .. Width(n),
           NEW via \in {Nil} \cup Seq(Nat \ {0}), via # Nil => Child(n, i) \o via \in Nodes,
           TreeStep(Enter([frame EXCEPT ![n].at = i], Child(n, i), via))
    PROVE  IInv'
  <1>1. i \in 0 .. Width(n)
    BY TreeOK
  <1>2. Follows([frame EXCEPT ![n].at = i])
    BY <1>1, FrameFollows, AtFollows
  <1>3. Follows(Enter([frame EXCEPT ![n].at = i], Child(n, i), via))
    BY <1>2, ChildIsNode, EnterFollows
  <1>4. ~Quiet
    BY DEF Quiet, Running
  <1>. QED
    BY <1>3, <1>4, TreeStepKeeps

\* A composite node that goes on with another child keeps the invariant
LEMMA GoOnKeeps ==
    ASSUME IInv, NEW n \in Nodes \ Leaves, Running(n),
           NEW i \in 1 .. Width(n), NEW j \in 1 .. Width(n), NEW round \in Nat,
           GoOn(n, i, j, round)
    PROVE  IInv'
  <1>. DEFINE left == Leave(frame, Child(n, i))
              moved == [left EXCEPT ![n].at = j, ![n].round = round]
  <1>1. Follows(left)
    BY FrameFollows, ChildIsNode, LeaveFollows
  <1>2. j \in 0 .. Width(n)
    BY TreeOK
  <1>. HIDE DEF left
  <1>3. Follows(moved)
    BY <1>1, <1>2, MoveFollows
  <1>. HIDE DEF moved
  <1>4. Follows(Enter(moved, Child(n, j), Nil))
    BY <1>3, ChildIsNode, EnterFollows
  <1>5. TreeStep(Enter(moved, Child(n, j), Nil))
    BY DEF GoOn, moved, left
  <1>6. ~Quiet
    BY DEF Quiet, Running
  <1>. QED
    BY <1>4, <1>5, <1>6, TreeStepKeeps

\* A composite node that returns its child's result keeps the invariant
LEMMA GiveBackKeeps ==
    ASSUME IInv, NEW n \in Nodes \ Leaves, Running(n), NEW i \in 1 .. Width(n),
           NEW res \in Results, GiveBack(n, i, res)
    PROVE  IInv'
  <1>1. Follows(Leave(frame, Child(n, i)))
    BY FrameFollows, ChildIsNode, LeaveFollows
  <1>2. Follows(Return(Leave(frame, Child(n, i)), n, res))
    BY <1>1, ReturnFollows
  <1>3. ~Quiet
    BY DEF Quiet, Running
  <1>. QED
    BY <1>2, <1>3, TreeStepKeeps DEF GiveBack

\* The child whose result is taken is a node, and it has a result
LEMMA ReturnedChild ==
    ASSUME IInv, NEW n \in Nodes, NEW kind \in {"sequential", "loop"}, NEW i,
           Returned(n, kind, i)
    PROVE  /\ n \notin Leaves
           /\ Running(n)
           /\ i \in 1 .. Width(n)
           /\ frame[n].round \in Nat
           /\ ResultOf(n, i) \in Results
  <1>1. n \notin Leaves /\ Running(n) /\ i = frame[n].at /\ i > 0 /\ Done(Child(n, i))
    BY DEF Returned, Leaves
  <1>2. frame[n] \in Frame /\ FrameOf(n, frame[n])
    BY DEF IInv, TypeOK, Paths
  <1>3. i \in 1 .. Width(n)
    BY <1>1, <1>2, TreeOK DEF FrameOf
  <1>4. Child(n, i) \in Nodes
    BY <1>1, <1>3, ChildIsNode
  <1>5. ResultOf(n, i) \in Results
    BY <1>1, <1>4 DEF IInv, TypeOK, Paths, FrameOf, Done, ResultOf, Frame
  <1>. QED
    BY <1>1, <1>2, <1>3, <1>5 DEF Frame

\* A sequence that begins, along the resume path or without one, keeps the invariant
LEMMA SeqStartKeeps ==
    ASSUME IInv, NEW n \in Nodes, SeqStart(n)
    PROVE  IInv'
  <1>. DEFINE via == frame[n].via
  <1>1. n \notin Leaves /\ Running(n)
    BY DEF SeqStart, Leaves
  <1>2. via \in {Nil} \cup Seq(Nat \ {0}) /\ (via # Nil => n \o via \in Nodes)
    BY DEF IInv, TypeOK, Paths, FrameOf, Frame
  <1>3. CASE via \in {Nil, <<>>}
    <2>1. TreeStep(Enter([frame EXCEPT ![n].at = 1], Child(n, 1), Nil))
      BY <1>3 DEF SeqStart
    <2>2. 1 \in 1 .. Width(n)
      BY <1>1, TreeOK
    <2>. QED
      BY <1>1, <2>1, <2>2, StartKeeps
  <1>4. CASE via \notin {Nil, <<>>}
    <2>1. TreeStep(Enter([frame EXCEPT ![n].at = Head(via)], Child(n, Head(via)), Tail(via)))
      BY <1>4 DEF SeqStart
    <2>2. /\ Head(via) \in 1 .. Width(n)
          /\ Tail(via) \in Seq(Nat \ {0})
          /\ Child(n, Head(via)) \o Tail(via) \in Nodes
      BY <1>1, <1>2, <1>4, PathStep
    <2>. QED
      BY <1>1, <2>1, <2>2, StartKeeps
  <1>. QED
    BY <1>3, <1>4

\* A parallel node that returns keeps the invariant
LEMMA CollectKeeps ==
    ASSUME IInv, NEW n \in Nodes, Running(n), NEW res \in Results, Collect(n, res)
    PROVE  IInv'
  <1>. DEFINE f == [m \in Nodes |->
                      IF m \in Children(n) /\ Done(m) THEN NoFrame
                      ELSE IF m = n THEN [frame[n] EXCEPT !.st = "done", !.res = res]
                      ELSE frame[m]]
  <1>1. Follows(f)
    <2>. SUFFICES ASSUME NEW m \in Nodes
                  PROVE  /\ f[m] \in Frame
                         /\ FrameOf(m, f[m])
                         /\ f[m].st = "mark" => frame[m].st = "mark"
      BY DEF Follows
    <2>1. frame[m] \in Frame /\ FrameOf(m, frame[m])
      BY DEF IInv, TypeOK, Paths
    <2>2. CASE m \in Children(n) /\ Done(m)
      <3>1. FrameOf(m, NoFrame) /\ NoFrame.st # "mark"
        BY TreeOK DEF FrameOf, NoFrame
      <3>. QED
        BY <2>2, <3>1, NoFrameType
    <2>3. CASE ~(m \in Children(n) /\ Done(m)) /\ m = n
      <3>. DEFINE r == [frame[m] EXCEPT !.st = "done", !.res = res]
      <3>1. /\ r \in Frame
            /\ r.st = "done" /\ r.at = frame[m].at /\ r.via = frame[m].via /\ r.res = res
        BY <2>1 DEF Frame
      <3>2. FrameOf(m, r)
        BY <2>1, <3>1, NilIsNoResult DEF FrameOf
      <3>3. f[m] = r
        BY <2>3
      <3>. QED
        BY <3>1, <3>2, <3>3
    <2>4. CASE ~(m \in Children(n) /\ Done(m)) /\ m # n
      BY <2>1, <2>4
    <2>. QED
      BY <2>2, <2>3, <2>4
  <1>2. TreeStep(f)
    BY DEF Collect
  <1>3. ~Quiet
    BY DEF Quiet, Running
  <1>. QED
    BY <1>1, <1>2, <1>3, TreeStepKeeps

\* A parallel node that starts its children keeps the invariant
LEMMA ForkKeeps ==
    ASSUME IInv, NEW n \in Nodes, ParFork(n)
    PROVE  IInv'
  <1>. DEFINE child == [NoFrame EXCEPT !.st = "run"]
              f == [m \in Nodes |->
                      IF m \in Children(n) THEN child
                      ELSE IF m = n THEN [frame[n] EXCEPT !.at = 1]
                      ELSE frame[m]]
  <1>1. n \notin Leaves /\ Running(n)
    BY DEF ParFork, Leaves
  <1>2. Follows(f)
    <2>. SUFFICES ASSUME NEW m \in Nodes
                  PROVE  /\ f[m] \in Frame
                         /\ FrameOf(m, f[m])
                         /\ f[m].st = "mark" => frame[m].st = "mark"
      BY DEF Follows
    <2>1. frame[m] \in Frame /\ FrameOf(m, frame[m])
      BY DEF IInv, TypeOK, Paths
    <2>2. CASE m \in Children(n)
      <3>1. child \in Frame /\ child.st = "run" /\ child.at = 0 /\ child.via = Nil
        BY EmptySeq DEF NoFrame, Frame
      <3>2. FrameOf(m, child)
        BY <3>1, TreeOK DEF FrameOf
      <3>. QED
        BY <2>2, <3>1, <3>2
    <2>3. CASE m \notin Children(n) /\ m = n
      <3>. DEFINE r == [frame[m] EXCEPT !.at = 1]
      <3>1. /\ r \in Frame
            /\ r.st = frame[m].st /\ r.at = 1 /\ r.via = frame[m].via /\ r.res = frame[m].res
        BY <2>1 DEF Frame
      <3>2. 1 \in 0 .. Width(n)
        BY <1>1, TreeOK
      <3>3. FrameOf(m, r)
        BY <2>1, <2>3, <3>1, <3>2 DEF FrameOf
      <3>4. f[m] = r
        BY <2>3
      <3>. QED
        BY <3>1, <3>3, <3>4
    <2>4. CASE m \notin Children(n) /\ m # n
      BY <2>1, <2>4
    <2>. QED
      BY <2>2, <2>3, <2>4
  <1>3. TreeStep(f)
    BY DEF ParFork
  <1>4. ~Quiet
    BY <1>1 DEF Quiet, Running
  <1>. QED
    BY <1>2, <1>3, <1>4, TreeStepKeeps

\* Every step of a composite node keeps the invariant
LEMMA CompositeKeeps ==
    ASSUME IInv, NEW n \in Nodes, CompositeStep(n)
    PROVE  IInv'
  <1>1. CASE SeqStart(n)
    BY <1>1, SeqStartKeeps
  <1>2. CASE SeqNext(n)
    <2>. DEFINE i == frame[n].at
    <2>1. Returned(n, "sequential", i) /\ i < Width(n) /\ GoOn(n, i, i + 1, 0)
      BY <1>2 DEF SeqNext
    <2>2. n \notin Leaves /\ Running(n) /\ i \in 1 .. Width(n)
      BY <2>1, ReturnedChild
    <2>3. i + 1 \in 1 .. Width(n)
      BY <2>1, <2>2, TreeOK
    <2>. QED
      BY <2>1, <2>2, <2>3, GoOnKeeps
  <1>3. CASE SeqEnd(n)
    <2>. DEFINE i == frame[n].at
    <2>1. Returned(n, "sequential", i) /\ GiveBack(n, i, ResultOf(n, i))
      BY <1>3 DEF SeqEnd
    <2>2. n \notin Leaves /\ Running(n) /\ i \in 1 .. Width(n) /\ ResultOf(n, i) \in Results
      BY <2>1, ReturnedChild
    <2>. QED
      BY <2>1, <2>2, GiveBackKeeps
  <1>4. CASE LoopStart(n)
    <2>1. n \notin Leaves /\ Running(n)
      BY <1>4 DEF LoopStart, Leaves
    <2>2. 1 \in 1 .. Width(n)
      BY <2>1, TreeOK
    <2>3. TreeStep(Enter([frame EXCEPT ![n].at = 1], Child(n, 1), Nil))
      BY <1>4 DEF LoopStart
    <2>. QED
      BY <2>1, <2>2, <2>3, StartKeeps
  <1>5. CASE LoopNext(n)
    <2>. DEFINE i == frame[n].at
    <2>1. Returned(n, "loop", i)
      BY <1>5 DEF LoopNext
    <2>2. n \notin Leaves /\ Running(n) /\ i \in 1 .. Width(n) /\ frame[n].round \in Nat
      BY <2>1, ReturnedChild
    <2>3. CASE i < Width(n)
      <3>1. GoOn(n, i, i + 1, frame[n].round)
        BY <1>5, <2>3 DEF LoopNext
      <3>2. i + 1 \in 1 .. Width(n)
        BY <2>2, <2>3, TreeOK
      <3>. QED
        BY <2>2, <3>1, <3>2, GoOnKeeps
    <2>4. CASE ~(i < Width(n))
      <3>1. GoOn(n, i, 1, frame[n].round + 1)
        BY <1>5, <2>4 DEF LoopNext
      <3>2. 1 \in 1 .. Width(n) /\ frame[n].round + 1 \in Nat
        BY <2>2, TreeOK
      <3>. QED
        BY <2>2, <3>1, <3>2, GoOnKeeps
    <2>. QED
      BY <2>3, <2>4
  <1>6. CASE LoopEnd(n)
    <2>. DEFINE i == frame[n].at
                res == IF ResultOf(n, i) = "exit" THEN "ok" ELSE ResultOf(n, i)
    <2>1. Returned(n, "loop", i) /\ GiveBack(n, i, res)
      BY <1>6 DEF LoopEnd
    <2>2. n \notin Leaves /\ Running(n) /\ i \in 1 .. Width(n) /\ ResultOf(n, i) \in Results
      BY <2>1, ReturnedChild
    <2>3. res \in Results
      BY <2>2 DEF Results
    <2>. QED
      BY <2>1, <2>2, <2>3, GiveBackKeeps
  <1>7. CASE ParFork(n)
    BY <1>7, ForkKeeps
  <1>8. CASE ParJoin(n) \/ ParFail(n)
    <2>1. Running(n) /\ \E res \in Results : Collect(n, res)
      BY <1>8 DEF ParJoin, ParFail, Results
    <2>. QED
      BY <2>1, CollectKeeps
  <1>9. CASE Reap(n)
    <2>1. Follows(Leave(frame, n))
      BY FrameFollows, LeaveFollows
    <2>2. TreeStep(Leave(frame, n)) /\ ~Quiet
      BY <1>9 DEF Reap, Done, Quiet
    <2>. QED
      BY <2>1, <2>2, TreeStepKeeps
  <1>. QED
    BY <1>1, <1>2, <1>3, <1>4, <1>5, <1>6, <1>7, <1>8, <1>9 DEF CompositeStep

-----------------------------------------------------------------------------
(***************************************************************************)
(* Leaves.                                                                 *)
(***************************************************************************)

\* A conversation without messages has its type and nothing pending
LEMMA NewConversationFits ==
    NewConversation \in ConversationRecord /\ Linked(NewConversation)
  BY DEF NewConversation, ConversationRecord, Linked

\* Another turn of a leaf changes nothing but the count
LEMMA CountedFits ==
    ASSUME IInv, NEW n \in Leaves
    PROVE  /\ Counted(n) \in ConversationRecord
           /\ Counted(n).pending = conv.pending
           /\ Counted(n).pipe = conv.pipe
  BY DEF IInv, TypeOK, ConversationRecord, Counted

\* pauseForApproval stores the approval with the pipeline whose path is its leaf
LEMMA PausedFits ==
    ASSUME IInv, NEW n \in Leaves
    PROVE  /\ Paused(n) \in ConversationRecord
           /\ Paused(n).pending # Nil
           /\ Linked(Paused(n))
  <1>. DEFINE p == [node |-> n, remote |-> FALSE]
              l == [path |-> n, state |-> state]
  <1>1. n \in Nodes /\ state \subseteq Leaves
    BY DEF IInv, TypeOK, Leaves
  <1>2. p \in Pending /\ l \in PipelineState
    BY <1>1 DEF Pending, PipelineState
  <1>3. p # Nil /\ l # Nil /\ p.node = n /\ l.path = n
    BY <1>2, NilIsNoRecord
  <1>4. Paused(n) = [Counted(n) EXCEPT !.pending = p, !.pipe = l]
    BY DEF Paused
  <1>. HIDE DEF p, l
  <1>5. Paused(n) \in ConversationRecord /\ Paused(n).pending = p /\ Paused(n).pipe = l
    BY <1>2, <1>4, CountedFits DEF ConversationRecord
  <1>. QED
    BY <1>3, <1>5 DEF Linked

\* A conversation that fits is saved as one that fits
LEMMA SaveFits ==
    ASSUME NEW c \in ConversationRecord, Linked(c), SaveConversation(c)
    PROVE  disk' \in ConversationRecord /\ Linked(disk)' /\ executed' = 0 /\ errors' = 0
  <1>1. disk' = c \/ disk' = NewConversation
    BY DEF SaveConversation
  <1>. QED
    BY <1>1, NewConversationFits DEF SaveConversation, Linked

\* A step of a leaf, whatever it does to its conversation
LEMMA LeafStepKeeps ==
    ASSUME IInv, ~Quiet, SameRequest,
           frame' \in [Nodes -> Frame], Paths', MarksPending',
           state' \subseteq Leaves,
           conv' \in ConversationRecord, Linked(conv)',
           disk' \in ConversationRecord, Linked(disk)',
           undecided' \subseteq Leaves \cup {Nil},
           RunsKept
    PROVE  IInv'
  <1>1. /\ executed' \in 0 .. MaxErrors /\ errors' \in 0 .. MaxErrors
        /\ Repeats'
    BY OrchestratorParameters DEF IInv, TypeOK, RunsKept, runVars, Repeats, SameRequest
  <1>2. TypeOK'
    BY <1>1 DEF IInv, TypeOK, SameRequest
  <1>3. Resolving'
    BY DEF IInv, Resolving, SameRequest
  <1>. QED
    BY <1>1, <1>2, <1>3 DEF IInv

\* A leaf returns, and an approval that was pending still is
LEMMA LeafReturns ==
    ASSUME IInv, NEW n \in Nodes, frame[n].st \in {"run", "mark"},
           NEW res \in Results, frame' = Return(frame, n, res), conv.pending # Nil => conv'.pending # Nil
    PROVE  /\ ~Quiet
           /\ frame' \in [Nodes -> Frame]
           /\ Paths'
           /\ MarksPending'
  <1>1. Follows(frame')
    BY FrameFollows, ReturnFollows
  <1>2. ~Quiet
    BY DEF Quiet
  <1>3. Paths'
    BY <1>1 DEF Follows, Paths, FrameOf
  <1>4. MarksPending'
    BY <1>1 DEF Follows, IInv, MarksPending
  <1>. QED
    BY <1>1, <1>2, <1>3, <1>4 DEF Follows

\* A leaf that ends without an output keeps the invariant
LEMMA LeafEndsKeeps ==
    ASSUME IInv, NEW n \in Leaves, Running(n), NEW res \in Results, LeafEnds(n, res)
    PROVE  IInv'
  <1>1. n \in Nodes /\ frame[n].st \in {"run", "mark"}
    BY DEF Leaves, Running
  <1>2. /\ conv' \in ConversationRecord
        /\ conv'.pending = conv.pending
        /\ conv'.pipe = conv.pipe
    BY CountedFits DEF LeafEnds
  <1>3. Linked(conv)'
    BY <1>2 DEF IInv, Linked
  <1>4. ~Quiet /\ frame' \in [Nodes -> Frame] /\ Paths' /\ MarksPending'
    BY <1>1, <1>2, LeafReturns DEF LeafEnds
  <1>5. /\ state' \subseteq Leaves /\ disk' \in ConversationRecord /\ Linked(disk)'
        /\ undecided' \subseteq Leaves \cup {Nil} /\ RunsKept
    BY DEF LeafEnds, IInv, TypeOK, Linked, RunsKept
  <1>. QED
    BY <1>2, <1>3, <1>4, <1>5, LeafStepKeeps DEF LeafEnds

\* A leaf that puts out a result keeps the invariant
LEMMA OutputKeeps ==
    ASSUME IInv, NEW n \in Nodes, LeafOutput(n) \/ LeafResumes(n)
    PROVE  IInv'
  <1>1. n \in Leaves /\ frame[n].st \in {"run", "mark"}
    BY DEF LeafOutput, LeafResumes, MayAct, TakesTurn, InTurn, Running
  <1>2. /\ conv' \in ConversationRecord
        /\ conv'.pending = conv.pending
        /\ conv'.pipe = conv.pipe
    <2>1. PICK c \in {conv, Counted(n)} : conv' = [c EXCEPT !.outs = @ \cup {n}]
      BY DEF LeafOutput, LeafResumes
    <2>2. c \in ConversationRecord /\ c.pending = conv.pending /\ c.pipe = conv.pipe
      BY <1>1, CountedFits DEF IInv, TypeOK
    <2>. QED
      BY <1>1, <2>1, <2>2 DEF ConversationRecord
  <1>3. Linked(conv)'
    BY <1>2 DEF IInv, Linked
  <1>4. "ok" \in Results /\ frame' = Return(frame, n, "ok")
    BY DEF Results, LeafOutput, LeafResumes
  <1>5. ~Quiet /\ frame' \in [Nodes -> Frame] /\ Paths' /\ MarksPending'
    BY <1>1, <1>2, <1>4, LeafReturns
  <1>6. /\ state' \subseteq Leaves /\ disk' \in ConversationRecord /\ Linked(disk)'
        /\ undecided' \subseteq Leaves \cup {Nil} /\ RunsKept
    BY <1>1 DEF LeafOutput, LeafResumes, IInv, TypeOK, Linked, RunsKept
  <1>7. SameRequest
    BY DEF LeafOutput, LeafResumes
  <1>. QED
    BY <1>2, <1>3, <1>5, <1>6, <1>7, LeafStepKeeps

\* A leaf that asks for an approval keeps the invariant
LEMMA AsksKeeps ==
    ASSUME IInv, NEW n \in Nodes, LeafAsks(n)
    PROVE  IInv'
  <1>1. n \in Leaves /\ frame[n].st \in {"run", "mark"}
    BY DEF LeafAsks, TakesTurn, InTurn, Running
  <1>2. conv' \in ConversationRecord /\ conv'.pending # Nil /\ Linked(conv')
    BY <1>1, PausedFits DEF LeafAsks
  <1>3. "wait" \in Results /\ frame' = Return(frame, n, "wait")
    BY DEF Results, LeafAsks
  <1>4. ~Quiet /\ frame' \in [Nodes -> Frame] /\ Paths' /\ MarksPending'
    BY <1>1, <1>2, <1>3, LeafReturns
  <1>5. disk' \in ConversationRecord /\ Linked(disk)' /\ executed' = 0 /\ errors' = 0
    BY <1>2, SaveFits DEF LeafAsks
  <1>6. state' \subseteq Leaves /\ undecided' \subseteq Leaves \cup {Nil} /\ SameRequest
    BY DEF LeafAsks, IInv, TypeOK
  <1>7. Linked(conv)' /\ RunsKept
    BY <1>2, <1>5 DEF Linked, RunsKept
  <1>. QED
    BY <1>2, <1>4, <1>5, <1>6, <1>7, LeafStepKeeps

\* A leaf whose remote agent asks keeps the invariant
LEMMA ProxiesKeeps ==
    ASSUME IInv, NEW n \in Nodes, LeafProxies(n)
    PROVE  IInv'
  <1>1. n \in Leaves /\ Running(n)
    BY DEF LeafProxies, MayAct, TakesTurn, InTurn
  <1>2. conv' \in ConversationRecord /\ conv'.pending # Nil /\ Linked(conv')
    BY <1>1, PausedFits DEF LeafProxies
  <1>3. frame' \in [Nodes -> Frame] /\ Paths'
    <2>1. frame' = [frame EXCEPT ![n].st = "mark"]
      BY DEF LeafProxies
    <2>2. frame \in [Nodes -> Frame] /\ Paths
      BY DEF IInv, TypeOK
    <2>3. frame' \in [Nodes -> Frame]
      BY <2>1, <2>2 DEF Frame
    <2>4. \A m \in Nodes : /\ frame'[m].at = frame[m].at
                           /\ frame'[m].via = frame[m].via
                           /\ frame'[m].res = frame[m].res
                           /\ frame'[m].st = "done" => frame[m].st = "done"
      BY <2>1, <2>2 DEF Frame
    <2>5. Paths'
      BY <2>2, <2>4 DEF Paths, FrameOf
    <2>. QED
      BY <2>3, <2>5
  <1>4. ~Quiet /\ MarksPending'
    BY <1>1, <1>2 DEF Quiet, Running, MarksPending
  <1>5. disk' \in ConversationRecord /\ Linked(disk)' /\ executed' = 0 /\ errors' = 0
    BY <1>2, SaveFits DEF LeafProxies
  <1>6. state' \subseteq Leaves /\ undecided' \subseteq Leaves \cup {Nil} /\ SameRequest
    BY <1>1 DEF LeafProxies, IInv, TypeOK
  <1>7. Linked(conv)' /\ RunsKept
    BY <1>2, <1>5 DEF Linked, RunsKept
  <1>. QED
    BY <1>2, <1>3, <1>4, <1>5, <1>6, <1>7, LeafStepKeeps

\* ... and so does its second step
LEMMA MarkKeeps ==
    ASSUME IInv, NEW n \in Nodes, MarkProxy(n)
    PROVE  IInv'
  <1>1. conv \in ConversationRecord /\ Linked(conv) /\ conv.pending \in Pending
    BY DEF MarkProxy, IInv, TypeOK, ConversationRecord, MarksPending
  <1>. DEFINE p == [conv.pending EXCEPT !.remote = TRUE]
  <1>2. p \in Pending /\ p # Nil /\ p.node = conv.pending.node /\ p.remote
    <2>1. p \in Pending /\ p.node = conv.pending.node /\ p.remote
      BY <1>1 DEF Pending
    <2>. QED
      BY <2>1, NilIsNoRecord
  <1>3. conv' = [conv EXCEPT !.pending = p]
    BY <1>1 DEF MarkProxy, ConversationRecord
  <1>. HIDE DEF p
  <1>4. conv' \in ConversationRecord /\ conv'.pending = p /\ conv'.pipe = conv.pipe
    BY <1>1, <1>2, <1>3 DEF ConversationRecord
  <1>5. conv'.pending # Nil /\ Linked(conv')
    BY <1>1, <1>2, <1>4, NilIsNoRecord DEF Linked
  <1>6. "wait" \in Results /\ frame' = Return(frame, n, "wait") /\ frame[n].st \in {"run", "mark"}
    BY DEF Results, MarkProxy
  <1>7. ~Quiet /\ frame' \in [Nodes -> Frame] /\ Paths' /\ MarksPending'
    BY <1>5, <1>6, LeafReturns
  <1>8. disk' \in ConversationRecord /\ Linked(disk)' /\ executed' = 0 /\ errors' = 0
    BY <1>4, <1>5, SaveFits DEF MarkProxy
  <1>9. state' \subseteq Leaves /\ undecided' \subseteq Leaves \cup {Nil} /\ SameRequest
    BY DEF MarkProxy, IInv, TypeOK
  <1>10. Linked(conv)' /\ RunsKept
    BY <1>5, <1>8 DEF Linked, RunsKept
  <1>. QED
    BY <1>4, <1>7, <1>8, <1>9, <1>10, LeafStepKeeps

\* Every step of a leaf keeps the invariant
LEMMA LeafKeeps ==
    ASSUME IInv, NEW n \in Nodes, LeafStep(n)
    PROVE  IInv'
  <1>1. CASE NoClient(n)
    <2>1. Running(n) /\ TreeStep(Return(frame, n, "err")) /\ "err" \in Results
      BY <1>1 DEF NoClient, InTurn, Results
    <2>2. Follows(Return(frame, n, "err"))
      BY <2>1, FrameFollows, ReturnFollows
    <2>3. ~Quiet
      BY <2>1 DEF Running, Quiet
    <2>. QED
      BY <2>1, <2>2, <2>3, TreeStepKeeps
  <1>2. CASE LeafError(n) \/ LeafExits(n) \/ LeafNeedsAuth(n)
    <2>1. n \in Leaves /\ Running(n) /\ \E res \in Results : LeafEnds(n, res)
      BY <1>2 DEF LeafError, LeafExits, LeafNeedsAuth, MayAct, TakesTurn, InTurn, Results
    <2>. QED
      BY <2>1, LeafEndsKeeps
  <1>3. CASE LeafOutput(n) \/ LeafResumes(n)
    BY <1>3, OutputKeeps
  <1>4. CASE LeafAsks(n)
    BY <1>4, AsksKeeps
  <1>5. CASE LeafProxies(n)
    BY <1>5, ProxiesKeeps
  <1>6. CASE MarkProxy(n)
    BY <1>6, MarkKeeps
  <1>. QED
    BY <1>1, <1>2, <1>3, <1>4, <1>5, <1>6 DEF LeafStep

-----------------------------------------------------------------------------
(***************************************************************************)
(* The request and its clients.                                            *)
(***************************************************************************)

\* An answer leaves no more runs than errors
RunsFit == executed' \in 0 .. MaxErrors /\ errors' \in 0 .. MaxErrors /\ executed' <= errors'

\* A save does so, and an error does
LEMMA RunsFitted ==
    ASSUME IInv
    PROVE  /\ executed' = 0 /\ errors' = 0 => RunsFit
           /\ main = "idle" /\ UNCHANGED runVars => RunsFit
           /\ /\ main \in {"exec", "proxy", "resume"}
              /\ executed' = executed \/ (main = "exec" /\ executed' = executed + 1)
              /\ errors' = errors + 1
              => RunsFit
  BY OrchestratorParameters DEF IInv, TypeOK, Repeats, RunsFit, runVars

\* A step that answers the client
LEMMA AnswerKeeps ==
    ASSUME IInv, main' = "idle", held' = NothingHeld, broken' = broken,
           told' \in {"none", "ok", "wait", "auth", "error", "cancelled"},
           Follows(frame'), state' \subseteq Leaves,
           conv' \in ConversationRecord, Linked(conv'),
           conv.pending # Nil => conv'.pending # Nil \/ Quiet,
           disk' \in ConversationRecord, Linked(disk'),
           undecided' \subseteq Leaves \cup {Nil},
           RunsFit
    PROVE  IInv'
  <1>1. TypeOK'
    BY DEF IInv, TypeOK, Follows, NothingHeld, RunsFit
  <1>2. Paths'
    BY DEF Follows, Paths, FrameOf
  <1>3. MarksPending'
    BY DEF Follows, IInv, MarksPending, Quiet
  <1>4. Resolving' /\ Repeats'
    <2>1. executed' <= errors'
      BY DEF RunsFit
    <2>. QED
      BY <2>1 DEF Resolving, Repeats
  <1>5. Linked(conv)' /\ Linked(disk)'
    BY DEF Linked
  <1>. QED
    BY <1>1, <1>2, <1>3, <1>4, <1>5 DEF IInv

\* The tree is entered at the root, afresh or along the path to a node
LEMMA RootEntered ==
    ASSUME IInv, Quiet, NEW via \in {Nil} \cup Nodes, frame' = Enter(frame, Root, via)
    PROVE  /\ frame' \in [Nodes -> Frame]
           /\ Paths'
           /\ MarksPending'
  <1>1. Root \in Nodes /\ via \in {Nil} \cup Seq(Nat \ {0})
    BY TreeOK
  <1>2. via # Nil => Root \o via \in Nodes
    <2>1. SUFFICES ASSUME via # Nil PROVE Root \o via = via
      BY <2>1
    <2>2. via \in Seq(Nat \ {0})
      BY <1>1, <2>1
    <2>. QED
      BY <2>2, ConcatEmptySeq DEF Root
  <1>3. Follows(frame')
    BY <1>1, <1>2, FrameFollows, EnterFollows
  <1>4. MarksPending'
    BY <1>3 DEF Follows, MarksPending, Quiet
  <1>5. Paths'
    BY <1>3 DEF Follows, Paths, FrameOf
  <1>. QED
    BY <1>3, <1>4, <1>5 DEF Follows

\* A resolved conversation has neither approval nor pipeline
LEMMA ResolvedFits ==
    ASSUME IInv
    PROVE  Resolved \in ConversationRecord /\ Linked(Resolved)
  BY DEF IInv, TypeOK, ConversationRecord, Resolved, Linked

\* A message keeps the invariant
LEMMA MessageKeeps ==
    ASSUME IInv, Message
    PROVE  IInv'
  <1>1. conv' \in ConversationRecord /\ Linked(conv)'
    <2>1. /\ conv'.pending = disk.pending /\ conv'.pipe = disk.pipe
          /\ conv' \in ConversationRecord
      BY DEF Message, IInv, TypeOK, ConversationRecord
    <2>. QED
      BY <2>1 DEF IInv, Linked
  <1>2. frame' \in [Nodes -> Frame] /\ Paths' /\ MarksPending'
    BY RootEntered DEF Message, MaySend
  <1>3. TypeOK'
    BY <1>1, <1>2 DEF Message, IInv, TypeOK, runVars
  <1>4. Resolving' /\ Repeats'
    BY DEF Message, MaySend, IInv, Resolving, Repeats, runVars
  <1>5. Linked(disk)'
    BY DEF Message, IInv, Linked
  <1>. QED
    BY <1>1, <1>2, <1>3, <1>4, <1>5 DEF IInv

\* A message that is refused keeps the invariant
LEMMA BlockedKeeps ==
    ASSUME IInv, Blocked
    PROVE  IInv'
  <1>1. Follows(frame') /\ Linked(conv') /\ Linked(disk')
    BY FrameFollows DEF Blocked, treeVars, IInv
  <1>2. RunsFit
    BY RunsFitted DEF Blocked, MaySend
  <1>. QED
    BY <1>1, <1>2, AnswerKeeps DEF Blocked, Answer, treeVars, IInv, TypeOK

\* An approval that is accepted keeps the invariant
LEMMA ApproveKeeps ==
    ASSUME IInv, Approve
    PROVE  IInv'
  <1>1. frame' = frame /\ Quiet /\ Quiet'
    BY DEF Approve, MaySend, treeVars, Quiet
  <1>2. conv' \in ConversationRecord /\ Linked(conv)'
    BY ResolvedFits DEF Approve, Linked
  <1>3. /\ held' \in [pending : Pending \cup {Nil}, pipe : PipelineState \cup {Nil}]
        /\ held'.pending # Nil
        /\ main' = "proxy" => held'.pending.remote
        /\ main' \in {"exec", "proxy"}
        /\ conv'.pipe = Nil
    BY DEF Approve, IInv, TypeOK, ConversationRecord, Resolved
  <1>4. TypeOK'
    BY <1>1, <1>2, <1>3 DEF Approve, treeVars, IInv, TypeOK, runVars
  <1>5. Paths' /\ MarksPending'
    BY <1>1 DEF IInv, Paths, FrameOf, MarksPending, Quiet
  <1>6. Resolving' /\ Repeats'
    BY <1>1, <1>3 DEF Approve, MaySend, Resolving, Repeats, IInv, runVars
  <1>7. Linked(disk)'
    BY DEF Approve, IInv, Linked
  <1>. QED
    BY <1>2, <1>4, <1>5, <1>6, <1>7 DEF IInv

\* A rejection keeps the invariant
LEMMA RejectKeeps ==
    ASSUME IInv, Reject
    PROVE  IInv'
  <1>1. Follows(frame') /\ Quiet /\ state' \subseteq Leaves
    BY FrameFollows DEF Reject, MaySend, treeVars, IInv, TypeOK
  <1>2. conv' \in ConversationRecord /\ Linked(conv')
    BY ResolvedFits DEF Reject
  <1>3. disk' \in ConversationRecord /\ Linked(disk') /\ executed' = 0 /\ errors' = 0
    BY <1>2, SaveFits DEF Reject, Linked
  <1>4. RunsFit /\ undecided' \subseteq Leaves \cup {Nil}
    BY <1>3, RunsFitted DEF Reject, IInv, TypeOK
  <1>. QED
    BY <1>1, <1>2, <1>3, <1>4, AnswerKeeps DEF Reject, Answer

\* The tree has returned, with or without an error
LEMMA RootDoneKeeps ==
    ASSUME IInv, MessageDone \/ ResumeDone \/ ResumeFails
    PROVE  IInv'
  <1>1. Root \in Nodes
    BY TreeOK
  <1>2. Follows(frame')
    BY <1>1, FrameFollows, LeaveFollows DEF MessageDone, ResumeDone, ResumeFails
  <1>3. frame[Root].res \in Results
    BY <1>1 DEF MessageDone, ResumeDone, ResumeFails, Done, IInv, TypeOK, Frame, Paths, FrameOf
  <1>4. told' \in {"none", "ok", "wait", "auth", "error", "cancelled"}
    BY <1>3 DEF MessageDone, ResumeDone, ResumeFails, Answer, AnswerTo, Results
  <1>5. conv' = conv /\ conv \in ConversationRecord /\ Linked(conv)
    BY DEF MessageDone, ResumeDone, ResumeFails, IInv, TypeOK
  <1>6. disk' \in ConversationRecord /\ Linked(disk') /\ RunsFit
    <2>1. CASE SaveConversation(conv)
      <3>1. disk' \in ConversationRecord /\ Linked(disk)' /\ executed' = 0 /\ errors' = 0
        BY <1>5, <2>1, SaveFits
      <3>. QED
        BY <3>1, RunsFitted DEF Linked
    <2>2. CASE ResumeFails
      <3>1. main = "resume" /\ disk' = disk /\ executed' = executed /\ errors' = errors + 1
        BY <2>2 DEF ResumeFails
      <3>. QED
        BY <3>1, RunsFitted DEF IInv, TypeOK
    <2>. QED
      BY <2>1, <2>2 DEF MessageDone, ResumeDone
  <1>7. /\ main' = "idle" /\ held' = NothingHeld /\ broken' = broken
        /\ state' \subseteq Leaves /\ undecided' \subseteq Leaves \cup {Nil}
    BY DEF MessageDone, ResumeDone, ResumeFails, Answer, IInv, TypeOK
  <1>. QED
    BY <1>2, <1>4, <1>5, <1>6, <1>7, AnswerKeeps

\* A resolution that fails keeps the invariant
LEMMA FailsKeeps ==
    ASSUME IInv, main \in {"exec", "proxy"}, ResolutionFails,
           executed' = executed \/ (main = "exec" /\ executed' = executed + 1),
           undecided' \subseteq Leaves \cup {Nil}
    PROVE  IInv'
  <1>1. Quiet /\ Follows(frame') /\ conv' = disk
    BY FrameFollows DEF ResolutionFails, treeVars, IInv, Resolving
  <1>2. RunsFit
    BY RunsFitted DEF ResolutionFails
  <1>. QED
    BY <1>1, <1>2, AnswerKeeps DEF ResolutionFails, Answer, treeVars, IInv, TypeOK

\* A resolution that ends with the conversation saved
LEMMA SavedKeeps ==
    ASSUME IInv, main \in {"exec", "proxy", "loop"}, UNCHANGED <<treeVars, broken>>,
           conv' \in ConversationRecord, Linked(conv'), SaveConversation(conv'),
           NEW what \in {"ok", "wait", "auth"}, Answer(what),
           undecided' \subseteq Leaves \cup {Nil}
    PROVE  IInv'
  <1>1. Quiet /\ Follows(frame') /\ state' \subseteq Leaves
    BY FrameFollows DEF treeVars, IInv, Resolving, TypeOK
  <1>2. disk' \in ConversationRecord /\ Linked(disk') /\ executed' = 0 /\ errors' = 0
    BY SaveFits DEF Linked
  <1>3. RunsFit
    BY <1>2, RunsFitted
  <1>. QED
    BY <1>1, <1>2, <1>3, AnswerKeeps DEF Answer

\* A resolution that goes on, with the tree or in the simple mode
LEMMA ContinueKeeps ==
    ASSUME IInv, main \in {"exec", "proxy"}, NEW outputs \in SUBSET Leaves, Continue(outputs),
           UNCHANGED <<conv, disk, held, told, broken, errors>>,
           executed' \in {executed, executed + 1}, undecided' \subseteq Leaves \cup {Nil}
    PROVE  IInv'
  <1>1. /\ Quiet /\ held.pipe \in PipelineState \cup {Nil} /\ conv.pipe = Nil
        /\ main' \in {"resume", "loop"}
    BY DEF IInv, Resolving, TypeOK, Continue
  <1>5. executed' \in 0 .. MaxErrors /\ Repeats'
    BY <1>1, OrchestratorParameters DEF IInv, TypeOK, Repeats
  <1>2. Linked(conv)' /\ Linked(disk)'
    BY DEF IInv, Linked
  <1>3. CASE held.pipe = Nil
    <2>1. main' = "loop" /\ frame' = frame /\ state' = state
      BY <1>3 DEF Continue, treeVars
    <2>2. TypeOK' /\ Paths' /\ MarksPending'
      BY <1>5, <2>1 DEF IInv, TypeOK, Paths, FrameOf, MarksPending
    <2>3. Resolving'
      BY <1>1, <2>1 DEF Resolving, Quiet
    <2>. QED
      BY <1>2, <1>5, <2>2, <2>3 DEF IInv
  <1>4. CASE held.pipe # Nil
    <2>1. /\ main' = "resume"
          /\ state' = held.pipe.state \cup outputs
          /\ frame' = Enter(frame, Root, held.pipe.path)
      BY <1>4 DEF Continue
    <2>2. held.pipe.path \in Nodes /\ held.pipe.state \subseteq Leaves
      BY <1>1, <1>4 DEF PipelineState, Leaves
    <2>3. frame' \in [Nodes -> Frame] /\ Paths' /\ MarksPending'
      BY <1>1, <2>1, <2>2, RootEntered
    <2>4. TypeOK'
      BY <1>5, <2>1, <2>2, <2>3 DEF IInv, TypeOK
    <2>5. Resolving'
      BY <2>1 DEF Resolving
    <2>. QED
      BY <1>2, <1>5, <2>3, <2>4, <2>5 DEF IInv
  <1>. QED
    BY <1>3, <1>4

\* The end of an approved action keeps the invariant
LEMMA ExecKeeps ==
    ASSUME IInv, ExecReturns \/ ExecAsks \/ ExecFails \/ ExecNeedsAuth
    PROVE  IInv'
  <1>1. main = "exec" /\ Quiet
    BY DEF ExecReturns, ExecAsks, ExecFails, ExecNeedsAuth, IInv, Resolving
  <1>2. CASE ExecReturns \/ ExecAsks
    <2>1. /\ Continue({}) /\ UNCHANGED <<conv, disk, held, told, broken, errors>>
          /\ executed' = executed + 1
      BY <1>2 DEF ExecReturns, ExecAsks
    <2>2. undecided' \subseteq Leaves \cup {Nil}
      BY <1>2, OrchestratorParameters DEF ExecReturns, ExecAsks, IInv, TypeOK
    <2>. QED
      BY <1>1, <2>1, <2>2, ContinueKeeps
  <1>3. CASE ExecFails /\ held.pipe # Nil
    <2>1. /\ ResolutionFails /\ executed' \in {executed, executed + 1}
          /\ undecided' \subseteq Leaves \cup {Nil}
      BY <1>3 DEF ExecFails, IInv, TypeOK
    <2>. QED
      BY <1>1, <2>1, FailsKeeps
  <1>4. CASE ExecFails /\ held.pipe = Nil
    <2>1. /\ Continue({}) /\ UNCHANGED <<conv, disk, held, told, broken, errors>>
          /\ executed' \in {executed, executed + 1}
          /\ undecided' \subseteq Leaves \cup {Nil}
      BY <1>4 DEF ExecFails, Continue, IInv, TypeOK
    <2>. QED
      BY <1>1, <2>1, ContinueKeeps
  <1>5. CASE ExecNeedsAuth
    <2>1. conv' = conv /\ SaveConversation(conv') /\ UNCHANGED <<treeVars, broken, undecided>>
      BY <1>5 DEF ExecNeedsAuth, ResolutionNeedsAuth
    <2>2. Answer("auth")
      BY <1>5 DEF ExecNeedsAuth, ResolutionNeedsAuth
    <2>. QED
      BY <1>1, <2>1, <2>2, SavedKeeps DEF IInv, TypeOK
  <1>. QED
    BY <1>2, <1>3, <1>4, <1>5

\* The remote agent's answer to an approval keeps the invariant
LEMMA ProxyKeeps ==
    ASSUME IInv, ProxyReturns \/ ProxyFails \/ ProxyNeedsAuth \/ ProxyAsksAgain
    PROVE  IInv'
  <1>1. /\ main = "proxy" /\ Quiet /\ conv.pipe = Nil
        /\ held.pending \in Pending /\ held.pending.remote
    BY DEF ProxyReturns, ProxyFails, ProxyNeedsAuth, ProxyAsksAgain, IInv, Resolving, TypeOK
  <1>2. CASE ProxyReturns
    <2>. DEFINE outputs == IF held.pipe = Nil THEN {} ELSE {held.pipe.path}
    <2>1. Continue(outputs) /\ UNCHANGED <<conv, disk, held, told, broken, executed, errors>>
      BY <1>2 DEF ProxyReturns, runVars
    <2>2. undecided' \subseteq Leaves \cup {Nil}
      BY <1>2 DEF ProxyReturns, Settled, IInv, TypeOK
    <2>3. outputs \in SUBSET Leaves
      BY DEF IInv, TypeOK, PipelineState
    <2>. QED
      BY <1>1, <2>1, <2>2, <2>3, ContinueKeeps
  <1>3. CASE ProxyFails
    <2>1. /\ ResolutionFails /\ executed' = executed
          /\ undecided' \subseteq Leaves \cup {Nil}
      BY <1>3 DEF ProxyFails, Settled, IInv, TypeOK
    <2>. QED
      BY <1>1, <2>1, FailsKeeps
  <1>4. CASE ProxyNeedsAuth
    <2>1. conv' = conv /\ SaveConversation(conv') /\ UNCHANGED <<treeVars, broken>> /\ Settled
      BY <1>4 DEF ProxyNeedsAuth, ResolutionNeedsAuth
    <2>2. Answer("auth")
      BY <1>4 DEF ProxyNeedsAuth, ResolutionNeedsAuth
    <2>3. undecided' \subseteq Leaves \cup {Nil}
      BY <2>1 DEF Settled, IInv, TypeOK
    <2>. QED
      BY <1>1, <2>1, <2>2, <2>3, SavedKeeps DEF IInv, TypeOK
  <1>5. CASE ProxyAsksAgain
    <2>1. conv' \in ConversationRecord
      BY <1>1, <1>5 DEF ProxyAsksAgain, IInv, TypeOK, ConversationRecord
    <2>2. Linked(conv')
      BY <1>1, <1>5 DEF ProxyAsksAgain, Linked, IInv, TypeOK, ConversationRecord
    <2>3. SaveConversation(conv') /\ UNCHANGED <<treeVars, broken, undecided>>
      BY <1>5 DEF ProxyAsksAgain
    <2>4. Answer("wait")
      BY <1>5 DEF ProxyAsksAgain
    <2>. QED
      BY <1>1, <2>1, <2>2, <2>3, <2>4, SavedKeeps DEF IInv, TypeOK
  <1>. QED
    BY <1>2, <1>3, <1>4, <1>5

\* The simple mode after a resolution keeps the invariant
LEMMA SimpleLoopKeeps ==
    ASSUME IInv, SimpleLoopEnds \/ SimpleLoopAsks
    PROVE  IInv'
  <1>1. main = "loop" /\ conv.pipe = Nil
    BY DEF SimpleLoopEnds, SimpleLoopAsks, IInv, Resolving
  <1>2. CASE SimpleLoopEnds
    <2>1. conv' = conv /\ SaveConversation(conv') /\ UNCHANGED <<treeVars, broken, undecided>>
      BY <1>2 DEF SimpleLoopEnds
    <2>2. PICK what \in {"ok", "auth"} : Answer(what)
      BY <1>2 DEF SimpleLoopEnds
    <2>. QED
      BY <1>1, <2>1, <2>2, SavedKeeps DEF IInv, TypeOK
  <1>3. CASE SimpleLoopAsks
    <2>1. PICK remote \in BOOLEAN :
              /\ conv' = [conv EXCEPT !.pending = [node |-> Nil, remote |-> remote]]
              /\ undecided' = IF remote THEN undecided \cup {Nil} ELSE undecided
      BY <1>3 DEF SimpleLoopAsks
    <2>2. conv' \in ConversationRecord /\ undecided' \subseteq Leaves \cup {Nil}
      BY <2>1 DEF IInv, TypeOK, ConversationRecord, Pending
    <2>3. SaveConversation(conv') /\ UNCHANGED <<treeVars, broken>>
      BY <1>3 DEF SimpleLoopAsks
    <2>5. Linked(conv')
      BY <1>1, <2>1 DEF Linked, IInv, TypeOK, ConversationRecord
    <2>4. Answer("wait")
      BY <1>3 DEF SimpleLoopAsks
    <2>. QED
      BY <1>1, <2>2, <2>3, <2>4, <2>5, SavedKeeps
  <1>. QED
    BY <1>2, <1>3

-----------------------------------------------------------------------------
(***************************************************************************)
(* The theorems.                                                           *)
(***************************************************************************)

\* The invariant holds initially
LEMMA InitInv == Init => IInv
  <1>. SUFFICES ASSUME Init PROVE IInv
    OBVIOUS
  <1>1. TypeOK
    BY NoFrameType, NewConversationFits, OrchestratorParameters DEF Init, TypeOK, NothingHeld
  <1>2. Paths
    <2>1. \A n \in Nodes : FrameOf(n, NoFrame)
      BY TreeOK DEF FrameOf, NoFrame
    <2>. QED
      BY <2>1 DEF Init, Paths
  <1>3. Linked(conv) /\ Linked(disk)
    BY NewConversationFits DEF Init
  <1>4. MarksPending /\ Resolving /\ Repeats
    BY DEF Init, MarksPending, Resolving, Repeats, NoFrame
  <1>. QED
    BY <1>1, <1>2, <1>3, <1>4 DEF IInv

\* Every step keeps the invariant
LEMMA StepInv == IInv /\ [Next]_vars => IInv'
  <1>. SUFFICES ASSUME IInv, [Next]_vars PROVE IInv'
    OBVIOUS
  <1>1. CASE \E n \in Nodes : CompositeStep(n) \/ LeafStep(n)
    BY <1>1, CompositeKeeps, LeafKeeps
  <1>2. CASE RequestStep
    BY <1>2, RootDoneKeeps, ExecKeeps, ProxyKeeps, SimpleLoopKeeps DEF RequestStep
  <1>3. CASE ClientStep
    BY <1>3, MessageKeeps, BlockedKeeps, ApproveKeeps, RejectKeeps DEF ClientStep
  <1>4. CASE UNCHANGED vars
    BY <1>4 DEF vars, runVars, IInv, TypeOK, Paths, FrameOf, Linked, MarksPending, Resolving,
                Quiet, Repeats
  <1>. QED
    BY <1>1, <1>2, <1>3, <1>4 DEF Next, ServerStep

\* The inductive invariant, for every tree: types, resume paths that lead to nodes
\* (executeSequential), approvals linked to their pipelines (pauseForApproval and
\* ResolveApproval), proxies marked while pending, resolutions while nothing runs.
THEOREM TreeInvariant == Spec => []IInv
  BY InitInv, StepInv, PTL DEF Spec

\* The variables have their types, for every tree: a resume path always names
\* children that exist (executeSequential indexes node.Agents with it).
THEOREM TreeTypeCorrect == Spec => []TypeOK
  <1>1. IInv => TypeOK
    BY DEF IInv
  <1>. QED
    BY <1>1, TreeInvariant, PTL

\* No pipeline is kept without the approval of the leaf at its path, and a leaf's
\* approval is never kept without its pipeline, the second one of a remote task
\* apart, whatever the tree is: pauseForApproval writes both, ResolveApproval clears
\* both.
THEOREM ApprovalKeepsPipeline == Spec => []PendingHasPipeline
  <1>1. IInv => PendingHasPipeline
    BY DEF IInv, Linked, PendingHasPipeline
  <1>. QED
    BY <1>1, TreeInvariant, PTL

\* The action of an approval is carried out again only after an error, whatever the
\* tree is: every other end of a resolution saves the conversation without the
\* approval (ResolveApproval), and an action whose call fails may have acted.
THEOREM ActionRepeatsOnlyAfterError == Spec => []RepeatOnlyAfterError
  <1>1. IInv => RepeatOnlyAfterError
    BY DEF IInv, Repeats, RepeatOnlyAfterError, TypeOK
  <1>. QED
    BY <1>1, TreeInvariant, PTL

-----------------------------------------------------------------------------
(***************************************************************************)
(* The nodes below a node.                                                 *)
(***************************************************************************)

\* Node n is a proper prefix of the path
Below(n) == {m \in Nodes : n \in Ancestors(m)}

\* Paths of one length that agree everywhere are one path
LEMMA SamePath ==
    ASSUME NEW a \in Seq(Nat \ {0}), NEW b \in Seq(Nat \ {0}), Len(a) = Len(b),
           \A x \in 1 .. Len(a) : a[x] = b[x]
    PROVE  a = b
  BY SeqEqual, Zenon

\* An ancestor is a shorter prefix
LEMMA PrefixFacts ==
    ASSUME NEW m \in Nodes, NEW a \in Nodes
    PROVE  /\ a \in Ancestors(m) <=> Len(a) < Len(m) /\ \A x \in 1 .. Len(a) : a[x] = m[x]
           /\ Len(a) \in Nat /\ Len(m) \in Nat
<1>1. a \in Seq(Nat \ {0}) /\ m \in Seq(Nat \ {0})
  BY NodesAreSequences
<1>2. Len(a) \in Nat /\ Len(m) \in Nat
  BY <1>1
<1>3. ASSUME a \in Ancestors(m)
      PROVE  Len(a) < Len(m) /\ \A x \in 1 .. Len(a) : a[x] = m[x]
  <2>1. PICK k \in 0 .. Len(m) - 1 : a = SubSeq(m, 1, k)
    BY <1>3 DEF Ancestors
  <2>2. Len(a) = k /\ \A x \in 1 .. k : a[x] = m[x]
    BY <1>1, <2>1
  <2> QED  BY <1>2, <2>2
<1>4. ASSUME Len(a) < Len(m), \A x \in 1 .. Len(a) : a[x] = m[x]
      PROVE  a \in Ancestors(m)
  <2> DEFINE b == SubSeq(m, 1, Len(a))
  <2>1. b \in Seq(Nat \ {0}) /\ Len(b) = Len(a) /\ \A x \in 1 .. Len(a) : b[x] = m[x]
    BY <1>1, <1>2, <1>4
  <2>2. Len(a) = Len(b) /\ \A x \in 1 .. Len(a) : a[x] = b[x]
    BY <1>4, <2>1
  <2> HIDE DEF b
  <2>3. a = b
    BY <1>1, <2>1, <2>2, SamePath
  <2>4. Len(a) \in 0 .. Len(m) - 1
    BY <1>2, <1>4
  <2> QED  BY <2>3, <2>4 DEF Ancestors, b
<1> QED  BY <1>2, <1>3, <1>4

\* What is below a node below n is below n, and no node is below itself
LEMMA BelowFacts ==
    ASSUME NEW a \in Nodes, NEW b \in Nodes, NEW c \in Nodes
    PROVE  /\ b \in Below(a) /\ c \in Below(b) => c \in Below(a)
           /\ a \notin Below(a)
           /\ b \in Below(a) => a \notin Below(b) /\ a \notin Leaves
<1>1. ASSUME a \in Ancestors(b), b \in Ancestors(c) PROVE a \in Ancestors(c)
  BY <1>1, PrefixFacts
<1>2. a \notin Ancestors(a)
  BY PrefixFacts
<1>3. a \in Ancestors(b) => b \notin Ancestors(a)
  BY PrefixFacts
<1> QED  BY <1>1, <1>2, <1>3, TreeOK DEF Below

\* The ancestors of a child are the node and its ancestors
LEMMA ChildFacts ==
    ASSUME NEW n \in Nodes \ Leaves, NEW i \in 1 .. Width(n)
    PROVE  /\ Child(n, i) \in Below(n)
           /\ Parent(Child(n, i)) = n /\ Child(n, i) # Root
           /\ \A a \in Nodes : Child(n, i) \in Below(a) => a = n \/ n \in Below(a)
<1>1. n \in Seq(Nat \ {0}) /\ i \in Nat \ {0} /\ Len(n) \in Nat
  BY NodesAreSequences, TreeOK
<1>2. Child(n, i) \in Nodes
  BY ChildIsNode
<1>3. Len(Child(n, i)) = Len(n) + 1 /\ \A x \in 1 .. Len(n) : Child(n, i)[x] = n[x]
  BY <1>1 DEF Child
<1>4. n \in Ancestors(Child(n, i))
  BY <1>1, <1>2, <1>3, PrefixFacts
<1>5. ASSUME NEW a \in Nodes, a \in Ancestors(Child(n, i)) PROVE a = n \/ a \in Ancestors(n)
  <2>1. /\ a \in Seq(Nat \ {0}) /\ Len(a) \in Nat /\ Len(a) < Len(n) + 1
        /\ \A x \in 1 .. Len(a) : a[x] = Child(n, i)[x]
    BY <1>2, <1>3, <1>5, NodesAreSequences, PrefixFacts
  <2>2. \A x \in 1 .. Len(a) : a[x] = n[x]
    BY <1>1, <1>3, <2>1
  <2>3. CASE Len(a) < Len(n)
    BY <2>2, <2>3, PrefixFacts
  <2>4. CASE Len(a) = Len(n)
    BY <1>1, <2>1, <2>2, <2>4, SamePath
  <2> QED  BY <1>1, <2>1, <2>3, <2>4
<1>6. Parent(Child(n, i)) = n
  BY <1>1 DEF Parent, Child
<1>7. Child(n, i) # Root
  BY <1>1, <1>3 DEF Root
<1> QED  BY <1>2, <1>4, <1>5, <1>6, <1>7 DEF Below

\* What is below a node is below one of its children, or is that child
LEMMA BelowSplits ==
    ASSUME NEW n \in Nodes, NEW m \in Below(n)
    PROVE  /\ n \in Nodes \ Leaves
           /\ \E i \in 1 .. Width(n) : m = Child(n, i) \/ m \in Below(Child(n, i))
<1>1. m \in Nodes /\ n \in Ancestors(m) /\ n \notin Leaves
  BY TreeOK DEF Below
<1>2. /\ n \in Seq(Nat \ {0}) /\ m \in Seq(Nat \ {0}) /\ Len(n) \in Nat /\ Len(m) \in Nat
      /\ Len(n) < Len(m) /\ \A x \in 1 .. Len(n) : n[x] = m[x]
  BY <1>1, NodesAreSequences, PrefixFacts
<1> DEFINE c == SubSeq(m, 1, Len(n) + 1)
<1>3. /\ c \in Seq(Nat \ {0}) /\ Len(c) = Len(n) + 1
      /\ \A x \in 1 .. Len(n) + 1 : c[x] = m[x]
  BY <1>2
<1>4. c \in Nodes /\ (c = m \/ c \in Ancestors(m))
  <2>1. CASE Len(m) = Len(n) + 1
    <3>1. c = m
      BY <1>2, <1>3, <2>1, SamePath
    <3> QED  BY <1>1, <3>1
  <2>2. CASE Len(m) # Len(n) + 1
    <3>1. Len(n) + 1 \in 0 .. Len(m) - 1
      BY <1>2, <2>2
    <3>2. c \in Ancestors(m)
      BY <3>1 DEF Ancestors
    <3> QED  BY <1>1, <3>2, TreeOK
  <2> QED  BY <2>1, <2>2
<1> HIDE DEF c
<1>5. Parent(c) = n
  <2>1. Parent(c) \in Seq(Nat \ {0}) /\ Len(Parent(c)) = Len(n)
        /\ \A x \in 1 .. Len(n) : Parent(c)[x] = c[x]
    BY <1>2, <1>3 DEF Parent
  <2>2. Len(Parent(c)) = Len(n) /\ \A x \in 1 .. Len(Parent(c)) : Parent(c)[x] = n[x]
    <3>1. ASSUME NEW x \in 1 .. Len(n) PROVE Parent(c)[x] = n[x]
      <4>1. x \in 1 .. Len(n) + 1
        BY <1>2
      <4>2. Parent(c)[x] = c[x] /\ c[x] = m[x] /\ n[x] = m[x]
        BY <1>2, <1>3, <2>1, <4>1
      <4> QED  BY <4>2
    <3>2. Len(Parent(c)) = Len(n)
      BY <2>1
    <3> HIDE DEF Parent
    <3> QED  BY <3>1, <3>2
  <2> QED  BY <1>2, <2>1, <2>2, SamePath
<1>6. c # Root
  BY <1>2, <1>3 DEF Root
<1>7. PICK i \in 1 .. Width(n) : c = Child(n, i)
  BY <1>1, <1>4, <1>5, <1>6, TreeOK DEF Children
<1>8. m = Child(n, i) \/ m \in Below(Child(n, i))
  BY <1>1, <1>4, <1>7 DEF Below
<1> QED  BY <1>1, <1>8

\* A node is below one child only
LEMMA OneBranch ==
    ASSUME NEW n \in Nodes \ Leaves, NEW i \in 1 .. Width(n), NEW j \in 1 .. Width(n), NEW m \in Nodes,
           m = Child(n, i) \/ m \in Below(Child(n, i)),
           m = Child(n, j) \/ m \in Below(Child(n, j))
    PROVE  i = j
<1>1. n \in Seq(Nat \ {0}) /\ i \in Nat \ {0} /\ j \in Nat \ {0} /\ Len(n) \in Nat
  BY NodesAreSequences, TreeOK
<1>2. Child(n, i) \in Nodes /\ Child(n, j) \in Nodes
  BY ChildIsNode
<1>3. /\ Len(Child(n, i)) = Len(n) + 1 /\ Child(n, i)[Len(n) + 1] = i
      /\ Len(Child(n, j)) = Len(n) + 1 /\ Child(n, j)[Len(n) + 1] = j
  BY <1>1 DEF Child
<1>4. m[Len(n) + 1] = i
  BY <1>1, <1>2, <1>3, PrefixFacts DEF Below
<1>5. m[Len(n) + 1] = j
  BY <1>1, <1>2, <1>3, PrefixFacts, SMTT(30) DEF Below
<1> QED  BY <1>4, <1>5

\* Above a node that may ask there are only sequences that may, too
LEMMA FreeFacts ==
    ASSUME NEW n \in Nodes, NEW m \in Below(n), ~Free(m)
    PROVE  ~Free(n) /\ Kind[n] = "sequential" /\ n \notin Leaves
<1>1. \A a \in Ancestors(n) : a \in Ancestors(m)
  <2> TAKE a \in Ancestors(n)
  <2>1. a \in Nodes
    BY TreeOK
  <2> QED  BY <2>1, BelowFacts DEF Below
<1>2. n \in Ancestors(m) /\ m \in Nodes /\ n \notin Leaves
  BY TreeOK DEF Below
<1>3. Kind[n] \notin {"parallel", "loop"}
  BY <1>2 DEF Free
<1>4. Kind[n] \in {"llm", "a2a", "sequential", "parallel", "loop"}
  BY TreeOK
<1> QED  BY <1>1, <1>2, <1>3, <1>4 DEF Free, Leaves

\* Every node but the root is below the root
LEMMA RootAbove ==
    ASSUME NEW n \in Nodes, n # Root
    PROVE  n \in Below(Root)
<1>1. n \in Seq(Nat \ {0}) /\ Root \in Nodes /\ Len(n) \in Nat /\ Len(Root) = 0
  BY NodesAreSequences, TreeOK DEF Root
<1>2. Len(n) > 0
  BY <1>1, EmptySeq DEF Root
<1>3. \A x \in 1 .. Len(Root) : Root[x] = n[x]
  BY <1>1
<1> QED  BY <1>1, <1>2, <1>3, PrefixFacts DEF Below

-----------------------------------------------------------------------------
(***************************************************************************)
(* The activations form a tree.                                            *)
(***************************************************************************)

Live(f, n) == f[n].st # "idle"

\* Nothing runs below n
Bare(f, n) == \A m \in Below(n) : ~Live(f, m)

InOrder(n) == Kind[n] \in {"sequential", "loop"}

\* Nothing runs below a node that has not begun or that has returned without an
\* error, and below a sequence or a loop only one child
ShapeOf(f, n) ==
    /\ f[n].st = "run" /\ f[n].at = 0 => Bare(f, n)
    /\ f[n].st = "done" /\ f[n].res # "err" => Bare(f, n)
    /\ f[n].st = "run" /\ f[n].at > 0 /\ InOrder(n) =>
          \A m \in Below(n) : Live(f, m) =>
              m = Child(n, f[n].at) \/ m \in Below(Child(n, f[n].at))

\* All that runs while a node runs that may ask is above it or below it, and the
\* nodes above it wait for it
SpineOf(f, k) == Live(f, k) /\ ~Free(k) =>
    /\ \A m \in Nodes : k \in Below(m) => f[m].st = "run" /\ f[m].at > 0
    /\ \A m \in Nodes : Live(f, m) => m = k \/ m \in Below(k) \/ k \in Below(m)

Fits(f) ==
    /\ f \in [Nodes -> Frame]
    /\ \A n \in Nodes : f[n].st = "run" /\ n \notin Leaves => f[n].at \in 0 .. Width(n)
    /\ \A n \in Nodes : f[n].st = "mark" => n \in Leaves
    /\ \A n \in Nodes : ShapeOf(f, n) /\ SpineOf(f, n)

\* A frame that goes: n has returned, and its caller takes the result or is gone
Goes(f, g, n) == f[n].st = "done" /\ g[n] = NoFrame

\* A node that returns, with everything below it gone unless an error is returned
Ends(f, g, n) ==
    /\ Live(f, n) /\ g[n].st = "done"
    /\ g[n].res # "err" => Bare(g, n)
    /\ \A m \in Below(n) : Live(g, m) => Free(m)

\* Nodes that return, results that are taken and a leaf that goes on
LEMMA Shrinks ==
    ASSUME NEW f, NEW g, Fits(f), g \in [Nodes -> Frame],
           \A n \in Nodes : \/ g[n] = f[n]
                            \/ Goes(f, g, n)
                            \/ Ends(f, g, n)
                            \/ n \in Leaves /\ Live(f, n)
    PROVE  Fits(g)
<1>1. ASSUME NEW n \in Nodes, Live(g, n) PROVE Live(f, n)
  BY <1>1 DEF Live, Goes, Ends, NoFrame
<1>2. \A n \in Leaves : Bare(g, n)
  BY BelowFacts DEF Bare, Below, Leaves
<1>3. ASSUME NEW n \in Nodes, Bare(f, n) PROVE Bare(g, n)
  BY <1>1, <1>3 DEF Bare, Below
<1>4. ASSUME NEW n \in Nodes PROVE ShapeOf(g, n)
  <2>1. CASE g[n] = f[n]
    <3>1. ShapeOf(f, n)
      BY DEF Fits
    <3> QED  BY <1>1, <1>3, <2>1, <3>1 DEF ShapeOf, Below
  <2>2. CASE Goes(f, g, n)
    BY <2>2 DEF Goes, NoFrame, ShapeOf
  <2>3. CASE Ends(f, g, n)
    BY <2>3 DEF Ends, ShapeOf
  <2>4. CASE n \in Leaves
    BY <1>2, <2>4 DEF ShapeOf, InOrder, Leaves
  <2> QED  BY <2>1, <2>2, <2>3, <2>4
<1>5. ASSUME NEW k \in Nodes PROVE SpineOf(g, k)
  <2> SUFFICES ASSUME Live(g, k), ~Free(k) PROVE SpineOf(g, k)
    BY DEF SpineOf
  <2>1. Live(f, k) /\ SpineOf(f, k)
    BY <1>1 DEF Fits
  <2>2. ASSUME NEW m \in Nodes, k \in Below(m) PROVE g[m].st = "run" /\ g[m].at > 0
    <3>1. f[m].st = "run" /\ f[m].at > 0
      BY <2>1, <2>2 DEF SpineOf
    <3>2. m \notin Leaves
      BY <2>2, BelowFacts
    <3>3. ~Goes(f, g, m) /\ ~Ends(f, g, m)
      BY <2>2, <3>1 DEF Goes, Ends
    <3> QED  BY <3>1, <3>2, <3>3
  <2>3. ASSUME NEW m \in Nodes, Live(g, m) PROVE m = k \/ m \in Below(k) \/ k \in Below(m)
    BY <1>1, <2>1, <2>3 DEF SpineOf
  <2> QED  BY <2>2, <2>3 DEF SpineOf
<1>6. ASSUME NEW n \in Nodes, g[n].st = "run", n \notin Leaves PROVE g[n].at \in 0 .. Width(n)
  BY <1>6 DEF Goes, Ends, NoFrame, Fits
<1>7. ASSUME NEW n \in Nodes, g[n].st = "mark" PROVE n \in Leaves
  BY <1>7 DEF Goes, Ends, NoFrame, Fits
<1> QED  BY <1>4, <1>5, <1>6, <1>7 DEF Fits

\* A node that runs, with nothing below it, calls a child
LEMMA Calls ==
    ASSUME NEW f, NEW g, Fits(f), g \in [Nodes -> Frame],
           NEW n \in Nodes \ Leaves, f[n].st = "run", Bare(f, n), NEW i \in 1 .. Width(n),
           g[n].st = "run", g[n].at = i,
           g[Child(n, i)].st = "run", g[Child(n, i)].at = 0,
           \A m \in Nodes \ {n, Child(n, i)} : g[m] = f[m]
    PROVE  Fits(g)
<1> DEFINE c == Child(n, i)
<1>1. /\ c \in Nodes /\ c \in Below(n) /\ c # n
      /\ \A a \in Nodes : c \in Below(a) => a = n \/ n \in Below(a)
      /\ i \in 0 .. Width(n) /\ i > 0
  BY ChildFacts, BelowFacts, TreeOK DEF Below
<1>2. ASSUME NEW a \in Nodes, NEW b \in Nodes, NEW d \in Nodes, b \in Below(a), d \in Below(b)
      PROVE  d \in Below(a)
  BY <1>2, BelowFacts
<1>3. g[c].st = "run" /\ g[c].at = 0 /\ \A m \in Nodes \ {n, c} : g[m] = f[m]
  OBVIOUS
<1> HIDE DEF c
<1>4. ~Live(f, c) /\ Live(f, n)
  BY <1>1 DEF Bare, Live
<1>5. \A m \in Nodes : Live(g, m) <=> Live(f, m) \/ m = c
  BY <1>1, <1>3, <1>4 DEF Live
<1>6. \A m \in Below(n) : Live(g, m) => m = c
  BY <1>5 DEF Bare, Below
<1>7. Bare(g, c)
  <2> SUFFICES ASSUME NEW m \in Below(c), Live(g, m) PROVE FALSE
    BY DEF Bare
  <2>1. m \in Nodes /\ m \in Below(n)
    BY <1>1, <1>2 DEF Below
  <2> QED  BY <1>1, <1>6, <2>1, BelowFacts
<1>8. ASSUME NEW a \in Nodes, a # n, a # c PROVE ShapeOf(g, a)
  <2>1. g[a] = f[a] /\ ShapeOf(f, a)
    BY <1>3, <1>8 DEF Fits
  <2>2. c \in Below(a) => n \in Below(a)
    BY <1>1, <1>8
  <2>3. Bare(f, a) => Bare(g, a)
    BY <1>4, <1>5, <2>2 DEF Bare, Below
  <2>4. ASSUME f[a].st = "run", f[a].at > 0, InOrder(a), NEW m \in Below(a), Live(g, m)
        PROVE  m = Child(a, f[a].at) \/ m \in Below(Child(a, f[a].at))
    <3>1. \A x \in Below(a) : Live(f, x) =>
             x = Child(a, f[a].at) \/ x \in Below(Child(a, f[a].at))
      BY <2>1, <2>4 DEF ShapeOf
    <3>2. CASE Live(f, m)
      BY <2>4, <3>1, <3>2
    <3>3. CASE m = c
      <4>1. n = Child(a, f[a].at) \/ n \in Below(Child(a, f[a].at))
        BY <1>4, <2>2, <2>4, <3>1, <3>3
      <4>2. a \notin Leaves /\ f[a].at \in 1 .. Width(a)
        <5>1. a \notin Leaves
          BY <2>4 DEF InOrder, Leaves
        <5>2. f[a].at \in 0 .. Width(a)
          BY <2>4, <5>1 DEF Fits
        <5> QED  BY <2>4, <5>1, <5>2, TreeOK
      <4>3. Child(a, f[a].at) \in Nodes
        BY <4>2, ChildIsNode
      <4> QED  BY <1>1, <1>2, <3>3, <4>1, <4>3
    <3> QED  BY <1>5, <2>4, <3>2, <3>3 DEF Below
  <2> QED  BY <2>1, <2>3, <2>4 DEF ShapeOf
<1>9. ShapeOf(g, n)
  BY <1>1, <1>6, TreeOK DEF ShapeOf, c
<1>10. ShapeOf(g, c)
  BY <1>3, <1>7 DEF ShapeOf
<1>11. ASSUME NEW k \in Nodes PROVE SpineOf(g, k)
  <2> SUFFICES ASSUME Live(g, k), ~Free(k) PROVE SpineOf(g, k)
    BY DEF SpineOf
  <2>1. g[n].at > 0 /\ g[n].st = "run"
    BY <1>1
  <2>2. CASE k = c
    <3>1. ~Free(n) /\ SpineOf(f, n)
      BY <1>1, <2>2, FreeFacts DEF Fits
    <3>2. ASSUME NEW m \in Nodes, c \in Below(m) PROVE g[m].st = "run" /\ g[m].at > 0
      <4>1. CASE m = n
        BY <2>1, <4>1
      <4>2. CASE m # n
        <5>1. n \in Below(m) /\ m # c
          BY <1>1, <3>2, <4>2, BelowFacts
        <5> QED  BY <1>3, <1>4, <3>1, <4>2, <5>1 DEF SpineOf
      <4> QED  BY <4>1, <4>2
    <3>3. ASSUME NEW m \in Nodes, Live(g, m), m # c PROVE c \in Below(m)
      <4>1. Live(f, m)
        BY <1>5, <3>3
      <4>2. m = n \/ m \in Below(n) \/ n \in Below(m)
        BY <1>4, <3>1, <4>1 DEF SpineOf
      <4>3. m \notin Below(n)
        BY <1>6, <3>3
      <4> QED  BY <1>1, <1>2, <4>2, <4>3
    <3> QED  BY <2>2, <3>2, <3>3 DEF SpineOf
  <2>3. CASE k # c
    <3>1. Live(f, k) /\ SpineOf(f, k) /\ k \notin Below(n)
      BY <1>5, <1>6, <2>3 DEF Fits
    <3>2. n = k \/ n \in Below(k)
      BY <1>4, <3>1 DEF SpineOf
    <3>3. ASSUME NEW m \in Nodes, k \in Below(m) PROVE g[m].st = "run" /\ g[m].at > 0
      <4>1. m # n
        BY <3>1, <3>3
      <4>2. f[m].st = "run" /\ f[m].at > 0
        BY <3>1, <3>3 DEF SpineOf
      <4> QED  BY <1>3, <1>4, <4>1, <4>2 DEF Live
    <3>4. ASSUME NEW m \in Nodes, Live(g, m) PROVE m = k \/ m \in Below(k) \/ k \in Below(m)
      <4>1. CASE m = c
        BY <1>1, <1>2, <3>2, <4>1
      <4>2. CASE m # c
        BY <1>5, <3>1, <3>4, <4>2 DEF SpineOf
      <4> QED  BY <4>1, <4>2
    <3> QED  BY <3>3, <3>4 DEF SpineOf
  <2> QED  BY <2>2, <2>3
<1>12. ASSUME NEW m \in Nodes, g[m].st = "run", m \notin Leaves PROVE g[m].at \in 0 .. Width(m)
  <2>1. 0 \in 0 .. Width(m)
    BY <1>12, TreeOK
  <2> QED  BY <1>1, <1>3, <1>12, <2>1 DEF Fits
<1>13. ASSUME NEW m \in Nodes, g[m].st = "mark" PROVE m \in Leaves
  BY <1>3, <1>13 DEF Fits
<1> QED  BY <1>8, <1>9, <1>10, <1>11, <1>12, <1>13 DEF Fits

\* A parallel node begins with all its children
LEMMA Forks ==
    ASSUME NEW f, NEW g, Fits(f), g \in [Nodes -> Frame],
           NEW n \in Nodes, Kind[n] = "parallel", f[n].st = "run", f[n].at = 0,
           g[n].st = "run", g[n].at = 1,
           \A m \in Children(n) : g[m].st = "run" /\ g[m].at = 0,
           \A m \in Nodes : m # n /\ m \notin Children(n) => g[m] = f[m]
    PROVE  Fits(g)
<1>1. /\ n \in Nodes \ Leaves
      /\ Width(n) \in Nat \ {0}
      /\ \A c \in Children(n) : \E i \in 1 .. Width(n) : c = Child(n, i)
  BY TreeOK DEF Leaves
<1>2. ASSUME NEW c \in Children(n)
      PROVE  /\ c \in Nodes /\ c \in Below(n) /\ c # n
             /\ \A a \in Nodes : c \in Below(a) => a = n \/ n \in Below(a)
  BY <1>1, ChildFacts, BelowFacts DEF Below
<1>3. ASSUME NEW a \in Nodes, NEW b \in Nodes, NEW d \in Nodes, b \in Below(a), d \in Below(b)
      PROVE  d \in Below(a)
  BY <1>3, BelowFacts
<1>4. Bare(f, n) /\ Live(f, n)
  BY DEF Fits, ShapeOf, Live
<1>5. \A m \in Nodes : Live(g, m) <=> Live(f, m) \/ m \in Children(n)
  BY <1>2, <1>4 DEF Live
<1>6. \A m \in Below(n) : Live(g, m) => m \in Children(n)
  BY <1>4, <1>5 DEF Bare, Below
<1>7. ASSUME NEW c \in Children(n) PROVE Bare(g, c)
  <2> SUFFICES ASSUME NEW m \in Below(c), Live(g, m) PROVE FALSE
    BY DEF Bare
  <2>1. m \in Nodes /\ m \in Below(n)
    BY <1>2, <1>3 DEF Below
  <2>2. m \in Children(n)
    BY <1>6, <2>1
  <2>3. c = n \/ n \in Below(c)
    BY <1>2, <2>2
  <2> QED  BY <1>2, <2>3, BelowFacts
<1>8. ASSUME NEW a \in Nodes, a # n, a \notin Children(n) PROVE ShapeOf(g, a)
  <2>1. g[a] = f[a] /\ ShapeOf(f, a)
    BY <1>8 DEF Fits
  <2>2. \A c \in Children(n) : c \in Below(a) => n \in Below(a)
    BY <1>2, <1>8
  <2>3. Bare(f, a) => Bare(g, a)
    BY <1>4, <1>5, <2>2 DEF Bare, Below
  <2>4. ASSUME f[a].st = "run", f[a].at > 0, InOrder(a), NEW m \in Below(a), Live(g, m)
        PROVE  m = Child(a, f[a].at) \/ m \in Below(Child(a, f[a].at))
    <3>1. \A x \in Below(a) : Live(f, x) =>
             x = Child(a, f[a].at) \/ x \in Below(Child(a, f[a].at))
      BY <2>1, <2>4 DEF ShapeOf
    <3>2. CASE Live(f, m)
      BY <2>4, <3>1, <3>2
    <3>3. CASE m \in Children(n)
      <4>1. n = Child(a, f[a].at) \/ n \in Below(Child(a, f[a].at))
        BY <1>4, <2>2, <2>4, <3>1, <3>3
      <4>2. a \notin Leaves /\ f[a].at \in 1 .. Width(a)
        <5>1. a \notin Leaves
          BY <2>4 DEF InOrder, Leaves
        <5>2. f[a].at \in 0 .. Width(a)
          BY <2>4, <5>1 DEF Fits
        <5> QED  BY <2>4, <5>1, <5>2, TreeOK
      <4>3. Child(a, f[a].at) \in Nodes
        BY <4>2, ChildIsNode
      <4> QED  BY <1>2, <1>3, <3>3, <4>1, <4>3
    <3> QED  BY <1>5, <2>4, <3>2, <3>3 DEF Below
  <2> QED  BY <2>1, <2>3, <2>4 DEF ShapeOf
<1>9. ShapeOf(g, n)
  BY DEF ShapeOf, InOrder
<1>10. ASSUME NEW c \in Children(n) PROVE ShapeOf(g, c)
  BY <1>7 DEF ShapeOf
<1>11. ASSUME NEW k \in Nodes PROVE SpineOf(g, k)
  <2> SUFFICES ASSUME Live(g, k), ~Free(k) PROVE SpineOf(g, k)
    BY DEF SpineOf
  <2>1. k \notin Below(n)
    BY FreeFacts
  <2>2. Live(f, k) /\ SpineOf(f, k) /\ k \notin Children(n)
    BY <1>2, <1>5, <2>1 DEF Fits
  <2>3. n = k \/ n \in Below(k)
    BY <1>4, <2>1, <2>2 DEF SpineOf
  <2>4. ASSUME NEW m \in Nodes, k \in Below(m) PROVE g[m].st = "run" /\ g[m].at > 0
    <3>1. f[m].st = "run" /\ f[m].at > 0 /\ m # n
      BY <2>1, <2>2, <2>4 DEF SpineOf
    <3>2. m \notin Children(n)
      BY <1>2, <1>4, <3>1 DEF Bare, Live
    <3> QED  BY <3>1, <3>2
  <2>5. ASSUME NEW m \in Nodes, Live(g, m) PROVE m = k \/ m \in Below(k) \/ k \in Below(m)
    <3>1. CASE m \in Children(n)
      BY <1>2, <1>3, <2>3, <3>1
    <3>2. CASE m \notin Children(n)
      BY <1>5, <2>2, <2>5, <3>2 DEF SpineOf
    <3> QED  BY <3>1, <3>2
  <2> QED  BY <2>4, <2>5 DEF SpineOf
<1>12. ASSUME NEW m \in Nodes, g[m].st = "run", m \notin Leaves PROVE g[m].at \in 0 .. Width(m)
  <2>1. 0 \in 0 .. Width(m) /\ 1 \in 0 .. Width(n)
    BY <1>1, <1>12, TreeOK
  <2> QED  BY <1>12, <2>1 DEF Fits
<1>13. ASSUME NEW m \in Nodes, g[m].st = "mark" PROVE m \in Leaves
  BY <1>13 DEF Fits
<1> QED  BY <1>8, <1>9, <1>10, <1>11, <1>12, <1>13 DEF Fits

-----------------------------------------------------------------------------
(***************************************************************************)
(* Every step keeps that shape.                                            *)
(***************************************************************************)

\* A child that has returned without an error leaves nothing below its caller
LEMMA TakenLeavesBare ==
    ASSUME NEW f, NEW g, Fits(f), NEW n \in Nodes \ Leaves, InOrder(n),
           f[n].st = "run", NEW i \in 1 .. Width(n), f[n].at = i,
           f[Child(n, i)].st = "done", ~Live(g, Child(n, i)),
           \A m \in Below(n) : Live(g, m) => Live(f, m)
    PROVE  /\ f[Child(n, i)].res # "err" => Bare(g, n)
           /\ \A m \in Below(n) : Live(g, m) => Free(m)
<1>1. i > 0 /\ Child(n, i) \in Nodes
  BY ChildIsNode, TreeOK
<1>2. ASSUME NEW m \in Below(n), Live(g, m) PROVE m \in Below(Child(n, i)) /\ Live(f, m)
  BY <1>1, <1>2 DEF Fits, ShapeOf
<1>3. f[Child(n, i)].res # "err" => Bare(f, Child(n, i))
  BY <1>1 DEF Fits, ShapeOf
<1>4. ASSUME NEW m \in Below(n), Live(g, m), ~Free(m) PROVE FALSE
  BY <1>1, <1>2, <1>4 DEF Fits, SpineOf, Below
<1> QED  BY <1>2, <1>3, <1>4 DEF Bare

\* executeSequential and executeLoop begin
LEMMA StartFits ==
    ASSUME IInv, IInv', Fits(frame), NEW n \in Nodes \ Leaves, Running(n), frame[n].at = 0,
           NEW i \in 1 .. Width(n), NEW via,
           frame' = Enter([frame EXCEPT ![n].at = i], Child(n, i), via)
    PROVE  Fits(frame')
<1> DEFINE c == Child(n, i)
<1>1. c \in Nodes /\ c # n
  BY ChildFacts, BelowFacts DEF Below
<1>2. frame \in [Nodes -> Frame] /\ frame' \in [Nodes -> Frame]
  BY DEF IInv, TypeOK
<1>3. Bare(frame, n)
  BY DEF Fits, ShapeOf, Running
<1> HIDE DEF c
<1>4. frame' = Enter([frame EXCEPT ![n].at = i], c, via)
  BY DEF c
<1>5. /\ frame'[n].st = "run" /\ frame'[n].at = i
      /\ frame'[c].st = "run" /\ frame'[c].at = 0
      /\ \A m \in Nodes \ {n, c} : frame'[m] = frame[m]
  <2> DEFINE f == [frame EXCEPT ![n].at = i]
  <2>1. /\ f \in [Nodes -> Frame] /\ f[n].st = "run" /\ f[n].at = i
        /\ \A m \in Nodes \ {n} : f[m] = frame[m]
    <3>1. frame[n] \in Frame /\ i \in Nat /\ frame[n].st = "run"
      BY <1>2, TreeOK DEF Running
    <3>2. [frame[n] EXCEPT !.at = i] \in Frame
      BY <3>1 DEF Frame
    <3>3. [frame[n] EXCEPT !.at = i].st = "run" /\ [frame[n] EXCEPT !.at = i].at = i
      BY <3>1 DEF Frame
    <3> QED  BY <1>2, <3>2, <3>3
  <2>2. frame' = Enter(f, c, via)
    BY <1>4
  <2> HIDE DEF f
  <2> DEFINE r == [NoFrame EXCEPT !.st = "run", !.via = via]
  <2>3. r.st = "run" /\ r.at = 0
    BY DEF NoFrame
  <2>4. frame' = [f EXCEPT ![c] = r]
    BY <2>2 DEF Enter
  <2> HIDE DEF r
  <2> QED  BY <1>1, <2>1, <2>3, <2>4
<1> QED  BY <1>2, <1>3, <1>5, Calls DEF Running, c

\* ... and go on
LEMMA GoOnFits ==
    ASSUME IInv, IInv', Fits(frame), NEW n \in Nodes \ Leaves, InOrder(n), Running(n),
           NEW i \in 1 .. Width(n), frame[n].at = i, Done(Child(n, i)),
           ResultOf(n, i) # "err",
           NEW j \in 1 .. Width(n), NEW round, GoOn(n, i, j, round)
    PROVE  Fits(frame')
<1> DEFINE c == Child(n, i)
           d == Child(n, j)
           f == Leave(frame, c)
<1>1. c \in Nodes /\ c # n /\ d \in Nodes /\ d # n
  BY ChildFacts, BelowFacts DEF Below
<1>2. frame \in [Nodes -> Frame] /\ frame' \in [Nodes -> Frame]
  BY DEF IInv, TypeOK
<1>3. frame[c].st = "done" /\ frame[c].res # "err" /\ frame[n].st = "run"
  BY DEF Done, Running, ResultOf
<1>4. frame' = Enter([f EXCEPT ![n].at = j, ![n].round = round], d, Nil)
  BY DEF GoOn, TreeStep
<1> HIDE DEF c, d
<1>5. /\ f \in [Nodes -> Frame]
      /\ f[c] = NoFrame
      /\ \A m \in Nodes \ {c} : f[m] = frame[m]
  BY <1>1, <1>2, NoFrameType DEF Leave
<1> HIDE DEF f
<1>6. Fits(f)
  <2>1. \A m \in Nodes : f[m] = frame[m] \/ Goes(frame, f, m)
    BY <1>3, <1>5 DEF Goes
  <2> QED  BY <1>5, <2>1, Shrinks
<1>7. Bare(f, n)
  <2>1. ~Live(f, c) /\ \A m \in Below(n) : Live(f, m) => Live(frame, m)
    BY <1>5 DEF Live, NoFrame, Below
  <2> QED  BY <1>3, <2>1, TakenLeavesBare DEF c
<1>8. /\ frame'[n].st = "run" /\ frame'[n].at = j
      /\ frame'[d].st = "run" /\ frame'[d].at = 0
      /\ \A m \in Nodes \ {n, d} : frame'[m] = f[m]
      /\ f[n].st = "run"
  BY <1>1, <1>2, <1>3, <1>4, <1>5 DEF Enter, NoFrame, Frame
<1> QED  BY <1>2, <1>6, <1>7, <1>8, Calls DEF d

\* ... and return
LEMMA GiveBackFits ==
    ASSUME IInv, IInv', Fits(frame), NEW n \in Nodes \ Leaves, InOrder(n), Running(n),
           NEW i \in 1 .. Width(n), frame[n].at = i, Done(Child(n, i)), NEW res,
           res # "err" => ResultOf(n, i) # "err", GiveBack(n, i, res)
    PROVE  Fits(frame')
<1> DEFINE c == Child(n, i)
<1>1. c \in Nodes /\ c # n
  BY ChildFacts, BelowFacts DEF Below
<1>2. frame \in [Nodes -> Frame] /\ frame' \in [Nodes -> Frame]
  BY DEF IInv, TypeOK
<1>3. frame[c].st = "done" /\ (res # "err" => frame[c].res # "err") /\ frame[n].st = "run"
  BY DEF Done, Running, ResultOf
<1>4. frame' = Return(Leave(frame, c), n, res)
  BY DEF GiveBack, TreeStep
<1> HIDE DEF c
<1>5. /\ frame'[n].st = "done" /\ frame'[n].res = res
      /\ frame'[c] = NoFrame
      /\ \A m \in Nodes \ {n, c} : frame'[m] = frame[m]
  BY <1>1, <1>2, <1>4 DEF Return, Leave, Frame
<1>6. Ends(frame, frame', n)
  <2>1. ~Live(frame', c)
    BY <1>5 DEF Live, NoFrame
  <2>2. \A m \in Below(n) : Live(frame', m) => Live(frame, m)
    BY <1>5, <2>1, BelowFacts DEF Live, Below
  <2>3. /\ frame[c].res # "err" => Bare(frame', n)
        /\ \A m \in Below(n) : Live(frame', m) => Free(m)
    BY <1>3, <2>1, <2>2, TakenLeavesBare DEF c
  <2> QED  BY <1>3, <1>5, <2>3 DEF Ends, Live
<1>7. Goes(frame, frame', c)
  BY <1>3, <1>5 DEF Goes
<1>8. \A m \in Nodes : frame'[m] = frame[m] \/ Goes(frame, frame', m) \/ Ends(frame, frame', m)
  BY <1>5, <1>6, <1>7
<1> QED  BY <1>2, <1>8, Shrinks

\* executeParallel begins and returns
LEMMA ParallelFits ==
    ASSUME IInv, IInv', Fits(frame), NEW n \in Nodes, ParFork(n) \/ ParJoin(n) \/ ParFail(n)
    PROVE  Fits(frame')
<1>1. Running(n) /\ Kind[n] = "parallel" /\ n \in Nodes \ Leaves
  BY DEF ParFork, ParJoin, ParFail, Leaves
<1>2. frame \in [Nodes -> Frame] /\ frame' \in [Nodes -> Frame]
  BY DEF IInv, TypeOK
<1>3. /\ \A c \in Children(n) : c \in Nodes /\ c \in Below(n) /\ c # n
      /\ \A c \in Children(n) : \E i \in 1 .. Width(n) : c = Child(n, i)
      /\ \A i \in 1 .. Width(n) : Child(n, i) \in Children(n)
  BY <1>1, ChildFacts, BelowFacts, TreeOK DEF Below
<1>4. CASE ParFork(n)
  <2>1. /\ frame[n].at = 0
        /\ frame'[n].st = "run" /\ frame'[n].at = 1
        /\ \A m \in Children(n) : frame'[m].st = "run" /\ frame'[m].at = 0
        /\ \A m \in Nodes : m # n /\ m \notin Children(n) => frame'[m] = frame[m]
    BY <1>1, <1>2, <1>3, <1>4 DEF ParFork, TreeStep, NoFrame, Running, Frame
  <2> QED  BY <1>1, <1>2, <2>1, Forks DEF Running
<1>5. CASE ParJoin(n) \/ ParFail(n)
  <2>1. PICK res \in {"ok", "err"} :
            /\ Collect(n, res)
            /\ res = "ok" => \A m \in Children(n) : Done(m) /\ frame[m].res # "err"
    BY <1>5 DEF ParJoin, ParFail
  <2>2. /\ frame'[n].st = "done" /\ frame'[n].res = res
        /\ \A m \in Children(n) : Done(m) => frame'[m] = NoFrame
        /\ \A m \in Nodes \ {n} : frame'[m] = frame[m] \/ (Done(m) /\ frame'[m] = NoFrame)
    <3>1. n \notin Children(n)
      BY <1>3
    <3>2. frame' = [m \in Nodes |->
              IF m \in Children(n) /\ Done(m) THEN NoFrame
              ELSE IF m = n THEN [frame[n] EXCEPT !.st = "done", !.res = res]
              ELSE frame[m]]
      BY <2>1 DEF Collect, TreeStep
    <3>3. frame'[n] = [frame[n] EXCEPT !.st = "done", !.res = res]
      BY <3>1, <3>2
    <3>4. frame'[n].st = "done" /\ frame'[n].res = res
      BY <1>2, <3>3 DEF Frame
    <3>5. ASSUME NEW m \in Children(n), Done(m) PROVE frame'[m] = NoFrame
      BY <1>3, <3>2, <3>5
    <3>6. ASSUME NEW m \in Nodes \ {n}
          PROVE  frame'[m] = frame[m] \/ (Done(m) /\ frame'[m] = NoFrame)
      BY <3>2, <3>6
    <3> QED  BY <3>4, <3>5, <3>6
  <2>3. \A m \in Below(n) : Free(m)
    BY <1>1, FreeFacts
  <2>4. res # "err" => Bare(frame', n)
    <3> SUFFICES ASSUME res = "ok", NEW m \in Below(n), Live(frame', m) PROVE FALSE
      BY DEF Bare
    <3>1. PICK i \in 1 .. Width(n) : m = Child(n, i) \/ m \in Below(Child(n, i))
      BY BelowSplits
    <3>2. Done(Child(n, i)) /\ frame[Child(n, i)].res # "err" /\ frame'[Child(n, i)] = NoFrame
      BY <1>3, <2>1, <2>2
    <3>3. m \in Below(Child(n, i)) /\ m \in Nodes
      BY <3>1, <3>2 DEF Live, NoFrame, Below
    <3>4. ~Live(frame, m)
      BY <1>3, <3>2, <3>3 DEF Fits, ShapeOf, Bare, Done
    <3>5. m # n
      BY BelowFacts DEF Below
    <3> QED  BY <2>2, <3>3, <3>4, <3>5 DEF Live, NoFrame
  <2>5. Ends(frame, frame', n)
    BY <1>1, <2>2, <2>3, <2>4 DEF Ends, Live, Running
  <2>6. \A m \in Nodes : frame'[m] = frame[m] \/ Goes(frame, frame', m) \/ Ends(frame, frame', m)
    BY <2>2, <2>5 DEF Goes, Done
  <2> QED  BY <1>2, <2>6, Shrinks
<1> QED  BY <1>4, <1>5

\* The steps of composite nodes keep the shape
LEMMA CompositeFits ==
    ASSUME IInv, IInv', Fits(frame), NEW n \in Nodes, CompositeStep(n)
    PROVE  Fits(frame')
<1>1. CASE SeqStart(n)
  <2> DEFINE via == frame[n].via
  <2>1. n \in Nodes \ Leaves /\ Running(n) /\ frame[n].at = 0
    BY <1>1 DEF SeqStart, Leaves
  <2>2. via \in {Nil} \cup Seq(Nat \ {0}) /\ (via # Nil => n \o via \in Nodes)
    BY DEF IInv, TypeOK, Paths, FrameOf, Frame
  <2>3. CASE via \in {Nil, <<>>}
    <3>1. frame' = Enter([frame EXCEPT ![n].at = 1], Child(n, 1), Nil)
      BY <1>1, <2>3 DEF SeqStart, TreeStep
    <3>2. 1 \in 1 .. Width(n)
      BY <2>1, TreeOK
    <3> QED  BY <2>1, <3>1, <3>2, StartFits
  <2>4. CASE via \notin {Nil, <<>>}
    <3>1. frame' = Enter([frame EXCEPT ![n].at = Head(via)], Child(n, Head(via)), Tail(via))
      BY <1>1, <2>4 DEF SeqStart, TreeStep
    <3>2. Head(via) \in 1 .. Width(n)
      BY <2>1, <2>2, <2>4, PathStep
    <3> QED  BY <2>1, <3>1, <3>2, StartFits
  <2> QED  BY <2>3, <2>4
<1>2. CASE LoopStart(n)
  <2>1. n \in Nodes \ Leaves /\ Running(n) /\ frame[n].at = 0
    BY <1>2 DEF LoopStart, Leaves
  <2>2. frame' = Enter([frame EXCEPT ![n].at = 1], Child(n, 1), Nil)
    BY <1>2 DEF LoopStart, TreeStep
  <2>3. 1 \in 1 .. Width(n)
    BY <2>1, TreeOK
  <2> QED  BY <2>1, <2>2, <2>3, StartFits
<1>3. CASE SeqNext(n) \/ SeqEnd(n) \/ LoopNext(n) \/ LoopEnd(n)
  <2> DEFINE i == frame[n].at
  <2>1. PICK kind \in {"sequential", "loop"} : Returned(n, kind, i)
    BY <1>3 DEF SeqNext, SeqEnd, LoopNext, LoopEnd
  <2>2. n \in Nodes \ Leaves /\ Running(n) /\ i \in 1 .. Width(n) /\ Width(n) \in Nat
    BY <2>1, ReturnedChild, TreeOK
  <2>3. InOrder(n) /\ Done(Child(n, i))
    BY <2>1 DEF Returned, InOrder
  <2>4. 1 \in 1 .. Width(n) /\ (i < Width(n) => i + 1 \in 1 .. Width(n))
    BY <2>2
  <2>5. CASE SeqNext(n)
    <3>1. ResultOf(n, i) # "err" /\ i < Width(n) /\ GoOn(n, i, i + 1, 0)
      BY <2>5 DEF SeqNext, Stops
    <3> QED  BY <2>2, <2>3, <2>4, <3>1, GoOnFits
  <2>6. CASE SeqEnd(n)
    <3>1. GiveBack(n, i, ResultOf(n, i))
      BY <2>6 DEF SeqEnd
    <3> QED  BY <2>2, <2>3, <3>1, GiveBackFits
  <2>7. CASE LoopNext(n)
    <3>1. ResultOf(n, i) # "err"
      BY <2>7 DEF LoopNext
    <3>2. CASE i < Width(n)
      <4>1. GoOn(n, i, i + 1, frame[n].round)
        BY <2>7, <3>2 DEF LoopNext
      <4> QED  BY <2>2, <2>3, <2>4, <3>1, <3>2, <4>1, GoOnFits
    <3>3. CASE ~(i < Width(n))
      <4>1. GoOn(n, i, 1, frame[n].round + 1)
        BY <2>7, <3>3 DEF LoopNext
      <4> QED  BY <2>2, <2>3, <2>4, <3>1, <4>1, GoOnFits
    <3> QED  BY <3>2, <3>3
  <2>8. CASE LoopEnd(n)
    <3> DEFINE res == IF ResultOf(n, i) = "exit" THEN "ok" ELSE ResultOf(n, i)
    <3>1. GiveBack(n, i, res) /\ (res # "err" => ResultOf(n, i) # "err")
      BY <2>8 DEF LoopEnd
    <3> HIDE DEF res
    <3> QED  BY <2>2, <2>3, <3>1, GiveBackFits
  <2> QED  BY <1>3, <2>5, <2>6, <2>7, <2>8
<1>4. CASE Reap(n)
  <2>1. frame \in [Nodes -> Frame] /\ frame' \in [Nodes -> Frame]
    BY DEF IInv, TypeOK
  <2>2. \A m \in Nodes : frame'[m] = frame[m] \/ Goes(frame, frame', m)
    BY <1>4, <2>1 DEF Reap, TreeStep, Leave, Done, Goes
  <2> QED  BY <2>1, <2>2, Shrinks
<1> QED  BY <1>1, <1>2, <1>3, <1>4, ParallelFits DEF CompositeStep

\* The end of a leaf keeps the shape
LEMMA LeafFits ==
    ASSUME IInv, IInv', Fits(frame), NEW n \in Nodes, LeafStep(n)
    PROVE  /\ Fits(frame')
           /\ n \in Leaves /\ Live(frame, n)
           /\ \A m \in Nodes \ {n} : frame'[m] = frame[m]
<1>1. frame \in [Nodes -> Frame] /\ frame' \in [Nodes -> Frame]
  BY DEF IInv, TypeOK
<1>2. n \in Leaves /\ Live(frame, n)
  BY DEF Fits, LeafStep, NoClient, LeafError, LeafExits, LeafNeedsAuth, LeafOutput, LeafAsks,
         LeafProxies, MarkProxy, LeafResumes, MayAct, TakesTurn, InTurn, Running, Live
<1>3. \A m \in Nodes \ {n} : frame'[m] = frame[m]
  BY <1>1 DEF LeafStep, NoClient, LeafError, LeafExits, LeafNeedsAuth, LeafOutput, LeafAsks,
         LeafProxies, MarkProxy, LeafResumes, LeafEnds, TreeStep, Return
<1> QED  BY <1>1, <1>2, <1>3, Shrinks

\* Where nothing runs, a call of the root fits
LEMMA RootFits ==
    ASSUME IInv, IInv', Quiet, NEW via, frame' = Enter(frame, Root, via)
    PROVE  Fits(frame')
<1>1. frame \in [Nodes -> Frame] /\ frame' \in [Nodes -> Frame] /\ Root \in Nodes
  BY TreeOK DEF IInv, TypeOK
<1> DEFINE r == [NoFrame EXCEPT !.st = "run", !.via = via]
<1>2. r.st = "run" /\ r.at = 0 /\ frame' = [frame EXCEPT ![Root] = r]
  BY DEF Enter, NoFrame
<1> HIDE DEF r
<1>3. /\ frame'[Root].st = "run" /\ frame'[Root].at = 0
      /\ \A m \in Nodes \ {Root} : frame'[m].st = "idle"
  BY <1>1, <1>2 DEF Quiet
<1>4. \A n \in Nodes : Bare(frame', n)
  <2>1. \A n \in Nodes : Root \notin Below(n)
    BY <1>1, RootAbove, BelowFacts
  <2> QED  BY <1>3, <2>1 DEF Bare, Live, Below
<1>5. \A n \in Nodes : ShapeOf(frame', n) /\ SpineOf(frame', n)
  <2> TAKE n \in Nodes
  <2>1. ShapeOf(frame', n)
    BY <1>3, <1>4 DEF ShapeOf
  <2>2. SpineOf(frame', n)
    <3>1. \A m \in Nodes : Root \notin Below(m)
      BY <1>1, RootAbove, BelowFacts
    <3> QED  BY <1>3, <3>1 DEF SpineOf, Live
  <2> QED  BY <2>1, <2>2
<1>6. ASSUME Root \notin Leaves PROVE 0 \in 0 .. Width(Root)
  BY <1>1, <1>6, TreeOK
<1>7. \A n \in Nodes : frame'[n].st = "run" /\ n \notin Leaves => frame'[n].at \in 0 .. Width(n)
  BY <1>3, <1>6
<1>8. \A n \in Nodes : frame'[n].st # "mark"
  BY <1>3
<1> QED  BY <1>1, <1>5, <1>7, <1>8 DEF Fits

\* The steps of the request keep the shape
LEMMA RequestFits ==
    ASSUME IInv, IInv', Fits(frame), RequestStep \/ ClientStep
    PROVE  Fits(frame')
<1>1. CASE MessageDone \/ ResumeDone \/ ResumeFails
  <2>1. frame \in [Nodes -> Frame] /\ frame' \in [Nodes -> Frame]
    BY DEF IInv, TypeOK
  <2>2. \A m \in Nodes : frame'[m] = frame[m] \/ Goes(frame, frame', m)
    BY <1>1, <2>1 DEF MessageDone, ResumeDone, ResumeFails, Leave, Done, Goes
  <2> QED  BY <2>1, <2>2, Shrinks
<1>2. CASE Message
  BY <1>2, RootFits DEF Message, MaySend
<1>3. CASE ExecReturns \/ ExecAsks \/ ProxyReturns
  <2>1. Quiet
    BY <1>3 DEF ExecReturns, ExecAsks, ProxyReturns, IInv, Resolving
  <2>2. frame' = frame \/ frame' = Enter(frame, Root, held.pipe.path)
    BY <1>3 DEF ExecReturns, ExecAsks, ProxyReturns, Continue, treeVars
  <2> QED  BY <2>1, <2>2, RootFits
<1>4. CASE Blocked \/ Approve \/ Reject
  BY <1>4 DEF Blocked, Approve, Reject, treeVars
<1>5. CASE ExecFails \/ ExecNeedsAuth \/ ProxyFails \/ ProxyNeedsAuth \/ ProxyAsksAgain
  BY <1>5 DEF ExecFails, ExecNeedsAuth, ProxyFails, ProxyNeedsAuth, ProxyAsksAgain,
              ResolutionFails, ResolutionNeedsAuth, treeVars
<1>6. CASE SimpleLoopEnds \/ SimpleLoopAsks
  BY <1>6 DEF SimpleLoopEnds, SimpleLoopAsks, treeVars
<1> QED  BY <1>1, <1>2, <1>3, <1>4, <1>5, <1>6 DEF RequestStep, ClientStep

\* The inductive invariant
ShapeInv == IInv /\ Fits(frame)

\* The activations form a tree in every reachable state
LEMMA ShapeStep == ShapeInv /\ [Next]_vars => ShapeInv'
<1> SUFFICES ASSUME ShapeInv, [Next]_vars PROVE ShapeInv'
  OBVIOUS
<1>1. IInv /\ IInv' /\ Fits(frame)
  BY StepInv DEF ShapeInv
<1>2. CASE UNCHANGED vars
  BY <1>1, <1>2 DEF vars, ShapeInv
<1>3. CASE \E n \in Nodes : CompositeStep(n) \/ LeafStep(n)
  BY <1>1, <1>3, CompositeFits, LeafFits DEF ShapeInv
<1>4. CASE RequestStep \/ ClientStep
  BY <1>1, <1>4, RequestFits DEF ShapeInv
<1> QED  BY <1>2, <1>3, <1>4 DEF Next, ServerStep

\* At the beginning nothing runs
LEMMA InitShape == Init => ShapeInv
<1> SUFFICES ASSUME Init PROVE ShapeInv
  OBVIOUS
<1>1. IInv
  BY InitInv
<1>2. \A n \in Nodes : frame[n].st = "idle"
  BY DEF Init, NoFrame
<1>3. Fits(frame)
  BY <1>1, <1>2 DEF Fits, ShapeOf, SpineOf, Live, IInv, TypeOK
<1> QED  BY <1>1, <1>3 DEF ShapeInv

\* When a node that may ask has nothing below it, only that node takes a step, or
\* the sequence that takes its result
LEMMA OnlyMover ==
    ASSUME ShapeInv, NEW w \in Nodes, Live(frame, w), ~Free(w), Bare(frame, w),
           NEW n \in Nodes, CompositeStep(n) \/ LeafStep(n)
    PROVE  \/ n = w
           \/ /\ w \in Below(n) /\ Kind[n] = "sequential"
              /\ Returned(n, "sequential", frame[n].at) /\ w = Child(n, frame[n].at)
              /\ ~Free(n) /\ (SeqNext(n) \/ SeqEnd(n))
<1> SUFFICES ASSUME n # w
             PROVE  /\ w \in Below(n) /\ Kind[n] = "sequential"
                    /\ Returned(n, "sequential", frame[n].at) /\ w = Child(n, frame[n].at)
                    /\ ~Free(n) /\ (SeqNext(n) \/ SeqEnd(n))
  OBVIOUS
<1>1. IInv /\ Fits(frame) /\ SpineOf(frame, w)
  BY DEF ShapeInv, Fits
<1>2. \A m \in Nodes : w \in Below(m) => Running(m) /\ frame[m].at > 0
  BY <1>1 DEF SpineOf, Running
<1>3. Live(frame, n)
  BY DEF LeafStep, NoClient, LeafError, LeafExits, LeafNeedsAuth, LeafOutput, LeafAsks,
         LeafProxies, MarkProxy, LeafResumes, MayAct, TakesTurn, InTurn, Running, Live,
         CompositeStep, SeqStart, SeqNext, SeqEnd, LoopStart, LoopNext, LoopEnd, ParFork,
         ParJoin, ParFail, Reap, Returned, Done
<1>4. w \in Below(n)
  BY <1>1, <1>3 DEF SpineOf, Bare
<1>5. Kind[n] = "sequential" /\ n \notin Leaves /\ ~Free(n) /\ Running(n) /\ frame[n].at > 0
  BY <1>2, <1>4, FreeFacts
<1>6. SeqNext(n) \/ SeqEnd(n)
  BY <1>5
  DEF LeafStep, NoClient, LeafError, LeafExits, LeafNeedsAuth, LeafOutput, LeafAsks,
      LeafProxies, MarkProxy, LeafResumes, MayAct, TakesTurn, InTurn, Running,
      CompositeStep, SeqStart, LoopStart, LoopNext, LoopEnd, ParFork,
      ParJoin, ParFail, Reap, Returned, Done
<1>7. Returned(n, "sequential", frame[n].at)
  BY <1>6 DEF SeqNext, SeqEnd
<1>8. Done(Child(n, frame[n].at))
  BY <1>7 DEF Returned
<1>9. w = Child(n, frame[n].at) \/ w \in Below(Child(n, frame[n].at))
  BY <1>1, <1>4, <1>5 DEF Fits, ShapeOf, InOrder, Running
<1>10. frame[n].at \in 1 .. Width(n) /\ Child(n, frame[n].at) \in Nodes
  <2>1. frame[n].at \in 1 .. Width(n)
    BY <1>1, <1>7, ReturnedChild
  <2> QED  BY <1>5, <2>1, ChildIsNode
<1> QED  BY <1>2, <1>4, <1>5, <1>6, <1>7, <1>8, <1>9, <1>10 DEF Running, Done

-----------------------------------------------------------------------------
(***************************************************************************)
(* Pause and resume, where no remote agent below a parallel or a loop node *)
(* asks for an approval.                                                   *)
(***************************************************************************)

\* A parallel or a loop node drops the pause of a child (executeParallel, executeLoop)
RemotesUnshared == \A n \in RemoteAsks : ~Free(n)

\* Node w holds up the tree for an approval
Waits(f, w) == f[w].st = "mark" \/ (f[w].st = "done" /\ f[w].res = "wait")

\* Node n has been called along a resume path, and has not followed it yet
Tip(f, n) == f[n].st = "run" /\ f[n].via # Nil /\ (n \in Leaves \/ f[n].at = 0)

\* The leaf that the path leads to
Target(f, n) == n \o f[n].via

\* A tree whose conversation waits is held up by a node that may ask
PausedTree ==
    /\ Live(frame, Root) => InTree
    /\ \A n \in Nodes : frame[n].st = "mark" => ~Free(n) /\ InTree /\ conv.pending # Nil
    /\ InTree /\ conv.pending # Nil => \E w \in Nodes : ~Free(w) /\ Waits(frame, w)

\* A resume path leads to a leaf that may ask
ResumedTree == \A n \in Nodes : Tip(frame, n) =>
    /\ Target(frame, n) \in Leaves /\ ~Free(Target(frame, n))
    /\ main = "resume" /\ conv.pending = Nil

\* Before the paused leaf is reached again, its output may be on one side only
Matching == InTree =>
    \/ state = conv.outs
    \/ \E n \in Nodes : /\ Tip(frame, n)
                        /\ state \cup {Target(frame, n)} = conv.outs \cup {Target(frame, n)}

\* A stored pipeline has the session state of the transcript it is stored with
Kept(c) ==
    /\ c.pending = Nil => c.pipe = Nil
    /\ c.pipe # Nil => ~Free(c.pipe.path) /\ c.pipe.state = c.outs

\* A resolution has the stored pipeline in hand, and has cleared its own copy
InHand ==
    /\ main \in {"exec", "proxy", "loop"} => conv.pending = Nil /\ conv.pipe = Nil
    /\ main \in {"exec", "proxy"} =>
          /\ held.pending = disk.pending
          /\ held.pipe # Nil => ~Free(held.pipe.path) /\ held.pipe.state = conv.outs

\* The inductive invariant
PauseInv ==
    /\ ShapeInv
    /\ PausedTree
    /\ ResumedTree
    /\ Matching
    /\ Kept(disk)
    /\ InTree => Kept(conv)
    /\ InHand

\* Every node but the root has a node above it
LEMMA ParentFacts ==
    ASSUME NEW n \in Nodes, n # Root
    PROVE  Parent(n) \in Nodes /\ n \in Below(Parent(n))
<1>1. n \in Seq(Nat \ {0}) /\ Len(n) \in Nat /\ Len(n) # 0
  BY NodesAreSequences, EmptySeq DEF Root
<1>2. Len(n) - 1 \in 0 .. Len(n) - 1
  BY <1>1
<1>3. Parent(n) \in Ancestors(n)
  BY <1>2 DEF Parent, Ancestors
<1> QED  BY <1>3, TreeOK DEF Below

\* While a node runs that may ask, the root runs, or is that node
LEMMA SpineToRoot ==
    ASSUME ShapeInv, NEW n \in Nodes, Live(frame, n), ~Free(n), n # Root
    PROVE  Running(Root) /\ frame[Root].at > 0
BY RootAbove, TreeOK DEF ShapeInv, Fits, SpineOf, Running

\* Nothing runs below a node that holds up the tree
LEMMA WaitFacts ==
    ASSUME ShapeInv, NEW w \in Nodes, Waits(frame, w)
    PROVE  Live(frame, w) /\ Bare(frame, w)
<1>1. CASE frame[w].st = "mark"
  BY <1>1, BelowFacts DEF ShapeInv, Fits, Bare, Live, Below
<1>2. CASE frame[w].st = "done" /\ frame[w].res = "wait"
  BY <1>2 DEF ShapeInv, Fits, ShapeOf, Live
<1> QED  BY <1>1, <1>2 DEF Waits

\* A path that is not empty leads down
LEMMA PathBelow ==
    ASSUME NEW n \in Nodes, NEW via \in Seq(Nat \ {0}), n \o via \in Nodes, via # <<>>
    PROVE  n \o via \in Below(n)
<1>1. n \in Seq(Nat \ {0}) /\ Len(n) \in Nat /\ Len(via) \in Nat /\ Len(via) # 0
  BY NodesAreSequences, EmptySeq
<1>2. Len(n \o via) = Len(n) + Len(via) /\ \A x \in 1 .. Len(n) : (n \o via)[x] = n[x]
  BY <1>1
<1>3. Len(n) < Len(n \o via)
  BY <1>1, <1>2
<1> QED  BY <1>2, <1>3, PrefixFacts DEF Below

\* Nothing runs below the tip of a resume path
LEMMA TipFacts ==
    ASSUME PauseInv, NEW t \in Nodes, Tip(frame, t)
    PROVE  /\ Live(frame, t) /\ Bare(frame, t) /\ ~Free(t)
           /\ frame[t].via \in Seq(Nat \ {0}) /\ t \o frame[t].via \in Nodes
           /\ t \in Leaves <=> frame[t].via = <<>>
           /\ t \notin Leaves => Kind[t] = "sequential"
<1>1. frame[t].via \in Seq(Nat \ {0}) /\ t \o frame[t].via \in Nodes /\ t \in Seq(Nat \ {0})
  BY NodesAreSequences DEF PauseInv, ShapeInv, IInv, TypeOK, Frame, Paths, FrameOf, Tip
<1>2. Target(frame, t) \in Leaves /\ ~Free(Target(frame, t))
  BY DEF PauseInv, ResumedTree
<1>3. Live(frame, t) /\ Bare(frame, t)
  <2>1. t \in Leaves => Bare(frame, t)
    BY BelowFacts DEF Bare, Below, Leaves
  <2>2. t \notin Leaves => Bare(frame, t)
    BY DEF Tip, PauseInv, ShapeInv, Fits, ShapeOf
  <2> QED  BY <2>1, <2>2 DEF Tip, Live
<1>4. CASE frame[t].via = <<>>
  <2>1. Target(frame, t) = t
    BY <1>1, <1>4, ConcatEmptySeq, Zenon DEF Target
  <2> QED  BY <1>1, <1>2, <1>3, <1>4, <2>1
<1>5. CASE frame[t].via # <<>>
  <2>1. Target(frame, t) \in Below(t)
    BY <1>1, <1>5, PathBelow DEF Target
  <2> QED  BY <1>1, <1>2, <1>3, <1>5, <2>1, FreeFacts
<1> QED  BY <1>4, <1>5

\* What a step of a composite node does to one activation
LEMMA CompositeFrames ==
    ASSUME ShapeInv, NEW n \in Nodes, CompositeStep(n), NEW m \in Nodes
    PROVE  \/ frame'[m] = frame[m]
           \/ Live(frame, m) /\ frame'[m].st \in {"idle", "done"}
           \/ Live(frame, m) /\ m \notin Leaves /\ frame'[m].st = "run" /\ frame'[m].at > 0
           \/ m # Root /\ frame'[m].st = "run" /\ frame'[m].via = Nil
           \/ /\ m # Root /\ SeqStart(n) /\ Tip(frame, n)
              /\ frame'[m].st = "run" /\ frame'[m].via # Nil
              /\ Target(frame', m) = Target(frame, n)
<1> DEFINE Goal ==
           \/ frame'[m] = frame[m]
           \/ Live(frame, m) /\ frame'[m].st \in {"idle", "done"}
           \/ Live(frame, m) /\ m \notin Leaves /\ frame'[m].st = "run" /\ frame'[m].at > 0
           \/ m # Root /\ frame'[m].st = "run" /\ frame'[m].via = Nil
           \/ /\ m # Root /\ SeqStart(n) /\ Tip(frame, n)
              /\ frame'[m].st = "run" /\ frame'[m].via # Nil
              /\ Target(frame', m) = Target(frame, n)
<1>1. frame \in [Nodes -> Frame] /\ IInv
  BY DEF ShapeInv, IInv, TypeOK
<1>2. ASSUME NEW i \in 1 .. Width(n), NEW via, n \notin Leaves, Running(n),
             frame' = Enter([frame EXCEPT ![n].at = i], Child(n, i), via),
             \/ via = Nil
             \/ SeqStart(n) /\ Tip(frame, n) /\ via # Nil /\ Child(n, i) \o via = Target(frame, n)
      PROVE  Goal
  <2> DEFINE c == Child(n, i)
             f == [frame EXCEPT ![n].at = i]
             r == [NoFrame EXCEPT !.st = "run", !.via = via]
  <2>1. c \in Nodes /\ c # Root /\ c # n /\ i \in Nat /\ i > 0
    BY <1>2, ChildFacts, BelowFacts, TreeOK DEF Below
  <2>2. frame[n] \in Frame /\ frame[n].st = "run"
    BY <1>1, <1>2 DEF Running
  <2>3. [frame[n] EXCEPT !.at = i].st = "run" /\ [frame[n] EXCEPT !.at = i].at = i
    BY <2>1, <2>2 DEF Frame
  <2>4. f[n].st = "run" /\ f[n].at = i /\ \A x \in Nodes \ {n} : f[x] = frame[x]
    BY <1>1, <2>3
  <2>5. r.st = "run" /\ r.via = via
    BY DEF NoFrame
  <2>6. frame' = [f EXCEPT ![c] = r] /\ f \in [Nodes -> {f[x] : x \in Nodes}]
    BY <1>1, <1>2 DEF Enter
  <2>7. c \o via = Target(frame, n) \/ via = Nil
    BY <1>2
  <2> HIDE DEF f, r, c
  <2>8. CASE m = c
    <3>1. frame'[m].st = "run" /\ frame'[m].via = via
      BY <2>5, <2>6, <2>8
    <3> QED  BY <1>2, <2>1, <2>7, <2>8, <3>1 DEF Target
  <2>9. CASE m = n
    BY <1>2, <2>1, <2>2, <2>4, <2>6, <2>9 DEF Live
  <2>10. CASE m # n /\ m # c
    BY <2>4, <2>6, <2>10
  <2> QED  BY <2>8, <2>9, <2>10
<1>3. ASSUME NEW i \in 1 .. Width(n), NEW j \in 1 .. Width(n), NEW round \in Nat,
             n \notin Leaves, Running(n), Done(Child(n, i)), GoOn(n, i, j, round)
      PROVE  Goal
  <2> DEFINE c == Child(n, i)
             d == Child(n, j)
             f == Leave(frame, c)
             g == [f EXCEPT ![n].at = j, ![n].round = round]
             r == [NoFrame EXCEPT !.st = "run", !.via = Nil]
             q == [frame[n] EXCEPT !.at = j, !.round = round]
  <2>1. c \in Nodes /\ c # n /\ d \in Nodes /\ d # Root /\ d # n /\ j \in Nat /\ j > 0
    BY <1>3, ChildFacts, BelowFacts, TreeOK DEF Below
  <2>2. frame[n] \in Frame /\ frame[n].st = "run" /\ frame[c].st = "done"
    BY <1>1, <1>3 DEF Running, Done
  <2>3. q.st = "run" /\ q.at = j
    BY <2>1, <2>2 DEF Frame
  <2>4. r.st = "run" /\ r.via = Nil /\ NoFrame.st = "idle"
    BY DEF NoFrame
  <2>5. frame' = Enter(g, d, Nil)
    BY <1>3 DEF GoOn, TreeStep
  <2> HIDE DEF c, d
  <2>6. f[n] = frame[n] /\ f[c] = NoFrame /\ f = [x \in Nodes |-> f[x]]
        /\ \A x \in Nodes \ {c} : f[x] = frame[x]
    BY <1>1, <2>1 DEF Leave
  <2> HIDE DEF f
  <2>7. g = [f EXCEPT ![n] = q]
    BY <2>6
  <2> HIDE DEF q, g
  <2>8. g[n] = q /\ g = [x \in Nodes |-> g[x]] /\ \A x \in Nodes \ {n} : g[x] = f[x]
    BY <2>6, <2>7
  <2>9. frame' = [g EXCEPT ![d] = r]
    BY <2>5 DEF Enter
  <2> HIDE DEF r
  <2>10. frame'[d] = r /\ \A x \in Nodes \ {d} : frame'[x] = g[x]
    BY <2>1, <2>8, <2>9
  <2>11. CASE m = d
    BY <2>1, <2>4, <2>10, <2>11
  <2>12. CASE m = n
    BY <1>3, <2>1, <2>2, <2>3, <2>8, <2>10, <2>12 DEF Live
  <2>13. CASE m = c /\ m # d
    BY <2>1, <2>2, <2>4, <2>6, <2>8, <2>10, <2>13 DEF Live
  <2>14. CASE m # n /\ m # c /\ m # d
    BY <2>6, <2>8, <2>10, <2>14
  <2> QED  BY <2>11, <2>12, <2>13, <2>14
<1>4. ASSUME NEW i \in 1 .. Width(n), NEW res,
             n \notin Leaves, Running(n), Done(Child(n, i)), GiveBack(n, i, res)
      PROVE  Goal
  <2> DEFINE c == Child(n, i)
  <2>1. c \in Nodes /\ c # n
    BY <1>4, ChildFacts, BelowFacts DEF Below
  <2>2. frame' = Return(Leave(frame, c), n, res) /\ frame[c].st = "done" /\ frame[n].st = "run"
    BY <1>4 DEF GiveBack, TreeStep, Done, Running
  <2> HIDE DEF c
  <2>3. /\ frame'[n].st = "done" /\ frame'[c].st = "idle"
        /\ \A x \in Nodes \ {n, c} : frame'[x] = frame[x]
    BY <1>1, <2>1, <2>2 DEF Return, Leave, Frame, NoFrame
  <2> QED  BY <2>2, <2>3 DEF Live
<1>5. CASE SeqStart(n)
  <2> DEFINE via == frame[n].via
  <2>1. n \notin Leaves /\ Running(n) /\ frame[n].at = 0 /\ 1 \in 1 .. Width(n)
    BY <1>5, TreeOK DEF SeqStart, Leaves
  <2>2. via \in {Nil} \cup Seq(Nat \ {0}) /\ (via # Nil => n \o via \in Nodes)
    BY <1>1 DEF IInv, TypeOK, Paths, FrameOf, Frame
  <2>3. CASE via \in {Nil, <<>>}
    <3>1. frame' = Enter([frame EXCEPT ![n].at = 1], Child(n, 1), Nil)
      BY <1>5, <2>3 DEF SeqStart, TreeStep
    <3> QED  BY <1>2, <2>1, <3>1
  <2>4. CASE via \notin {Nil, <<>>}
    <3>1. frame' = Enter([frame EXCEPT ![n].at = Head(via)], Child(n, Head(via)), Tail(via))
      BY <1>5, <2>4 DEF SeqStart, TreeStep
    <3>2. /\ Head(via) \in 1 .. Width(n) /\ Tail(via) \in Seq(Nat \ {0})
          /\ Child(n, Head(via)) \o Tail(via) = n \o via
      BY <2>1, <2>2, <2>4, PathStep
    <3>3. Tip(frame, n) /\ Target(frame, n) = n \o via /\ Tail(via) # Nil
      BY <2>1, <2>4, <3>2, NilIsNoPath DEF Tip, Target, Running
    <3> QED  BY <1>2, <1>5, <2>1, <3>1, <3>2, <3>3
  <2> QED  BY <2>3, <2>4
<1>6. CASE LoopStart(n)
  <2>1. n \notin Leaves /\ Running(n) /\ 1 \in 1 .. Width(n)
    BY <1>6, TreeOK DEF LoopStart, Leaves
  <2>2. frame' = Enter([frame EXCEPT ![n].at = 1], Child(n, 1), Nil)
    BY <1>6 DEF LoopStart, TreeStep
  <2> QED  BY <1>2, <2>1, <2>2
<1>7. CASE SeqNext(n) \/ SeqEnd(n) \/ LoopNext(n) \/ LoopEnd(n)
  <2> DEFINE i == frame[n].at
  <2>1. PICK kind \in {"sequential", "loop"} : Returned(n, kind, i)
    BY <1>7 DEF SeqNext, SeqEnd, LoopNext, LoopEnd
  <2>2. /\ n \notin Leaves /\ Running(n) /\ i \in 1 .. Width(n) /\ Done(Child(n, i))
        /\ frame[n].round \in Nat /\ Width(n) \in Nat
    BY <1>1, <2>1, ReturnedChild, TreeOK DEF Returned
  <2>3. /\ 1 \in 1 .. Width(n) /\ (i < Width(n) => i + 1 \in 1 .. Width(n))
        /\ frame[n].round + 1 \in Nat /\ 0 \in Nat
    BY <2>2
  <2>4. CASE SeqNext(n)
    BY <1>3, <2>2, <2>3, <2>4 DEF SeqNext
  <2>5. CASE SeqEnd(n)
    BY <1>4, <2>2, <2>5 DEF SeqEnd
  <2>6. CASE LoopNext(n)
    BY <1>3, <2>2, <2>3, <2>6 DEF LoopNext
  <2>7. CASE LoopEnd(n)
    <3>1. GiveBack(n, i, IF ResultOf(n, i) = "exit" THEN "ok" ELSE ResultOf(n, i))
      BY <2>7 DEF LoopEnd
    <3> QED  BY <1>4, <2>2, <3>1
  <2> QED  BY <1>7, <2>4, <2>5, <2>6, <2>7
<1>8. CASE ParFork(n)
  <2>1. frame'[m] = IF m \in Children(n) THEN [NoFrame EXCEPT !.st = "run"]
                    ELSE IF m = n THEN [frame[n] EXCEPT !.at = 1]
                    ELSE frame[m]
    BY <1>8 DEF ParFork, TreeStep
  <2>2. CASE m \in Children(n)
    <3>1. frame'[m].st = "run" /\ frame'[m].via = Nil
      BY <2>1, <2>2 DEF NoFrame
    <3> QED  BY <2>2, <3>1 DEF Children
  <2>3. CASE m \notin Children(n) /\ m = n
    <3>1. frame[n] \in Frame /\ frame[n].st = "run" /\ n \notin Leaves
      BY <1>1, <1>8 DEF ParFork, Running, Leaves
    <3>2. [frame[n] EXCEPT !.at = 1].st = "run" /\ [frame[n] EXCEPT !.at = 1].at = 1
      BY <3>1 DEF Frame
    <3> QED  BY <2>1, <2>3, <3>1, <3>2 DEF Live
  <2> QED  BY <2>1, <2>2, <2>3
<1>9. CASE ParJoin(n) \/ ParFail(n)
  <2>1. PICK res \in {"ok", "err"} : Collect(n, res)
    BY <1>9 DEF ParJoin, ParFail
  <2>2. frame'[m] = IF m \in Children(n) /\ Done(m) THEN NoFrame
                    ELSE IF m = n THEN [frame[n] EXCEPT !.st = "done", !.res = res]
                    ELSE frame[m]
    BY <2>1 DEF Collect, TreeStep
  <2>3. [frame[n] EXCEPT !.st = "done", !.res = res].st = "done" /\ frame[n].st = "run"
    BY <1>1, <1>9 DEF Frame, ParJoin, ParFail, Running
  <2> QED  BY <2>2, <2>3 DEF Live, Done, NoFrame
<1>10. CASE Reap(n)
  BY <1>1, <1>10 DEF Reap, TreeStep, Leave, Done, Live, NoFrame
<1> QED  BY <1>5, <1>6, <1>7, <1>8, <1>9, <1>10 DEF CompositeStep

-----------------------------------------------------------------------------
(***************************************************************************)
(* What may happen while the tree is held up or follows a resume path.     *)
(***************************************************************************)

\* A step of a composite node keeps what is not an activation
LEMMA CompositeRest ==
    ASSUME NEW n \in Nodes, CompositeStep(n)
    PROVE  UNCHANGED <<state, conv, disk, main, held, told, broken, undecided, runVars>>
BY DEF CompositeStep, SeqStart, SeqNext, SeqEnd, LoopStart, LoopNext, LoopEnd,
       ParFork, ParJoin, ParFail, Reap, GoOn, GiveBack, Collect, TreeStep

\* While the tree is held up, only the way to the root is taken
LEMMA WaitMovesUp ==
    ASSUME PauseInv, NEW w \in Nodes, ~Free(w), Waits(frame, w),
           NEW n \in Nodes, CompositeStep(n)
    PROVE  /\ ~Free(n) /\ Waits(frame', n) /\ SeqEnd(n)
           /\ w = Child(n, frame[n].at) /\ Done(w) /\ Running(n)
<1>1. ShapeInv /\ IInv /\ Fits(frame) /\ frame \in [Nodes -> Frame]
  BY DEF PauseInv, ShapeInv, IInv, TypeOK
<1>2. Live(frame, w) /\ Bare(frame, w)
  BY <1>1, WaitFacts
<1>3. n # w
  <2> SUFFICES ASSUME n = w PROVE FALSE
    OBVIOUS
  <2>1. CASE frame[w].st = "mark"
    <3>1. w \in Leaves
      BY <1>1, <2>1 DEF Fits
    <3> QED  BY <2>1, <3>1 DEF CompositeStep, SeqStart, SeqNext, SeqEnd, LoopStart, LoopNext,
              LoopEnd, ParFork, ParJoin, ParFail, Reap, Returned, Running, Done
  <2>2. CASE frame[w].st = "done"
    <3>1. Reap(w)
      BY <2>2 DEF CompositeStep, SeqStart, SeqNext, SeqEnd, LoopStart, LoopNext,
              LoopEnd, ParFork, ParJoin, ParFail, Returned, Running
    <3>2. Parent(w) \in Nodes /\ w \in Below(Parent(w)) /\ ~Running(Parent(w))
      BY <3>1, ParentFacts DEF Reap
    <3>3. SpineOf(frame, w)
      BY <1>1 DEF Fits
    <3> QED  BY <1>2, <3>2, <3>3 DEF SpineOf, Running
  <2> QED  BY <2>1, <2>2 DEF Waits
<1>4. /\ w \in Below(n) /\ Returned(n, "sequential", frame[n].at)
      /\ w = Child(n, frame[n].at) /\ ~Free(n) /\ (SeqNext(n) \/ SeqEnd(n))
  BY <1>1, <1>2, <1>3, OnlyMover
<1>5. Done(w) /\ frame[w].res = "wait" /\ Running(n)
  BY <1>4 DEF Returned, Waits, Done
<1>6. SeqEnd(n)
  BY <1>4, <1>5 DEF SeqNext, ResultOf, Stops
<1>7. frame' = Return(Leave(frame, w), n, "wait") /\ n # w
  BY <1>4, <1>5, <1>6, BelowFacts DEF SeqEnd, GiveBack, TreeStep, ResultOf
<1>8. frame'[n].st = "done" /\ frame'[n].res = "wait"
  BY <1>1, <1>7 DEF Return, Leave, Frame
<1> QED  BY <1>4, <1>5, <1>6, <1>8 DEF Waits

\* While a resume path is followed, only its tip takes a step
LEMMA TipMoves ==
    ASSUME PauseInv, NEW t \in Nodes, Tip(frame, t), NEW n \in Nodes, CompositeStep(n) \/ LeafStep(n)
    PROVE  n = t
<1>1. ShapeInv /\ Live(frame, t) /\ Bare(frame, t) /\ ~Free(t)
  BY TipFacts DEF PauseInv
<1>2. ~Done(t)
  BY DEF Tip, Done
<1>3. n = t \/ (Returned(n, "sequential", frame[n].at) /\ t = Child(n, frame[n].at))
  BY <1>1, OnlyMover
<1> QED  BY <1>2, <1>3 DEF Returned

\* ... to the next node of the path
LEMMA TipAdvances ==
    ASSUME PauseInv, NEW t \in Nodes, Tip(frame, t), CompositeStep(t)
    PROVE  /\ SeqStart(t)
           /\ \E m \in Nodes : Tip(frame', m) /\ Target(frame', m) = Target(frame, t)
<1> DEFINE via == frame[t].via
<1>1. /\ t \notin Leaves /\ frame[t].st = "run"
  BY DEF CompositeStep, SeqStart, SeqNext, SeqEnd, LoopStart, LoopNext, LoopEnd, ParFork,
         ParJoin, ParFail, Reap, Returned, Leaves, Tip, Done
<1>2. /\ via \in Seq(Nat \ {0}) /\ via # <<>> /\ via # Nil /\ t \o via \in Nodes
      /\ Kind[t] = "sequential" /\ frame[t].at = 0
  BY <1>1, TipFacts DEF Tip
<1>3. SeqStart(t)
  BY <1>1, <1>2 DEF CompositeStep, SeqNext, SeqEnd, LoopStart, LoopNext, LoopEnd, ParFork,
         ParJoin, ParFail, Reap, Returned, Done
<1> DEFINE c == Child(t, Head(via))
           r == [NoFrame EXCEPT !.st = "run", !.via = Tail(via)]
           f == [frame EXCEPT ![t].at = Head(via)]
<1>4. frame' = Enter(f, c, Tail(via))
  BY <1>2, <1>3 DEF SeqStart, TreeStep
<1>5. /\ Head(via) \in 1 .. Width(t) /\ Tail(via) \in Seq(Nat \ {0})
      /\ c \o Tail(via) = t \o via
  BY <1>1, <1>2, PathStep
<1>6. c \in Nodes /\ Tail(via) # Nil
  BY <1>1, <1>5, ChildIsNode, NilIsNoPath
<1>7. r.st = "run" /\ r.via = Tail(via) /\ r.at = 0
  BY DEF NoFrame
<1>8. f = [x \in Nodes |-> f[x]]
  BY DEF PauseInv, ShapeInv, IInv, TypeOK
<1> HIDE DEF r, f
<1>9. frame'[c] = r
  BY <1>4, <1>6, <1>8 DEF Enter, r
<1>10. Tip(frame', c) /\ Target(frame', c) = Target(frame, t)
  BY <1>5, <1>6, <1>7, <1>9 DEF Tip, Target
<1> QED  BY <1>3, <1>6, <1>10

\* Steps of composite nodes
LEMMA PauseComposite ==
    ASSUME PauseInv, NEW n \in Nodes, CompositeStep(n)
    PROVE  PauseInv'
<1>1. ShapeInv /\ ShapeInv' /\ IInv /\ PausedTree /\ ResumedTree /\ Matching
  BY ShapeStep DEF PauseInv, Next, ServerStep, ShapeInv
<1>2. UNCHANGED <<state, conv, disk, main, held, told, broken, undecided, runVars>>
  BY CompositeRest
<1>3. InTree' = InTree
  BY <1>2 DEF InTree
<1>4. ASSUME NEW m \in Nodes
      PROVE  /\ frame'[m].st = "mark" => frame[m].st = "mark"
             /\ Tip(frame', m) =>
                  \/ Tip(frame, m) /\ Target(frame', m) = Target(frame, m)
                  \/ Tip(frame, n) /\ Target(frame', m) = Target(frame, n)
             /\ m = Root /\ Live(frame', m) => Live(frame, m)
  <2>1. \/ frame'[m] = frame[m]
        \/ Live(frame, m) /\ frame'[m].st \in {"idle", "done"}
        \/ Live(frame, m) /\ m \notin Leaves /\ frame'[m].st = "run" /\ frame'[m].at > 0
        \/ m # Root /\ frame'[m].st = "run" /\ frame'[m].via = Nil
        \/ /\ m # Root /\ SeqStart(n) /\ Tip(frame, n)
           /\ frame'[m].st = "run" /\ frame'[m].via # Nil
           /\ Target(frame', m) = Target(frame, n)
    BY <1>1, CompositeFrames, Zenon
  <2>2. frame'[m].st = "mark" => frame[m].st = "mark"
    BY <2>1
  <2>3. ASSUME Tip(frame', m)
        PROVE  \/ Tip(frame, m) /\ Target(frame', m) = Target(frame, m)
               \/ Tip(frame, n) /\ Target(frame', m) = Target(frame, n)
    <3>1. frame'[m].st = "run" /\ frame'[m].via # Nil /\ (m \in Leaves \/ frame'[m].at = 0)
      BY <2>3 DEF Tip
    <3>2. CASE frame'[m] = frame[m]
      BY <3>1, <3>2 DEF Tip, Target
    <3>3. CASE frame'[m] # frame[m]
      <4>1. frame'[m].at > 0 => frame'[m].at # 0
        OBVIOUS
      <4> QED  BY <2>1, <3>1, <3>3, <4>1
    <3> QED  BY <3>2, <3>3
  <2>4. m = Root /\ Live(frame', m) => Live(frame, m)
    BY <2>1 DEF Live
  <2> QED  BY <2>2, <2>3, <2>4
<1>5. PausedTree'
  <2>1. Live(frame', Root) => InTree
    BY <1>1, <1>4, TreeOK DEF PausedTree
  <2>2. \A m \in Nodes : frame'[m].st = "mark" => ~Free(m) /\ InTree /\ conv.pending # Nil
    BY <1>1, <1>4 DEF PausedTree
  <2>3. InTree /\ conv.pending # Nil => \E w \in Nodes : ~Free(w) /\ Waits(frame', w)
    BY <1>1, WaitMovesUp DEF PausedTree
  <2> QED  BY <1>2, <1>3, <2>1, <2>2, <2>3 DEF PausedTree
<1>6. ResumedTree'
  <2> SUFFICES ASSUME NEW m \in Nodes, Tip(frame', m)
               PROVE  /\ Target(frame', m) \in Leaves /\ ~Free(Target(frame', m))
                      /\ main = "resume" /\ conv.pending = Nil
    BY <1>2 DEF ResumedTree
  <2>1. PICK t \in Nodes : Tip(frame, t) /\ Target(frame', m) = Target(frame, t)
    BY <1>4
  <2> QED  BY <1>1, <2>1 DEF ResumedTree
<1>7. Matching'
  <2> SUFFICES ASSUME InTree, state # conv.outs
               PROVE  \E m \in Nodes : /\ Tip(frame', m)
                         /\ state \cup {Target(frame', m)} = conv.outs \cup {Target(frame', m)}
    BY <1>2, <1>3 DEF Matching
  <2>1. PICK t \in Nodes : /\ Tip(frame, t)
                           /\ state \cup {Target(frame, t)} = conv.outs \cup {Target(frame, t)}
    BY <1>1 DEF Matching
  <2>2. n = t
    BY <2>1, TipMoves
  <2>3. PICK m \in Nodes : Tip(frame', m) /\ Target(frame', m) = Target(frame, t)
    BY <2>1, <2>2, TipAdvances
  <2> QED  BY <2>1, <2>3
<1>8. Kept(disk)' /\ (InTree' => Kept(conv)') /\ InHand'
  BY <1>2, <1>3 DEF PauseInv, Kept, InHand
<1> QED  BY <1>1, <1>5, <1>6, <1>7, <1>8 DEF PauseInv

\* A leaf that takes its turn finds the tree neither held up nor following a path
LEMMA TurnFacts ==
    ASSUME PauseInv, NEW n \in Nodes, LeafStep(n), InTurn(n)
    PROVE  /\ \A t \in Nodes : ~Tip(frame, t)
           /\ InTree => conv.pending = Nil /\ conv.pipe = Nil /\ state = conv.outs
           /\ ~Free(n) => InTree
<1>1. ShapeInv /\ PausedTree /\ n \in Leaves /\ frame[n].st = "run"
  BY DEF PauseInv, InTurn, Running
<1>2. ASSUME NEW t \in Nodes, Tip(frame, t) PROVE FALSE
  <2>1. n = t
    BY <1>2, TipMoves
  <2>2. frame[n].via = <<>>
    BY <1>1, <1>2, <2>1, TipFacts
  <2> QED  BY <2>2 DEF InTurn
<1>3. ASSUME InTree, conv.pending # Nil PROVE FALSE
  <2>1. PICK w \in Nodes : ~Free(w) /\ Waits(frame, w)
    BY <1>1, <1>3 DEF PausedTree
  <2>2. n = w \/ Kind[n] = "sequential"
    BY <1>1, <2>1, WaitFacts, OnlyMover
  <2> QED  BY <1>1, <2>1, <2>2 DEF Leaves, Waits
<1>4. ~Free(n) => InTree
  <2> SUFFICES ASSUME ~Free(n) PROVE Live(frame, Root)
    BY <1>1 DEF PausedTree
  <2> QED  BY <1>1, SpineToRoot DEF Live, Running
<1> QED  BY <1>2, <1>3, <1>4 DEF PauseInv, Matching, Kept

\* A leaf that returns or goes on leaves the other activations as they are
LEMMA LeafFrames ==
    ASSUME PauseInv, NEW n \in Nodes, LeafStep(n)
    PROVE  /\ \A m \in Nodes \ {n} :
                 /\ frame'[m] = frame[m]
                 /\ Tip(frame', m) <=> Tip(frame, m)
                 /\ Target(frame', m) = Target(frame, m)
           /\ frame'[n].st \in {"mark", "done"} /\ ~Tip(frame', n)
           /\ Live(frame', Root) => Live(frame, Root)
           /\ main' = main /\ InTree' = InTree /\ held' = held
           /\ InTree => n \in Leaves
           /\ main \notin {"exec", "proxy", "loop"}
           /\ ShapeInv'
<1>1. ShapeInv /\ IInv /\ IInv' /\ ShapeInv' /\ Fits(frame) /\ frame \in [Nodes -> Frame]
  BY ShapeStep DEF PauseInv, Next, ServerStep, ShapeInv, IInv, TypeOK
<1>2. n \in Leaves /\ Live(frame, n) /\ \A m \in Nodes \ {n} : frame'[m] = frame[m]
  BY <1>1, LeafFits
<1>3. frame'[n].st \in {"mark", "done"}
  <2>1. CASE LeafProxies(n)
    <3>1. frame' = [frame EXCEPT ![n] = [frame[n] EXCEPT !.st = "mark"]]
      BY <2>1 DEF LeafProxies
    <3>2. [frame[n] EXCEPT !.st = "mark"].st = "mark"
      BY <1>1 DEF Frame
    <3> QED  BY <1>1, <3>1, <3>2
  <2>2. CASE ~LeafProxies(n)
    <3>1. \E res \in {"ok", "exit", "auth", "wait", "err"} : frame' = Return(frame, n, res)
      BY <2>2 DEF LeafStep, LeafError, LeafExits, LeafNeedsAuth, LeafOutput, LeafAsks,
           MarkProxy, LeafResumes, LeafEnds, NoClient, TreeStep
    <3>2. PICK res \in {"ok", "exit", "auth", "wait", "err"} : frame' = Return(frame, n, res)
      BY <3>1
    <3>3. frame'[n] = [frame[n] EXCEPT !.st = "done", !.res = res]
      BY <1>1, <3>2 DEF Return
    <3>4. frame'[n].st = "done"
      BY <1>1, <3>3 DEF Frame
    <3> QED  BY <3>4
  <2> QED  BY <2>1, <2>2
<1>4. main' = main /\ held' = held
  BY DEF LeafStep, NoClient, TreeStep, LeafError, LeafExits, LeafNeedsAuth, LeafOutput,
         LeafAsks, LeafProxies, MarkProxy, LeafResumes, LeafEnds, SameRequest
<1>5. main \notin {"exec", "proxy", "loop"}
  BY <1>1, <1>2 DEF IInv, Resolving, Quiet, Live
<1> QED  BY <1>1, <1>2, <1>3, <1>4, <1>5, TreeOK DEF Tip, Target, Live, InTree

-----------------------------------------------------------------------------
(***************************************************************************)
(* Leaves keep the invariant of pause and resume.                          *)
(***************************************************************************)

\* What is left to show of a leaf that returns or goes on
LEMMA LeafLeaves ==
    ASSUME PauseInv, NEW n \in Nodes, LeafStep(n),
           \A t \in Nodes \ {n} : ~Tip(frame, t),
           InTree => state' = conv'.outs,
           frame'[n].st = "mark" => ~Free(n) /\ InTree /\ conv'.pending # Nil,
           InTree /\ conv.pending # Nil => conv'.pending # Nil,
           InTree /\ conv'.pending # Nil => ~Free(n) /\ Waits(frame', n),
           Kept(disk)', InTree => Kept(conv)'
    PROVE  PauseInv'
<1>1. PausedTree /\ ShapeInv' /\ InTree' = InTree /\ main' \notin {"exec", "proxy", "loop"}
  BY LeafFrames DEF PauseInv
<1>2. PausedTree'
  <2>1. Live(frame', Root) => InTree
    BY <1>1, LeafFrames DEF PausedTree
  <2>2. \A m \in Nodes : frame'[m].st = "mark" => ~Free(m) /\ InTree /\ conv'.pending # Nil
    BY <1>1, LeafFrames DEF PausedTree
  <2> QED  BY <1>1, <2>1, <2>2 DEF PausedTree
<1>3. \A m \in Nodes : ~Tip(frame', m)
  BY LeafFrames
<1>4. ResumedTree' /\ Matching'
  BY <1>1, <1>3 DEF ResumedTree, Matching
<1> QED  BY <1>1, <1>2, <1>4 DEF PauseInv, InHand

\* A turn that ends without an approval
LEMMA TurnPause ==
    ASSUME PauseInv, NEW n \in Nodes,
           NoClient(n) \/ LeafError(n) \/ LeafExits(n) \/ LeafNeedsAuth(n) \/ LeafOutput(n)
    PROVE  PauseInv'
<1>1. LeafStep(n) /\ InTurn(n)
  BY DEF LeafStep, NoClient, LeafError, LeafExits, LeafNeedsAuth, LeafOutput, MayAct, TakesTurn
<1>2. frame \in [Nodes -> Frame] /\ conv \in ConversationRecord /\ Kept(disk)
  BY DEF PauseInv, ShapeInv, IInv, TypeOK
<1>3. PICK res \in Results : frame' = Return(frame, n, res)
  BY DEF NoClient, LeafError, LeafExits, LeafNeedsAuth, LeafOutput, LeafEnds, TreeStep, Results
<1>4. frame'[n].st = "done"
  BY <1>2, <1>3 DEF Return, Frame
<1>5. /\ disk' = disk /\ conv'.pending = conv.pending /\ conv'.pipe = conv.pipe
      /\ \/ state' = state /\ conv'.outs = conv.outs
         \/ state' = state \cup {n} /\ conv'.outs = conv.outs \cup {n}
  BY <1>2 DEF NoClient, LeafError, LeafExits, LeafNeedsAuth, LeafOutput, LeafEnds, TreeStep,
              Counted, ConversationRecord
<1>6. /\ \A t \in Nodes : ~Tip(frame, t)
      /\ InTree => conv.pending = Nil /\ conv.pipe = Nil /\ state = conv.outs
  BY <1>1, TurnFacts
<1>7. Kept(disk)' /\ (InTree => Kept(conv)')
  BY <1>2, <1>5, <1>6 DEF Kept
<1> QED  BY <1>1, <1>4, <1>5, <1>6, <1>7, LeafLeaves

\* The transcript that a pause stores
LEMMA PausedKept ==
    ASSUME conv \in ConversationRecord, NEW n \in Leaves, ~Free(n), state = conv.outs,
           conv' = Paused(n), SaveConversation(conv')
    PROVE  conv'.pending # Nil /\ conv'.outs = conv.outs /\ Kept(conv)' /\ Kept(disk)'
<1>1. /\ conv'.pending = [node |-> n, remote |-> FALSE] /\ conv'.outs = conv.outs
      /\ conv'.pipe = [path |-> n, state |-> state]
  BY DEF Paused, Counted, ConversationRecord
<1>2. conv'.pending \in Pending
  BY <1>1 DEF Pending
<1>3. conv'.pending # Nil
  BY <1>2, NilIsNoRecord
<1>4. Kept(conv)' /\ disk' = conv'
  BY <1>1, <1>3 DEF Kept, SaveConversation
<1> QED  BY <1>1, <1>3, <1>4 DEF Kept

\* A turn that ends with an approval, or goes on to ask for one
LEMMA AskPause ==
    ASSUME RemotesUnshared, PauseInv, NEW n \in Nodes, LeafAsks(n) \/ LeafProxies(n)
    PROVE  PauseInv'
<1>1. LeafStep(n) /\ InTurn(n) /\ n \in Leaves
  BY DEF LeafStep, LeafAsks, LeafProxies, MayAct, TakesTurn, InTurn
<1>2. frame \in [Nodes -> Frame] /\ conv \in ConversationRecord
  BY DEF PauseInv, ShapeInv, IInv, TypeOK
<1>3. ~Free(n)
  BY DEF RemotesUnshared, LeafAsks, LeafProxies
<1>4. /\ \A t \in Nodes : ~Tip(frame, t)
      /\ InTree /\ conv.pending = Nil /\ state = conv.outs
  BY <1>1, <1>3, TurnFacts
<1>5. conv' = Paused(n) /\ SaveConversation(conv') /\ state' = state
  BY DEF LeafAsks, LeafProxies
<1>6. conv'.pending # Nil /\ conv'.outs = conv.outs /\ Kept(conv)' /\ Kept(disk)'
  BY <1>1, <1>2, <1>3, <1>4, <1>5, PausedKept
<1>7. Waits(frame', n)
  <2>1. CASE LeafAsks(n)
    <3>1. frame'[n] = [frame[n] EXCEPT !.st = "done", !.res = "wait"]
      BY <1>2, <2>1 DEF LeafAsks, Return
    <3>2. frame'[n].st = "done" /\ frame'[n].res = "wait"
      BY <1>2, <3>1 DEF Frame
    <3> QED  BY <3>2 DEF Waits
  <2>2. CASE LeafProxies(n)
    <3>1. frame' = [frame EXCEPT ![n] = [frame[n] EXCEPT !.st = "mark"]]
      BY <2>2 DEF LeafProxies
    <3>2. [frame[n] EXCEPT !.st = "mark"].st = "mark"
      BY <1>2 DEF Frame
    <3> QED  BY <1>2, <3>1, <3>2 DEF Waits
  <2> QED  BY <2>1, <2>2
<1> QED  BY <1>1, <1>3, <1>4, <1>5, <1>6, <1>7, LeafLeaves

\* The remote task is saved in the pending approval
LEMMA MarkPause ==
    ASSUME PauseInv, NEW n \in Nodes, MarkProxy(n)
    PROVE  PauseInv'
<1>1. LeafStep(n)
  BY DEF LeafStep
<1>2. frame \in [Nodes -> Frame] /\ conv \in ConversationRecord
  BY DEF PauseInv, ShapeInv, IInv, TypeOK
<1>3. ~Free(n) /\ InTree /\ conv.pending # Nil
  BY DEF PauseInv, PausedTree, MarkProxy
<1>4. \A t \in Nodes : ~Tip(frame, t)
  BY <1>3 DEF PauseInv, ResumedTree
<1>5. conv.pending \in Pending
  BY <1>2, <1>3 DEF ConversationRecord
<1>6. conv' = [conv EXCEPT !.pending = [conv.pending EXCEPT !.remote = TRUE]]
  BY DEF MarkProxy
<1>7. /\ conv'.pending \in Pending /\ conv'.outs = conv.outs /\ conv'.pipe = conv.pipe
  BY <1>2, <1>5, <1>6 DEF ConversationRecord, Pending
<1>8. conv'.pending # Nil
  BY <1>7, NilIsNoRecord
<1>9. Kept(conv)' /\ disk' = conv' /\ state' = state
  BY <1>3, <1>7, <1>8 DEF Kept, PauseInv, MarkProxy, SaveConversation
<1>10. Kept(disk)'
  BY <1>9 DEF Kept
<1>11. frame'[n] = [frame[n] EXCEPT !.st = "done", !.res = "wait"]
  BY <1>2 DEF MarkProxy, Return
<1>12. frame'[n].st = "done" /\ frame'[n].res = "wait"
  BY <1>2, <1>11 DEF Frame
<1>13. state = conv.outs
  BY <1>3, <1>4 DEF PauseInv, Matching
<1> QED  BY <1>1, <1>3, <1>4, <1>7, <1>8, <1>9, <1>10, <1>12, <1>13, LeafLeaves DEF Waits

\* The paused leaf has its output on both sides again
LEMMA ResumePause ==
    ASSUME PauseInv, NEW n \in Nodes, LeafResumes(n)
    PROVE  PauseInv'
<1>1. LeafStep(n) /\ n \in Leaves /\ frame[n].st = "run" /\ frame[n].via = <<>>
  BY DEF LeafStep, LeafResumes, Running
<1>2. /\ frame \in [Nodes -> Frame] /\ conv \in ConversationRecord
      /\ Kept(disk) /\ (InTree => Kept(conv))
  BY DEF PauseInv, ShapeInv, IInv, TypeOK
<1>3. Tip(frame, n)
  BY <1>1, NilIsNoPath, EmptySeq DEF Tip
<1>4. n \o <<>> = n
  BY NodesAreSequences, ConcatEmptySeq, Zenon
<1>5. Target(frame, n) = n
  BY <1>1, <1>4 DEF Target
<1>6. main = "resume" /\ conv.pending = Nil /\ InTree
  BY <1>3 DEF PauseInv, ResumedTree, InTree
<1>7. \A t \in Nodes \ {n} : ~Tip(frame, t)
  BY <1>1, TipMoves
<1>8. state = conv.outs \/ state \cup {n} = conv.outs \cup {n}
  BY <1>5, <1>6, <1>7 DEF PauseInv, Matching
<1>9. /\ state' = state \cup {n} /\ conv'.outs = conv.outs \cup {n} /\ disk' = disk
      /\ conv'.pending = conv.pending /\ conv'.pipe = conv.pipe
  BY <1>2, <1>6 DEF LeafResumes, ConversationRecord
<1>10. state' = conv'.outs
  BY <1>8, <1>9
<1>11. frame'[n] = [frame[n] EXCEPT !.st = "done", !.res = "ok"]
  BY <1>2, <1>6 DEF LeafResumes, Return
<1>12. frame'[n].st = "done"
  BY <1>2, <1>6, <1>11 DEF Frame
<1>13. Kept(disk)' /\ Kept(conv)'
  BY <1>2, <1>6, <1>9 DEF Kept
<1> QED  BY <1>1, <1>6, <1>7, <1>9, <1>10, <1>12, <1>13, LeafLeaves

\* Steps of leaves
LEMMA PauseLeaf ==
    ASSUME RemotesUnshared, PauseInv, NEW n \in Nodes, LeafStep(n)
    PROVE  PauseInv'
BY TurnPause, AskPause, MarkPause, ResumePause DEF LeafStep

-----------------------------------------------------------------------------
(***************************************************************************)
(* Requests keep it.                                                       *)
(***************************************************************************)

\* A record that is saved is stored as it is, or with nothing to wait for
LEMMA SavedKept ==
    ASSUME NEW c, Kept(c), SaveConversation(c)
    PROVE  Kept(disk)'
BY DEF Kept, SaveConversation, NewConversation

\* What is left to show where no tree runs after a step
LEMMA OutOfTree ==
    ASSUME PauseInv, [Next]_vars, ~InTree', Kept(disk)', InHand',
           \A m \in Nodes : frame'[m].st # "mark" /\ ~Tip(frame', m),
           ~Live(frame', Root)
    PROVE  PauseInv'
<1>1. ShapeInv'
  BY ShapeStep DEF PauseInv
<1> QED  BY <1>1 DEF PauseInv, PausedTree, ResumedTree, Matching

\* The same where nothing runs, and nothing begins
LEMMA StaysQuiet ==
    ASSUME PauseInv, [Next]_vars, Quiet, frame' = frame, ~InTree', Kept(disk)', InHand'
    PROVE  PauseInv'
<1>1. \A m \in Nodes : frame'[m].st = "idle"
  BY DEF Quiet
<1>2. \A m \in Nodes : frame'[m].st # "mark" /\ ~Tip(frame', m)
  BY <1>1 DEF Tip
<1> QED  BY <1>1, <1>2, OutOfTree, TreeOK DEF Live

\* When the root has returned, no node holds up the tree or follows a path
LEMMA RootDoneFacts ==
    ASSUME PauseInv, Done(Root)
    PROVE  \A m \in Nodes : frame[m].st # "mark" /\ ~Tip(frame, m)
<1> SUFFICES ASSUME NEW m \in Nodes, frame[m].st = "mark" \/ Tip(frame, m) PROVE FALSE
  OBVIOUS
<1>1. Live(frame, m) /\ m # Root
  BY DEF Live, Tip, Done
<1>2. ~Free(m)
  BY TipFacts DEF PauseInv, PausedTree
<1>3. Running(Root)
  BY <1>1, <1>2, SpineToRoot DEF PauseInv
<1> QED  BY <1>3 DEF Running, Done

\* The tree has returned
LEMMA ReturnPause ==
    ASSUME PauseInv, [Next]_vars, MessageDone \/ ResumeDone \/ ResumeFails
    PROVE  PauseInv'
<1>1. Done(Root) /\ frame' = Leave(frame, Root) /\ main' = "idle" /\ InTree
  BY DEF MessageDone, ResumeDone, ResumeFails, Answer, InTree
<1>2. frame \in [Nodes -> Frame] /\ Root \in Nodes
  BY TreeOK DEF PauseInv, ShapeInv, IInv, TypeOK
<1>3. frame'[Root] = NoFrame /\ \A m \in Nodes \ {Root} : frame'[m] = frame[m]
  BY <1>1, <1>2 DEF Leave
<1>4. ~Live(frame', Root)
  BY <1>3 DEF Live, NoFrame
<1>5. \A m \in Nodes : frame'[m].st # "mark" /\ ~Tip(frame', m)
  BY <1>1, <1>3, <1>4, RootDoneFacts DEF Tip, Live
<1>6. Kept(disk)'
  <2>1. CASE ResumeFails
    BY <2>1 DEF ResumeFails, PauseInv, Kept
  <2>2. CASE MessageDone \/ ResumeDone
    BY <1>1, <2>2, SavedKept DEF MessageDone, ResumeDone, PauseInv
  <2> QED  BY <2>1, <2>2
<1>7. ~InTree' /\ InHand'
  BY <1>1 DEF InTree, InHand
<1> QED  BY <1>4, <1>5, <1>6, <1>7, OutOfTree

\* A client calls
LEMMA ClientPause ==
    ASSUME PauseInv, [Next]_vars, ClientStep
    PROVE  PauseInv'
<1>1. frame \in [Nodes -> Frame] /\ disk \in ConversationRecord /\ Kept(disk) /\ Root \in Nodes
  BY TreeOK DEF PauseInv, ShapeInv, IInv, TypeOK
<1>2. Quiet
  BY DEF ClientStep, Message, Blocked, Approve, Reject, MaySend
<1>3. CASE Message
  <2> DEFINE r == [NoFrame EXCEPT !.st = "run", !.via = Nil]
  <2>1. r.st = "run" /\ r.via = Nil /\ frame' = [frame EXCEPT ![Root] = r]
    BY <1>3 DEF Message, Enter, NoFrame
  <2> HIDE DEF r
  <2>2. frame'[Root] = r /\ \A m \in Nodes \ {Root} : frame'[m].st = "idle"
    BY <1>1, <1>2, <2>1 DEF Quiet
  <2>3. \A m \in Nodes : frame'[m].st # "mark" /\ ~Tip(frame', m)
    BY <2>1, <2>2 DEF Tip
  <2>4. /\ conv'.pending = Nil /\ conv'.pipe = Nil /\ conv'.outs = {} /\ state' = {}
        /\ main' = "run" /\ disk' = disk
    BY <1>1, <1>3 DEF Message, ConversationRecord, Kept
  <2>5. PausedTree' /\ ResumedTree' /\ Matching' /\ Kept(conv)' /\ Kept(disk)' /\ InHand'
    BY <1>1, <2>3, <2>4 DEF PausedTree, ResumedTree, Matching, Kept, InHand, InTree
  <2>6. ShapeInv'
    BY ShapeStep DEF PauseInv
  <2> QED  BY <2>5, <2>6 DEF PauseInv
<1>4. CASE Blocked
  <2>1. main' = "idle" /\ frame' = frame /\ disk' = disk
    BY <1>4 DEF Blocked, Answer, treeVars
  <2>2. ~InTree' /\ InHand' /\ Kept(disk)'
    BY <1>1, <2>1 DEF InTree, InHand, Kept
  <2> QED  BY <1>2, <2>1, <2>2, StaysQuiet
<1>5. CASE Approve
  <2>1. /\ main' \in {"exec", "proxy"} /\ frame' = frame /\ disk' = disk
        /\ held' = [pending |-> disk.pending, pipe |-> disk.pipe]
        /\ conv'.pending = Nil /\ conv'.pipe = Nil /\ conv'.outs = disk.outs
    BY <1>1, <1>5 DEF Approve, Resolved, ConversationRecord, treeVars
  <2>2. ~InTree' /\ Kept(disk)'
    BY <1>1, <2>1 DEF InTree, Kept
  <2>3. InHand'
    BY <1>1, <2>1 DEF InHand, Kept
  <2> QED  BY <1>2, <2>1, <2>2, <2>3, StaysQuiet
<1>6. CASE Reject
  <2>1. main' = "idle" /\ frame' = frame /\ conv'.pending = Nil /\ conv'.pipe = Nil
    BY <1>1, <1>6 DEF Reject, Answer, Resolved, ConversationRecord, treeVars
  <2>2. ~InTree' /\ InHand' /\ Kept(conv)'
    BY <2>1 DEF InTree, InHand, Kept
  <2>3. Kept(conv')
    BY <2>2 DEF Kept
  <2>4. Kept(disk)'
    BY <1>6, <2>3, SavedKept DEF Reject
  <2> QED  BY <1>2, <2>1, <2>2, <2>4, StaysQuiet
<1> QED  BY <1>3, <1>4, <1>5, <1>6 DEF ClientStep

\* The approved action has its result: the tree is run again along the stored path
LEMMA ContinuePause ==
    ASSUME PauseInv, [Next]_vars, main \in {"exec", "proxy"},
           NEW outputs, Continue(outputs), held.pipe # Nil => outputs \subseteq {held.pipe.path},
           UNCHANGED <<conv, disk, held>>
    PROVE  PauseInv'
<1>1. /\ frame \in [Nodes -> Frame] /\ Kept(disk) /\ Root \in Nodes /\ Quiet
      /\ held \in [pending : Pending \cup {Nil}, pipe : PipelineState \cup {Nil}]
  BY TreeOK DEF PauseInv, ShapeInv, IInv, TypeOK, Resolving
<1>2. /\ conv.pending = Nil /\ conv.pipe = Nil
      /\ held.pipe # Nil => ~Free(held.pipe.path) /\ held.pipe.state = conv.outs
  BY DEF PauseInv, InHand
<1>3. CASE held.pipe = Nil
  <2>1. main' = "loop" /\ frame' = frame
    BY <1>3 DEF Continue, treeVars
  <2>2. ~InTree' /\ InHand' /\ Kept(disk)'
    BY <1>1, <1>2, <2>1 DEF InTree, InHand, Kept
  <2> QED  BY <1>1, <2>1, <2>2, StaysQuiet
<1>4. CASE held.pipe # Nil
  <2> DEFINE path == held.pipe.path
             r == [NoFrame EXCEPT !.st = "run", !.via = path]
  <2>1. path \in Leaves /\ path \in Seq(Nat \ {0}) /\ path # Nil
    BY <1>1, <1>4, NodesAreSequences, NilIsNoPath DEF PipelineState, Leaves
  <2>2. /\ main' = "resume" /\ state' = held.pipe.state \cup outputs
        /\ frame' = [frame EXCEPT ![Root] = r]
    BY <1>4 DEF Continue, Enter
  <2>3. r.st = "run" /\ r.at = 0 /\ r.via = path
    BY DEF NoFrame
  <2>4. Root \o path = path
    BY <2>1, ConcatEmptySeq, Zenon DEF Root
  <2> HIDE DEF r
  <2>5. frame'[Root] = r /\ \A m \in Nodes \ {Root} : frame'[m].st = "idle"
    BY <1>1, <2>2 DEF Quiet
  <2>6. /\ Tip(frame', Root) /\ Target(frame', Root) = path
        /\ \A m \in Nodes : frame'[m].st # "mark" /\ (Tip(frame', m) => m = Root)
    BY <2>1, <2>3, <2>4, <2>5 DEF Tip, Target
  <2>7. PausedTree'
    BY <1>2, <2>2, <2>6 DEF PausedTree, InTree
  <2>8. ResumedTree'
    BY <1>2, <1>4, <2>1, <2>2, <2>6 DEF ResumedTree
  <2>9. Matching'
    <3>1. state' \cup {path} = conv.outs \cup {path}
      BY <1>2, <1>4, <2>2
    <3> QED  BY <1>1, <2>6, <3>1 DEF Matching
  <2>10. Kept(disk)' /\ Kept(conv)' /\ InHand'
    BY <1>1, <1>2, <2>2 DEF Kept, InHand
  <2>11. ShapeInv'
    BY ShapeStep DEF PauseInv
  <2> QED  BY <2>7, <2>8, <2>9, <2>10, <2>11 DEF PauseInv
<1> QED  BY <1>3, <1>4

\* Steps of ResolveApproval
LEMMA ResolvePause ==
    ASSUME PauseInv, [Next]_vars, RequestStep, ~(MessageDone \/ ResumeDone \/ ResumeFails)
    PROVE  PauseInv'
<1>1. main \in {"exec", "proxy", "loop"}
  BY DEF RequestStep, ExecReturns, ExecAsks, ExecFails, ExecNeedsAuth, ProxyReturns, ProxyFails,
         ProxyNeedsAuth, ProxyAsksAgain, SimpleLoopEnds, SimpleLoopAsks
<1>2. /\ conv \in ConversationRecord /\ Kept(disk) /\ Kept(conv) /\ Quiet
      /\ conv.pending = Nil /\ conv.pipe = Nil
  BY <1>1 DEF PauseInv, InHand, Kept, ShapeInv, IInv, TypeOK, Resolving
<1>3. ASSUME frame' = frame, main' = "idle", Kept(disk)' PROVE PauseInv'
  BY <1>2, <1>3, StaysQuiet DEF InTree, InHand
<1>4. CASE ExecReturns \/ ExecAsks \/ ProxyReturns
  <2>1. PICK outputs : /\ Continue(outputs)
                       /\ held.pipe # Nil => outputs \subseteq {held.pipe.path}
    <3>1. CASE ExecReturns \/ ExecAsks
      BY <3>1 DEF ExecReturns, ExecAsks
    <3>2. CASE ProxyReturns
      BY <3>2 DEF ProxyReturns
    <3> QED  BY <1>4, <3>1, <3>2
  <2>2. UNCHANGED <<conv, disk, held>> /\ main \in {"exec", "proxy"}
    BY <1>4 DEF ExecReturns, ExecAsks, ProxyReturns
  <2> QED  BY <2>1, <2>2, ContinuePause
<1>5. CASE ResolutionFails
  BY <1>2, <1>3, <1>5 DEF ResolutionFails, Answer, treeVars, Kept
<1>6. CASE ExecFails /\ ~ResolutionFails
  <2>1. main' = "loop" /\ frame' = frame /\ conv' = conv /\ disk' = disk
    BY <1>6 DEF ExecFails, treeVars
  <2>2. ~InTree' /\ InHand' /\ Kept(disk)'
    BY <1>2, <2>1 DEF InTree, InHand, Kept
  <2> QED  BY <1>2, <2>1, <2>2, StaysQuiet
<1>7. CASE ExecNeedsAuth \/ ProxyNeedsAuth \/ SimpleLoopEnds
  <2>1. SaveConversation(conv) /\ frame' = frame /\ main' = "idle"
    BY <1>7 DEF ExecNeedsAuth, ProxyNeedsAuth, SimpleLoopEnds, ResolutionNeedsAuth, Answer, treeVars
  <2> QED  BY <1>2, <1>3, <2>1, SavedKept
<1>8. CASE ProxyAsksAgain \/ SimpleLoopAsks
  <2>1. SaveConversation(conv') /\ frame' = frame /\ main' = "idle"
    BY <1>8 DEF ProxyAsksAgain, SimpleLoopAsks, Answer, treeVars
  <2>2. conv'.pipe = Nil
    BY <1>2, <1>8 DEF ProxyAsksAgain, SimpleLoopAsks, ConversationRecord
  <2>3. Kept(conv')
    BY <2>2 DEF Kept
  <2> QED  BY <1>3, <2>1, <2>3, SavedKept
<1> QED  BY <1>4, <1>5, <1>6, <1>7, <1>8 DEF RequestStep, ProxyFails

\* Every step keeps the invariant
LEMMA PauseStep ==
    ASSUME RemotesUnshared
    PROVE  PauseInv /\ [Next]_vars => PauseInv'
<1> SUFFICES ASSUME PauseInv, [Next]_vars PROVE PauseInv'
  OBVIOUS
<1>1. CASE UNCHANGED vars
  <2>1. ShapeInv'
    BY ShapeStep DEF PauseInv
  <2>2. UNCHANGED <<frame, state, conv, disk, main, held>>
    BY <1>1 DEF vars
  <2> QED  BY <2>1, <2>2 DEF PauseInv, PausedTree, ResumedTree, Matching, Kept, InHand, InTree
<1>2. ASSUME NEW n \in Nodes, CompositeStep(n) \/ LeafStep(n) PROVE PauseInv'
  BY <1>2, PauseComposite, PauseLeaf
<1>3. CASE RequestStep
  BY <1>3, ReturnPause, ResolvePause
<1>4. CASE ClientStep
  BY <1>4, ClientPause
<1> QED  BY <1>1, <1>2, <1>3, <1>4 DEF Next, ServerStep

\* It holds at the beginning
LEMMA InitPause == Init => PauseInv
<1> SUFFICES ASSUME Init PROVE PauseInv
  OBVIOUS
<1>1. ShapeInv /\ \A n \in Nodes : frame[n].st = "idle"
  BY InitShape DEF Init, NoFrame
<1>2. main = "idle" /\ disk.pending = Nil /\ disk.pipe = Nil
  BY DEF Init, NewConversation
<1> QED  BY <1>1, <1>2, TreeOK DEF PauseInv, PausedTree, ResumedTree, Matching, Kept, InHand,
            InTree, Live, Tip

\* ... and always
LEMMA PauseAlways == ASSUME RemotesUnshared PROVE Spec => []PauseInv
BY InitPause, PauseStep, PTL DEF Spec

\* A leaf that takes its turn finds in the session state what the transcript says was
\* put out before it: a pause stores the two together, and a resume runs no leaf before
\* the paused one has its output in both again (SessionState, executeNode).
THEOREM StateFollowsTranscript ==
    ASSUME RemotesUnshared PROVE Spec => []StateMatchesTranscript
<1>1. PauseInv => StateMatchesTranscript
  <2> SUFFICES ASSUME PauseInv, InTree, NEW n \in Leaves, InTurn(n) PROVE state = conv.outs
    BY DEF StateMatchesTranscript, InTree
  <2> SUFFICES ASSUME NEW t \in Nodes, Tip(frame, t) PROVE FALSE
    BY DEF PauseInv, Matching
  <2>1. ShapeInv /\ Live(frame, t) /\ Bare(frame, t) /\ ~Free(t) /\ SpineOf(frame, t)
    BY TipFacts DEF PauseInv, ShapeInv, Fits
  <2>2. n \in Nodes /\ Live(frame, n)
    BY DEF InTurn, Leaves, Running, Live
  <2>3. n = t \/ t \in Below(n)
    BY <2>1, <2>2 DEF SpineOf, Bare
  <2>4. n = t
    BY <2>2, <2>3, BelowFacts
  <2> QED  BY <2>4, TipFacts DEF InTurn
<1> QED  BY <1>1, PauseAlways, PTL

-----------------------------------------------------------------------------
(***************************************************************************)
(* ClientKnows.                                                            *)
(***************************************************************************)

\* The answer of a request that has ended
ToldInv ==
    /\ PauseInv
    /\ main = "idle" /\ disk.pending # Nil => told \in {"wait", "error"}

\* A tree that has returned while an approval is pending has returned that
LEMMA RootWaits ==
    ASSUME PauseInv, InTree, Done(Root), conv.pending # Nil
    PROVE  frame[Root].res = "wait"
<1>1. PICK w \in Nodes : ~Free(w) /\ Waits(frame, w)
  BY DEF PauseInv, PausedTree
<1>2. Live(frame, w)
  BY <1>1, WaitFacts DEF PauseInv
<1>3. w = Root
  BY <1>1, <1>2, SpineToRoot DEF PauseInv, Running, Done
<1> QED  BY <1>1, <1>3 DEF Waits, Done

\* A leaf that outlives its request saves nothing
LEMMA LeftLeaf ==
    ASSUME RemotesUnshared, PauseInv, NEW n \in Nodes, LeafStep(n), ~InTree
    PROVE  UNCHANGED <<disk, main, told, held, undecided>>
<1>1. ~LeafAsks(n) /\ ~LeafProxies(n)
  <2> SUFFICES ASSUME LeafAsks(n) \/ LeafProxies(n) PROVE FALSE
    OBVIOUS
  <2>1. InTurn(n) /\ ~Free(n)
    BY DEF LeafAsks, LeafProxies, MayAct, TakesTurn, RemotesUnshared
  <2> QED  BY <2>1, TurnFacts
<1>2. ~MarkProxy(n)
  BY DEF MarkProxy, PauseInv, PausedTree
<1> QED  BY <1>1, <1>2 DEF LeafStep, NoClient, TreeStep, LeafError, LeafExits, LeafNeedsAuth,
            LeafOutput, LeafEnds, LeafResumes, SameRequest

\* A request that ends with an approval pending answers so, or with an error
LEMMA ToldStep ==
    ASSUME RemotesUnshared
    PROVE  ToldInv /\ [Next]_vars => ToldInv'
<1> SUFFICES ASSUME ToldInv, [Next]_vars, main' = "idle", disk'.pending # Nil
             PROVE  told' \in {"wait", "error"}
  BY PauseStep DEF ToldInv
<1>1. PauseInv /\ disk \in ConversationRecord /\ conv \in ConversationRecord
  BY DEF ToldInv, PauseInv, ShapeInv, IInv, TypeOK
<1>2. CASE UNCHANGED vars
  BY <1>2 DEF vars, ToldInv
<1>3. ASSUME NEW n \in Nodes, CompositeStep(n) PROVE told' \in {"wait", "error"}
  BY <1>3, CompositeRest DEF ToldInv
<1>4. ASSUME NEW n \in Nodes, LeafStep(n) PROVE told' \in {"wait", "error"}
  BY <1>1, <1>4, LeafFrames, LeftLeaf DEF ToldInv, InTree
<1>5. CASE MessageDone \/ ResumeDone
  <2>1. SaveConversation(conv) /\ told' = AnswerTo(frame[Root].res) /\ InTree /\ Done(Root)
    BY <1>5 DEF MessageDone, ResumeDone, Answer, InTree
  <2>2. conv.pending # Nil
    BY <2>1 DEF SaveConversation, NewConversation
  <2> QED  BY <1>1, <2>1, <2>2, RootWaits DEF AnswerTo
<1>6. CASE ResumeFails \/ Blocked \/ ResolutionFails \/ ProxyAsksAgain \/ SimpleLoopAsks
  BY <1>6 DEF ResumeFails, Blocked, ResolutionFails, ProxyAsksAgain, SimpleLoopAsks, Answer
<1>7. CASE ExecNeedsAuth \/ ProxyNeedsAuth \/ SimpleLoopEnds
  <2>1. SaveConversation(conv) /\ conv.pending = Nil
    BY <1>1, <1>7 DEF ExecNeedsAuth, ProxyNeedsAuth, SimpleLoopEnds, ResolutionNeedsAuth,
                      PauseInv, InHand
  <2> QED  BY <2>1 DEF SaveConversation, NewConversation
<1>8. CASE Reject
  <2>1. SaveConversation(conv') /\ conv'.pending = Nil
    BY <1>1, <1>8 DEF Reject, Resolved, ConversationRecord
  <2> QED  BY <2>1 DEF SaveConversation, NewConversation
<1>9. CASE Message \/ Approve \/ ExecReturns \/ ExecAsks \/ (ExecFails /\ ~ResolutionFails)
           \/ ProxyReturns
  BY <1>9 DEF Message, Approve, ExecReturns, ExecAsks, ExecFails, ProxyReturns, Continue
<1> QED  BY <1>2, <1>3, <1>4, <1>5, <1>6, <1>7, <1>8, <1>9
         DEF Next, ServerStep, ClientStep, RequestStep, ProxyFails

\* A conversation does not wait for an approval behind the client's back: what pauses
\* the tree is what its root returns (executeSequential, processOrchestrated).
THEOREM PendingIsTold ==
    ASSUME RemotesUnshared PROVE Spec => []ClientKnows
<1>1. Init => ToldInv
  BY InitPause DEF Init, NewConversation, ToldInv
<1>2. ToldInv => ClientKnows
  BY DEF ToldInv, ClientKnows
<1> QED  BY <1>1, <1>2, ToldStep, PTL DEF Spec

-----------------------------------------------------------------------------
(***************************************************************************)
(* NoRemoteTaskForgotten.                                                  *)
(***************************************************************************)

\* Node n is about to save its remote task
Marked(f, n) == n \in Nodes /\ f[n].st = "mark"

\* An approval of the agent's own: a leaf that may ask for one, the simple mode, or
\* a remote task that is about to be saved
Asked(c) == c.pending # Nil /\ ~c.pending.remote =>
    c.pending.node \in Hinted \cup {Nil} \/ Marked(frame, c.pending.node)

\* The remote tasks that wait for a decision, those apart of a leaf that asks for
\* itself: its approved delegation takes their "input-required" for a result
Owed == undecided \ Hinted

\* They are that of the approval at hand
OwedTo(c) == \A n \in Owed : c.pending = [node |-> n, remote |-> TRUE]

\* Through a resolution the remote task is that of the approval in hand, through a run
\* that of the approval the transcript has, which may still be about to be marked
OwedInv ==
    /\ PauseInv
    /\ \A n \in Nodes : frame[n].st = "mark" => conv.pending.node = n
    /\ Asked(disk)
    /\ InTree => Asked(conv)
    /\ main = "idle" => OwedTo(disk)
    /\ InTree => \/ OwedTo(conv)
                 \/ conv.pending # Nil /\ Owed \subseteq {conv.pending.node}
                    /\ Marked(frame, conv.pending.node)
    /\ main \in {"exec", "loop"} => Owed = {}
    /\ main = "proxy" => Owed \subseteq {held.pending.node}
    /\ main \in {"exec", "proxy"} => (held.pending.remote <=> main = "proxy")

\* An approval is not the absence of one
LEMMA ApprovalFacts ==
    ASSUME NEW n \in Leaves \cup {Nil}, NEW remote \in BOOLEAN
    PROVE  [node |-> n, remote |-> remote] # Nil
<1>1. [node |-> n, remote |-> remote] \in Pending
  BY DEF Pending
<1> QED  BY <1>1, NilIsNoRecord, Zenon

\* Only a proxy approval has a remote task that waits for its decision
LEMMA OwedFacts ==
    ASSUME IInv, NEW c \in ConversationRecord, OwedTo(c)
    PROVE  /\ c.pending = Nil \/ ~c.pending.remote => Owed = {}
           /\ Owed \subseteq {c.pending.node}
<1>1. ASSUME NEW n \in Owed
      PROVE  c.pending # Nil /\ c.pending.remote /\ c.pending.node = n
  <2>1. c.pending = [node |-> n, remote |-> TRUE] /\ n \in Leaves \cup {Nil}
    BY <1>1 DEF OwedTo, Owed, IInv, TypeOK
  <2>2. c.pending # Nil
    BY <2>1, ApprovalFacts
  <2> QED  BY <2>1, <2>2
<1> QED  BY <1>1

\* ... and one that may be that of another node is none
LEMMA OwedBy ==
    ASSUME NEW c \in ConversationRecord, c.pending # Nil, c.pending.remote,
           Owed \subseteq {c.pending.node}
    PROVE  OwedTo(c)
<1>1. c.pending \in Pending
  BY DEF ConversationRecord
<1>2. c.pending = [node |-> c.pending.node, remote |-> TRUE]
  BY <1>1 DEF Pending
<1> QED  BY <1>2 DEF OwedTo

\* Composite nodes neither mark a proxy nor unmark it
LEMMA OwedComposite ==
    ASSUME OwedInv, NEW n \in Nodes, CompositeStep(n)
    PROVE  OwedInv'
<1>1. PauseInv /\ PauseInv' /\ ShapeInv /\ PausedTree
  BY PauseComposite DEF OwedInv, PauseInv
<1>2. UNCHANGED <<state, conv, disk, main, held, Owed>>
  BY CompositeRest DEF Owed
<1>3. ASSUME NEW m \in Nodes PROVE frame'[m].st = "mark" <=> frame[m].st = "mark"
  <2>1. frame'[m].st = "mark" => frame[m].st = "mark"
    BY <1>1, CompositeFrames
  <2>2. ASSUME frame[m].st = "mark" PROVE FALSE
    <3>1. ~Free(m) /\ Waits(frame, m)
      BY <1>1, <2>2 DEF PausedTree, Waits
    <3>2. Done(m)
      BY <1>1, <3>1, WaitMovesUp
    <3> QED  BY <2>2, <3>2 DEF Done
  <2> QED  BY <2>1, <2>2
<1>4. \A m : Marked(frame', m) <=> Marked(frame, m)
  BY <1>3 DEF Marked
<1>5. Asked(disk)' /\ (InTree' => Asked(conv)') /\ InTree' = InTree
  BY <1>2, <1>4 DEF OwedInv, Asked, InTree
<1> QED  BY <1>1, <1>2, <1>3, <1>4, <1>5 DEF OwedInv, OwedTo

\* Leaves, where the tree is not run by a request any more
LEMMA OwedLeft ==
    ASSUME RemotesUnshared, OwedInv, NEW n \in Nodes, LeafStep(n), ~InTree
    PROVE  OwedInv'
<1>1. PauseInv /\ PauseInv' /\ ~InTree'
  BY PauseLeaf, LeafFrames DEF OwedInv
<1>2. UNCHANGED <<disk, main, held, Owed>>
  BY <1>1, LeftLeaf DEF Owed
<1>3. \A m \in Nodes : frame[m].st # "mark" /\ frame'[m].st # "mark"
  BY <1>1 DEF PauseInv, PausedTree
<1>4. Asked(disk)'
  BY <1>2, <1>3 DEF OwedInv, Asked, Marked
<1> QED  BY <1>1, <1>2, <1>3, <1>4 DEF OwedInv, OwedTo

\* ... and where it is
LEMMA OwedLeaf ==
    ASSUME RemotesUnshared, OwedInv, NEW n \in Nodes, LeafStep(n), InTree
    PROVE  OwedInv'
<1>1. PauseInv /\ PauseInv' /\ InTree' /\ main' = main /\ n \in Leaves /\ IInv
      /\ conv \in ConversationRecord /\ PausedTree
  BY PauseLeaf, LeafFrames DEF OwedInv, PauseInv, ShapeInv, IInv, TypeOK
<1>2. main' \notin {"idle", "exec", "proxy", "loop"}
  BY <1>1 DEF InTree
<1>3. /\ \A m \in Nodes \ {n} : frame'[m] = frame[m]
      /\ frame'[n].st \in {"mark", "done"}
  BY <1>1, LeafFrames
<1>4. CASE InTurn(n) \/ LeafResumes(n)
  <2>1. conv.pending = Nil
    <3>1. CASE InTurn(n)
      BY <1>1, <3>1, TurnFacts
    <3>2. CASE LeafResumes(n)
      <4>1. Tip(frame, n)
        BY <3>2, NilIsNoPath, EmptySeq DEF Tip, LeafResumes, Running
      <4> QED  BY <1>1, <4>1 DEF PauseInv, ResumedTree
    <3> QED  BY <1>4, <3>1, <3>2
  <2>2. Owed = {} /\ \A m \in Nodes : frame[m].st # "mark"
    BY <1>1, <2>1, OwedFacts DEF OwedInv, PausedTree
  <2>3. CASE LeafProxies(n)
    <3>1. /\ conv'.pending = [node |-> n, remote |-> FALSE] /\ disk' = conv'
          /\ Owed' \subseteq {n}
      <4>1. conv'.pending = [node |-> n, remote |-> FALSE] /\ Owed' \subseteq {n}
        BY <1>1, <2>2, <2>3 DEF LeafProxies, Paused, Counted, ConversationRecord, Owed
      <4>2. conv'.pending # Nil
        BY <1>1, <4>1, ApprovalFacts
      <4> QED  BY <2>3, <4>1, <4>2 DEF LeafProxies, SaveConversation
    <3>2. frame' = [frame EXCEPT ![n] = [frame[n] EXCEPT !.st = "mark"]]
      BY <2>3 DEF LeafProxies
    <3>3. frame \in [Nodes -> Frame]
      BY <1>1 DEF IInv, TypeOK
    <3>4. [frame[n] EXCEPT !.st = "mark"].st = "mark"
      BY <3>3 DEF Frame
    <3>5. Marked(frame', n) /\ \A m \in Nodes : frame'[m].st = "mark" => m = n
      BY <1>3, <2>2, <3>2, <3>3, <3>4 DEF Marked
    <3>6. conv'.pending # Nil
      BY <1>1, <3>1, ApprovalFacts
    <3>7. Asked(disk)' /\ Asked(conv)'
      BY <3>1, <3>5 DEF Asked
    <3> QED  BY <1>1, <1>2, <3>1, <3>5, <3>6, <3>7 DEF OwedInv
  <2>4. CASE LeafAsks(n)
    <3>1. conv'.pending = [node |-> n, remote |-> FALSE] /\ Owed' = {} /\ n \in Hinted
      BY <1>1, <2>2, <2>4 DEF LeafAsks, Paused, Counted, ConversationRecord, Owed
    <3>2. conv'.pending # Nil
      BY <1>1, <3>1, ApprovalFacts
    <3>3. disk' = conv' /\ frame' = Return(frame, n, "wait")
      BY <2>4, <3>2 DEF LeafAsks, SaveConversation
    <3>4. Asked(disk)' /\ Asked(conv)' /\ OwedTo(conv)'
      BY <3>1, <3>3 DEF Asked, OwedTo
    <3>5. \A m \in Nodes : frame'[m].st # "mark"
      <4>1. frame \in [Nodes -> Frame]
        BY <1>1 DEF IInv, TypeOK
      <4>2. frame'[n] = [frame[n] EXCEPT !.st = "done", !.res = "wait"]
        BY <3>3, <4>1 DEF Return
      <4>3. frame'[n].st = "done"
        BY <4>1, <4>2 DEF Frame
      <4> QED  BY <1>3, <2>2, <4>3
    <3> QED  BY <1>1, <1>2, <3>4, <3>5 DEF OwedInv
  <2>5. CASE ~LeafProxies(n) /\ ~LeafAsks(n)
    <3>1. ~MarkProxy(n)
      BY <2>2 DEF MarkProxy
    <3>2. /\ conv'.pending = conv.pending /\ disk' = disk /\ Owed' = Owed
      BY <1>1, <2>5, <3>1 DEF LeafStep, NoClient, TreeStep, LeafError, LeafExits, LeafNeedsAuth,
            LeafOutput, LeafEnds, LeafResumes, Counted, ConversationRecord, Owed
    <3>3. \A m \in Nodes : frame'[m].st # "mark"
      BY <1>1, <2>1, <3>2 DEF PauseInv, PausedTree
    <3>4. Asked(disk)' /\ Asked(conv)' /\ OwedTo(conv)'
      BY <2>1, <2>2, <3>2 DEF OwedInv, Asked, OwedTo, Marked
    <3> QED  BY <1>1, <1>2, <3>3, <3>4 DEF OwedInv
  <2> QED  BY <2>3, <2>4, <2>5
<1>5. CASE MarkProxy(n)
  <2>1. conv.pending \in Pending /\ conv.pending # Nil /\ conv.pending.node = n
    BY <1>1, <1>5 DEF MarkProxy, OwedInv, PausedTree, ConversationRecord
  <2>2. conv' = [conv EXCEPT !.pending = [conv.pending EXCEPT !.remote = TRUE]]
    BY <1>5 DEF MarkProxy
  <2>3. conv'.pending = [node |-> n, remote |-> TRUE]
    BY <1>1, <2>1, <2>2 DEF ConversationRecord, Pending
  <2>4. conv'.pending # Nil
    BY <1>1, <2>3, ApprovalFacts
  <2>5. disk' = conv' /\ Owed' = Owed /\ frame' = Return(frame, n, "wait")
    BY <1>5, <2>4 DEF MarkProxy, SaveConversation, Owed
  <2>6. Owed \subseteq {n}
    BY <1>1, <2>1, OwedFacts DEF OwedInv
  <2>7. Asked(disk)' /\ Asked(conv)' /\ OwedTo(conv)'
    <3>1. conv'.pending.remote
      BY <2>3
    <3>2. \A m \in Owed : m = n
      BY <2>6
    <3>3. OwedTo(conv)'
      BY <2>3, <2>5, <3>2 DEF OwedTo
    <3> QED  BY <2>5, <3>1, <3>3 DEF Asked
  <2>8. \A m \in Nodes : frame'[m].st = "mark" => conv'.pending.node = m
    BY <1>3, <2>1, <2>3 DEF OwedInv
  <2> QED  BY <1>1, <1>2, <2>7, <2>8 DEF OwedInv
<1> QED  BY <1>4, <1>5 DEF LeafStep, NoClient, LeafError, LeafExits, LeafNeedsAuth, LeafOutput,
         LeafAsks, LeafProxies, MayAct, TakesTurn

\* What is left to show where no tree runs after a step and nothing is marked
LEMMA OwedOutside ==
    ASSUME OwedInv, PauseInv', ~InTree',
           disk'.pending # Nil /\ ~disk'.pending.remote =>
               disk'.pending.node \in Hinted \cup {Nil},
           main' = "idle" => OwedTo(disk)',
           main' \in {"exec", "loop"} => Owed' = {},
           main' = "proxy" => Owed' \subseteq {held'.pending.node},
           main' \in {"exec", "proxy"} => (held'.pending.remote <=> main' = "proxy")
    PROVE  OwedInv'
<1>1. \A m \in Nodes : frame'[m].st # "mark"
  BY DEF PauseInv, PausedTree
<1>2. Asked(disk)'
  BY DEF Asked
<1> QED  BY <1>1, <1>2 DEF OwedInv

\* Where nothing is marked, the stored approval is one of those a client may find
LEMMA StoredAsked ==
    ASSUME OwedInv, ~InTree, disk.pending # Nil, ~disk.pending.remote
    PROVE  disk.pending.node \in Hinted \cup {Nil}
BY DEF OwedInv, PauseInv, PausedTree, Asked, Marked

\* The tree has returned
LEMMA OwedReturn ==
    ASSUME RemotesUnshared, OwedInv, [Next]_vars, MessageDone \/ ResumeDone \/ ResumeFails
    PROVE  OwedInv'
<1>1. /\ PauseInv /\ PauseInv' /\ InTree /\ Done(Root) /\ main' = "idle" /\ IInv
      /\ conv \in ConversationRecord /\ disk \in ConversationRecord
      /\ Owed' = Owed
  BY PauseStep DEF OwedInv, PauseInv, ShapeInv, IInv, TypeOK, MessageDone, ResumeDone,
                   ResumeFails, Answer, InTree, Owed
<1>2. \A m \in Nodes : frame[m].st # "mark"
  BY <1>1, RootDoneFacts
<1>3. OwedTo(conv)
  BY <1>1, <1>2 DEF OwedInv, Marked
<1>4. CASE MessageDone \/ ResumeDone
  <2>1. \/ disk' = conv
        \/ conv.pending = Nil /\ disk'.pending = Nil
    BY <1>4 DEF MessageDone, ResumeDone, SaveConversation, NewConversation
  <2>2. CASE disk' = conv
    <3>1. disk'.pending # Nil /\ ~disk'.pending.remote => disk'.pending.node \in Hinted \cup {Nil}
      BY <1>1, <1>2, <2>2 DEF OwedInv, Asked, Marked
    <3>2. OwedTo(disk)'
      BY <1>1, <1>3, <2>2 DEF OwedTo
    <3> QED  BY <1>1, <3>1, <3>2, OwedOutside DEF InTree
  <2>3. CASE conv.pending = Nil /\ disk'.pending = Nil
    <3>1. Owed' = {}
      BY <1>1, <1>3, <2>3, OwedFacts
    <3>2. OwedTo(disk)'
      BY <3>1 DEF OwedTo
    <3> QED  BY <1>1, <2>3, <3>2, OwedOutside DEF InTree
  <2> QED  BY <2>1, <2>2, <2>3
<1>5. CASE ResumeFails
  <2>1. conv.pending = Nil
    BY <1>1, <1>5, RootWaits DEF ResumeFails
  <2>2. Owed' = {} /\ disk' = disk
    BY <1>1, <1>3, <1>5, <2>1, OwedFacts DEF ResumeFails
  <2>3. disk'.pending # Nil /\ ~disk'.pending.remote => disk'.pending.node \in Hinted \cup {Nil}
    BY <1>2, <2>2 DEF OwedInv, Asked, Marked
  <2>4. OwedTo(disk)'
    BY <2>2 DEF OwedTo
  <2> QED  BY <1>1, <2>3, <2>4, OwedOutside DEF InTree
<1> QED  BY <1>4, <1>5

\* A client calls
LEMMA OwedClient ==
    ASSUME RemotesUnshared, OwedInv, [Next]_vars, ClientStep
    PROVE  OwedInv'
<1>1. /\ PauseInv /\ PauseInv' /\ main = "idle" /\ ~InTree /\ IInv /\ OwedTo(disk)
      /\ disk \in ConversationRecord
  BY PauseStep DEF OwedInv, PauseInv, ShapeInv, IInv, TypeOK, ClientStep, Message, Blocked,
                   Approve, Reject, MaySend, InTree
<1>2. /\ Owed \subseteq {disk.pending.node}
      /\ disk.pending = Nil \/ ~disk.pending.remote => Owed = {}
  BY <1>1, OwedFacts
<1>3. disk.pending # Nil /\ ~disk.pending.remote => disk.pending.node \in Hinted \cup {Nil}
  BY <1>1, StoredAsked
<1>4. CASE Message
  <2>1. /\ Owed' = {} /\ conv'.pending = Nil /\ disk' = disk /\ disk.pending = Nil
        /\ main' = "run"
    BY <1>1, <1>2, <1>4 DEF Message, ConversationRecord, Owed
  <2>2. \A m \in Nodes : frame'[m].st # "mark"
    BY <1>1, <2>1 DEF PauseInv, PausedTree
  <2>3. Asked(disk)' /\ Asked(conv)' /\ OwedTo(conv)'
    BY <2>1 DEF Asked, OwedTo
  <2> QED  BY <1>1, <2>1, <2>2, <2>3 DEF OwedInv
<1>5. CASE Blocked
  <2>1. main' = "idle" /\ Owed' = Owed /\ disk' = disk
    BY <1>5 DEF Blocked, Answer, Owed
  <2>2. OwedTo(disk)'
    BY <1>1, <2>1 DEF OwedTo
  <2> QED  BY <1>1, <1>3, <2>1, <2>2, OwedOutside DEF InTree
<1>6. CASE Approve
  <2>1. /\ main' = IF disk.pending.remote THEN "proxy" ELSE "exec"
        /\ held'.pending = disk.pending /\ disk' = disk /\ Owed' = Owed
    BY <1>6 DEF Approve, Owed
  <2>2. ~InTree' /\ main' # "idle"
    BY <2>1 DEF InTree
  <2> QED  BY <1>1, <1>2, <1>3, <2>1, <2>2, OwedOutside
<1>7. CASE Reject
  <2>1. main' = "idle" /\ conv'.pending = Nil /\ SaveConversation(conv') /\ conv'.pipe = Nil
    BY <1>1, <1>7 DEF Reject, Answer, Resolved, ConversationRecord
  <2>2. disk'.pending = Nil
    BY <2>1 DEF SaveConversation, NewConversation
  <2>3. Owed' = {}
    BY <1>2, <1>7 DEF Reject, Owed
  <2>4. OwedTo(disk)'
    BY <2>3 DEF OwedTo
  <2> QED  BY <1>1, <2>1, <2>2, <2>4, OwedOutside DEF InTree
<1> QED  BY <1>4, <1>5, <1>6, <1>7 DEF ClientStep

\* The tree is run again, or the simple mode goes on, with nothing owed
LEMMA OwedContinue ==
    ASSUME RemotesUnshared, OwedInv, [Next]_vars, main \in {"exec", "proxy"},
           NEW outputs, Continue(outputs), Owed' = {}, UNCHANGED <<conv, disk>>
    PROVE  OwedInv'
<1>1. PauseInv /\ PauseInv' /\ ~InTree
  BY PauseStep DEF OwedInv, InTree
<1>2. disk'.pending # Nil /\ ~disk'.pending.remote => disk'.pending.node \in Hinted \cup {Nil}
  BY <1>1, StoredAsked
<1>3. main' \in {"resume", "loop"} /\ conv'.pending = Nil
  BY <1>1 DEF Continue, PauseInv, InHand
<1>4. \A m \in Nodes : frame'[m].st # "mark"
  BY <1>1, <1>3 DEF PauseInv, PausedTree
<1>5. Asked(disk)' /\ Asked(conv)' /\ OwedTo(conv)'
  BY <1>2, <1>3 DEF Asked, OwedTo
<1> QED  BY <1>1, <1>3, <1>4, <1>5 DEF OwedInv

\* Steps of ResolveApproval
LEMMA OwedResolve ==
    ASSUME RemotesUnshared, OwedInv, [Next]_vars, RequestStep, ~(MessageDone \/ ResumeDone \/ ResumeFails)
    PROVE  OwedInv'
<1>1. main \in {"exec", "proxy", "loop"}
  BY DEF RequestStep, ExecReturns, ExecAsks, ExecFails, ExecNeedsAuth, ProxyReturns, ProxyFails,
         ProxyNeedsAuth, ProxyAsksAgain, SimpleLoopEnds, SimpleLoopAsks
<1>2. /\ PauseInv /\ PauseInv' /\ IInv /\ ~InTree /\ conv.pending = Nil /\ conv.pipe = Nil
      /\ conv \in ConversationRecord /\ disk \in ConversationRecord
  BY <1>1, PauseStep DEF OwedInv, PauseInv, InHand, ShapeInv, IInv, TypeOK, InTree
<1>3. /\ main \in {"exec", "loop"} => Owed = {}
      /\ main = "proxy" => Owed \subseteq {held.pending.node}
      /\ main \in {"exec", "proxy"} =>
            /\ held.pending = disk.pending /\ held.pending # Nil
            /\ held.pending.remote <=> main = "proxy"
  BY <1>2 DEF OwedInv, PauseInv, InHand, IInv, Resolving
<1>4. disk.pending # Nil /\ ~disk.pending.remote => disk.pending.node \in Hinted \cup {Nil}
  BY <1>2, StoredAsked
<1>5. ASSUME main' = "idle", disk'.pending = Nil, Owed' = {} PROVE OwedInv'
  <2>1. OwedTo(disk)'
    BY <1>5 DEF OwedTo
  <2> QED  BY <1>2, <1>5, <2>1, OwedOutside DEF InTree
<1>6. CASE ExecReturns
  <2>1. Owed' = Owed
    BY <1>6 DEF ExecReturns, Owed
  <2> QED  BY <1>3, <1>6, <2>1, OwedContinue DEF ExecReturns
<1>7. CASE ExecAsks
  <2>1. main = "exec" /\ held.pending.node \in RemoteAsks
    BY <1>7 DEF ExecAsks
  <2>2. held.pending.node \in Hinted \cup {Nil}
    BY <1>3, <1>4, <2>1
  <2>3. held.pending.node \in Seq(Nat \ {0})
    BY <2>1, OrchestratorParameters, NodesAreSequences DEF Leaves
  <2>4. held.pending.node \in Hinted
    BY <2>2, <2>3, NilIsNoPath
  <2>5. Owed' = {}
    BY <1>3, <1>7, <2>1, <2>4 DEF ExecAsks, Owed
  <2>6. Continue({}) /\ UNCHANGED <<conv, disk>>
    BY <1>7 DEF ExecAsks
  <2> QED  BY <2>1, <2>5, <2>6, OwedContinue
<1>8. CASE ProxyReturns
  <2>1. Owed' = {} /\ main = "proxy" /\ UNCHANGED <<conv, disk>>
    BY <1>3, <1>8 DEF ProxyReturns, Settled, Owed
  <2>2. \E outputs : Continue(outputs)
    BY <1>8 DEF ProxyReturns
  <2> QED  BY <2>1, <2>2, OwedContinue
<1>9. CASE (ExecFails \/ ProxyFails) /\ ResolutionFails
  <2>1. main' = "idle" /\ disk' = disk /\ Owed' \subseteq Owed /\ main \in {"exec", "proxy"}
    BY <1>9 DEF ExecFails, ProxyFails, Settled, ResolutionFails, Answer, Owed
  <2>2. OwedTo(disk)
    <3>1. CASE main = "exec"
      BY <1>3, <3>1 DEF OwedTo
    <3>2. CASE main = "proxy"
      BY <1>2, <1>3, <3>2, OwedBy
    <3> QED  BY <2>1, <3>1, <3>2
  <2>3. OwedTo(disk)'
    BY <2>1, <2>2 DEF OwedTo
  <2> QED  BY <1>2, <1>4, <2>1, <2>3, OwedOutside DEF InTree
<1>10. CASE ExecFails /\ ~ResolutionFails
  <2>1. main' = "loop" /\ disk' = disk /\ Owed' = Owed /\ main = "exec"
    BY <1>10 DEF ExecFails, Owed
  <2> QED  BY <1>2, <1>3, <1>4, <2>1, OwedOutside DEF InTree
<1>11. CASE ExecNeedsAuth \/ ProxyNeedsAuth \/ SimpleLoopEnds
  <2>1. SaveConversation(conv) /\ main' = "idle" /\ Owed' = {}
    BY <1>3, <1>11 DEF ExecNeedsAuth, ProxyNeedsAuth, SimpleLoopEnds, ResolutionNeedsAuth, Answer,
                       Settled, Owed
  <2>2. disk'.pending = Nil
    BY <1>2, <2>1 DEF SaveConversation, NewConversation
  <2> QED  BY <1>5, <2>1, <2>2
<1>12. CASE ProxyAsksAgain
  <2>1. /\ main' = "idle" /\ main = "proxy" /\ Owed' = Owed
        /\ conv'.pending = held.pending
    BY <1>2, <1>12 DEF ProxyAsksAgain, Answer, ConversationRecord, Owed
  <2>2. disk' = conv'
    BY <1>3, <1>12, <2>1 DEF ProxyAsksAgain, SaveConversation
  <2>3. OwedTo(disk)
    BY <1>2, <1>3, <2>1, OwedBy
  <2>4. OwedTo(disk)'
    BY <1>3, <2>1, <2>2, <2>3 DEF OwedTo
  <2> QED  BY <1>2, <1>3, <2>1, <2>2, <2>4, OwedOutside DEF InTree
<1>13. CASE SimpleLoopAsks
  <2>1. PICK remote \in BOOLEAN :
            /\ conv' = [conv EXCEPT !.pending = [node |-> Nil, remote |-> remote]]
            /\ undecided' = IF remote THEN undecided \cup {Nil} ELSE undecided
    BY <1>13 DEF SimpleLoopAsks
  <2>2. conv'.pending = [node |-> Nil, remote |-> remote]
    BY <1>2, <2>1 DEF ConversationRecord
  <2>3. conv'.pending # Nil
    BY <2>2, ApprovalFacts
  <2>4. main' = "idle" /\ disk' = conv'
    BY <1>13, <2>3 DEF SimpleLoopAsks, SaveConversation, Answer
  <2>5. Owed' \subseteq IF remote THEN {Nil} ELSE {}
    BY <1>3, <1>13, <2>1 DEF SimpleLoopAsks, Owed
  <2>6. OwedTo(disk)'
    BY <2>2, <2>4, <2>5 DEF OwedTo
  <2>7. disk'.pending.node = Nil
    BY <2>2, <2>4
  <2> QED  BY <1>2, <2>4, <2>6, <2>7, OwedOutside DEF InTree
<1> QED  BY <1>6, <1>7, <1>8, <1>9, <1>10, <1>11, <1>12, <1>13
         DEF RequestStep, ProxyFails, ExecFails

\* Every step keeps the invariant
LEMMA OwedStep ==
    ASSUME RemotesUnshared PROVE OwedInv /\ [Next]_vars => OwedInv'
<1> SUFFICES ASSUME OwedInv, [Next]_vars PROVE OwedInv'
  OBVIOUS
<1>1. CASE UNCHANGED vars
  <2>1. PauseInv'
    BY PauseStep DEF OwedInv
  <2>2. UNCHANGED <<frame, conv, disk, main, held, Owed>>
    BY <1>1 DEF vars, Owed
  <2>3. Asked(disk)' /\ (InTree' => Asked(conv)') /\ InTree' = InTree
    BY <2>2 DEF OwedInv, Asked, Marked, InTree
  <2> QED  BY <2>1, <2>2, <2>3 DEF OwedInv, OwedTo, Marked
<1>2. ASSUME NEW n \in Nodes, CompositeStep(n) \/ LeafStep(n) PROVE OwedInv'
  BY <1>2, OwedComposite, OwedLeft, OwedLeaf
<1>3. CASE RequestStep
  BY <1>3, OwedReturn, OwedResolve
<1>4. CASE ClientStep
  BY <1>4, OwedClient
<1> QED  BY <1>1, <1>2, <1>3, <1>4 DEF Next, ServerStep

\* When the server is idle, a remote task that waits for a decision is that of the
\* pending proxy approval, so that a client can still decide on it (executeA2ANode,
\* resolveProxyApproval).  The tasks of a leaf that asks for itself are apart: the
\* "input-required" of its approved delegation is taken for a result.
THEOREM RemoteTasksRemembered ==
    ASSUME RemotesUnshared PROVE Spec => []NoRemoteTaskForgotten
<1>1. Init => OwedInv
  <2> SUFFICES ASSUME Init PROVE OwedInv
    OBVIOUS
  <2>1. /\ PauseInv /\ main = "idle" /\ Owed = {} /\ disk.pending = Nil
        /\ \A n \in Nodes : frame[n].st # "mark"
    BY InitPause DEF Init, NoFrame, NewConversation, Owed
  <2>2. Asked(disk) /\ OwedTo(disk)
    BY <2>1 DEF Asked, OwedTo
  <2> QED  BY <2>1, <2>2 DEF OwedInv, InTree
<1>2. OwedInv => NoRemoteTaskForgotten
  BY DEF OwedInv, OwedTo, Owed, NoRemoteTaskForgotten
<1> QED  BY <1>1, <1>2, OwedStep, PTL DEF Spec

-----------------------------------------------------------------------------
(***************************************************************************)
(* ImplementsPipeline, where no remote agent below a parallel or a loop    *)
(* node asks.                                                              *)
(***************************************************************************)

\* A tree that is a pipeline of the children of its root
Sequence == Kind[Root] = "sequential" /\ RemotesUnshared

\* The root enters the child that the stored path names, and a pause is stored with the
\* child that the root runs
PipeInv ==
    /\ PauseInv
    /\ InTree /\ Running(Root) /\ frame[Root].at = 0 =>
          frame[Root].via = IF disk.pipe = Nil THEN Nil ELSE disk.pipe.path
    /\ InTree /\ conv.pending # Nil =>
          disk = conv /\ conv.pipe # Nil /\ frame[Root].at = Head(conv.pipe.path)
    /\ main = "resume" => disk.pipe # Nil
    /\ main \in {"exec", "proxy"} => held.pipe = disk.pipe

\* The root of a sequence may ask, and has children
LEMMA RootFacts ==
    ASSUME Sequence
    PROVE  Root \in Nodes \ Leaves /\ ~Free(Root) /\ Width(Root) \in Nat \ {0}
<1>1. Root \in Nodes \ Leaves
  BY TreeOK DEF Sequence, Leaves
<1>2. Len(Root) = 0
  BY DEF Root
<1>3. Ancestors(Root) = {}
  BY <1>2 DEF Ancestors
<1> QED  BY <1>1, <1>3, TreeOK DEF Free

\* A path begins with the child of the root that it leads through
LEMMA HeadFacts ==
    ASSUME Sequence, NEW n \in Nodes, n # Root
    PROVE  /\ Head(n) \in Nat \ {0}
           /\ \A i \in 1 .. Width(Root) :
                 n = Child(Root, i) \/ n \in Below(Child(Root, i)) => Head(n) = i
<1>1. n \in Seq(Nat \ {0}) /\ n # <<>>
  BY NodesAreSequences DEF Root
<1>2. Head(n) \in Nat \ {0} /\ Head(n) = n[1]
  BY <1>1
<1>3. ASSUME NEW i \in 1 .. Width(Root), n = Child(Root, i) \/ n \in Below(Child(Root, i))
      PROVE  n[1] = i
  <2>1. Child(Root, i) = <<i>> /\ Child(Root, i) \in Nodes
    <3>1. Child(Root, i) \in Nodes
      BY RootFacts, ChildIsNode
    <3>2. Append(<<>>, i) = <<i>>
      OBVIOUS
    <3> QED  BY <3>1, <3>2 DEF Child, Root
  <2>2. n \in Below(Child(Root, i)) => n[1] = Child(Root, i)[1]
    BY <2>1, PrefixFacts DEF Below
  <2> QED  BY <1>3, <2>1, <2>2
<1> QED  BY <1>2, <1>3

\* What a step of a composite node does to the root
LEMMA CompositeRoot ==
    ASSUME Sequence, PauseInv, NEW n \in Nodes, CompositeStep(n)
    PROVE  \/ n # Root /\ frame'[Root] = frame[Root]
           \/ /\ n = Root /\ Running(Root) /\ frame[Root].at = 0
              /\ frame'[Root].at = IF frame[Root].via \in {Nil, <<>>} THEN 1
                                   ELSE Head(frame[Root].via)
              /\ frame'[Root].at > 0
           \/ /\ n = Root /\ Running(Root) /\ SeqNext(Root)
              /\ frame[Root].at \in 1 .. Width(Root) - 1 /\ frame'[Root].at = frame[Root].at + 1
           \/ /\ n = Root /\ Running(Root) /\ SeqEnd(Root)
              /\ frame'[Root].at = frame[Root].at /\ frame[Root].at > 0
<1>1. /\ IInv /\ frame \in [Nodes -> Frame] /\ Root \in Nodes \ Leaves
      /\ Width(Root) \in Nat \ {0}
  BY RootFacts DEF PauseInv, ShapeInv, IInv, TypeOK
<1>2. \A m \in Nodes, i \in Nat : Child(m, i) # Root
  <2> TAKE m \in Nodes, i \in Nat
  <2>1. m \in Seq(Nat)
    BY NodesAreSequences
  <2> QED  BY <2>1 DEF Child, Root
<1>3. ASSUME NEW i \in 1 .. Width(Root), NEW via, n = Root,
             frame' = Enter([frame EXCEPT ![n].at = i], Child(n, i), via)
      PROVE  frame'[Root].at = i
  <2>1. Child(n, i) # n /\ frame[n] \in Frame
    BY <1>1, <1>2, <1>3
  <2>2. [frame EXCEPT ![n].at = i][n] = [frame[n] EXCEPT !.at = i]
    BY <1>1
  <2>3. [frame[n] EXCEPT !.at = i].at = i
    BY <2>1 DEF Frame
  <2> QED  BY <1>1, <1>3, <2>1, <2>2, <2>3 DEF Enter
<1>4. ASSUME n = Root
      PROVE  /\ SeqStart(n) \/ SeqNext(n) \/ SeqEnd(n)
             /\ Running(n)
  BY <1>4 DEF Sequence, CompositeStep, SeqStart, SeqNext, SeqEnd, LoopStart, LoopNext, LoopEnd,
              ParFork, ParJoin, ParFail, Reap, Returned
<1>5. CASE n = Root /\ SeqStart(n)
  <2> DEFINE via == frame[n].via
  <2>1. frame[n].at = 0 /\ Running(n)
    BY <1>5 DEF SeqStart
  <2>2. CASE via \in {Nil, <<>>}
    <3>1. frame' = Enter([frame EXCEPT ![n].at = 1], Child(n, 1), Nil)
      BY <1>5, <2>2 DEF SeqStart, TreeStep
    <3>2. 1 \in 1 .. Width(Root)
      BY <1>1
    <3>3. frame'[Root].at = 1
      BY <1>3, <1>5, <3>1, <3>2
    <3> QED  BY <1>5, <2>1, <2>2, <3>3
  <2>3. CASE via \notin {Nil, <<>>}
    <3>1. frame' = Enter([frame EXCEPT ![n].at = Head(via)], Child(n, Head(via)), Tail(via))
      BY <1>5, <2>3 DEF SeqStart, TreeStep
    <3>2. via \in Seq(Nat \ {0}) /\ n \o via \in Nodes
      BY <1>1, <2>3 DEF IInv, TypeOK, Paths, FrameOf, Frame
    <3>3. Head(via) \in 1 .. Width(n)
      BY <1>1, <1>5, <2>3, <3>2, PathStep
    <3>4. frame'[Root].at = Head(via)
      BY <1>1, <1>3, <1>5, <3>1, <3>3
    <3> QED  BY <1>5, <2>1, <2>3, <3>3, <3>4
  <2> QED  BY <2>2, <2>3
<1>6. CASE n = Root /\ SeqNext(n)
  <2> DEFINE i == frame[n].at
             f == Leave(frame, Child(n, i))
             r == [frame[n] EXCEPT !.at = i + 1, !.round = 0]
  <2>1. i \in 1 .. Width(n) - 1 /\ Returned(n, "sequential", i) /\ GoOn(n, i, i + 1, 0)
    BY <1>1, <1>6, ReturnedChild DEF SeqNext
  <2>2. frame' = Enter([f EXCEPT ![n].at = i + 1, ![n].round = 0], Child(n, i + 1), Nil)
    BY <2>1 DEF GoOn, TreeStep
  <2>3. f[n] = frame[n] /\ f = [m \in Nodes |-> f[m]]
    <3>1. i \in Nat
      BY <1>1 DEF Frame
    <3>2. Child(n, i) # n
      BY <1>2, <1>6, <3>1
    <3> QED  BY <1>1, <3>2 DEF Leave
  <2>4. r.at = i + 1
    BY <1>1, <1>6 DEF Frame
  <2> HIDE DEF f
  <2>5. [f EXCEPT ![n].at = i + 1, ![n].round = 0][n] = r
    BY <2>3
  <2>6. Child(n, i + 1) # n
    BY <1>1, <1>2, <1>6, <2>1
  <2>7. frame'[n] = r
    BY <2>2, <2>3, <2>5, <2>6 DEF Enter
  <2> QED  BY <1>4, <1>6, <2>1, <2>4, <2>7
<1>7. CASE n = Root /\ SeqEnd(n)
  <2> DEFINE i == frame[n].at
             f == Leave(frame, Child(n, i))
  <2>1. i \in 1 .. Width(n) /\ Returned(n, "sequential", i) /\ GiveBack(n, i, ResultOf(n, i))
    BY <1>1, <1>7, ReturnedChild DEF SeqEnd
  <2>2. f[n] = frame[n] /\ f = [m \in Nodes |-> f[m]]
    <3>1. i \in Nat
      BY <1>1 DEF Frame
    <3>2. Child(n, i) # n
      BY <1>2, <1>7, <3>1
    <3> QED  BY <1>1, <3>2 DEF Leave
  <2>3. frame' = Return(f, n, ResultOf(n, i))
    BY <2>1 DEF GiveBack, TreeStep
  <2> HIDE DEF f
  <2>4. frame'[n] = [frame[n] EXCEPT !.st = "done", !.res = ResultOf(n, i)]
    BY <2>2, <2>3 DEF Return
  <2>5. frame'[n].at = frame[n].at
    BY <1>1, <2>4 DEF Frame
  <2> QED  BY <1>4, <1>7, <2>1, <2>5
<1>8. CASE n # Root
  <2>2. CASE SeqStart(n) \/ LoopStart(n)
    <3>1. PICK i, via :
              i \in Nat /\ frame' = Enter([frame EXCEPT ![n].at = i], Child(n, i), via)
      <4>1. CASE LoopStart(n)
        BY <4>1 DEF LoopStart, TreeStep
      <4>2. CASE SeqStart(n) /\ frame[n].via \in {Nil, <<>>}
        <5>1. frame' = Enter([frame EXCEPT ![n].at = 1], Child(n, 1), Nil)
          BY <4>2 DEF SeqStart, TreeStep
        <5> QED  BY <5>1
      <4>3. CASE SeqStart(n) /\ frame[n].via \notin {Nil, <<>>}
        <5> DEFINE via == frame[n].via
        <5>1. frame' = Enter([frame EXCEPT ![n].at = Head(via)], Child(n, Head(via)), Tail(via))
          BY <4>3 DEF SeqStart, TreeStep
        <5>2. n \notin Leaves /\ via \in Seq(Nat \ {0}) /\ via # <<>> /\ n \o via \in Nodes
          BY <1>1, <4>3 DEF SeqStart, Leaves, IInv, TypeOK, Paths, FrameOf, Frame
        <5>3. Head(via) \in Nat
          BY <5>2
        <5> QED  BY <5>1, <5>3
      <4> QED  BY <2>2, <4>1, <4>2, <4>3
    <3> DEFINE r == [frame[n] EXCEPT !.at = i]
    <3>2. frame' = Enter([frame EXCEPT ![n] = r], Child(n, i), via)
      BY <3>1
    <3> HIDE DEF r
    <3>3. [frame EXCEPT ![n] = r][Root] = frame[Root] /\ Child(n, i) # Root
      BY <1>1, <1>2, <1>8, <3>1
    <3> DEFINE g == [frame EXCEPT ![n] = r]
    <3>4. g = [m \in Nodes |-> g[m]] /\ g[Root] = frame[Root]
      BY <1>1, <3>3
    <3>5. frame' = Enter(g, Child(n, i), via)
      BY <3>2
    <3> HIDE DEF g
    <3> QED  BY <1>1, <1>8, <3>3, <3>4, <3>5 DEF Enter
  <2>3. CASE SeqNext(n) \/ SeqEnd(n) \/ LoopNext(n) \/ LoopEnd(n)
    <3> DEFINE i == frame[n].at
               f == Leave(frame, Child(n, i))
    <3>1. i \in Nat /\ Width(n) \in Nat
      BY <1>1, <2>3, ReturnedChild, TreeOK DEF SeqNext, SeqEnd, LoopNext, LoopEnd, Returned, Leaves,
         Frame
    <3>2. f[Root] = frame[Root] /\ f \in [Nodes -> Frame]
      BY <1>1, <1>2, <3>1, NoFrameType DEF Leave
    <3>3. CASE \E j \in Nat, round \in Nat : GoOn(n, i, j, round)
      <4>1. PICK j \in Nat, round \in Nat :
                frame' = Enter([f EXCEPT ![n].at = j, ![n].round = round], Child(n, j), Nil)
        BY <3>3 DEF GoOn, TreeStep
      <4> DEFINE r == [f[n] EXCEPT !.at = j, !.round = round]
      <4> HIDE DEF f
      <4>2. [f EXCEPT ![n].at = j, ![n].round = round] = [f EXCEPT ![n] = r]
        BY <3>2
      <4> HIDE DEF r
      <4>3. [f EXCEPT ![n] = r][Root] = frame[Root]
        BY <1>8, <3>2
      <4>4. Child(n, j) # Root
        BY <1>2
      <4> DEFINE g == [f EXCEPT ![n] = r]
      <4>5. g = [m \in Nodes |-> g[m]] /\ g[Root] = frame[Root]
        BY <3>2, <4>3
      <4>6. frame' = Enter(g, Child(n, j), Nil)
        BY <4>1, <4>2
      <4> HIDE DEF g
      <4> QED  BY <1>1, <1>8, <4>4, <4>5, <4>6 DEF Enter
    <3>4. CASE \E res : GiveBack(n, i, res)
      <4>1. PICK res : frame' = Return(f, n, res)
        BY <3>4 DEF GiveBack, TreeStep
      <4> QED  BY <1>1, <1>8, <3>2, <4>1 DEF Return
    <3>5. (\E j \in Nat, round \in Nat : GoOn(n, i, j, round)) \/ (\E res : GiveBack(n, i, res))
      <4>1. frame[n].round \in Nat
        BY <1>1 DEF Frame
      <4>2. CASE SeqNext(n)
        <5>1. GoOn(n, i, i + 1, 0) /\ i + 1 \in Nat
          BY <3>1, <4>2 DEF SeqNext
        <5> QED  BY <5>1
      <4>3. CASE SeqEnd(n)
        BY <4>3 DEF SeqEnd
      <4>4. CASE LoopNext(n)
        <5>1. /\ GoOn(n, i, i + 1, frame[n].round) \/ GoOn(n, i, 1, frame[n].round + 1)
              /\ i + 1 \in Nat /\ frame[n].round + 1 \in Nat
          BY <3>1, <4>1, <4>4 DEF LoopNext
        <5> QED  BY <4>1, <5>1
      <4>5. CASE LoopEnd(n)
        <5>1. GiveBack(n, i, IF ResultOf(n, i) = "exit" THEN "ok" ELSE ResultOf(n, i))
          BY <4>5 DEF LoopEnd
        <5> QED  BY <5>1
      <4> QED  BY <2>3, <4>2, <4>3, <4>4, <4>5
    <3> QED  BY <1>8, <3>3, <3>4, <3>5
  <2>4. CASE ParFork(n) \/ ParJoin(n) \/ ParFail(n)
    <3>1. Root \notin Children(n)
      BY DEF Children
    <3> QED  BY <1>1, <1>8, <2>4, <3>1 DEF ParFork, ParJoin, ParFail, Collect, TreeStep
  <2>5. CASE Reap(n)
    BY <1>1, <1>8, <2>5 DEF Reap, TreeStep, Leave
  <2> QED  BY <1>8, <2>2, <2>3, <2>4, <2>5 DEF CompositeStep
<1> QED  BY <1>4, <1>5, <1>6, <1>7, <1>8

-----------------------------------------------------------------------------
(***************************************************************************)
(* The steps of the tree as steps of the pipeline.                         *)
(***************************************************************************)

\* A stored path leads from the root to a leaf below it
LEMMA StoredPath ==
    ASSUME Sequence, NEW c \in ConversationRecord, c.pipe # Nil
    PROVE  /\ c.pipe.path \in Leaves /\ c.pipe.path \notin {Nil, <<>>}
           /\ Head(c.pipe.path) \in Nat \ {0}
<1>1. c.pipe.path \in Leaves
  BY DEF ConversationRecord, PipelineState
<1>2. c.pipe.path \in Nodes /\ c.pipe.path # Root
  BY <1>1, RootFacts DEF Leaves
<1> QED  BY <1>1, <1>2, HeadFacts, NodesAreSequences, NilIsNoPath DEF Root

\* A leaf that may ask runs below the child that the root runs
LEMMA UnderStep ==
    ASSUME Sequence, PauseInv, NEW n \in Nodes, n # Root, Live(frame, n), ~Free(n)
    PROVE  Running(Root) /\ frame[Root].at > 0 /\ frame[Root].at = Head(n)
<1>1. Running(Root) /\ frame[Root].at > 0 /\ Root \in Nodes \ Leaves
  BY SpineToRoot, RootFacts DEF PauseInv
<1>2. frame[Root].at \in 1 .. Width(Root)
  <2>1. frame[Root].at \in 0 .. Width(Root) /\ Width(Root) \in Nat
    BY <1>1, RootFacts DEF PauseInv, ShapeInv, Fits, Running
  <2> QED  BY <1>1, <2>1
<1>3. n = Child(Root, frame[Root].at) \/ n \in Below(Child(Root, frame[Root].at))
  BY <1>1, RootAbove DEF PauseInv, ShapeInv, Fits, ShapeOf, InOrder, Running, Sequence
<1> QED  BY <1>1, <1>2, <1>3, HeadFacts

\* What a leaf does to the root, to the conversation and to its file
LEMMA LeafSaves ==
    ASSUME Sequence, PauseInv, NEW n \in Nodes, LeafStep(n), InTree
    PROVE  /\ n \in Leaves /\ Live(frame, n)
           /\ frame'[Root] = frame[Root] /\ main' = main /\ held' = held
           /\ \/ conv.pending = Nil /\ conv'.pending = Nil /\ disk' = disk
              \/ /\ ~Free(n) /\ conv.pending = Nil /\ conv'.pending # Nil /\ disk' = conv'
                 /\ conv'.pipe # Nil /\ conv'.pipe.path = n
              \/ /\ conv.pending # Nil /\ conv'.pending # Nil /\ disk' = conv'
                 /\ conv'.pipe = conv.pipe
<1>1. /\ ShapeInv /\ ShapeInv' /\ IInv /\ IInv' /\ Fits(frame) /\ RemotesUnshared
      /\ conv \in ConversationRecord /\ Root \in Nodes \ Leaves
  BY LeafFrames, RootFacts DEF PauseInv, ShapeInv, IInv, TypeOK, Sequence
<1>2. n \in Leaves /\ Live(frame, n) /\ frame'[Root] = frame[Root]
  BY <1>1, LeafFits
<1>3. main' = main /\ held' = held
  BY LeafFrames
<1>4. CASE LeafAsks(n) \/ LeafProxies(n)
  <2>1. InTurn(n) /\ ~Free(n)
    BY <1>1, <1>4 DEF LeafAsks, LeafProxies, MayAct, TakesTurn, RemotesUnshared
  <2>2. conv.pending = Nil
    BY <2>1, TurnFacts
  <2>3. conv' = Paused(n) /\ SaveConversation(conv')
    BY <1>4 DEF LeafAsks, LeafProxies
  <2>4. /\ conv'.pending = [node |-> n, remote |-> FALSE]
        /\ conv'.pipe = [path |-> n, state |-> state]
    BY <1>1, <2>3 DEF Paused, Counted, ConversationRecord
  <2>5. conv'.pending # Nil /\ conv'.pipe.path = n
    <3>1. [node |-> n, remote |-> FALSE] # Nil
      BY <1>2, ApprovalFacts
    <3> QED  BY <2>4, <3>1
  <2>6. conv'.pipe # Nil
    <3>1. [path |-> n, state |-> state] \in PipelineState
      BY <1>1, <1>2 DEF IInv, TypeOK, PipelineState
    <3> QED  BY <2>4, <3>1, NilIsNoRecord
  <2>7. disk' = conv'
    BY <2>3, <2>5 DEF SaveConversation
  <2> QED  BY <1>2, <1>3, <2>1, <2>2, <2>5, <2>6, <2>7
<1>5. CASE MarkProxy(n)
  <2>1. conv.pending \in Pending /\ conv.pending # Nil
    BY <1>1, <1>5 DEF MarkProxy, PauseInv, PausedTree, ConversationRecord
  <2>2. conv' = [conv EXCEPT !.pending = [conv.pending EXCEPT !.remote = TRUE]]
    BY <1>5 DEF MarkProxy
  <2>3. conv'.pending \in Pending /\ conv'.pipe = conv.pipe
    BY <1>1, <2>1, <2>2 DEF ConversationRecord, Pending
  <2>4. conv'.pending # Nil
    BY <2>3, NilIsNoRecord
  <2>5. disk' = conv'
    BY <1>5, <2>4 DEF MarkProxy, SaveConversation
  <2> QED  BY <1>2, <1>3, <2>1, <2>3, <2>4, <2>5
<1>6. CASE ~(LeafAsks(n) \/ LeafProxies(n) \/ MarkProxy(n))
  <2>1. conv.pending = Nil
    <3>1. CASE LeafResumes(n)
      <4>1. Tip(frame, n)
        BY <3>1, NilIsNoPath, EmptySeq DEF Tip, LeafResumes, Running
      <4> QED  BY <4>1 DEF PauseInv, ResumedTree
    <3>2. CASE ~LeafResumes(n)
      <4>1. InTurn(n)
        BY <1>6, <3>2 DEF LeafStep, NoClient, LeafError, LeafExits, LeafNeedsAuth, LeafOutput,
                          MayAct, TakesTurn
      <4> QED  BY <4>1, TurnFacts
    <3> QED  BY <3>1, <3>2
  <2>2. conv'.pending = conv.pending /\ disk' = disk
    BY <1>1, <1>6 DEF LeafStep, NoClient, TreeStep, LeafError, LeafExits, LeafNeedsAuth,
          LeafOutput, LeafEnds, LeafResumes, Counted, ConversationRecord
  <2> QED  BY <1>2, <1>3, <2>1, <2>2
<1> QED  BY <1>4, <1>5, <1>6

\* Steps of the tree
LEMMA PipeTree ==
    ASSUME Sequence, PipeInv, NEW n \in Nodes, CompositeStep(n) \/ LeafStep(n)
    PROVE  PipeInv'
<1>1. PauseInv /\ PauseInv' /\ RemotesUnshared
  BY PauseComposite, PauseLeaf DEF PipeInv, Sequence
<1>2. CASE CompositeStep(n)
  <2>1. UNCHANGED <<conv, disk, main, held>> /\ InTree' = InTree
    BY <1>2, CompositeRest DEF InTree
  <2>2. Running(Root)' /\ frame'[Root].at = 0 => frame'[Root] = frame[Root]
    <3>1. SeqEnd(Root) => frame[Root].at > 0
      BY DEF SeqEnd, Returned
    <3>2. frame[Root].at \in Nat
      BY <1>1, RootFacts DEF PauseInv, ShapeInv, IInv, TypeOK, Frame
    <3> QED  BY <1>1, <1>2, <3>1, <3>2, CompositeRoot
  <2>3. InTree /\ conv.pending # Nil => frame'[Root].at = frame[Root].at
    <3> SUFFICES ASSUME InTree, conv.pending # Nil PROVE frame'[Root].at = frame[Root].at
      OBVIOUS
    <3>1. PICK w \in Nodes : ~Free(w) /\ Waits(frame, w)
      BY <1>1 DEF PauseInv, PausedTree
    <3>2. SeqEnd(n) /\ frame[n].at > 0
      BY <1>1, <1>2, <3>1, WaitMovesUp DEF SeqEnd, Returned
    <3>3. frame[n].at \in Nat
      BY <1>1 DEF PauseInv, ShapeInv, IInv, TypeOK, Frame
    <3>4. frame[n].at # 0 /\ ~(n = Root /\ SeqNext(Root))
      BY <3>2, <3>3, RootFacts DEF SeqEnd, SeqNext
    <3> QED  BY <1>1, <1>2, <3>4, CompositeRoot
  <2>4. InTree' /\ Running(Root)' /\ frame'[Root].at = 0 =>
            frame'[Root].via = IF disk.pipe = Nil THEN Nil ELSE disk.pipe.path
    BY <2>1, <2>2 DEF PipeInv, Running
  <2> QED  BY <1>1, <2>1, <2>3, <2>4 DEF PipeInv
<1>3. CASE LeafStep(n) /\ ~InTree
  <2>1. main' = main /\ disk' = disk /\ held' = held /\ ~InTree'
    BY <1>1, <1>3, LeftLeaf DEF InTree
  <2> QED  BY <1>1, <2>1 DEF PipeInv
<1>4. CASE LeafStep(n) /\ InTree
  <2>1. /\ n \in Leaves /\ Live(frame, n) /\ n # Root
        /\ frame'[Root] = frame[Root] /\ main' = main /\ held' = held /\ InTree'
    BY <1>1, <1>4, LeafSaves, RootFacts DEF InTree
  <2>2. ~(Running(Root) /\ frame[Root].at = 0)
    BY <1>1, <2>1, RootAbove, RootFacts DEF PauseInv, ShapeInv, Fits, ShapeOf, Running, Bare
  <2>3. conv'.pending # Nil =>
            disk' = conv' /\ conv'.pipe # Nil /\ frame[Root].at = Head(conv'.pipe.path)
    BY <1>1, <1>4, <2>1, LeafSaves, UnderStep DEF PipeInv
  <2>4. main = "resume" => disk'.pipe # Nil
    BY <1>1, <1>4, LeafSaves DEF PipeInv
  <2>5. main' \notin {"exec", "proxy"}
    BY <2>1 DEF InTree
  <2>6. ~(Running(Root)' /\ frame'[Root].at = 0)
    BY <2>1, <2>2 DEF Running
  <2> QED  BY <1>1, <2>1, <2>3, <2>4, <2>5, <2>6 DEF PipeInv
<1> QED  BY <1>2, <1>3, <1>4

\* Steps of the request
LEMMA PipeRequest ==
    ASSUME Sequence, PipeInv, [Next]_vars, RequestStep \/ ClientStep
    PROVE  PipeInv'
<1>1. /\ PauseInv /\ PauseInv' /\ IInv /\ disk \in ConversationRecord
      /\ frame \in [Nodes -> Frame] /\ Root \in Nodes
  BY PauseStep, TreeOK DEF PipeInv, PauseInv, ShapeInv, IInv, TypeOK, Sequence
<1>2. CASE main' \in {"idle", "loop"}
  BY <1>1, <1>2 DEF PipeInv, InTree
<1>3. ASSUME NEW via, frame' = Enter(frame, Root, via)
      PROVE  frame'[Root].via = via
  BY <1>1, <1>3 DEF Enter, NoFrame
<1>4. CASE Message
  <2>1. /\ disk' = disk /\ disk.pending = Nil /\ main' = "run" /\ conv'.pending = Nil
        /\ frame'[Root].via = Nil
    BY <1>1, <1>3, <1>4 DEF Message, ConversationRecord
  <2>2. disk.pipe = Nil
    BY <1>1, <2>1 DEF PauseInv, Kept
  <2> QED  BY <1>1, <2>1, <2>2 DEF PipeInv
<1>5. CASE Approve
  <2>1. held'.pipe = disk.pipe /\ disk' = disk /\ main' \in {"exec", "proxy"}
    BY <1>5 DEF Approve
  <2> QED  BY <1>1, <2>1 DEF PipeInv, InTree
<1>6. CASE ExecReturns \/ ExecAsks \/ ProxyReturns
  <2>1. /\ main \in {"exec", "proxy"} /\ disk' = disk /\ conv' = conv
        /\ \E outputs : Continue(outputs)
    BY <1>6 DEF ExecReturns, ExecAsks, ProxyReturns
  <2>2. held.pipe = disk.pipe /\ conv.pending = Nil
    BY <1>1, <2>1 DEF PipeInv, PauseInv, InHand
  <2>3. CASE held.pipe = Nil
    <3>1. main' = "loop"
      BY <2>1, <2>3 DEF Continue
    <3> QED  BY <1>2, <3>1
  <2>4. CASE held.pipe # Nil
    <3>1. main' = "resume" /\ frame'[Root].via = disk.pipe.path
      BY <1>3, <2>1, <2>2, <2>4 DEF Continue
    <3> QED  BY <1>1, <2>1, <2>2, <2>4, <3>1 DEF PipeInv
  <2> QED  BY <2>3, <2>4
<1>7. CASE ~(Message \/ Approve \/ ExecReturns \/ ExecAsks \/ ProxyReturns)
  <2>1. main' \in {"idle", "loop"}
    BY <1>7 DEF RequestStep, ClientStep, MessageDone, ResumeDone, ResumeFails, ExecFails,
         ResolutionFails, ExecNeedsAuth, ResolutionNeedsAuth, ProxyFails, ProxyNeedsAuth,
         ProxyAsksAgain, SimpleLoopEnds, SimpleLoopAsks, Blocked, Reject, Answer
  <2> QED  BY <1>2, <2>1
<1> QED  BY <1>4, <1>5, <1>6, <1>7

\* Every step keeps the invariant
LEMMA PipeStep ==
    ASSUME Sequence PROVE PipeInv /\ [Next]_vars => PipeInv'
<1> SUFFICES ASSUME PipeInv, [Next]_vars PROVE PipeInv'
  OBVIOUS
<1>1. CASE UNCHANGED vars
  <2>1. PauseInv'
    BY PauseStep DEF PipeInv, Sequence
  <2>2. UNCHANGED <<frame, conv, disk, main, held>>
    BY <1>1 DEF vars
  <2> QED  BY <2>1, <2>2 DEF PipeInv, InTree, Running
<1>2. ASSUME NEW n \in Nodes, CompositeStep(n) \/ LeafStep(n) PROVE PipeInv'
  BY <1>2, PipeTree
<1> QED  BY <1>1, <1>2, PipeRequest DEF Next, ServerStep

\* It holds at the beginning
LEMMA InitPipe == Init => PipeInv
<1>1. Init => PauseInv /\ main = "idle"
  BY InitPause DEF Init
<1> QED  BY <1>1 DEF PipeInv, InTree

\* The stored pause as the pipeline sees it
LEMMA KeptFacts ==
    ASSUME Sequence, PipeInv
    PROVE  /\ disk.pending = Nil => disk.pipe = Nil
           /\ disk.pipe = Nil => AbstractKept = 0
           /\ disk.pipe # Nil => /\ AbstractKept = Head(disk.pipe.path)
                                 /\ AbstractKept \in Nat \ {0}
                                 /\ disk.pipe.path \notin {Nil, <<>>}
           /\ frame[Root].at \in Nat
<1>1. IInv /\ disk \in ConversationRecord /\ Root \in Nodes
  BY TreeOK DEF PipeInv, PauseInv, ShapeInv, IInv, TypeOK
<1>2. disk.pending = Nil => disk.pipe = Nil
  BY <1>1 DEF IInv, Linked
<1>3. frame[Root].at \in Nat
  BY <1>1 DEF IInv, TypeOK, Frame
<1> QED  BY <1>1, <1>2, <1>3, StoredPath DEF AbstractKept

\* A step that the pipeline does not see
LEMMA Unseen ==
    ASSUME InTree' = InTree, conv'.pending = Nil <=> conv.pending = Nil,
           disk'.pipe = disk.pipe,
           InTree => frame'[Root].at = frame[Root].at
    PROVE  UNCHANGED P!pipelineVars
<1>1. AbstractKept' = AbstractKept
  BY DEF AbstractKept
<1> QED  BY <1>1 DEF P!pipelineVars

\* Steps of composite nodes
LEMMA CompositePipeline ==
    ASSUME Sequence, PipeInv, NEW n \in Nodes, CompositeStep(n)
    PROVE  P!PipelineNext \/ UNCHANGED P!pipelineVars
<1>1. UNCHANGED <<conv, disk, main>> /\ InTree' = InTree /\ PauseInv
  BY CompositeRest DEF InTree, PipeInv
<1>2. AbstractKept' = AbstractKept
  BY <1>1 DEF AbstractKept
<1>3. CASE frame'[Root].at = frame[Root].at
  BY <1>1, <1>3, Unseen
<1>4. CASE frame'[Root].at # frame[Root].at
  <2>1. n = Root /\ Running(Root) /\ ~SeqEnd(n)
    <3>1. SeqEnd(Root) => frame[Root].at > 0 /\ ~SeqNext(Root)
      BY <1>1, RootFacts, KeptFacts DEF SeqEnd, SeqNext, Returned
    <3>2. frame[Root].at > 0 => frame[Root].at # 0
      OBVIOUS
    <3> QED  BY <1>1, <1>4, <3>1, <3>2, CompositeRoot
  <2>2. InTree
    BY <1>1, <2>1 DEF PauseInv, PausedTree, Live, Running
  <2>3. conv.pending = Nil
    BY <1>1, <2>1, <2>2, WaitMovesUp DEF PauseInv, PausedTree
  <2>4. CASE SeqNext(Root) /\ frame[Root].at \in 1 .. Width(Root) - 1
             /\ frame'[Root].at = frame[Root].at + 1
    <3>1. P!Advance
      BY <1>1, <1>2, <2>2, <2>3, <2>4 DEF P!Advance, P!Move
    <3> QED  BY <3>1 DEF P!PipelineNext
  <2>5. CASE frame[Root].at = 0 /\ frame'[Root].at = IF frame[Root].via \in {Nil, <<>>} THEN 1
                                                     ELSE Head(frame[Root].via)
    <3>1. frame[Root].via = IF disk.pipe = Nil THEN Nil ELSE disk.pipe.path
      BY <2>1, <2>2, <2>5 DEF PipeInv
    <3>2. frame'[Root].at = IF AbstractKept = 0 THEN 1 ELSE AbstractKept
      BY <2>5, <3>1, KeptFacts
    <3>3. P!Begin
      BY <1>1, <1>2, <2>2, <2>3, <2>5, <3>2 DEF P!Begin, P!Move
    <3> QED  BY <3>3 DEF P!PipelineNext
  <2> QED  BY <1>1, <1>4, <2>1, <2>4, <2>5, CompositeRoot
<1> QED  BY <1>3, <1>4

\* Steps of leaves
LEMMA LeafPipeline ==
    ASSUME Sequence, PipeInv, NEW n \in Nodes, LeafStep(n)
    PROVE  P!PipelineNext \/ UNCHANGED P!pipelineVars
<1>1. PauseInv /\ RemotesUnshared /\ InTree' = InTree
  BY LeafFrames DEF PipeInv, Sequence
<1>2. CASE ~InTree
  <2>1. disk' = disk
    BY <1>1, <1>2, LeftLeaf
  <2>2. AbstractKept' = AbstractKept
    BY <2>1 DEF AbstractKept
  <2> QED  BY <1>1, <1>2, <2>1, <2>2 DEF P!pipelineVars
<1>3. CASE InTree /\ ~(conv.pending = Nil /\ conv'.pending # Nil)
  <2>1. /\ frame'[Root] = frame[Root] /\ (conv'.pending = Nil <=> conv.pending = Nil)
        /\ \/ disk' = disk
           \/ conv.pending # Nil /\ disk' = conv' /\ conv'.pipe = conv.pipe
    BY <1>1, <1>3, LeafSaves
  <2>2. conv.pending # Nil => disk = conv
    BY <1>3 DEF PipeInv
  <2>3. disk'.pipe = disk.pipe
    BY <2>1, <2>2
  <2>4. AbstractKept' = AbstractKept
    BY <2>3 DEF AbstractKept
  <2> QED  BY <1>1, <1>3, <2>1, <2>4 DEF P!pipelineVars
<1>4. CASE InTree /\ conv.pending = Nil /\ conv'.pending # Nil
  <2>1. /\ n \in Leaves /\ Live(frame, n) /\ frame'[Root] = frame[Root] /\ ~Free(n)
        /\ disk' = conv' /\ conv'.pipe # Nil /\ conv'.pipe.path = n
    BY <1>1, <1>4, LeafSaves
  <2>2. frame[Root].at > 0 /\ frame[Root].at = Head(n)
    BY <1>1, <2>1, UnderStep, RootFacts
  <2>3. AbstractKept' = frame[Root].at
    BY <2>1, <2>2 DEF AbstractKept
  <2>4. P!Ask
    BY <1>1, <1>4, <2>1, <2>2, <2>3 DEF P!Ask, P!Move
  <2> QED  BY <2>4 DEF P!PipelineNext
<1> QED  BY <1>2, <1>3, <1>4

\* The tree has returned
LEMMA ReturnPipeline ==
    ASSUME Sequence, PipeInv, MessageDone \/ ResumeDone \/ ResumeFails
    PROVE  P!PipelineNext
<1>1. PauseInv /\ InTree /\ ~InTree' /\ Done(Root)
  BY DEF PipeInv, MessageDone, ResumeDone, ResumeFails, Answer, InTree
<1>2. CASE ResumeFails
  <2>1. conv.pending = Nil /\ disk' = disk /\ disk.pipe # Nil
    BY <1>1, <1>2, RootWaits DEF ResumeFails, PipeInv
  <2>2. AbstractKept' = AbstractKept /\ AbstractKept > 0
    BY <2>1, KeptFacts DEF AbstractKept
  <2>3. P!Fail
    BY <1>1, <2>1, <2>2 DEF P!Fail, P!Move
  <2> QED  BY <2>3 DEF P!PipelineNext
<1>3. CASE (MessageDone \/ ResumeDone) /\ conv.pending = Nil
  <2>1. conv.pipe = Nil
    BY <1>1, <1>3 DEF PauseInv, Kept
  <2>2. disk'.pending = Nil /\ disk'.pipe = Nil
    BY <1>3, <2>1 DEF MessageDone, ResumeDone, SaveConversation, NewConversation
  <2>3. AbstractKept' = 0
    BY <2>2 DEF AbstractKept
  <2>4. P!Finish
    BY <1>1, <1>3, <2>2, <2>3 DEF P!Finish, P!Move
  <2> QED  BY <2>4 DEF P!PipelineNext
<1>4. CASE (MessageDone \/ ResumeDone) /\ conv.pending # Nil
  <2>1. /\ disk' = conv /\ disk = conv /\ conv.pipe # Nil
        /\ frame[Root].at = Head(conv.pipe.path)
    BY <1>1, <1>4 DEF MessageDone, ResumeDone, SaveConversation, PipeInv
  <2>2. disk.pipe # Nil /\ AbstractKept' = frame[Root].at /\ AbstractKept = frame[Root].at
    BY <1>4, <2>1, KeptFacts DEF AbstractKept
  <2>3. P!Stop
    BY <1>1, <1>4, <2>1, <2>2 DEF P!Stop, P!Move
  <2> QED  BY <2>3 DEF P!PipelineNext
<1> QED  BY <1>2, <1>3, <1>4

\* Steps of the other requests
LEMMA RequestPipeline ==
    ASSUME Sequence, PipeInv, RequestStep \/ ClientStep,
           ~(MessageDone \/ ResumeDone \/ ResumeFails)
    PROVE  P!PipelineNext \/ UNCHANGED P!pipelineVars
<1>1. /\ PauseInv /\ IInv /\ disk \in ConversationRecord /\ conv \in ConversationRecord
      /\ ~InTree /\ frame \in [Nodes -> Frame] /\ Root \in Nodes
  BY TreeOK DEF PipeInv, PauseInv, ShapeInv, IInv, TypeOK, InTree, RequestStep, ClientStep,
     Message, Blocked, Approve, Reject, MaySend, ExecReturns, ExecAsks, ExecFails,
     ExecNeedsAuth, ProxyReturns, ProxyFails, ProxyNeedsAuth, ProxyAsksAgain, SimpleLoopEnds,
     SimpleLoopAsks
<1>2. /\ main \in {"exec", "proxy"} => /\ held.pipe = disk.pipe /\ disk.pending # Nil
                                       /\ conv.pending = Nil /\ conv.pipe = Nil
      /\ main = "loop" => conv.pending = Nil /\ conv.pipe = Nil
  BY <1>1 DEF IInv, Resolving, PipeInv, PauseInv, InHand
<1>3. ASSUME disk'.pipe = disk.pipe, ~InTree' PROVE UNCHANGED P!pipelineVars
  <2>1. AbstractKept' = AbstractKept
    BY <1>3 DEF AbstractKept
  <2> QED  BY <1>1, <1>3, <2>1 DEF P!pipelineVars
<1>4. ASSUME disk'.pipe = Nil, ~InTree' PROVE P!PipelineNext \/ UNCHANGED P!pipelineVars
  <2>1. CASE disk.pipe = Nil
    BY <1>3, <1>4, <2>1
  <2>2. CASE disk.pipe # Nil
    <3>1. AbstractKept' = 0
      BY <1>4 DEF AbstractKept
    <3>2. P!Drop
      BY <1>1, <1>4, <2>2, <3>1 DEF P!Drop, P!Move
    <3> QED  BY <3>2 DEF P!PipelineNext
  <2> QED  BY <2>1, <2>2
<1>5. ASSUME NEW via, frame' = Enter(frame, Root, via)
      PROVE  frame'[Root].at = 0
  BY <1>1, <1>5 DEF Enter, NoFrame
<1>6. CASE Message
  <2>1. disk' = disk /\ disk.pending = Nil /\ conv'.pending = Nil /\ InTree' /\ frame'[Root].at = 0
    BY <1>1, <1>5, <1>6 DEF Message, ConversationRecord, InTree
  <2>4. disk.pipe = Nil
    BY <2>1, KeptFacts
  <2>2. AbstractKept' = AbstractKept
    BY <2>1 DEF AbstractKept
  <2>3. P!Start
    BY <1>1, <2>1, <2>2, <2>4 DEF P!Start, P!Move
  <2> QED  BY <2>3 DEF P!PipelineNext
<1>7. CASE Blocked \/ Approve \/ ResolutionFails
  <2>1. disk' = disk /\ ~InTree'
    BY <1>7 DEF Blocked, Approve, ResolutionFails, Answer, InTree
  <2> QED  BY <1>3, <2>1
<1>8. CASE \/ Reject \/ ExecNeedsAuth \/ ProxyNeedsAuth \/ ProxyAsksAgain
           \/ SimpleLoopEnds \/ SimpleLoopAsks
  <2>1. SaveConversation(conv') /\ conv'.pipe = Nil /\ ~InTree'
    BY <1>1, <1>2, <1>8
    DEF Reject, Resolved, ExecNeedsAuth, ProxyNeedsAuth, ResolutionNeedsAuth, ProxyAsksAgain,
        SimpleLoopEnds, SimpleLoopAsks, Answer, ConversationRecord, InTree
  <2>2. disk'.pipe = Nil
    BY <2>1 DEF SaveConversation, NewConversation
  <2> QED  BY <1>4, <2>1, <2>2
<1>9. CASE ExecReturns \/ ExecAsks \/ ProxyReturns \/ (ExecFails /\ ~ResolutionFails)
  <2>1. disk' = disk /\ conv' = conv /\ main \in {"exec", "proxy"}
    BY <1>9 DEF ExecReturns, ExecAsks, ProxyReturns, ExecFails
  <2>2. CASE main' = "loop"
    BY <1>3, <2>1, <2>2 DEF InTree
  <2>3. CASE main' # "loop"
    <3>1. /\ \E outputs : Continue(outputs)
          /\ held.pipe # Nil
      BY <1>9, <2>3 DEF ExecReturns, ExecAsks, ProxyReturns, ExecFails, Continue
    <3>2. InTree' /\ frame'[Root].at = 0 /\ conv'.pending = Nil /\ disk.pipe # Nil
      BY <1>2, <1>5, <2>1, <3>1 DEF Continue, InTree
    <3>3. AbstractKept' = AbstractKept
      BY <2>1 DEF AbstractKept
    <3>4. P!Resume
      BY <1>1, <2>1, <3>2, <3>3 DEF P!Resume, P!Move
    <3> QED  BY <3>4 DEF P!PipelineNext
  <2> QED  BY <2>2, <2>3
<1> QED  BY <1>6, <1>7, <1>8, <1>9 DEF RequestStep, ClientStep, ProxyFails, ExecFails

\* A tree whose root is sequential implements Pipeline: it stops at the child that asks,
\* goes on at that child after the approval, and runs its children in order
\* (executeSequential with ResumeInfo, pauseForApproval, ResolveApproval).
THEOREM TreeImplementsPipeline ==
    ASSUME Sequence PROVE Spec => ImplementsPipeline
<1>1. Init => P!PipelineInit
  <2> SUFFICES ASSUME Init PROVE P!PipelineInit
    OBVIOUS
  <2>1. ~InTree /\ disk.pending = Nil /\ disk.pipe = Nil
    BY DEF Init, InTree, NewConversation
  <2>2. AbstractKept = 0
    BY <2>1 DEF AbstractKept
  <2> QED  BY <2>1, <2>2 DEF P!PipelineInit
<1>2. PipeInv /\ [Next]_vars => [P!PipelineNext]_(P!pipelineVars)
  <2> SUFFICES ASSUME PipeInv, [Next]_vars PROVE P!PipelineNext \/ UNCHANGED P!pipelineVars
    OBVIOUS
  <2>1. CASE UNCHANGED vars
    <3>1. InTree' = InTree /\ conv' = conv /\ disk' = disk /\ frame' = frame
      BY <2>1 DEF vars, InTree
    <3> QED  BY <3>1, Unseen
  <2>2. ASSUME NEW n \in Nodes, CompositeStep(n) \/ LeafStep(n)
        PROVE  P!PipelineNext \/ UNCHANGED P!pipelineVars
    BY <2>2, CompositePipeline, LeafPipeline
  <2> QED  BY <2>1, <2>2, ReturnPipeline, RequestPipeline DEF Next, ServerStep
<1> QED  BY <1>1, <1>2, InitPipe, PipeStep, PTL DEF Spec, ImplementsPipeline, P!PipelineSpec

-----------------------------------------------------------------------------
(***************************************************************************)
(* The turns of a leaf, where no remote agent below a parallel or a loop   *)
(* node asks for an approval.                                              *)
(*                                                                         *)
(* A leaf takes at most one turn in each iteration of the loops that it is *)
(* in.  The iterations in which it may still be called are those that one  *)
(* of the nodes above it has left: a sequence that has not come to it, a   *)
(* loop that will begin again.  No step adds to them, and a turn uses one  *)
(* up, so that the turns so far and the iterations left are never more     *)
(* than all iterations.  A pause stores a transcript without turns of the  *)
(* leaves after the one that asked, and the resumed tree comes to no other.*)
(***************************************************************************)

\* The child of p that leads to n
Towards(p, n) == n[Len(p) + 1]

\* The nodes that n is called through
Way(n) == Ancestors(n) \cup {n}

\* The tree comes to n after it has come to w
After(n, w) == \E p \in Ancestors(n) \cap Ancestors(w) : Towards(p, w) < Towards(p, n)

\* Node p has still to call n, or n to take its turn, in iteration s
Ahead(f, p, n, s) ==
    \/ p = n /\ f[n].via # <<>>
    \/ p # n /\ f[p].at = 0 /\ (f[p].via = Nil \/ After(n, Target(f, p)))
    \/ p # n /\ f[p].at > 0 /\ Kind[p] = "sequential" /\ f[p].at < Towards(p, n)
    \/ /\ p # n /\ f[p].at > 0 /\ Kind[p] = "loop"
       /\ s[p] > f[p].round \/ (s[p] = f[p].round /\ f[p].at < Towards(p, n))

\* ... and r holds the iterations of the loops that p is in
Offers(f, r, p, n, s) ==
    /\ f[p].st = "run"
    /\ \A q \in Loops(p) : s[q] = r[q]
    /\ Ahead(f, p, n, s)

\* The iterations in which n may still be called
Left(f, r, n) == {s \in Iterations(n) : \E p \in Way(n) : Offers(f, r, p, n, s)}

LoopNodes == {n \in Nodes : Kind[n] = "loop"}

\* r holds the iterations of the loops that run, and of those that have ended
\* above activations that run on
Clock(f, r) ==
    /\ r \in [LoopNodes -> 0 .. MaxIterations - 1]
    /\ \A q \in LoopNodes : f[q].st = "run" => r[q] = f[q].round

Bounded(f, r, t) == \A n \in Leaves : t[n] + Cardinality(Left(f, r, n)) <= Allowed(n)

Within(f, t) == \E r : Clock(f, r) /\ Bounded(f, r, t)

\* A transcript that a pause stores has no turn of a leaf after the one that asked
Unspent(t, pipe) == pipe # Nil => \A n \in Leaves : After(n, pipe.path) => t[n] = 0

\* The inductive invariant
TurnInv ==
    /\ PauseInv
    /\ Within(frame, conv.turns)
    /\ \A n \in Leaves : disk.turns[n] <= Allowed(n)
    /\ Unspent(disk.turns, disk.pipe)
    /\ InTree => Unspent(conv.turns, conv.pipe)
    /\ main \in {"exec", "proxy"} => Unspent(conv.turns, held.pipe)

\* A set of functions between finite sets is finite
LEMMA FunctionsFinite ==
    ASSUME NEW S, NEW T, IsFiniteSet(S), IsFiniteSet(T)
    PROVE  IsFiniteSet([S -> T])
<1> DEFINE Graph == [f \in [S -> T] |-> {<<x, f[x]>> : x \in S}]
<1>1. IsFiniteSet(SUBSET (S \X T))
  BY FS_Product, FS_SUBSET
<1>2. Graph \in [[S -> T] -> SUBSET (S \X T)]
  OBVIOUS
<1>3. ASSUME NEW f \in [S -> T], NEW g \in [S -> T], Graph[f] = Graph[g]
      PROVE  f = g
  <2>1. ASSUME NEW x \in S PROVE f[x] = g[x]
    <3>1. <<x, f[x]>> \in Graph[f]
      OBVIOUS
    <3>2. <<x, f[x]>> \in Graph[g]
      BY <1>3, <3>1
    <3>3. PICK y \in S : <<x, f[x]>> = <<y, g[y]>>
      BY <3>2
    <3> QED  BY <3>3
  <2> QED  BY <2>1
<1> HIDE DEF Graph
<1>4. Graph \in Injection([S -> T], SUBSET (S \X T))
  BY <1>2, <1>3, Zenon DEF Injection, IsInjective
<1> QED  BY <1>1, <1>4, FS_Injection, Zenon

\* The iterations of a leaf are finitely many
LEMMA IterationsFinite ==
    ASSUME NEW n \in Nodes
    PROVE  IsFiniteSet(Iterations(n)) /\ Allowed(n) \in Nat
<1>1. n \in Seq(Nat \ {0}) /\ Len(n) \in Nat
  BY NodesAreSequences
<1> DEFINE prefix == [k \in 0 .. Len(n) - 1 |-> SubSeq(n, 1, k)]
<1>2. IsFiniteSet(0 .. Len(n) - 1) /\ IsFiniteSet(0 .. MaxIterations - 1)
  BY <1>1, FS_Interval, OrchestratorParameters
<1>3. prefix \in Surjection(0 .. Len(n) - 1, Ancestors(n))
  BY DEF Surjection, Ancestors
<1> HIDE DEF prefix
<1>4. IsFiniteSet(Ancestors(n))
  BY <1>2, <1>3, FS_Surjection
<1>5. IsFiniteSet(Loops(n))
  BY <1>4, FS_Subset DEF Loops
<1>6. IsFiniteSet(Iterations(n))
  BY <1>2, <1>5, FunctionsFinite DEF Iterations
<1> QED  BY <1>6, FS_CardinalityType DEF Allowed

\* What is left is at most everything, and less is left of less
LEMMA LeftCounts ==
    ASSUME NEW n \in Nodes, NEW f, NEW r
    PROVE  /\ Cardinality(Left(f, r, n)) \in Nat /\ Cardinality(Left(f, r, n)) <= Allowed(n)
           /\ IsFiniteSet(Left(f, r, n))
           /\ Left(f, r, n) = Iterations(n) => Cardinality(Left(f, r, n)) = Allowed(n)
           /\ Left(f, r, n) = {} => Cardinality(Left(f, r, n)) = 0
<1>1. Left(f, r, n) \in SUBSET Iterations(n)
  BY DEF Left
<1>2. IsFiniteSet(Left(f, r, n)) /\ Cardinality(Left(f, r, n)) <= Allowed(n)
  BY <1>1, IterationsFinite, FS_Subset DEF Allowed
<1>3. Cardinality(Left(f, r, n)) \in Nat
  BY <1>2, FS_CardinalityType
<1> QED  BY <1>2, <1>3, FS_EmptySet DEF Allowed

LEMMA LeftShrinks ==
    ASSUME NEW n \in Nodes, NEW f, NEW r, NEW g, NEW q, Left(g, q, n) \subseteq Left(f, r, n)
    PROVE  Cardinality(Left(g, q, n)) <= Cardinality(Left(f, r, n))
<1>1. Left(g, q, n) \in SUBSET Left(f, r, n)
  OBVIOUS
<1> QED  BY <1>1, LeftCounts, FS_Subset

LEMMA LeftLess ==
    ASSUME NEW n \in Nodes, NEW f, NEW r, NEW g, NEW q, Left(g, q, n) \subseteq Left(f, r, n),
           NEW s \in Left(f, r, n), s \notin Left(g, q, n)
    PROVE  Cardinality(Left(g, q, n)) + 1 <= Cardinality(Left(f, r, n))
<1> DEFINE L == Left(f, r, n)
<1>1. Left(g, q, n) \in SUBSET (L \ {s})
  OBVIOUS
<1>2. IsFiniteSet(L) /\ Cardinality(L) \in Nat
  BY LeftCounts
<1>3. IsFiniteSet(L \ {s}) /\ Cardinality(L \ {s}) = Cardinality(L) - 1
  BY <1>2, FS_RemoveElement
<1>4. Cardinality(Left(g, q, n)) <= Cardinality(L \ {s})
  BY <1>1, <1>3, FS_Subset
<1>5. Cardinality(Left(g, q, n)) \in Nat
  BY LeftCounts
<1> HIDE DEF L
<1> QED  BY <1>2, <1>3, <1>4, <1>5 DEF L

\* Nodes on the way are nodes, and the child on the way is a child
LEMMA WayFacts ==
    ASSUME NEW n \in Leaves
    PROVE  /\ Way(n) \subseteq Nodes
           /\ \A p \in Way(n) : p # n => p \in Nodes \ Leaves /\ n \in Below(p)
           /\ \A p \in Ancestors(n) : p # n /\ p \in Nodes \ Leaves /\ n \in Below(p)
<1>1. n \in Nodes
  BY DEF Leaves
<1>2. Ancestors(n) \subseteq Nodes \ Leaves
  BY <1>1, TreeOK
<1> QED  BY <1>1, <1>2 DEF Way, Below

LEMMA TowardsFacts ==
    ASSUME NEW p \in Nodes, NEW n \in Below(p)
    PROVE  /\ p \in Nodes \ Leaves /\ Towards(p, n) \in 1 .. Width(p)
           /\ n = Child(p, Towards(p, n)) \/ n \in Below(Child(p, Towards(p, n)))
<1>1. p \in Nodes \ Leaves
  BY BelowSplits
<1>2. PICK i \in 1 .. Width(p) : n = Child(p, i) \/ n \in Below(Child(p, i))
  BY BelowSplits
<1>3. p \in Seq(Nat \ {0}) /\ i \in Nat \ {0} /\ Len(p) \in Nat
  BY NodesAreSequences, <1>1, TreeOK
<1>4. Child(p, i) \in Nodes /\ Len(Child(p, i)) = Len(p) + 1 /\ Child(p, i)[Len(p) + 1] = i
  BY <1>1, <1>3, ChildIsNode DEF Child
<1>5. n[Len(p) + 1] = i
  <2>1. CASE n = Child(p, i)
    BY <1>4, <2>1
  <2>2. CASE n \in Below(Child(p, i))
    <3>1. \A x \in 1 .. Len(Child(p, i)) : Child(p, i)[x] = n[x]
      BY <1>4, <2>2, PrefixFacts DEF Below
    <3>2. Len(p) + 1 \in 1 .. Len(Child(p, i))
      BY <1>3, <1>4
    <3> QED  BY <1>4, <3>1, <3>2
  <2> QED  BY <1>2, <2>1, <2>2
<1> QED  BY <1>1, <1>2, <1>5 DEF Towards

\* A child comes on the way where its parent does, and is in the loops of its parent
LEMMA ChildOnWay ==
    ASSUME NEW m \in Nodes \ Leaves, NEW i \in 1 .. Width(m), NEW n \in Leaves,
           Child(m, i) \in Way(n)
    PROVE  /\ m \in Way(n) /\ m # n /\ Towards(m, n) = i
           /\ Loops(m) \subseteq Loops(Child(m, i))
           /\ Kind[m] = "loop" => m \in Loops(Child(m, i))
<1> DEFINE c == Child(m, i)
<1>1. c \in Nodes /\ c \in Below(m) /\ n \in Nodes
  BY ChildIsNode, ChildFacts DEF Leaves
<1>5. n = c \/ n \in Below(c)
  BY <1>1 DEF Way, Below
<1>2. n \in Below(m)
  BY <1>1, <1>5, BelowFacts
<1>3. \A a \in Ancestors(m) : a \in Ancestors(c)
  <2> TAKE a \in Ancestors(m)
  <2>1. a \in Nodes
    BY TreeOK
  <2> QED  BY <1>1, <2>1, BelowFacts DEF Below
<1>4. Towards(m, n) \in 1 .. Width(m)
      /\ (n = Child(m, Towards(m, n)) \/ n \in Below(Child(m, Towards(m, n))))
  BY <1>2, TowardsFacts
<1>6. Towards(m, n) = i
  BY <1>1, <1>4, <1>5, OneBranch
<1> QED  BY <1>1, <1>2, <1>3, <1>6 DEF Way, Below, Loops

\* The iterations where only calls end
LEMMA FewerCalls ==
    ASSUME NEW f, NEW g, NEW r, Clock(f, r), \A p \in Nodes : g[p].st = "run" => g[p] = f[p]
    PROVE  /\ Clock(g, r)
           /\ \A n \in Leaves : Left(g, r, n) \subseteq Left(f, r, n)
<1>1. Clock(g, r)
  BY DEF Clock, LoopNodes
<1>2. ASSUME NEW n \in Leaves, NEW s, NEW p \in Way(n), Offers(g, r, p, n, s)
      PROVE  Offers(f, r, p, n, s)
  <2>1. p \in Nodes
    BY WayFacts
  <2>2. g[p] = f[p]
    BY <1>2, <2>1 DEF Offers
  <2> QED  BY <1>2, <2>2 DEF Offers, Ahead, Target
<1> QED  BY <1>1, <1>2 DEF Left

\* The iterations of the loops after a step that calls the children C of node m
Wound(g, r) == [q \in LoopNodes |-> IF g[q].st = "run" THEN g[q].round ELSE r[q]]

\* No iteration is added by a step from f to g
Uses(f, r, g) == \E q : Clock(g, q) /\ \A n \in Leaves : Left(g, q, n) \subseteq Left(f, r, n)

\* Node m calls its children C, for iterations that it had left
Calling(f, g, m, C) ==
    /\ m \in Nodes \ Leaves /\ C \subseteq Nodes
    /\ f[m].st = "run" /\ g[m].st = "run"
    /\ \A c \in C : g[c].round = 0 /\ \E i \in 1 .. Width(m) : c = Child(m, i)
    /\ \A x \in Nodes \ (C \cup {m}) : g[x].st = "run" => g[x] = f[x]
    /\ \A x \in Below(m) : g[x].st = "run" => x \in C
    /\ Kind[m] = "loop" => g[m].round \in 0 .. MaxIterations - 1
    /\ \A n \in Leaves : \A s \in Iterations(n) : \A p \in C \cup {m} :
          /\ p \in Way(n)
          /\ Ahead(g, p, n, s)
          /\ p \in C /\ Kind[m] = "loop" => s[m] = g[m].round
          => Ahead(f, m, n, s)

LEMMA NewCalls ==
    ASSUME NEW f, NEW g, NEW r, Clock(f, r), NEW m, NEW C, Calling(f, g, m, C)
    PROVE  Uses(f, r, g)
<1> DEFINE q == Wound(g, r)
<1> USE DEF Calling
<1>1. \A x \in LoopNodes : q[x] = IF g[x].st = "run" THEN g[x].round ELSE r[x]
  BY DEF Wound
<1>2. \A c \in C : c \in Below(m) /\ c # m
  BY ChildFacts, BelowFacts
<1>3. Clock(g, q)
  <2>1. ASSUME NEW x \in LoopNodes PROVE q[x] \in 0 .. MaxIterations - 1
    <3>1. r[x] \in 0 .. MaxIterations - 1 /\ (f[x].st = "run" => r[x] = f[x].round)
      BY DEF Clock
    <3>2. 0 \in 0 .. MaxIterations - 1
      BY OrchestratorParameters
    <3>3. CASE g[x].st = "run"
      BY <1>1, <3>1, <3>2, <3>3 DEF LoopNodes
    <3>4. CASE g[x].st # "run"
      BY <1>1, <3>1, <3>4
    <3> QED  BY <3>3, <3>4
  <2>2. q = [x \in LoopNodes |-> q[x]]
    BY DEF Wound
  <2> HIDE DEF q
  <2>3. q \in [LoopNodes -> 0 .. MaxIterations - 1]
    BY <2>1, <2>2
  <2> QED  BY <1>1, <2>3 DEF Clock
<1> HIDE DEF q
<1>4. ASSUME NEW x \in LoopNodes, x # m, x \notin C PROVE q[x] = r[x]
  <2>1. x \in Nodes \ (C \cup {m})
    BY <1>4 DEF LoopNodes
  <2> QED  BY <1>1, <1>4, <2>1 DEF Clock
<1>5. ASSUME NEW n \in Leaves, NEW s \in Iterations(n), NEW p \in Way(n), Offers(g, q, p, n, s)
      PROVE  \E o \in Way(n) : Offers(f, r, o, n, s)
  <2>1. p \in Nodes /\ g[p].st = "run"
    BY <1>5, WayFacts DEF Offers
  <2>2. \A x \in Loops(p) : x \in LoopNodes /\ p \in Below(x) /\ s[x] = q[x]
    BY <1>5, <2>1, TreeOK DEF Loops, LoopNodes, Below, Offers
  <2>3. CASE p \in C \cup {m}
    <3>1. \A x \in Loops(m) : x \in LoopNodes /\ m \in Below(x)
      BY TreeOK DEF Loops, LoopNodes, Below
    <3>2. \A x \in Loops(m) : x # m /\ x \notin C
      BY <1>2, <3>1, BelowFacts
    <3>3. m \in Way(n) /\ Loops(m) \subseteq Loops(p)
          /\ (p \in C /\ Kind[m] = "loop" => m \in Loops(p))
      <4>1. CASE p = m
        BY <1>2, <4>1
      <4>2. CASE p \in C
        <5>1. PICK i \in 1 .. Width(m) : p = Child(m, i)
          BY <4>2
        <5> QED  BY <5>1, ChildOnWay
      <4> QED  BY <2>3, <4>1, <4>2
    <3>4. \A x \in Loops(m) : s[x] = r[x]
      BY <1>4, <2>2, <3>1, <3>2, <3>3
    <3>5. p \in C /\ Kind[m] = "loop" => s[m] = g[m].round
      BY <1>1, <2>2, <3>3
    <3>6. Ahead(f, m, n, s)
      BY <1>5, <2>3, <3>5 DEF Offers
    <3> QED  BY <3>3, <3>4, <3>6 DEF Offers
  <2>4. CASE p \notin C \cup {m}
    <3>1. p \notin Below(m) /\ g[p] = f[p]
      BY <2>1, <2>4
    <3>2. \A x \in Loops(p) : x # m /\ x \notin C
      <4> TAKE x \in Loops(p)
      <4>1. x \in Nodes /\ p \in Below(x)
        BY <2>2 DEF LoopNodes
      <4>2. x # m
        BY <3>1, <4>1
      <4>3. x \notin C
        BY <1>2, <2>1, <3>1, <4>1, BelowFacts
      <4> QED  BY <4>2, <4>3
    <3>3. \A x \in Loops(p) : s[x] = r[x]
      BY <1>4, <2>2, <3>2
    <3> QED  BY <1>5, <3>1, <3>3 DEF Offers, Ahead, Target
  <2> QED  BY <2>3, <2>4
<1>6. \A n \in Leaves : Left(g, q, n) \subseteq Left(f, r, n)
  BY <1>5 DEF Left
<1> QED  BY <1>3, <1>6 DEF Uses

\* The activation of a node that is called
Called(via) == [NoFrame EXCEPT !.st = "run", !.via = via]

\* The activations after a call of a child from node m
Begun(f, m, i, via) == Enter([f EXCEPT ![m].at = i], Child(m, i), via)

LEMMA StartFrames ==
    ASSUME NEW f \in [Nodes -> Frame], NEW m \in Nodes \ Leaves, NEW i \in 1 .. Width(m), NEW via,
           NEW g, g = Begun(f, m, i, via)
    PROVE  /\ g[m].st = f[m].st /\ g[m].at = i /\ g[m].round = f[m].round
           /\ g[Child(m, i)] = Called(via)
           /\ \A x \in Nodes \ {m, Child(m, i)} : g[x] = f[x]
<1> DEFINE c == Child(m, i)
           h == [f EXCEPT ![m].at = i]
           e == Called(via)
<1>1. c \in Nodes /\ c # m
  BY ChildIsNode, ChildFacts, BelowFacts
<1>2. /\ h[m] = [f[m] EXCEPT !.at = i] /\ h = [x \in Nodes |-> h[x]]
      /\ \A x \in Nodes \ {m} : h[x] = f[x]
  OBVIOUS
<1>3. [f[m] EXCEPT !.at = i].st = f[m].st /\ [f[m] EXCEPT !.at = i].at = i
      /\ [f[m] EXCEPT !.at = i].round = f[m].round
  BY DEF Frame
<1>4. g = [h EXCEPT ![c] = e]
  BY DEF Begun, Enter, Called
<1> HIDE DEF h, e, c
<1>5. g[c] = e /\ \A x \in Nodes \ {c} : g[x] = h[x]
  BY <1>1, <1>2, <1>4
<1> QED  BY <1>1, <1>2, <1>3, <1>5 DEF c, e

\* ... and after the return of child i and a call of child j
GoneOn(f, m, i, j, round) ==
    Enter([Leave(f, Child(m, i)) EXCEPT ![m].at = j, ![m].round = round], Child(m, j), Nil)

LEMMA GoOnFrames ==
    ASSUME NEW f \in [Nodes -> Frame], NEW m \in Nodes \ Leaves,
           NEW i \in 1 .. Width(m), NEW j \in 1 .. Width(m), NEW round, NEW g,
           g = GoneOn(f, m, i, j, round)
    PROVE  /\ g[m].st = f[m].st /\ g[m].at = j /\ g[m].round = round
           /\ g[Child(m, j)] = Called(Nil)
           /\ \A x \in Nodes \ {m, Child(m, j)} : g[x] = f[x] \/ g[x] = NoFrame
<1> DEFINE c == Child(m, i)
           d == Child(m, j)
           l == Leave(f, c)
           q == [f[m] EXCEPT !.at = j, !.round = round]
           h == [l EXCEPT ![m].at = j, ![m].round = round]
           e == Called(Nil)
<1>1. c \in Nodes /\ c # m /\ d \in Nodes /\ d # m
  BY ChildIsNode, ChildFacts, BelowFacts
<1>2. q.st = f[m].st /\ q.at = j /\ q.round = round
  BY DEF Frame
<1>3. g = Enter(h, d, Nil)
  BY DEF GoneOn
<1> HIDE DEF c, d
<1>4. l[m] = f[m] /\ l = [x \in Nodes |-> l[x]] /\ \A x \in Nodes : l[x] = f[x] \/ l[x] = NoFrame
  BY <1>1 DEF Leave
<1> HIDE DEF l
<1>5. h = [l EXCEPT ![m] = q]
  BY <1>4
<1> HIDE DEF q, h
<1>6. h[m] = q /\ h = [x \in Nodes |-> h[x]] /\ \A x \in Nodes \ {m} : h[x] = l[x]
  BY <1>4, <1>5
<1>7. g = [h EXCEPT ![d] = e]
  BY <1>3 DEF Enter, Called
<1> HIDE DEF e
<1>8. g[d] = e /\ \A x \in Nodes \ {d} : g[x] = h[x]
  BY <1>1, <1>6, <1>7
<1> QED  BY <1>1, <1>2, <1>4, <1>6, <1>8 DEF d, e

\* A sequence or a loop that calls its child i
LEMMA CallKeeps ==
    ASSUME PauseInv, Fits(frame'), NEW r, Clock(frame, r),
           NEW m \in Nodes \ Leaves, NEW i \in 1 .. Width(m), NEW via,
           Running(m), InOrder(m), frame'[m].st = "run", frame'[m].at = i,
           frame'[Child(m, i)] = Called(via),
           \A x \in Nodes \ {m, Child(m, i)} : frame'[x] = frame[x] \/ frame'[x] = NoFrame,
           Kind[m] = "loop" => frame'[m].round \in 0 .. MaxIterations - 1,
           \A n \in Leaves : \A s \in Iterations(n) :
               n \in Below(m) /\ Ahead(frame', m, n, s) => Ahead(frame, m, n, s),
           \A n \in Leaves : \A s \in Iterations(n) :
               /\ Child(m, i) \in Way(n) /\ n \in Below(m) /\ Towards(m, n) = i
               /\ Ahead(frame', Child(m, i), n, s)
               /\ Kind[m] = "loop" => s[m] = frame'[m].round
               => Ahead(frame, m, n, s)
    PROVE  Uses(frame, r, frame')
<1> DEFINE c == Child(m, i)
           C == {c}
<1>1. c \in Nodes /\ c \in Below(m) /\ c # m /\ i > 0 /\ i \in Nat
  BY ChildIsNode, ChildFacts, BelowFacts, TreeOK
<1>2. frame'[c].st = "run" /\ frame'[c].at = 0 /\ frame'[c].round = 0
  BY DEF NoFrame, Called
<1>3. \A x \in Nodes \ (C \cup {m}) : frame'[x].st = "run" => frame'[x] = frame[x]
  BY DEF NoFrame
<1>4. \A x \in Below(m) : frame'[x].st = "run" => x \in C
  <2>1. Bare(frame', c)
    BY <1>1, <1>2 DEF Fits, ShapeOf
  <2>2. \A x \in Below(m) : Live(frame', x) => x = c \/ x \in Below(c)
    BY <1>1 DEF Fits, ShapeOf
  <2> QED  BY <2>1, <2>2 DEF Bare, Live
<1>5. ASSUME NEW n \in Leaves, NEW s \in Iterations(n), NEW p \in C \cup {m},
             p \in Way(n), Ahead(frame', p, n, s),
             p \in C /\ Kind[m] = "loop" => s[m] = frame'[m].round
      PROVE  Ahead(frame, m, n, s)
  <2>1. CASE p = m
    <3>1. n \in Below(m)
      BY <1>5, <2>1, WayFacts, BelowFacts DEF Ahead, Leaves
    <3> QED  BY <1>5, <2>1, <3>1
  <2>2. CASE p = c
    <3>1. m \in Way(n) /\ m # n /\ Towards(m, n) = i
      BY <1>5, <2>2, ChildOnWay
    <3>2. n \in Below(m)
      BY <3>1, WayFacts
    <3> QED  BY <1>5, <2>2, <3>1, <3>2
  <2> QED  BY <1>5, <2>1, <2>2
<1>6. \A x \in C : frame'[x].round = 0 /\ \E k \in 1 .. Width(m) : x = Child(m, k)
  BY <1>2
<1>8. C \subseteq Nodes /\ frame[m].st = "run"
  BY <1>1 DEF Running
<1>9. \A n \in Leaves : \A s \in Iterations(n) : \A p \in C \cup {m} :
         /\ p \in Way(n)
         /\ Ahead(frame', p, n, s)
         /\ p \in C /\ Kind[m] = "loop" => s[m] = frame'[m].round
         => Ahead(frame, m, n, s)
  BY <1>5
<1> HIDE DEF C
<1>10. Calling(frame, frame', m, C)
  BY <1>3, <1>4, <1>6, <1>8, <1>9 DEF Calling
<1> QED  BY <1>10, NewCalls

\* Where only calls end, no iteration is added
LEMMA FewerUses ==
    ASSUME NEW f, NEW g, NEW r, Clock(f, r), \A p \in Nodes : g[p].st = "run" => g[p] = f[p]
    PROVE  Uses(f, r, g)
BY FewerCalls DEF Uses

\* A sequence or a loop begins
LEMMA StartUses ==
    ASSUME PauseInv, NEW m \in Nodes, SeqStart(m) \/ LoopStart(m), NEW r, Clock(frame, r)
    PROVE  Uses(frame, r, frame')
<1>1. /\ ShapeInv' /\ Fits(frame') /\ frame \in [Nodes -> Frame]
      /\ m \in Nodes \ Leaves /\ Running(m) /\ InOrder(m) /\ frame[m].at = 0
  BY ShapeStep DEF PauseInv, ShapeInv, IInv, TypeOK, SeqStart, LoopStart, Leaves, InOrder, Next,
     ServerStep, CompositeStep
<1> DEFINE path == frame[m].via
<1>2. path # Nil => /\ Kind[m] = "sequential" /\ path \in Seq(Nat \ {0}) /\ path # <<>>
                    /\ m \o path \in Nodes /\ m \o path \in Leaves /\ Target(frame, m) = m \o path
  <2> SUFFICES ASSUME path # Nil
               PROVE  /\ Kind[m] = "sequential" /\ path \in Seq(Nat \ {0}) /\ path # <<>>
                      /\ m \o path \in Nodes /\ m \o path \in Leaves /\ Target(frame, m) = m \o path
    OBVIOUS
  <2>1. Tip(frame, m)
    BY <1>1 DEF Tip, Running
  <2> QED  BY <1>1, <2>1, TipFacts DEF PauseInv, ResumedTree, Target
<1> DEFINE i == IF path = Nil THEN 1 ELSE Head(path)
           via == IF path = Nil THEN Nil ELSE Tail(path)
           c == Child(m, i)
<1>3. /\ i \in 1 .. Width(m) /\ i \in Nat /\ i > 0
      /\ path # Nil => c \o via = Target(frame, m) /\ via \in Seq(Nat \ {0})
  <2>1. CASE path = Nil
    BY <1>1, <2>1, TreeOK
  <2>2. CASE path # Nil
    <3>1. Head(path) \in 1 .. Width(m) /\ Tail(path) \in Seq(Nat \ {0})
          /\ Child(m, Head(path)) \o Tail(path) = m \o path
      BY <1>1, <1>2, <2>2, PathStep
    <3>2. Head(path) \in Nat /\ Head(path) > 0
      BY <1>1, <3>1, TreeOK
    <3>3. i = Head(path) /\ via = Tail(path)
      BY <2>2
    <3> HIDE DEF path, i, via
    <3> QED  BY <1>2, <2>2, <3>1, <3>2, <3>3
  <2> QED  BY <2>1, <2>2
<1>4. frame' = Enter([frame EXCEPT ![m].at = i], c, via)
  <2>1. CASE path = Nil
    BY <2>1 DEF SeqStart, LoopStart, TreeStep
  <2>2. CASE path # Nil
    BY <1>2, <2>2 DEF SeqStart, LoopStart, TreeStep
  <2> QED  BY <2>1, <2>2
<1> HIDE DEF path, i, via
<1>5. /\ frame'[m].st = "run" /\ frame'[m].at = i /\ frame'[m].round = frame[m].round
      /\ frame'[c] = Called(via)
      /\ \A x \in Nodes \ {m, c} : frame'[x] = frame[x]
  <2> DEFINE g == frame'
  <2>1. g = Begun(frame, m, i, via) /\ frame[m].st = "run"
    BY <1>1, <1>4 DEF Begun, Running
  <2> HIDE DEF g
  <2>2. /\ g[m].st = frame[m].st /\ g[m].at = i /\ g[m].round = frame[m].round
        /\ g[Child(m, i)] = Called(via)
        /\ \A x \in Nodes \ {m, Child(m, i)} : g[x] = frame[x]
    BY <1>1, <1>3, <2>1, StartFrames
  <2> QED  BY <2>1, <2>2 DEF g
<1>6. Kind[m] = "loop" => frame'[m].round \in 0 .. MaxIterations - 1
  BY <1>1, <1>5 DEF Clock, LoopNodes, Running
<1>7. ASSUME NEW n \in Leaves, NEW s, n \in Below(m), path = Nil
      PROVE  Ahead(frame, m, n, s)
  BY <1>1, <1>7 DEF Ahead, path, Leaves
<1>8. ASSUME NEW n \in Leaves, NEW s, n \in Below(m), path # Nil, After(n, Target(frame, m))
      PROVE  Ahead(frame, m, n, s)
  BY <1>1, <1>8 DEF Ahead, Leaves
<1>9. ASSUME NEW n \in Leaves, NEW s \in Iterations(n), n \in Below(m), Ahead(frame', m, n, s)
      PROVE  Ahead(frame, m, n, s)
  <2>1. CASE path # Nil
    <3>1. i < Towards(m, n)
      BY <1>1, <1>2, <1>3, <1>5, <1>9, <2>1 DEF Ahead, path
    <3>2. m \in Ancestors(n) /\ m \in Ancestors(Target(frame, m))
      BY <1>1, <1>2, <1>9, <2>1, PathBelow DEF Below, path
    <3>3. Towards(m, Target(frame, m)) = i
      <4>1. m \in Seq(Nat \ {0}) /\ path \in Seq(Nat \ {0}) /\ path # <<>> /\ i = Head(path)
            /\ Target(frame, m) = m \o path
        BY <1>1, <1>2, <2>1, NodesAreSequences DEF path, i
      <4>2. Len(path) \in Nat \ {0} /\ Len(m) \in Nat
        BY <4>1, EmptySeq
      <4> QED  BY <4>1, <4>2 DEF Towards
    <3>4. After(n, Target(frame, m))
      BY <3>1, <3>2, <3>3 DEF After
    <3> QED  BY <1>8, <1>9, <2>1, <3>4
  <2> QED  BY <1>7, <1>9, <2>1
<1>10. ASSUME NEW n \in Leaves, NEW s \in Iterations(n), c \in Way(n), n \in Below(m),
              Ahead(frame', c, n, s)
       PROVE  Ahead(frame, m, n, s)
  <2>1. frame'[c].at = 0 /\ frame'[c].via = via
    BY <1>5 DEF NoFrame, Called
  <2>2. CASE path # Nil
    <3>1. via # Nil /\ c \o via = Target(frame, m) /\ via \in Seq(Nat \ {0})
          /\ c \in Nodes /\ Target(frame, m) \in Leaves
      BY <1>1, <1>2, <1>3, <2>2, NilIsNoPath, ChildIsNode DEF path
    <3>2. c \notin Leaves
      <4>1. CASE via # <<>>
        <5>1. Target(frame, m) \in Below(c)
          BY <3>1, <4>1, PathBelow DEF Leaves
        <5> QED  BY <3>1, <5>1, BelowSplits
      <4>2. CASE via = <<>>
        <5>1. c # n
          BY <2>1, <4>2, <1>10 DEF Ahead
        <5> QED  BY <1>10, <5>1, WayFacts
      <4> QED  BY <4>1, <4>2
    <3>3. After(n, Target(frame', c))
      BY <1>10, <2>1, <3>1, <3>2 DEF Ahead
    <3>4. Target(frame', c) = Target(frame, m)
      BY <2>1, <3>1 DEF Target
    <3> QED  BY <1>8, <1>10, <2>2, <3>3, <3>4
  <2> QED  BY <1>7, <1>10, <2>2
<1>11. \A n \in Leaves : \A s \in Iterations(n) :
          n \in Below(m) /\ Ahead(frame', m, n, s) => Ahead(frame, m, n, s)
  BY <1>9
<1>12. \A n \in Leaves : \A s \in Iterations(n) :
          c \in Way(n) /\ n \in Below(m) /\ Ahead(frame', c, n, s) => Ahead(frame, m, n, s)
  BY <1>10
<1> QED  BY <1>1, <1>3, <1>5, <1>6, <1>11, <1>12, CallKeeps

\* A sequence or a loop goes on
LEMMA GoOnUses ==
    ASSUME PauseInv, NEW m \in Nodes, SeqNext(m) \/ LoopNext(m), NEW r, Clock(frame, r)
    PROVE  Uses(frame, r, frame')
<1> DEFINE i == frame[m].at
           round == frame[m].round
<1>1. ShapeInv' /\ Fits(frame') /\ frame \in [Nodes -> Frame] /\ IInv
  BY ShapeStep DEF PauseInv, ShapeInv, IInv, TypeOK, Next, ServerStep, CompositeStep
<1>2. PICK kind \in {"sequential", "loop"} : Kind[m] = kind /\ Returned(m, kind, i)
  BY DEF SeqNext, LoopNext, Returned
<1>3. /\ m \in Nodes \ Leaves /\ Running(m) /\ InOrder(m) /\ i \in 1 .. Width(m) /\ i \in Nat /\ i > 0
      /\ Width(m) \in Nat /\ round \in Nat
  BY <1>1, <1>2, ReturnedChild, TreeOK DEF InOrder
<1>4. Kind[m] = "loop" => round \in 0 .. MaxIterations - 1
  BY <1>3 DEF Clock, LoopNodes, Running
<1>5. PICK j \in 1 .. Width(m), next \in Nat :
         /\ GoOn(m, i, j, next)
         /\ Kind[m] = "sequential" => j = i + 1
         /\ Kind[m] = "loop" => next \in 0 .. MaxIterations - 1
         /\ Kind[m] = "loop" => (j = i + 1 /\ next = round) \/ next = round + 1
  <2>1. CASE SeqNext(m)
    <3>1. GoOn(m, i, i + 1, 0) /\ i + 1 \in 1 .. Width(m) /\ 0 \in Nat /\ Kind[m] = "sequential"
      BY <1>3, <2>1 DEF SeqNext, Returned
    <3> QED  BY <3>1
  <2>2. CASE LoopNext(m) /\ i < Width(m)
    <3>1. GoOn(m, i, i + 1, round) /\ i + 1 \in 1 .. Width(m) /\ Kind[m] = "loop"
      BY <1>3, <2>2 DEF LoopNext, Returned
    <3> QED  BY <1>3, <1>4, <3>1
  <2>3. CASE LoopNext(m) /\ ~(i < Width(m))
    <3>1. GoOn(m, i, 1, round + 1) /\ 1 \in 1 .. Width(m) /\ Kind[m] = "loop" /\ ~LastTurn(m, i)
      BY <1>3, <2>3 DEF LoopNext, Returned
    <3>2. round + 1 \in 0 .. MaxIterations - 1 /\ round + 1 \in Nat
      BY <1>3, <1>4, <2>3, <3>1, OrchestratorParameters DEF LastTurn
    <3> QED  BY <3>1, <3>2
  <2> QED  BY <2>1, <2>2, <2>3
<1>6. j \in Nat /\ j > 0 /\ frame[m].st = "run"
  BY <1>3, <1>5 DEF Running
<1>7. /\ frame'[m].st = "run" /\ frame'[m].at = j /\ frame'[m].round = next
      /\ frame'[Child(m, j)] = Called(Nil)
      /\ \A x \in Nodes \ {m, Child(m, j)} : frame'[x] = frame[x] \/ frame'[x] = NoFrame
  <2> DEFINE g == frame'
  <2>1. g = GoneOn(frame, m, i, j, next)
    BY <1>5 DEF GoOn, GoneOn, TreeStep
  <2> HIDE DEF g, i
  <2>2. /\ g[m].st = frame[m].st /\ g[m].at = j /\ g[m].round = next
        /\ g[Child(m, j)] = Called(Nil)
        /\ \A x \in Nodes \ {m, Child(m, j)} : g[x] = frame[x] \/ g[x] = NoFrame
    BY <1>1, <1>3, <2>1, GoOnFrames
  <2> QED  BY <1>6, <2>2 DEF g
<1>8. ASSUME NEW n \in Leaves, NEW s \in Iterations(n), n \in Below(m), Kind[m] = "loop"
      PROVE  s[m] \in Nat
  BY <1>3, <1>8, OrchestratorParameters DEF Iterations, Loops, Below
<1>9. ASSUME NEW n \in Leaves, NEW s \in Iterations(n), n \in Below(m), Ahead(frame', m, n, s)
      PROVE  Ahead(frame, m, n, s)
  <2>1. m # n /\ Towards(m, n) \in Nat
    BY <1>3, <1>9, TowardsFacts
  <2>2. CASE Kind[m] = "sequential"
    BY <1>3, <1>5, <1>6, <1>7, <1>9, <2>1, <2>2 DEF Ahead
  <2>3. CASE Kind[m] = "loop"
    BY <1>3, <1>5, <1>6, <1>7, <1>8, <1>9, <2>1, <2>3 DEF Ahead
  <2> QED  BY <1>3, <2>2, <2>3 DEF InOrder
<1>10. ASSUME NEW n \in Leaves, NEW s \in Iterations(n), n \in Below(m), Towards(m, n) = j,
              Kind[m] = "loop" => s[m] = frame'[m].round
       PROVE  Ahead(frame, m, n, s)
  <2>1. m # n
    BY <1>3
  <2>2. CASE Kind[m] = "sequential"
    BY <1>3, <1>5, <1>10, <2>1, <2>2 DEF Ahead
  <2>3. CASE Kind[m] = "loop"
    BY <1>3, <1>5, <1>7, <1>8, <1>10, <2>1, <2>3 DEF Ahead
  <2> QED  BY <1>3, <2>2, <2>3 DEF InOrder
<1>11. \A n \in Leaves : \A s \in Iterations(n) :
          n \in Below(m) /\ Ahead(frame', m, n, s) => Ahead(frame, m, n, s)
  BY <1>9
<1>12. \A n \in Leaves : \A s \in Iterations(n) :
          /\ Child(m, j) \in Way(n) /\ n \in Below(m) /\ Towards(m, n) = j
          /\ Ahead(frame', Child(m, j), n, s)
          /\ Kind[m] = "loop" => s[m] = frame'[m].round
          => Ahead(frame, m, n, s)
  BY <1>10
<1>13. Kind[m] = "loop" => frame'[m].round \in 0 .. MaxIterations - 1
  BY <1>5, <1>7
<1> HIDE DEF i, round
<1> QED  BY <1>1, <1>3, <1>7, <1>11, <1>12, <1>13, CallKeeps

\* A parallel node calls its children
LEMMA ForkUses ==
    ASSUME PauseInv, NEW m \in Nodes, ParFork(m), NEW r, Clock(frame, r)
    PROVE  Uses(frame, r, frame')
<1> DEFINE C == Children(m)
<1>1. frame \in [Nodes -> Frame] /\ Fits(frame) /\ m \in Nodes \ Leaves
      /\ frame[m].st = "run" /\ frame[m].at = 0 /\ Kind[m] = "parallel"
  BY DEF PauseInv, ShapeInv, IInv, TypeOK, ParFork, Running, Leaves
<1>2. frame' = [x \in Nodes |-> IF x \in C THEN [NoFrame EXCEPT !.st = "run"]
                               ELSE IF x = m THEN [frame[m] EXCEPT !.at = 1] ELSE frame[x]]
  BY DEF ParFork, TreeStep
<1>3. C \subseteq Nodes /\ \A c \in C : \E i \in 1 .. Width(m) : c = Child(m, i)
  BY <1>1, TreeOK DEF Children
<1>4. m \notin C /\ \A c \in C : c \in Below(m)
  BY <1>1, <1>3, ChildFacts, BelowFacts
<1>5. [frame[m] EXCEPT !.at = 1].st = "run" /\ [frame[m] EXCEPT !.at = 1].at = 1
  BY <1>1 DEF Frame
<1> HIDE DEF C
<1>6. frame'[m].st = "run" /\ frame'[m].at = 1
  BY <1>2, <1>4, <1>5
<1>7. \A c \in C : frame'[c].st = "run" /\ frame'[c].round = 0
  BY <1>2, <1>3 DEF NoFrame
<1>8. \A x \in Nodes \ (C \cup {m}) : frame'[x] = frame[x]
  BY <1>2
<1>9. \A x \in Below(m) : frame'[x].st = "run" => x \in C
  <2>1. Bare(frame, m)
    BY <1>1 DEF Fits, ShapeOf
  <2> QED  BY <1>8, <2>1, BelowFacts DEF Bare, Live, Below
<1>10. frame[m].via = Nil
  <2> SUFFICES ASSUME frame[m].via # Nil PROVE FALSE
    OBVIOUS
  <2>1. Tip(frame, m)
    BY <1>1 DEF Tip
  <2> QED  BY <1>1, <2>1, TipFacts
<1>11. \A n \in Leaves : \A s \in Iterations(n) : \A p \in C \cup {m} :
          /\ p \in Way(n)
          /\ Ahead(frame', p, n, s)
          /\ p \in C /\ Kind[m] = "loop" => s[m] = frame'[m].round
          => Ahead(frame, m, n, s)
  BY <1>1, <1>10 DEF Ahead
<1>12. Calling(frame, frame', m, C)
  BY <1>1, <1>3, <1>6, <1>7, <1>8, <1>9, <1>11 DEF Calling
<1> QED  BY <1>12, NewCalls

\* Where a composite node returns, or a result is taken, nothing begins
LEMMA EndFrames ==
    ASSUME PauseInv, NEW m \in Nodes,
           SeqEnd(m) \/ LoopEnd(m) \/ ParJoin(m) \/ ParFail(m) \/ Reap(m)
    PROVE  \A x \in Nodes : frame'[x].st = "run" => frame'[x] = frame[x]
<1>1. frame \in [Nodes -> Frame] /\ IInv
  BY DEF PauseInv, ShapeInv, IInv, TypeOK
<1>2. CASE SeqEnd(m) \/ LoopEnd(m)
  <2> DEFINE i == frame[m].at
             c == Child(m, i)
  <2>1. PICK kind \in {"sequential", "loop"} : Returned(m, kind, i)
    BY <1>2 DEF SeqEnd, LoopEnd
  <2>2. m \in Nodes \ Leaves /\ i \in 1 .. Width(m)
    BY <1>1, <2>1, ReturnedChild
  <2>3. c \in Nodes /\ c # m
    BY <2>2, ChildIsNode, ChildFacts, BelowFacts
  <2>4. PICK res : GiveBack(m, i, res)
    BY <1>2 DEF SeqEnd, LoopEnd
  <2>5. frame' = Return(Leave(frame, c), m, res)
    BY <2>4 DEF GiveBack, TreeStep
  <2> HIDE DEF c
  <2>6. /\ frame'[m].st = "done" /\ frame'[c].st = "idle"
        /\ \A x \in Nodes \ {m, c} : frame'[x] = frame[x]
    BY <1>1, <2>3, <2>5 DEF Return, Leave, Frame, NoFrame
  <2> QED  BY <2>6
<1>3. CASE ParJoin(m) \/ ParFail(m)
  <2>1. PICK res : Collect(m, res)
    BY <1>3 DEF ParJoin, ParFail
  <2>2. frame' = [x \in Nodes |->
                     IF x \in Children(m) /\ Done(x) THEN NoFrame
                     ELSE IF x = m THEN [frame[m] EXCEPT !.st = "done", !.res = res]
                     ELSE frame[x]]
    BY <2>1 DEF Collect, TreeStep
  <2>3. [frame[m] EXCEPT !.st = "done", !.res = res].st = "done"
    BY <1>1 DEF Frame
  <2> QED  BY <2>2, <2>3 DEF NoFrame
<1>4. CASE Reap(m)
  BY <1>1, <1>4 DEF Reap, TreeStep, Leave, NoFrame
<1> QED  BY <1>2, <1>3, <1>4

\* No step of a composite node adds to the iterations left
LEMMA CompositeUses ==
    ASSUME PauseInv, NEW m \in Nodes, CompositeStep(m), NEW r, Clock(frame, r)
    PROVE  Uses(frame, r, frame')
BY StartUses, GoOnUses, ForkUses, EndFrames, FewerUses DEF CompositeStep

\* Turns that stay within their bound while none is added
LEMMA WithinUses ==
    ASSUME NEW f, NEW r, NEW g, Clock(f, r), Uses(f, r, g), NEW t, Bounded(f, r, t),
           t \in [Leaves -> Nat]
    PROVE  Within(g, t)
<1>1. PICK q : Clock(g, q) /\ \A n \in Leaves : Left(g, q, n) \subseteq Left(f, r, n)
  BY DEF Uses
<1>2. ASSUME NEW n \in Leaves PROVE t[n] + Cardinality(Left(g, q, n)) <= Allowed(n)
  <2>1. n \in Nodes
    BY DEF Leaves
  <2>2. Cardinality(Left(g, q, n)) <= Cardinality(Left(f, r, n))
    BY <1>1, <2>1, LeftShrinks
  <2>3. Cardinality(Left(g, q, n)) \in Nat /\ Cardinality(Left(f, r, n)) \in Nat /\ Allowed(n) \in Nat
    BY <2>1, LeftCounts, IterationsFinite
  <2> DEFINE a == Cardinality(Left(g, q, n))
             b == Cardinality(Left(f, r, n))
  <2>4. t[n] + b <= Allowed(n) /\ t[n] \in Nat
    BY DEF Bounded
  <2> HIDE DEF a, b
  <2>5. a \in Nat /\ b \in Nat /\ a <= b
    BY <2>2, <2>3 DEF a, b
  <2>6. t[n] + a <= Allowed(n)
    BY <2>3, <2>4, <2>5
  <2> QED  BY <2>6 DEF a
<1> QED  BY <1>1, <1>2 DEF Within, Bounded

\* Turns within their bound are at most all iterations
LEMMA WithinAllowed ==
    ASSUME NEW f, NEW t, t \in [Leaves -> Nat], Within(f, t)
    PROVE  \A n \in Leaves : t[n] <= Allowed(n)
<1> TAKE n \in Leaves
<1>1. n \in Nodes
  BY DEF Leaves
<1>2. PICK r : t[n] + Cardinality(Left(f, r, n)) <= Allowed(n)
  BY DEF Within, Bounded
<1> DEFINE a == Cardinality(Left(f, r, n))
<1>3. a \in Nat /\ Allowed(n) \in Nat /\ t[n] \in Nat
  BY <1>1, LeftCounts, IterationsFinite
<1>4. t[n] + a <= Allowed(n)
  BY <1>2
<1> HIDE DEF a
<1> QED  BY <1>3, <1>4

\* Where nothing runs, all turns within the bound will do
LEMMA QuietWithin ==
    ASSUME NEW f, \A p \in Nodes : f[p].st # "run", NEW t, t \in [Leaves -> Nat],
           \A n \in Leaves : t[n] <= Allowed(n)
    PROVE  Within(f, t)
<1> DEFINE r == [q \in LoopNodes |-> 0]
<1>1. Clock(f, r)
  BY OrchestratorParameters DEF Clock, LoopNodes
<1> HIDE DEF r
<1>2. ASSUME NEW n \in Leaves PROVE t[n] + Cardinality(Left(f, r, n)) <= Allowed(n)
  <2>1. Left(f, r, n) = {}
    BY WayFacts DEF Left, Offers
  <2>2. Cardinality(Left(f, r, n)) = 0
    BY <2>1, LeftCounts DEF Leaves
  <2> QED  BY <2>2
<1> QED  BY <1>1, <1>2 DEF Within, Bounded

\* When the root is called afresh nothing has had a turn; when it is called along
\* a path, nothing has that comes after the leaf that the path leads to
LEMMA RootWithin ==
    ASSUME NEW f, f[Root].st = "run", f[Root].at = 0, f[Root].round = 0,
           \A p \in Nodes \ {Root} : f[p].st # "run",
           NEW t, t \in [Leaves -> Nat], \A n \in Leaves : t[n] <= Allowed(n),
           \A n \in Leaves : f[Root].via = Nil \/ After(n, Target(f, Root)) => t[n] = 0,
           Root \in Leaves => f[Root].via \in {Nil, <<>>}
    PROVE  Within(f, t)
<1> DEFINE r == [q \in LoopNodes |-> 0]
<1>1. Clock(f, r)
  BY OrchestratorParameters DEF Clock, LoopNodes
<1> HIDE DEF r
<1>2. ASSUME NEW n \in Leaves PROVE t[n] + Cardinality(Left(f, r, n)) <= Allowed(n)
  <2>1. n \in Nodes /\ Cardinality(Left(f, r, n)) \in Nat
        /\ Cardinality(Left(f, r, n)) <= Allowed(n) /\ Allowed(n) \in Nat
    BY LeftCounts, IterationsFinite DEF Leaves
  <2>2. CASE t[n] = 0
    BY <2>1, <2>2
  <2>3. CASE t[n] # 0
    <3>1. f[Root].via # Nil /\ ~After(n, Target(f, Root))
      BY <2>3
    <3>2. \A s \in Iterations(n) : \A p \in Way(n) : ~Offers(f, r, p, n, s)
      BY <3>1, WayFacts DEF Offers, Ahead
    <3>3. Left(f, r, n) = {}
      BY <3>2 DEF Left
    <3>4. Cardinality(Left(f, r, n)) = 0
      BY <2>1, <3>3, LeftCounts
    <3> QED  BY <3>4
  <2> QED  BY <2>2, <2>3
<1> QED  BY <1>1, <1>2 DEF Within, Bounded

-----------------------------------------------------------------------------
(***************************************************************************)
(* The steps keep it.                                                      *)
(***************************************************************************)

\* The turns that a step finds
LEMMA TurnTypes ==
    ASSUME TurnInv
    PROVE  /\ conv \in ConversationRecord /\ disk \in ConversationRecord
           /\ conv.turns \in [Leaves -> Nat] /\ disk.turns \in [Leaves -> Nat]
           /\ \A n \in Leaves : conv.turns[n] <= Allowed(n)
BY WithinAllowed DEF TurnInv, PauseInv, ShapeInv, IInv, TypeOK, ConversationRecord

\* Steps of composite nodes
LEMMA TurnComposite ==
    ASSUME RemotesUnshared, TurnInv, NEW m \in Nodes, CompositeStep(m)
    PROVE  TurnInv'
<1>1. PauseInv /\ PauseInv' /\ conv.turns \in [Leaves -> Nat]
  BY TurnTypes, PauseStep DEF TurnInv, Next, ServerStep
<1>2. UNCHANGED <<state, conv, disk, main, held, told, broken, undecided, runVars>>
  BY CompositeRest
<1>3. PICK r : Clock(frame, r) /\ Bounded(frame, r, conv.turns)
  BY DEF TurnInv, Within
<1>4. Within(frame', conv.turns)
  BY <1>1, <1>3, CompositeUses, WithinUses
<1> QED  BY <1>1, <1>2, <1>4 DEF TurnInv, InTree, Unspent

\* A leaf that ends or goes on calls nothing
LEMMA LeafUses ==
    ASSUME PauseInv, NEW m \in Nodes, LeafStep(m), NEW r, Clock(frame, r)
    PROVE  /\ Clock(frame', r)
           /\ \A n \in Leaves : Left(frame', r, n) \subseteq Left(frame, r, n)
<1>1. \A p \in Nodes : frame'[p].st = "run" => frame'[p] = frame[p]
  BY LeafFrames
<1> QED  BY <1>1, FewerCalls

\* A leaf that takes its turn uses up the iteration that it is in
LEMMA TurnUses ==
    ASSUME PauseInv, NEW m \in Nodes, LeafStep(m), InTurn(m), NEW r, Clock(frame, r)
    PROVE  Cardinality(Left(frame', r, m)) + 1 <= Cardinality(Left(frame, r, m))
<1> DEFINE s == [q \in Loops(m) |-> r[q]]
<1>1. m \in Leaves /\ frame[m].st = "run" /\ frame[m].via # <<>> /\ Fits(frame)
  BY DEF InTurn, Running, PauseInv, ShapeInv
<1>2. Loops(m) \subseteq LoopNodes
  BY TreeOK DEF Loops, LoopNodes
<1>3. s \in Iterations(m) /\ \A q \in Loops(m) : s[q] = r[q]
  BY <1>2 DEF Iterations, Clock
<1> HIDE DEF s
<1>4. Offers(frame, r, m, m, s)
  BY <1>1, <1>3 DEF Offers, Ahead
<1>5. s \in Left(frame, r, m)
  BY <1>3, <1>4 DEF Left, Way
<1>6. ASSUME NEW p \in Way(m), Offers(frame', r, p, m, s) PROVE FALSE
  <2>1. p \in Nodes /\ p # m /\ frame'[p] = frame[p] /\ frame[p].st = "run"
    <3>1. p \in Nodes
      BY <1>1, WayFacts
    <3>2. frame'[p].st = "run"
      BY <1>6 DEF Offers
    <3>3. p # m
      BY <3>2, LeafFrames
    <3> QED  BY <3>1, <3>2, <3>3, LeafFrames
  <2>2. m \in Below(p) /\ p \in Nodes \ Leaves
    BY <1>1, <2>1, WayFacts
  <2>3. frame[p].at # 0
    BY <1>1, <2>1, <2>2 DEF Fits, ShapeOf, Bare, Live
  <2>4. frame[p].at \in 1 .. Width(p) /\ Width(p) \in Nat
    BY <1>1, <2>1, <2>2, <2>3, TreeOK DEF Fits
  <2>5. InOrder(p) => frame[p].at = Towards(p, m)
    <3>1. Towards(p, m) \in 1 .. Width(p)
          /\ (m = Child(p, Towards(p, m)) \/ m \in Below(Child(p, Towards(p, m))))
      BY <2>2, TowardsFacts
    <3>2. InOrder(p) => m = Child(p, frame[p].at) \/ m \in Below(Child(p, frame[p].at))
      BY <1>1, <2>1, <2>2, <2>4 DEF Fits, ShapeOf, Live
    <3> QED  BY <2>2, <2>4, <3>1, <3>2, OneBranch
  <2>6. Kind[p] = "loop" => s[p] = frame[p].round
    BY <1>3, <2>1, <2>2 DEF Loops, Below, Clock, LoopNodes
  <2>7. Ahead(frame, p, m, s)
    BY <1>6, <2>1 DEF Offers, Ahead, Target
  <2>8. Kind[p] = "loop" => s[p] \in Nat
    BY <1>3, <2>1, <2>2, OrchestratorParameters DEF Iterations, Loops, Below
  <2> QED  BY <2>1, <2>3, <2>4, <2>5, <2>6, <2>7, <2>8 DEF Ahead, InOrder
<1>7. s \notin Left(frame', r, m)
  BY <1>6 DEF Left
<1> QED  BY <1>1, <1>5, <1>7, LeafUses, LeftLess

\* A turn that is counted stays within the bound
LEMMA CountedWithin ==
    ASSUME PauseInv, NEW m \in Nodes, LeafStep(m), InTurn(m), Within(frame, conv.turns),
           conv \in ConversationRecord, NEW t, t = [conv.turns EXCEPT ![m] = @ + 1]
    PROVE  Within(frame', t)
<1>1. PICK r : Clock(frame, r) /\ Bounded(frame, r, conv.turns)
  BY DEF Within
<1>2. conv.turns \in [Leaves -> Nat] /\ m \in Leaves
  BY DEF ConversationRecord, InTurn
<1>3. ASSUME NEW n \in Leaves PROVE t[n] + Cardinality(Left(frame', r, n)) <= Allowed(n)
  <2> DEFINE a == Cardinality(Left(frame', r, n))
             b == Cardinality(Left(frame, r, n))
  <2>1. n \in Nodes
    BY DEF Leaves
  <2>2. a \in Nat /\ b \in Nat /\ Allowed(n) \in Nat
    BY <2>1, LeftCounts, IterationsFinite
  <2>3. conv.turns[n] + b <= Allowed(n) /\ conv.turns[n] \in Nat
    BY <1>1, <1>2 DEF Bounded
  <2>4. a <= b
    BY <1>1, <2>1, LeafUses, LeftShrinks
  <2>5. n = m => a + 1 <= b
    BY <1>1, TurnUses
  <2>6. t[n] = IF n = m THEN conv.turns[n] + 1 ELSE conv.turns[n]
    BY <1>2
  <2> HIDE DEF a, b
  <2>7. t[n] + a <= Allowed(n)
    BY <2>2, <2>3, <2>4, <2>5, <2>6
  <2> QED  BY <2>7 DEF a
<1> QED  BY <1>1, <1>3, LeafUses DEF Within, Bounded

\* While a leaf that may ask takes its turn, the leaves after it have had none
LEMMA LaterUnspent ==
    ASSUME TurnInv, NEW w \in Leaves, Live(frame, w), ~Free(w), NEW n \in Leaves, After(n, w)
    PROVE  conv.turns[n] = 0 /\ n # w
<1>1. n \in Nodes /\ w \in Nodes /\ Fits(frame) /\ conv.turns \in [Leaves -> Nat]
  BY TurnTypes DEF Leaves, TurnInv, PauseInv, ShapeInv
<1>2. PICK p \in Ancestors(n) \cap Ancestors(w) : Towards(p, w) < Towards(p, n)
  BY DEF After
<1>3. p \in Nodes \ Leaves /\ n \in Below(p) /\ w \in Below(p)
  BY <1>1, <1>2, WayFacts
<1>4. Kind[p] = "sequential" /\ ~Free(p)
  BY <1>3, FreeFacts
<1>5. frame[p].st = "run" /\ frame[p].at > 0
  BY <1>1, <1>3 DEF Fits, SpineOf
<1>6. Towards(p, w) \in 1 .. Width(p) /\ Width(p) \in Nat
      /\ (w = Child(p, Towards(p, w)) \/ w \in Below(Child(p, Towards(p, w))))
  BY <1>3, TowardsFacts, TreeOK
<1>7. frame[p].at \in 0 .. Width(p)
  BY <1>1, <1>3, <1>5 DEF Fits
<1>8. frame[p].at \in 1 .. Width(p)
  BY <1>5, <1>6, <1>7
<1>9. frame[p].at = Towards(p, w)
  <2>1. w = Child(p, frame[p].at) \/ w \in Below(Child(p, frame[p].at))
    BY <1>1, <1>3, <1>4, <1>5 DEF Fits, ShapeOf, InOrder
  <2> QED  BY <1>1, <1>3, <1>6, <1>8, <2>1, OneBranch
<1>10. PICK r : Clock(frame, r) /\ conv.turns[n] + Cardinality(Left(frame, r, n)) <= Allowed(n)
  BY DEF TurnInv, Within, Bounded
<1>11. Loops(p) = {}
  BY <1>4 DEF Loops, Free
<1>12. \A s \in Iterations(n) : Offers(frame, r, p, n, s)
  BY <1>2, <1>3, <1>4, <1>5, <1>9, <1>11 DEF Offers, Ahead
<1>13. Left(frame, r, n) = Iterations(n)
  BY <1>2, <1>12 DEF Left, Way
<1>14. Cardinality(Left(frame, r, n)) = Allowed(n) /\ Allowed(n) \in Nat
  BY <1>1, <1>13, LeftCounts, IterationsFinite
<1>15. conv.turns[n] \in Nat
  BY <1>1
<1>16. conv.turns[n] = 0
  BY <1>10, <1>14, <1>15
<1>17. n # w
  BY <1>2, <1>6
<1> QED  BY <1>16, <1>17
-----------------------------------------------------------------------------
\* A turn that ends without an approval
LEMMA TurnEnds ==
    ASSUME RemotesUnshared, TurnInv, NEW n \in Nodes,
           LeafError(n) \/ LeafExits(n) \/ LeafNeedsAuth(n) \/ LeafOutput(n)
    PROVE  TurnInv'
<1>1. LeafStep(n) /\ InTurn(n) /\ PauseInv
  BY DEF LeafStep, LeafError, LeafExits, LeafNeedsAuth, LeafOutput, MayAct, TakesTurn, TurnInv
<1>2. conv \in ConversationRecord
  BY TurnTypes
<1>3. /\ conv'.turns = [conv.turns EXCEPT ![n] = @ + 1] /\ conv'.pipe = conv.pipe /\ disk' = disk
  BY <1>2 DEF LeafError, LeafExits, LeafNeedsAuth, LeafOutput, LeafEnds, Counted, ConversationRecord
<1>4. Within(frame', conv'.turns)
  BY <1>1, <1>2, <1>3, CountedWithin DEF TurnInv
<1>5. InTree' = InTree /\ main' \notin {"exec", "proxy"}
  BY <1>1, LeafFrames
<1>6. InTree => conv'.pipe = Nil
  BY <1>1, <1>3, TurnFacts
<1>7. PauseInv'
  BY <1>1, PauseStep DEF Next, ServerStep
<1> QED  BY <1>3, <1>4, <1>5, <1>6, <1>7 DEF TurnInv, Unspent

\* A turn that ends with an approval stores the turns before it
LEMMA TurnPauses ==
    ASSUME RemotesUnshared, TurnInv, NEW n \in Nodes, LeafAsks(n) \/ LeafProxies(n)
    PROVE  TurnInv'
<1>1. LeafStep(n) /\ InTurn(n) /\ PauseInv /\ n \in Leaves /\ Live(frame, n)
  BY DEF LeafStep, LeafAsks, LeafProxies, MayAct, TakesTurn, InTurn, TurnInv, Running, Live
<1>2. conv \in ConversationRecord
  BY TurnTypes
<1>3. ~Free(n)
  BY DEF RemotesUnshared, LeafAsks, LeafProxies
<1>4. /\ conv'.turns = [conv.turns EXCEPT ![n] = @ + 1]
      /\ conv'.pipe = [path |-> n, state |-> state]
      /\ conv'.pending = [node |-> n, remote |-> FALSE]
  BY <1>2 DEF LeafAsks, LeafProxies, Paused, Counted, ConversationRecord
<1>5. conv'.pending \in Pending
  BY <1>1, <1>4 DEF Pending
<1>6. disk' = conv'
  BY <1>5, NilIsNoRecord DEF LeafAsks, LeafProxies, SaveConversation
<1>7. Within(frame', conv'.turns)
  BY <1>1, <1>2, <1>4, CountedWithin DEF TurnInv
<1>8. PauseInv'
  BY <1>1, PauseStep DEF Next, ServerStep
<1>9. conv'.turns \in [Leaves -> Nat]
  BY <1>8 DEF PauseInv, ShapeInv, IInv, TypeOK, ConversationRecord
<1>10. \A m \in Leaves : conv'.turns[m] <= Allowed(m)
  BY <1>7, <1>9, WithinAllowed
<1>11. \A m \in Leaves : After(m, n) => conv'.turns[m] = 0
  BY <1>1, <1>2, <1>3, <1>4, LaterUnspent DEF ConversationRecord
<1>12. conv'.pipe.path = n
  BY <1>4
<1>13. Unspent(conv'.turns, conv'.pipe)
  BY <1>11, <1>12 DEF Unspent
<1>14. main' \notin {"exec", "proxy"}
  BY <1>1, LeafFrames
<1> QED  BY <1>6, <1>7, <1>8, <1>10, <1>13, <1>14 DEF TurnInv

\* A step of a leaf that takes no turn
LEMMA NoTurn ==
    ASSUME RemotesUnshared, TurnInv, NEW n \in Nodes, NoClient(n) \/ MarkProxy(n) \/ LeafResumes(n)
    PROVE  TurnInv'
<1>1. LeafStep(n) /\ PauseInv
  BY DEF LeafStep, TurnInv
<1>2. conv \in ConversationRecord /\ disk \in ConversationRecord /\ conv.turns \in [Leaves -> Nat]
      /\ \A m \in Leaves : conv.turns[m] <= Allowed(m)
  BY TurnTypes
<1>3. conv'.turns = conv.turns /\ conv'.pipe = conv.pipe
  BY <1>2 DEF NoClient, MarkProxy, LeafResumes, TreeStep, ConversationRecord
<1>4. PauseInv'
  BY <1>1, PauseStep DEF Next, ServerStep
<1>5. PICK r : Clock(frame, r) /\ Bounded(frame, r, conv.turns)
  BY DEF TurnInv, Within
<1>6. Uses(frame, r, frame')
  BY <1>1, <1>5, LeafUses DEF Uses
<1>7. Within(frame', conv'.turns)
  BY <1>2, <1>3, <1>5, <1>6, WithinUses
<1>8. InTree' = InTree /\ main' \notin {"exec", "proxy"}
  BY <1>1, LeafFrames
<1>9. CASE disk' = disk
  BY <1>3, <1>4, <1>7, <1>8, <1>9 DEF TurnInv, Unspent
<1>10. CASE MarkProxy(n)
  <2>1. InTree /\ conv.pending # Nil
    BY <1>10 DEF PauseInv, PausedTree, TurnInv, MarkProxy
  <2>2. conv.pending \in Pending
    BY <1>2, <2>1 DEF ConversationRecord
  <2>3. conv'.pending = [conv.pending EXCEPT !.remote = TRUE]
    BY <1>2, <1>10 DEF MarkProxy, ConversationRecord
  <2>4. conv'.pending \in Pending
    BY <2>2, <2>3 DEF Pending
  <2>5. disk' = conv'
    BY <1>10, <2>4, NilIsNoRecord DEF MarkProxy, SaveConversation
  <2> QED  BY <1>2, <1>3, <1>4, <1>7, <1>8, <2>1, <2>5 DEF TurnInv, Unspent
<1> QED  BY <1>9, <1>10 DEF NoClient, TreeStep, LeafResumes

\* A record that is saved is stored with its turns, or without any
LEMMA SavedTurns ==
    ASSUME NEW c, SaveConversation(c), \A n \in Leaves : c.turns[n] <= Allowed(n),
           Unspent(c.turns, c.pipe)
    PROVE  /\ \A n \in Leaves : disk'.turns[n] <= Allowed(n)
           /\ Unspent(disk'.turns, disk'.pipe)
<1>1. \A n \in Leaves : 0 <= Allowed(n)
  BY IterationsFinite DEF Leaves
<1>2. CASE disk' = c
  BY <1>2
<1>3. CASE disk' = NewConversation
  BY <1>1, <1>3 DEF NewConversation, Unspent
<1> QED  BY <1>2, <1>3 DEF SaveConversation

\* What is left to show where nothing runs, or where the root goes
LEMMA TurnOutside ==
    ASSUME RemotesUnshared, TurnInv, [Next]_vars,
           \A p \in Nodes : frame'[p].st = "run" => frame'[p] = frame[p],
           conv'.turns = conv.turns,
           disk' = disk \/ SaveConversation(conv) \/ SaveConversation(conv'),
           SaveConversation(conv) => Unspent(conv.turns, conv.pipe),
           SaveConversation(conv') => Unspent(conv.turns, conv'.pipe),
           InTree' => conv'.pipe = Nil,
           main' \in {"exec", "proxy"} => Unspent(conv.turns, held'.pipe)
    PROVE  TurnInv'
<1>1. PauseInv' /\ conv.turns \in [Leaves -> Nat] /\ \A n \in Leaves : conv.turns[n] <= Allowed(n)
  BY TurnTypes, PauseStep DEF TurnInv
<1>2. PICK r : Clock(frame, r) /\ Bounded(frame, r, conv.turns)
  BY DEF TurnInv, Within
<1>3. Within(frame', conv'.turns)
  BY <1>1, <1>2, FewerUses, WithinUses
<1>4. (\A n \in Leaves : disk'.turns[n] <= Allowed(n)) /\ Unspent(disk'.turns, disk'.pipe)
  <2>1. CASE disk' = disk
    BY <2>1 DEF TurnInv
  <2>2. CASE SaveConversation(conv)
    BY <1>1, <2>2, SavedTurns
  <2>3. CASE SaveConversation(conv')
    <3>1. Unspent(conv'.turns, conv'.pipe) /\ \A n \in Leaves : conv'.turns[n] <= Allowed(n)
      BY <1>1, <2>3
    <3> QED  BY <2>3, <3>1, SavedTurns
  <2> QED  BY <2>1, <2>2, <2>3
<1> QED  BY <1>1, <1>3, <1>4 DEF TurnInv, Unspent
-----------------------------------------------------------------------------
\* The tree has returned
LEMMA ReturnTurns ==
    ASSUME RemotesUnshared, TurnInv, [Next]_vars, MessageDone \/ ResumeDone \/ ResumeFails
    PROVE  TurnInv'
<1>1. /\ frame' = Leave(frame, Root) /\ main' = "idle" /\ InTree /\ conv' = conv
      /\ disk' = disk \/ SaveConversation(conv)
  BY DEF MessageDone, ResumeDone, ResumeFails, Answer, InTree
<1>2. frame \in [Nodes -> Frame] /\ NoFrame.st # "run"
  BY DEF TurnInv, PauseInv, ShapeInv, IInv, TypeOK, NoFrame
<1>3. \A p \in Nodes : frame'[p].st = "run" => frame'[p] = frame[p]
  BY <1>1, <1>2 DEF Leave
<1>4. ~InTree' /\ Unspent(conv.turns, conv.pipe)
  BY <1>1 DEF InTree, TurnInv
<1> QED  BY <1>1, <1>3, <1>4, TurnOutside

\* The root of a tree of one leaf is that leaf
LEMMA LoneRoot ==
    ASSUME Root \in Leaves, NEW n \in Nodes
    PROVE  n = Root
<1> SUFFICES ASSUME n # Root PROVE FALSE
  OBVIOUS
<1>1. n \in Below(Root)
  BY RootAbove
<1> QED  BY <1>1, BelowSplits, TreeOK

\* The tree is called, afresh or along the path of the approval in hand
LEMMA EnterTurns ==
    ASSUME RemotesUnshared, TurnInv, [Next]_vars, Quiet, NEW via, frame' = Enter(frame, Root, via),
           InTree', conv'.pipe = Nil, disk' = disk,
           \A n \in Leaves : conv'.turns[n] <= Allowed(n),
           \A n \in Leaves : via = Nil \/ After(n, Root \o via) => conv'.turns[n] = 0,
           Root \in Leaves => via \in {Nil, <<>>}
    PROVE  TurnInv'
<1>1. /\ PauseInv' /\ conv'.turns \in [Leaves -> Nat] /\ frame \in [Nodes -> Frame] /\ Root \in Nodes
  BY TurnTypes, PauseStep, TreeOK
  DEF TurnInv, PauseInv, ShapeInv, IInv, TypeOK, ConversationRecord
<1> DEFINE r == [NoFrame EXCEPT !.st = "run", !.via = via]
<1>2. r.st = "run" /\ r.at = 0 /\ r.round = 0 /\ r.via = via /\ frame' = [frame EXCEPT ![Root] = r]
  BY DEF Enter, NoFrame
<1> HIDE DEF r
<1>3. frame'[Root] = r /\ \A p \in Nodes \ {Root} : frame'[p].st # "run"
  BY <1>1, <1>2 DEF Quiet
<1>4. Target(frame', Root) = Root \o via
  BY <1>2, <1>3 DEF Target
<1>5. Within(frame', conv'.turns)
  <2>1. PICK f, t : f = frame' /\ t = conv'.turns
    OBVIOUS
  <2>2. f[Root].st = "run" /\ f[Root].at = 0 /\ f[Root].round = 0 /\ f[Root].via = via
    BY <1>2, <1>3, <2>1
  <2>3. \A p \in Nodes \ {Root} : f[p].st # "run"
    BY <1>3, <2>1
  <2>4. t \in [Leaves -> Nat] /\ \A n \in Leaves : t[n] <= Allowed(n)
    BY <1>1, <2>1
  <2>5. \A n \in Leaves : f[Root].via = Nil \/ After(n, Target(f, Root)) => t[n] = 0
    BY <1>4, <2>1, <2>2
  <2>6. Root \in Leaves => f[Root].via \in {Nil, <<>>}
    BY <2>2
  <2>7. Within(f, t)
    BY <2>2, <2>3, <2>4, <2>5, <2>6, RootWithin
  <2> QED  BY <2>1, <2>7
<1>6. main' \notin {"exec", "proxy"}
  BY DEF InTree
<1> QED  BY <1>1, <1>5, <1>6 DEF TurnInv, Unspent

\* A client calls
LEMMA ClientTurns ==
    ASSUME RemotesUnshared, TurnInv, [Next]_vars, ClientStep
    PROVE  TurnInv'
<1>1. /\ Quiet /\ disk \in ConversationRecord /\ Kept(disk) /\ main = "idle"
      /\ \A n \in Leaves : 0 <= Allowed(n)
  BY TurnTypes, IterationsFinite DEF ClientStep, Message, Blocked, Approve, Reject, MaySend,
     TurnInv, PauseInv, Leaves
<1>2. CASE Message
  <2>1. /\ frame' = Enter(frame, Root, Nil) /\ InTree' /\ disk' = disk
        /\ conv'.pipe = Nil /\ \A n \in Leaves : conv'.turns[n] = 0
    BY <1>1, <1>2 DEF Message, InTree, ConversationRecord, Kept
  <2> QED  BY <1>1, <2>1, EnterTurns
<1>3. CASE Blocked
  <2>1. main' = "idle" /\ frame' = frame /\ disk' = disk /\ conv' = conv
    BY <1>3 DEF Blocked, Answer, treeVars
  <2>2. ~InTree' /\ PauseInv'
    BY <2>1, PauseStep DEF InTree, TurnInv
  <2> QED  BY <2>1, <2>2 DEF TurnInv, Unspent
<1>4. CASE Approve \/ Reject
  <2>1. frame' = frame /\ conv'.turns = disk.turns /\ conv'.pipe = Nil
    BY <1>1, <1>4 DEF Approve, Reject, Resolved, ConversationRecord, treeVars
  <2>2. PauseInv' /\ \A n \in Leaves : disk.turns[n] <= Allowed(n)
    BY PauseStep DEF TurnInv
  <2>3. conv'.turns \in [Leaves -> Nat] /\ \A p \in Nodes : frame'[p].st # "run"
    BY <1>1, <2>1, TurnTypes DEF Quiet
  <2>4. Within(frame', conv'.turns)
    BY <2>1, <2>2, <2>3, QuietWithin
  <2>5. CASE Approve
    <3>1. disk' = disk /\ held'.pipe = disk.pipe /\ main' \in {"exec", "proxy"}
      BY <2>5 DEF Approve
    <3>2. ~InTree'
      BY <3>1 DEF InTree
    <3> QED  BY <2>1, <2>2, <2>4, <3>1, <3>2 DEF TurnInv, Unspent
  <2>6. CASE Reject
    <3>1. SaveConversation(conv') /\ main' = "idle"
      BY <2>6 DEF Reject, Answer
    <3>2. (\A n \in Leaves : disk'.turns[n] <= Allowed(n)) /\ Unspent(disk'.turns, disk'.pipe)
      BY <2>1, <2>2, <3>1, SavedTurns DEF Unspent
    <3>3. ~InTree'
      BY <3>1 DEF InTree
    <3> QED  BY <2>2, <2>4, <3>1, <3>2, <3>3 DEF TurnInv
  <2> QED  BY <1>4, <2>5, <2>6
<1> QED  BY <1>2, <1>3, <1>4 DEF ClientStep

\* The approved action has its result
LEMMA ContinueTurns ==
    ASSUME RemotesUnshared, TurnInv, [Next]_vars, main \in {"exec", "proxy"},
           NEW outputs, Continue(outputs), UNCHANGED <<conv, disk, held>>
    PROVE  TurnInv'
<1>1. /\ Quiet /\ PauseInv' /\ conv.pipe = Nil /\ Unspent(conv.turns, held.pipe)
      /\ \A n \in Leaves : conv.turns[n] <= Allowed(n)
      /\ held \in [pending : Pending \cup {Nil}, pipe : PipelineState \cup {Nil}]
  BY TurnTypes, PauseStep DEF TurnInv, PauseInv, ShapeInv, IInv, TypeOK, Resolving, InHand
<1>2. CASE held.pipe = Nil
  <2>1. main' = "loop" /\ frame' = frame
    BY <1>2 DEF Continue, treeVars
  <2>2. ~InTree'
    BY <2>1 DEF InTree
  <2> QED  BY <1>1, <2>1, <2>2 DEF TurnInv, Unspent
<1>3. CASE held.pipe # Nil
  <2> DEFINE path == held.pipe.path
  <2>1. path \in Leaves /\ path \in Nodes /\ path # Nil /\ path \in Seq(Nat \ {0})
    BY <1>1, <1>3, NodesAreSequences, NilIsNoPath DEF PipelineState, Leaves
  <2>2. Root \o path = path
    BY <2>1, ConcatEmptySeq, Zenon DEF Root
  <2>3. Root \in Leaves => path = <<>>
    BY <2>1, LoneRoot DEF Root
  <2>4. InTree' /\ frame' = Enter(frame, Root, path)
    BY <1>3 DEF Continue, InTree
  <2>5. \A n \in Leaves : After(n, path) => conv.turns[n] = 0
    BY <1>1, <1>3 DEF Unspent
  <2> HIDE DEF path
  <2>6. \A n \in Leaves : path = Nil \/ After(n, Root \o path) => conv'.turns[n] = 0
    BY <2>1, <2>2, <2>5
  <2> QED  BY <1>1, <2>3, <2>4, <2>6, EnterTurns
<1> QED  BY <1>2, <1>3

\* Steps of ResolveApproval
LEMMA ResolveTurns ==
    ASSUME RemotesUnshared, TurnInv, [Next]_vars, RequestStep,
           ~(MessageDone \/ ResumeDone \/ ResumeFails)
    PROVE  TurnInv'
<1>1. main \in {"exec", "proxy", "loop"}
  BY DEF RequestStep, ExecReturns, ExecAsks, ExecFails, ExecNeedsAuth, ProxyReturns, ProxyFails,
         ProxyNeedsAuth, ProxyAsksAgain, SimpleLoopEnds, SimpleLoopAsks
<1>2. /\ conv \in ConversationRecord /\ disk \in ConversationRecord /\ Quiet /\ conv.pipe = Nil
      /\ \A n \in Leaves : conv.turns[n] <= Allowed(n) /\ disk.turns[n] <= Allowed(n)
      /\ PauseInv'
  BY <1>1, TurnTypes, PauseStep DEF TurnInv, PauseInv, InHand, ShapeInv, IInv, Resolving
<1>3. ASSUME frame' = frame, ~InTree', main' \notin {"exec", "proxy"},
             conv'.turns = conv.turns \/ conv'.turns = disk.turns,
             (\A n \in Leaves : disk'.turns[n] <= Allowed(n)) /\ Unspent(disk'.turns, disk'.pipe)
      PROVE  TurnInv'
  <2>1. conv'.turns \in [Leaves -> Nat] /\ \A n \in Leaves : conv'.turns[n] <= Allowed(n)
    BY <1>2, <1>3, TurnTypes
  <2>2. \A p \in Nodes : frame'[p].st # "run"
    BY <1>2, <1>3 DEF Quiet
  <2>3. Within(frame', conv'.turns)
    BY <2>1, <2>2, QuietWithin
  <2> QED  BY <1>2, <1>3, <2>3 DEF TurnInv
<1>4. CASE ExecReturns \/ ExecAsks \/ ProxyReturns
  <2>1. PICK outputs : Continue(outputs)
    BY <1>4 DEF ExecReturns, ExecAsks, ProxyReturns
  <2>2. UNCHANGED <<conv, disk, held>> /\ main \in {"exec", "proxy"}
    BY <1>4 DEF ExecReturns, ExecAsks, ProxyReturns
  <2> QED  BY <2>1, <2>2, ContinueTurns
<1>5. CASE ResolutionFails
  <2>1. frame' = frame /\ main' = "idle" /\ conv' = disk /\ disk' = disk
    BY <1>5 DEF ResolutionFails, Answer, treeVars
  <2> QED  BY <1>2, <1>3, <2>1 DEF InTree, TurnInv
<1>6. CASE ExecFails /\ ~ResolutionFails
  <2>1. main' = "loop" /\ frame' = frame /\ conv' = conv /\ disk' = disk
    BY <1>6 DEF ExecFails, treeVars
  <2> QED  BY <1>2, <1>3, <2>1 DEF InTree, TurnInv
<1>7. CASE ExecNeedsAuth \/ ProxyNeedsAuth \/ SimpleLoopEnds
  <2>1. SaveConversation(conv) /\ frame' = frame /\ main' = "idle" /\ conv' = conv
    BY <1>7 DEF ExecNeedsAuth, ProxyNeedsAuth, SimpleLoopEnds, ResolutionNeedsAuth, Answer, treeVars
  <2>2. (\A n \in Leaves : disk'.turns[n] <= Allowed(n)) /\ Unspent(disk'.turns, disk'.pipe)
    BY <1>2, <2>1, SavedTurns DEF Unspent
  <2> QED  BY <1>2, <1>3, <2>1, <2>2 DEF InTree
<1>8. CASE ProxyAsksAgain \/ SimpleLoopAsks
  <2>1. SaveConversation(conv') /\ frame' = frame /\ main' = "idle"
    BY <1>8 DEF ProxyAsksAgain, SimpleLoopAsks, Answer, treeVars
  <2>2. conv'.pipe = Nil /\ conv'.turns = conv.turns
    BY <1>2, <1>8 DEF ProxyAsksAgain, SimpleLoopAsks, ConversationRecord
  <2>3. (\A n \in Leaves : disk'.turns[n] <= Allowed(n)) /\ Unspent(disk'.turns, disk'.pipe)
    BY <1>2, <2>1, <2>2, SavedTurns DEF Unspent
  <2> QED  BY <1>2, <1>3, <2>1, <2>2, <2>3 DEF InTree
<1> QED  BY <1>4, <1>5, <1>6, <1>7, <1>8 DEF RequestStep, ProxyFails

\* Every step keeps the invariant
LEMMA TurnStep ==
    ASSUME RemotesUnshared
    PROVE  TurnInv /\ [Next]_vars => TurnInv'
<1> SUFFICES ASSUME TurnInv, [Next]_vars PROVE TurnInv'
  OBVIOUS
<1>1. CASE UNCHANGED vars
  <2>1. PauseInv'
    BY PauseStep DEF TurnInv
  <2>2. UNCHANGED <<frame, conv, disk, main, held>>
    BY <1>1 DEF vars
  <2> QED  BY <2>1, <2>2 DEF TurnInv, Unspent, InTree
<1>2. ASSUME NEW n \in Nodes, CompositeStep(n) \/ LeafStep(n) PROVE TurnInv'
  BY <1>2, TurnComposite, TurnEnds, TurnPauses, NoTurn DEF LeafStep
<1>3. CASE RequestStep
  BY <1>3, ReturnTurns, ResolveTurns
<1>4. CASE ClientStep
  BY <1>4, ClientTurns
<1> QED  BY <1>1, <1>2, <1>3, <1>4 DEF Next, ServerStep

\* It holds at the beginning
LEMMA InitTurns == Init => TurnInv
<1> SUFFICES ASSUME Init PROVE TurnInv
  OBVIOUS
<1>1. /\ PauseInv /\ main = "idle" /\ conv = NewConversation /\ disk = NewConversation
      /\ \A p \in Nodes : frame[p].st # "run"
  BY InitPause DEF Init, NoFrame
<1>2. \A n \in Leaves : 0 <= Allowed(n)
  BY IterationsFinite DEF Leaves
<1>3. conv.turns \in [Leaves -> Nat] /\ conv.pipe = Nil /\ \A n \in Leaves : conv.turns[n] = 0
  BY <1>1 DEF NewConversation
<1>4. Within(frame, conv.turns)
  BY <1>1, <1>2, <1>3, QuietWithin
<1> QED  BY <1>1, <1>2, <1>3, <1>4 DEF TurnInv, Unspent

\* The transcript records at most one turn of a leaf for each iteration of the
\* loops that it is in, however often the tree pauses, fails and is resumed, where
\* no remote agent below a parallel or a loop node asks for an approval: such a
\* pause is dropped, and its loop begins again on a resume.
THEOREM TurnsStayBounded == ASSUME RemotesUnshared PROVE Spec => []TurnsBounded
<1>1. TurnInv => TurnsBounded
  BY TurnTypes DEF TurnInv, TurnsBounded
<1> QED  BY <1>1, InitTurns, TurnStep, PTL DEF Spec
=============================================================================

---------------------------- MODULE Orchestrator ----------------------------
(***************************************************************************)
(* An agent with a tree (internal/agent/orchestrator.go): sequential,      *)
(* parallel and loop nodes over leaves that ask an LLM or a remote agent;  *)
(* a leaf that needs an approval pauses the tree, ResolveApproval resumes  *)
(* it.                                                                     *)
(*                                                                         *)
(* A node is named by its path from the root, a sequence of child indices. *)
(* frame[n] is the activation of executeNode for n: the goroutines of a    *)
(* parallel node are the frames of its children.  A step is the end of a   *)
(* leaf (one answer of an outside party, which may be anything the code    *)
(* tells apart), the next step of a composite node, or a step of the       *)
(* request that runs the tree.  One conversation is modelled, with one     *)
(* request at a time: SimpleAgent has the requests that race.              *)
(***************************************************************************)
EXTENDS Naturals, Sequences, FiniteSets

CONSTANTS
    Kind,           \* the tree: the type of the node at each path
    MaxIterations,  \* of every loop node; 10 in the code unless configured
    CanExit,        \* leaves with can_exit_loop
    Hinted,         \* leaves that may want to do something destructive
    RemoteAsks,     \* leaves whose remote agent may ask for an approval
    Fragile,        \* leaves whose LLM or A2A client may not exist
    MaxErrors,      \* bound: failed resolutions of one approval, after which nobody
                    \* approves it again
    Nil             \* the absence of a value

Nodes == DOMAIN Kind
Leaves == {n \in Nodes : Kind[n] \in {"llm", "a2a"}}
Root == <<>>

Child(n, i) == Append(n, i)
Parent(n) == SubSeq(n, 1, Len(n) - 1)
Children(n) == {m \in Nodes : m # Root /\ Parent(m) = n}
Width(n) == Cardinality(Children(n))
Ancestors(n) == {SubSeq(n, 1, k) : k \in 0 .. Len(n) - 1}

\* allowDestructive: below a parallel or a loop node nothing is asked
Free(n) == \E m \in Ancestors(n) : Kind[m] \in {"parallel", "loop"}

ASSUME TreeOK ==
    /\ Nodes \subseteq Seq(Nat \ {0})
    /\ Root \in Nodes
    /\ \A n \in Nodes : Kind[n] \in {"llm", "a2a", "sequential", "parallel", "loop"}
    /\ \A n \in Nodes : Ancestors(n) \subseteq Nodes \ Leaves
    /\ \A n \in Nodes \ Leaves :
          /\ Width(n) \in Nat \ {0}
          /\ Children(n) = {Child(n, i) : i \in 1 .. Width(n)}

ASSUME OrchestratorParameters ==
    /\ MaxIterations \in Nat \ {0}
    /\ CanExit \subseteq {n \in Leaves : Kind[n] = "llm"}
    /\ Hinted \subseteq Leaves
    /\ RemoteAsks \subseteq Leaves
    /\ Fragile \subseteq Leaves
    /\ MaxErrors \in Nat \ {0}

VARIABLES
    frame,      \* the activation of each node
    state,      \* SessionState: the leaves whose output it holds
    conv,       \* the request's copy of the conversation
    disk,       \* the conversation's file
    main,       \* where the request is
    held,       \* the pending approval and pipeline ResolveApproval copied out
    told,       \* the last answer to the client
    broken,     \* the fragile leaves that have no client
    undecided,  \* history: remote tasks that have asked and that no decision has reached
    executed,   \* history: runs of the approved action of the stored approval
    errors      \* history: its resolutions that have been answered with an error

treeVars == <<frame, state>>
runVars == <<executed, errors>>
vars == <<frame, state, conv, disk, main, held, told, broken, undecided, runVars>>

Results == {"ok", "err", "wait", "exit", "auth"}

\* via: what is left of ResumeInfo.Path, Nil for a fresh activation
Frame == [st    : {"idle", "run", "mark", "done"},
          at    : Nat,      \* the child that runs
          round : Nat,      \* the iteration of a loop
          via   : {Nil} \cup Seq(Nat \ {0}),
          res   : Results \cup {Nil}]

\* node: the leaf that asked, Nil in the simple mode of a lost pipeline
Pending == [node : Leaves \cup {Nil}, remote : BOOLEAN]

PipelineState == [path : Leaves, state : SUBSET Leaves]

ASSUME NilIsNoRecord == Nil \notin Pending \cup PipelineState

ASSUME NilIsNoPath == Nil \notin Seq(Nat \ {0})

ASSUME NilIsNoResult == Nil \notin Results

\* turns and outs stand for the messages since the last one of the user: how many
\* turns of each leaf they record, and the leaves whose output they hold
ConversationRecord == [pending : Pending \cup {Nil},
                       pipe    : PipelineState \cup {Nil},
                       turns   : [Leaves -> Nat],
                       outs    : SUBSET Leaves]

TypeOK ==
    /\ frame \in [Nodes -> Frame]
    /\ state \subseteq Leaves
    /\ conv \in ConversationRecord
    /\ disk \in ConversationRecord
    /\ main \in {"idle", "run", "resume", "exec", "proxy", "loop"}
    /\ held \in [pending : Pending \cup {Nil}, pipe : PipelineState \cup {Nil}]
    /\ told \in {"none", "ok", "wait", "auth", "error", "cancelled"}
    /\ broken \subseteq Fragile
    /\ undecided \subseteq Leaves \cup {Nil}
    /\ executed \in 0 .. MaxErrors
    /\ errors \in 0 .. MaxErrors

NoFrame == [st |-> "idle", at |-> 0, round |-> 0, via |-> Nil, res |-> Nil]

NewConversation == [pending |-> Nil, pipe |-> Nil,
                    turns |-> [n \in Leaves |-> 0], outs |-> {}]

NothingHeld == [pending |-> Nil, pipe |-> Nil]

Init ==
    /\ frame = [n \in Nodes |-> NoFrame]
    /\ state = {}
    /\ conv = NewConversation
    /\ disk = NewConversation
    /\ main = "idle"
    /\ held = NothingHeld
    /\ told = "none"
    /\ broken \in SUBSET Fragile
    /\ undecided = {}
    /\ executed = 0
    /\ errors = 0

-----------------------------------------------------------------------------
(***************************************************************************)
(* Activations.                                                            *)
(***************************************************************************)

Running(n) == frame[n].st = "run"
Done(n) == frame[n].st = "done"
Quiet == \A n \in Nodes : frame[n].st = "idle"

\* The call of executeNode
Enter(f, n, via) == [f EXCEPT ![n] = [NoFrame EXCEPT !.st = "run", !.via = via]]

\* ... and its return
Return(f, n, res) == [f EXCEPT ![n].st = "done", ![n].res = res]

\* The caller takes the result of n
Leave(f, n) == [f EXCEPT ![n] = NoFrame]

\* Of a message that has been dealt with, nothing is looked at any more
SaveConversation(c) ==
    /\ disk' = IF c.pending = Nil /\ c.pipe = Nil THEN NewConversation ELSE c
    /\ executed' = 0
    /\ errors' = 0

\* A step of a composite node
TreeStep(f) ==
    /\ frame' = f
    /\ UNCHANGED <<state, conv, disk, main, held, told, broken, undecided, runVars>>

-----------------------------------------------------------------------------
(***************************************************************************)
(* Composite nodes.                                                        *)
(***************************************************************************)

\* Results that end a sequence before its last child
Stops == {"err", "wait", "exit", "auth"}

\* n, which is of this kind, runs its child i, which has returned
Returned(n, kind, i) ==
    /\ Running(n)
    /\ Kind[n] = kind
    /\ i = frame[n].at
    /\ i > 0
    /\ Done(Child(n, i))

ResultOf(n, i) == frame[Child(n, i)].res

\* n goes on with child j, in iteration round
GoOn(n, i, j, round) ==
    TreeStep(Enter([Leave(frame, Child(n, i)) EXCEPT ![n].at = j, ![n].round = round],
                   Child(n, j), Nil))

GiveBack(n, i, res) == TreeStep(Return(Leave(frame, Child(n, i)), n, res))

\* Mutant of SeqStart: the resume path is not followed
SeqStartAfresh(n) ==
    /\ Running(n) /\ Kind[n] = "sequential" /\ frame[n].at = 0
    /\ TreeStep(Enter([frame EXCEPT ![n].at = 1], Child(n, 1), Nil))

\* Mutant of SeqStart: a resume starts at the child after the paused one
SeqStartAfter(n) ==
    /\ Running(n) /\ Kind[n] = "sequential" /\ frame[n].at = 0
    /\ LET via == frame[n].via
           resumed == via \notin {Nil, <<>>} /\ Head(via) < Width(n)
           i == IF resumed THEN Head(via) + 1 ELSE 1
       IN  TreeStep(Enter([frame EXCEPT ![n].at = i], Child(n, i), Nil))

\* executeSequential: a resume starts at the paused child
SeqStart(n) ==
    /\ Running(n) /\ Kind[n] = "sequential" /\ frame[n].at = 0
    /\ LET via == frame[n].via
           resumed == via \notin {Nil, <<>>}
           i == IF resumed THEN Head(via) ELSE 1
       IN  TreeStep(Enter([frame EXCEPT ![n].at = i], Child(n, i),
                          IF resumed THEN Tail(via) ELSE Nil))

\* Mutant of SeqNext: the sequence does not stop at a pause
SeqNextPastPause(n) ==
    LET i == frame[n].at IN
    /\ Returned(n, "sequential", i)
    /\ ResultOf(n, i) \notin Stops \ {"wait"}
    /\ i < Width(n)
    /\ GoOn(n, i, i + 1, 0)

SeqNext(n) ==
    LET i == frame[n].at IN
    /\ Returned(n, "sequential", i)
    /\ ResultOf(n, i) \notin Stops
    /\ i < Width(n)
    /\ GoOn(n, i, i + 1, 0)

SeqEnd(n) ==
    LET i == frame[n].at IN
    /\ Returned(n, "sequential", i)
    /\ ResultOf(n, i) \in Stops \/ i = Width(n)
    /\ GiveBack(n, i, ResultOf(n, i))

\* executeLoop: a loop is not given the resume path
LoopStart(n) ==
    /\ Running(n) /\ Kind[n] = "loop" /\ frame[n].at = 0
    /\ TreeStep(Enter([frame EXCEPT ![n].at = 1], Child(n, 1), Nil))

LastTurn(n, i) == i = Width(n) /\ frame[n].round + 1 = MaxIterations

\* Waiting and missing authentication do not end a loop
LoopNext(n) ==
    LET i == frame[n].at IN
    /\ Returned(n, "loop", i)
    /\ ResultOf(n, i) \notin {"err", "exit"}
    /\ ~LastTurn(n, i)
    /\ IF i < Width(n) THEN GoOn(n, i, i + 1, frame[n].round)
                       ELSE GoOn(n, i, 1, frame[n].round + 1)

LoopEnd(n) ==
    LET i == frame[n].at IN
    /\ Returned(n, "loop", i)
    /\ ResultOf(n, i) \in {"err", "exit"} \/ LastTurn(n, i)
    /\ GiveBack(n, i, IF ResultOf(n, i) = "exit" THEN "ok" ELSE ResultOf(n, i))

\* executeParallel: a goroutine for each child, without the resume path
ParFork(n) ==
    /\ Running(n) /\ Kind[n] = "parallel" /\ frame[n].at = 0
    /\ TreeStep([m \in Nodes |->
          IF m \in Children(n) THEN [NoFrame EXCEPT !.st = "run"]
          ELSE IF m = n THEN [frame[n] EXCEPT !.at = 1]
          ELSE frame[m]])

\* n returns, and takes what its children have returned so far
Collect(n, res) ==
    TreeStep([m \in Nodes |->
          IF m \in Children(n) /\ Done(m) THEN NoFrame
          ELSE IF m = n THEN [frame[n] EXCEPT !.st = "done", !.res = res]
          ELSE frame[m]])

\* All children have returned; only their texts are kept
ParJoin(n) ==
    /\ Running(n) /\ Kind[n] = "parallel" /\ frame[n].at = 1
    /\ \A m \in Children(n) : Done(m) /\ frame[m].res # "err"
    /\ Collect(n, "ok")

\* The first error is returned at once, the other children run on
ParFail(n) ==
    /\ Running(n) /\ Kind[n] = "parallel" /\ frame[n].at = 1
    /\ \E m \in Children(n) : Done(m) /\ frame[m].res = "err"
    /\ Collect(n, "err")

\* A child that ran on returns to nobody
Reap(n) ==
    /\ n # Root
    /\ Done(n)
    /\ ~Running(Parent(n))
    /\ TreeStep(Leave(frame, n))

-----------------------------------------------------------------------------
(***************************************************************************)
(* Leaves: executeLLMNode and executeA2ANode.                              *)
(***************************************************************************)

\* n is run for its own turn, not to take the result of its approved action
InTurn(n) == n \in Leaves /\ Running(n) /\ frame[n].via # <<>>

\* ... and the client that it needs exists
TakesTurn(n) == InTurn(n) /\ n \notin broken

Counted(n) == [conv EXCEPT !.turns[n] = @ + 1]

SameRequest == UNCHANGED <<main, held, told, broken>>

\* A turn that ends with res and leaves no output
LeafEnds(n, res) ==
    /\ frame' = Return(frame, n, res)
    /\ conv' = Counted(n)
    /\ UNCHANGED <<state, disk, undecided, runVars>>
    /\ SameRequest

NoClient(n) ==
    /\ InTurn(n) /\ n \in broken
    /\ TreeStep(Return(frame, n, "err"))

\* A workflow delegation that needs an approval is never made right away
MayAct(n) == TakesTurn(n) /\ ~(Kind[n] = "a2a" /\ n \in Hinted /\ ~Free(n))

\* An error of the LLM, the tool or the remote agent is only a text
LeafError(n) == MayAct(n) /\ LeafEnds(n, "ok")

LeafExits(n) == TakesTurn(n) /\ n \in CanExit /\ LeafEnds(n, "exit")

LeafNeedsAuth(n) == MayAct(n) /\ LeafEnds(n, "auth")

\* A text, or the result of a tool or of a remote agent
LeafOutput(n) ==
    /\ MayAct(n)
    /\ frame' = Return(frame, n, "ok")
    /\ state' = state \cup {n}
    /\ conv' = [Counted(n) EXCEPT !.outs = @ \cup {n}]
    /\ UNCHANGED <<disk, undecided, runVars>>
    /\ SameRequest

\* Mutant of Paused: the session state is not stored
PausedStateless(n) ==
    [Counted(n) EXCEPT !.pending = [node |-> n, remote |-> FALSE],
                       !.pipe = [path |-> n, state |-> {}]]

\* pauseForApproval
Paused(n) ==
    [Counted(n) EXCEPT !.pending = [node |-> n, remote |-> FALSE],
                       !.pipe = [path |-> n, state |-> state]]

LeafAsks(n) ==
    /\ TakesTurn(n) /\ n \in Hinted /\ ~Free(n)
    /\ frame' = Return(frame, n, "wait")
    /\ conv' = Paused(n)
    /\ SaveConversation(conv')
    /\ UNCHANGED <<state, undecided>>
    /\ SameRequest

\* The remote agent answers "input-required": first the pause is saved ...
LeafProxies(n) ==
    /\ MayAct(n) /\ n \in RemoteAsks
    /\ frame' = [frame EXCEPT ![n].st = "mark"]
    /\ conv' = Paused(n)
    /\ SaveConversation(conv')
    /\ undecided' = undecided \cup {n}
    /\ UNCHANGED state
    /\ SameRequest

\* ... then the remote task, in whatever approval is pending by now
MarkProxy(n) ==
    /\ frame[n].st = "mark"
    /\ frame' = Return(frame, n, "wait")
    /\ conv' = [conv EXCEPT !.pending.remote = TRUE]
    /\ SaveConversation(conv')
    /\ UNCHANGED <<state, undecided>>
    /\ SameRequest

\* The paused leaf takes the result of its approved action for its own
LeafResumes(n) ==
    /\ n \in Leaves /\ Running(n) /\ frame[n].via = <<>>
    /\ frame' = Return(frame, n, "ok")
    /\ state' = state \cup {n}
    /\ conv' = [conv EXCEPT !.outs = @ \cup {n}]
    /\ UNCHANGED <<disk, undecided, runVars>>
    /\ SameRequest

-----------------------------------------------------------------------------
(***************************************************************************)
(* The request: ProcessMessage and ResolveApproval.                        *)
(***************************************************************************)

\* The client gets its answer, the local variables are gone
Answer(what) == main' = "idle" /\ told' = what /\ held' = NothingHeld

\* A request waits until the goroutines of the one before have ended
MaySend == main = "idle" /\ Quiet

\* processOrchestrated
Message ==
    /\ MaySend /\ disk.pending = Nil
    /\ conv' = [disk EXCEPT !.turns = [n \in Leaves |-> 0], !.outs = {}]
    /\ state' = {}
    /\ frame' = Enter(frame, Root, Nil)
    /\ main' = "run"
    /\ UNCHANGED <<disk, held, told, broken, undecided, runVars>>

\* ProcessMessage refuses a waiting conversation
Blocked ==
    /\ MaySend /\ disk.pending # Nil
    /\ Answer("wait")
    /\ UNCHANGED <<treeVars, conv, disk, broken, undecided, runVars>>

\* Mutant of AnswerTo: an exit outside of a loop is not expected
AnswerToUnmapped(res) == IF res = "err" THEN "error" ELSE res

AnswerTo(res) == CASE res \in {"ok", "exit"} -> "ok"
                   [] res = "err" -> "error"
                   [] OTHER -> res

\* The tree has returned
MessageDone ==
    /\ main = "run" /\ Done(Root)
    /\ frame' = Leave(frame, Root)
    /\ SaveConversation(conv)
    /\ Answer(AnswerTo(frame[Root].res))
    /\ UNCHANGED <<state, conv, broken, undecided>>

\* Mutant of ResumeDone: the conversation is not saved
ResumeDoneUnsaved ==
    /\ main = "resume" /\ Done(Root) /\ frame[Root].res # "err"
    /\ frame' = Leave(frame, Root)
    /\ Answer(AnswerTo(frame[Root].res))
    /\ UNCHANGED <<state, conv, disk, broken, undecided, runVars>>

ResumeDone ==
    /\ main = "resume" /\ Done(Root) /\ frame[Root].res # "err"
    /\ frame' = Leave(frame, Root)
    /\ SaveConversation(conv)
    /\ Answer(AnswerTo(frame[Root].res))
    /\ UNCHANGED <<state, conv, broken, undecided>>

\* Mutant of Resolved: the pipeline is kept
ResolvedPipeKept == [disk EXCEPT !.pending = Nil]

Resolved == [disk EXCEPT !.pending = Nil, !.pipe = Nil]

\* Mutant of ResumeFails: the resume is tried again
ResumeFailsRetried ==
    /\ main = "resume" /\ Done(Root) /\ frame[Root].res = "err"
    /\ frame' = Enter(Leave(frame, Root), Root, held.pipe.path)
    /\ conv' = Resolved
    /\ state' = held.pipe.state
    /\ UNCHANGED <<disk, main, held, told, broken, undecided, runVars>>

\* The error of a resumed tree is returned, and nothing is saved
ResumeFails ==
    /\ main = "resume" /\ Done(Root) /\ frame[Root].res = "err"
    /\ frame' = Leave(frame, Root)
    /\ Answer("error")
    /\ errors' = errors + 1
    /\ UNCHANGED <<state, conv, disk, broken, undecided, executed>>

Approve ==
    /\ MaySend /\ disk.pending # Nil /\ errors < MaxErrors
    /\ held' = [pending |-> disk.pending, pipe |-> disk.pipe]
    /\ conv' = Resolved
    /\ main' = IF disk.pending.remote THEN "proxy" ELSE "exec"
    /\ UNCHANGED <<treeVars, disk, told, broken, undecided, runVars>>

\* The rejection is saved; of a proxy, it is also sent on, whatever comes of it
Reject ==
    /\ MaySend /\ disk.pending # Nil
    /\ conv' = Resolved
    /\ SaveConversation(conv')
    /\ undecided' = undecided \ (IF disk.pending.remote THEN {disk.pending.node} ELSE {})
    /\ Answer("cancelled")
    /\ UNCHANGED <<treeVars, broken>>

\* The tree is run again along the stored path, or the simple mode goes on
Continue(outputs) ==
    IF held.pipe = Nil
    THEN main' = "loop" /\ UNCHANGED treeVars
    ELSE /\ main' = "resume"
         /\ state' = held.pipe.state \cup outputs
         /\ frame' = Enter(frame, Root, held.pipe.path)

\* Nothing is saved: the approval can be resolved again
ResolutionFails ==
    /\ Answer("error")
    /\ conv' = disk
    /\ errors' = errors + 1
    /\ UNCHANGED <<treeVars, disk, broken>>

\* The copy is saved, with the approval resolved and the pipeline gone
ResolutionNeedsAuth ==
    /\ SaveConversation(conv)
    /\ Answer("auth")
    /\ UNCHANGED <<treeVars, conv, broken>>

\* The approved tool or delegation has been carried out
ExecReturns ==
    /\ main = "exec"
    /\ executed' = executed + 1
    /\ Continue({})
    /\ UNCHANGED <<conv, disk, held, told, broken, undecided, errors>>

\* The remote agent of an approved delegation asks for an approval of its own:
\* its "input-required" is taken for a result
ExecAsks ==
    /\ main = "exec"
    /\ held.pending.node \in RemoteAsks
    /\ executed' = executed + 1
    /\ undecided' = undecided \cup {held.pending.node}
    /\ Continue({})
    /\ UNCHANGED <<conv, disk, held, told, broken, errors>>

\* The call ends with an error, before or after the action was carried out.  Only a
\* pipeline returns the error, the simple mode shows it to the LLM.
ExecFails ==
    /\ main = "exec"
    /\ executed' \in {executed, executed + 1}
    /\ UNCHANGED undecided
    /\ IF held.pipe # Nil THEN ResolutionFails
       ELSE main' = "loop" /\ UNCHANGED <<treeVars, conv, disk, held, told, broken, errors>>

\* An MCP server refuses the token
ExecNeedsAuth ==
    /\ main = "exec"
    /\ held.pending.node # Nil => Kind[held.pending.node] = "llm"
    /\ ResolutionNeedsAuth
    /\ UNCHANGED undecided

\* The remote task took the decision and ended
Settled == undecided' = undecided \ {held.pending.node}

ProxyReturns ==
    /\ main = "proxy"
    /\ Settled
    /\ Continue(IF held.pipe = Nil THEN {} ELSE {held.pipe.path})
    /\ UNCHANGED <<conv, disk, held, told, broken, runVars>>

\* The call ends with an error, before or after the remote task took the decision
ProxyFails ==
    /\ main = "proxy"
    /\ Settled \/ UNCHANGED undecided
    /\ UNCHANGED executed
    /\ ResolutionFails

ProxyNeedsAuth == main = "proxy" /\ Settled /\ ResolutionNeedsAuth

\* Mutant of ProxyAsksAgain: the new approval is not a proxy
AsksAgainLocally ==
    /\ main = "proxy"
    /\ conv' = [conv EXCEPT !.pending = [held.pending EXCEPT !.remote = FALSE]]
    /\ SaveConversation(conv')
    /\ Answer("wait")
    /\ UNCHANGED <<treeVars, broken, undecided>>

\* Another approval of the remote task: a new proxy, without the pipeline
ProxyAsksAgain ==
    /\ main = "proxy"
    /\ conv' = [conv EXCEPT !.pending = held.pending]
    /\ SaveConversation(conv')
    /\ Answer("wait")
    /\ UNCHANGED <<treeVars, broken, undecided>>

\* processSimpleMessage after a resolution: SimpleAgent has it in detail
SimpleLoopEnds ==
    /\ main = "loop"
    /\ SaveConversation(conv)
    /\ \E what \in {"ok", "auth"} : Answer(what)
    /\ UNCHANGED <<treeVars, conv, broken, undecided>>

SimpleLoopAsks ==
    /\ main = "loop"
    /\ \E remote \in BOOLEAN :
          /\ conv' = [conv EXCEPT !.pending = [node |-> Nil, remote |-> remote]]
          /\ undecided' = IF remote THEN undecided \cup {Nil} ELSE undecided
    /\ SaveConversation(conv')
    /\ Answer("wait")
    /\ UNCHANGED <<treeVars, broken>>

-----------------------------------------------------------------------------

CompositeStep(n) ==
    \/ SeqStart(n) \/ SeqNext(n) \/ SeqEnd(n)
    \/ LoopStart(n) \/ LoopNext(n) \/ LoopEnd(n)
    \/ ParFork(n) \/ ParJoin(n) \/ ParFail(n)
    \/ Reap(n)

LeafStep(n) ==
    \/ NoClient(n) \/ LeafError(n) \/ LeafExits(n) \/ LeafNeedsAuth(n)
    \/ LeafOutput(n) \/ LeafAsks(n) \/ LeafProxies(n) \/ MarkProxy(n)
    \/ LeafResumes(n)

RequestStep ==
    \/ MessageDone \/ ResumeDone \/ ResumeFails
    \/ ExecReturns \/ ExecAsks \/ ExecFails \/ ExecNeedsAuth
    \/ ProxyReturns \/ ProxyFails \/ ProxyNeedsAuth \/ ProxyAsksAgain
    \/ SimpleLoopEnds \/ SimpleLoopAsks

ServerStep ==
    \/ \E n \in Nodes : CompositeStep(n) \/ LeafStep(n)
    \/ RequestStep

ClientStep == Message \/ Blocked \/ Approve \/ Reject

Next == ServerStep \/ ClientStep

Spec == Init /\ [][Next]_vars

\* Goroutines are scheduled, and every call ends, by its timeout at the latest
FairSpec == Spec /\ WF_vars(ServerStep)

-----------------------------------------------------------------------------

\* The loops that n is in, the iterations that it may be in, and their number
Loops(n) == {m \in Ancestors(n) : Kind[m] = "loop"}
Iterations(n) == [Loops(n) -> 0 .. MaxIterations - 1]
Allowed(n) == Cardinality(Iterations(n))

\* The transcript records at most one turn of a leaf for each iteration that it
\* is in, however often the tree was paused, resumed and retried (executeNode).
TurnsBounded == \A n \in Leaves : disk.turns[n] <= Allowed(n) /\ conv.turns[n] <= Allowed(n)

\* A leaf that takes its turn finds in the session state what the transcript says
\* was put out before it, on this side of a pause or on the other (SessionState).
StateMatchesTranscript ==
    main \in {"run", "resume"} => \A n \in Leaves : InTurn(n) => state = conv.outs

\* A conversation does not wait for an approval behind the client's back: the
\* last answer said so, or reported an error.
ClientKnows ==
    main = "idle" /\ Quiet /\ disk.pending # Nil => told \in {"wait", "error"}

\* The pipeline that an approval stopped is kept with it, and lost with it: no
\* pipeline without the approval of the leaf at its path, and no approval of a leaf
\* without its pipeline, except the second one of a remote task (ProxyAsksAgain),
\* with which the code loses it.
PendingHasPipeline ==
    /\ disk.pipe # Nil => disk.pending # Nil /\ disk.pipe.path = disk.pending.node
    /\ disk.pending # Nil /\ disk.pending.node # Nil /\ ~disk.pending.remote =>
          disk.pipe # Nil

\* When the server is idle, a remote task that has asked, for a leaf that asks nobody
\* itself, can still be given a decision: it is the task of the pending approval.
NoRemoteTaskForgotten ==
    main = "idle" /\ Quiet =>
        \A n \in undecided \ Hinted : disk.pending = [node |-> n, remote |-> TRUE]

\* The action of an approval is carried out again only after the client was told of
\* an error: nothing is saved then (ResolveApproval), whether the call failed, which
\* may have acted before, or the resumed tree did after it.  A stored approval whose
\* action has run has been answered with an error for every run.
RepeatOnlyAfterError == executed <= errors + (IF main = "idle" THEN 0 ELSE 1)

\* Every request is answered and its goroutines end (executeLoop has a bound).
EveryRequestEnds == main # "idle" ~> main = "idle" /\ Quiet

-----------------------------------------------------------------------------
(***************************************************************************)
(* A tree whose root is sequential is a Pipeline of the root's children.   *)
(***************************************************************************)

InTree == main \in {"run", "resume"}

AbstractKept == IF disk.pipe = Nil THEN 0 ELSE Head(disk.pipe.path)

P == INSTANCE Pipeline WITH
        Steps <- Width(Root),
        phase <- IF InTree THEN IF conv.pending = Nil THEN "running" ELSE "pausing"
                 ELSE IF disk.pipe = Nil THEN "idle" ELSE "paused",
        at    <- IF InTree THEN frame[Root].at ELSE AbstractKept,
        kept  <- AbstractKept

\* The tree implements Pipeline: it stops at the child that asks, goes on at that
\* child after the approval, and runs its children in order.
ImplementsPipeline == P!PipelineSpec

=============================================================================

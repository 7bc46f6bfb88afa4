----------------------------- MODULE ProxyChain -----------------------------
(***************************************************************************)
(* Two agents: A has a client and delegates to B over A2A, B has the       *)
(* destructive tools.  When B asks for an approval, A asks its client for  *)
(* a proxy approval and forwards the decision as a message to B's task.    *)
(*                                                                         *)
(* A is in simple mode and has one conversation.  A step is one access of  *)
(* A to its store, or the handling of one message by B: what goes on       *)
(* inside one agent is SimpleAgent's subject, this module is about what    *)
(* the two know of each other.  A call may fail for A although B gets the  *)
(* message, at once or later, and A may die.                               *)
(***************************************************************************)
EXTENDS Naturals, FiniteSets

CONSTANTS
    Requests,   \* the requests of A's client; an approval of A is named by the
                \* request that created it
    Tasks,      \* B's conversations, which are its A2A tasks
    Actions,    \* B's approvals, each of one call of a destructive tool
    None,
    MaxFaults   \* bound: lost calls, late calls and crashes of A

Proxies == [task : Tasks, action : Actions]
Decisions == [uuid : Requests, approve : BOOLEAN]
Texts == {"prompt", "approved", "rejected"}
Messages == [by : Requests, task : Tasks \cup {None}, text : Texts]
Answers == [state : {"completed", "auth-required"}, task : Tasks]
             \cup [state : {"input-required"}, task : Tasks, action : Actions]

ASSUME Distinct ==
    /\ MaxFaults \in Nat
    /\ None \notin Requests \cup Tasks \cup Proxies \cup Decisions \cup Answers
    /\ {"none", "active", "completed", "auth-required"} \cap Actions = {}

VARIABLES
    pc,        \* where A's goroutine of the request is
    decision,  \* the approval the request resolves, and how
    pending,   \* A's stored PendingApproval
    issued,    \* issued[u]: remote_task_id of proxy u, and the action B described
    sent,      \* the A2A messages B has not taken yet
    answer,    \* the task B returned to the request
    reply,     \* what A told its client
    asked,     \* the approvals B has created
    tasks,     \* B's store: no task, an active one, or the action a task waits for
    ran,       \* history: how often the tool of an action was executed
    faults

aVars == <<decision, pending, issued, reply>>
bVars == <<asked, tasks, ran>>
vars == <<pc, decision, pending, issued, sent, answer, reply, asked, tasks, ran, faults>>

TypeOK ==
    /\ pc \in [Requests -> {"idle", "llm", "done", "lost"} \cup Texts]
    /\ decision \in [Requests -> Decisions \cup {None}]
    /\ pending \in Requests \cup {None}
    /\ issued \in [Requests -> Proxies \cup {None}]
    /\ sent \subseteq Messages
    /\ answer \in [Requests -> Answers \cup {None}]
    /\ reply \in [Requests -> {"none", "text", "approval", "auth", "cancelled", "blocked", "error"}]
    /\ asked \subseteq Actions
    /\ tasks \in [Tasks -> {"none", "active"} \cup Actions]
    /\ ran \in [Actions -> Nat]
    /\ faults \in 0 .. MaxFaults

Init ==
    /\ pc = [r \in Requests |-> "idle"]
    /\ decision = [r \in Requests |-> None]
    /\ pending = None
    /\ issued = [r \in Requests |-> None]
    /\ sent = {}
    /\ answer = [r \in Requests |-> None]
    /\ reply = [r \in Requests |-> "none"]
    /\ asked = {}
    /\ tasks = [t \in Tasks |-> "none"]
    /\ ran = [v \in Actions |-> 0]
    /\ faults = 0

InFlight(r) == pc[r] \in {"llm"} \cup Texts

\* The client waits for one answer before it sends the next request
Quiet == \A r \in Requests : ~InFlight(r)

Goto(r, l) == pc' = [pc EXCEPT ![r] = l]

Reply(r, what) ==
    /\ Goto(r, "done")
    /\ reply' = [reply EXCEPT ![r] = what]

\* SendMessage and ContinueTask of the A2A client, up to the answer
Call(r, t, text) ==
    /\ sent' = sent \cup {[by |-> r, task |-> t, text |-> text]}
    /\ Goto(r, text)

\* The call has returned a task in one of these states
Returned(r, states) ==
    /\ pc[r] \in {"prompt", "approved"}
    /\ answer[r] # None
    /\ answer[r].state \in states

-----------------------------------------------------------------------------
(***************************************************************************)
(* Agent A, asked by its client.                                           *)
(***************************************************************************)

PostMessage(r) ==
    /\ pc[r] = "idle" /\ Quiet
    /\ IF pending # None
       THEN Reply(r, "blocked")
       ELSE Goto(r, "llm") /\ UNCHANGED reply
    /\ UNCHANGED <<decision, pending, issued, sent, answer, bVars, faults>>

\* The client was told of u, which is still pending
MayResolve(r, u) ==
    /\ pc[r] = "idle" /\ Quiet
    /\ issued[u] # None
    /\ pending = u

\* The approval was resolved before, or replaced
ApprovalNotFound(r, u) ==
    /\ pc[r] = "idle" /\ Quiet
    /\ issued[u] # None /\ pending # u
    /\ Reply(r, "error")
    /\ UNCHANGED <<decision, pending, issued, sent, answer, bVars, faults>>

\* An approval is forwarded before anything is saved
Approve(r, u) ==
    /\ MayResolve(r, u)
    /\ decision' = [decision EXCEPT ![r] = [uuid |-> u, approve |-> TRUE]]
    /\ Call(r, issued[u].task, "approved")
    /\ UNCHANGED <<pending, issued, answer, reply, bVars, faults>>

\* Mutant of Reject: the rejection stays with A
RejectHere(r, u) ==
    /\ MayResolve(r, u)
    /\ decision' = [decision EXCEPT ![r] = [uuid |-> u, approve |-> FALSE]]
    /\ pending' = None
    /\ Reply(r, "cancelled")
    /\ UNCHANGED <<issued, sent, answer, bVars, faults>>

\* A rejection is saved first and forwarded then
Reject(r, u) ==
    /\ MayResolve(r, u)
    /\ decision' = [decision EXCEPT ![r] = [uuid |-> u, approve |-> FALSE]]
    /\ pending' = None
    /\ Call(r, issued[u].task, "rejected")
    /\ UNCHANGED <<issued, answer, reply, bVars, faults>>

-----------------------------------------------------------------------------
(***************************************************************************)
(* Agent A, the loop of processSimpleMessage and what a task it gets back  *)
(* makes of the conversation.                                              *)
(***************************************************************************)

\* The LLM asks for B: a message without a taskId
Delegate(r) ==
    /\ pc[r] = "llm"
    /\ \E t \in Tasks : tasks[t] = "none"
    /\ Call(r, None, "prompt")
    /\ answer' = [answer EXCEPT ![r] = None]
    /\ UNCHANGED <<aVars, bVars, faults>>

\* The LLM answers, or the loop ends otherwise; the resolved approval, cleared
\* in the copy of the conversation, is now cleared in the file
Finish(r) ==
    /\ pc[r] = "llm"
    /\ pending' = None
    /\ Reply(r, "text")
    /\ UNCHANGED <<decision, issued, sent, answer, bVars, faults>>

ReceiveResult(r) ==
    /\ Returned(r, {"completed"})
    /\ Goto(r, "llm")
    /\ UNCHANGED <<aVars, sent, answer, bVars, faults>>

\* B needs an approval: a new proxy is saved, whether r sent a prompt or a yes
ReceiveQuestion(r) ==
    /\ Returned(r, {"input-required"})
    /\ issued' = [issued EXCEPT ![r] = [task |-> answer[r].task, action |-> answer[r].action]]
    /\ pending' = r
    /\ Reply(r, "approval")
    /\ UNCHANGED <<decision, sent, answer, bVars, faults>>

ReceiveAuthRequired(r) ==
    /\ Returned(r, {"auth-required"})
    /\ pending' = None
    /\ Reply(r, "auth")
    /\ UNCHANGED <<decision, issued, sent, answer, bVars, faults>>

\* The answer to a rejection is not looked at
RejectionForwarded(r) ==
    /\ pc[r] = "rejected"
    /\ answer[r] # None
    /\ Reply(r, "cancelled")
    /\ UNCHANGED <<decision, pending, issued, sent, answer, bVars, faults>>

-----------------------------------------------------------------------------
(***************************************************************************)
(* Calls fail and A dies.                                                  *)
(***************************************************************************)

Fault == faults < MaxFaults /\ faults' = faults + 1

\* What r sent is dropped, or is on its way still
MayLose(r) == sent' = sent \/ sent' = {m \in sent : m.by # r}

\* call returns an error before or after B took the message.  A failed prompt
\* is a tool result for the LLM, a failed "approved" an error to the client with
\* nothing saved, a failed "rejected" is ignored.
CallFails(r) ==
    /\ pc[r] \in Texts
    /\ Fault
    /\ MayLose(r)
    /\ answer' = [answer EXCEPT ![r] = None]
    /\ \/ pc[r] = "prompt" /\ Goto(r, "llm") /\ UNCHANGED reply
       \/ pc[r] = "approved" /\ Reply(r, "error")
       \/ pc[r] = "rejected" /\ Reply(r, "cancelled")
    /\ UNCHANGED <<decision, pending, issued, bVars>>

\* A dies while it works on r, and is started again
CrashA(r) ==
    /\ InFlight(r)
    /\ Fault
    /\ MayLose(r)
    /\ Goto(r, "lost")
    /\ answer' = [answer EXCEPT ![r] = None]
    /\ UNCHANGED <<aVars, bVars>>

-----------------------------------------------------------------------------
(***************************************************************************)
(* Agent B: a2aMessageSend, with what B's agent makes of the message.      *)
(***************************************************************************)

\* conversationToTask, for a sender that is waiting for it still
ReturnTask(m, t, state) ==
    answer' = IF pc[m.by] # m.text THEN answer ELSE
        [answer EXCEPT ![m.by] = IF state \in Actions
            THEN [state |-> "input-required", task |-> t, action |-> state]
            ELSE [state |-> state, task |-> t]]

\* B's LLM answers, a server wants authentication, or a destructive tool is
\* asked for: the task waits
Continue(m, t) ==
    \/ /\ tasks' = [tasks EXCEPT ![t] = "active"]
       /\ \E state \in {"completed", "auth-required"} : ReturnTask(m, t, state)
       /\ UNCHANGED asked
    \/ \E v \in Actions \ asked :
          /\ tasks' = [tasks EXCEPT ![t] = v]
          /\ ReturnTask(m, t, v)
          /\ asked' = asked \cup {v}

Taken(m) ==
    /\ sent' = sent \ {m}
    /\ UNCHANGED <<pc, aVars, faults>>

NewTask(m, t) ==
    /\ m.task = None
    /\ tasks[t] = "none"
    /\ Continue(m, t)
    /\ Taken(m)
    /\ UNCHANGED ran

\* Mutant of IsApproval: every text counts as a yes
IsApprovalAny(text) == text \in Texts

\* isApprovalMessage
IsApproval(text) == text = "approved"

\* The task waits: the text decides about whatever it waits for now.  The tool
\* of an approved action runs, or its server fails or wants authentication.
ResolveTask(m, t) ==
    /\ m.task = t
    /\ tasks[t] \in Actions
    /\ IF IsApproval(m.text)
       THEN /\ Continue(m, t)
            /\ ran' = [ran EXCEPT ![tasks[t]] = @ + 1] \/ UNCHANGED ran
       ELSE /\ tasks' = [tasks EXCEPT ![t] = "active"]
            /\ ReturnTask(m, t, "completed")
            /\ UNCHANGED <<asked, ran>>
    /\ Taken(m)

\* The task does not wait: the text is a message of the user
MessageTask(m, t) ==
    /\ m.task = t
    /\ tasks[t] = "active"
    /\ Continue(m, t)
    /\ Taken(m)
    /\ UNCHANGED ran

-----------------------------------------------------------------------------

Ask(r) == PostMessage(r) \/ \E u \in Requests : Approve(r, u) \/ Reject(r, u) \/ ApprovalNotFound(r, u)

Work(r) ==
    \/ Delegate(r) \/ Finish(r)
    \/ ReceiveResult(r) \/ ReceiveQuestion(r) \/ ReceiveAuthRequired(r) \/ RejectionForwarded(r)

Serve == \E m \in sent, t \in Tasks : NewTask(m, t) \/ ResolveTask(m, t) \/ MessageTask(m, t)

Next ==
    \/ \E r \in Requests : Ask(r) \/ Work(r) \/ CallFails(r) \/ CrashA(r)
    \/ Serve

Spec == Init /\ [][Next]_vars

-----------------------------------------------------------------------------
(***************************************************************************)
(* Properties.  The human talks to A only, the tools run at B.  As long as *)
(* no call between them has failed:                                        *)
(***************************************************************************)

\* Between two requests the agents agree: B's tasks wait for exactly the action
\* that A's pending proxy names, so a yes means what the client was shown and no
\* task waits for a decision that nobody can give
AgentsAgree ==
    faults = 0 /\ Quiet =>
        \A t \in Tasks, v \in Actions :
            tasks[t] = v <=> pending # None /\ issued[pending] = [task |-> t, action |-> v]

\* The phase of B's action as A's client sees it
Shown(v) == \E u \in Requests : issued[u] # None /\ issued[u].action = v

Deciding(v) == \E r \in Requests :
    /\ InFlight(r)
    /\ decision[r] # None /\ decision[r].approve
    /\ issued[decision[r].uuid].action = v

chainPhase == [v \in Actions |->
    IF Deciding(v) THEN "approved"
    ELSE IF pending # None /\ issued[pending].action = v THEN "pending"
    ELSE IF Shown(v) THEN "closed"
    ELSE "none"]

Gate == INSTANCE ApprovalGate WITH Approvals <- Actions, phase <- chainPhase, ran <- ran

\* The two agents together keep the promise of the approval gate to A's client:
\* a tool of B runs once, after a yes to the proxy that showed it, and never
\* after a no
ChainKeepsGate == Gate!GateInit /\ [][faults' = 0 => Gate!GateNext]_(Gate!gateVars)

=============================================================================

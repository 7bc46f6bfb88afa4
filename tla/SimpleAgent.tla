---------------------------- MODULE SimpleAgent -----------------------------
(***************************************************************************)
(* An agent in simple mode (isSimpleAgent: one LLM node, no tree) and the  *)
(* HTTP handlers in front of it.                                           *)
(*                                                                         *)
(* Every request runs in a goroutine of its own and nothing but Storage is *)
(* shared: a request decodes its private copy of the conversation, runs    *)
(* the loop LLM -> tool -> LLM on that copy and saves it at the end.  A    *)
(* step of this module is one access to the store or one answer of an      *)
(* outside party (the LLM, an MCP server, an A2A agent) with the local     *)
(* computation that follows it.  The outside parties may give any answer.  *)
(***************************************************************************)
EXTENDS Storage, FiniteSets

CONSTANTS
    A2ATools,           \* the tools that delegate to an A2A agent
    Destructive,        \* the tools with destructiveHint
    MaxToolIterations,  \* maxToolIterations, 10 in the code
    MaxFaults,          \* bound: how many saves may fail
    MaxCrashes,         \* bound: how often the process may die
    SerialConvs         \* the conversations whose clients wait for an answer
                        \* before they send the next request

Decisions == [uuid : Requests, approve : BOOLEAN]

ASSUME ParametersOK ==
    /\ A2ATools \subseteq Tools
    /\ Destructive \subseteq Tools
    /\ MaxToolIterations \in Nat
    /\ MaxFaults \in Nat
    /\ MaxCrashes \in Nat
    /\ SerialConvs \subseteq Convs
    /\ Nil \notin Tools
    /\ Nil \notin Requests
    /\ Nil \notin Convs
    /\ Nil \notin Decisions

VARIABLES
    pc,         \* where the goroutine of the request is
    cid,        \* the conversation it works on
    mem,        \* its private copy of that conversation
    iter,       \* LLM turns taken by processSimpleMessage
    tool,       \* the tool the LLM asked for
    decision,   \* the approval it resolves, and how
    held,       \* the pending approval ResolveApproval copied out
    reply,      \* what the client is told
    issued,     \* history: the approval the request created
    calls,      \* history: tool executions and forwarded decisions
    faults, crashes

vars == <<disk, pc, cid, mem, iter, tool, decision, held, reply, issued,
          calls, faults, crashes>>

\* The variables that never change in a step that only moves the goroutine on
envVars == <<faults, crashes>>

\* via: the approval on whose behalf the call is made; turn: when in the loop
Calls == [by   : Requests,
          turn : Nat,
          what : {"run", "approve", "reject"},
          tool : Tools,
          via  : Requests \cup {Nil}]

PCs == {"idle", "find", "llm", "call", "exec", "proxy", "save", "trySave",
        "notify", "reload", "done", "lost"}

Replies == {"none", "created", "text", "notice", "approval", "auth", "cancelled",
            "blocked", "error"}

TypeOK ==
    /\ DiskTypeOK
    /\ pc \in [Requests -> PCs]
    /\ cid \in [Requests -> Convs \cup {Nil}]
    /\ mem \in [Requests -> Conversations \cup {Nil}]
    /\ iter \in [Requests -> 0 .. MaxToolIterations]
    /\ tool \in [Requests -> Tools \cup {Nil}]
    /\ decision \in [Requests -> Decisions \cup {Nil}]
    /\ held \in [Requests -> Approval \cup {Nil}]
    /\ reply \in [Requests -> Replies]
    /\ issued \in [Requests -> Approval \cup {Nil}]
    /\ calls \subseteq Calls
    /\ faults \in 0 .. MaxFaults
    /\ crashes \in 0 .. MaxCrashes

Init ==
    /\ disk = [c \in Convs |-> NoFile]
    /\ pc = [r \in Requests |-> "idle"]
    /\ cid = [r \in Requests |-> Nil]
    /\ mem = [r \in Requests |-> Nil]
    /\ iter = [r \in Requests |-> 0]
    /\ tool = [r \in Requests |-> Nil]
    /\ decision = [r \in Requests |-> Nil]
    /\ held = [r \in Requests |-> Nil]
    /\ reply = [r \in Requests |-> "none"]
    /\ issued = [r \in Requests |-> Nil]
    /\ calls = {}
    /\ faults = 0
    /\ crashes = 0

-----------------------------------------------------------------------------
(***************************************************************************)
(* Steps shared by the handlers.                                           *)
(***************************************************************************)

InFlight(r) == pc[r] \notin {"idle", "done", "lost"}

\* A request r that has not been answered is about conversation c
Concerns(r, c) ==
    \/ cid[r] = c
    \/ decision[r] # Nil /\ cid[decision[r].uuid] = c

ClientMaySend(c) ==
    c \in SerialConvs => \A r \in Requests : InFlight(r) => ~Concerns(r, c)

Goto(r, l) == pc' = [pc EXCEPT ![r] = l]

\* The copy is dropped when the goroutine is done with it
Answer(r, what) ==
    /\ Goto(r, "done")
    /\ reply' = [reply EXCEPT ![r] = what]
    /\ mem' = [mem EXCEPT ![r] = Nil]

\* The copy conv goes to the store, then the client is told what.
\* l is "save" if the handler returns the error of the save, "trySave" if not.
Finish(r, conv, l, what) ==
    /\ mem' = [mem EXCEPT ![r] = conv]
    /\ reply' = [reply EXCEPT ![r] = what]
    /\ Goto(r, l)

\* The copy conv gets a new pending approval, then goes to the store
AskApproval(r, conv, l, t, isProxy) ==
    LET approval == [uuid |-> r, tool |-> t, remote |-> isProxy] IN
    /\ issued' = [issued EXCEPT ![r] = approval]
    /\ Finish(r, AddMessage(SetWaitingApproval(conv, approval), "assistant", r), l, "approval")

Record(r, what, t, via) ==
    calls' = calls \cup {[by |-> r, turn |-> iter[r], what |-> what, tool |-> t, via |-> via]}

\* The party that got a request of r's goroutine carried it out, or never saw it
MayRecord(r, what, t, via) == Record(r, what, t, via) \/ UNCHANGED calls

\* Mutant of ProcessMessage: a waiting conversation is not blocked
ProcessUnblocked(r, c, conv) ==
    /\ mem' = [mem EXCEPT ![r] = AddMessage(conv, "user", r)]
    /\ Goto(r, "llm")
    /\ UNCHANGED reply

\* Mutant of ProcessMessage: the message goes to a new conversation, not to conv
ProcessAfresh(r, c, conv) ==
    IF conv.status = "waiting_approval"
    THEN /\ reply' = [reply EXCEPT ![r] = "blocked"]
         /\ Goto(r, "reload")
         /\ UNCHANGED mem
    ELSE ProcessUnblocked(r, c, New)

\* ProcessMessage, up to the first LLM call
ProcessMessage(r, c, conv) ==
    IF conv.status = "waiting_approval"
    THEN /\ reply' = [reply EXCEPT ![r] = "blocked"]
         /\ Goto(r, "reload")
         /\ UNCHANGED mem
    ELSE /\ mem' = [mem EXCEPT ![r] = AddMessage(conv, "user", r)]
         /\ Goto(r, "llm")
         /\ UNCHANGED reply

-----------------------------------------------------------------------------
(***************************************************************************)
(* Requests arrive.                                                        *)
(***************************************************************************)

\* POST /conversations with a message or without, A2A message/send without a taskId
CreateConversation(r, c) ==
    /\ pc[r] = "idle"
    /\ disk[c] = NoFile
    /\ \A s \in Requests : cid[s] # c
    /\ cid' = [cid EXCEPT ![r] = c]
    /\ \/ /\ SaveConversation(c, New)
          /\ ProcessMessage(r, c, New) \/ Answer(r, "created")
          /\ UNCHANGED faults
       \/ /\ faults < MaxFaults
          /\ faults' = faults + 1
          /\ SaveFails(c)
          /\ Answer(r, "error")
    /\ UNCHANGED <<iter, tool, decision, held, issued, calls, crashes>>

\* POST /conversations/:id/messages
SendMessage(r, c) ==
    /\ pc[r] = "idle"
    /\ disk[c] # NoFile
    /\ ClientMaySend(c)
    /\ cid' = [cid EXCEPT ![r] = c]
    /\ IF Readable(c)
       THEN ProcessMessage(r, c, disk[c])
       ELSE Answer(r, "error")
    /\ UNCHANGED <<disk, iter, tool, decision, held, issued, calls, envVars>>

\* A2A message/send with a taskId: in a waiting conversation the text counts as
\* a decision (isApprovalMessage) about the approval that is pending right now
ContinueTask(r, c, approve) ==
    /\ pc[r] = "idle"
    /\ Readable(c)
    /\ disk[c].status = "waiting_approval" /\ disk[c].pending # Nil
    /\ ClientMaySend(c)
    /\ decision' = [decision EXCEPT ![r] = [uuid |-> disk[c].pending.uuid, approve |-> approve]]
    /\ Goto(r, "find")
    /\ UNCHANGED <<disk, cid, mem, iter, tool, held, reply, issued, calls, envVars>>

\* POST /approvals/:uuid, for an approval a client has been able to see
PostApproval(r, u, approve) ==
    /\ pc[r] = "idle"
    /\ issued[u] # Nil
    /\ pc[u] \in {"reload", "done", "lost"}
    /\ ClientMaySend(cid[u])
    /\ decision' = [decision EXCEPT ![r] = [uuid |-> u, approve |-> approve]]
    /\ Goto(r, "find")
    /\ UNCHANGED <<disk, cid, mem, iter, tool, held, reply, issued, calls, envVars>>

-----------------------------------------------------------------------------
(***************************************************************************)
(* ResolveApproval.                                                        *)
(***************************************************************************)

\* No stored conversation has the approval
ApprovalNotFound(r) ==
    /\ pc[r] = "find"
    /\ ~OnDisk(decision[r].uuid)
    /\ Answer(r, "error")
    /\ UNCHANGED <<disk, cid, iter, tool, decision, held, issued, calls, envVars>>

\* The approval is cleared in the copy only; the file keeps it until the save
ApprovalFound(r, c) ==
    /\ pc[r] = "find"
    /\ c \in FindByApprovalUUID(decision[r].uuid)
    /\ cid' = [cid EXCEPT ![r] = c]
    /\ held' = [held EXCEPT ![r] = disk[c].pending]
    /\ LET conv == AddMessage(ResolveApproval(disk[c]), "user", r) IN
       IF decision[r].approve
       THEN /\ mem' = [mem EXCEPT ![r] = conv]
            /\ Goto(r, IF disk[c].pending.remote THEN "proxy" ELSE "exec")
            /\ UNCHANGED reply
       ELSE Finish(r, AddMessage(conv, "assistant", r), "save", "cancelled")
    /\ UNCHANGED <<disk, iter, tool, decision, issued, calls, envVars>>

\* The approved tool runs, or fails: the result goes to the LLM.  Whatever state
\* the task of an A2A agent is in, its text is taken for the result.
ExecuteReturns(r) ==
    /\ pc[r] = "exec"
    /\ MayRecord(r, "run", held[r].tool, held[r].uuid)
    /\ mem' = [mem EXCEPT ![r] = AddToolResult(@, held[r].tool, r)]
    /\ Goto(r, "llm")
    /\ UNCHANGED <<disk, cid, iter, tool, decision, held, reply, issued, envVars>>

\* The MCP server answers 401: the approval is used up, the tool has not run
ExecuteNeedsAuth(r) ==
    /\ pc[r] = "exec"
    /\ held[r].tool \notin A2ATools
    /\ Finish(r, AddMessage(mem[r], "assistant", r), "trySave", "auth")
    /\ UNCHANGED <<disk, cid, iter, tool, decision, held, issued, calls, envVars>>

\* ContinueTask "approved" returns a task that is completed or failed
ProxyReturns(r) ==
    /\ pc[r] = "proxy"
    /\ Record(r, "approve", held[r].tool, held[r].uuid)
    /\ mem' = [mem EXCEPT ![r] = AddToolResult(@, held[r].tool, r)]
    /\ Goto(r, "llm")
    /\ UNCHANGED <<disk, cid, iter, tool, decision, held, reply, issued, envVars>>

\* The remote agent asks for another approval
ProxyNeedsApproval(r) ==
    /\ pc[r] = "proxy"
    /\ Record(r, "approve", held[r].tool, held[r].uuid)
    /\ AskApproval(r, mem[r], "save", held[r].tool, TRUE)
    /\ UNCHANGED <<disk, cid, iter, tool, decision, held, envVars>>

ProxyNeedsAuth(r) ==
    /\ pc[r] = "proxy"
    /\ Record(r, "approve", held[r].tool, held[r].uuid)
    /\ Finish(r, AddMessage(mem[r], "assistant", r), "trySave", "auth")
    /\ UNCHANGED <<disk, cid, iter, tool, decision, held, issued, envVars>>

\* The call fails, before or after the agent acted on it: nothing is saved
ProxyFails(r) ==
    /\ pc[r] = "proxy"
    /\ MayRecord(r, "approve", held[r].tool, held[r].uuid)
    /\ Answer(r, "error")
    /\ UNCHANGED <<disk, cid, iter, tool, decision, held, issued, envVars>>

\* A rejection is saved first and forwarded then; the answer is not looked at
ForwardRejection(r) ==
    /\ pc[r] = "notify"
    /\ MayRecord(r, "reject", held[r].tool, held[r].uuid)
    /\ Answer(r, reply[r])
    /\ UNCHANGED <<disk, cid, iter, tool, decision, held, issued, envVars>>

-----------------------------------------------------------------------------
(***************************************************************************)
(* processSimpleMessage.                                                   *)
(***************************************************************************)

\* Mutant of AtLLM: one turn too many
AtLLMOnceMore(r) == pc[r] = "llm" /\ iter[r] <= MaxToolIterations

AtLLM(r) == pc[r] = "llm" /\ iter[r] < MaxToolIterations

\* Mutant of NeedsApproval: the hint of the MCP tools is not looked at
OnlyAgentsNeedApproval(t) == t \in Destructive \cap A2ATools

\* DestructiveHint of an MCP tool or of an A2A agent
NeedsApproval(t) == t \in Destructive

\* The LLM fails or asks for a tool or an agent that does not exist
LLMNotice(r) ==
    /\ AtLLM(r)
    /\ Finish(r, AddMessage(mem[r], "assistant", r), "trySave", "notice")
    /\ UNCHANGED <<disk, cid, iter, tool, decision, held, issued, calls, envVars>>

LLMText(r) ==
    /\ AtLLM(r)
    /\ Finish(r, AddMessage(mem[r], "assistant", r), "save", "text")
    /\ UNCHANGED <<disk, cid, iter, tool, decision, held, issued, calls, envVars>>

\* The code sets the approval first and records the call next: the two touch
\* different fields of the conversation
LLMDestructive(r, t) ==
    /\ AtLLM(r)
    /\ NeedsApproval(t)
    /\ AskApproval(r, AddToolCall(mem[r], t, r), "trySave", t, FALSE)
    /\ UNCHANGED <<disk, cid, iter, tool, decision, held, calls, envVars>>

\* Mutant of LLMHarmless: the turn is not counted
LLMHarmlessUncounted(r, t) ==
    /\ AtLLM(r)
    /\ ~NeedsApproval(t)
    /\ mem' = [mem EXCEPT ![r] = AddToolCall(@, t, r)]
    /\ tool' = [tool EXCEPT ![r] = t]
    /\ Goto(r, "call")
    /\ UNCHANGED <<disk, cid, iter, decision, held, reply, issued, calls, envVars>>

LLMHarmless(r, t) ==
    /\ AtLLM(r)
    /\ ~NeedsApproval(t)
    /\ mem' = [mem EXCEPT ![r] = AddToolCall(@, t, r)]
    /\ tool' = [tool EXCEPT ![r] = t]
    /\ iter' = [iter EXCEPT ![r] = @ + 1]
    /\ Goto(r, "call")
    /\ UNCHANGED <<disk, cid, decision, held, reply, issued, calls, envVars>>

\* Mutant of LLMCapReached: the turns are counted one too far
LLMCapMissed(r) ==
    /\ pc[r] = "llm"
    /\ iter[r] > MaxToolIterations
    /\ Finish(r, AddMessage(mem[r], "assistant", r), "trySave", "notice")
    /\ UNCHANGED <<disk, cid, iter, tool, decision, held, issued, calls, envVars>>

LLMCapReached(r) ==
    /\ pc[r] = "llm"
    /\ iter[r] = MaxToolIterations
    /\ Finish(r, AddMessage(mem[r], "assistant", r), "trySave", "notice")
    /\ UNCHANGED <<disk, cid, iter, tool, decision, held, issued, calls, envVars>>

\* The tool's result or its error goes back to the LLM
ToolReturns(r) ==
    /\ pc[r] = "call"
    /\ MayRecord(r, "run", tool[r], Nil)
    /\ mem' = [mem EXCEPT ![r] = AddToolResult(@, tool[r], r)]
    /\ Goto(r, "llm")
    /\ UNCHANGED <<disk, cid, iter, tool, decision, held, reply, issued, envVars>>

\* The server answers 401 and has run nothing, or the agent's task, which has
\* started, wants authentication
ToolNeedsAuth(r) ==
    /\ pc[r] = "call"
    /\ IF tool[r] \in A2ATools THEN Record(r, "run", tool[r], Nil) ELSE UNCHANGED calls
    /\ Finish(r, AddMessage(mem[r], "assistant", r), "trySave", "auth")
    /\ UNCHANGED <<disk, cid, iter, tool, decision, held, issued, envVars>>

\* The A2A agent's task waits for an approval: a proxy approval is created
ToolNeedsApproval(r) ==
    /\ pc[r] = "call"
    /\ tool[r] \in A2ATools
    /\ Record(r, "run", tool[r], Nil)
    /\ AskApproval(r, mem[r], "trySave", tool[r], TRUE)
    /\ UNCHANGED <<disk, cid, iter, tool, decision, held, envVars>>

-----------------------------------------------------------------------------
(***************************************************************************)
(* The end of a request.                                                   *)
(***************************************************************************)

\* Where a handler goes on after its save: message handlers read the
\* conversation again, ResolveApproval forwards the rejection of a proxy
AfterSave(r) ==
    IF decision[r] = Nil THEN "reload"
    ELSE IF ~decision[r].approve /\ held[r].remote THEN "notify" ELSE "done"

Saving(r) == pc[r] \in {"save", "trySave"}

Save(r) ==
    /\ Saving(r)
    /\ SaveConversation(cid[r], mem[r])
    /\ mem' = [mem EXCEPT ![r] = Nil]
    /\ Goto(r, AfterSave(r))
    /\ UNCHANGED <<cid, iter, tool, decision, held, reply, issued, calls, envVars>>

SaveError(r) ==
    /\ Saving(r)
    /\ faults < MaxFaults
    /\ faults' = faults + 1
    /\ SaveFails(cid[r])
    /\ IF pc[r] = "save"
       THEN Answer(r, "error")
       ELSE /\ mem' = [mem EXCEPT ![r] = Nil]
            /\ Goto(r, AfterSave(r))
            /\ UNCHANGED reply
    /\ UNCHANGED <<cid, iter, tool, decision, held, issued, calls, crashes>>

Reload(r) ==
    /\ pc[r] = "reload"
    /\ Answer(r, IF Readable(cid[r]) THEN reply[r] ELSE "error")
    /\ UNCHANGED <<disk, cid, iter, tool, decision, held, issued, calls, envVars>>

\* The process dies and is started again over the same data directory
Crash ==
    /\ crashes < MaxCrashes
    /\ crashes' = crashes + 1
    /\ \E r \in Requests : InFlight(r)
    /\ DieWhileWriting({cid[r] : r \in {s \in Requests : Saving(s)}})
    /\ pc' = [r \in Requests |-> IF InFlight(r) THEN "lost" ELSE pc[r]]
    /\ mem' = [r \in Requests |-> Nil]
    /\ UNCHANGED <<cid, iter, tool, decision, held, reply, issued, calls, faults>>

-----------------------------------------------------------------------------

Arrive(r) ==
    \/ \E c \in Convs : CreateConversation(r, c) \/ SendMessage(r, c)
    \/ \E c \in Convs, approve \in BOOLEAN : ContinueTask(r, c, approve)
    \/ \E u \in Requests, approve \in BOOLEAN : PostApproval(r, u, approve)

Resolve(r) ==
    \/ ApprovalNotFound(r)
    \/ \E c \in Convs : ApprovalFound(r, c)
    \/ ExecuteReturns(r) \/ ExecuteNeedsAuth(r)
    \/ ProxyReturns(r) \/ ProxyNeedsApproval(r) \/ ProxyNeedsAuth(r) \/ ProxyFails(r)
    \/ ForwardRejection(r)

Loop(r) ==
    \/ LLMNotice(r) \/ LLMText(r) \/ LLMCapReached(r)
    \/ \E t \in Tools : LLMDestructive(r, t) \/ LLMHarmless(r, t)
    \/ ToolReturns(r) \/ ToolNeedsAuth(r) \/ ToolNeedsApproval(r)

End(r) == Save(r) \/ SaveError(r) \/ Reload(r)

\* What the goroutine of an accepted request does
Proceed(r) == Resolve(r) \/ Loop(r) \/ End(r)

Next == Crash \/ \E r \in Requests : Arrive(r) \/ Proceed(r)

Spec == Init /\ [][Next]_vars

-----------------------------------------------------------------------------
(***************************************************************************)
(* Properties that hold whatever the clients, the outside parties, the     *)
(* file system and the process do.                                         *)
(***************************************************************************)

\* The status of a conversation, stored or in use, says "waiting_approval" iff
\* there is an approval to resolve: ProcessMessage tests the first, the A2A
\* handler and ResolveApproval the second
StatusTellsPending ==
    /\ \A c \in Convs : Readable(c) => Coherent(disk[c])
    /\ \A r \in Requests : mem[r] # Nil => Coherent(mem[r])

\* A pending approval is in one place at a time: in the copy of the request
\* that created it until the save, then in that request's conversation, never
\* in a second conversation or in another request's copy
ApprovalHome ==
    /\ \A u \in Requests : \A c \in FindByApprovalUUID(u) :
          /\ cid[u] = c
          /\ disk[c].pending = issued[u]
          /\ pc[u] \in {"reload", "done", "lost"}
    /\ \A r \in Requests : mem[r] # Nil /\ mem[r].pending # Nil =>
          Saving(r) /\ mem[r].pending = issued[r]

\* A destructive tool runs, and a decision is forwarded to a remote agent, only
\* for a client that took this decision about this approval of this tool in
\* this conversation
Authorised ==
    \A k \in calls : (k.tool \in Destructive \/ k.what # "run") =>
        /\ k.via # Nil
        /\ issued[k.via] # Nil /\ issued[k.via].tool = k.tool
        /\ decision[k.by] = [uuid |-> k.via, approve |-> k.what # "reject"]
        /\ cid[k.by] = cid[k.via]

\* An approval comes to the disk when its creator saves it and at no other time:
\* once resolved or overwritten it never comes back
NoResurrection ==
    [][\A u \in Requests : ~OnDisk(u) /\ OnDisk(u)' => Saving(u) /\ ~Saving(u)']_vars

\* When the LLM is called, the transcript has the result of every tool call the
\* request made and of the one it was sent to approve
LLMSeesResults ==
    \A r \in Requests : pc[r] = "llm" =>
        \A i \in DOMAIN mem[r].messages :
            LET m == mem[r].messages[i] IN
            m.role = "assistant" /\ m.tool # Nil
              /\ (m.by = r \/ (held[r] # Nil /\ m.by = held[r].uuid))
            => AnsweredCall(mem[r].messages, i)

-----------------------------------------------------------------------------
(***************************************************************************)
(* Properties of a conversation whose clients take turns.                  *)
(***************************************************************************)

\* The client that was told "Operation cancelled by user." was told the truth:
\* the tool has not run and does not run later
RejectionHolds ==
    \A r \in Requests : reply[r] = "cancelled" /\ pc[r] \in {"notify", "done"} =>
        \A k \in calls : k.via = decision[r].uuid => k.what # "run"

\* Only the save of a request that resolved the approval ends the wait
OnlyResolutionEndsWait ==
    [][\A u \in Requests : cid[u] \in SerialConvs /\ OnDisk(u) /\ ~OnDisk(u)' =>
          \E r \in Requests : /\ held[r] # Nil /\ held[r].uuid = u
                              /\ Saving(r) /\ ~Saving(r)']_vars

\* What a stored conversation has recorded stays recorded
TranscriptGrows ==
    [][\A c \in SerialConvs : Readable(c) /\ Readable(c)' =>
          LET old == disk[c].messages
              new == disk'[c].messages
          IN  Len(old) <= Len(new) /\ SubSeq(new, 1, Len(old)) = old]_vars

\* The phase of an approval in the terms of ApprovalGate: approved from the
\* moment a request has found it until that request is over
Resolving(u) == \E r \in Requests :
    held[r] # Nil /\ held[r].uuid = u /\ InFlight(r) /\ decision[r].approve /\ pc[r] # "notify"

gatePhase == [u \in Requests |->
    IF cid[u] \notin SerialConvs THEN "none"
    ELSE IF Resolving(u) THEN "approved"
    ELSE IF OnDisk(u) THEN "pending"
    ELSE IF issued[u] # Nil /\ pc[u] \in {"reload", "done", "lost"} THEN "closed"
    ELSE "none"]

gateRan == [u \in Requests |->
    IF cid[u] \in SerialConvs
    THEN Cardinality({k \in calls : k.what = "run" /\ k.via = u})
    ELSE 0]

Gate == INSTANCE ApprovalGate WITH
    Approvals <- Requests, phase <- gatePhase, ran <- gateRan

\* The approvals of the conversations whose clients take turns go through the
\* approval gate, as long as no save has failed and the process has not died
ImplementsGate ==
    /\ Gate!GateInit
    /\ [][faults' = 0 /\ crashes' = 0 => Gate!GateNext]_(Gate!gateVars)

-----------------------------------------------------------------------------
(***************************************************************************)
(* Progress.  Every step of an accepted request brings it nearer to its    *)
(* end, and as long as it has not ended a step is possible: goroutines     *)
(* being scheduled, it ends.                                               *)
(***************************************************************************)

\* How many steps request r can still take at most
StepsLeft(r) ==
    CASE pc[r] = "idle" -> 2 * MaxToolIterations + 6
      [] pc[r] = "find" -> 2 * MaxToolIterations + 5
      [] pc[r] \in {"exec", "proxy"} -> 2 * MaxToolIterations + 4
      [] pc[r] = "llm" -> 2 * (MaxToolIterations - iter[r]) + 3
      [] pc[r] = "call" -> 2 * (MaxToolIterations - iter[r]) + 4
      [] Saving(r) -> 2
      [] pc[r] \in {"notify", "reload"} -> 1
      [] OTHER -> 0

\* Every step brings a request nearer to its end and none back: not through the
\* LLM's tool calls, not through approvals that lead to approvals, and not by
\* what another request does to its conversation meanwhile
StepsBounded ==
    [][/\ \A r \in Requests : StepsLeft(r)' <= StepsLeft(r)
       /\ \E r \in Requests : StepsLeft(r)' < StepsLeft(r)]_vars

\* Whatever the other requests did meanwhile, a request in flight can go on
NobodyStuck == \A r \in Requests : InFlight(r) => ENABLED Proceed(r)

\* A client that resolved an approval and was told so never finds it pending
\* again: no copy another request read earlier brings it back
DecisionSticks ==
    \A r \in Requests : held[r] # Nil /\ pc[r] = "done" =>
        \/ ~OnDisk(held[r].uuid)
        \/ reply[r] = "error"
        \/ faults > 0

=============================================================================

---------------------------- MODULE Conversation ----------------------------
(***************************************************************************)
(* The conversation record of internal/conversation and the operations the *)
(* agent applies to it.  A conversation is a value: every HTTP request     *)
(* works on its own copy, decoded from the conversation's file.            *)
(*                                                                         *)
(* A message is abstracted to its role, to the tool it records (a tool     *)
(* call is an assistant message with a tool, a tool result a "tool"        *)
(* message) and to the request that appended it, which stands for its      *)
(* content.  A request creates at most one approval, so the request also   *)
(* stands for the approval's fresh UUID.  The system prompt and the status *)
(* "completed", which no caller ever sets, are left out.                   *)
(***************************************************************************)
EXTENDS Naturals, Sequences

CONSTANTS
    Requests,   \* the HTTP requests the server receives
    Tools,      \* the names of the MCP tools and of the A2A agents
    Nil         \* the absence of a value

Message == [role : {"user", "assistant", "tool"},
            tool : Tools \cup {Nil},
            by   : Requests]

\* remote: the approval is a proxy, it carries a RemoteTaskID and a RemoteAgentName
Approval == [uuid : Requests, tool : Tools, remote : BOOLEAN]

Conversations == [status   : {"active", "waiting_approval"},
                  messages : Seq(Message),
                  pending  : Approval \cup {Nil}]

\* New: an empty active conversation
New == [status |-> "active", messages |-> <<>>, pending |-> Nil]

AddMessage(conv, role, r) ==
    [conv EXCEPT !.messages = Append(@, [role |-> role, tool |-> Nil, by |-> r])]

AddToolCall(conv, tool, r) ==
    [conv EXCEPT !.messages = Append(@, [role |-> "assistant", tool |-> tool, by |-> r])]

\* Mutant of AddToolResult: the result is recorded under the wrong role
ResultAsAssistant(conv, tool, r) ==
    [conv EXCEPT !.messages = Append(@, [role |-> "assistant", tool |-> tool, by |-> r])]

AddToolResult(conv, tool, r) ==
    [conv EXCEPT !.messages = Append(@, [role |-> "tool", tool |-> tool, by |-> r])]

\* Mutant of SetWaitingApproval: the status is not set
SetPendingOnly(conv, approval) == [conv EXCEPT !.pending = approval]

SetWaitingApproval(conv, approval) ==
    [conv EXCEPT !.status = "waiting_approval", !.pending = approval]

\* Mutant of ResolveApproval: the test for a pending approval is inverted
ResolveInverted(conv) ==
    IF conv.pending # Nil THEN conv
    ELSE [conv EXCEPT !.status = "active", !.pending = Nil]

\* A conversation without a pending approval is left as it is
ResolveApproval(conv) ==
    IF conv.pending = Nil THEN conv
    ELSE [conv EXCEPT !.status = "active", !.pending = Nil]

-----------------------------------------------------------------------------

\* The status field and the pending approval say the same thing
Coherent(conv) == conv.status = "waiting_approval" <=> conv.pending # Nil

\* A tool call record of the transcript has its result further down
AnsweredCall(messages, i) ==
    \E j \in DOMAIN messages :
        j > i /\ messages[j].role = "tool" /\ messages[j].tool = messages[i].tool

=============================================================================

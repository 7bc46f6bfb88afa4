------------------------- MODULE SimpleAgent_proofs -------------------------
(***************************************************************************)
(* Theorems about SimpleAgent, for every set of requests, conversations    *)
(* and tools, every number of tool iterations, faults and crashes, and     *)
(* clients that do or do not take turns.                                   *)
(***************************************************************************)
EXTENDS SimpleAgent, TLAPS

-----------------------------------------------------------------------------
(***************************************************************************)
(* The operations on conversations.                                        *)
(***************************************************************************)

\* New returns a conversation without a pending approval
LEMMA NewConversation ==
    New \in Conversations /\ New.pending = Nil /\ Coherent(New)
BY DEF New, Conversations, Coherent

\* The Add operations of internal/conversation/conversation.go return
\* conversations and touch neither the status nor the pending approval
LEMMA AddMessageFacts ==
    ASSUME NEW conv \in Conversations, NEW r \in Requests,
           NEW role \in {"user", "assistant", "tool"}
    PROVE  /\ AddMessage(conv, role, r) \in Conversations
           /\ AddMessage(conv, role, r).status = conv.status
           /\ AddMessage(conv, role, r).pending = conv.pending
<1> DEFINE m == [role |-> role, tool |-> Nil, by |-> r]
<1>1. m \in Message  BY DEF Message
<1>2. Append(conv.messages, m) \in Seq(Message)  BY <1>1 DEF Conversations
<1> QED  BY <1>2 DEF AddMessage, Conversations

\* AddToolCall appends and leaves the status and the pending approval alone
LEMMA AddToolCallFacts ==
    ASSUME NEW conv \in Conversations, NEW r \in Requests, NEW t \in Tools
    PROVE  /\ AddToolCall(conv, t, r) \in Conversations
           /\ AddToolCall(conv, t, r).status = conv.status
           /\ AddToolCall(conv, t, r).pending = conv.pending
<1> DEFINE m == [role |-> "assistant", tool |-> t, by |-> r]
<1>1. m \in Message  BY DEF Message
<1>2. Append(conv.messages, m) \in Seq(Message)  BY <1>1 DEF Conversations
<1> QED  BY <1>2 DEF AddToolCall, Conversations

\* AddToolResult appends and leaves the status and the pending approval alone
LEMMA AddToolResultFacts ==
    ASSUME NEW conv \in Conversations, NEW r \in Requests, NEW t \in Tools
    PROVE  /\ AddToolResult(conv, t, r) \in Conversations
           /\ AddToolResult(conv, t, r).status = conv.status
           /\ AddToolResult(conv, t, r).pending = conv.pending
<1> DEFINE m == [role |-> "tool", tool |-> t, by |-> r]
<1>1. m \in Message  BY DEF Message
<1>2. Append(conv.messages, m) \in Seq(Message)  BY <1>1 DEF Conversations
<1> QED  BY <1>2 DEF AddToolResult, Conversations

\* SetWaitingApproval and ResolveApproval keep status and approval together
LEMMA SetWaitingFacts ==
    ASSUME NEW conv \in Conversations, NEW a \in Approval
    PROVE  /\ SetWaitingApproval(conv, a) \in Conversations
           /\ SetWaitingApproval(conv, a).pending = a
           /\ Coherent(SetWaitingApproval(conv, a))
BY DistinctContents DEF SetWaitingApproval, Conversations, Coherent

\* ResolveApproval leaves a coherent conversation that waits for nothing
LEMMA ResolveFacts ==
    ASSUME NEW conv \in Conversations, Coherent(conv)
    PROVE  /\ ResolveApproval(conv) \in Conversations
           /\ ResolveApproval(conv).pending = Nil
           /\ Coherent(ResolveApproval(conv))
BY DEF ResolveApproval, Conversations, Coherent

-----------------------------------------------------------------------------
(***************************************************************************)
(* The inductive invariant.                                                *)
(***************************************************************************)

Working == {"llm", "call", "exec", "proxy"}

Past == {"reload", "done", "lost"}

\* What the place a goroutine has reached says about its local state
Stage(r) ==
    /\ pc[r] = "idle" =>
          cid[r] = Nil /\ decision[r] = Nil /\ held[r] = Nil /\ issued[r] = Nil
    /\ pc[r] = "find" =>
          decision[r] # Nil /\ held[r] = Nil /\ issued[r] = Nil
    /\ pc[r] \in Working =>
          /\ mem[r] # Nil /\ mem[r].pending = Nil
          /\ cid[r] # Nil /\ issued[r] = Nil
          /\ decision[r] # Nil => held[r] # Nil /\ decision[r].approve
    /\ pc[r] \in {"exec", "proxy"} => decision[r] # Nil
    /\ pc[r] = "call" => tool[r] \in Tools \ Destructive
    /\ Saving(r) =>
          /\ mem[r] # Nil /\ cid[r] # Nil
          /\ decision[r] # Nil =>
                held[r] # Nil /\ (issued[r] # Nil => decision[r].approve)
    /\ pc[r] = "notify" =>
          held[r] # Nil /\ ~decision[r].approve /\ issued[r] = Nil
    /\ pc[r] = "reload" => cid[r] # Nil
    /\ pc[r] \in Past \cup {"idle", "find", "notify"} => mem[r] = Nil

\* The approval a request resolves is the one that its creator issued, in the
\* conversation of its creator
HeldIsIssued(r) == held[r] # Nil =>
    /\ decision[r] # Nil
    /\ decision[r].uuid = held[r].uuid
    /\ issued[held[r].uuid] = held[r]
    /\ cid[r] # Nil /\ cid[r] = cid[held[r].uuid]

\* The approval a request has created bears its name and is past its creation
IssuedIsOwn(r) == issued[r] # Nil =>
    /\ issued[r].uuid = r
    /\ cid[r] # Nil
    /\ Saving(r) \/ pc[r] \in Past

StateInv ==
    /\ TypeOK
    /\ StatusTellsPending
    /\ ApprovalHome
    /\ \A r \in Requests : Stage(r) /\ HeldIsIssued(r) /\ IssuedIsOwn(r)

Started(r) == pc[r] \notin {"idle", "find"}

\* A call is made by a request that has got as far as its conversation
CallsStarted == \A k \in calls : Started(k.by)

IInv == StateInv /\ Authorised /\ CallsStarted

-----------------------------------------------------------------------------
(***************************************************************************)
(* Three shapes of step.                                                   *)
(***************************************************************************)

\* A goroutine that computes on its copy, or ends, away from the store
LEMMA LocalStep ==
    ASSUME StateInv,
           NEW r \in Requests, NEW l \in PCs, NEW conv \in Conversations \cup {Nil},
           pc[r] \in Working \cup {"find", "notify", "reload"},
           pc' = [pc EXCEPT ![r] = l],
           mem' = [mem EXCEPT ![r] = conv],
           UNCHANGED <<disk, cid, decision, held, issued, faults, crashes>>,
           conv # Nil => /\ pc[r] \in Working
                         /\ l \in {"llm", "call", "save", "trySave"}
                         /\ conv.pending = Nil
                         /\ Coherent(conv),
           conv = Nil => l = "done",
           l = "call" => tool'[r] \in Tools \ Destructive,
           tool' \in [Requests -> Tools \cup {Nil}],
           \A s \in Requests \ {r} : tool'[s] = tool[s],
           iter' \in [Requests -> 0 .. MaxToolIterations],
           reply' \in [Requests -> Replies],
           calls' \subseteq Calls
    PROVE  StateInv'
<1>1. TypeOK'
  BY DEF StateInv, TypeOK, DiskTypeOK
<1>2. StatusTellsPending'
  <2>1. \A c \in Convs : Readable(c)' => Coherent(disk[c])'
    BY DEF StateInv, StatusTellsPending, Readable, Coherent
  <2>2. \A s \in Requests : mem'[s] # Nil => Coherent(mem'[s])
    BY DEF StateInv, StatusTellsPending, TypeOK
  <2> QED  BY <2>1, <2>2 DEF StatusTellsPending, Coherent
<1>3. ApprovalHome'
  <2>1. \A u \in Requests : FindByApprovalUUID(u)' = FindByApprovalUUID(u)
    BY DEF FindByApprovalUUID, Readable
  <2>2. \A u \in Requests : pc[u] \in Past => pc'[u] \in Past
    BY DEF StateInv, TypeOK, Past, Working
  <2>3. \A s \in Requests : mem'[s] # Nil /\ mem'[s].pending # Nil =>
            Saving(s)' /\ mem'[s].pending = issued'[s]
    BY DEF StateInv, ApprovalHome, TypeOK, Saving
  <2> QED  BY <2>1, <2>2, <2>3 DEF StateInv, ApprovalHome, Past
<1>4. \A s \in Requests : Stage(s)'
  <2>1. Stage(r)'
    BY DEF StateInv, Stage, TypeOK, Working, Past, Saving, PCs
  <2>2. ASSUME NEW s \in Requests \ {r}  PROVE Stage(s)'
    BY <2>2 DEF StateInv, Stage, TypeOK, Saving
  <2> QED  BY <2>1, <2>2
<1>5. \A s \in Requests : HeldIsIssued(s)'
  BY DEF StateInv, HeldIsIssued
<1>6. \A s \in Requests : IssuedIsOwn(s)'
  BY DEF StateInv, IssuedIsOwn, Stage, TypeOK, Working, Past, Saving
<1> QED  BY <1>1, <1>2, <1>3, <1>4, <1>5, <1>6 DEF StateInv

\* A goroutine that creates its approval: the copy carries it to the save
LEMMA AskStep ==
    ASSUME StateInv,
           NEW r \in Requests, NEW l \in {"save", "trySave"},
           NEW conv \in Conversations, NEW t \in Tools, NEW isProxy \in BOOLEAN,
           pc[r] \in Working,
           AskApproval(r, conv, l, t, isProxy),
           UNCHANGED <<disk, cid, iter, tool, decision, held, faults, crashes>>,
           calls' \subseteq Calls
    PROVE  StateInv'
<1> DEFINE a == [uuid |-> r, tool |-> t, remote |-> isProxy]
           new == AddMessage(SetWaitingApproval(conv, a), "assistant", r)
<1>1. a \in Approval /\ a # Nil
  BY DistinctContents DEF Approval
<1>2. new \in Conversations /\ new.pending = a /\ Coherent(new)
  <2>1. SetWaitingApproval(conv, a) \in Conversations
        /\ SetWaitingApproval(conv, a).pending = a
        /\ Coherent(SetWaitingApproval(conv, a))
    BY <1>1, SetWaitingFacts
  <2>2. /\ new \in Conversations
        /\ new.status = SetWaitingApproval(conv, a).status
        /\ new.pending = SetWaitingApproval(conv, a).pending
    BY <2>1, AddMessageFacts
  <2> QED  BY <2>1, <2>2 DEF Coherent
<1>3. /\ issued' = [issued EXCEPT ![r] = a]
      /\ mem' = [mem EXCEPT ![r] = new]
      /\ reply' = [reply EXCEPT ![r] = "approval"]
      /\ pc' = [pc EXCEPT ![r] = l]
  BY DEF AskApproval, Finish, Goto
<1>4. TypeOK'
  BY <1>1, <1>2, <1>3 DEF StateInv, TypeOK, DiskTypeOK, PCs, Replies
<1>5. StatusTellsPending'
  <2>1. \A c \in Convs : Readable(c)' => Coherent(disk[c])'
    BY DEF StateInv, StatusTellsPending, Readable, Coherent
  <2>2. \A s \in Requests : mem'[s] # Nil => Coherent(mem'[s])
    BY <1>2, <1>3 DEF StateInv, StatusTellsPending, TypeOK
  <2> QED  BY <2>1, <2>2 DEF StatusTellsPending, Coherent
<1>6. ApprovalHome'
  <2>1. \A u \in Requests : FindByApprovalUUID(u)' = FindByApprovalUUID(u)
    BY DEF FindByApprovalUUID, Readable
  <2>2. \A u \in Requests : pc[u] \in Past => pc'[u] = pc[u] /\ issued'[u] = issued[u]
    BY <1>3 DEF StateInv, TypeOK, Past, Working
  <2>3. \A s \in Requests : mem'[s] # Nil /\ mem'[s].pending # Nil =>
            Saving(s)' /\ mem'[s].pending = issued'[s]
    BY <1>2, <1>3 DEF StateInv, ApprovalHome, TypeOK, Saving
  <2> QED  BY <2>1, <2>2, <2>3 DEF StateInv, ApprovalHome, Past
<1>7. \A s \in Requests : Stage(s)'
  <2>1. Stage(r)'
    BY <1>1, <1>2, <1>3, DistinctContents DEF StateInv, Stage, TypeOK, Working, Past, Saving
  <2>2. ASSUME NEW s \in Requests \ {r}  PROVE Stage(s)'
    BY <1>3, <2>2 DEF StateInv, Stage, TypeOK, Saving
  <2> QED  BY <2>1, <2>2
<1>8. issued[r] = Nil
  BY DEF StateInv, Stage
<1>9. \A s \in Requests : HeldIsIssued(s)'
  BY <1>3, <1>8 DEF StateInv, HeldIsIssued, TypeOK, Approval
<1>10. \A s \in Requests : IssuedIsOwn(s)'
  BY <1>3 DEF StateInv, IssuedIsOwn, Stage, TypeOK, Working, Past, Saving
<1> QED  BY <1>4, <1>5, <1>6, <1>7, <1>9, <1>10 DEF StateInv

\* A goroutine that has written, or failed to write, its copy
LEMMA SaveStep ==
    ASSUME StateInv,
           NEW r \in Requests, Saving(r),
           \/ disk' \in {disk, [disk EXCEPT ![cid[r]] = Torn]}
           \/ disk' = [disk EXCEPT ![cid[r]] = mem[r]],
           mem' = [mem EXCEPT ![r] = Nil],
           pc' = [pc EXCEPT ![r] = AfterSave(r)] \/ pc' = [pc EXCEPT ![r] = "done"],
           UNCHANGED <<cid, iter, tool, decision, held, issued, calls, crashes>>,
           faults' \in 0 .. MaxFaults,
           reply' \in [Requests -> Replies]
    PROVE  StateInv'
<1>1. /\ mem[r] \in Conversations /\ Coherent(mem[r])
      /\ mem[r] # Torn /\ mem[r] # NoFile
      /\ cid[r] \in Convs
  BY DistinctContents DEF StateInv, TypeOK, Stage, StatusTellsPending
<1>2. PICK l \in {"reload", "notify", "done"} :
          /\ pc' = [pc EXCEPT ![r] = l]
          /\ l # "done" => l = AfterSave(r)
  BY DEF AfterSave
<1>3. issued[r] # Nil => l # "notify"
  BY <1>2 DEF StateInv, Stage, AfterSave, TypeOK
<1>4. TypeOK'
  BY <1>1, <1>2 DEF StateInv, TypeOK, DiskTypeOK, PCs
<1>5. StatusTellsPending'
  <2>1. \A c \in Convs : Readable(c)' => Coherent(disk'[c])
    BY <1>1 DEF StateInv, StatusTellsPending, Readable, TypeOK, DiskTypeOK
  <2>2. \A s \in Requests : mem'[s] # Nil => Coherent(mem'[s])
    BY DEF StateInv, StatusTellsPending, TypeOK
  <2> QED  BY <2>1, <2>2 DEF StatusTellsPending, Coherent
<1>6. ApprovalHome'
  <2>1. ASSUME NEW u \in Requests, NEW c \in FindByApprovalUUID(u)'
        PROVE  cid[u] = c /\ disk'[c].pending = issued[u] /\ pc'[u] \in Past
    <3>1. c \in Convs /\ Readable(c)' /\ disk'[c].pending # Nil /\ disk'[c].pending.uuid = u
      BY <2>1 DEF FindByApprovalUUID
    <3>2. CASE disk'[c] = disk[c]
      <4>1. c \in FindByApprovalUUID(u)
        BY <3>1, <3>2 DEF FindByApprovalUUID, Readable
      <4> QED  BY <1>2, <3>2, <4>1 DEF StateInv, ApprovalHome, Past, TypeOK, Saving
    <3>3. CASE disk'[c] # disk[c]
      <4>1. c = cid[r] /\ disk'[c] = mem[r]
        BY <1>1, <3>1, <3>3 DEF StateInv, TypeOK, DiskTypeOK, Readable
      <4>2. mem[r].pending = issued[r] /\ issued[r] # Nil
        BY <1>1, <3>1, <4>1 DEF StateInv, ApprovalHome, Stage
      <4>3. u = r
        BY <3>1, <4>1, <4>2 DEF StateInv, IssuedIsOwn
      <4> QED  BY <1>2, <1>3, <4>1, <4>2, <4>3 DEF StateInv, TypeOK, Past
    <3> QED  BY <3>2, <3>3
  <2>2. \A s \in Requests : mem'[s] # Nil /\ mem'[s].pending # Nil =>
            Saving(s)' /\ mem'[s].pending = issued'[s]
    BY <1>2 DEF StateInv, ApprovalHome, TypeOK, Saving
  <2> QED  BY <2>1, <2>2 DEF ApprovalHome, Past
<1>7. \A s \in Requests : Stage(s)'
  <2>1. Stage(r)'
    BY <1>2, <1>3 DEF StateInv, Stage, TypeOK, Working, Past, Saving, AfterSave
  <2>2. ASSUME NEW s \in Requests \ {r}  PROVE Stage(s)'
    BY <1>2, <2>2 DEF StateInv, Stage, TypeOK, Saving
  <2> QED  BY <2>1, <2>2
<1>8. \A s \in Requests : HeldIsIssued(s)'
  BY DEF StateInv, HeldIsIssued
<1>9. \A s \in Requests : IssuedIsOwn(s)'
  BY <1>2, <1>3 DEF StateInv, IssuedIsOwn, TypeOK, Past, Saving
<1> QED  BY <1>4, <1>5, <1>6, <1>7, <1>8, <1>9 DEF StateInv

-----------------------------------------------------------------------------
(***************************************************************************)
(* The remaining steps, one lemma each.                                    *)
(***************************************************************************)

\* Any write that puts no approval on the disk keeps the approvals at home
LEMMA HomeWithoutNewApprovals ==
    ASSUME StateInv,
           \A c \in Convs : Readable(c)' => disk'[c] = disk[c] \/ disk'[c].pending = Nil,
           \A s \in Requests : pc[s] \in Past =>
               pc'[s] \in Past /\ cid'[s] = cid[s] /\ issued'[s] = issued[s],
           \A s \in Requests : mem'[s] # Nil /\ mem'[s].pending # Nil =>
               mem'[s] = mem[s] /\ pc'[s] = pc[s] /\ issued'[s] = issued[s]
    PROVE  ApprovalHome'
<1>1. ASSUME NEW u \in Requests, NEW c \in FindByApprovalUUID(u)'
      PROVE  cid'[u] = c /\ disk'[c].pending = issued'[u] /\ pc'[u] \in Past
  <2>1. c \in Convs /\ Readable(c)' /\ disk'[c].pending # Nil /\ disk'[c].pending.uuid = u
    BY <1>1 DEF FindByApprovalUUID
  <2>2. disk'[c] = disk[c]
    BY <2>1
  <2>3. c \in FindByApprovalUUID(u)
    BY <2>1, <2>2 DEF FindByApprovalUUID, Readable
  <2> QED  BY <2>2, <2>3 DEF StateInv, ApprovalHome, Past
<1>2. ASSUME NEW s \in Requests, mem'[s] # Nil, mem'[s].pending # Nil
      PROVE  Saving(s)' /\ mem'[s].pending = issued'[s]
  BY <1>2 DEF StateInv, ApprovalHome, Saving
<1> QED  BY <1>1, <1>2 DEF ApprovalHome, Past

\* POST /conversations preserves StateInv, whether its first save fails or not
LEMMA CreateStep ==
    ASSUME StateInv, NEW r \in Requests, NEW c \in Convs, CreateConversation(r, c)
    PROVE  StateInv'
<1> DEFINE new == AddMessage(New, "user", r)
<1>1. New \in Conversations /\ New.pending = Nil /\ Coherent(New)
  BY NewConversation
<1>2. new \in Conversations /\ new.pending = Nil /\ Coherent(new)
  BY <1>1, AddMessageFacts DEF Coherent
<1>3. /\ pc[r] = "idle" /\ c # Nil /\ \A s \in Requests : cid[s] # c
      /\ cid' = [cid EXCEPT ![r] = c]
      /\ UNCHANGED <<iter, tool, decision, held, issued, calls, crashes>>
  BY ParametersOK DEF CreateConversation
<1>4. \/ /\ disk' = [disk EXCEPT ![c] = New]
         /\ mem' = [mem EXCEPT ![r] = new]
         /\ pc' = [pc EXCEPT ![r] = "llm"]
         /\ UNCHANGED <<reply, faults>>
      \/ /\ disk' = [disk EXCEPT ![c] = New]
         /\ mem' = [mem EXCEPT ![r] = Nil]
         /\ pc' = [pc EXCEPT ![r] = "done"]
         /\ reply' = [reply EXCEPT ![r] = "created"]
         /\ UNCHANGED faults
      \/ /\ disk' \in {disk, [disk EXCEPT ![c] = Torn]}
         /\ mem' = [mem EXCEPT ![r] = Nil]
         /\ pc' = [pc EXCEPT ![r] = "done"]
         /\ reply' = [reply EXCEPT ![r] = "error"]
         /\ faults' = faults + 1 /\ faults < MaxFaults
  BY <1>1 DEF CreateConversation, SaveConversation, SaveFails, ProcessMessage, Answer, Goto,
              New
<1>5. TypeOK'
  BY <1>1, <1>2, <1>3, <1>4, ParametersOK
  DEF StateInv, TypeOK, DiskTypeOK, PCs, Replies
<1>6. StatusTellsPending'
  <2>1. \A d \in Convs : Readable(d)' => Coherent(disk'[d])
    BY <1>1, <1>4 DEF StateInv, StatusTellsPending, Readable, TypeOK, DiskTypeOK
  <2>2. \A s \in Requests : mem'[s] # Nil => Coherent(mem'[s])
    BY <1>2, <1>4 DEF StateInv, StatusTellsPending, TypeOK
  <2> QED  BY <2>1, <2>2 DEF StatusTellsPending, Coherent
<1>7. ApprovalHome'
  <2>1. \A d \in Convs : Readable(d)' => disk'[d] = disk[d] \/ disk'[d].pending = Nil
    BY <1>1, <1>4 DEF StateInv, Readable, TypeOK, DiskTypeOK
  <2>2. \A s \in Requests : pc[s] \in Past =>
            pc'[s] \in Past /\ cid'[s] = cid[s] /\ issued'[s] = issued[s]
    BY <1>3, <1>4 DEF StateInv, TypeOK, Past
  <2>3. \A s \in Requests : mem'[s] # Nil /\ mem'[s].pending # Nil =>
            mem'[s] = mem[s] /\ pc'[s] = pc[s] /\ issued'[s] = issued[s]
    BY <1>2, <1>3, <1>4 DEF StateInv, TypeOK
  <2> QED  BY <2>1, <2>2, <2>3, HomeWithoutNewApprovals
<1>8. \A s \in Requests : Stage(s)'
  <2>1. Stage(r)'
    BY <1>2, <1>3, <1>4, DistinctContents DEF StateInv, Stage, TypeOK, Working, Past, Saving
  <2>2. ASSUME NEW s \in Requests \ {r}  PROVE Stage(s)'
    BY <1>3, <1>4, <2>2 DEF StateInv, Stage, TypeOK, Saving
  <2> QED  BY <2>1, <2>2
<1>9. \A s \in Requests : HeldIsIssued(s)'
  BY <1>3 DEF StateInv, HeldIsIssued, Stage, TypeOK, Approval
<1>10. \A s \in Requests : IssuedIsOwn(s)'
  BY <1>3, <1>4 DEF StateInv, IssuedIsOwn, Stage, TypeOK, Past, Saving
<1> QED  BY <1>5, <1>6, <1>7, <1>8, <1>9, <1>10 DEF StateInv

\* POST /conversations/:id/messages preserves StateInv
LEMMA SendStep ==
    ASSUME StateInv, NEW r \in Requests, NEW c \in Convs, SendMessage(r, c)
    PROVE  StateInv'
<1> DEFINE new == AddMessage(disk[c], "user", r)
<1>1. /\ pc[r] = "idle" /\ c # Nil
      /\ cid' = [cid EXCEPT ![r] = c]
      /\ UNCHANGED <<disk, iter, tool, decision, held, issued, calls, faults, crashes>>
  BY ParametersOK DEF SendMessage, envVars
<1>2. \/ /\ new \in Conversations /\ new.pending = Nil /\ Coherent(new)
         /\ mem' = [mem EXCEPT ![r] = new]
         /\ pc' = [pc EXCEPT ![r] = "llm"]
         /\ UNCHANGED reply
      \/ /\ mem' = mem
         /\ pc' = [pc EXCEPT ![r] = "reload"]
         /\ reply' = [reply EXCEPT ![r] = "blocked"]
      \/ /\ mem' = [mem EXCEPT ![r] = Nil]
         /\ pc' = [pc EXCEPT ![r] = "done"]
         /\ reply' = [reply EXCEPT ![r] = "error"]
  <2>1. CASE ~Readable(c)
    BY <2>1 DEF SendMessage, Answer, Goto
  <2>2. CASE Readable(c) /\ disk[c].status = "waiting_approval"
    BY <2>2 DEF SendMessage, ProcessMessage, Goto
  <2>3. CASE Readable(c) /\ disk[c].status # "waiting_approval"
    <3>1. disk[c] \in Conversations /\ disk[c].pending = Nil
      BY <2>3 DEF StateInv, StatusTellsPending, TypeOK, DiskTypeOK, Readable, Coherent
    <3>2. new \in Conversations /\ new.pending = Nil /\ Coherent(new)
      BY <2>3, <3>1, AddMessageFacts DEF Coherent
    <3> QED  BY <2>3, <3>2 DEF SendMessage, ProcessMessage, Goto
  <2> QED  BY <2>1, <2>2, <2>3
<1>3. mem[r] = Nil
  BY <1>1 DEF StateInv, Stage
<1>4. TypeOK'
  BY <1>1, <1>2 DEF StateInv, TypeOK, DiskTypeOK, PCs, Replies
<1>5. StatusTellsPending'
  <2>1. \A d \in Convs : Readable(d)' => Coherent(disk'[d])
    BY <1>1 DEF StateInv, StatusTellsPending, Readable
  <2>2. \A s \in Requests : mem'[s] # Nil => Coherent(mem'[s])
    BY <1>2 DEF StateInv, StatusTellsPending, TypeOK
  <2> QED  BY <2>1, <2>2 DEF StatusTellsPending, Coherent
<1>6. ApprovalHome'
  <2>1. \A s \in Requests : pc[s] \in Past =>
            pc'[s] \in Past /\ cid'[s] = cid[s] /\ issued'[s] = issued[s]
    BY <1>1, <1>2 DEF StateInv, TypeOK, Past
  <2>2. \A s \in Requests : mem'[s] # Nil /\ mem'[s].pending # Nil =>
            mem'[s] = mem[s] /\ pc'[s] = pc[s] /\ issued'[s] = issued[s]
    BY <1>1, <1>2, <1>3 DEF StateInv, TypeOK
  <2> QED  BY <1>1, <2>1, <2>2, HomeWithoutNewApprovals
<1>7. \A s \in Requests : Stage(s)'
  <2>1. Stage(r)'
    BY <1>1, <1>2, DistinctContents DEF StateInv, Stage, TypeOK, Working, Past, Saving
  <2>2. ASSUME NEW s \in Requests \ {r}  PROVE Stage(s)'
    BY <1>1, <1>2, <2>2 DEF StateInv, Stage, TypeOK, Saving
  <2> QED  BY <2>1, <2>2
<1>8. \A s \in Requests : HeldIsIssued(s)'
  BY <1>1 DEF StateInv, HeldIsIssued, Stage, TypeOK, Approval
<1>9. \A s \in Requests : IssuedIsOwn(s)'
  BY <1>1, <1>2 DEF StateInv, IssuedIsOwn, Stage, TypeOK, Past, Saving
<1> QED  BY <1>4, <1>5, <1>6, <1>7, <1>8, <1>9 DEF StateInv

\* ContinueTask and PostApproval: the decision is noted, nothing else happens
LEMMA DecideStep ==
    ASSUME StateInv, NEW r \in Requests, NEW d \in Decisions,
           pc[r] = "idle",
           decision' = [decision EXCEPT ![r] = d],
           pc' = [pc EXCEPT ![r] = "find"],
           UNCHANGED <<disk, cid, mem, iter, tool, held, reply, issued, calls, faults, crashes>>
    PROVE  StateInv'
<1>1. TypeOK'
  BY DEF StateInv, TypeOK, DiskTypeOK, PCs
<1>2. StatusTellsPending'
  BY DEF StateInv, StatusTellsPending, Readable, Coherent
<1>3. ApprovalHome'
  <2>1. \A s \in Requests : pc[s] \in Past => pc'[s] \in Past
    BY DEF StateInv, TypeOK, Past
  <2>2. mem[r] = Nil
    BY DEF StateInv, Stage
  <2>3. \A s \in Requests : mem'[s] # Nil => pc'[s] = pc[s]
    BY <2>2 DEF StateInv, TypeOK
  <2> QED  BY <2>1, <2>3, HomeWithoutNewApprovals
<1>4. d # Nil
  BY ParametersOK
<1>5. \A s \in Requests : Stage(s)'
  <2>1. Stage(r)'
    BY <1>4 DEF StateInv, Stage, TypeOK, Working, Past, Saving
  <2>2. ASSUME NEW s \in Requests \ {r}  PROVE Stage(s)'
    BY <2>2 DEF StateInv, Stage, TypeOK, Saving
  <2> QED  BY <2>1, <2>2
<1>6. \A s \in Requests : HeldIsIssued(s)'
  BY DEF StateInv, HeldIsIssued, Stage, TypeOK
<1>7. \A s \in Requests : IssuedIsOwn(s)'
  BY DEF StateInv, IssuedIsOwn, Stage, TypeOK, Past, Saving
<1> QED  BY <1>1, <1>2, <1>3, <1>5, <1>6, <1>7 DEF StateInv

\* ResolveApproval preserves StateInv when it finds the approval: the copy it
\* takes waits for nothing, the file keeps the approval
LEMMA FoundStep ==
    ASSUME StateInv, NEW r \in Requests, NEW c \in Convs, ApprovalFound(r, c)
    PROVE  StateInv'
<1> DEFINE u == decision[r].uuid
           a == disk[c].pending
           conv == AddMessage(ResolveApproval(disk[c]), "user", r)
           rejected == AddMessage(conv, "assistant", r)
<1>1. /\ pc[r] = "find"
      /\ c \in FindByApprovalUUID(u)
      /\ cid' = [cid EXCEPT ![r] = c]
      /\ held' = [held EXCEPT ![r] = a]
      /\ UNCHANGED <<disk, iter, tool, decision, issued, calls, faults, crashes>>
  BY DEF ApprovalFound, envVars
<1>2. decision[r] \in Decisions /\ decision[r] # Nil /\ issued[r] = Nil /\ held[r] = Nil
  BY <1>1 DEF StateInv, Stage, TypeOK
<1>3. /\ c # Nil /\ disk[c] \in Conversations /\ Coherent(disk[c])
      /\ a \in Approval /\ a # Nil /\ a.uuid = u
  BY <1>1, ParametersOK
  DEF FindByApprovalUUID, Readable, StateInv, TypeOK, DiskTypeOK, StatusTellsPending, Conversations
<1>4. u \in Requests /\ cid[u] = c /\ issued[u] = a /\ pc[u] \in Past
  BY <1>1, <1>2 DEF StateInv, ApprovalHome, Past, Decisions
<1>5. conv \in Conversations /\ conv.pending = Nil /\ Coherent(conv)
  <2>1. /\ ResolveApproval(disk[c]) \in Conversations
        /\ ResolveApproval(disk[c]).pending = Nil
        /\ Coherent(ResolveApproval(disk[c]))
    BY <1>3, ResolveFacts
  <2> QED  BY <2>1, AddMessageFacts DEF Coherent
<1>6. rejected \in Conversations /\ rejected.pending = Nil /\ Coherent(rejected)
  BY <1>5, AddMessageFacts DEF Coherent
<1>7. \/ /\ decision[r].approve
         /\ mem' = [mem EXCEPT ![r] = conv]
         /\ pc' = [pc EXCEPT ![r] = "proxy"] \/ pc' = [pc EXCEPT ![r] = "exec"]
         /\ UNCHANGED reply
      \/ /\ ~decision[r].approve
         /\ mem' = [mem EXCEPT ![r] = rejected]
         /\ pc' = [pc EXCEPT ![r] = "save"]
         /\ reply' = [reply EXCEPT ![r] = "cancelled"]
  BY DEF ApprovalFound, Finish, Goto
<1>8. TypeOK'
  BY <1>1, <1>3, <1>5, <1>6, <1>7 DEF StateInv, TypeOK, DiskTypeOK, PCs, Replies
<1>9. StatusTellsPending'
  <2>1. \A d \in Convs : Readable(d)' => Coherent(disk'[d])
    BY <1>1 DEF StateInv, StatusTellsPending, Readable
  <2>2. \A s \in Requests : mem'[s] # Nil => Coherent(mem'[s])
    BY <1>5, <1>6, <1>7 DEF StateInv, StatusTellsPending, TypeOK
  <2> QED  BY <2>1, <2>2 DEF StatusTellsPending, Coherent
<1>10. ApprovalHome'
  <2>1. \A s \in Requests : pc[s] \in Past =>
            pc'[s] \in Past /\ cid'[s] = cid[s] /\ issued'[s] = issued[s]
    BY <1>1, <1>7 DEF StateInv, TypeOK, Past
  <2>2. \A s \in Requests : mem'[s] # Nil /\ mem'[s].pending # Nil =>
            mem'[s] = mem[s] /\ pc'[s] = pc[s] /\ issued'[s] = issued[s]
    BY <1>1, <1>5, <1>6, <1>7 DEF StateInv, TypeOK
  <2> QED  BY <1>1, <2>1, <2>2, HomeWithoutNewApprovals
<1>11. \A s \in Requests : Stage(s)'
  <2>1. Stage(r)'
    BY <1>1, <1>2, <1>3, <1>5, <1>6, <1>7, DistinctContents
    DEF StateInv, Stage, TypeOK, Working, Past, Saving
  <2>2. ASSUME NEW s \in Requests \ {r}  PROVE Stage(s)'
    BY <1>1, <1>7, <2>2 DEF StateInv, Stage, TypeOK, Saving
  <2> QED  BY <2>1, <2>2
<1>12. \A s \in Requests : HeldIsIssued(s)'
  <2>1. HeldIsIssued(r)'
    BY <1>1, <1>2, <1>3, <1>4 DEF StateInv, HeldIsIssued, TypeOK, Past
  <2>2. ASSUME NEW s \in Requests \ {r}  PROVE HeldIsIssued(s)'
    BY <1>1, <1>2, <2>2 DEF StateInv, HeldIsIssued, TypeOK, Approval
  <2> QED  BY <2>1, <2>2
<1>13. \A s \in Requests : IssuedIsOwn(s)'
  BY <1>1, <1>2, <1>7 DEF StateInv, IssuedIsOwn, TypeOK, Past, Saving
<1> QED  BY <1>8, <1>9, <1>10, <1>11, <1>12, <1>13 DEF StateInv

\* A crash preserves StateInv: it can only tear files and drop copies
LEMMA CrashStep ==
    ASSUME StateInv, Crash
    PROVE  StateInv'
<1>1. /\ pc' = [s \in Requests |-> IF InFlight(s) THEN "lost" ELSE pc[s]]
      /\ mem' = [s \in Requests |-> Nil]
      /\ crashes' = crashes + 1 /\ crashes < MaxCrashes
      /\ UNCHANGED <<cid, iter, tool, decision, held, reply, issued, calls, faults>>
  BY DEF Crash
<1>2. PICK torn \in SUBSET {cid[s] : s \in {q \in Requests : Saving(q)}} :
          disk' = [c \in Convs |-> IF c \in torn THEN Torn ELSE disk[c]]
  BY DEF Crash, DieWhileWriting
<1>3. TypeOK'
  BY <1>1, <1>2, ParametersOK DEF StateInv, TypeOK, DiskTypeOK, PCs
<1>4. StatusTellsPending'
  BY <1>1, <1>2 DEF StateInv, StatusTellsPending, Readable, Coherent
<1>5. ApprovalHome'
  <2>1. \A d \in Convs : Readable(d)' => disk'[d] = disk[d]
    BY <1>2 DEF Readable
  <2>2. \A s \in Requests : pc[s] \in Past =>
            pc'[s] \in Past /\ cid'[s] = cid[s] /\ issued'[s] = issued[s]
    BY <1>1 DEF InFlight, Past
  <2> QED  BY <1>1, <2>1, <2>2, HomeWithoutNewApprovals
<1>6. \A s \in Requests : Stage(s)'
  BY <1>1 DEF StateInv, Stage, InFlight, Working, Past, Saving
<1>7. \A s \in Requests : HeldIsIssued(s)'
  BY <1>1 DEF StateInv, HeldIsIssued
<1>8. \A s \in Requests : IssuedIsOwn(s)'
  BY <1>1 DEF StateInv, IssuedIsOwn, InFlight, Past, Saving
<1> QED  BY <1>3, <1>4, <1>5, <1>6, <1>7, <1>8 DEF StateInv

-----------------------------------------------------------------------------
(***************************************************************************)
(* StateInv is inductive.                                                  *)
(***************************************************************************)

\* StateInv holds in an empty data directory
LEMMA InitStateInv == Init => StateInv
<1> SUFFICES ASSUME Init PROVE StateInv
  OBVIOUS
<1>1. TypeOK
  BY ParametersOK DEF Init, TypeOK, DiskTypeOK, PCs, Replies
<1>2. StatusTellsPending
  BY DEF Init, StatusTellsPending, Readable
<1>3. ApprovalHome
  BY DEF Init, ApprovalHome, FindByApprovalUUID, Readable
<1>4. \A r \in Requests : Stage(r) /\ HeldIsIssued(r) /\ IssuedIsOwn(r)
  BY DEF Init, Stage, HeldIsIssued, IssuedIsOwn, Working, Past, Saving
<1> QED  BY <1>1, <1>2, <1>3, <1>4 DEF StateInv

\* The arrival of any request preserves StateInv
LEMMA ArriveStep ==
    ASSUME StateInv, NEW r \in Requests, Arrive(r)
    PROVE  StateInv'
<1>1. CASE \E c \in Convs : CreateConversation(r, c) \/ SendMessage(r, c)
  BY <1>1, CreateStep, SendStep
<1>2. ASSUME NEW c \in Convs, NEW approve \in BOOLEAN, ContinueTask(r, c, approve)
      PROVE  StateInv'
  <2>1. [uuid |-> disk[c].pending.uuid, approve |-> approve] \in Decisions
    BY <1>2 DEF ContinueTask, StateInv, TypeOK, DiskTypeOK, Readable, Conversations, Approval,
                Decisions
  <2> QED  BY <1>2, <2>1, DecideStep DEF ContinueTask, Goto, envVars
<1>3. ASSUME NEW u \in Requests, NEW approve \in BOOLEAN, PostApproval(r, u, approve)
      PROVE  StateInv'
  <2>1. [uuid |-> u, approve |-> approve] \in Decisions
    BY DEF Decisions
  <2> QED  BY <1>3, <2>1, DecideStep DEF PostApproval, Goto, envVars
<1> QED  BY <1>1, <1>2, <1>3 DEF Arrive

\* What a recorded call looks like
LEMMA RecordType ==
    ASSUME TypeOK, NEW r \in Requests, NEW what \in {"run", "approve", "reject"},
           NEW t \in Tools, NEW via \in Requests \cup {Nil},
           MayRecord(r, what, t, via) \/ Record(r, what, t, via)
    PROVE  calls' \subseteq Calls
BY DEF TypeOK, MayRecord, Record, Calls

\* Messages leave a conversation that waits for nothing as it is
LEMMA NotedIdle ==
    ASSUME NEW conv \in Conversations, conv.pending = Nil, Coherent(conv),
           NEW r \in Requests
    PROVE  /\ AddMessage(conv, "assistant", r) \in Conversations
           /\ AddMessage(conv, "assistant", r).pending = Nil
           /\ Coherent(AddMessage(conv, "assistant", r))
           /\ \A t \in Tools :
                 /\ AddToolCall(conv, t, r) \in Conversations
                 /\ AddToolCall(conv, t, r).pending = Nil
                 /\ Coherent(AddToolCall(conv, t, r))
                 /\ AddToolResult(conv, t, r) \in Conversations
                 /\ AddToolResult(conv, t, r).pending = Nil
                 /\ Coherent(AddToolResult(conv, t, r))
<1>1. /\ AddMessage(conv, "assistant", r) \in Conversations
      /\ AddMessage(conv, "assistant", r).status = conv.status
      /\ AddMessage(conv, "assistant", r).pending = conv.pending
  BY AddMessageFacts
<1> QED  BY <1>1, AddToolCallFacts, AddToolResultFacts DEF Coherent

\* The copy of a request at work waits for nothing
LEMMA WorkingCopy ==
    ASSUME StateInv, NEW r \in Requests, pc[r] \in Working
    PROVE  /\ mem[r] \in Conversations /\ mem[r].pending = Nil /\ Coherent(mem[r])
           /\ pc[r] \in {"exec", "proxy"} =>
                 held[r] \in Approval /\ held[r].tool \in Tools /\ held[r].uuid \in Requests
<1>1. mem[r] \in Conversations /\ mem[r].pending = Nil /\ Coherent(mem[r])
  BY DEF StateInv, Stage, TypeOK, StatusTellsPending
<1>2. pc[r] \in {"exec", "proxy"} => held[r] \in Approval
  BY DEF StateInv, Stage, TypeOK
<1> QED  BY <1>1, <1>2 DEF Approval

\* Every step of ResolveApproval preserves StateInv
LEMMA ResolveStep ==
    ASSUME StateInv, NEW r \in Requests, Resolve(r)
    PROVE  StateInv'
<1> USE DEF envVars, Goto
<1> DEFINE noted == AddMessage(mem[r], "assistant", r)
           result == AddToolResult(mem[r], held[r].tool, r)
<1>1. CASE ApprovalNotFound(r)
  BY <1>1, LocalStep DEF ApprovalNotFound, Answer, StateInv, TypeOK, PCs, Replies
<1>2. CASE \E c \in Convs : ApprovalFound(r, c)
  BY <1>2, FoundStep
<1>3. ASSUME pc[r] \in {"exec", "proxy"}
      PROVE  /\ held[r].tool \in Tools /\ held[r].uuid \in Requests
             /\ mem[r] \in Conversations
             /\ noted \in Conversations /\ noted.pending = Nil /\ Coherent(noted)
             /\ noted # Nil
             /\ result \in Conversations /\ result.pending = Nil /\ Coherent(result)
             /\ result # Nil
  <2>1. /\ mem[r] \in Conversations /\ mem[r].pending = Nil /\ Coherent(mem[r])
        /\ held[r].tool \in Tools /\ held[r].uuid \in Requests
    BY <1>3, WorkingCopy DEF Working
  <2> QED  BY <2>1, NotedIdle, DistinctContents
<1>4. CASE ExecuteReturns(r)
  <2>1. calls' \subseteq Calls
    BY <1>3, <1>4, RecordType DEF ExecuteReturns, StateInv
  <2> QED  BY <1>3, <1>4, <2>1, LocalStep DEF ExecuteReturns, StateInv, TypeOK, PCs, Working
<1>5. CASE ExecuteNeedsAuth(r)
  BY <1>3, <1>5, LocalStep
  DEF ExecuteNeedsAuth, Finish, StateInv, TypeOK, PCs, Replies, Working
<1>6. CASE ProxyReturns(r)
  <2>1. calls' \subseteq Calls
    BY <1>3, <1>6, RecordType DEF ProxyReturns, StateInv
  <2> QED  BY <1>3, <1>6, <2>1, LocalStep DEF ProxyReturns, StateInv, TypeOK, PCs, Working
<1>7. CASE ProxyNeedsApproval(r)
  <2>1. calls' \subseteq Calls
    BY <1>3, <1>7, RecordType DEF ProxyNeedsApproval, StateInv
  <2> QED  BY <1>3, <1>7, <2>1, AskStep DEF ProxyNeedsApproval, Working
<1>8. CASE ProxyNeedsAuth(r)
  <2>1. calls' \subseteq Calls
    BY <1>3, <1>8, RecordType DEF ProxyNeedsAuth, StateInv
  <2> QED  BY <1>3, <1>8, <2>1, LocalStep
           DEF ProxyNeedsAuth, Finish, StateInv, TypeOK, PCs, Replies, Working
<1>9. CASE ProxyFails(r)
  <2>1. calls' \subseteq Calls
    BY <1>3, <1>9, RecordType DEF ProxyFails, StateInv
  <2> QED  BY <1>9, <2>1, LocalStep
           DEF ProxyFails, Answer, StateInv, TypeOK, PCs, Replies, Working
<1>10. CASE ForwardRejection(r)
  <2>1. held[r].tool \in Tools /\ held[r].uuid \in Requests
    BY <1>10 DEF ForwardRejection, StateInv, Stage, TypeOK, Approval
  <2>2. calls' \subseteq Calls
    BY <1>10, <2>1, RecordType DEF ForwardRejection, StateInv
  <2> QED  BY <1>10, <2>2, LocalStep
           DEF ForwardRejection, Answer, StateInv, TypeOK, PCs, Replies
<1> QED  BY <1>1, <1>2, <1>4, <1>5, <1>6, <1>7, <1>8, <1>9, <1>10 DEF Resolve

\* Every step of processSimpleMessage preserves StateInv
LEMMA LoopStep ==
    ASSUME StateInv, NEW r \in Requests, Loop(r)
    PROVE  StateInv'
<1> USE DEF envVars, Goto
<1> DEFINE noted == AddMessage(mem[r], "assistant", r)
<1>1. ASSUME pc[r] \in {"llm", "call"}
      PROVE  /\ mem[r] \in Conversations
             /\ noted \in Conversations /\ noted.pending = Nil /\ Coherent(noted)
             /\ noted # Nil
             /\ \A t \in Tools :
                   /\ AddToolCall(mem[r], t, r) \in Conversations
                   /\ AddToolCall(mem[r], t, r).pending = Nil
                   /\ Coherent(AddToolCall(mem[r], t, r))
                   /\ AddToolCall(mem[r], t, r) # Nil
                   /\ AddToolResult(mem[r], t, r) \in Conversations
                   /\ AddToolResult(mem[r], t, r).pending = Nil
                   /\ Coherent(AddToolResult(mem[r], t, r))
                   /\ AddToolResult(mem[r], t, r) # Nil
  <2>1. mem[r] \in Conversations /\ mem[r].pending = Nil /\ Coherent(mem[r])
    BY <1>1, WorkingCopy DEF Working
  <2> QED  BY <2>1, NotedIdle, DistinctContents
<1>2. pc[r] = "call" => tool[r] \in Tools
  BY DEF StateInv, Stage
<1>3. CASE LLMNotice(r) \/ LLMText(r) \/ LLMCapReached(r)
  BY <1>1, <1>3, LocalStep
  DEF LLMNotice, LLMText, LLMCapReached, AtLLM, Finish, StateInv, TypeOK, PCs, Replies, Working
<1>4. ASSUME NEW t \in Tools, LLMDestructive(r, t)
      PROVE  StateInv'
  BY <1>1, <1>4, AskStep DEF LLMDestructive, AtLLM, StateInv, TypeOK, Working
<1>5. ASSUME NEW t \in Tools, LLMHarmless(r, t)
      PROVE  StateInv'
  <2>1. iter' \in [Requests -> 0 .. MaxToolIterations]
    BY <1>5, ParametersOK DEF LLMHarmless, AtLLM, StateInv, TypeOK
  <2>2. /\ tool'[r] = t /\ t \in Tools \ Destructive
        /\ tool' \in [Requests -> Tools \cup {Nil}]
        /\ \A s \in Requests \ {r} : tool'[s] = tool[s]
    BY <1>5 DEF LLMHarmless, NeedsApproval, StateInv, TypeOK
  <2> QED  BY <1>1, <1>5, <2>1, <2>2, LocalStep
           DEF LLMHarmless, AtLLM, StateInv, TypeOK, PCs, Working
<1>6. CASE ToolReturns(r)
  <2>1. calls' \subseteq Calls
    BY <1>2, <1>6, RecordType DEF ToolReturns, StateInv
  <2> QED  BY <1>1, <1>2, <1>6, <2>1, LocalStep
           DEF ToolReturns, StateInv, TypeOK, PCs, Working
<1>7. CASE ToolNeedsAuth(r)
  <2>1. calls' \subseteq Calls
    BY <1>2, <1>7, RecordType DEF ToolNeedsAuth, StateInv, TypeOK
  <2> QED  BY <1>1, <1>7, <2>1, LocalStep
           DEF ToolNeedsAuth, Finish, StateInv, TypeOK, PCs, Replies, Working
<1>8. CASE ToolNeedsApproval(r)
  <2>1. calls' \subseteq Calls
    BY <1>2, <1>8, RecordType DEF ToolNeedsApproval, StateInv
  <2> QED  BY <1>1, <1>2, <1>8, <2>1, AskStep DEF ToolNeedsApproval, Working
<1> QED  BY <1>3, <1>4, <1>5, <1>6, <1>7, <1>8 DEF Loop

\* The save, the failed save and the second read preserve StateInv
LEMMA EndStep ==
    ASSUME StateInv, NEW r \in Requests, End(r)
    PROVE  StateInv'
<1> USE DEF envVars, Goto
<1>1. CASE Save(r)
  BY <1>1, SaveStep DEF Save, SaveConversation, StateInv, TypeOK
<1>2. CASE SaveError(r)
  <2>1. faults' \in 0 .. MaxFaults
    BY <1>2, ParametersOK DEF SaveError, StateInv, TypeOK
  <2>2. /\ mem' = [mem EXCEPT ![r] = Nil]
        /\ pc' = [pc EXCEPT ![r] = AfterSave(r)] \/ pc' = [pc EXCEPT ![r] = "done"]
        /\ reply' \in [Requests -> Replies]
    BY <1>2 DEF SaveError, Answer, StateInv, TypeOK, Replies
  <2> QED  BY <1>2, <2>1, <2>2, SaveStep DEF SaveError, SaveFails
<1>3. CASE Reload(r)
  BY <1>3, LocalStep DEF Reload, Answer, StateInv, TypeOK, PCs, Replies
<1> QED  BY <1>1, <1>2, <1>3 DEF End

\* No step of the agent breaks StateInv
LEMMA StateInvStep == StateInv /\ [Next]_vars => StateInv'
<1> SUFFICES ASSUME StateInv, [Next]_vars PROVE StateInv'
  OBVIOUS
<1>1. CASE Crash
  BY <1>1, CrashStep
<1>2. ASSUME NEW r \in Requests, Arrive(r) PROVE StateInv'
  BY <1>2, ArriveStep
<1>3. ASSUME NEW r \in Requests, Proceed(r) PROVE StateInv'
  BY <1>3, ResolveStep, LoopStep, EndStep DEF Proceed
<1>4. CASE UNCHANGED vars
  BY <1>4 DEF vars, StateInv, TypeOK, DiskTypeOK, StatusTellsPending, ApprovalHome, Coherent,
              Readable, FindByApprovalUUID, Stage, HeldIsIssued, IssuedIsOwn, Saving
<1> QED  BY <1>1, <1>2, <1>3, <1>4 DEF Next

\* StateInv holds in every state the agent can reach
THEOREM StateInvariant == Spec => []StateInv
BY InitStateInv, StateInvStep, PTL DEF Spec

\* The type invariant of SimpleAgent
THEOREM TypeCorrect == Spec => []TypeOK
<1>1. StateInv => TypeOK  BY DEF StateInv
<1> QED  BY <1>1, StateInvariant, PTL

\* The two tests for a waiting conversation, ProcessMessage's of the status and
\* ResolveApproval's of the pending approval, always agree
THEOREM StatusMatchesPending == Spec => []StatusTellsPending
<1>1. StateInv => StatusTellsPending  BY DEF StateInv
<1> QED  BY <1>1, StateInvariant, PTL

\* FindConversationByApprovalUUID never finds an approval outside the
\* conversation in which it was created
THEOREM ApprovalsStayHome == Spec => []ApprovalHome
<1>1. StateInv => ApprovalHome  BY DEF StateInv
<1> QED  BY <1>1, StateInvariant, PTL

-----------------------------------------------------------------------------
(***************************************************************************)
(* Authorised.                                                             *)
(***************************************************************************)

\* What Authorised says about one call
AuthorisedCall(k) ==
    (k.tool \in Destructive \/ k.what # "run") =>
        /\ k.via # Nil
        /\ issued[k.via] # Nil /\ issued[k.via].tool = k.tool
        /\ decision[k.by] = [uuid |-> k.via, approve |-> k.what # "reject"]
        /\ cid[k.by] = cid[k.via]

\* Once a request has its conversation it keeps it, with its decision and its
\* approval
LEMMA StartedStays ==
    ASSUME StateInv, [Next]_vars, NEW s \in Requests, Started(s)
    PROVE  /\ Started(s)'
           /\ cid'[s] = cid[s] /\ decision'[s] = decision[s]
           /\ issued[s] # Nil => issued'[s] = issued[s]
<1> USE DEF Started, Goto
<1>1. CASE Crash
  BY <1>1 DEF Crash, StateInv, TypeOK, InFlight
<1>2. ASSUME NEW r \in Requests, Arrive(r)
      PROVE  /\ r # s /\ Started(s)' /\ cid'[s] = cid[s]
             /\ decision'[s] = decision[s] /\ issued'[s] = issued[s]
  BY <1>2 DEF Arrive, CreateConversation, SendMessage, ContinueTask, PostApproval,
              ProcessMessage, Answer, StateInv, TypeOK
<1>3. ASSUME NEW r \in Requests, Resolve(r)
      PROVE  /\ Started(s)' /\ cid'[s] = cid[s] /\ decision'[s] = decision[s]
             /\ issued[s] # Nil => issued'[s] = issued[s]
  <2>1. CASE ProxyNeedsApproval(r)
    BY <2>1 DEF ProxyNeedsApproval, AskApproval, Finish, StateInv, TypeOK, Stage, Working
  <2>2. CASE ~ProxyNeedsApproval(r)
    BY <1>3, <2>2
    DEF Resolve, ApprovalNotFound, ApprovalFound, ExecuteReturns, ExecuteNeedsAuth,
        ProxyReturns, ProxyNeedsAuth, ProxyFails, ForwardRejection, Answer, Finish,
        StateInv, TypeOK
  <2> QED  BY <2>1, <2>2
<1>4. ASSUME NEW r \in Requests, Loop(r)
      PROVE  /\ Started(s)' /\ cid'[s] = cid[s] /\ decision'[s] = decision[s]
             /\ issued[s] # Nil => issued'[s] = issued[s]
  <2>1. issued[r] = Nil /\ pc[r] \in {"llm", "call"}
    BY <1>4 DEF Loop, LLMNotice, LLMText, LLMCapReached, LLMDestructive, LLMHarmless,
                ToolReturns, ToolNeedsAuth, ToolNeedsApproval, AtLLM, StateInv, Stage, Working
  <2> QED
    BY <1>4, <2>1, ZenonT(40)
    DEF Loop, LLMNotice, LLMText, LLMCapReached, LLMDestructive, LLMHarmless, ToolReturns,
        ToolNeedsAuth, ToolNeedsApproval, AskApproval, Finish, StateInv, TypeOK
<1>5. ASSUME NEW r \in Requests, End(r)
      PROVE  /\ Started(s)' /\ cid'[s] = cid[s] /\ decision'[s] = decision[s]
             /\ issued'[s] = issued[s]
  BY <1>5 DEF End, Save, SaveError, Reload, Answer, AfterSave, StateInv, TypeOK
<1>6. CASE UNCHANGED vars
  BY <1>6 DEF vars
<1> QED  BY <1>1, <1>2, <1>3, <1>4, <1>5, <1>6 DEF Next, Proceed

\* A call is authorised when it is made
LEMMA NewCallAuthorised ==
    ASSUME StateInv, [Next]_vars, NEW k \in calls' \ calls
    PROVE  k \in Calls /\ Started(k.by) /\ AuthorisedCall(k)
<1>1. ASSUME NEW r \in Requests, pc[r] \in {"exec", "proxy", "notify"},
             NEW what \in {"run", "approve", "reject"},
             MayRecord(r, what, held[r].tool, held[r].uuid)
                \/ Record(r, what, held[r].tool, held[r].uuid),
             decision[r].approve <=> what # "reject"
      PROVE  k \in Calls /\ Started(k.by) /\ AuthorisedCall(k)
  <2>1. /\ decision[r] \in Decisions /\ held[r] \in Approval
        /\ decision[r].uuid = held[r].uuid /\ issued[held[r].uuid] = held[r]
        /\ held[r] # Nil /\ cid[r] = cid[held[r].uuid]
    BY <1>1 DEF StateInv, TypeOK, Stage, HeldIsIssued, Working
  <2>2. /\ k = [by |-> r, turn |-> iter[r], what |-> what, tool |-> held[r].tool,
                via |-> held[r].uuid]
        /\ iter[r] \in Nat
    BY <1>1 DEF MayRecord, Record, StateInv, TypeOK
  <2>3. held[r].uuid \in Requests /\ held[r].tool \in Tools /\ held[r].uuid # Nil
    BY <2>1, ParametersOK DEF Approval
  <2>4. decision[r] = [uuid |-> held[r].uuid, approve |-> what # "reject"]
    BY <1>1, <2>1 DEF Decisions
  <2> QED  BY <1>1, <2>1, <2>2, <2>3, <2>4 DEF AuthorisedCall, Calls, Started
<1>2. ASSUME NEW r \in Requests, pc[r] = "call",
             MayRecord(r, "run", tool[r], Nil) \/ Record(r, "run", tool[r], Nil)
      PROVE  k \in Calls /\ Started(k.by) /\ AuthorisedCall(k)
  <2>1. tool[r] \in Tools \ Destructive /\ iter[r] \in Nat
    BY <1>2 DEF StateInv, TypeOK, Stage
  <2>2. k = [by |-> r, turn |-> iter[r], what |-> "run", tool |-> tool[r], via |-> Nil]
    BY <1>2 DEF MayRecord, Record
  <2> QED  BY <1>2, <2>1, <2>2 DEF AuthorisedCall, Calls, Started
<1>3. ~ UNCHANGED calls
  OBVIOUS
<1>4. PICK r \in Requests : Resolve(r) \/ Loop(r)
  BY <1>3 DEF Next, vars, Crash, Arrive, CreateConversation, SendMessage, ContinueTask,
              PostApproval, Proceed, End, Save, SaveError, Reload
<1>5. CASE ExecuteReturns(r) \/ ProxyReturns(r) \/ ProxyNeedsApproval(r)
           \/ ProxyNeedsAuth(r) \/ ProxyFails(r)
  <2>1. pc[r] \in {"exec", "proxy"} /\ decision[r].approve
    BY <1>5 DEF ExecuteReturns, ProxyReturns, ProxyNeedsApproval, ProxyNeedsAuth, ProxyFails,
                StateInv, Stage, Working
  <2>2. \E what \in {"run", "approve"} :
            MayRecord(r, what, held[r].tool, held[r].uuid)
              \/ Record(r, what, held[r].tool, held[r].uuid)
    BY <1>5 DEF ExecuteReturns, ProxyReturns, ProxyNeedsApproval, ProxyNeedsAuth, ProxyFails
  <2> QED  BY <1>1, <2>1, <2>2
<1>6. CASE ForwardRejection(r)
  BY <1>1, <1>6 DEF ForwardRejection, StateInv, Stage
<1>7. CASE ToolReturns(r) \/ ToolNeedsAuth(r) \/ ToolNeedsApproval(r)
  BY <1>2, <1>3, <1>7 DEF ToolReturns, ToolNeedsAuth, ToolNeedsApproval
<1> QED
  BY <1>3, <1>4, <1>5, <1>6, <1>7
  DEF Resolve, Loop, ApprovalNotFound, ApprovalFound, ExecuteNeedsAuth, LLMNotice, LLMText,
      LLMCapReached, LLMDestructive, LLMHarmless

\* IInv is inductive
LEMMA IInvStep == IInv /\ [Next]_vars => IInv'
<1> SUFFICES ASSUME IInv, [Next]_vars PROVE IInv'
  OBVIOUS
<1>1. StateInv'
  BY StateInvStep DEF IInv
<1>2. ASSUME NEW k \in calls'
      PROVE  k \in Calls /\ Started(k.by) /\ AuthorisedCall(k)
  <2>1. CASE k \in calls
    BY <2>1 DEF IInv, StateInv, TypeOK, CallsStarted, Authorised, AuthorisedCall
  <2>2. CASE k \notin calls
    BY <2>2, NewCallAuthorised DEF IInv
  <2> QED  BY <2>1, <2>2
<1>3. ASSUME NEW k \in calls'
      PROVE  Started(k.by)' /\ AuthorisedCall(k)'
  <2>1. k.by \in Requests /\ k.via \in Requests \cup {Nil}
    BY <1>2, <1>3 DEF Calls
  <2>2. Started(k.by)' /\ cid'[k.by] = cid[k.by] /\ decision'[k.by] = decision[k.by]
    BY <1>2, <1>3, <2>1, StartedStays DEF IInv
  <2>3. ASSUME k.via # Nil, issued[k.via] # Nil
        PROVE  cid'[k.via] = cid[k.via] /\ issued'[k.via] = issued[k.via]
    <3>1. Started(k.via)
      BY <2>1, <2>3 DEF IInv, StateInv, IssuedIsOwn, Started, Saving, Past
    <3> QED  BY <2>1, <2>3, <3>1, StartedStays DEF IInv
  <2> QED  BY <1>2, <1>3, <2>2, <2>3 DEF AuthorisedCall
<1> QED  BY <1>1, <1>3 DEF IInv, CallsStarted, Authorised, AuthorisedCall

\* No destructive tool runs, and no decision is forwarded, without a client's
\* decision about that very approval: ResolveApproval and processSimpleMessage
\* together, under any interleaving, any lost save and any crash
THEOREM DestructiveCallsAuthorised == Spec => []Authorised
<1>1. Init => IInv
  BY InitStateInv DEF Init, IInv, Authorised, CallsStarted
<1>2. IInv => Authorised
  BY DEF IInv
<1> QED  BY <1>1, <1>2, IInvStep, PTL DEF Spec

-----------------------------------------------------------------------------
(***************************************************************************)
(* NoResurrection.                                                         *)
(***************************************************************************)

\* Only SaveConversation puts a waiting conversation on the disk
LEMMA WaitingConversationIsSaved ==
    ASSUME StateInv, [Next]_vars, NEW c \in Convs,
           Readable(c)', disk'[c] # disk[c], disk'[c].pending # Nil
    PROVE  \E r \in Requests : Saving(r) /\ disk'[c] = mem[r]
<1>1. CASE Crash
  BY <1>1 DEF Crash, DieWhileWriting, Readable
<1>2. ASSUME NEW r \in Requests, NEW d \in Convs, CreateConversation(r, d)
      PROVE  FALSE
  BY <1>2, NewConversation
  DEF CreateConversation, SaveConversation, SaveFails, Readable, StateInv, TypeOK, DiskTypeOK
<1>3. ASSUME NEW r \in Requests, Save(r)
      PROVE  Saving(r) /\ disk'[c] = mem[r]
  BY <1>3 DEF Save, SaveConversation, StateInv, TypeOK, DiskTypeOK
<1>4. ASSUME NEW r \in Requests, SaveError(r)
      PROVE  FALSE
  BY <1>4 DEF SaveError, SaveFails, Readable, StateInv, TypeOK, DiskTypeOK
<1>5. disk' # disk
  OBVIOUS
<1> QED
  BY <1>1, <1>2, <1>3, <1>4, <1>5, ZenonT(40)
  DEF Next, vars, Arrive, SendMessage, ContinueTask, PostApproval, Proceed, Resolve, Loop, End,
      ApprovalNotFound, ApprovalFound, ExecuteReturns, ExecuteNeedsAuth, ProxyReturns,
      ProxyNeedsApproval, ProxyNeedsAuth, ProxyFails, ForwardRejection, LLMNotice, LLMText,
      LLMCapReached, LLMDestructive, LLMHarmless, ToolReturns, ToolNeedsAuth,
      ToolNeedsApproval, Reload

\* An approval comes to the disk with the save of its creator
LEMMA SavedByCreator ==
    ASSUME StateInv, StateInv', [Next]_vars, NEW u \in Requests, ~OnDisk(u), OnDisk(u)'
    PROVE  Saving(u) /\ ~Saving(u)'
<1>1. PICK c \in Convs : c \in FindByApprovalUUID(u)'
  BY DEF OnDisk, FindByApprovalUUID
<1>2. Readable(c)' /\ disk'[c].pending # Nil /\ disk'[c].pending.uuid = u
  BY <1>1 DEF FindByApprovalUUID
<1>3. disk'[c] # disk[c]
  BY <1>2 DEF OnDisk, FindByApprovalUUID, Readable
<1>4. PICK r \in Requests : Saving(r) /\ disk'[c] = mem[r]
  BY <1>2, <1>3, WaitingConversationIsSaved
<1>5. u = r
  <2>1. mem[r].pending = issued[r] /\ issued[r] # Nil
    BY <1>2, <1>4 DEF StateInv, Stage, ApprovalHome
  <2> QED  BY <1>2, <1>4, <2>1 DEF StateInv, IssuedIsOwn
<1>6. ~Saving(u)'
  BY <1>1 DEF StateInv, ApprovalHome, Saving
<1> QED  BY <1>4, <1>5, <1>6

\* An approval that is no longer on the disk never comes back, although requests
\* save copies that are older than its resolution
THEOREM ResolvedStaysResolved == Spec => NoResurrection
<1>1. ASSUME StateInv, StateInv', [Next]_vars
      PROVE  \A u \in Requests : ~OnDisk(u) /\ OnDisk(u)' => Saving(u) /\ ~Saving(u)'
  <2> TAKE u \in Requests
  <2> QED  BY <1>1, SavedByCreator
<1>2. StateInv /\ StateInv' /\ [Next]_vars
        => [\A u \in Requests : ~OnDisk(u) /\ OnDisk(u)' => Saving(u) /\ ~Saving(u)']_vars
  BY <1>1
<1> QED  BY <1>2, StateInvariant, PTL DEF Spec, NoResurrection

-----------------------------------------------------------------------------
(***************************************************************************)
(* LLMSeesResults.                                                         *)
(***************************************************************************)

\* Message m records a tool call of request u
IsCall(m, u) == m.role = "assistant" /\ m.tool # Nil /\ m.by = u

\* Every tool call that u recorded has its result, unless it is a call of t
AllBut(messages, u, t) ==
    \A i \in DOMAIN messages :
        IsCall(messages[i], u) => AnsweredCall(messages, i) \/ messages[i].tool = t

\* The requests that have got as far as their conversation
Begun == {r \in Requests : Started(r)}

\* The messages were written by members of authors
SignedBy(messages, authors) == \A i \in DOMAIN messages : messages[i].by \in authors

\* The transcript that goes with an approval lacks at most the result of its tool.
\* At work, the transcript lacks what the request itself is about to add.
ResultsOf(r) ==
    /\ mem[r] # Nil => SignedBy(mem[r].messages, Begun)
    /\ mem[r] # Nil /\ mem[r].pending # Nil => AllBut(mem[r].messages, r, mem[r].pending.tool)
    /\ pc[r] = "llm" => AllBut(mem[r].messages, r, Nil)
    /\ pc[r] = "call" => AllBut(mem[r].messages, r, tool[r])
    /\ pc[r] \in {"exec", "proxy"} =>
          /\ AllBut(mem[r].messages, r, Nil)
          /\ AllBut(mem[r].messages, held[r].uuid, held[r].tool)
    /\ pc[r] \in {"llm", "call"} /\ held[r] # Nil => AllBut(mem[r].messages, held[r].uuid, Nil)

ResultsOnDisk(c) == Readable(c) =>
    /\ SignedBy(disk[c].messages, Begun)
    /\ disk[c].pending # Nil =>
          AllBut(disk[c].messages, disk[c].pending.uuid, disk[c].pending.tool)

ResultInv ==
    /\ StateInv
    /\ \A r \in Requests : ResultsOf(r)
    /\ \A c \in Convs : ResultsOnDisk(c)

\* A message that is no call of u, or a call of t, leaves the rest answered
LEMMA AppendKeepsAllBut ==
    ASSUME NEW messages \in Seq(Message), NEW m \in Message, NEW u, NEW t,
           AllBut(messages, u, t), IsCall(m, u) => m.tool = t
    PROVE  AllBut(Append(messages, m), u, t)
<1> DEFINE new == Append(messages, m)
<1>1. /\ Len(messages) \in Nat
      /\ DOMAIN messages = 1 .. Len(messages)
      /\ DOMAIN new = 1 .. Len(messages) + 1
      /\ new[Len(messages) + 1] = m
      /\ \A i \in 1 .. Len(messages) : new[i] = messages[i]
  OBVIOUS
<1> HIDE DEF new
<1>2. ASSUME NEW i \in 1 .. Len(messages), IsCall(new[i], u)
      PROVE  AnsweredCall(new, i) \/ new[i].tool = t
  <2>1. AnsweredCall(messages, i) \/ messages[i].tool = t
    BY <1>1, <1>2 DEF AllBut
  <2>2. ASSUME AnsweredCall(messages, i) PROVE AnsweredCall(new, i)
    <3>1. PICK j \in DOMAIN messages :
              j > i /\ messages[j].role = "tool" /\ messages[j].tool = messages[i].tool
      BY <2>2 DEF AnsweredCall
    <3> QED  BY <1>1, <3>1 DEF AnsweredCall
  <2> QED  BY <1>1, <2>1, <2>2
<1>3. \A i \in DOMAIN new : i \in 1 .. Len(messages) \/ new[i] = m
  BY <1>1
<1> QED  BY <1>2, <1>3 DEF AllBut, new

\* The result of t answers every call of t
LEMMA ResultAnswers ==
    ASSUME NEW messages \in Seq(Message), NEW m \in Message, NEW u,
           AllBut(messages, u, m.tool), m.role = "tool"
    PROVE  AllBut(Append(messages, m), u, Nil)
<1> DEFINE new == Append(messages, m)
<1>1. /\ Len(messages) \in Nat
      /\ DOMAIN messages = 1 .. Len(messages)
      /\ DOMAIN new = 1 .. Len(messages) + 1
      /\ new[Len(messages) + 1] = m
      /\ \A i \in 1 .. Len(messages) : new[i] = messages[i]
  OBVIOUS
<1> HIDE DEF new
<1>2. ASSUME NEW i \in 1 .. Len(messages), IsCall(new[i], u)
      PROVE  AnsweredCall(new, i)
  <2>1. AnsweredCall(messages, i) \/ messages[i].tool = m.tool
    BY <1>1, <1>2 DEF AllBut
  <2>2. CASE AnsweredCall(messages, i)
    <3>1. PICK j \in DOMAIN messages :
              j > i /\ messages[j].role = "tool" /\ messages[j].tool = messages[i].tool
      BY <2>2 DEF AnsweredCall
    <3> QED  BY <1>1, <3>1 DEF AnsweredCall
  <2>3. CASE messages[i].tool = m.tool
    <3>1. Len(messages) + 1 \in DOMAIN new /\ Len(messages) + 1 > i
      BY <1>1
    <3> QED  BY <1>1, <2>3, <3>1 DEF AnsweredCall
  <2> QED  BY <2>1, <2>2, <2>3
<1>3. \A i \in DOMAIN new : i \in 1 .. Len(messages) \/ new[i] = m
  BY <1>1
<1> QED  BY <1>2, <1>3 DEF AllBut, IsCall, new

\* A request that has not begun has no call in any transcript
LEMMA NothingUnsigned ==
    ASSUME NEW messages, NEW authors, SignedBy(messages, authors), NEW u, u \notin authors, NEW t
    PROVE  AllBut(messages, u, t)
BY DEF AllBut, SignedBy, IsCall

\* Where every tool call has its result, all but any one have.
LEMMA AllAnswered ==
    ASSUME NEW messages \in Seq(Message), NEW u, AllBut(messages, u, Nil), NEW t
    PROVE  AllBut(messages, u, t)
BY DEF AllBut, IsCall

\* The messages of new are by r, or by the authors of old
AddsOnly(new, old, r) ==
    \A i \in DOMAIN new : new[i].by = r \/ \E j \in DOMAIN old : new[i].by = old[j].by

\* AddMessage adds a message of its author and no other.
LEMMA AppendAdds ==
    ASSUME NEW messages \in Seq(Message), NEW m \in Message
    PROVE  AddsOnly(Append(messages, m), messages, m.by)
<1> DEFINE new == Append(messages, m)
<1>1. /\ DOMAIN messages = 1 .. Len(messages)
      /\ DOMAIN new = 1 .. Len(messages) + 1
      /\ new[Len(messages) + 1] = m
      /\ \A i \in 1 .. Len(messages) : new[i] = messages[i]
      /\ Len(messages) \in Nat
  OBVIOUS
<1> HIDE DEF new
<1>2. \A i \in DOMAIN new : i \in DOMAIN messages \/ i = Len(messages) + 1
  BY <1>1
<1> QED  BY <1>1, <1>2 DEF AddsOnly, new

\* What the Add operations of internal/conversation/conversation.go do to the
\* transcript: text answers nothing, a call wants a result, a result answers it
LEMMA TranscriptFacts ==
    ASSUME NEW conv \in Conversations, NEW r \in Requests,
           NEW role \in {"user", "assistant", "tool"}, NEW t \in Tools
    PROVE  /\ AddsOnly(AddMessage(conv, role, r).messages, conv.messages, r)
           /\ AddsOnly(AddToolCall(conv, t, r).messages, conv.messages, r)
           /\ AddsOnly(AddToolResult(conv, t, r).messages, conv.messages, r)
           /\ \A u, s : AllBut(conv.messages, u, s) =>
                 /\ AllBut(AddMessage(conv, role, r).messages, u, s)
                 /\ u # r \/ s = t => AllBut(AddToolCall(conv, t, r).messages, u, s)
                 /\ s \in {t, Nil} => AllBut(AddToolResult(conv, t, r).messages, u, Nil)
<1> DEFINE text == [role |-> role, tool |-> Nil, by |-> r]
           call == [role |-> "assistant", tool |-> t, by |-> r]
           result == [role |-> "tool", tool |-> t, by |-> r]
<1>1. conv.messages \in Seq(Message)
  BY DEF Conversations
<1>2. text \in Message /\ call \in Message /\ result \in Message
  BY DEF Message
<1>3. /\ AddMessage(conv, role, r).messages = Append(conv.messages, text)
      /\ AddToolCall(conv, t, r).messages = Append(conv.messages, call)
      /\ AddToolResult(conv, t, r).messages = Append(conv.messages, result)
  BY DEF AddMessage, AddToolCall, AddToolResult, Conversations
<1>4. text.by = r /\ call.by = r /\ result.by = r
  OBVIOUS
<1>5. /\ AddsOnly(Append(conv.messages, text), conv.messages, r)
      /\ AddsOnly(Append(conv.messages, call), conv.messages, r)
      /\ AddsOnly(Append(conv.messages, result), conv.messages, r)
  BY <1>1, <1>2, <1>4, AppendAdds
<1>6. ASSUME NEW u, NEW s, AllBut(conv.messages, u, s)
      PROVE  /\ AllBut(Append(conv.messages, text), u, s)
             /\ u # r \/ s = t => AllBut(Append(conv.messages, call), u, s)
             /\ s \in {t, Nil} => AllBut(Append(conv.messages, result), u, Nil)
  <2>1. /\ ~IsCall(text, u)
        /\ IsCall(call, u) => u = r
        /\ call.tool = t /\ result.tool = t /\ result.role = "tool"
    BY DEF IsCall
  <2> HIDE DEF text, call, result
  <2>2. AllBut(Append(conv.messages, text), u, s)
    BY <1>1, <1>2, <1>6, <2>1, AppendKeepsAllBut
  <2>3. u # r \/ s = t => AllBut(Append(conv.messages, call), u, s)
    BY <1>1, <1>2, <1>6, <2>1, AppendKeepsAllBut
  <2>4. s \in {t, Nil} => AllBut(conv.messages, u, t)
    BY <1>1, <1>6, AllAnswered
  <2>5. s \in {t, Nil} => AllBut(Append(conv.messages, result), u, Nil)
    BY <1>1, <1>2, <2>1, <2>4, ResultAnswers
  <2> QED  BY <2>2, <2>3, <2>5
<1> HIDE DEF text, call, result
<1> QED  BY <1>3, <1>5, <1>6

\* Text alone answers nothing and asks nothing
LEMMA TextFacts ==
    ASSUME NEW conv \in Conversations, NEW r \in Requests,
           NEW role \in {"user", "assistant", "tool"}
    PROVE  /\ AddsOnly(AddMessage(conv, role, r).messages, conv.messages, r)
           /\ \A u, s : AllBut(conv.messages, u, s) =>
                 AllBut(AddMessage(conv, role, r).messages, u, s)
<1> DEFINE m == [role |-> role, tool |-> Nil, by |-> r]
<1>1. conv.messages \in Seq(Message)
  BY DEF Conversations
<1>2. m \in Message /\ m.by = r /\ \A u : ~IsCall(m, u)
  BY DEF Message, IsCall
<1>3. AddMessage(conv, role, r).messages = Append(conv.messages, m)
  BY DEF AddMessage, Conversations
<1> HIDE DEF m
<1> QED  BY <1>1, <1>2, <1>3, AppendAdds, AppendKeepsAllBut

\* Whoever has begun stays begun
LEMMA BegunStays ==
    ASSUME StateInv, [Next]_vars
    PROVE  Begun \subseteq Begun'
<1>1. ASSUME NEW s \in Requests, Started(s) PROVE Started(s)'
  BY <1>1, StartedStays
<1> QED  BY <1>1 DEF Begun, Started

\* A step of r keeps what the others know of their results, and the disk takes
\* nothing but a new conversation or r's copy
LEMMA ResultsStep ==
    ASSUME ResultInv, StateInv', [Next]_vars, NEW r \in Requests,
           \A s \in Requests \ {r} :
               mem'[s] = mem[s] /\ pc'[s] = pc[s] /\ held'[s] = held[s] /\ tool'[s] = tool[s],
           ResultsOf(r)',
           \A c \in Convs : Readable(c)' =>
               disk'[c] \in {disk[c], New} \/ (mem[r] # Nil /\ disk'[c] = mem[r])
    PROVE  ResultInv'
<1>1. Begun \subseteq Begun'
  BY BegunStays DEF ResultInv
<1>2. \A messages : SignedBy(messages, Begun) => SignedBy(messages, Begun')
  BY <1>1 DEF SignedBy
<1>4. ASSUME NEW s \in Requests PROVE ResultsOf(s)'
  <2>1. CASE s = r
    BY <2>1
  <2>2. CASE s # r
    BY <1>2, <2>2 DEF ResultInv, ResultsOf
  <2> QED  BY <2>1, <2>2
<1>5. ASSUME NEW c \in Convs PROVE ResultsOnDisk(c)'
  <2> SUFFICES ASSUME Readable(c)' PROVE ResultsOnDisk(c)'
    BY DEF ResultsOnDisk
  <2>1. CASE disk'[c] = disk[c]
    BY <1>2, <2>1 DEF Readable, ResultInv, ResultsOnDisk
  <2>2. CASE disk'[c] = New
    BY <2>2 DEF New, ResultsOnDisk, SignedBy
  <2>3. CASE mem[r] # Nil /\ disk'[c] = mem[r]
    <3>1. mem[r].pending # Nil => mem[r].pending.uuid = r
      BY <2>3 DEF ResultInv, StateInv, ApprovalHome, IssuedIsOwn
    <3> QED  BY <1>2, <2>3, <3>1 DEF ResultInv, ResultsOf, ResultsOnDisk
  <2> QED  BY <2>1, <2>2, <2>3
<1> QED  BY <1>4, <1>5 DEF ResultInv

\* The messages that r adds to a signed transcript are signed
LEMMA SignedStep ==
    ASSUME StateInv, [Next]_vars, NEW r \in Requests, Started(r)',
           NEW old, NEW new, SignedBy(old, Begun), AddsOnly(new, old, r)
    PROVE  SignedBy(new, Begun')
<1>1. Begun \subseteq Begun' /\ r \in Begun'
  BY BegunStays DEF Begun
<1> QED  BY <1>1 DEF AddsOnly, SignedBy

\* A goroutine that drops its copy, or has none, and does not go to work
LEMMA DropStep ==
    ASSUME ResultInv, StateInv', [Next]_vars, NEW r \in Requests,
           NEW l \in PCs \ Working,
           pc' = [pc EXCEPT ![r] = l],
           mem' = [mem EXCEPT ![r] = Nil],
           UNCHANGED <<held, tool>>,
           \A c \in Convs : Readable(c)' =>
               disk'[c] \in {disk[c], New} \/ (mem[r] # Nil /\ disk'[c] = mem[r])
    PROVE  ResultInv'
<1>1. pc'[r] = l /\ mem'[r] = Nil
  BY DEF ResultInv, StateInv, TypeOK
<1>2. ResultsOf(r)'
  BY <1>1 DEF ResultsOf, Working
<1>3. \A s \in Requests \ {r} :
          mem'[s] = mem[s] /\ pc'[s] = pc[s] /\ held'[s] = held[s] /\ tool'[s] = tool[s]
  BY DEF ResultInv, StateInv, TypeOK
<1> QED  BY <1>2, <1>3, ResultsStep

\* A goroutine that goes on with the copy conv
LEMMA GoOnStep ==
    ASSUME ResultInv, StateInv', [Next]_vars, NEW r \in Requests,
           NEW l \in PCs, NEW conv,
           pc' = [pc EXCEPT ![r] = l],
           mem' = [mem EXCEPT ![r] = conv],
           \A s \in Requests \ {r} : held'[s] = held[s] /\ tool'[s] = tool[s],
           SignedBy(conv.messages, Begun'),
           conv.pending # Nil => AllBut(conv.messages, r, conv.pending.tool),
           l = "llm" => AllBut(conv.messages, r, Nil),
           l = "call" => AllBut(conv.messages, r, tool'[r]),
           l \in {"exec", "proxy"} =>
               /\ AllBut(conv.messages, r, Nil)
               /\ AllBut(conv.messages, held'[r].uuid, held'[r].tool),
           l \in {"llm", "call"} /\ held'[r] # Nil => AllBut(conv.messages, held'[r].uuid, Nil),
           \A c \in Convs : Readable(c)' => disk'[c] \in {disk[c], New}
    PROVE  ResultInv'
<1>1. pc'[r] = l /\ mem'[r] = conv
  BY DEF ResultInv, StateInv, TypeOK
<1>2. ResultsOf(r)'
  BY <1>1 DEF ResultsOf
<1>3. \A s \in Requests \ {r} :
          mem'[s] = mem[s] /\ pc'[s] = pc[s] /\ held'[s] = held[s] /\ tool'[s] = tool[s]
  BY DEF ResultInv, StateInv, TypeOK
<1> QED  BY <1>2, <1>3, ResultsStep

\* The transcript of a conversation without calls of r
LEMMA BeginsAnswered ==
    ASSUME ResultInv, [Next]_vars, NEW r \in Requests, ~Started(r), Started(r)',
           NEW conv \in Conversations, SignedBy(conv.messages, Begun)
    PROVE  /\ SignedBy(AddMessage(conv, "user", r).messages, Begun')
           /\ AllBut(AddMessage(conv, "user", r).messages, r, Nil)
<1>1. AddsOnly(AddMessage(conv, "user", r).messages, conv.messages, r)
  BY TextFacts
<1>2. AllBut(conv.messages, r, Nil)
  BY NothingUnsigned DEF Begun
<1> QED  BY <1>1, <1>2, SignedStep, TextFacts DEF ResultInv

\* A request that arrives keeps every tool call answered (SendMessage, ContinueTask,
\* postApproval).
LEMMA ResultsArrive ==
    ASSUME ResultInv, StateInv', [Next]_vars, NEW r \in Requests, Arrive(r)
    PROVE  ResultInv'
<1> USE DEF Goto, envVars
<1>1. pc[r] = "idle" /\ ~Started(r) /\ mem[r] = Nil /\ held[r] = Nil
  BY DEF Arrive, CreateConversation, SendMessage, ContinueTask, PostApproval, Started,
         ResultInv, StateInv, Stage
<1>2. /\ New \in Conversations /\ New.pending = Nil /\ New.status # "waiting_approval"
      /\ SignedBy(New.messages, Begun)
  BY NewConversation DEF New, SignedBy
<1>3. ASSUME NEW conv \in Conversations, SignedBy(conv.messages, Begun), conv.pending = Nil,
             pc' = [pc EXCEPT ![r] = "llm"], mem' = [mem EXCEPT ![r] = AddMessage(conv, "user", r)],
             UNCHANGED <<held, tool>>,
             \A c \in Convs : Readable(c)' => disk'[c] \in {disk[c], New}
      PROVE  ResultInv'
  <2>1. Started(r)'
    BY <1>3 DEF Started, ResultInv, StateInv, TypeOK
  <2>2. AddMessage(conv, "user", r).pending = Nil
    BY <1>3, AddMessageFacts
  <2> QED  BY <1>1, <1>3, <2>1, <2>2, BeginsAnswered, GoOnStep DEF PCs
<1>4. ASSUME NEW c \in Convs, CreateConversation(r, c)
      PROVE  ResultInv'
  <2>1. \A d \in Convs : Readable(d)' => disk'[d] \in {disk[d], New}
    BY <1>4 DEF CreateConversation, SaveConversation, SaveFails, Readable, ResultInv, StateInv,
                TypeOK, DiskTypeOK
  <2>2. CASE mem' = [mem EXCEPT ![r] = Nil] /\ pc' = [pc EXCEPT ![r] = "done"]
    BY <1>4, <2>1, <2>2, DropStep DEF CreateConversation, PCs, Working
  <2>3. CASE /\ mem' = [mem EXCEPT ![r] = AddMessage(New, "user", r)]
             /\ pc' = [pc EXCEPT ![r] = "llm"]
    BY <1>2, <1>3, <1>4, <2>1, <2>3 DEF CreateConversation
  <2>4. ProcessMessage(r, c, New) \/ Answer(r, "created") \/ Answer(r, "error")
    BY <1>4 DEF CreateConversation
  <2>5. CASE ProcessMessage(r, c, New)
    BY <1>2, <2>3, <2>5 DEF ProcessMessage
  <2>6. CASE Answer(r, "created") \/ Answer(r, "error")
    BY <2>2, <2>6 DEF Answer
  <2> QED  BY <2>4, <2>5, <2>6
<1>5. ASSUME NEW c \in Convs, SendMessage(r, c)
      PROVE  ResultInv'
  <2>1. UNCHANGED <<disk, held, tool>>
    BY <1>5 DEF SendMessage
  <2>2. CASE Readable(c) /\ disk[c].status # "waiting_approval"
    <3>1. disk[c] \in Conversations /\ disk[c].pending = Nil /\ SignedBy(disk[c].messages, Begun)
      BY <2>2 DEF ResultInv, ResultsOnDisk, StateInv, StatusTellsPending, Coherent, TypeOK,
                  DiskTypeOK, Readable
    <3> QED  BY <1>3, <1>5, <2>1, <2>2, <3>1 DEF SendMessage, ProcessMessage
  <2>3. CASE Readable(c) /\ disk[c].status = "waiting_approval"
    <3>1. mem' = [mem EXCEPT ![r] = Nil] /\ pc' = [pc EXCEPT ![r] = "reload"]
      BY <1>1, <1>5, <2>3 DEF SendMessage, ProcessMessage, ResultInv, StateInv, TypeOK
    <3> QED  BY <2>1, <3>1, DropStep DEF PCs, Working
  <2>4. CASE ~Readable(c)
    BY <1>5, <2>1, <2>4, DropStep DEF SendMessage, Answer, PCs, Working
  <2> QED  BY <2>2, <2>3, <2>4
<1>6. ASSUME \/ \E c \in Convs, approve \in BOOLEAN : ContinueTask(r, c, approve)
             \/ \E u \in Requests, approve \in BOOLEAN : PostApproval(r, u, approve)
      PROVE  ResultInv'
  <2>1. mem' = [mem EXCEPT ![r] = Nil]
    BY <1>1, <1>6 DEF ContinueTask, PostApproval, ResultInv, StateInv, TypeOK
  <2> QED  BY <1>6, <2>1, DropStep DEF ContinueTask, PostApproval, PCs, Working
<1> QED  BY <1>4, <1>5, <1>6 DEF Arrive

\* A request at work resolves an approval of somebody else
LEMMA HeldOfAnother ==
    ASSUME StateInv, NEW r \in Requests, pc[r] \in Working, held[r] # Nil
    PROVE  held[r].uuid # r /\ held[r].uuid \in Requests /\ held[r].tool \in Tools
BY DEF StateInv, Stage, HeldIsIssued, TypeOK, Approval

\* Finding the pending approval keeps every tool call answered (ResolveApproval).
LEMMA ResultsFound ==
    ASSUME ResultInv, StateInv', [Next]_vars, NEW r \in Requests, NEW c \in Convs,
           ApprovalFound(r, c)
    PROVE  ResultInv'
<1> USE DEF Goto, envVars
<1> DEFINE u == decision[r].uuid
           a == disk[c].pending
           resolved == ResolveApproval(disk[c])
           conv == AddMessage(resolved, "user", r)
           rejected == AddMessage(conv, "assistant", r)
<1>1. /\ pc[r] = "find" /\ ~Started(r)
      /\ Readable(c) /\ a # Nil /\ a.uuid = u
      /\ held' = [held EXCEPT ![r] = a]
      /\ UNCHANGED <<disk, tool>>
  BY DEF ApprovalFound, FindByApprovalUUID, Started
<1>2. /\ disk[c] \in Conversations /\ Coherent(disk[c])
      /\ SignedBy(disk[c].messages, Begun)
      /\ AllBut(disk[c].messages, a.uuid, a.tool)
  BY <1>1 DEF ResultInv, ResultsOnDisk, StateInv, StatusTellsPending, TypeOK, DiskTypeOK, Readable
<1>3. resolved \in Conversations /\ resolved.pending = Nil /\ resolved.messages = disk[c].messages
  BY <1>2, ResolveFacts DEF ResolveApproval, Conversations
<1>4. /\ conv \in Conversations /\ conv.pending = Nil
      /\ AddsOnly(conv.messages, disk[c].messages, r)
      /\ AllBut(conv.messages, a.uuid, a.tool)
  BY <1>2, <1>3, AddMessageFacts, TextFacts
<1>5. /\ held'[r] = a
      /\ \A s \in Requests \ {r} : held'[s] = held[s] /\ tool'[s] = tool[s]
  BY <1>1 DEF ResultInv, StateInv, TypeOK
<1> HIDE DEF resolved
<1>6. CASE decision[r].approve
  <2>1. PICK l \in {"exec", "proxy"} :
            mem' = [mem EXCEPT ![r] = conv] /\ pc' = [pc EXCEPT ![r] = l]
    BY <1>6 DEF ApprovalFound, resolved
  <2>2. Started(r)'
    BY <2>1 DEF Started, ResultInv, StateInv, TypeOK
  <2>3. SignedBy(conv.messages, Begun') /\ AllBut(conv.messages, r, Nil)
    BY <1>1, <1>2, <1>3, <2>2, BeginsAnswered
  <2> HIDE DEF conv
  <2> QED  BY <1>1, <1>4, <1>5, <2>1, <2>3, GoOnStep DEF PCs
<1>7. CASE ~decision[r].approve
  <2>1. mem' = [mem EXCEPT ![r] = rejected] /\ pc' = [pc EXCEPT ![r] = "save"]
    BY <1>7 DEF ApprovalFound, Finish, resolved
  <2>2. Started(r)'
    BY <2>1 DEF Started, ResultInv, StateInv, TypeOK
  <2>3. SignedBy(conv.messages, Begun') /\ r \in Begun'
    BY <1>1, <1>2, <1>3, <2>2, BeginsAnswered DEF Begun
  <2> HIDE DEF conv
  <2>4. rejected.pending = Nil /\ AddsOnly(rejected.messages, conv.messages, r)
    BY <1>4, AddMessageFacts, TextFacts
  <2>5. SignedBy(rejected.messages, Begun')
    BY <2>3, <2>4 DEF AddsOnly, SignedBy
  <2> HIDE DEF rejected
  <2> QED  BY <1>1, <1>5, <2>1, <2>4, <2>5, GoOnStep DEF PCs
<1> QED  BY <1>6, <1>7

\* A request at work keeps its decision: what it goes on with
LEMMA AtWork ==
    ASSUME ResultInv, [Next]_vars, NEW r \in Requests, pc[r] \in Working,
           UNCHANGED <<disk, held>>
    PROVE  /\ mem[r] \in Conversations /\ mem[r].pending = Nil
           /\ mem[r].messages \in Seq(Message)
           /\ held'[r] = held[r]
           /\ \A c \in Convs : Readable(c)' => disk'[c] \in {disk[c], New}
           /\ \A new : AddsOnly(new, mem[r].messages, r) => SignedBy(new, Begun')
           /\ \A s \in Requests \ {r} : held'[s] = held[s]
           /\ Started(r)
<1>1. /\ mem[r] \in Conversations /\ mem[r].pending = Nil /\ Started(r)
      /\ SignedBy(mem[r].messages, Begun)
  BY WorkingCopy DEF ResultInv, ResultsOf, StateInv, Stage, Working, Started
<1>2. r \in Begun /\ Begun \subseteq Begun'
  BY <1>1, BegunStays DEF Begun, ResultInv
<1>3. \A new : AddsOnly(new, mem[r].messages, r) => SignedBy(new, Begun')
  BY <1>1, <1>2 DEF AddsOnly, SignedBy
<1> QED  BY <1>1, <1>3 DEF Conversations

\* A text ends the request's work, whatever the reason
LEMMA ResultsNoted ==
    ASSUME ResultInv, StateInv', [Next]_vars, NEW r \in Requests, pc[r] \in Working,
           NEW l \in {"save", "trySave"}, NEW what,
           Finish(r, AddMessage(mem[r], "assistant", r), l, what),
           UNCHANGED <<disk, tool, held>>
    PROVE  ResultInv'
<1> DEFINE new == AddMessage(mem[r], "assistant", r)
<1>1. new.pending = Nil /\ SignedBy(new.messages, Begun')
  BY AtWork, AddMessageFacts, TextFacts
<1>2. mem' = [mem EXCEPT ![r] = new] /\ pc' = [pc EXCEPT ![r] = l]
  BY DEF Finish, Goto
<1> HIDE DEF new
<1> QED  BY <1>1, <1>2, AtWork, GoOnStep DEF PCs

\* The result of a tool or of an approved action sends the request to the LLM
LEMMA ResultsReturned ==
    ASSUME ResultInv, StateInv', [Next]_vars, NEW r \in Requests, pc[r] \in Working,
           NEW t \in Tools,
           AllBut(mem[r].messages, r, t) \/ AllBut(mem[r].messages, r, Nil),
           held[r] # Nil => \/ AllBut(mem[r].messages, held[r].uuid, t)
                            \/ AllBut(mem[r].messages, held[r].uuid, Nil),
           mem' = [mem EXCEPT ![r] = AddToolResult(@, t, r)],
           pc' = [pc EXCEPT ![r] = "llm"],
           UNCHANGED <<disk, tool, held>>
    PROVE  ResultInv'
<1> DEFINE new == AddToolResult(mem[r], t, r)
<1>1. /\ new.pending = Nil
      /\ SignedBy(new.messages, Begun')
      /\ AllBut(new.messages, r, Nil)
      /\ held[r] # Nil => AllBut(new.messages, held[r].uuid, Nil)
  BY AtWork, AddToolResultFacts, TranscriptFacts
<1>2. mem' = [mem EXCEPT ![r] = new]
  OBVIOUS
<1> HIDE DEF new
<1> QED  BY <1>1, <1>2, AtWork, GoOnStep DEF PCs

\* An approval is asked for the tool whose result is missing
LEMMA ResultsAsked ==
    ASSUME ResultInv, StateInv', [Next]_vars, NEW r \in Requests, pc[r] \in Working,
           NEW t \in Tools, NEW l \in {"save", "trySave"}, NEW isProxy \in BOOLEAN,
           NEW conv \in Conversations, conv.pending = Nil,
           AddsOnly(conv.messages, mem[r].messages, r),
           AllBut(conv.messages, r, t),
           AskApproval(r, conv, l, t, isProxy),
           UNCHANGED <<disk, tool, held>>
    PROVE  ResultInv'
<1> DEFINE a == [uuid |-> r, tool |-> t, remote |-> isProxy]
           asked == SetWaitingApproval(conv, a)
           new == AddMessage(asked, "assistant", r)
<1>1. a \in Approval /\ a.tool = t
  BY DEF Approval
<1>2. mem' = [mem EXCEPT ![r] = new] /\ pc' = [pc EXCEPT ![r] = l]
  BY DEF AskApproval, Finish, Goto
<1> HIDE DEF a
<1>3. asked \in Conversations /\ asked.pending = a /\ asked.messages = conv.messages
  BY <1>1, SetWaitingFacts DEF SetWaitingApproval, Conversations
<1> HIDE DEF asked
<1>4. /\ new.pending = a
      /\ AddsOnly(new.messages, conv.messages, r)
      /\ AllBut(new.messages, r, t)
  BY <1>3, AddMessageFacts, TextFacts
<1> HIDE DEF new
<1>5. AddsOnly(new.messages, mem[r].messages, r)
  BY <1>4 DEF AddsOnly
<1>6. SignedBy(new.messages, Begun')
  BY <1>5, AtWork
<1> QED  BY <1>1, <1>2, <1>4, <1>6, AtWork, GoOnStep DEF PCs

\* Every step of ResolveApproval keeps the results
LEMMA ResultsResolve ==
    ASSUME ResultInv, StateInv', [Next]_vars, NEW r \in Requests, Resolve(r)
    PROVE  ResultInv'
<1> USE DEF Goto, envVars
<1>1. CASE ApprovalNotFound(r) \/ ProxyFails(r) \/ ForwardRejection(r)
  BY <1>1, DropStep DEF ApprovalNotFound, ProxyFails, ForwardRejection, Answer, PCs, Working
<1>2. CASE \E c \in Convs : ApprovalFound(r, c)
  BY <1>2, ResultsFound
<1>3. ASSUME pc[r] \in {"exec", "proxy"}
      PROVE  /\ held[r] # Nil /\ held[r].tool \in Tools
             /\ mem[r] \in Conversations /\ mem[r].pending = Nil
             /\ AllBut(mem[r].messages, r, Nil)
             /\ AllBut(mem[r].messages, held[r].uuid, held[r].tool)
             /\ pc[r] \in Working
  BY <1>3, HeldOfAnother, WorkingCopy DEF ResultInv, ResultsOf, StateInv, Stage, Working
<1>4. CASE ExecuteReturns(r) \/ ProxyReturns(r)
  <2>1. /\ pc[r] \in {"exec", "proxy"}
        /\ mem' = [mem EXCEPT ![r] = AddToolResult(@, held[r].tool, r)]
        /\ pc' = [pc EXCEPT ![r] = "llm"]
        /\ UNCHANGED <<disk, tool, held>>
    BY <1>4 DEF ExecuteReturns, ProxyReturns
  <2> QED  BY <1>3, <2>1, ResultsReturned
<1>5. CASE ExecuteNeedsAuth(r) \/ ProxyNeedsAuth(r)
  BY <1>3, <1>5, ResultsNoted DEF ExecuteNeedsAuth, ProxyNeedsAuth
<1>6. CASE ProxyNeedsApproval(r)
  <2>1. /\ pc[r] \in {"exec", "proxy"}
        /\ AskApproval(r, mem[r], "save", held[r].tool, TRUE)
        /\ UNCHANGED <<disk, tool, held>>
    BY <1>6 DEF ProxyNeedsApproval
  <2>2. AddsOnly(mem[r].messages, mem[r].messages, r)
    BY DEF AddsOnly
  <2>3. AllBut(mem[r].messages, r, held[r].tool)
    BY <1>3, <2>1, AllAnswered, AtWork
  <2> QED  BY <1>3, <2>1, <2>2, <2>3, ResultsAsked
<1> QED  BY <1>1, <1>2, <1>4, <1>5, <1>6 DEF Resolve

\* Every step of processSimpleMessage keeps the results
LEMMA ResultsLoop ==
    ASSUME ResultInv, StateInv', [Next]_vars, NEW r \in Requests, Loop(r)
    PROVE  ResultInv'
<1> USE DEF Goto, envVars
<1>1. pc[r] \in {"llm", "call"} /\ pc[r] \in Working
  BY DEF Loop, LLMNotice, LLMText, LLMCapReached, LLMDestructive, LLMHarmless, ToolReturns,
         ToolNeedsAuth, ToolNeedsApproval, AtLLM, Working
<1>2. /\ mem[r] \in Conversations /\ mem[r].pending = Nil
      /\ held[r] # Nil => /\ held[r].uuid # r
                          /\ AllBut(mem[r].messages, held[r].uuid, Nil)
      /\ pc[r] = "llm" => AllBut(mem[r].messages, r, Nil)
      /\ pc[r] = "call" => tool[r] \in Tools /\ AllBut(mem[r].messages, r, tool[r])
  BY <1>1, WorkingCopy, HeldOfAnother DEF ResultInv, ResultsOf, StateInv, Stage
<1>3. CASE LLMNotice(r) \/ LLMText(r) \/ LLMCapReached(r) \/ ToolNeedsAuth(r)
  BY <1>1, <1>3, ResultsNoted DEF LLMNotice, LLMText, LLMCapReached, ToolNeedsAuth
<1>4. ASSUME NEW t \in Tools, LLMDestructive(r, t)
      PROVE  ResultInv'
  <2> DEFINE conv == AddToolCall(mem[r], t, r)
  <2>1. pc[r] = "llm" /\ AskApproval(r, conv, "trySave", t, FALSE)
        /\ UNCHANGED <<disk, tool, held>>
    BY <1>4 DEF LLMDestructive, AtLLM
  <2>2. /\ conv \in Conversations /\ conv.pending = Nil
        /\ AddsOnly(conv.messages, mem[r].messages, r)
    BY <1>2, AddToolCallFacts, TranscriptFacts
  <2>3. AllBut(mem[r].messages, r, t)
    BY <1>1, <1>2, <2>1, AllAnswered, AtWork
  <2>4. AllBut(conv.messages, r, t)
    BY <1>2, <2>3, TranscriptFacts
  <2> HIDE DEF conv
  <2> QED  BY <1>1, <2>1, <2>2, <2>4, ResultsAsked
<1>5. ASSUME NEW t \in Tools, LLMHarmless(r, t)
      PROVE  ResultInv'
  <2> DEFINE conv == AddToolCall(mem[r], t, r)
  <2>1. /\ pc[r] = "llm" /\ pc' = [pc EXCEPT ![r] = "call"]
        /\ mem' = [mem EXCEPT ![r] = conv]
        /\ tool'[r] = t /\ \A s \in Requests \ {r} : tool'[s] = tool[s]
        /\ UNCHANGED <<disk, held>>
    BY <1>5 DEF LLMHarmless, AtLLM, ResultInv, StateInv, TypeOK
  <2>2. /\ conv.pending = Nil
        /\ AddsOnly(conv.messages, mem[r].messages, r)
    BY <1>2, AddToolCallFacts, TranscriptFacts
  <2>3. AllBut(mem[r].messages, r, t)
    BY <1>1, <1>2, <2>1, AllAnswered, AtWork
  <2>4. /\ AllBut(conv.messages, r, t)
        /\ held[r] # Nil => AllBut(conv.messages, held[r].uuid, Nil)
    BY <1>2, <2>3, TranscriptFacts
  <2> HIDE DEF conv
  <2> QED  BY <1>1, <2>1, <2>2, <2>4, AtWork, GoOnStep DEF PCs
<1>6. CASE ToolReturns(r)
  BY <1>1, <1>2, <1>6, ResultsReturned DEF ToolReturns
<1>7. CASE ToolNeedsApproval(r)
  <2>1. AddsOnly(mem[r].messages, mem[r].messages, r)
    BY DEF AddsOnly
  <2> QED  BY <1>1, <1>2, <1>7, <2>1, ResultsAsked DEF ToolNeedsApproval
<1> QED  BY <1>3, <1>4, <1>5, <1>6, <1>7 DEF Loop

\* The end of a request leaves no copy, and at most its copy on the disk
LEMMA ResultsEnd ==
    ASSUME ResultInv, StateInv', [Next]_vars, NEW r \in Requests, End(r)
    PROVE  ResultInv'
<1> USE DEF Goto, envVars
<1>1. /\ mem' = [mem EXCEPT ![r] = Nil] /\ UNCHANGED <<held, tool>>
      /\ pc' = [pc EXCEPT ![r] = AfterSave(r)] \/ pc' = [pc EXCEPT ![r] = "done"]
  BY DEF End, Save, SaveError, Reload, Answer
<1>2. AfterSave(r) \in PCs \ Working /\ "done" \in PCs \ Working
  BY DEF AfterSave, PCs, Working
<1>3. \A c \in Convs : Readable(c)' =>
          disk'[c] \in {disk[c], New} \/ (mem[r] # Nil /\ disk'[c] = mem[r])
  <2>1. mem[r] # Nil \/ ~Saving(r)
    BY DEF ResultInv, StateInv, Stage
  <2> QED
    BY <2>1 DEF End, Save, SaveError, Reload, SaveConversation, SaveFails, Readable, ResultInv,
                StateInv, TypeOK, DiskTypeOK
<1> QED  BY <1>1, <1>2, <1>3, DropStep

\* Every step of every handler keeps the invariant of the results.
LEMMA ResultInvStep == ResultInv /\ [Next]_vars => ResultInv'
<1> SUFFICES ASSUME ResultInv, [Next]_vars PROVE ResultInv'
  OBVIOUS
<1>1. StateInv'
  BY StateInvStep DEF ResultInv
<1>2. CASE Crash
  <2>1. /\ \A s \in Requests : mem'[s] = Nil /\ pc'[s] \notin Working
        /\ \A c \in Convs : Readable(c)' => disk'[c] = disk[c]
    BY <1>2 DEF Crash, DieWhileWriting, Readable, InFlight, Working
  <2>2. Begun \subseteq Begun'
    BY BegunStays DEF ResultInv
  <2>3. \A s \in Requests : ResultsOf(s)'
    BY <2>1 DEF ResultsOf, Working
  <2>4. \A c \in Convs : ResultsOnDisk(c)'
    BY <2>1, <2>2 DEF ResultInv, ResultsOnDisk, Readable, SignedBy
  <2> QED  BY <1>1, <2>3, <2>4 DEF ResultInv
<1>3. ASSUME NEW r \in Requests, Arrive(r) \/ Proceed(r) PROVE ResultInv'
  BY <1>1, <1>3, ResultsArrive, ResultsResolve, ResultsLoop, ResultsEnd DEF Proceed
<1>4. CASE UNCHANGED vars
  BY <1>1, <1>4 DEF vars, ResultInv, ResultsOf, ResultsOnDisk, Readable, Begun, Started
<1> QED  BY <1>2, <1>3, <1>4 DEF Next

\* Whenever processSimpleMessage asks the LLM, the transcript holds the result of
\* each call of this request and of the call that was approved, also when the
\* approval was saved by one goroutine and resolved by another
THEOREM ResultsReachLLM == Spec => []LLMSeesResults
<1>1. Init => ResultInv
  <2> SUFFICES ASSUME Init PROVE ResultInv
    OBVIOUS
  <2>1. \A r \in Requests : ResultsOf(r)
    BY DEF Init, ResultsOf
  <2>2. \A c \in Convs : ResultsOnDisk(c)
    BY DEF Init, ResultsOnDisk, Readable
  <2> QED  BY <2>1, <2>2, InitStateInv DEF ResultInv
<1>2. ResultInv => LLMSeesResults
  BY DEF ResultInv, ResultsOf, LLMSeesResults, AllBut, IsCall
<1> QED  BY <1>1, <1>2, ResultInvStep, PTL DEF Spec

-----------------------------------------------------------------------------
(***************************************************************************)
(* StepsBounded.                                                           *)
(***************************************************************************)

\* StepsLeft, place by place
LEMMA StepsOfPlaces ==
    ASSUME TypeOK, NEW r \in Requests
    PROVE  /\ StepsLeft(r) \in Nat
           /\ pc[r] = "idle" => StepsLeft(r) = 2 * MaxToolIterations + 6
           /\ pc[r] = "find" => StepsLeft(r) = 2 * MaxToolIterations + 5
           /\ pc[r] \in {"exec", "proxy"} => StepsLeft(r) = 2 * MaxToolIterations + 4
           /\ pc[r] = "llm" => StepsLeft(r) = 2 * (MaxToolIterations - iter[r]) + 3
           /\ pc[r] = "call" => StepsLeft(r) = 2 * (MaxToolIterations - iter[r]) + 4
           /\ pc[r] \in {"save", "trySave"} => StepsLeft(r) = 2
           /\ pc[r] \in {"notify", "reload"} => StepsLeft(r) = 1
           /\ pc[r] \in {"done", "lost"} => StepsLeft(r) = 0
<1>1. /\ pc[r] \in PCs /\ iter[r] \in Nat /\ iter[r] <= MaxToolIterations
      /\ MaxToolIterations \in Nat
  BY ParametersOK DEF TypeOK
<1> QED  BY <1>1 DEF StepsLeft, Saving, PCs

\* The goroutine of r moves on to l and nobody else's moves
Moves(r, l) ==
    /\ pc' = [pc EXCEPT ![r] = l]
    /\ \/ l # "call" /\ UNCHANGED iter
       \/ l = "call" /\ AtLLM(r) /\ iter' = [iter EXCEPT ![r] = @ + 1]

\* The moves that the code has
Forward(r, l) ==
    \/ pc[r] = "idle" /\ l \notin {"idle", "lost"}
    \/ pc[r] = "find" /\ l \notin {"idle", "find", "lost"}
    \/ pc[r] \in {"exec", "proxy"} /\ l \in {"llm", "save", "trySave", "done"}
    \/ pc[r] = "llm" /\ l \in {"call", "save", "trySave"}
    \/ pc[r] = "call" /\ l \in {"llm", "save", "trySave"}
    \/ Saving(r) /\ l \in {"reload", "notify", "done"}
    \/ pc[r] \in {"notify", "reload"} /\ l = "done"

\* Every handler, ResolveApproval and processSimpleMessage only move forward
LEMMA MovesForward ==
    ASSUME StateInv, NEW r \in Requests, Arrive(r) \/ Proceed(r)
    PROVE  \E l \in PCs : Moves(r, l) /\ Forward(r, l)
<1> USE DEF Goto, envVars, Moves, Forward, PCs
<1>1. CASE Arrive(r)
  BY <1>1 DEF Arrive, CreateConversation, SendMessage, ContinueTask, PostApproval,
              ProcessMessage, Answer
<1>2. CASE Resolve(r)
  <2>1. ASSUME NEW c \in Convs, ApprovalFound(r, c)
        PROVE  \E l \in PCs : Moves(r, l) /\ Forward(r, l)
    BY <2>1 DEF ApprovalFound, Finish
  <2> QED
    BY <1>2, <2>1
    DEF Resolve, ApprovalNotFound, ExecuteReturns, ExecuteNeedsAuth, ProxyReturns,
        ProxyNeedsApproval, ProxyNeedsAuth, ProxyFails, ForwardRejection, AskApproval, Answer,
        Finish
<1>3. CASE Loop(r)
  <2>1. CASE LLMNotice(r) \/ LLMText(r) \/ LLMCapReached(r) \/ ToolReturns(r) \/ ToolNeedsAuth(r)
    BY <2>1 DEF LLMNotice, LLMText, LLMCapReached, ToolReturns, ToolNeedsAuth, Finish, AtLLM
  <2>2. CASE ToolNeedsApproval(r)
    BY <2>2 DEF ToolNeedsApproval, AskApproval, Finish
  <2>3. ASSUME NEW t \in Tools, LLMDestructive(r, t)
        PROVE  \E l \in PCs : Moves(r, l) /\ Forward(r, l)
    BY <2>3 DEF LLMDestructive, AskApproval, Finish, AtLLM
  <2>4. ASSUME NEW t \in Tools, LLMHarmless(r, t)
        PROVE  \E l \in PCs : Moves(r, l) /\ Forward(r, l)
    BY <2>4 DEF LLMHarmless, AtLLM
  <2> QED  BY <1>3, <2>1, <2>2, <2>3, <2>4 DEF Loop
<1>4. CASE End(r)
  BY <1>4 DEF End, Save, SaveError, Reload, AfterSave, Answer, Saving
<1> QED  BY <1>1, <1>2, <1>3, <1>4 DEF Proceed

\* A forward move leaves its request fewer steps and the others as many
LEMMA ForwardIsDown ==
    ASSUME TypeOK, TypeOK', NEW r \in Requests, NEW l \in PCs, Moves(r, l), Forward(r, l)
    PROVE  /\ \A s \in Requests : StepsLeft(s)' <= StepsLeft(s)
           /\ StepsLeft(r)' < StepsLeft(r)
<1>0. /\ iter \in [Requests -> 0 .. MaxToolIterations] /\ MaxToolIterations \in Nat
      /\ pc \in [Requests -> PCs]
  BY ParametersOK DEF TypeOK
<1>1. ASSUME NEW s \in Requests \ {r} PROVE StepsLeft(s)' = StepsLeft(s)
  BY <1>0, <1>1 DEF StepsLeft, Saving, Moves
<1>2. pc'[r] = l /\ iter'[r] = IF l = "call" THEN iter[r] + 1 ELSE iter[r]
  BY <1>0 DEF Moves
<1>3. l = "call" => iter[r] < MaxToolIterations
  BY DEF Moves, AtLLM
<1>4. StepsLeft(r)' < StepsLeft(r)
  BY <1>0, <1>2, <1>3 DEF StepsLeft, Saving, Forward, PCs
<1>5. \A s \in Requests : StepsLeft(s) \in Nat /\ StepsLeft(s)' \in Nat
  <2>1. ASSUME NEW s \in Requests PROVE StepsLeft(s)' \in Nat
    <3>1. pc'[s] \in PCs /\ iter'[s] \in Nat /\ iter'[s] <= MaxToolIterations
      BY <1>0 DEF TypeOK
    <3> QED  BY <1>0, <3>1 DEF StepsLeft, Saving, PCs
  <2> QED  BY <2>1, StepsOfPlaces
<1> QED  BY <1>1, <1>4, <1>5

\* Whatever the clients, the LLM, the tools and the remote agents do, every step of
\* the server uses up one of the steps its requests have left: with a goroutine that
\* is scheduled, every accepted request ends
THEOREM RequestsEnd == Spec => StepsBounded
<1>1. ASSUME StateInv, StateInv', [Next]_vars, ~UNCHANGED vars
      PROVE  /\ \A r \in Requests : StepsLeft(r)' <= StepsLeft(r)
             /\ \E r \in Requests : StepsLeft(r)' < StepsLeft(r)
  <2>0. TypeOK /\ TypeOK'
    BY <1>1 DEF StateInv
  <2>1. ASSUME NEW r \in Requests, Arrive(r) \/ Proceed(r)
        PROVE  /\ \A s \in Requests : StepsLeft(s)' <= StepsLeft(s)
               /\ \E s \in Requests : StepsLeft(s)' < StepsLeft(s)
    BY <1>1, <2>0, <2>1, MovesForward, ForwardIsDown
  <2>2. ASSUME Crash
        PROVE  /\ \A s \in Requests : StepsLeft(s)' <= StepsLeft(s)
               /\ \E s \in Requests : StepsLeft(s)' < StepsLeft(s)
    <3>1. pc' = [s \in Requests |-> IF InFlight(s) THEN "lost" ELSE pc[s]] /\ UNCHANGED iter
      BY <2>2 DEF Crash
    <3>2. PICK r \in Requests : InFlight(r)
      BY <2>2 DEF Crash
    <3>3. ASSUME NEW s \in Requests, InFlight(s) PROVE StepsLeft(s)' < StepsLeft(s)
      <4>1. StepsLeft(s)' = 0
        BY <3>1, <3>3 DEF StepsLeft, Saving
      <4>2. pc[s] \in PCs \ {"idle", "done", "lost"} /\ iter[s] \in 0 .. MaxToolIterations
        BY <2>0, <3>3 DEF TypeOK, InFlight
      <4>3. StepsLeft(s) > 0
        BY <2>0, <4>2, StepsOfPlaces, ParametersOK DEF PCs
      <4> QED  BY <4>1, <4>3
    <3>4. ASSUME NEW s \in Requests, ~InFlight(s) PROVE StepsLeft(s)' = StepsLeft(s)
      BY <3>1, <3>4 DEF StepsLeft, Saving
    <3>5. \A s \in Requests : StepsLeft(s) \in Nat
      BY <2>0, StepsOfPlaces
    <3>6. ASSUME NEW s \in Requests PROVE StepsLeft(s)' <= StepsLeft(s)
      <4>1. CASE InFlight(s)
        <5>1. StepsLeft(s)' = 0
          BY <3>1, <4>1 DEF StepsLeft, Saving
        <5> QED  BY <3>5, <5>1
      <4>2. CASE ~InFlight(s)
        BY <3>4, <3>5, <4>2
      <4> QED  BY <4>1, <4>2
    <3> QED  BY <3>2, <3>3, <3>6
  <2> QED  BY <1>1, <2>1, <2>2 DEF Next
<1>2. StateInv /\ StateInv' /\ [Next]_vars
        => [/\ \A r \in Requests : StepsLeft(r)' <= StepsLeft(r)
            /\ \E r \in Requests : StepsLeft(r)' < StepsLeft(r)]_vars
  BY <1>1
<1> QED  BY <1>2, StateInvariant, PTL DEF Spec, StepsBounded

=============================================================================

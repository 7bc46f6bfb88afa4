------------------------- MODULE SerialAgent_proofs -------------------------
(***************************************************************************)
(* Theorems about the conversations of SimpleAgent whose clients take      *)
(* turns (SerialConvs): at most one request is in flight about each, while *)
(* the other conversations are used as they come.  The transcript and the  *)
(* end of a wait hold through failing saves and crashes; the approval gate *)
(* holds until the first of them.                                          *)
(***************************************************************************)
EXTENDS SimpleAgent_proofs, FiniteSetTheorems

-----------------------------------------------------------------------------
(***************************************************************************)
(* A conversation whose clients take turns.                                *)
(***************************************************************************)

\* A decision is about an approval that a client has been able to see
Decided(r) == decision[r] # Nil => issued[decision[r].uuid] # Nil

\* The creator of an approval that is being resolved is done with it
HeldPast(r) == held[r] # Nil => pc[held[r].uuid] \in Past

\* Request r is being served and is about conversation c
About(r, c) == InFlight(r) /\ Concerns(r, c)

\* No two requests in flight are about one conversation whose clients take turns
Alone == \A c \in SerialConvs : \A r, s \in Requests : About(r, c) /\ About(s, c) => r = s

Extends(new, old) == Len(old) <= Len(new) /\ \A i \in 1 .. Len(old) : new[i] = old[i]

\* A copy goes on from what is stored, and the file waits for what its owner resolves
Current(r) == mem[r] # Nil /\ cid[r] \in SerialConvs =>
    /\ Readable(cid[r])
    /\ Extends(mem[r].messages, disk[cid[r]].messages)
    /\ disk[cid[r]].pending = held[r]

DecisionInv == StateInv /\ \A r \in Requests : Decided(r) /\ HeldPast(r)

SerialInv == DecisionInv /\ Alone /\ \A r \in Requests : Current(r)

\* Requests come to their end only, and an arrival is the only way into the server
LEMMA FlightFacts ==
    ASSUME StateInv, [Next]_vars, NEW s \in Requests
    PROVE  /\ pc[s] \in Past => pc'[s] \in Past
           /\ ~InFlight(s) /\ InFlight(s)' => Arrive(s)
           /\ Arrive(s) => \A t \in Requests \ {s} : pc'[t] = pc[t]
<1> USE DEF Goto, InFlight
<1>1. ASSUME Crash
      PROVE  /\ pc[s] \in Past => pc'[s] \in Past
             /\ ~InFlight(s)'
  <2>1. pc'[s] = IF InFlight(s) THEN "lost" ELSE pc[s]
    BY <1>1 DEF Crash
  <2> QED  BY <2>1 DEF Past
<1>2. ASSUME NEW r \in Requests, Arrive(r)
      PROVE  /\ \A t \in Requests \ {r} : pc'[t] = pc[t]
             /\ pc[r] = "idle"
  BY <1>2 DEF Arrive, CreateConversation, SendMessage, ContinueTask, PostApproval,
              ProcessMessage, Answer, StateInv, TypeOK
<1>3. ASSUME NEW r \in Requests, Proceed(r)
      PROVE  /\ \A t \in Requests \ {r} : pc'[t] = pc[t]
             /\ InFlight(r)
             /\ pc[r] = "reload" => pc'[r] = "done"
  <2>1. CASE Resolve(r)
    BY <2>1
    DEF Resolve, ApprovalNotFound, ApprovalFound, ExecuteReturns, ExecuteNeedsAuth, ProxyReturns,
        ProxyNeedsApproval, ProxyNeedsAuth, ProxyFails, ForwardRejection, AskApproval, Answer,
        Finish, StateInv, TypeOK
  <2>2. CASE Loop(r)
    BY <2>2
    DEF Loop, LLMNotice, LLMText, LLMCapReached, LLMDestructive, LLMHarmless, AtLLM, ToolReturns,
        ToolNeedsAuth, ToolNeedsApproval, AskApproval, Finish, StateInv, TypeOK
  <2>3. CASE End(r)
    BY <2>3 DEF End, Save, SaveError, Reload, Saving, Answer, StateInv, TypeOK
  <2> QED  BY <1>3, <2>1, <2>2, <2>3 DEF Proceed
<1>4. CASE UNCHANGED vars
  BY <1>4 DEF vars
<1>5. /\ pc[s] \in Past => pc'[s] \in Past
      /\ ~InFlight(s) /\ InFlight(s)' => Arrive(s)
  BY <1>1, <1>2, <1>3, <1>4 DEF Next, Past
<1> QED  BY <1>2, <1>5

\* The decision comes with the request, what is held and the conversation of a
\* request on its way come with FindConversationByApprovalUUID
LEMMA WhoChanges ==
    ASSUME [Next]_vars
    PROVE  /\ UNCHANGED decision \/ \E r \in Requests : Arrive(r)
           /\ UNCHANGED held \/ \E r \in Requests, c \in Convs : ApprovalFound(r, c)
           /\ \/ UNCHANGED cid
              \/ \E r \in Requests : Arrive(r)
              \/ \E r \in Requests, c \in Convs : ApprovalFound(r, c)
<1>1. CASE Crash
  BY <1>1 DEF Crash
<1>2. ASSUME NEW r \in Requests, Arrive(r) PROVE UNCHANGED held
  BY <1>2 DEF Arrive, CreateConversation, SendMessage, ContinueTask, PostApproval
<1>3. ASSUME NEW r \in Requests, Resolve(r)
      PROVE  /\ UNCHANGED decision
             /\ UNCHANGED <<held, cid>> \/ \E c \in Convs : ApprovalFound(r, c)
  <2>1. ASSUME NEW c \in Convs, ApprovalFound(r, c) PROVE UNCHANGED decision
    BY <2>1 DEF ApprovalFound
  <2>2. CASE ~ \E c \in Convs : ApprovalFound(r, c)
    BY <1>3, <2>2
    DEF Resolve, ApprovalNotFound, ExecuteReturns, ExecuteNeedsAuth, ProxyReturns,
        ProxyNeedsApproval, ProxyNeedsAuth, ProxyFails, ForwardRejection
  <2> QED  BY <2>1, <2>2
<1>4. ASSUME NEW r \in Requests, Loop(r) \/ End(r)
      PROVE  UNCHANGED <<decision, held, cid>>
  BY <1>4
  DEF Loop, LLMNotice, LLMText, LLMCapReached, LLMDestructive, LLMHarmless, ToolReturns,
      ToolNeedsAuth, ToolNeedsApproval, End, Save, SaveError, Reload
<1>5. CASE UNCHANGED vars
  BY <1>5 DEF vars
<1> QED  BY <1>1, <1>2, <1>3, <1>4, <1>5 DEF Next, Proceed

\* A request takes its decision when it arrives, and what ResolveApproval has
\* copied out it keeps to its end
LEMMA DecisionStays ==
    ASSUME StateInv, [Next]_vars, NEW s \in Requests
    PROVE  /\ pc[s] # "idle" => decision'[s] = decision[s]
           /\ held[s] # Nil => held'[s] = held[s]
           /\ Started(s) => held'[s] = held[s]
<1> USE DEF Goto, envVars
<1>1. CASE Crash
  BY <1>1 DEF Crash
<1>2. ASSUME NEW r \in Requests, Arrive(r)
      PROVE  /\ pc[r] = "idle" /\ UNCHANGED held
             /\ s # r => decision'[s] = decision[s]
  BY <1>2 DEF Arrive, CreateConversation, SendMessage, ContinueTask, PostApproval,
              StateInv, TypeOK
<1>3. ASSUME NEW r \in Requests, Resolve(r)
      PROVE  /\ UNCHANGED decision
             /\ held[s] # Nil => held'[s] = held[s]
             /\ Started(s) => held'[s] = held[s]
  BY <1>3
  DEF Resolve, ApprovalNotFound, ApprovalFound, ExecuteReturns, ExecuteNeedsAuth, ProxyReturns,
      ProxyNeedsApproval, ProxyNeedsAuth, ProxyFails, ForwardRejection, StateInv, TypeOK, Stage,
      Started
<1>4. ASSUME NEW r \in Requests, Loop(r) \/ End(r)
      PROVE  UNCHANGED <<decision, held>>
  BY <1>4
  DEF Loop, LLMNotice, LLMText, LLMCapReached, LLMDestructive, LLMHarmless, ToolReturns,
      ToolNeedsAuth, ToolNeedsApproval, End, Save, SaveError, Reload
<1>5. CASE UNCHANGED vars
  BY <1>5 DEF vars
<1> QED  BY <1>1, <1>2, <1>3, <1>4, <1>5 DEF Next, Proceed

\* A request that is being served came with its decision or has its conversation
LEMMA IssuedStays ==
    ASSUME StateInv, [Next]_vars, NEW u \in Requests, issued[u] # Nil
    PROVE  issued'[u] = issued[u] /\ cid'[u] = cid[u]
<1>1. Started(u)
  BY DEF StateInv, IssuedIsOwn, Started, Saving, Past
<1> QED  BY <1>1, StartedStays

\* What a client decides about, and what a request has found, was issued and is
\* past its creator
LEMMA DecisionStep == DecisionInv /\ [Next]_vars => DecisionInv'
<1> SUFFICES ASSUME DecisionInv, [Next]_vars PROVE DecisionInv'
  OBVIOUS
<1>1. StateInv'
  BY StateInvStep DEF DecisionInv
<1>2. ASSUME NEW s \in Requests PROVE Decided(s)'
  <2>1. CASE decision'[s] = decision[s]
    <3>1. decision[s] # Nil => decision[s].uuid \in Requests
      BY DEF DecisionInv, StateInv, TypeOK, Decisions
    <3> QED  BY <2>1, <3>1, IssuedStays DEF DecisionInv, Decided
  <2>2. CASE decision'[s] # decision[s]
    <3>1. pc[s] = "idle"
      BY <2>2, DecisionStays DEF DecisionInv
    <3>2. PICK r \in Requests : Arrive(r)
      BY <2>2, WhoChanges
    <3>3. ASSUME NEW c \in Convs, NEW approve \in BOOLEAN, ContinueTask(r, c, approve)
          PROVE  Decided(s)'
      <4>1. c \in FindByApprovalUUID(disk[c].pending.uuid) /\ disk[c].pending \in Approval
        BY <3>3 DEF ContinueTask, FindByApprovalUUID, Readable, DecisionInv, StateInv, TypeOK,
                    DiskTypeOK, Conversations
      <4>2. issued[disk[c].pending.uuid] # Nil
        BY <3>3, <4>1 DEF DecisionInv, StateInv, ApprovalHome, Approval, ContinueTask
      <4> QED  BY <2>2, <3>3, <4>2 DEF ContinueTask, Decided, DecisionInv, StateInv, TypeOK
    <3>4. ASSUME NEW u \in Requests, NEW approve \in BOOLEAN, PostApproval(r, u, approve)
          PROVE  Decided(s)'
      BY <2>2, <3>4 DEF PostApproval, Decided, DecisionInv, StateInv, TypeOK
    <3> QED
      BY <2>2, <3>2, <3>3, <3>4 DEF Arrive, CreateConversation, SendMessage
  <2> QED  BY <2>1, <2>2
<1>3. ASSUME NEW s \in Requests PROVE HeldPast(s)'
  <2>1. CASE held'[s] = held[s]
    <3>1. held[s] # Nil => held[s].uuid \in Requests
      BY DEF DecisionInv, StateInv, TypeOK, Approval
    <3> QED  BY <2>1, <3>1, FlightFacts DEF DecisionInv, HeldPast
  <2>2. CASE held'[s] # held[s]
    <3>1. PICK c \in Convs : ApprovalFound(s, c)
      BY <2>2, WhoChanges DEF ApprovalFound, DecisionInv, StateInv, TypeOK
    <3>2. /\ held'[s] = disk[c].pending
          /\ c \in FindByApprovalUUID(decision[s].uuid)
          /\ disk[c].pending.uuid = decision[s].uuid
          /\ decision[s].uuid \in Requests
      BY <3>1 DEF ApprovalFound, FindByApprovalUUID, DecisionInv, StateInv, TypeOK, Stage, Decisions
    <3>3. pc[decision[s].uuid] \in Past
      BY <3>2 DEF DecisionInv, StateInv, ApprovalHome, Past
    <3> QED  BY <3>2, <3>3, FlightFacts DEF HeldPast, DecisionInv
  <2> QED  BY <2>1, <2>2
<1> QED  BY <1>1, <1>2, <1>3 DEF DecisionInv

\* A request in flight stays about the conversation it was about
LEMMA AboutStays ==
    ASSUME DecisionInv, [Next]_vars, NEW s \in Requests, NEW c \in Convs, InFlight(s),
           About(s, c)'
    PROVE  About(s, c)
<1>1. decision'[s] = decision[s]
  BY DecisionStays DEF InFlight, DecisionInv
<1>2. decision[s] # Nil =>
         decision[s].uuid \in Requests /\ cid'[decision[s].uuid] = cid[decision[s].uuid]
  BY IssuedStays DEF DecisionInv, Decided, StateInv, TypeOK, Decisions
<1>3. CASE cid'[s] = cid[s]
  BY <1>1, <1>2, <1>3 DEF About, Concerns
<1>4. CASE cid'[s] # cid[s]
  <2>1. pc[s] = "find" /\ ~Started(s)
    BY <1>4, StartedStays DEF InFlight, DecisionInv, Started
  <2>2. PICK d \in Convs : ApprovalFound(s, d)
    BY <1>4, <2>1, WhoChanges
    DEF Arrive, CreateConversation, SendMessage, ContinueTask, PostApproval, ApprovalFound,
        DecisionInv, StateInv, TypeOK
  <2>3. cid'[s] = d /\ d \in FindByApprovalUUID(decision[s].uuid) /\ decision[s] # Nil
    BY <2>2 DEF ApprovalFound, DecisionInv, StateInv, TypeOK, Stage
  <2>4. cid[decision[s].uuid] = d
    BY <1>2, <2>3 DEF DecisionInv, StateInv, ApprovalHome
  <2> QED  BY <1>1, <1>2, <2>3, <2>4 DEF About, Concerns
<1> QED  BY <1>3, <1>4

\* A request of a client that takes turns comes to a conversation nobody is about
LEMMA AboutComes ==
    ASSUME DecisionInv, DecisionInv', [Next]_vars,
           NEW s \in Requests, NEW c \in SerialConvs, Arrive(s), About(s, c)'
    PROVE  \A r \in Requests : ~About(r, c)
<1> USE DEF Goto
<1>0. c \in Convs
  BY ParametersOK
<1>1. pc[s] = "idle" /\ cid[s] = Nil /\ decision[s] = Nil /\ issued[s] = Nil
  BY DEF Arrive, CreateConversation, SendMessage, ContinueTask, PostApproval, DecisionInv,
         StateInv, Stage
<1>2. ASSUME NEW r \in Requests, decision[r] # Nil
      PROVE  decision[r].uuid \in Requests /\ decision[r].uuid # s
  BY <1>1, <1>2 DEF DecisionInv, Decided, StateInv, TypeOK, Decisions
<1>3. ASSUME NEW d \in Convs, CreateConversation(s, d)
      PROVE  \A r \in Requests : ~About(r, c)
  <2>1. c = d
    BY <1>1, <1>3, ParametersOK DEF CreateConversation, About, Concerns, DecisionInv, StateInv, TypeOK
  <2> QED  BY <1>2, <1>3, <2>1 DEF CreateConversation, About, Concerns
<1>4. ASSUME NEW d \in Convs, SendMessage(s, d)
      PROVE  \A r \in Requests : ~About(r, c)
  <2>1. c = d
    BY <1>1, <1>4, ParametersOK DEF SendMessage, About, Concerns, DecisionInv, StateInv, TypeOK
  <2> QED  BY <1>4, <2>1 DEF SendMessage, ClientMaySend, About
<1>5. ASSUME NEW d \in Convs, NEW approve \in BOOLEAN, ContinueTask(s, d, approve)
      PROVE  \A r \in Requests : ~About(r, c)
  <2> DEFINE u == disk[d].pending.uuid
  <2>1. d \in FindByApprovalUUID(u) /\ u \in Requests
    BY <1>5 DEF ContinueTask, FindByApprovalUUID, Readable, DecisionInv, StateInv, TypeOK,
                DiskTypeOK, Conversations, Approval
  <2>2. cid[u] = d
    BY <2>1 DEF DecisionInv, StateInv, ApprovalHome
  <2>3. decision'[s].uuid = u /\ UNCHANGED cid
    BY <1>5 DEF ContinueTask, DecisionInv, StateInv, TypeOK
  <2>4. c = d
    BY <1>1, <2>2, <2>3, ParametersOK DEF About, Concerns
  <2> QED  BY <1>5, <2>4 DEF ContinueTask, ClientMaySend, About
<1>6. ASSUME NEW u \in Requests, NEW approve \in BOOLEAN, PostApproval(s, u, approve)
      PROVE  \A r \in Requests : ~About(r, c)
  <2>1. decision'[s].uuid = u /\ UNCHANGED cid
    BY <1>6 DEF PostApproval, DecisionInv, StateInv, TypeOK
  <2>2. cid[u] = c
    BY <1>1, <2>1, ParametersOK DEF About, Concerns
  <2> QED  BY <1>6, <2>2 DEF PostApproval, ClientMaySend, About
<1> QED  BY <1>3, <1>4, <1>5, <1>6 DEF Arrive

\* Clients that take turns leave each request alone with its conversation
LEMMA AloneStep ==
    ASSUME DecisionInv, DecisionInv', Alone, [Next]_vars
    PROVE  Alone'
<1> SUFFICES ASSUME NEW c \in SerialConvs, NEW r \in Requests, NEW s \in Requests,
                    About(r, c)', About(s, c)'
             PROVE  r = s
  BY DEF Alone
<1>0. c \in Convs
  BY ParametersOK
<1>1. ASSUME NEW q \in Requests, NEW p \in Requests, About(q, c)', About(p, c)', ~InFlight(q)
      PROVE  p = q
  <2>1. InFlight(q)' /\ InFlight(p)'
    BY <1>1 DEF About
  <2>2. Arrive(q)
    BY <1>1, <2>1, FlightFacts DEF DecisionInv
  <2>3. ~About(p, c)
    BY <1>1, <2>2, AboutComes
  <2>4. ~InFlight(p)
    BY <1>0, <1>1, <2>3, AboutStays
  <2> QED  BY <2>1, <2>2, <2>4, FlightFacts DEF DecisionInv, InFlight
<1>2. CASE InFlight(r) /\ InFlight(s)
  BY <1>0, <1>2, AboutStays DEF Alone
<1> QED  BY <1>1, <1>2

\* To extend a transcript is reflexive and transitive, holds of AddMessage, and keeps
\* the old messages as a prefix.
LEMMA ExtendsFacts ==
    ASSUME NEW old \in Seq(Message)
    PROVE  /\ Extends(old, old)
           /\ \A m \in Message : Extends(Append(old, m), old)
           /\ \A mid \in Seq(Message), new \in Seq(Message) :
                 Extends(new, mid) /\ Extends(mid, old) => Extends(new, old)
           /\ \A new \in Seq(Message) : Extends(new, old) => SubSeq(new, 1, Len(old)) = old
<1>1. Len(old) \in Nat
  OBVIOUS
<1>2. Extends(old, old)
  BY <1>1 DEF Extends
<1>3. ASSUME NEW m \in Message PROVE Extends(Append(old, m), old)
  BY DEF Extends
<1>4. ASSUME NEW mid \in Seq(Message), NEW new \in Seq(Message), Extends(new, mid), Extends(mid, old)
      PROVE  Extends(new, old)
  <2>1. Len(mid) \in Nat /\ Len(new) \in Nat
    OBVIOUS
  <2> QED  BY <1>1, <1>4, <2>1 DEF Extends
<1>5. ASSUME NEW new \in Seq(Message), Extends(new, old) PROVE SubSeq(new, 1, Len(old)) = old
  <2>1. Len(new) \in Nat /\ Len(old) <= Len(new)
    BY <1>5 DEF Extends
  <2>2. SubSeq(new, 1, Len(old)) = [i \in 1 .. Len(old) |-> new[i]]
    BY <1>1, <2>1
  <2>3. old = [i \in 1 .. Len(old) |-> old[i]]
    OBVIOUS
  <2> QED  BY <1>5, <2>2, <2>3 DEF Extends
<1> QED  BY <1>2, <1>3, <1>4, <1>5

\* The Add operations only append
LEMMA AddingExtends ==
    ASSUME NEW conv \in Conversations, NEW r \in Requests,
           NEW role \in {"user", "assistant", "tool"}
    PROVE  /\ Extends(AddMessage(conv, role, r).messages, conv.messages)
           /\ \A t \in Tools : /\ Extends(AddToolCall(conv, t, r).messages, conv.messages)
                               /\ Extends(AddToolResult(conv, t, r).messages, conv.messages)
<1>1. conv.messages \in Seq(Message)
  BY DEF Conversations
<1>2. Extends(AddMessage(conv, role, r).messages, conv.messages)
  <2> DEFINE m == [role |-> role, tool |-> Nil, by |-> r]
  <2>1. m \in Message
    BY DEF Message
  <2>2. AddMessage(conv, role, r).messages = Append(conv.messages, m)
    BY DEF AddMessage, Conversations
  <2> HIDE DEF m
  <2> QED  BY <1>1, <2>1, <2>2, ExtendsFacts
<1>3. ASSUME NEW t \in Tools PROVE Extends(AddToolCall(conv, t, r).messages, conv.messages)
  <2> DEFINE m == [role |-> "assistant", tool |-> t, by |-> r]
  <2>1. m \in Message
    BY DEF Message
  <2>2. AddToolCall(conv, t, r).messages = Append(conv.messages, m)
    BY DEF AddToolCall, Conversations
  <2> HIDE DEF m
  <2> QED  BY <1>1, <2>1, <2>2, ExtendsFacts
<1>4. ASSUME NEW t \in Tools PROVE Extends(AddToolResult(conv, t, r).messages, conv.messages)
  <2> DEFINE m == [role |-> "tool", tool |-> t, by |-> r]
  <2>1. m \in Message
    BY DEF Message
  <2>2. AddToolResult(conv, t, r).messages = Append(conv.messages, m)
    BY DEF AddToolResult, Conversations
  <2> HIDE DEF m
  <2> QED  BY <1>1, <2>1, <2>2, ExtendsFacts
<1> QED  BY <1>2, <1>3, <1>4

\* A file changes when its conversation is created, or when a request about it
\* saves its copy or fails to
LEMMA WhoWrites ==
    ASSUME StateInv, [Next]_vars, NEW c \in Convs, disk'[c] # disk[c]
    PROVE  \/ \E s \in Requests : CreateConversation(s, c) /\ disk'[c] \in {New, Torn}
           \/ \E s \in Requests : /\ Saving(s) /\ cid[s] = c /\ ~Saving(s)' /\ mem'[s] = Nil
                                  /\ (Save(s) /\ disk'[c] = mem[s]) \/ disk'[c] = Torn
<1> USE DEF Goto
<1>1. CASE Crash
  <2>1. PICK torn \in SUBSET {cid[r] : r \in {s \in Requests : Saving(s)}} :
            disk' = [d \in Convs |-> IF d \in torn THEN Torn ELSE disk[d]]
    BY <1>1 DEF Crash, DieWhileWriting
  <2>2. c \in torn /\ disk'[c] = Torn
    BY <2>1 DEF StateInv, TypeOK, DiskTypeOK
  <2>3. PICK s \in Requests : Saving(s) /\ cid[s] = c
    BY <2>1, <2>2
  <2>4. ~Saving(s)' /\ mem'[s] = Nil
    BY <1>1 DEF Crash, Saving, InFlight
  <2> QED  BY <2>2, <2>3, <2>4
<1>2. ASSUME NEW s \in Requests, NEW d \in Convs, CreateConversation(s, d)
      PROVE  CreateConversation(s, c) /\ disk'[c] \in {New, Torn}
  BY <1>2 DEF CreateConversation, SaveConversation, SaveFails, StateInv, TypeOK, DiskTypeOK
<1>3. ASSUME NEW s \in Requests, Save(s)
      PROVE  /\ Saving(s) /\ cid[s] = c /\ ~Saving(s)' /\ mem'[s] = Nil
             /\ disk'[c] = mem[s]
  BY <1>3 DEF Save, SaveConversation, AfterSave, Saving, StateInv, TypeOK, DiskTypeOK
<1>4. ASSUME NEW s \in Requests, SaveError(s)
      PROVE  /\ Saving(s) /\ cid[s] = c /\ ~Saving(s)' /\ mem'[s] = Nil
             /\ disk'[c] = Torn
  BY <1>4 DEF SaveError, SaveFails, Answer, AfterSave, Saving, StateInv, TypeOK, DiskTypeOK
<1>5. ASSUME NEW s \in Requests, Reload(s) PROVE FALSE
  BY <1>5 DEF Reload
<1>6. ASSUME NEW s \in Requests, Arrive(s), ~ \E d \in Convs : CreateConversation(s, d)
      PROVE  FALSE
  BY <1>6 DEF Arrive, SendMessage, ContinueTask, PostApproval
<1>7. ASSUME NEW s \in Requests, Resolve(s) \/ Loop(s) PROVE FALSE
  BY <1>7
  DEF Resolve, ApprovalNotFound, ApprovalFound, ExecuteReturns, ExecuteNeedsAuth, ProxyReturns,
      ProxyNeedsApproval, ProxyNeedsAuth, ProxyFails, ForwardRejection, Loop, LLMNotice,
      LLMText, LLMCapReached, LLMDestructive, LLMHarmless, ToolReturns, ToolNeedsAuth,
      ToolNeedsApproval
<1> QED
  BY <1>1, <1>2, <1>3, <1>4, <1>5, <1>6, <1>7 DEF Next, vars, Proceed, End

\* A copy is read from the store, or a request at work adds to its own
LEMMA WhoCopies ==
    ASSUME StateInv, [Next]_vars, NEW r \in Requests, mem'[r] # mem[r], mem'[r] # Nil
    PROVE  \/ \E c \in Convs : /\ CreateConversation(r, c)
                               /\ disk'[c] = New /\ mem'[r] = AddMessage(New, "user", r)
           \/ \E c \in Convs : /\ SendMessage(r, c)
                               /\ Readable(c) /\ disk[c].status # "waiting_approval"
                               /\ mem'[r] = AddMessage(disk[c], "user", r)
           \/ \E c \in Convs : ApprovalFound(r, c)
           \/ /\ UNCHANGED <<disk, held, cid>>
              /\ mem[r] \in Conversations /\ mem'[r] \in Conversations
              /\ Extends(mem'[r].messages, mem[r].messages)
<1> USE DEF Goto, envVars
<1>1. StateInv'
  BY StateInvStep
<1>2. mem'[r] \in Conversations
  BY <1>1 DEF StateInv, TypeOK
<1>3. ~Crash /\ ~UNCHANGED vars
  BY DEF Crash, vars
<1>4. PICK s \in Requests : Arrive(s) \/ Resolve(s) \/ Loop(s) \/ End(s)
  BY <1>3 DEF Next, Proceed
<1>5. CASE Arrive(s)
  <2>1. ASSUME NEW c \in Convs, CreateConversation(s, c)
        PROVE  s = r /\ disk'[c] = New /\ mem'[r] = AddMessage(New, "user", r)
    <3>1. UNCHANGED faults => disk'[c] = New
      BY <2>1, ParametersOK DEF CreateConversation, SaveConversation, StateInv, TypeOK, DiskTypeOK
    <3>2. \/ mem' = [mem EXCEPT ![s] = AddMessage(New, "user", s)] /\ UNCHANGED faults
          \/ mem' = [mem EXCEPT ![s] = Nil]
      BY <2>1 DEF CreateConversation, ProcessMessage, Answer, New
    <3> QED  BY <3>1, <3>2 DEF StateInv, TypeOK
  <2>2. ASSUME NEW c \in Convs, SendMessage(s, c)
        PROVE  /\ s = r /\ Readable(c) /\ disk[c].status # "waiting_approval"
               /\ mem'[r] = AddMessage(disk[c], "user", r)
    BY <2>2 DEF SendMessage, ProcessMessage, Answer, StateInv, TypeOK
  <2> QED  BY <1>5, <2>1, <2>2 DEF Arrive, ContinueTask, PostApproval
<1>6. CASE End(s)
  BY <1>6 DEF End, Save, SaveError, Reload, Answer, StateInv, TypeOK
<1>7. CASE Resolve(s) \/ Loop(s)
  <2>1. ASSUME NEW c \in Convs, ApprovalFound(s, c) PROVE s = r
    BY <2>1 DEF ApprovalFound, Finish, StateInv, TypeOK
  <2>2. CASE ApprovalNotFound(s) \/ ProxyFails(s) \/ ForwardRejection(s)
    BY <2>2 DEF ApprovalNotFound, ProxyFails, ForwardRejection, Answer, StateInv, TypeOK
  <2>3. ASSUME pc[s] \in Working
        PROVE  mem[s] \in Conversations /\ mem[s].messages \in Seq(Message)
    BY <2>3, WorkingCopy DEF StateInv, Stage, Conversations, Working
  <2>4. ASSUME pc[s] \in Working, NEW conv,
               mem' = [mem EXCEPT ![s] = conv],
               Extends(conv.messages, mem[s].messages),
               UNCHANGED <<disk, held, cid>>
        PROVE  /\ UNCHANGED <<disk, held, cid>>
               /\ mem[r] \in Conversations /\ mem'[r] \in Conversations
               /\ Extends(mem'[r].messages, mem[r].messages)
    BY <1>2, <2>3, <2>4 DEF StateInv, TypeOK
  <2>5. ASSUME pc[s] \in Working, NEW conv \in Conversations, NEW l, NEW t \in Tools, NEW isProxy \in BOOLEAN,
               AskApproval(s, conv, l, t, isProxy),
               conv = mem[s] \/ Extends(conv.messages, mem[s].messages),
               UNCHANGED <<disk, held, cid>>
        PROVE  /\ UNCHANGED <<disk, held, cid>>
               /\ mem[r] \in Conversations /\ mem'[r] \in Conversations
               /\ Extends(mem'[r].messages, mem[r].messages)
    <3> DEFINE a == [uuid |-> s, tool |-> t, remote |-> isProxy]
               asked == SetWaitingApproval(conv, a)
               new == AddMessage(asked, "assistant", s)
    <3>1. a \in Approval
      BY DEF Approval
    <3>2. mem' = [mem EXCEPT ![s] = new]
      BY <2>5 DEF AskApproval, Finish
    <3> HIDE DEF a
    <3>3. asked \in Conversations /\ asked.messages = conv.messages
      BY <3>1, SetWaitingFacts DEF SetWaitingApproval, Conversations
    <3> HIDE DEF asked
    <3>4. new \in Conversations /\ Extends(new.messages, conv.messages)
      BY <3>3, AddMessageFacts, AddingExtends
    <3> HIDE DEF new
    <3>5. /\ new.messages \in Seq(Message) /\ conv.messages \in Seq(Message)
          /\ Extends(conv.messages, mem[s].messages)
      BY <2>3, <2>5, <3>4, ExtendsFacts DEF Conversations
    <3>6. Extends(new.messages, mem[s].messages)
      BY <2>3, <2>5, <3>4, <3>5, ExtendsFacts
    <3> QED  BY <2>4, <2>5, <3>2, <3>6
  <2>6. CASE \/ ExecuteReturns(s) \/ ProxyReturns(s) \/ ToolReturns(s)
    <3>1. PICK t \in Tools : /\ pc[s] \in Working /\ UNCHANGED <<disk, held, cid>>
                             /\ mem' = [mem EXCEPT ![s] = AddToolResult(@, t, s)]
      BY <2>6 DEF ExecuteReturns, ProxyReturns, ToolReturns, StateInv, TypeOK, Stage, Working, Approval
    <3> QED  BY <2>3, <2>4, <3>1, AddingExtends
  <2>7. CASE \/ ExecuteNeedsAuth(s) \/ ProxyNeedsAuth(s) \/ ToolNeedsAuth(s)
             \/ LLMNotice(s) \/ LLMText(s) \/ LLMCapReached(s)
    <3>1. /\ pc[s] \in Working /\ UNCHANGED <<disk, held, cid>>
          /\ mem' = [mem EXCEPT ![s] = AddMessage(mem[s], "assistant", s)]
      BY <2>7 DEF ExecuteNeedsAuth, ProxyNeedsAuth, ToolNeedsAuth, LLMNotice, LLMText,
                  LLMCapReached, AtLLM, Finish, Working
    <3> QED  BY <2>3, <2>4, <3>1, AddingExtends
  <2>8. CASE \E t \in Tools : LLMHarmless(s, t)
    BY <2>3, <2>4, <2>8, AddingExtends DEF LLMHarmless, AtLLM, Working
  <2>9. CASE \E t \in Tools : LLMDestructive(s, t)
    BY <2>3, <2>5, <2>9, AddingExtends, AddToolCallFacts DEF LLMDestructive, AtLLM, Working
  <2>10. CASE ProxyNeedsApproval(s) \/ ToolNeedsApproval(s)
    <3>1. PICK t \in Tools, l \in {"save", "trySave"} :
              /\ pc[s] \in Working /\ UNCHANGED <<disk, held, cid>>
              /\ AskApproval(s, mem[s], l, t, TRUE)
      BY <2>10 DEF ProxyNeedsApproval, ToolNeedsApproval, StateInv, TypeOK, Stage, Working, Approval
    <3> QED  BY <2>3, <2>5, <3>1
  <2> QED  BY <1>7, <2>1, <2>2, <2>6, <2>7, <2>8, <2>9, <2>10 DEF Resolve, Loop
<1> QED  BY <1>4, <1>5, <1>6, <1>7

\* What a request knows of its conversation stays true while it is alone with it
LEMMA CurrentStep ==
    ASSUME SerialInv, StateInv', [Next]_vars, NEW r \in Requests
    PROVE  Current(r)'
<1> SUFFICES ASSUME mem'[r] # Nil, cid'[r] \in SerialConvs PROVE Current(r)'
  BY DEF Current
<1>0. StateInv /\ DecisionInv
  BY DEF SerialInv, DecisionInv
<1>1. CASE mem'[r] = mem[r]
  <2>1. Started(r) /\ InFlight(r)
    BY <1>0, <1>1 DEF StateInv, Stage, Started, InFlight, Past
  <2>2. cid'[r] = cid[r] /\ held'[r] = held[r]
    BY <1>0, <2>1, StartedStays, DecisionStays
  <2>3. cid[r] \in Convs /\ About(r, cid[r])
    <3>1. Readable(cid[r]) /\ pc[r] \in Working \cup {"save", "trySave"}
      BY <1>0, <1>1, <2>2 DEF SerialInv, Current, StateInv, TypeOK, PCs, Stage, Past, Working
    <3>2. cid[r] # Nil
      BY <1>0, <3>1 DEF StateInv, Stage, Saving
    <3> QED  BY <1>0, <2>1, <3>2 DEF StateInv, TypeOK, About, Concerns
  <2>4. disk'[cid[r]] = disk[cid[r]]
    <3> SUFFICES ASSUME disk'[cid[r]] # disk[cid[r]] PROVE FALSE
      OBVIOUS
    <3>1. ASSUME NEW s \in Requests, CreateConversation(s, cid[r]) PROVE FALSE
      BY <3>1 DEF CreateConversation
    <3>2. PICK s \in Requests : Saving(s) /\ cid[s] = cid[r] /\ mem'[s] = Nil
      BY <1>0, <2>3, <3>1, WhoWrites
    <3>3. About(s, cid[r])
      BY <3>2 DEF About, Concerns, Saving, InFlight
    <3> QED  BY <2>2, <2>3, <3>2, <3>3 DEF SerialInv, Alone
  <2> QED  BY <1>1, <2>2, <2>4 DEF SerialInv, Current, Readable
<1>2. CASE mem'[r] # mem[r]
  <2>1. ASSUME NEW c \in Convs, CreateConversation(r, c), disk'[c] = New,
               mem'[r] = AddMessage(New, "user", r)
        PROVE  Current(r)'
    <3>1. cid'[r] = c /\ held'[r] = Nil
      BY <1>0, <2>1 DEF CreateConversation, StateInv, TypeOK, Stage
    <3>2. Extends(mem'[r].messages, New.messages)
      BY <2>1, NewConversation, AddingExtends
    <3> QED  BY <2>1, <3>1, <3>2, NewConversation, DistinctContents DEF Current, Readable
  <2>2. ASSUME NEW c \in Convs, SendMessage(r, c), Readable(c),
               disk[c].status # "waiting_approval", mem'[r] = AddMessage(disk[c], "user", r)
        PROVE  Current(r)'
    <3>1. cid'[r] = c /\ held'[r] = Nil /\ UNCHANGED disk
      BY <1>0, <2>2 DEF SendMessage, StateInv, TypeOK, Stage
    <3>2. disk[c] \in Conversations /\ disk[c].pending = Nil
      BY <1>0, <2>2 DEF StateInv, StatusTellsPending, Coherent, TypeOK, DiskTypeOK, Readable
    <3>3. Extends(mem'[r].messages, disk[c].messages)
      BY <2>2, <3>2, AddingExtends
    <3> QED  BY <2>2, <3>1, <3>2, <3>3 DEF Current, Readable
  <2>3. ASSUME NEW c \in Convs, ApprovalFound(r, c)
        PROVE  Current(r)'
    <3> DEFINE resolved == ResolveApproval(disk[c])
               conv == AddMessage(resolved, "user", r)
    <3>1. cid'[r] = c /\ held'[r] = disk[c].pending /\ UNCHANGED disk /\ Readable(c)
      BY <1>0, <2>3 DEF ApprovalFound, FindByApprovalUUID, StateInv, TypeOK
    <3>2. disk[c] \in Conversations /\ Coherent(disk[c])
      BY <1>0, <3>1 DEF StateInv, StatusTellsPending, TypeOK, DiskTypeOK, Readable
    <3>3. resolved \in Conversations /\ resolved.messages = disk[c].messages
      BY <3>2, ResolveFacts DEF ResolveApproval, Conversations
    <3>4. mem'[r] = conv \/ mem'[r] = AddMessage(conv, "assistant", r)
      BY <1>0, <2>3 DEF ApprovalFound, Finish, StateInv, TypeOK
    <3> HIDE DEF resolved
    <3>5. conv \in Conversations /\ Extends(conv.messages, disk[c].messages)
      BY <3>3, AddMessageFacts, AddingExtends
    <3> HIDE DEF conv
    <3>6. /\ AddMessage(conv, "assistant", r) \in Conversations
          /\ Extends(AddMessage(conv, "assistant", r).messages, conv.messages)
      BY <3>5, AddMessageFacts, AddingExtends
    <3>7. Extends(mem'[r].messages, disk[c].messages)
      BY <3>2, <3>4, <3>5, <3>6, ExtendsFacts DEF Conversations
    <3> QED  BY <3>1, <3>7 DEF Current, Readable
  <2>4. ASSUME UNCHANGED <<disk, held, cid>>, mem[r] \in Conversations, mem'[r] \in Conversations,
               Extends(mem'[r].messages, mem[r].messages)
        PROVE  Current(r)'
    <3>1. mem[r] # Nil
      BY <2>4, DistinctContents
    <3>2. /\ Readable(cid[r]) /\ Extends(mem[r].messages, disk[cid[r]].messages)
          /\ disk[cid[r]].pending = held[r]
      BY <2>4, <3>1 DEF SerialInv, Current
    <3>3. disk[cid[r]] \in Conversations
      <4>1. cid[r] # Nil
        BY <1>0, <3>1 DEF StateInv, TypeOK, PCs, Stage, Saving, Past, Working
      <4> QED  BY <1>0, <3>2, <4>1 DEF StateInv, TypeOK, DiskTypeOK, Readable
    <3>4. Extends(mem'[r].messages, disk[cid[r]].messages)
      BY <2>4, <3>2, <3>3, ExtendsFacts DEF Conversations
    <3> QED  BY <2>4, <3>2, <3>4 DEF Current, Readable
  <2> QED  BY <1>0, <1>2, <2>1, <2>2, <2>3, <2>4, WhoCopies
<1> QED  BY <1>1, <1>2

\* Every handler's step keeps the serial invariant.
LEMMA SerialStep == SerialInv /\ [Next]_vars => SerialInv'
<1> SUFFICES ASSUME SerialInv, [Next]_vars PROVE SerialInv'
  OBVIOUS
<1>1. DecisionInv'
  BY DecisionStep DEF SerialInv
<1>2. StateInv'
  BY <1>1 DEF DecisionInv
<1> QED  BY <1>1, <1>2, AloneStep, CurrentStep DEF SerialInv

\* The serial invariant holds before the first request.
LEMMA InitSerial == Init => SerialInv
<1> SUFFICES ASSUME Init PROVE SerialInv
  OBVIOUS
<1>1. DecisionInv
  BY InitStateInv DEF Init, DecisionInv, Decided, HeldPast
<1>2. Alone /\ \A r \in Requests : Current(r)
  BY DEF Init, Alone, About, InFlight, Current
<1> QED  BY <1>1, <1>2 DEF SerialInv

\* Where its clients wait for their answer, a request is alone with its conversation
\* and works on what is stored
LEMMA SerialInvariant == Spec => []SerialInv
<1>1. SerialInv /\ [Next]_vars => SerialInv'
  BY SerialStep
<1> QED  BY <1>1, InitSerial, PTL DEF Spec

\* Where clients wait for their answer, nothing but the end of a request that found
\* the approval takes it off the disk, also when a save fails or the process dies
THEOREM WaitEndsByResolution == Spec => OnlyResolutionEndsWait
<1>1. ASSUME SerialInv, [Next]_vars, NEW u \in Requests, cid[u] \in SerialConvs,
             OnDisk(u), ~OnDisk(u)'
      PROVE  \E r \in Requests : held[r] # Nil /\ held[r].uuid = u /\ Saving(r) /\ ~Saving(r)'
  <2>1. PICK c \in Convs : c \in FindByApprovalUUID(u)
    BY <1>1 DEF OnDisk, FindByApprovalUUID
  <2>2. Readable(c) /\ disk[c].pending # Nil /\ disk[c].pending.uuid = u
    BY <2>1 DEF FindByApprovalUUID
  <2>c. c = cid[u]
    BY <1>1, <2>1 DEF SerialInv, DecisionInv, StateInv, ApprovalHome
  <2>3. disk'[c] # disk[c]
    BY <1>1, <2>2 DEF OnDisk, FindByApprovalUUID, Readable
  <2>4. ASSUME NEW s \in Requests PROVE ~CreateConversation(s, c)
    BY <2>2 DEF CreateConversation, Readable
  <2>5. PICK s \in Requests : Saving(s) /\ cid[s] = c /\ ~Saving(s)'
    BY <1>1, <2>3, <2>4, WhoWrites DEF SerialInv, DecisionInv
  <2>6. mem[s] # Nil
    BY <1>1, <2>5 DEF SerialInv, DecisionInv, StateInv, Stage
  <2> QED  BY <1>1, <2>c, <2>2, <2>5, <2>6 DEF SerialInv, Current
<1>2. SerialInv /\ [Next]_vars
        => [\A u \in Requests : cid[u] \in SerialConvs /\ OnDisk(u) /\ ~OnDisk(u)' =>
               \E r \in Requests : /\ held[r] # Nil /\ held[r].uuid = u
                                   /\ Saving(r) /\ ~Saving(r)']_vars
  BY <1>1
<1> QED  BY <1>2, SerialInvariant, PTL DEF Spec, OnlyResolutionEndsWait

\* Where clients wait for their answer, no save loses a message that is stored
THEOREM TranscriptsGrow == Spec => TranscriptGrows
<1>1. ASSUME SerialInv, [Next]_vars, NEW c \in SerialConvs, Readable(c), Readable(c)'
      PROVE  /\ Len(disk[c].messages) <= Len(disk'[c].messages)
             /\ SubSeq(disk'[c].messages, 1, Len(disk[c].messages)) = disk[c].messages
  <2>0. StateInv /\ c \in Convs
    BY <1>1, ParametersOK DEF SerialInv, DecisionInv
  <2>1. disk[c].messages \in Seq(Message)
    BY <1>1, <2>0 DEF StateInv, TypeOK, DiskTypeOK, Readable, Conversations
  <2>2. disk'[c].messages \in Seq(Message) /\ Extends(disk'[c].messages, disk[c].messages)
    <3>1. CASE disk'[c] = disk[c]
      BY <2>1, <3>1, ExtendsFacts
    <3>2. CASE disk'[c] # disk[c]
      <4>1. ASSUME NEW s \in Requests PROVE ~CreateConversation(s, c)
        BY <1>1 DEF CreateConversation, Readable
      <4>2. PICK s \in Requests : Saving(s) /\ cid[s] = c /\ disk'[c] = mem[s]
        BY <1>1, <2>0, <3>2, <4>1, WhoWrites DEF Readable
      <4>3. mem[s] # Nil /\ mem[s] \in Conversations
        BY <2>0, <4>2 DEF StateInv, Stage, TypeOK
      <4> QED  BY <1>1, <4>2, <4>3 DEF SerialInv, Current, Conversations
    <3> QED  BY <3>1, <3>2
  <2> QED  BY <2>1, <2>2, ExtendsFacts DEF Extends
<1>2. SerialInv /\ [Next]_vars
        => [\A c \in SerialConvs : Readable(c) /\ Readable(c)' =>
               LET old == disk[c].messages
                   new == disk'[c].messages
               IN  Len(old) <= Len(new) /\ SubSeq(new, 1, Len(old)) = old]_vars
  BY <1>1
<1> QED  BY <1>2, SerialInvariant, PTL DEF Spec, TranscriptGrows

-----------------------------------------------------------------------------
(***************************************************************************)
(* The approval gate.                                                      *)
(***************************************************************************)

RunsOf(u) == {k \in calls : k.what = "run" /\ k.via = u}

\* A call on behalf of an approval is made by a request that has found it
CallsHeld == \A k \in calls : k.via # Nil => held[k.by] # Nil /\ held[k.by].uuid = k.via

\* The approval a request has created is in its copy until the save, and a request
\* that decides about one has no conversation to read again
LocalFacts(r) ==
    /\ Saving(r) /\ issued[r] # Nil => mem[r].pending # Nil
    /\ pc[r] = "reload" => decision[r] = Nil

\* No save has failed and the process has not died
Unharmed == faults = 0 /\ crashes = 0

\* While an approval can still be found, only requests that resolve it have run its tool
RanOnce == Unharmed => \A u \in Requests : \A k \in RunsOf(u) :
    \/ ~OnDisk(u)
    \/ /\ pc[k.by] \in {"llm", "call", "save", "trySave"}
       /\ held[k.by] # Nil /\ held[k.by].uuid = u /\ decision[k.by].approve

GateInv ==
    /\ SerialInv
    /\ calls \subseteq Calls
    /\ CallsHeld
    /\ \A r \in Requests : LocalFacts(r)
    /\ RanOnce

\* A run on behalf of an approval is made by the request in "exec"
LEMMA WhoRuns ==
    ASSUME StateInv, [Next]_vars, NEW k \in calls' \ calls
    PROVE  /\ k.by \in Requests
           /\ k.via # Nil => held[k.by] # Nil /\ held[k.by].uuid = k.via
           /\ k.via # Nil /\ k.what = "run" => ExecuteReturns(k.by)
<1> USE DEF MayRecord, Record
<1>1. PICK r \in Requests : Resolve(r) \/ Loop(r)
  BY DEF Next, vars, Crash, Arrive, CreateConversation, SendMessage, ContinueTask,
              PostApproval, Proceed, End, Save, SaveError, Reload
<1>2. ASSUME pc[r] \in {"exec", "proxy", "notify"} PROVE held[r] # Nil
  BY <1>2 DEF StateInv, Stage, Working
<1>3. CASE ExecuteReturns(r)
  <2>1. k.by = r /\ k.via = held[r].uuid
    BY <1>3 DEF ExecuteReturns
  <2> QED  BY <1>2, <1>3, <2>1 DEF ExecuteReturns
<1>4. CASE \/ ProxyReturns(r) \/ ProxyNeedsApproval(r)
           \/ ProxyNeedsAuth(r) \/ ProxyFails(r) \/ ForwardRejection(r)
  <2>1. PICK what \in {"approve", "reject"} :
            k = [by |-> r, turn |-> iter[r], what |-> what, tool |-> held[r].tool, via |-> held[r].uuid]
    BY <1>4 DEF ProxyReturns, ProxyNeedsApproval, ProxyNeedsAuth, ProxyFails, ForwardRejection
  <2>2. pc[r] \in {"exec", "proxy", "notify"}
    BY <1>4 DEF ProxyReturns, ProxyNeedsApproval, ProxyNeedsAuth, ProxyFails, ForwardRejection
  <2> QED  BY <1>2, <2>1, <2>2
<1>5. CASE ToolReturns(r) \/ ToolNeedsAuth(r) \/ ToolNeedsApproval(r)
  <2>1. k = [by |-> r, turn |-> iter[r], what |-> "run", tool |-> tool[r], via |-> Nil]
    BY <1>5 DEF ToolReturns, ToolNeedsAuth, ToolNeedsApproval
  <2> QED  BY <2>1
<1> QED
  BY <1>1, <1>3, <1>4, <1>5
  DEF Resolve, Loop, ApprovalNotFound, ApprovalFound, ExecuteNeedsAuth, LLMNotice, LLMText,
      LLMCapReached, LLMDestructive, LLMHarmless

\* An approval is created by a request at work, in its copy
LEMMA WhoAsks ==
    ASSUME StateInv, [Next]_vars, NEW r \in Requests, issued'[r] # issued[r]
    PROVE  /\ pc[r] \in Working
           /\ \E conv \in Conversations, t \in Tools, l \in {"save", "trySave"}, isProxy \in BOOLEAN :
                 AskApproval(r, conv, l, t, isProxy)
<1> USE DEF envVars
<1>1. PICK s \in Requests : \/ ProxyNeedsApproval(s) \/ ToolNeedsApproval(s)
                            \/ \E t \in Tools : LLMDestructive(s, t)
  BY DEF Next, vars, Crash, Arrive, CreateConversation, SendMessage, ContinueTask, PostApproval,
         Proceed, Resolve, ApprovalNotFound, ApprovalFound, ExecuteReturns, ExecuteNeedsAuth,
         ProxyReturns, ProxyNeedsAuth, ProxyFails, ForwardRejection, Loop,
         LLMNotice, LLMText, LLMCapReached, LLMHarmless, ToolReturns, ToolNeedsAuth,
         End, Save, SaveError, Reload
<1>2. s = r
  BY <1>1 DEF ProxyNeedsApproval, ToolNeedsApproval, LLMDestructive, AskApproval, StateInv, TypeOK
<1>3. pc[r] \in Working /\ mem[r] \in Conversations
  BY <1>1, <1>2, WorkingCopy
  DEF ProxyNeedsApproval, ToolNeedsApproval, LLMDestructive, AtLLM, Working, StateInv, Stage
<1>4. /\ pc[r] = "call" => tool[r] \in Tools
      /\ pc[r] = "proxy" => held[r].tool \in Tools
  BY DEF StateInv, Stage, TypeOK, Approval, Working
<1> QED
  BY <1>1, <1>2, <1>3, <1>4, AddToolCallFacts
  DEF ProxyNeedsApproval, ToolNeedsApproval, LLMDestructive

\* A request has no conversation to read again if it came with a decision, and
\* the copy it saves holds the approval it has created
LEMMA LocalFactsStep ==
    ASSUME StateInv, StateInv', [Next]_vars, NEW r \in Requests, LocalFacts(r)
    PROVE  LocalFacts(r)'
<1> USE DEF Goto, envVars
<1> SUFFICES ASSUME ~ UNCHANGED <<pc[r], mem[r], issued[r], decision[r]>>
             PROVE  LocalFacts(r)'
  BY DEF LocalFacts, Saving
<1>1. CASE Crash
  BY <1>1 DEF Crash, LocalFacts, Saving, InFlight
<1>2. CASE UNCHANGED vars
  BY <1>2 DEF vars
<1>3. ASSUME NEW s \in Requests, Arrive(s) PROVE LocalFacts(r)'
  <2>1. s = r /\ pc[r] = "idle" /\ decision[r] = Nil /\ issued[r] = Nil /\ issued' = issued
    BY <1>3 DEF Arrive, CreateConversation, SendMessage, ContinueTask, PostApproval,
                ProcessMessage, Answer, StateInv, TypeOK, Stage
  <2>2. pc'[r] = "reload" => decision' = decision
    BY <1>3, <2>1 DEF Arrive, CreateConversation, SendMessage, ContinueTask, PostApproval,
                StateInv, TypeOK
  <2> QED  BY <2>1, <2>2 DEF LocalFacts
<1>4. ASSUME NEW s \in Requests, End(s) PROVE LocalFacts(r)'
  <2>1. /\ s = r /\ decision' = decision
        /\ pc'[r] \in {AfterSave(r), "done"}
    BY <1>4 DEF End, Save, SaveError, Reload, Answer, StateInv, TypeOK
  <2> QED  BY <2>1 DEF LocalFacts, Saving, AfterSave
<1>5. ASSUME NEW s \in Requests, Resolve(s) \/ Loop(s) PROVE LocalFacts(r)'
  <2>1. s = r /\ issued[r] = Nil /\ pc'[r] # "reload"
    <3>1. CASE Resolve(s)
      BY <3>1
      DEF Resolve, ApprovalNotFound, ApprovalFound, ExecuteReturns, ExecuteNeedsAuth,
          ProxyReturns, ProxyNeedsApproval, ProxyNeedsAuth, ProxyFails, ForwardRejection,
          AskApproval, Answer, Finish, StateInv, TypeOK, Stage, Working
    <3>2. CASE Loop(s)
      <4>1. pc[s] \in {"llm", "call"} /\ issued[s] = Nil
        BY <3>2
        DEF Loop, LLMNotice, LLMText, LLMCapReached, LLMDestructive, LLMHarmless, ToolReturns,
            ToolNeedsAuth, ToolNeedsApproval, AtLLM, StateInv, Stage, Working
      <4>2. CASE LLMNotice(s) \/ LLMText(s) \/ LLMCapReached(s) \/ ToolReturns(s) \/ ToolNeedsAuth(s)
        BY <4>1, <4>2
        DEF LLMNotice, LLMText, LLMCapReached, ToolReturns, ToolNeedsAuth, Finish, StateInv, TypeOK
      <4>3. CASE ToolNeedsApproval(s)
        BY <4>1, <4>3 DEF ToolNeedsApproval, AskApproval, Finish, StateInv, TypeOK
      <4>4. ASSUME NEW t \in Tools, LLMDestructive(s, t) PROVE s = r /\ pc'[s] # "reload"
        BY <4>1, <4>4 DEF LLMDestructive, AskApproval, Finish, StateInv, TypeOK
      <4>5. ASSUME NEW t \in Tools, LLMHarmless(s, t) PROVE s = r /\ pc'[s] # "reload"
        BY <4>1, <4>5 DEF LLMHarmless, StateInv, TypeOK
      <4> QED  BY <3>2, <4>1, <4>2, <4>3, <4>4, <4>5 DEF Loop
    <3> QED  BY <1>5, <3>1, <3>2
  <2>2. CASE issued'[r] = Nil
    BY <2>1, <2>2 DEF LocalFacts
  <2>3. CASE issued'[r] # Nil
    <3>1. PICK conv \in Conversations, t \in Tools, l \in {"save", "trySave"}, isProxy \in BOOLEAN :
              AskApproval(r, conv, l, t, isProxy)
      BY <2>1, <2>3, WhoAsks
    <3> DEFINE a == [uuid |-> r, tool |-> t, remote |-> isProxy]
               asked == SetWaitingApproval(conv, a)
    <3>2. a \in Approval
      BY DEF Approval
    <3>3. mem'[r] = AddMessage(asked, "assistant", r)
      BY <3>1 DEF AskApproval, Finish, StateInv, TypeOK
    <3> HIDE DEF a
    <3>4. asked \in Conversations /\ asked.pending = a /\ a # Nil
      BY <3>2, SetWaitingFacts, DistinctContents
    <3> HIDE DEF asked
    <3>5. mem'[r].pending # Nil
      <4>1. AddMessage(asked, "assistant", r).pending = asked.pending
        BY <3>4, AddMessageFacts
      <4> QED  BY <3>3, <3>4, <4>1
    <3> QED  BY <2>1, <3>5 DEF LocalFacts
  <2> QED  BY <2>2, <2>3
<1> QED  BY <1>1, <1>2, <1>3, <1>4, <1>5 DEF Next, Proceed

\* processSimpleMessage works away from the store, up to the save
LEMMA LoopGoes ==
    ASSUME NEW s \in Requests, Loop(s)
    PROVE  /\ pc[s] \in {"llm", "call"}
           /\ UNCHANGED <<disk, held, decision, cid>>
           /\ \E l \in {"llm", "call", "save", "trySave"} : pc' = [pc EXCEPT ![s] = l]
<1> USE DEF Goto
<1>1. CASE LLMNotice(s) \/ LLMText(s) \/ LLMCapReached(s) \/ ToolReturns(s) \/ ToolNeedsAuth(s)
  BY <1>1 DEF LLMNotice, LLMText, LLMCapReached, ToolReturns, ToolNeedsAuth, Finish, AtLLM
<1>2. CASE ToolNeedsApproval(s)
  BY <1>2 DEF ToolNeedsApproval, AskApproval, Finish
<1>3. ASSUME NEW t \in Tools, LLMDestructive(s, t) \/ LLMHarmless(s, t)
      PROVE  /\ pc[s] \in {"llm", "call"}
             /\ UNCHANGED <<disk, held, decision, cid>>
             /\ \E l \in {"llm", "call", "save", "trySave"} : pc' = [pc EXCEPT ![s] = l]
  BY <1>3 DEF LLMDestructive, LLMHarmless, AskApproval, Finish, AtLLM
<1> QED  BY <1>1, <1>2, <1>3 DEF Loop

\* What has gone wrong is remembered
LEMMA StillUnharmed ==
    ASSUME StateInv, [Next]_vars, Unharmed'
    PROVE  /\ Unharmed /\ faults' = faults
           /\ ~Crash /\ \A r \in Requests : ~SaveError(r)
<1>0. faults \in Nat /\ crashes \in Nat
  BY ParametersOK DEF StateInv, TypeOK
<1> USE DEF envVars, Unharmed
<1>1. ~Crash
  BY <1>0 DEF Crash
<1>2. ASSUME NEW r \in Requests PROVE ~SaveError(r)
  BY <1>0 DEF SaveError
<1>3. ASSUME NEW r \in Requests, Arrive(r) PROVE UNCHANGED <<faults, crashes>>
  BY <1>0, <1>3 DEF Arrive, CreateConversation, SendMessage, ContinueTask, PostApproval
<1>4. ASSUME NEW r \in Requests, Proceed(r) PROVE UNCHANGED <<faults, crashes>>
  BY <1>2, <1>4
  DEF Proceed, Resolve, ApprovalNotFound, ApprovalFound, ExecuteReturns, ExecuteNeedsAuth,
      ProxyReturns, ProxyNeedsApproval, ProxyNeedsAuth, ProxyFails, ForwardRejection, Loop,
      LLMNotice, LLMText, LLMCapReached, LLMDestructive, LLMHarmless, ToolReturns,
      ToolNeedsAuth, ToolNeedsApproval, End, Save, Reload
<1> QED  BY <1>1, <1>2, <1>3, <1>4 DEF Next, vars

\* Without faults, a request that is past its run goes on to its save
LEMMA NextAfterRun ==
    ASSUME StateInv, [Next]_vars, Unharmed',
           NEW r \in Requests, pc[r] \in {"llm", "call", "save", "trySave"}
    PROVE  pc'[r] \in {"llm", "call", "save", "trySave"} \/ Save(r)
<1> USE DEF Goto
<1>1. ~Crash
  BY StillUnharmed
<1>2. CASE UNCHANGED vars
  BY <1>2 DEF vars
<1>3. ASSUME NEW s \in Requests, Arrive(s) PROVE pc'[r] = pc[r]
  BY <1>3 DEF Arrive, CreateConversation, SendMessage, ContinueTask, PostApproval,
              ProcessMessage, Answer, StateInv, TypeOK
<1>4. ASSUME NEW s \in Requests, Resolve(s) PROVE pc'[r] = pc[r]
  <2>1. s # r
    BY <1>4
    DEF Resolve, ApprovalNotFound, ApprovalFound, ExecuteReturns, ExecuteNeedsAuth, ProxyReturns,
        ProxyNeedsApproval, ProxyNeedsAuth, ProxyFails, ForwardRejection
  <2>2. \A q \in Requests \ {s} : pc'[q] = pc[q]
    BY <1>4
    DEF Resolve, ApprovalNotFound, ApprovalFound, ExecuteReturns, ExecuteNeedsAuth, ProxyReturns,
        ProxyNeedsApproval, ProxyNeedsAuth, ProxyFails, ForwardRejection, AskApproval, Answer,
        Finish, StateInv, TypeOK
  <2> QED  BY <2>1, <2>2
<1>5. ASSUME NEW s \in Requests, Loop(s) PROVE pc'[r] \in {"llm", "call", "save", "trySave"}
  BY <1>5, LoopGoes DEF StateInv, TypeOK
<1>6. ASSUME NEW s \in Requests, End(s) PROVE pc'[r] = pc[r] \/ Save(r)
  <2>1. ~SaveError(s)
    BY StillUnharmed
  <2>2. CASE Save(s)
    BY <2>2 DEF Save, StateInv, TypeOK
  <2>3. CASE Reload(s)
    BY <2>3 DEF Reload, Answer, StateInv, TypeOK
  <2> QED  BY <1>6, <2>1, <2>2, <2>3 DEF End
<1> QED  BY <1>1, <1>2, <1>3, <1>4, <1>5, <1>6 DEF Next, Proceed

\* A request at its save still holds what its conversation waits for
LEMMA HeldOnDisk ==
    ASSUME SerialInv, NEW r \in Requests, mem[r] # Nil, held[r] # Nil, cid[r] \in SerialConvs
    PROVE  /\ cid[r] \in FindByApprovalUUID(held[r].uuid) /\ OnDisk(held[r].uuid)
           /\ cid[r] \in Convs /\ cid[r] = cid[held[r].uuid]
           /\ held[r].uuid \in Requests /\ pc[held[r].uuid] \in Past
           /\ About(r, cid[r])
<1>1. cid[r] \in Convs /\ cid[r] = cid[held[r].uuid] /\ held[r].uuid \in Requests
  BY DEF SerialInv, DecisionInv, StateInv, HeldIsIssued, TypeOK, Approval
<1>2. Readable(cid[r]) /\ disk[cid[r]].pending = held[r]
  BY DEF SerialInv, Current
<1>3. InFlight(r)
  BY DEF SerialInv, DecisionInv, StateInv, TypeOK, PCs, Stage, Past, InFlight
<1> QED  BY <1>1, <1>2, <1>3 DEF FindByApprovalUUID, OnDisk, About, Concerns, SerialInv, DecisionInv, HeldPast

\* The save of a request that resolved an approval takes it off the disk
LEMMA SaveSettles ==
    ASSUME SerialInv, StateInv', NEW r \in Requests, NEW u \in Requests,
           Save(r), held[r] # Nil, held[r].uuid = u
    PROVE  ~OnDisk(u)'
<1>1. mem[r] # Nil /\ Saving(r)
  BY DEF Save, SerialInv, DecisionInv, StateInv, Stage
<1>2. pc[u] \in Past /\ cid[r] = cid[u] /\ cid[r] \in Convs
  BY <1>1 DEF SerialInv, DecisionInv, HeldPast, StateInv, HeldIsIssued, TypeOK
<1>3. ASSUME NEW c \in Convs, c \in FindByApprovalUUID(u)' PROVE FALSE
  <2>1. c = cid[r]
    BY <1>2, <1>3 DEF StateInv, ApprovalHome, Save
  <2>2. disk'[c] = mem[r]
    BY <2>1 DEF Save, SaveConversation, SerialInv, DecisionInv, StateInv, TypeOK, DiskTypeOK
  <2>3. mem[r].pending # Nil /\ mem[r].pending.uuid = u
    BY <1>3, <2>2 DEF FindByApprovalUUID
  <2>4. u = r
    BY <1>1, <2>3 DEF SerialInv, DecisionInv, StateInv, ApprovalHome, IssuedIsOwn
  <2> QED  BY <1>1, <1>2, <2>4 DEF Past, Saving
<1> QED  BY <1>3 DEF OnDisk, FindByApprovalUUID

\* Without faults, the tool of an approval that can still be found runs no more
\* than once, and only in the request that resolves it
LEMMA RanOnceStep ==
    ASSUME GateInv, SerialInv', [Next]_vars
    PROVE  RanOnce'
<1>0. StateInv /\ StateInv' /\ SerialInv
  BY DEF GateInv, SerialInv, DecisionInv
<1> SUFFICES ASSUME Unharmed', NEW u \in Requests, NEW k \in calls', k.what = "run", k.via = u
             PROVE  \/ ~OnDisk(u)'
                    \/ /\ pc'[k.by] \in {"llm", "call", "save", "trySave"}
                       /\ held'[k.by] # Nil /\ held'[k.by].uuid = u /\ decision'[k.by].approve
  BY DEF RanOnce, RunsOf
<1>1. u # Nil /\ Unharmed
  BY <1>0, ParametersOK, StillUnharmed
<1>2. CASE k \notin calls
  <2>1. k.by \in Requests /\ held[k.by] # Nil /\ held[k.by].uuid = u /\ ExecuteReturns(k.by)
    BY <1>0, <1>1, <1>2, WhoRuns
  <2>2. decision[k.by].approve /\ pc'[k.by] = "llm" /\ UNCHANGED <<held, decision>>
    BY <1>0, <2>1 DEF ExecuteReturns, Goto, StateInv, TypeOK, Stage, Working
  <2> QED  BY <2>1, <2>2
<1>3. CASE k \in calls
  <2> DEFINE r == k.by
  <2>1. r \in Requests /\ held[r] # Nil /\ held[r].uuid = u
    BY <1>1, <1>3 DEF GateInv, CallsHeld, Calls
  <2>2. pc[u] \in Past
    BY <2>1 DEF GateInv, SerialInv, DecisionInv, HeldPast
  <2>3. CASE ~OnDisk(u)
    BY <1>0, <2>2, <2>3, SavedByCreator DEF Saving, Past
  <2>4. CASE OnDisk(u)
    <3>1. pc[r] \in {"llm", "call", "save", "trySave"} /\ decision[r].approve
      BY <1>1, <1>3, <2>4 DEF GateInv, RanOnce, RunsOf
    <3>2. held'[r] = held[r] /\ decision'[r] = decision[r]
      <4>1. pc[r] # "idle"
        BY <3>1
      <4> HIDE DEF r
      <4> QED  BY <1>0, <2>1, <4>1, DecisionStays
    <3>3. CASE Save(r)
      BY <1>0, <2>1, <3>3, SaveSettles
    <3> QED  BY <1>0, <2>1, <3>1, <3>2, <3>3, NextAfterRun
  <2> QED  BY <2>3, <2>4
<1> QED  BY <1>2, <1>3

\* GateInv is inductive
LEMMA GateStep ==
    ASSUME GateInv, [Next]_vars
    PROVE  GateInv'
<1>1. SerialInv' /\ StateInv /\ StateInv'
  BY SerialStep DEF GateInv, SerialInv, DecisionInv
<1>2. calls' \subseteq Calls
  BY <1>1 DEF StateInv, TypeOK
<1>3. CallsHeld'
  <2> SUFFICES ASSUME NEW k \in calls', k.via # Nil
               PROVE  held'[k.by] # Nil /\ held'[k.by].uuid = k.via
    BY DEF CallsHeld
  <2>1. k.by \in Requests /\ held[k.by] # Nil /\ held[k.by].uuid = k.via
    BY <1>1, WhoRuns DEF GateInv, CallsHeld, Calls
  <2> QED  BY <1>1, <2>1, DecisionStays
<1>4. \A r \in Requests : LocalFacts(r)'
  BY <1>1, LocalFactsStep DEF GateInv
<1>5. RanOnce'
  BY <1>1, RanOnceStep
<1> QED  BY <1>1, <1>2, <1>3, <1>4, <1>5 DEF GateInv

-----------------------------------------------------------------------------
(***************************************************************************)
(* The refinement of ApprovalGate.                                         *)
(***************************************************************************)

\* Request r is resolving the approval u
Resolves(r, u) ==
    held[r] # Nil /\ held[r].uuid = u /\ InFlight(r) /\ decision[r].approve /\ pc[r] # "notify"

\* Approval u has been issued and its creator is past it
Closed(u) == issued[u] # Nil /\ pc[u] \in Past

Stand(u) ==
    IF \E r \in Requests : Resolves(r, u) THEN "approved"
    ELSE IF OnDisk(u) THEN "pending"
    ELSE IF Closed(u) THEN "closed"
    ELSE "none"

\* Only the approvals of conversations whose clients take turns are at the gate
Phase(u) == IF cid[u] \in SerialConvs THEN Stand(u) ELSE "none"

\* An approval's phase at the gate, now and after a step.
LEMMA PhaseFacts ==
    ASSUME NEW u \in Requests
    PROVE  gatePhase[u] = Phase(u) /\ gatePhase'[u] = Phase(u)'
BY DEF gatePhase, Phase, Stand, Resolving, Resolves, Closed, Past

\* An approval that has not been issued stands nowhere
LEMMA StandsNowhere ==
    ASSUME StateInv, NEW u \in Requests, issued[u] = Nil
    PROVE  Stand(u) = "none"
<1>1. \A r \in Requests : ~Resolves(r, u)
  BY DEF StateInv, HeldIsIssued, Resolves
<1>2. ~OnDisk(u)
  BY DEF StateInv, ApprovalHome, OnDisk, FindByApprovalUUID
<1> QED  BY <1>1, <1>2 DEF Stand, Closed

\* An approval is in one conversation from its issue on, and before it is at no gate
LEMMA StandTellsPhase ==
    ASSUME StateInv, [Next]_vars, NEW u \in Requests, Stand(u)' = Stand(u)
    PROVE  Phase(u)' = Phase(u)
<1>1. CASE issued[u] # Nil
  BY <1>1, IssuedStays DEF Phase
<1>2. CASE issued[u] = Nil
  BY <1>2, StandsNowhere DEF Phase
<1> QED  BY <1>1, <1>2

\* A step that changes no phase
LEMMA NoPhaseChanges ==
    ASSUME \A u \in Requests : Phase(u)' = Phase(u)
    PROVE  gatePhase' = gatePhase
<1>1. \A u \in Requests : gatePhase'[u] = gatePhase[u]
  BY PhaseFacts
<1> QED  BY <1>1 DEF gatePhase

\* A step that moves one phase
LEMMA OnePhaseMoves ==
    ASSUME NEW u \in Requests, NEW from, NEW to,
           Phase(u) = from, Phase(u)' = to,
           \A w \in Requests \ {u} : Phase(w)' = Phase(w)
    PROVE  Gate!Move(u, from, to)
<1>1. gatePhase[u] = from /\ gatePhase'[u] = to
  BY PhaseFacts
<1>2. \A w \in Requests \ {u} : gatePhase'[w] = gatePhase[w]
  BY PhaseFacts
<1>3. gatePhase' = [w \in Requests |-> gatePhase'[w]] /\ gatePhase = [w \in Requests |-> gatePhase[w]]
  BY DEF gatePhase
<1> HIDE DEF gatePhase
<1>4. gatePhase' = [gatePhase EXCEPT ![u] = to]
  BY <1>1, <1>2, <1>3
<1> QED  BY <1>1, <1>4 DEF Gate!Move

\* A step that takes no approval further
LEMMA PhasesStay ==
    ASSUME StateInv, [Next]_vars,
           \A r \in Requests, u \in Requests : Resolves(r, u)' <=> Resolves(r, u),
           \A u \in Requests : OnDisk(u)' <=> OnDisk(u),
           \A u \in Requests : Closed(u)' <=> Closed(u)
    PROVE  gatePhase' = gatePhase
<1>1. \A u \in Requests : Stand(u)' = Stand(u)
  BY DEF Stand
<1>2. \A u \in Requests : Phase(u)' = Phase(u)
  BY <1>1, StandTellsPhase
<1> QED  BY <1>2, NoPhaseChanges

\* gateRan in terms of RunsOf, now and after a step
LEMMA RanFacts ==
    ASSUME NEW u \in Requests
    PROVE  /\ gateRan[u] = IF cid[u] \in SerialConvs THEN Cardinality(RunsOf(u)) ELSE 0
           /\ gateRan'[u] = IF cid'[u] \in SerialConvs THEN Cardinality(RunsOf(u)') ELSE 0
BY DEF gateRan, RunsOf

\* Nothing runs on behalf of an approval that has not been issued
LEMMA NoRunsBefore ==
    ASSUME GateInv, NEW u \in Requests, issued[u] = Nil
    PROVE  RunsOf(u) = {}
<1> SUFFICES ASSUME NEW k \in RunsOf(u) PROVE FALSE
  OBVIOUS
<1>1. k.by \in Requests /\ held[k.by] # Nil /\ held[k.by].uuid = u
  BY ParametersOK DEF RunsOf, GateInv, CallsHeld, Calls
<1> QED  BY <1>1 DEF GateInv, SerialInv, DecisionInv, StateInv, HeldIsIssued

\* The gate counts no run if there was none in a conversation whose clients take turns
LEMMA RanStays ==
    ASSUME GateInv, [Next]_vars,
           \A u \in Requests : \/ RunsOf(u)' = RunsOf(u)
                               \/ UNCHANGED cid /\ cid[u] \notin SerialConvs
    PROVE  gateRan' = gateRan
<1>1. ASSUME NEW u \in Requests PROVE gateRan'[u] = gateRan[u]
  <2>1. CASE UNCHANGED cid /\ cid[u] \notin SerialConvs
    BY <2>1, RanFacts
  <2>2. CASE RunsOf(u)' = RunsOf(u) /\ issued[u] = Nil
    BY <2>2, NoRunsBefore, RanFacts, FS_EmptySet
  <2>3. CASE RunsOf(u)' = RunsOf(u) /\ issued[u] # Nil
    <3>1. cid'[u] = cid[u]
      BY <2>3, IssuedStays DEF GateInv, SerialInv, DecisionInv
    <3> QED  BY <2>3, <3>1, RanFacts
  <2> QED  BY <2>1, <2>2, <2>3
<1> QED  BY <1>1 DEF gateRan

\* A step in which nothing runs on behalf of an approval
LEMMA NothingRan ==
    ASSUME GateInv, [Next]_vars,
           calls \subseteq calls', \A k \in calls' \ calls : k.via = Nil \/ k.what # "run"
    PROVE  gateRan' = gateRan
<1>1. ASSUME NEW u \in Requests PROVE RunsOf(u)' = RunsOf(u)
  BY <1>1, ParametersOK DEF RunsOf
<1> QED  BY <1>1, RanStays

\* An approval is closed for good, and has been issued before
LEMMA ClosedFacts ==
    ASSUME StateInv, [Next]_vars, NEW u \in Requests
    PROVE  /\ Closed(u)' <=> issued[u] # Nil /\ pc'[u] \in Past
           /\ Closed(u) => Closed(u)'
<1>1. CASE issued[u] # Nil
  BY <1>1, IssuedStays, FlightFacts DEF Closed
<1>2. CASE issued[u] = Nil
  <2>1. ASSUME issued'[u] # Nil PROVE pc'[u] \notin Past
    <3>1. PICK conv \in Conversations, t \in Tools, l \in {"save", "trySave"}, isProxy \in BOOLEAN :
              AskApproval(u, conv, l, t, isProxy)
      BY <1>2, <2>1, WhoAsks
    <3> QED  BY <3>1 DEF AskApproval, Finish, Goto, StateInv, TypeOK, Past
  <2> QED  BY <1>2, <2>1 DEF Closed
<1> QED  BY <1>1, <1>2

\* A goroutine that moves on away from the store takes no approval further
LEMMA MovePhases ==
    ASSUME StateInv, [Next]_vars, NEW r \in Requests, NEW l \in PCs,
           pc' = [pc EXCEPT ![r] = l],
           UNCHANGED <<held, decision>>,
           \A u \in Requests : OnDisk(u)' <=> OnDisk(u),
           \/ pc[r] \in Working /\ l \in Working \cup {"save", "trySave"}
           \/ issued[r] = Nil /\ (held[r] = Nil \/ pc[r] = "notify")
           \/ held[r] = Nil /\ pc[r] \in Past /\ l \in Past
    PROVE  gatePhase' = gatePhase
<1>1. pc'[r] = l /\ \A s \in Requests \ {r} : pc'[s] = pc[s]
  BY DEF StateInv, TypeOK
<1>2. ASSUME NEW u \in Requests PROVE Closed(u)' <=> Closed(u)
  <2>1. CASE u # r
    BY <1>1, <2>1, ClosedFacts DEF Closed
  <2>2. CASE u = r
    <3>1. pc[r] \in Working => issued[r] = Nil
      BY DEF StateInv, Stage
    <3> QED  BY <1>1, <2>2, <3>1, ClosedFacts DEF Closed
  <2> QED  BY <2>1, <2>2
<1>3. ASSUME NEW s \in Requests, NEW u \in Requests PROVE Resolves(s, u)' <=> Resolves(s, u)
  <2>1. CASE s # r
    BY <1>1, <2>1 DEF Resolves, InFlight
  <2>2. CASE s = r
    <3>1. CASE held[r] = Nil
      BY <2>2, <3>1 DEF Resolves
    <3>2. CASE pc[r] \in Working /\ l \in Working \cup {"save", "trySave"}
      BY <1>1, <2>2, <3>2 DEF Resolves, InFlight, Working
    <3>3. CASE pc[r] = "notify"
      <4>1. ~decision[r].approve
        BY <3>3 DEF StateInv, Stage
      <4> QED  BY <2>2, <4>1 DEF Resolves
    <3> QED  BY <3>1, <3>2, <3>3
  <2> QED  BY <2>1, <2>2
<1> QED  BY <1>2, <1>3, PhasesStay

\* An arrival starts nothing: a new conversation waits for no approval
LEMMA ArriveRefines ==
    ASSUME GateInv, [Next]_vars, faults' = faults, NEW r \in Requests, Arrive(r)
    PROVE  UNCHANGED Gate!gateVars
<1> USE DEF Goto, envVars
<1>0. StateInv
  BY DEF GateInv, SerialInv, DecisionInv
<1>1. /\ pc[r] = "idle" /\ held[r] = Nil /\ issued[r] = Nil
      /\ UNCHANGED <<calls, held, issued>>
      /\ \A s \in Requests \ {r} : decision'[s] = decision[s] /\ pc'[s] = pc[s]
  BY <1>0 DEF Arrive, CreateConversation, SendMessage, ContinueTask, PostApproval, ProcessMessage,
         Answer, StateInv, TypeOK, Stage
<1>2. ASSUME NEW u \in Requests PROVE OnDisk(u)' <=> OnDisk(u)
  <2>1. CASE UNCHANGED disk
    BY <2>1 DEF OnDisk, FindByApprovalUUID, Readable
  <2>2. ASSUME NEW c \in Convs, CreateConversation(r, c) PROVE OnDisk(u)' <=> OnDisk(u)
    <3>1. disk[c] = NoFile /\ SaveConversation(c, New)
      BY <1>0, <2>2, ParametersOK DEF CreateConversation, StateInv, TypeOK
    <3>2. disk'[c] = New /\ New.pending = Nil /\ \A d \in Convs \ {c} : disk'[d] = disk[d]
      BY <1>0, <3>1, NewConversation DEF SaveConversation, StateInv, TypeOK, DiskTypeOK
    <3> QED  BY <3>1, <3>2 DEF OnDisk, FindByApprovalUUID, Readable
  <2> QED  BY <2>1, <2>2 DEF Arrive, SendMessage, ContinueTask, PostApproval
<1>3. \A s \in Requests, u \in Requests : Resolves(s, u)' <=> Resolves(s, u)
  BY <1>1 DEF Resolves, InFlight
<1>4. \A u \in Requests : Closed(u)' <=> Closed(u)
  BY <1>1 DEF Closed
<1>5. gatePhase' = gatePhase
  BY <1>0, <1>2, <1>3, <1>4, PhasesStay
<1>6. gateRan' = gateRan
  BY <1>1, NothingRan
<1> QED  BY <1>5, <1>6 DEF Gate!gateVars

\* processSimpleMessage takes no approval further before its save
LEMMA LoopRefines ==
    ASSUME GateInv, [Next]_vars, NEW r \in Requests, Loop(r)
    PROVE  UNCHANGED Gate!gateVars
<1>0. StateInv
  BY DEF GateInv, SerialInv, DecisionInv
<1>1. PICK l \in {"llm", "call", "save", "trySave"} : pc' = [pc EXCEPT ![r] = l]
  BY LoopGoes
<1>2. pc[r] \in Working /\ UNCHANGED <<disk, held, decision>>
  BY LoopGoes DEF Working
<1>3. \A u \in Requests : OnDisk(u)' <=> OnDisk(u)
  BY <1>2 DEF OnDisk, FindByApprovalUUID, Readable
<1>4. gatePhase' = gatePhase
  BY <1>0, <1>1, <1>2, <1>3, MovePhases DEF Working, PCs
<1>5. UNCHANGED calls \/ Record(r, "run", tool[r], Nil)
  BY DEF Loop, LLMNotice, LLMText, LLMCapReached, LLMDestructive, LLMHarmless, ToolReturns,
         ToolNeedsAuth, ToolNeedsApproval, MayRecord
<1>6. gateRan' = gateRan
  <2>1. CASE UNCHANGED calls
    BY <2>1, NothingRan
  <2>2. CASE Record(r, "run", tool[r], Nil)
    BY <2>2, NothingRan DEF Record
  <2> QED  BY <1>5, <2>1, <2>2
<1> QED  BY <1>4, <1>6 DEF Gate!gateVars

\* A request that has found an approval is the only one that can be resolving it
LEMMA OnlyResolver ==
    ASSUME SerialInv, NEW r \in Requests, NEW s \in Requests, NEW u \in Requests,
           NEW c \in SerialConvs, About(r, c), cid[u] = c, Resolves(s, u)
    PROVE  s = r
<1>1. decision[s] # Nil /\ decision[s].uuid = u
  BY DEF SerialInv, DecisionInv, StateInv, HeldIsIssued, Resolves
<1>2. About(s, c)
  BY <1>1 DEF About, Concerns, Resolves
<1> QED  BY <1>2 DEF SerialInv, Alone

\* While r has not run the tool of the approval it holds, nobody has
LEMMA NotRunYet ==
    ASSUME GateInv, Unharmed, NEW r \in Requests, pc[r] \in {"exec", "proxy"},
           cid[r] \in SerialConvs
    PROVE  /\ held[r] # Nil /\ held[r].uuid \in Requests
           /\ RunsOf(held[r].uuid) = {}
           /\ gateRan[held[r].uuid] = 0
<1> DEFINE u == held[r].uuid
<1>1. mem[r] # Nil /\ held[r] # Nil /\ SerialInv
  BY DEF GateInv, SerialInv, DecisionInv, StateInv, Stage, Working
<1>2. u \in Requests /\ OnDisk(u) /\ About(r, cid[r]) /\ cid[r] \in Convs /\ cid[r] = cid[u]
  BY <1>1, HeldOnDisk
<1>3. ASSUME NEW k \in RunsOf(u) PROVE FALSE
  <2>1. /\ k.by \in Requests /\ pc[k.by] \in {"llm", "call", "save", "trySave"}
        /\ held[k.by] # Nil /\ held[k.by].uuid = u /\ decision[k.by].approve
    BY <1>2, <1>3 DEF GateInv, RanOnce, RunsOf, Calls
  <2>2. Resolves(k.by, u)
    BY <2>1 DEF Resolves, InFlight
  <2>3. k.by = r
    BY <1>1, <1>2, <2>1, <2>2, OnlyResolver
  <2> QED  BY <2>1, <2>3
<1>4. RunsOf(u) = {}
  BY <1>3
<1>5. gateRan[u] = 0
  BY <1>2, <1>4, FS_EmptySet DEF gateRan, RunsOf
<1> QED  BY <1>1, <1>2, <1>4, <1>5

\* r in flight resolves exactly what it holds
LEMMA PhaseHeld ==
    ASSUME SerialInv, NEW r \in Requests, mem[r] # Nil, held[r] # Nil, pc[r] # "notify",
           cid[r] \in SerialConvs
    PROVE  Phase(held[r].uuid) = IF decision[r].approve THEN "approved" ELSE "pending"
<1> DEFINE u == held[r].uuid
<1>1. u \in Requests /\ OnDisk(u) /\ About(r, cid[r]) /\ cid[r] \in Convs /\ cid[r] = cid[u]
  BY HeldOnDisk
<1>2. \A s \in Requests : Resolves(s, u) => s = r
  BY <1>1, OnlyResolver
<1>3. Resolves(r, u) <=> decision[r].approve
  BY <1>1 DEF Resolves, About
<1> QED  BY <1>1, <1>2, <1>3 DEF Phase, Stand

\* An approval that is found is approved, or stays pending until the rejection is saved
LEMMA FoundRefines ==
    ASSUME GateInv, [Next]_vars, NEW r \in Requests, NEW c \in Convs, ApprovalFound(r, c)
    PROVE  (\E u \in Requests : Gate!Approve(u)) \/ UNCHANGED Gate!gateVars
<1> USE DEF Goto, envVars
<1>0. SerialInv /\ StateInv
  BY DEF GateInv, SerialInv, DecisionInv
<1>u. PICK u \in Requests : u = decision[r].uuid /\ decision[r] # Nil
  BY <1>0 DEF ApprovalFound, StateInv, TypeOK, Stage, Decisions
<1>1. /\ c \in FindByApprovalUUID(u) /\ cid[u] = c
      /\ pc[r] = "find" /\ held[r] = Nil /\ issued[r] = Nil /\ decision[r] # Nil
      /\ disk[c].pending # Nil /\ disk[c].pending.uuid = u
  BY <1>0, <1>u DEF ApprovalFound, FindByApprovalUUID, StateInv, ApprovalHome, Stage
<1>2. /\ UNCHANGED <<disk, decision, calls>>
      /\ held'[r] = disk[c].pending /\ \A s \in Requests \ {r} : held'[s] = held[s]
  BY <1>0 DEF ApprovalFound, StateInv, TypeOK
<1>3. \A s \in Requests \ {r} : pc'[s] = pc[s]
  BY <1>0 DEF ApprovalFound, Finish, StateInv, TypeOK
<1>4. pc'[r] \in {"exec", "proxy", "save"}
  BY <1>0 DEF ApprovalFound, Finish, StateInv, TypeOK
<1>5. \A w \in Requests : OnDisk(w)' <=> OnDisk(w)
  BY <1>2 DEF OnDisk, FindByApprovalUUID, Readable
<1>6. ASSUME NEW w \in Requests PROVE Closed(w)' <=> Closed(w)
  BY <1>0, <1>1, <1>3, ClosedFacts DEF Closed
<1>7. \A s \in Requests \ {r}, w \in Requests : Resolves(s, w)' <=> Resolves(s, w)
  BY <1>2, <1>3 DEF Resolves, InFlight
<1>8. \A w \in Requests : ~Resolves(r, w)
  BY <1>1 DEF Resolves
<1>9. \A w \in Requests : Resolves(r, w)' <=> w = u /\ decision[r].approve
  BY <1>1, <1>2, <1>4 DEF Resolves, InFlight
<1>10. gateRan' = gateRan
  BY <1>2, NothingRan
<1>u2. issued[u] # Nil /\ cid'[u] = c
  BY <1>0, <1>1, IssuedStays DEF StateInv, ApprovalHome
<1>14. ASSUME NEW w \in Requests \ {u} PROVE Phase(w)' = Phase(w)
  <2>1. Stand(w)' = Stand(w)
    BY <1>5, <1>6, <1>7, <1>8, <1>9 DEF Stand
  <2> QED  BY <1>0, <2>1, StandTellsPhase
<1>11. CASE decision[r].approve /\ c \in SerialConvs
  <2>1. \A s \in Requests : ~Resolves(s, u)
    <3>1. About(r, c)
      BY <1>u, <1>1 DEF About, Concerns, InFlight
    <3> QED  BY <1>0, <1>1, <1>8, <1>11, <3>1, OnlyResolver
  <2>2. Phase(u) = "pending"
    BY <1>1, <1>11, <2>1 DEF Phase, Stand, OnDisk
  <2>3. Phase(u)' = "approved"
    BY <1>1, <1>u2, <1>9, <1>11 DEF Phase, Stand
  <2>5. Gate!Move(u, "pending", "approved")
    BY <1>1, <1>14, <2>2, <2>3, OnePhaseMoves
  <2> QED  BY <1>1, <1>10, <2>5 DEF Gate!Approve
<1>12. CASE ~decision[r].approve
  <2>1. gatePhase' = gatePhase
    BY <1>0, <1>5, <1>6, <1>7, <1>8, <1>9, <1>12, PhasesStay
  <2> QED  BY <1>10, <2>1 DEF Gate!gateVars
<1>13. CASE c \notin SerialConvs
  <2>1. Phase(u)' = Phase(u)
    BY <1>1, <1>u2, <1>13 DEF Phase
  <2>2. gatePhase' = gatePhase
    BY <1>14, <2>1, NoPhaseChanges
  <2> QED  BY <1>10, <2>2 DEF Gate!gateVars
<1> QED  BY <1>11, <1>12, <1>13

\* The approved tool runs once
LEMMA ExecuteRefines ==
    ASSUME GateInv, Unharmed, [Next]_vars, NEW r \in Requests, ExecuteReturns(r)
    PROVE  (\E u \in Requests : Gate!Run(u)) \/ UNCHANGED Gate!gateVars
<1>0. SerialInv /\ StateInv
  BY DEF GateInv, SerialInv, DecisionInv
<1>1. /\ pc[r] = "exec" /\ pc' = [pc EXCEPT ![r] = "llm"]
      /\ UNCHANGED <<disk, cid, held, decision>>
  BY DEF ExecuteReturns, Goto
<1>2. PICK u \in Requests : held[r] # Nil /\ u = held[r].uuid /\ cid[r] = cid[u]
  <2>1. held[r] # Nil
    BY <1>0, <1>1 DEF StateInv, Stage, Working
  <2> QED  BY <1>0, <2>1 DEF StateInv, TypeOK, HeldIsIssued, Approval
<1>7. cid[u] \in SerialConvs => RunsOf(u) = {} /\ gateRan[u] = 0
  BY <1>1, <1>2, NotRunYet
<1>3. \A w \in Requests : OnDisk(w)' <=> OnDisk(w)
  BY <1>1 DEF OnDisk, FindByApprovalUUID, Readable
<1>4. gatePhase' = gatePhase
  BY <1>0, <1>1, <1>3, MovePhases DEF Working, PCs
<1>5. CASE UNCHANGED calls
  <2>1. gateRan' = gateRan
    BY <1>5, NothingRan
  <2> QED  BY <1>4, <2>1 DEF Gate!gateVars
<1>6. CASE Record(r, "run", held[r].tool, u)
  <2>1. PICK k : k.via = u /\ k.what = "run" /\ calls' = calls \cup {k}
    BY <1>6 DEF Record
  <2>3. ASSUME NEW w \in Requests, w # u PROVE RunsOf(w)' = RunsOf(w)
    BY <2>1, <2>3 DEF RunsOf
  <2>8. CASE cid[u] \notin SerialConvs
    <3>1. gateRan' = gateRan
      BY <1>1, <2>3, <2>8, RanStays
    <3> QED  BY <1>4, <3>1 DEF Gate!gateVars
  <2>9. CASE cid[u] \in SerialConvs
    <3>2. RunsOf(u)' = {k}
      BY <1>7, <2>1, <2>9 DEF RunsOf
    <3>4. Cardinality({k}) = 1
      BY FS_Singleton
    <3>5. gateRan' = [gateRan EXCEPT ![u] = 1]
      <4>1. gateRan'[u] = 1
        BY <1>1, <2>9, <3>2, <3>4, RanFacts
      <4>2. ASSUME NEW w \in Requests, w # u PROVE gateRan'[w] = gateRan[w]
        BY <1>1, <2>3, <4>2, RanFacts
      <4>3. gateRan' = [w \in Requests |-> gateRan'[w]] /\ gateRan = [w \in Requests |-> gateRan[w]]
        BY DEF gateRan
      <4> HIDE DEF gateRan
      <4> QED  BY <4>1, <4>2, <4>3
    <3>6. Phase(u) = "approved"
      <4>1. mem[r] # Nil /\ decision[r].approve /\ Phase(u) = Stand(u)
        BY <1>0, <1>1, <2>9 DEF StateInv, Stage, Working, Phase
      <4> QED  BY <1>0, <1>1, <1>2, <2>9, <4>1, PhaseHeld
    <3>7. gatePhase[u] = "approved"
      BY <3>6, PhaseFacts
    <3> QED  BY <1>4, <1>7, <2>9, <3>5, <3>7 DEF Gate!Run
  <2> QED  BY <2>8, <2>9
<1> QED  BY <1>2, <1>5, <1>6 DEF ExecuteReturns, MayRecord

\* A forwarded approval whose call fails can be given again: nothing has run
LEMMA ProxyFailsRefines ==
    ASSUME GateInv, Unharmed, [Next]_vars, NEW r \in Requests, ProxyFails(r)
    PROVE  (\E u \in Requests : Gate!Retry(u)) \/ UNCHANGED Gate!gateVars
<1> USE DEF Goto, envVars
<1>0. SerialInv /\ StateInv
  BY DEF GateInv, SerialInv, DecisionInv
<1>u. PICK u \in Requests : u = held[r].uuid /\ held[r] # Nil /\ cid[r] = cid[u]
  <2>1. held[r] # Nil
    BY <1>0 DEF StateInv, Stage, Working, ProxyFails
  <2> QED  BY <1>0, <2>1 DEF StateInv, TypeOK, HeldIsIssued, Approval
<1>1. /\ pc[r] = "proxy" /\ pc' = [pc EXCEPT ![r] = "done"]
      /\ UNCHANGED <<disk, cid, held, decision>>
      /\ UNCHANGED calls \/ Record(r, "approve", held[r].tool, u)
  BY <1>u DEF ProxyFails, Answer, MayRecord
<1>2. mem[r] # Nil /\ decision[r].approve /\ issued[r] = Nil
  BY <1>0, <1>1, <1>u DEF StateInv, Stage, Working
<1>4. pc'[r] = "done" /\ \A s \in Requests \ {r} : pc'[s] = pc[s]
  BY <1>0, <1>1 DEF StateInv, TypeOK
<1>5. \A w \in Requests : OnDisk(w)' <=> OnDisk(w)
  BY <1>1 DEF OnDisk, FindByApprovalUUID, Readable
<1>6. ASSUME NEW w \in Requests PROVE Closed(w)' <=> Closed(w)
  BY <1>0, <1>2, <1>4, ClosedFacts DEF Closed
<1>7. \A s \in Requests \ {r}, w \in Requests : Resolves(s, w)' <=> Resolves(s, w)
  BY <1>1, <1>4 DEF Resolves, InFlight
<1>8. \A w \in Requests : ~Resolves(r, w)'
  BY <1>4 DEF Resolves, InFlight
<1>9. \A w \in Requests \ {u} : ~Resolves(r, w)
  BY <1>u DEF Resolves
<1>10. gateRan' = gateRan
  <2>1. CASE UNCHANGED calls
    BY <2>1, NothingRan
  <2>2. CASE Record(r, "approve", held[r].tool, u)
    BY <2>2, NothingRan DEF Record
  <2> QED  BY <1>1, <2>1, <2>2
<1>13. ASSUME NEW w \in Requests \ {u} PROVE Phase(w)' = Phase(w)
  <2>1. Stand(w)' = Stand(w)
    BY <1>5, <1>6, <1>7, <1>8, <1>9 DEF Stand
  <2> QED  BY <1>0, <2>1, StandTellsPhase
<1>14. CASE cid[r] \in SerialConvs
  <2>3. OnDisk(u) /\ About(r, cid[r]) /\ gateRan[u] = 0
    BY <1>0, <1>1, <1>2, <1>u, <1>14, HeldOnDisk, NotRunYet
  <2>11. Phase(u) = "approved"
    BY <1>0, <1>1, <1>2, <1>u, <1>14, PhaseHeld
  <2>12. Phase(u)' = "pending"
    <3>1. \A s \in Requests \ {r} : ~Resolves(s, u)
      BY <1>0, <1>u, <1>14, <2>3, OnlyResolver
    <3> QED  BY <1>1, <1>u, <1>14, <2>3, <1>5, <1>7, <1>8, <3>1 DEF Phase, Stand
  <2>14. Gate!Move(u, "approved", "pending")
    BY <1>13, <2>11, <2>12, OnePhaseMoves
  <2> QED  BY <2>3, <1>10, <2>14 DEF Gate!Retry
<1>15. CASE cid[r] \notin SerialConvs
  <2>1. Phase(u)' = Phase(u)
    BY <1>1, <1>u, <1>15 DEF Phase
  <2>2. gatePhase' = gatePhase
    BY <1>13, <2>1, NoPhaseChanges
  <2> QED  BY <1>10, <2>2 DEF Gate!gateVars
<1> QED  BY <1>14, <1>15

\* ResolveApproval: the steps that take no approval further
LEMMA ResolveRefines ==
    ASSUME GateInv, Unharmed, [Next]_vars, NEW r \in Requests, Resolve(r)
    PROVE  Gate!GateNext \/ UNCHANGED Gate!gateVars
<1> USE DEF Goto, envVars
<1>0. SerialInv /\ StateInv
  BY DEF GateInv, SerialInv, DecisionInv
<1>1. CASE \E c \in Convs : ApprovalFound(r, c)
  BY <1>1, FoundRefines DEF Gate!GateNext
<1>2. CASE ExecuteReturns(r)
  BY <1>2, ExecuteRefines DEF Gate!GateNext
<1>3. CASE ProxyFails(r)
  BY <1>3, ProxyFailsRefines DEF Gate!GateNext
<1>4. ASSUME NEW l \in PCs,
             pc' = [pc EXCEPT ![r] = l],
             UNCHANGED <<disk, held, decision>>,
             \/ pc[r] \in Working /\ l \in Working \cup {"save", "trySave"}
             \/ issued[r] = Nil /\ (held[r] = Nil \/ pc[r] = "notify"),
             UNCHANGED calls \/ \E what \in {"approve", "reject"} : Record(r, what, held[r].tool, held[r].uuid)
      PROVE  UNCHANGED Gate!gateVars
  <2>1. \A w \in Requests : OnDisk(w)' <=> OnDisk(w)
    BY <1>4 DEF OnDisk, FindByApprovalUUID, Readable
  <2>2. gatePhase' = gatePhase
    BY <1>0, <1>4, <2>1, MovePhases
  <2>3. ASSUME UNCHANGED calls PROVE gateRan' = gateRan
    BY <2>3, NothingRan
  <2>4. ASSUME NEW what \in {"approve", "reject"}, Record(r, what, held[r].tool, held[r].uuid)
        PROVE  gateRan' = gateRan
    BY <2>4, NothingRan DEF Record
  <2> QED  BY <1>4, <2>2, <2>3, <2>4 DEF Gate!gateVars
<1>5. CASE ApprovalNotFound(r)
  <2>1. held[r] = Nil /\ issued[r] = Nil
    BY <1>0, <1>5 DEF ApprovalNotFound, StateInv, Stage
  <2> QED  BY <1>4, <1>5, <2>1 DEF ApprovalNotFound, Answer, PCs
<1>6. CASE ForwardRejection(r)
  <2>1. issued[r] = Nil /\ pc[r] = "notify"
    BY <1>0, <1>6 DEF ForwardRejection, StateInv, Stage
  <2> QED  BY <1>4, <1>6, <2>1 DEF ForwardRejection, Answer, MayRecord, PCs
<1>7. CASE ExecuteNeedsAuth(r) \/ ProxyNeedsAuth(r)
  BY <1>4, <1>7 DEF ExecuteNeedsAuth, ProxyNeedsAuth, Finish, Working, PCs
<1>8. CASE ProxyReturns(r) \/ ProxyNeedsApproval(r)
  BY <1>4, <1>8 DEF ProxyReturns, ProxyNeedsApproval, AskApproval, Finish, Working, PCs
<1> QED
  BY <1>1, <1>2, <1>3, <1>5, <1>6, <1>7, <1>8 DEF Resolve

\* The save of a conversation is no step of the gate for the other conversations
LEMMA SaveElsewhere ==
    ASSUME GateInv, StateInv', [Next]_vars, NEW r \in Requests, Save(r), cid[r] \notin SerialConvs
    PROVE  gatePhase' = gatePhase
<1>0. StateInv
  BY DEF GateInv, SerialInv, DecisionInv
<1>1. /\ UNCHANGED <<cid, decision, held, issued>>
      /\ \A s \in Requests \ {r} : pc'[s] = pc[s]
      /\ \A d \in Convs \ {cid[r]} : disk'[d] = disk[d]
  BY <1>0 DEF Save, SaveConversation, Goto, StateInv, TypeOK, DiskTypeOK
<1>2. ASSUME NEW w \in Requests, cid[w] \in SerialConvs PROVE Stand(w)' = Stand(w)
  <2>1. w # r /\ cid[w] # cid[r] /\ cid[w] \in Convs
    BY <1>2, ParametersOK
  <2>2. OnDisk(w) <=> cid[w] \in FindByApprovalUUID(w)
    BY <1>0, <2>1 DEF StateInv, ApprovalHome, OnDisk, FindByApprovalUUID
  <2>3. OnDisk(w)' <=> cid[w] \in FindByApprovalUUID(w)'
    BY <1>1, <2>1 DEF StateInv, ApprovalHome, OnDisk, FindByApprovalUUID
  <2>4. OnDisk(w)' <=> OnDisk(w)
    BY <1>1, <2>1, <2>2, <2>3 DEF FindByApprovalUUID, Readable
  <2>5. ASSUME NEW s \in Requests PROVE Resolves(s, w)' <=> Resolves(s, w)
    <3>1. CASE s = r
      BY <1>0, <1>1, <2>1, <3>1 DEF Resolves, StateInv, HeldIsIssued
    <3>2. CASE s # r
      BY <1>1, <3>2 DEF Resolves, InFlight
    <3> QED  BY <3>1, <3>2
  <2>6. Closed(w)' <=> Closed(w)
    BY <1>1, <2>1 DEF Closed
  <2> QED  BY <2>4, <2>5, <2>6 DEF Stand
<1>3. \A w \in Requests : Phase(w)' = Phase(w)
  BY <1>1, <1>2 DEF Phase
<1> QED  BY <1>3, NoPhaseChanges

\* The save of r: its own approval comes to the disk, the one it holds leaves it
LEMMA SaveMoves ==
    ASSUME GateInv, StateInv', [Next]_vars, NEW r \in Requests, Save(r), cid[r] \in SerialConvs
    PROVE  /\ Phase(r) = "none"
           /\ held[r] # Nil => held[r].uuid # r
           /\ Phase(r)' = IF issued[r] # Nil THEN "pending" ELSE "none"
           /\ held[r] # Nil => Phase(held[r].uuid) = IF decision[r].approve THEN "approved" ELSE "pending"
           /\ \A u \in Requests : held[r] # Nil /\ held[r].uuid = u => Phase(u)' = "closed"
           /\ \A w \in Requests \ {r} : ~(held[r] # Nil /\ held[r].uuid = w) => Phase(w)' = Phase(w)
<1>0. SerialInv /\ StateInv
  BY DEF GateInv, SerialInv, DecisionInv
<1>1. /\ Saving(r) /\ UNCHANGED <<cid, decision, held, issued>>
      /\ pc'[r] = AfterSave(r) /\ \A s \in Requests \ {r} : pc'[s] = pc[s]
      /\ mem[r] # Nil /\ cid[r] \in Convs
      /\ disk'[cid[r]] = mem[r] /\ \A d \in Convs \ {cid[r]} : disk'[d] = disk[d]
  BY <1>0 DEF Save, SaveConversation, Goto, StateInv, TypeOK, DiskTypeOK, Stage
<1>2. /\ disk[cid[r]].pending = held[r] /\ Readable(cid[r])
      /\ issued[r] # Nil <=> mem[r].pending # Nil
      /\ issued[r] # Nil => mem[r].pending = issued[r] /\ issued[r].uuid = r
  BY <1>0, <1>1 DEF SerialInv, Current, GateInv, LocalFacts, StateInv, ApprovalHome, IssuedIsOwn, Stage
<1>3. mem[r] \in Conversations
  BY <1>0, <1>1 DEF StateInv, TypeOK
<1>4. pc[r] \notin Past /\ pc[r] # "notify" /\ pc'[r] \in {"reload", "notify", "done"}
  BY <1>1 DEF Saving, Past, AfterSave
<1>5. ASSUME NEW s \in Requests, held[s] # Nil
      PROVE  held[s].uuid # r
  BY <1>0, <1>4, <1>5 DEF SerialInv, DecisionInv, HeldPast
<1>6. ASSUME NEW u \in Requests PROVE ~Resolves(r, u)'
  <2>1. pc'[r] = "reload" => held[r] = Nil
    BY <1>0, <1>1, <1>4 DEF AfterSave, StateInv, HeldIsIssued
  <2> QED  BY <1>1, <1>4, <2>1 DEF Resolves, InFlight
<1>7. \A s \in Requests \ {r}, u \in Requests : Resolves(s, u)' <=> Resolves(s, u)
  BY <1>1 DEF Resolves, InFlight
<1>8. OnDisk(r)' <=> issued[r] # Nil
  <2>1. ASSUME issued[r] # Nil PROVE OnDisk(r)'
    <3>1. cid[r] \in FindByApprovalUUID(r)'
      BY <1>1, <1>2, <1>3, <2>1, DistinctContents DEF FindByApprovalUUID, Readable
    <3> QED  BY <3>1 DEF OnDisk
  <2>2. ASSUME issued[r] = Nil PROVE ~OnDisk(r)'
    <3>1. ~OnDisk(r)
      BY <1>0, <1>4 DEF StateInv, ApprovalHome, Past, OnDisk
    <3>2. ASSUME NEW d \in Convs, d \in FindByApprovalUUID(r)' PROVE FALSE
      BY <1>1, <1>2, <2>2, <3>1, <3>2 DEF FindByApprovalUUID, Readable, OnDisk
    <3> QED  BY <3>2 DEF OnDisk, FindByApprovalUUID
  <2> QED  BY <2>1, <2>2
<1>9. ASSUME NEW w \in Requests \ {r}, ~(held[r] # Nil /\ held[r].uuid = w)
      PROVE  Phase(w)' = Phase(w)
  <2>1. OnDisk(w)' <=> OnDisk(w)
    <3>1. ASSUME NEW d \in Convs PROVE d \in FindByApprovalUUID(w)' <=> d \in FindByApprovalUUID(w)
      <4>1. CASE d = cid[r]
        BY <1>1, <1>2, <1>9, <4>1 DEF FindByApprovalUUID, Readable
      <4>2. CASE d # cid[r]
        BY <1>1, <4>2 DEF FindByApprovalUUID, Readable
      <4> QED  BY <4>1, <4>2
    <3> QED  BY <3>1 DEF OnDisk, FindByApprovalUUID
  <2>2. \A s \in Requests : Resolves(s, w)' <=> Resolves(s, w)
    BY <1>6, <1>7, <1>9 DEF Resolves
  <2>3. Closed(w)' <=> Closed(w)
    BY <1>1 DEF Closed
  <2> QED  BY <1>1, <2>1, <2>2, <2>3 DEF Phase, Stand
<1>10. Phase(r) = "none"
  <2>1. \A s \in Requests : ~Resolves(s, r)
    BY <1>5 DEF Resolves
  <2>2. ~OnDisk(r)
    BY <1>0, <1>4 DEF StateInv, ApprovalHome, Past, OnDisk
  <2> QED  BY <1>4, <2>1, <2>2 DEF Phase, Stand, Closed
<1>11. Phase(r)' = IF issued[r] # Nil THEN "pending" ELSE "none"
  <2>1. \A s \in Requests : ~Resolves(s, r)'
    BY <1>1, <1>5 DEF Resolves
  <2> QED  BY <1>1, <1>8, <2>1 DEF Phase, Stand, Closed
<1>12. ASSUME NEW u \in Requests, held[r] # Nil, held[r].uuid = u PROVE Phase(u)' = "closed"
  <2>1. ~OnDisk(u)'
    BY <1>0, <1>12, SaveSettles
  <2>2. pc[u] \in Past /\ issued[u] # Nil /\ u # r
    BY <1>0, <1>5, <1>12 DEF SerialInv, DecisionInv, HeldPast, StateInv, HeldIsIssued
  <2>3. cid[r] = cid[u] /\ About(r, cid[r])
    BY <1>0, <1>1, <1>12, HeldOnDisk
  <2>4. \A s \in Requests \ {r} : ~Resolves(s, u)
    BY <1>0, <1>1, <2>3, OnlyResolver
  <2> QED  BY <1>1, <1>6, <1>7, <2>1, <2>2, <2>3, <2>4 DEF Phase, Stand, Closed
<1>13. held[r] # Nil => Phase(held[r].uuid) = IF decision[r].approve THEN "approved" ELSE "pending"
  BY <1>0, <1>1, <1>4, PhaseHeld
<1> QED  BY <1>5, <1>9, <1>10, <1>11, <1>12, <1>13

\* A save is the gate's request for an approval, its resolution, or no step of it.
LEMMA SaveRefines ==
    ASSUME GateInv, StateInv', [Next]_vars, NEW r \in Requests, Save(r)
    PROVE  Gate!GateNext \/ UNCHANGED Gate!gateVars
<1>0. SerialInv /\ StateInv
  BY DEF GateInv, SerialInv, DecisionInv
<1>1. gateRan' = gateRan
  BY NothingRan DEF Save
<1>5. CASE cid[r] \notin SerialConvs
  BY <1>1, <1>5, SaveElsewhere DEF Gate!gateVars
<1> SUFFICES ASSUME cid[r] \in SerialConvs PROVE Gate!GateNext \/ UNCHANGED Gate!gateVars
  BY <1>5
<1>2. Phase(r) = "none" /\ Phase(r)' = IF issued[r] # Nil THEN "pending" ELSE "none"
  BY SaveMoves
<1>3. CASE held[r] = Nil
  <2>1. \A w \in Requests \ {r} : Phase(w)' = Phase(w)
    BY <1>3, SaveMoves
  <2>2. CASE issued[r] # Nil
    <3>1. Gate!Move(r, "none", "pending")
      BY <1>2, <2>1, <2>2, OnePhaseMoves
    <3> QED  BY <1>1, <3>1 DEF Gate!GateNext, Gate!Publish
  <2>3. CASE issued[r] = Nil
    <3>1. gatePhase' = gatePhase
      BY <1>2, <2>1, <2>3, NoPhaseChanges
    <3> QED  BY <1>1, <3>1 DEF Gate!gateVars
  <2> QED  BY <2>2, <2>3
<1>4. CASE held[r] # Nil
  <2>1. PICK u \in Requests : u = held[r].uuid
    BY <1>0, <1>4 DEF StateInv, TypeOK, Approval
  <2>2. u # r /\ Phase(u) = (IF decision[r].approve THEN "approved" ELSE "pending") /\ Phase(u)' = "closed"
    BY <1>4, <2>1, SaveMoves
  <2>3. \A w \in Requests \ {r, u} : Phase(w)' = Phase(w)
    BY <2>1, SaveMoves
  <2>4. CASE issued[r] = Nil
    <3>1. \A w \in Requests \ {u} : Phase(w)' = Phase(w)
      BY <1>2, <2>3, <2>4
    <3>2. CASE decision[r].approve
      <4>1. Gate!Move(u, "approved", "closed")
        BY <2>2, <3>1, <3>2, OnePhaseMoves
      <4> QED  BY <1>1, <4>1 DEF Gate!GateNext, Gate!Settle
    <3>3. CASE ~decision[r].approve
      <4>1. Gate!Move(u, "pending", "closed")
        BY <2>2, <3>1, <3>3, OnePhaseMoves
      <4> QED  BY <1>1, <4>1 DEF Gate!GateNext, Gate!Reject
    <3> QED  BY <3>2, <3>3
  <2>5. CASE issued[r] # Nil
    <3>1. decision[r].approve
      BY <1>0, <1>4, <2>5 DEF StateInv, Stage, HeldIsIssued, Save
    <3>2. /\ gatePhase[u] = "approved" /\ gatePhase[r] = "none"
          /\ gatePhase'[u] = "closed" /\ gatePhase'[r] = "pending"
      BY <1>2, <2>2, <2>5, <3>1, PhaseFacts
    <3>3. \A w \in Requests \ {r, u} : gatePhase'[w] = gatePhase[w]
      BY <2>3, PhaseFacts
    <3>4. /\ gatePhase' = [w \in Requests |-> gatePhase'[w]]
          /\ gatePhase = [w \in Requests |-> gatePhase[w]]
      BY DEF gatePhase
    <3> HIDE DEF gatePhase
    <3>5. gatePhase' = [gatePhase EXCEPT ![u] = "closed", ![r] = "pending"]
      BY <2>2, <3>2, <3>3, <3>4
    <3> QED  BY <1>1, <3>2, <3>5 DEF Gate!GateNext, Gate!Chain
  <2> QED  BY <2>4, <2>5
<1> QED  BY <1>3, <1>4

\* Reading the conversation again to answer a request is no step of the gate.
LEMMA ReloadRefines ==
    ASSUME GateInv, [Next]_vars, NEW r \in Requests, Reload(r)
    PROVE  UNCHANGED Gate!gateVars
<1>0. StateInv
  BY DEF GateInv, SerialInv, DecisionInv
<1>1. pc[r] = "reload" /\ pc' = [pc EXCEPT ![r] = "done"] /\ UNCHANGED <<disk, held, decision, calls>>
  BY DEF Reload, Answer, Goto
<1>2. held[r] = Nil
  BY <1>0, <1>1 DEF GateInv, LocalFacts, StateInv, HeldIsIssued
<1>3. \A w \in Requests : OnDisk(w)' <=> OnDisk(w)
  BY <1>1 DEF OnDisk, FindByApprovalUUID, Readable
<1>4. gatePhase' = gatePhase
  BY <1>0, <1>1, <1>2, <1>3, MovePhases DEF Past, PCs
<1>5. gateRan' = gateRan
  BY <1>1, NothingRan
<1> QED  BY <1>4, <1>5 DEF Gate!gateVars

\* GateInv holds before the first request
LEMMA InitGate == Init => GateInv
<1> SUFFICES ASSUME Init PROVE GateInv
  OBVIOUS
<1>1. CallsHeld /\ RanOnce /\ calls \subseteq Calls /\ \A r \in Requests : LocalFacts(r)
  BY DEF Init, CallsHeld, RanOnce, RunsOf, LocalFacts, Saving
<1> QED  BY <1>1, InitSerial DEF GateInv

\* Until a save fails or the process dies, the handlers, ResolveApproval,
\* processSimpleMessage and the store together keep the promise of the approval
\* workflow in every conversation whose clients take turns: an action runs at most
\* once, after an approval
THEOREM AgentImplementsGate == Spec => ImplementsGate
<1>1. Init => GateInv
  BY InitGate
<1>2. GateInv /\ [Next]_vars => GateInv'
  BY GateStep
<1>3. Init => Gate!GateInit
  <2> SUFFICES ASSUME Init PROVE Gate!GateInit
    OBVIOUS
  <2>1. \A u \in Requests : Stand(u) = "none"
    BY DistinctContents DEF Init, Stand, Resolves, OnDisk, FindByApprovalUUID, Readable, Closed
  <2>2. \A u \in Requests : RunsOf(u) = {}
    BY DEF Init, RunsOf
  <2>3. gatePhase = [u \in Requests |-> "none"]
    BY <2>1, PhaseFacts DEF gatePhase, Phase
  <2>4. \A u \in Requests : gateRan[u] = 0
    BY <2>2, FS_EmptySet, RanFacts
  <2>5. gateRan = [u \in Requests |-> 0]
    BY <2>4 DEF gateRan
  <2> QED  BY <2>3, <2>5 DEF Gate!GateInit
<1>4. GateInv /\ GateInv' /\ [Next]_vars
        => [faults' = 0 /\ crashes' = 0 => Gate!GateNext]_(Gate!gateVars)
  <2> SUFFICES ASSUME GateInv, GateInv', [Next]_vars, faults' = 0, crashes' = 0
               PROVE  Gate!GateNext \/ UNCHANGED Gate!gateVars
    OBVIOUS
  <2>1. StateInv /\ StateInv'
    BY DEF GateInv, SerialInv, DecisionInv
  <2>2. Unharmed /\ faults' = faults /\ ~Crash /\ \A r \in Requests : ~SaveError(r)
    BY <2>1, StillUnharmed DEF Unharmed
  <2>3. ASSUME NEW r \in Requests, Arrive(r) \/ Proceed(r)
        PROVE  Gate!GateNext \/ UNCHANGED Gate!gateVars
    BY <2>1, <2>2, <2>3, ArriveRefines, LoopRefines, ResolveRefines, SaveRefines, ReloadRefines
    DEF Proceed, End
  <2>4. CASE UNCHANGED vars
    <3>1. \A u \in Requests : Stand(u)' = Stand(u)
      BY <2>4 DEF vars, Stand, Resolves, OnDisk, FindByApprovalUUID, Readable, Closed, InFlight
    <3>2. \A u \in Requests : Phase(u)' = Phase(u)
      BY <2>4, <3>1 DEF vars, Phase
    <3>3. gateRan' = gateRan
      BY <2>4, NothingRan DEF vars
    <3> QED  BY <3>2, <3>3, NoPhaseChanges DEF Gate!gateVars
  <2> QED  BY <2>2, <2>3, <2>4 DEF Next
<1> QED  BY <1>1, <1>2, <1>3, <1>4, PTL DEF Spec, ImplementsGate

-----------------------------------------------------------------------------
(***************************************************************************)
(* RejectionHolds.                                                         *)
(***************************************************************************)

\* The approval that r was told is cancelled is off the disk, past its creator,
\* and its tool has not run
ToldTruth(r) == reply[r] = "cancelled" =>
    /\ decision[r] # Nil /\ ~decision[r].approve /\ pc[r] \in {"save", "notify", "done"}
    /\ pc[r] \in {"notify", "done"} =>
          /\ pc[decision[r].uuid] \in Past
          /\ ~OnDisk(decision[r].uuid)
          /\ RunsOf(decision[r].uuid) = {}

ToldInv == GateInv /\ \A r \in Requests : ToldTruth(r)

\* A client is told of a rejection by the request that has found the approval
LEMMA WhoTells ==
    ASSUME StateInv, [Next]_vars, Unharmed',
           NEW r \in Requests, ToldTruth(r), reply'[r] = "cancelled"
    PROVE  /\ decision'[r] = decision[r] /\ decision[r] # Nil /\ ~decision[r].approve
           /\ pc'[r] \in {"save", "notify", "done"}
           /\ pc'[r] \in {"notify", "done"} =>
                \/ pc[r] \in {"notify", "done"} /\ reply[r] = "cancelled"
                \/ Save(r)
<1> USE DEF Goto, envVars
<1>1. CASE UNCHANGED vars
  BY <1>1 DEF vars, ToldTruth
<1>2. ~Crash
  BY StillUnharmed
<1>3. ASSUME NEW s \in Requests, Arrive(s)
      PROVE  s # r /\ UNCHANGED <<pc[r], reply[r], decision[r]>>
  <2>1. s # r
    BY <1>3 DEF Arrive, CreateConversation, SendMessage, ContinueTask, PostApproval,
              ProcessMessage, Answer, StateInv, TypeOK, ToldTruth
  <2> QED
    BY <1>3, <2>1 DEF Arrive, CreateConversation, SendMessage, ContinueTask, PostApproval,
              ProcessMessage, Answer, StateInv, TypeOK
<1>4. ASSUME NEW s \in Requests, s # r, Proceed(s)
      PROVE  UNCHANGED <<pc[r], reply[r], decision[r]>>
  <2>1. CASE Resolve(s)
    BY <1>4, <2>1
    DEF Resolve, ApprovalNotFound, ApprovalFound, ExecuteReturns, ExecuteNeedsAuth, ProxyReturns,
      ProxyNeedsApproval, ProxyNeedsAuth, ProxyFails, ForwardRejection, AskApproval, Answer,
      Finish, StateInv, TypeOK
  <2>2. CASE Loop(s)
    <3>1. \/ UNCHANGED reply
          \/ \E what \in {"notice", "text", "approval", "auth"} : reply' = [reply EXCEPT ![s] = what]
      BY <2>2
      DEF Loop, LLMNotice, LLMText, LLMCapReached, LLMDestructive, LLMHarmless, ToolReturns,
          ToolNeedsAuth, ToolNeedsApproval, AskApproval, Finish
    <3> QED  BY <1>4, <2>2, <3>1, LoopGoes DEF StateInv, TypeOK
  <2>3. CASE End(s)
    BY <1>4, <2>3 DEF End, Save, SaveError, Reload, Answer, StateInv, TypeOK
  <2> QED  BY <1>4, <2>1, <2>2, <2>3 DEF Proceed
<1>5. CASE Resolve(r)
  <2>1. pc[r] \in {"find", "exec", "proxy", "notify"} /\ UNCHANGED decision
    BY <1>5
    DEF Resolve, ApprovalNotFound, ApprovalFound, ExecuteReturns, ExecuteNeedsAuth, ProxyReturns,
      ProxyNeedsApproval, ProxyNeedsAuth, ProxyFails, ForwardRejection
  <2>2. CASE \E c \in Convs : ApprovalFound(r, c)
    BY <2>1, <2>2 DEF ApprovalFound, Finish, StateInv, TypeOK, ToldTruth, Stage
  <2>3. CASE ForwardRejection(r)
    BY <2>3 DEF ForwardRejection, Answer, StateInv, TypeOK, ToldTruth
  <2> QED
    BY <1>5, <2>1, <2>2, <2>3
    DEF Resolve, ApprovalNotFound, ExecuteReturns, ExecuteNeedsAuth, ProxyReturns,
      ProxyNeedsApproval, ProxyNeedsAuth, ProxyFails, AskApproval, Answer,
      Finish, StateInv, TypeOK, ToldTruth
<1>6. CASE Loop(r)
  <2>1. pc[r] \in {"llm", "call"}
    BY <1>6, LoopGoes
  <2>2. reply'[r] # "cancelled"
    <3>1. \/ UNCHANGED reply
          \/ \E what \in {"notice", "text", "approval", "auth"} : reply' = [reply EXCEPT ![r] = what]
      BY <1>6
      DEF Loop, LLMNotice, LLMText, LLMCapReached, LLMDestructive, LLMHarmless, ToolReturns,
          ToolNeedsAuth, ToolNeedsApproval, AskApproval, Finish
    <3> QED  BY <2>1, <3>1 DEF ToldTruth, StateInv, TypeOK
  <2> QED  BY <2>2
<1>7. CASE End(r)
  <2>1. ~SaveError(r)
    BY StillUnharmed
  <2>2. CASE Save(r)
    BY <2>2 DEF Save, AfterSave, ToldTruth, StateInv, TypeOK
  <2>3. CASE Reload(r)
    BY <2>3 DEF Reload, Answer, ToldTruth, StateInv, TypeOK
  <2> QED  BY <1>7, <2>1, <2>2, <2>3 DEF End
<1> QED  BY <1>1, <1>2, <1>3, <1>4, <1>5, <1>6, <1>7 DEF Next, Proceed, ToldTruth

\* What a client was told of a rejection stays true
LEMMA ToldStep ==
    ASSUME SerialConvs = Convs, MaxFaults = 0, MaxCrashes = 0, ToldInv, [Next]_vars
    PROVE  ToldInv'
<1>1. GateInv /\ GateInv'
  BY GateStep DEF ToldInv
<1>2. SerialInv /\ SerialInv' /\ StateInv /\ StateInv'
  BY <1>1 DEF GateInv, SerialInv, DecisionInv
<1>4. Unharmed /\ Unharmed'
  BY <1>2 DEF Unharmed, StateInv, TypeOK
<1>3. ASSUME NEW r \in Requests PROVE ToldTruth(r)'
  <2> SUFFICES ASSUME reply'[r] = "cancelled" PROVE ToldTruth(r)'
    BY DEF ToldTruth
  <2>1. /\ decision'[r] = decision[r] /\ decision[r] # Nil /\ ~decision[r].approve
        /\ pc'[r] \in {"save", "notify", "done"}
        /\ pc'[r] \in {"notify", "done"} =>
             \/ pc[r] \in {"notify", "done"} /\ reply[r] = "cancelled"
             \/ Save(r)
    BY <1>2, <1>4, WhoTells DEF ToldInv
  <2>2. PICK u \in Requests : u = decision[r].uuid
    BY <1>2, <2>1 DEF StateInv, TypeOK, Decisions
  <2> SUFFICES ASSUME pc'[r] \in {"notify", "done"}
               PROVE  pc'[u] \in Past /\ ~OnDisk(u)' /\ RunsOf(u)' = {}
    BY <2>1, <2>2 DEF ToldTruth
  <2>3. CASE Save(r)
    <3>1. mem[r] # Nil /\ held[r] # Nil /\ held[r].uuid = u /\ cid[r] \in Convs
      BY <1>2, <2>1, <2>2, <2>3 DEF Save, StateInv, Stage, HeldIsIssued, TypeOK
    <3>2. /\ OnDisk(u) /\ pc[u] \in Past /\ About(r, cid[r]) /\ cid[r] \in Convs /\ cid[r] = cid[u]
      BY <1>2, <3>1, HeldOnDisk
    <3>3. ~OnDisk(u)'
      BY <1>2, <2>3, <3>1, SaveSettles
    <3>4. ASSUME NEW k \in RunsOf(u) PROVE FALSE
      <4>1. /\ k.by \in Requests /\ pc[k.by] \in {"llm", "call", "save", "trySave"}
            /\ held[k.by] # Nil /\ held[k.by].uuid = u /\ decision[k.by].approve
        BY <1>1, <1>4, <3>2, <3>4 DEF GateInv, RanOnce, RunsOf, Calls
      <4>2. Resolves(k.by, u)
        BY <4>1 DEF Resolves, InFlight
      <4> QED  BY <1>2, <2>1, <3>2, <4>1, <4>2, OnlyResolver
    <3>5. RunsOf(u)' = {}
      BY <2>3, <3>4 DEF RunsOf, Save
    <3> QED  BY <1>2, <3>2, <3>3, <3>5, FlightFacts
  <2>4. CASE ~Save(r)
    <3>1. pc[r] \in {"notify", "done"} /\ reply[r] = "cancelled"
      BY <2>1, <2>4
    <3>2. pc[u] \in Past /\ ~OnDisk(u) /\ RunsOf(u) = {}
      BY <2>2, <3>1 DEF ToldInv, ToldTruth
    <3>3. ~OnDisk(u)'
      BY <1>2, <3>2, SavedByCreator DEF Saving, Past
    <3>4. ASSUME NEW k \in RunsOf(u)' PROVE FALSE
      <4>1. k \in calls' \ calls /\ k.via = u /\ k.what = "run" /\ u # Nil
        BY <3>2, <3>4, ParametersOK DEF RunsOf
      <4>2. k.by \in Requests /\ held[k.by] # Nil /\ held[k.by].uuid = u /\ ExecuteReturns(k.by)
        BY <1>2, <4>1, WhoRuns
      <4>3. mem[k.by] # Nil /\ cid[k.by] \in Convs
        BY <1>2, <4>2 DEF ExecuteReturns, StateInv, Stage, Working, TypeOK
      <4> QED  BY <1>2, <3>2, <4>2, <4>3, HeldOnDisk
    <3> QED  BY <1>2, <3>2, <3>3, <3>4, FlightFacts
  <2> QED  BY <2>3, <2>4
<1> QED  BY <1>1, <1>3 DEF ToldInv

\* Where the clients of every conversation take turns and nothing fails, an approval
\* that its rejecter was told is cancelled has not run and never does
\* (agent.go resolveApprovalFromTask, resolveApproval)
THEOREM RejectionsHold ==
    ASSUME SerialConvs = Convs, MaxFaults = 0, MaxCrashes = 0
    PROVE  Spec => []RejectionHolds
<1>1. Init => ToldInv
  BY InitGate, DistinctContents DEF Init, ToldInv, ToldTruth
<1>2. ToldInv /\ [Next]_vars => ToldInv'
  BY ToldStep
<1>3. ToldInv => RejectionHolds
  BY DEF ToldInv, ToldTruth, RejectionHolds, RunsOf
<1> QED  BY <1>1, <1>2, <1>3, PTL DEF Spec

-----------------------------------------------------------------------------
(***************************************************************************)
(* DecisionSticks, in every conversation.                                  *)
(***************************************************************************)

\* What a request has resolved is off the disk from its save on
Stuck(r) == held[r] # Nil /\ pc[r] \in {"notify", "done"} /\ faults = 0 =>
    ~OnDisk(held[r].uuid) \/ reply[r] = "error"

StickInv == GateInv /\ \A r \in Requests : Stuck(r)

\* A request that resolved an approval ends with its save or with an error
LEMMA WhoSettles ==
    ASSUME GateInv, [Next]_vars, faults' = 0,
           NEW r \in Requests, held'[r] # Nil, pc'[r] \in {"notify", "done"}
    PROVE  /\ faults = 0 /\ held'[r] = held[r]
           /\ \/ pc[r] \in {"notify", "done"} /\ reply'[r] = reply[r]
              \/ Save(r)
              \/ reply'[r] = "error"
<1> USE DEF Goto, envVars
<1>0. StateInv /\ faults \in Nat
  BY ParametersOK DEF GateInv, SerialInv, DecisionInv, StateInv, TypeOK
<1>1. CASE Crash
  BY <1>0, <1>1 DEF Crash, InFlight
<1>2. CASE UNCHANGED vars
  BY <1>2 DEF vars
<1>3. ASSUME NEW s \in Requests, s # r, Arrive(s) \/ Proceed(s)
      PROVE  /\ faults = 0 /\ held'[r] = held[r]
             /\ pc'[r] = pc[r] /\ reply'[r] = reply[r]
  <2>1. CASE Arrive(s)
    BY <1>0, <1>3, <2>1 DEF Arrive, CreateConversation, SendMessage, ContinueTask, PostApproval,
              ProcessMessage, Answer, StateInv, TypeOK
  <2>2. CASE Resolve(s)
    BY <1>0, <1>3, <2>2
    DEF Resolve, ApprovalNotFound, ApprovalFound, ExecuteReturns, ExecuteNeedsAuth, ProxyReturns,
        ProxyNeedsApproval, ProxyNeedsAuth, ProxyFails, ForwardRejection, AskApproval, Answer,
        Finish, StateInv, TypeOK
  <2>3. CASE Loop(s)
    BY <1>0, <1>3, <2>3
    DEF Loop, LLMNotice, LLMText, LLMCapReached, LLMDestructive, LLMHarmless, ToolReturns,
        ToolNeedsAuth, ToolNeedsApproval, AskApproval, Finish, StateInv, TypeOK
  <2>4. CASE End(s)
    BY <1>0, <1>3, <2>4 DEF End, Save, SaveError, Reload, Answer, StateInv, TypeOK
  <2> QED  BY <1>3, <2>1, <2>2, <2>3, <2>4 DEF Proceed
<1>4. ~Arrive(r)
  BY <1>0 DEF Arrive, CreateConversation, SendMessage, ContinueTask, PostApproval,
              StateInv, Stage
<1>5. ~Loop(r)
  <2>1. SUFFICES ASSUME Loop(r) PROVE FALSE
    OBVIOUS
  <2>2. PICK l \in {"llm", "call", "save", "trySave"} : pc' = [pc EXCEPT ![r] = l]
    BY <2>1, LoopGoes
  <2> QED  BY <1>0, <2>2 DEF StateInv, TypeOK
<1>6. CASE Resolve(r)
  <2>1. UNCHANGED faults
    BY <1>6
    DEF Resolve, ApprovalNotFound, ApprovalFound, ExecuteReturns, ExecuteNeedsAuth, ProxyReturns,
        ProxyNeedsApproval, ProxyNeedsAuth, ProxyFails, ForwardRejection
  <2>2. ~ \E c \in Convs : ApprovalFound(r, c)
    BY <1>0 DEF ApprovalFound, Finish, StateInv, TypeOK
  <2>3. CASE ApprovalNotFound(r)
    BY <1>0, <2>3 DEF ApprovalNotFound, StateInv, Stage
  <2>4. CASE ProxyFails(r) \/ ForwardRejection(r)
    BY <1>0, <2>1, <2>4 DEF ProxyFails, ForwardRejection, Answer, StateInv, TypeOK
  <2> QED
    BY <1>0, <1>6, <2>2, <2>3, <2>4
    DEF Resolve, ExecuteReturns, ExecuteNeedsAuth, ProxyReturns, ProxyNeedsApproval,
        ProxyNeedsAuth, AskApproval, Finish, StateInv, TypeOK
<1>7. CASE End(r)
  <2>1. ~Reload(r)
    BY <1>0 DEF Reload, GateInv, LocalFacts, StateInv, HeldIsIssued
  <2>2. ~SaveError(r)
    BY <1>0 DEF SaveError
  <2> QED  BY <1>7, <2>1, <2>2 DEF End, Save
<1> QED  BY <1>1, <1>2, <1>3, <1>4, <1>5, <1>6, <1>7 DEF Next, Proceed

\* A client that resolved an approval and was not told of an error never finds it
\* pending again, whatever copies other requests have read and save later, and
\* also when the process dies (agent.go resolveApproval, storage.go)
THEOREM DecisionsStick == Spec => []DecisionSticks
<1>1. Init => StickInv
  BY InitGate, DistinctContents DEF Init, StickInv, Stuck
<1>2. StickInv /\ [Next]_vars => StickInv'
  <2> SUFFICES ASSUME StickInv, [Next]_vars PROVE StickInv'
    OBVIOUS
  <2>1. GateInv /\ GateInv'
    BY GateStep DEF StickInv
  <2>2. SerialInv /\ StateInv /\ StateInv'
    BY <2>1 DEF GateInv, SerialInv, DecisionInv
  <2>3. ASSUME NEW r \in Requests PROVE Stuck(r)'
    <3> SUFFICES ASSUME held'[r] # Nil, pc'[r] \in {"notify", "done"}, faults' = 0,
                        reply'[r] # "error"
                 PROVE  ~OnDisk(held[r].uuid)'
      BY DEF Stuck
    <3>1. /\ faults = 0 /\ held[r] # Nil /\ held'[r] = held[r]
          /\ \/ Save(r)
             \/ pc[r] \in {"notify", "done"} /\ reply'[r] = reply[r]
      BY <2>1, WhoSettles
    <3>2. PICK u \in Requests : u = held[r].uuid /\ pc[u] \in Past
      BY <2>2, <3>1 DEF SerialInv, DecisionInv, HeldPast, StateInv, TypeOK, Approval
    <3>3. CASE Save(r)
      <4>1. ~OnDisk(u)'
        BY <2>2, <3>1, <3>2, <3>3, SaveSettles
      <4> QED  BY <3>1, <3>2, <4>1
    <3>4. CASE pc[r] \in {"notify", "done"} /\ reply'[r] = reply[r]
      <4>1. ~OnDisk(u)
        BY <3>1, <3>2, <3>4 DEF StickInv, Stuck
      <4>2. ~OnDisk(u)'
        BY <2>2, <3>2, <4>1, SavedByCreator DEF Past, Saving
      <4> QED  BY <3>1, <3>2, <4>2
    <3> QED  BY <3>1, <3>3, <3>4
  <2> QED  BY <2>1, <2>3 DEF StickInv
<1>3. StickInv => DecisionSticks
  <2> SUFFICES ASSUME StickInv, NEW r \in Requests, held[r] # Nil, pc[r] = "done", ~(faults > 0)
               PROVE  ~OnDisk(held[r].uuid) \/ reply[r] = "error"
    BY DEF DecisionSticks
  <2>1. faults = 0
    BY ParametersOK DEF StickInv, GateInv, SerialInv, DecisionInv, StateInv, TypeOK
  <2> QED  BY <2>1 DEF StickInv, Stuck
<1> QED  BY <1>1, <1>2, <1>3, PTL DEF Spec

=============================================================================

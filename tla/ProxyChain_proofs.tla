-------------------------- MODULE ProxyChain_proofs --------------------------
(***************************************************************************)
(* Proofs about ProxyChain, for any number of requests, tasks and actions: *)
(* until the first call fails the agents agree between two requests, and   *)
(* together they implement the approval gate.                              *)
(*                                                                         *)
(* AgentsAgree speaks of the moments between two requests only.  Agreement *)
(* says what B waits for at every moment in between, by how far the        *)
(* request has come: this is what is inductive.                            *)
(***************************************************************************)
EXTENDS ProxyChain, TLAPS

\* B's waiting tasks and what they wait for are the proxies in S
Waiting(S) == \A t \in Tasks, v \in Actions :
    tasks[t] = v <=> [task |-> t, action |-> v] \in S

\* What B waits for while A works on r
Open(r) ==
    IF pc[r] = "llm" THEN {}
    ELSE IF answer[r] # None
         THEN IF answer[r].state = "input-required"
              THEN {[task |-> answer[r].task, action |-> answer[r].action]} ELSE {}
    ELSE IF pc[r] = "prompt" THEN {} ELSE {issued[decision[r].uuid]}

\* What a message is about follows from the state of its sender
Coherent(m) ==
    /\ pc[m.by] = m.text
    /\ answer[m.by] = None
    /\ m.task = IF m.text = "prompt" THEN None ELSE issued[decision[m.by].uuid].task

Fresh(r) ==
    /\ decision[r] = None
    /\ answer[r] = None
    /\ issued[r] = None

\* The request resolves a proxy that was issued before
Resolves(r) ==
    /\ decision[r] # None
    /\ issued[decision[r].uuid] # None
    /\ decision[r].approve = (pc[r] = "approved")
    /\ pending = IF pc[r] = "approved" THEN decision[r].uuid ELSE None

\* The loop of processSimpleMessage, for a message or after an approval
Loops(r) ==
    /\ decision[r] = None => pending = None
    /\ decision[r] # None => /\ decision[r].approve
                             /\ pending = decision[r].uuid

OneAtATime == \A r, s \in Requests : InFlight(r) /\ InFlight(s) => r = s

OpenMatches == \A r \in Requests : InFlight(r) => Waiting(Open(r))

QuietMatches == Quiet => Waiting(IF pending = None THEN {} ELSE {issued[pending]})

RequestsCoherent ==
    \A r \in Requests :
        /\ pc[r] = "idle" => Fresh(r)
        /\ InFlight(r) => issued[r] = None
        /\ pc[r] \in {"approved", "rejected"} => Resolves(r)
        /\ pc[r] \in {"llm", "prompt"} => Loops(r)
        /\ pc[r] = "rejected" /\ answer[r] # None => answer[r].state = "completed"

Agreement ==
    /\ OneAtATime
    /\ OpenMatches
    /\ QuietMatches
    /\ \A m \in sent : Coherent(m)
    /\ RequestsCoherent
    /\ pending # None => issued[pending] # None

\* What has been shown to the client was asked by B, once
Records ==
    /\ \A u \in Requests : issued[u] # None => issued[u].action \in asked
    /\ \A u, w \in Requests :
          issued[u] # None /\ issued[w] # None /\ issued[u].action = issued[w].action => u = w
    /\ \A t \in Tasks : tasks[t] \in Actions => tasks[t] \in asked /\ ran[tasks[t]] = 0
    /\ \A v \in Actions : v \notin asked => ran[v] = 0
    /\ \A r \in Requests : InFlight(r) /\ answer[r] # None /\ answer[r].state = "input-required"
          => ~Shown(answer[r].action)

ChainInv == TypeOK /\ (faults = 0 => Agreement /\ Records)

-----------------------------------------------------------------------------

\* What the remote task answers, does and asks keeps its type (ContinueTask).
LEMMA ContinueType ==
    ASSUME TypeOK, NEW m \in Messages, NEW t \in Tasks, Continue(m, t)
    PROVE  /\ answer' \in [Requests -> Answers \cup {None}]
           /\ tasks' \in [Tasks -> {"none", "active"} \cup Actions]
           /\ asked' \subseteq Actions
<1>1. m.by \in Requests
    BY DEF Messages
<1>2. ASSUME NEW v \in Actions, ReturnTask(m, t, v)
      PROVE  answer' \in [Requests -> Answers \cup {None}]
  <2>1. [state |-> "input-required", task |-> t, action |-> v] \in Answers
      BY DEF Answers
  <2> QED BY <1>1, <1>2, <2>1 DEF ReturnTask, TypeOK
<1>3. ASSUME NEW state \in {"completed", "auth-required"}, ReturnTask(m, t, state)
      PROVE  answer' \in [Requests -> Answers \cup {None}]
  <2>1. [state |-> state, task |-> t] \in Answers
      BY DEF Answers
  <2>2. state \notin Actions
      BY <1>3, Distinct
  <2> QED BY <1>1, <1>3, <2>1, <2>2 DEF ReturnTask, TypeOK
<1> QED BY <1>2, <1>3 DEF Continue, TypeOK

\* Every step of the two agents and of the proxy between them keeps the types.
LEMMA ChainTypeStep == TypeOK /\ [Next]_vars => TypeOK'
<1> SUFFICES ASSUME TypeOK, [Next]_vars PROVE TypeOK'
    OBVIOUS
<1> USE DEF aVars, bVars
<1>1. ASSUME NEW r \in Requests, PostMessage(r) PROVE TypeOK'
    BY <1>1 DEF PostMessage, TypeOK, Reply, Goto
<1>2. ASSUME NEW r \in Requests, NEW u \in Requests, NEW text \in {"approved", "rejected"},
             MayResolve(r, u), Call(r, issued[u].task, text),
             decision' = [decision EXCEPT ![r] = [uuid |-> u, approve |-> text = "approved"]],
             pending' \in {pending, None},
             UNCHANGED <<issued, answer, reply, bVars, faults>>
      PROVE  TypeOK'
  <2>1. issued[u] \in Proxies
      BY <1>2 DEF MayResolve, TypeOK
  <2>2. [by |-> r, task |-> issued[u].task, text |-> text] \in Messages
      BY <2>1, <1>2 DEF Proxies, Messages, Texts
  <2>3. [uuid |-> u, approve |-> text = "approved"] \in Decisions
      BY DEF Decisions
  <2>4. text \in Texts
      BY DEF Texts
  <2> QED BY <1>2, <2>2, <2>3, <2>4 DEF Call, Goto, TypeOK
<1>3. ASSUME NEW r \in Requests, NEW u \in Requests, Approve(r, u) PROVE TypeOK'
  <2>1. decision' = [decision EXCEPT ![r] = [uuid |-> u, approve |-> "approved" = "approved"]]
      BY <1>3 DEF Approve
  <2> QED BY <1>2, <1>3, <2>1 DEF Approve
<1>4. ASSUME NEW r \in Requests, NEW u \in Requests, Reject(r, u) PROVE TypeOK'
  <2>1. decision' = [decision EXCEPT ![r] = [uuid |-> u, approve |-> "rejected" = "approved"]]
      BY <1>4 DEF Reject
  <2> QED BY <1>2, <1>4, <2>1 DEF Reject
<1>5. ASSUME NEW r \in Requests, NEW u \in Requests, ApprovalNotFound(r, u) PROVE TypeOK'
    BY <1>5 DEF ApprovalNotFound, TypeOK, Reply, Goto
<1>6. ASSUME NEW r \in Requests, Work(r) PROVE TypeOK'
  <2>1. CASE Delegate(r)
      BY <2>1 DEF Delegate, Call, Goto, TypeOK, Messages, Texts
  <2>2. CASE ReceiveQuestion(r)
    <3>1. answer[r] \in Answers /\ answer[r].state = "input-required"
        BY <2>2 DEF ReceiveQuestion, Returned, TypeOK
    <3>2. answer[r].task \in Tasks /\ answer[r].action \in Actions
        BY <3>1 DEF Answers
    <3>3. [task |-> answer[r].task, action |-> answer[r].action] \in Proxies
        BY <3>2 DEF Proxies
    <3> QED BY <2>2, <3>3 DEF ReceiveQuestion, Reply, Goto, TypeOK
  <2>3. CASE Finish(r) \/ ReceiveResult(r) \/ ReceiveAuthRequired(r) \/ RejectionForwarded(r)
      BY <2>3 DEF Finish, ReceiveResult, ReceiveAuthRequired, RejectionForwarded,
                  Reply, Goto, TypeOK
  <2> QED BY <1>6, <2>1, <2>2, <2>3 DEF Work
<1>7. ASSUME NEW r \in Requests, CallFails(r) \/ CrashA(r) PROVE TypeOK'
  <2>1. faults' \in 0 .. MaxFaults /\ sent' \subseteq Messages
      BY <1>7, Distinct DEF CallFails, CrashA, Fault, MayLose, TypeOK
  <2> QED BY <1>7, <2>1 DEF CallFails, CrashA, Reply, Goto, TypeOK
<1>8. ASSUME NEW m \in sent, NEW t \in Tasks,
             NewTask(m, t) \/ ResolveTask(m, t) \/ MessageTask(m, t)
      PROVE  TypeOK'
  <2>1. m \in Messages
      BY <1>8 DEF TypeOK
  <2>2. sent' \subseteq Messages /\ UNCHANGED <<pc, aVars, faults>>
      BY <1>8 DEF NewTask, ResolveTask, MessageTask, Taken, TypeOK
  <2>3. ran' \in [Actions -> Nat]
      BY <1>8 DEF NewTask, ResolveTask, MessageTask, TypeOK
  <2>4. CASE Continue(m, t)
      BY <2>1, <2>2, <2>3, <2>4, ContinueType DEF TypeOK
  <2>5. CASE ~Continue(m, t)
    <3>1. /\ tasks' = [tasks EXCEPT ![t] = "active"]
          /\ ReturnTask(m, t, "completed")
          /\ asked' = asked
        BY <1>8, <2>5 DEF NewTask, ResolveTask, MessageTask
    <3>2. "completed" \notin Actions /\ [state |-> "completed", task |-> t] \in Answers
        BY Distinct DEF Answers
    <3>3. answer' \in [Requests -> Answers \cup {None}]
        BY <3>1, <3>2 DEF ReturnTask, TypeOK
    <3> QED BY <2>2, <2>3, <3>1, <3>3 DEF TypeOK
  <2> QED BY <2>4, <2>5
<1>9. CASE UNCHANGED vars
    BY <1>9 DEF vars, TypeOK
<1> QED BY <1>1, <1>3, <1>4, <1>5, <1>6, <1>7, <1>8, <1>9 DEF Next, Ask, Serve

\* Both agents' records have the types of the Go structures
THEOREM ChainTypeCorrect == Spec => []TypeOK
<1>1. Init => TypeOK
    BY Distinct DEF Init, TypeOK
<1> QED BY <1>1, ChainTypeStep, PTL DEF Spec

-----------------------------------------------------------------------------

\* A request that A begins to work on, with nothing else changed at B
LEMMA Begins ==
    ASSUME TypeOK, TypeOK', Agreement, Records, NEW r \in Requests, NEW l \in {"llm"} \cup Texts,
           pc[r] = "idle", Quiet, Goto(r, l),
           UNCHANGED <<issued, answer, bVars>>,
           \A s \in Requests \ {r} : decision'[s] = decision[s],
           l = "llm" => UNCHANGED <<decision, pending, sent>> /\ pending = None,
           l # "llm" =>
              /\ l \in {"approved", "rejected"}
              /\ pending # None
              /\ decision'[r] = [uuid |-> pending, approve |-> l = "approved"]
              /\ pending' = (IF l = "approved" THEN pending ELSE None)
              /\ sent' = sent \cup {[by |-> r, task |-> issued[pending].task, text |-> l]}
    PROVE  Agreement' /\ Records'
<1> USE DEF bVars
<1>0. /\ \A s \in Requests : ~InFlight(s)
      /\ \A s \in Requests : InFlight(s)' <=> s = r
      /\ \A s \in Requests \ {r} : pc'[s] = pc[s]
      /\ pc'[r] = l
    BY DEF Quiet, InFlight, Goto, TypeOK
<1>1. Fresh(r) /\ answer'[r] = None /\ issued'[r] = None
    BY DEF Agreement, RequestsCoherent, Fresh
<1>2. Waiting(IF pending = None THEN {} ELSE {issued[pending]})
    BY DEF Agreement, QuietMatches
<1>3. OneAtATime'
    BY <1>0 DEF OneAtATime
<1>4. ASSUME NEW s \in Requests, InFlight(s)' PROVE Waiting(Open(s))'
  <2>1. s = r
      BY <1>0, <1>4
  <2>2. Open(r)' = IF pending = None THEN {} ELSE {issued[pending]}
      BY <1>0, <1>1 DEF Open, Texts
  <2> QED BY <2>1, <2>2, <1>2 DEF Waiting
<1>5. QuietMatches'
    BY <1>0 DEF QuietMatches, Quiet
<1>6. ASSUME NEW m \in sent' PROVE Coherent(m)'
  <2>1. sent = {}
    <3>1. ASSUME NEW k \in sent PROVE FALSE
      <4>1. k.by \in Requests /\ k.text \in Texts /\ pc[k.by] = k.text
          BY <3>1 DEF Agreement, Coherent, TypeOK, Messages
      <4> QED BY <4>1, <1>0 DEF InFlight
    <3> QED BY <3>1
  <2>2. l # "llm" /\ m = [by |-> r, task |-> issued[pending].task, text |-> l]
      BY <2>1, <1>6
  <2>3. decision'[r].uuid = pending
      BY <2>2
  <2> QED BY <2>2, <2>3, <1>0, <1>1 DEF Coherent
<1>7. ASSUME NEW s \in Requests
      PROVE  /\ pc'[s] = "idle" => Fresh(s)'
             /\ InFlight(s)' => issued'[s] = None
             /\ pc'[s] \in {"approved", "rejected"} => Resolves(s)'
             /\ pc'[s] \in {"llm", "prompt"} => Loops(s)'
             /\ pc'[s] = "rejected" /\ answer'[s] # None => answer'[s].state = "completed"
  <2>1. CASE s = r
    <3>1. CASE l = "llm"
        BY <2>1, <3>1, <1>0, <1>1 DEF Loops, Fresh
    <3>2. CASE l # "llm"
      <4>1. decision'[r] # None /\ decision'[r].uuid = pending /\ decision'[r].approve = (l = "approved")
        <5>1. [uuid |-> pending, approve |-> l = "approved"] \in Decisions
            BY <3>2 DEF TypeOK, Decisions
        <5>2. decision'[r] # None
            BY <5>1, <3>2, Distinct
        <5> QED BY <5>2, <3>2
      <4>2. issued'[pending] # None
          BY <3>2 DEF Agreement
      <4> QED BY <2>1, <3>2, <4>1, <4>2, <1>0, <1>1 DEF Resolves
    <3> QED BY <3>1, <3>2
  <2>2. CASE s # r
      BY <2>2, <1>0 DEF Agreement, RequestsCoherent, Fresh, InFlight, Texts
  <2> QED BY <2>1, <2>2
<1>8. pending' # None => issued'[pending'] # None
    BY DEF Agreement
<1>9. Records'
    BY <1>0, <1>1 DEF Records, Shown
<1> QED BY <1>3, <1>4, <1>5, <1>6, <1>7, <1>8, <1>9 DEF Agreement, OpenMatches, RequestsCoherent

\* A request that ends: A's file says what B waits for
LEMMA Ends ==
    ASSUME TypeOK, TypeOK', Agreement, NEW r \in Requests,
           InFlight(r), Goto(r, "done"),
           answer[r] # None \/ pc[r] = "llm",
           UNCHANGED <<decision, sent, answer, bVars>>,
           \A s \in Requests \ {r} : issued'[s] = issued[s],
           pending' # None => issued'[pending'] # None,
           Open(r) = IF pending' = None THEN {} ELSE {issued'[pending']}
    PROVE  Agreement'
<1> USE DEF bVars
<1>0. /\ \A s \in Requests : InFlight(s) <=> s = r
      /\ \A s \in Requests : ~InFlight(s)'
      /\ \A s \in Requests \ {r} : pc'[s] = pc[s]
      /\ pc'[r] = "done"
    BY DEF Agreement, OneAtATime, InFlight, Goto, TypeOK, Texts
<1>1. QuietMatches'
  <2>1. Waiting(Open(r))
      BY DEF Agreement, OpenMatches
  <2>2. Waiting(IF pending' = None THEN {} ELSE {issued'[pending']})
      BY <2>1
  <2> QED BY <2>2 DEF QuietMatches, Waiting
<1>2. sent = {}
  <2>1. ASSUME NEW m \in sent PROVE FALSE
    <3>1. m.by \in Requests /\ m.text \in Texts /\ pc[m.by] = m.text /\ answer[m.by] = None
        BY <2>1 DEF Agreement, Coherent, TypeOK, Messages
    <3>2. m.by = r
        BY <3>1, <1>0 DEF InFlight
    <3> QED BY <3>1, <3>2 DEF Texts
  <2> QED BY <2>1
<1>3. RequestsCoherent'
    BY <1>0 DEF Agreement, RequestsCoherent, Fresh, InFlight, Texts
<1> QED BY <1>0, <1>1, <1>2, <1>3 DEF Agreement, OneAtATime, OpenMatches, Coherent

\* A goes on with r in its loop
LEMMA GoesOn ==
    ASSUME TypeOK, TypeOK', Agreement, Records, NEW r \in Requests,
           InFlight(r), Open(r) = {},
           \/ Goto(r, "llm") /\ UNCHANGED <<sent, answer>>
              /\ pc[r] \in {"prompt", "approved"} /\ answer[r] # None
           \/ /\ Goto(r, "prompt")
              /\ pc[r] = "llm"
              /\ sent' = sent \cup {[by |-> r, task |-> None, text |-> "prompt"]}
              /\ answer' = [answer EXCEPT ![r] = None],
           UNCHANGED <<aVars, bVars>>
    PROVE  Agreement' /\ Records'
<1> USE DEF aVars, bVars
<1>0. /\ \A s \in Requests : InFlight(s) <=> s = r
      /\ \A s \in Requests : InFlight(s)' <=> s = r
      /\ \A s \in Requests \ {r} : pc'[s] = pc[s] /\ answer'[s] = answer[s]
      /\ pc'[r] \in {"llm", "prompt"}
      /\ pc'[r] = "prompt" => answer'[r] = None
      /\ answer'[r] \in {answer[r], None}
    BY DEF Agreement, OneAtATime, InFlight, Goto, TypeOK, Texts
<1>1. Open(r)' = {}
    BY <1>0 DEF Open
<1>2. OpenMatches'
    BY <1>0, <1>1 DEF OpenMatches, Agreement, Waiting
<1>3. sent = {}
  <2>1. ASSUME NEW m \in sent PROVE FALSE
    <3>1. m.by \in Requests /\ m.text \in Texts /\ pc[m.by] = m.text /\ answer[m.by] = None
        BY <2>1 DEF Agreement, Coherent, TypeOK, Messages
    <3>2. m.by = r
        BY <3>1, <1>0 DEF InFlight
    <3> QED BY <3>1, <3>2 DEF Texts
  <2> QED BY <2>1
<1>4. ASSUME NEW m \in sent' PROVE Coherent(m)'
    BY <1>0, <1>3, <1>4 DEF Coherent, Goto, TypeOK
<1>5. Loops(r)'
  <2>1. pc[r] \in {"llm", "prompt"} => Loops(r)
      BY DEF Agreement, RequestsCoherent
  <2>2. pc[r] = "approved" => Resolves(r)
      BY DEF Agreement, RequestsCoherent
  <2>3. pc[r] \in {"llm", "prompt", "approved"}
      OBVIOUS
  <2> QED BY <2>1, <2>2, <2>3 DEF Loops, Resolves
<1>6. RequestsCoherent'
    BY <1>0, <1>5 DEF Agreement, RequestsCoherent, Fresh, Loops, Resolves, InFlight, Texts
<1>7. Records'
  <2>1. ASSUME NEW s \in Requests, InFlight(s)', answer'[s] # None
        PROVE  InFlight(s) /\ answer'[s] = answer[s]
      BY <1>0, <2>1
  <2> QED BY <2>1 DEF Records, Shown
<1> QED BY <1>0, <1>2, <1>4, <1>6, <1>7 DEF Agreement, OneAtATime, QuietMatches, Quiet

\* B handles the message of the request that A is working on: state is what its
\* task is in afterwards, and the answer says so
LEMMA Handles ==
    ASSUME TypeOK, TypeOK', Agreement, Records,
           NEW m \in sent, NEW t \in Tasks, NEW state \in {"active"} \cup Actions,
           NEW ans \in Answers,
           tasks' = [tasks EXCEPT ![t] = state],
           answer' = [answer EXCEPT ![m.by] = ans],
           \/ state = "active" /\ ans.state # "input-required" /\ asked' = asked
           \/ /\ state \in Actions \ asked
              /\ ans = [state |-> "input-required", task |-> t, action |-> state]
              /\ asked' = asked \cup {state},
           m.text = "rejected" => ans.state = "completed",
           \A s \in Tasks \ {t} : tasks[s] \notin Actions,
           \A v \in Actions : tasks[t] # v => ran'[v] = ran[v],
           Taken(m)
    PROVE  Agreement' /\ Records'
<1> USE DEF aVars, Taken
<1> DEFINE r == m.by
<1>0. /\ r \in Requests
      /\ m.text \in Texts
      /\ pc[r] = m.text
      /\ answer[r] = None
    BY DEF TypeOK, Messages, Agreement, Coherent
<1> HIDE DEF r
<1>1. /\ \A s \in Requests : InFlight(s) <=> s = r
      /\ \A s \in Requests \ {r} : answer'[s] = answer[s]
      /\ answer'[r] = ans
      /\ ans # None
    BY <1>0, Distinct DEF Agreement, OneAtATime, InFlight, TypeOK, r
<1>2. \A s \in Requests : InFlight(s)' <=> InFlight(s)
    BY DEF InFlight
<1>3. sent' = {}
  <2>1. ASSUME NEW k \in sent PROVE k = m
    <3>1. /\ k \in Messages /\ m \in Messages /\ Coherent(k) /\ Coherent(m)
        BY <2>1 DEF TypeOK, Agreement
    <3>2. k.by = r /\ m.by = r
      <4>1. k.by \in Requests /\ k.text \in Texts /\ pc[k.by] = k.text
          BY <3>1 DEF Coherent, Messages
      <4> QED BY <4>1, <1>1 DEF InFlight, r
    <3>3. k.text = m.text /\ k.task = m.task /\ k.by = m.by
        BY <3>1, <3>2 DEF Coherent
    <3> QED BY <3>1, <3>3 DEF Messages
  <2> QED BY <2>1
<1>4. Waiting(Open(r))'
  <2>1. "active" \notin Actions
      BY Distinct
  <2>2. Open(r)' = IF ans.state = "input-required"
                   THEN {[task |-> ans.task, action |-> ans.action]} ELSE {}
      BY <1>0, <1>1 DEF Open, Texts
  <2>3. Open(r)' = IF state \in Actions THEN {[task |-> t, action |-> state]} ELSE {}
    <3>1. CASE state = "active" /\ ans.state # "input-required"
        BY <3>1, <2>1, <2>2
    <3>2. CASE ans = [state |-> "input-required", task |-> t, action |-> state]
               /\ state \in Actions
      <4>1. ans.state = "input-required" /\ ans.task = t /\ ans.action = state
          BY <3>2
      <4> QED BY <4>1, <3>2, <2>2
    <3> QED BY <3>1, <3>2
  <2>4. \A s \in Tasks : tasks'[s] = IF s = t THEN state ELSE tasks[s]
      BY DEF TypeOK
  <2>5. \A s \in Tasks, v \in Actions :
            tasks'[s] = v <=> [task |-> s, action |-> v] \in Open(r)'
      BY <2>1, <2>3, <2>4
  <2> QED BY <2>5 DEF Waiting
<1>5. OpenMatches'
    BY <1>1, <1>2, <1>4 DEF OpenMatches
<1>6. QuietMatches'
    BY <1>0, <1>1, <1>2 DEF QuietMatches, Quiet
<1>7. RequestsCoherent'
    BY <1>0, <1>1, <1>2 DEF Agreement, RequestsCoherent, Fresh, Resolves, Loops, InFlight, Texts, r
<1>8. Records'
  <2>1. \A s \in Tasks : tasks'[s] = IF s = t THEN state ELSE tasks[s]
      BY DEF TypeOK
  <2>2. ASSUME NEW s \in Tasks, tasks'[s] \in Actions
        PROVE  tasks'[s] \in asked' /\ ran'[tasks'[s]] = 0
    <3>1. s = t /\ state \in Actions \ asked /\ tasks'[s] = state
        BY <2>1, <2>2, Distinct
    <3>2. tasks[t] # state
        BY <3>1 DEF Records
    <3>3. ran'[state] = ran[state] /\ ran[state] = 0
        BY <3>1, <3>2 DEF Records
    <3>4. state \in asked'
        BY <3>1, Distinct
    <3> QED BY <3>1, <3>3, <3>4
  <2>3. ASSUME NEW v \in Actions, v \notin asked' PROVE ran'[v] = 0
    <3>1. v \notin asked /\ tasks[t] # v
        BY <2>3 DEF Records
    <3> QED BY <3>1 DEF Records
  <2>4. ASSUME NEW s \in Requests, InFlight(s)', answer'[s] # None,
               answer'[s].state = "input-required"
        PROVE  ~Shown(answer'[s].action)
    <3>1. ans.state = "input-required" /\ answer'[s] = ans
        BY <2>4, <1>1, <1>2
    <3>2. answer'[s].action = state /\ state \in Actions \ asked
        BY <3>1
    <3> QED BY <3>2 DEF Records, Shown
  <2>5. asked \subseteq asked'
      OBVIOUS
  <2> QED BY <2>2, <2>3, <2>4, <2>5 DEF Records, Shown
<1> QED BY <1>1, <1>2, <1>3, <1>5, <1>6, <1>7, <1>8 DEF Agreement, OneAtATime

\* A request that is answered at once
LEMMA Refused ==
    ASSUME TypeOK, Agreement, Records, NEW r \in Requests, pc[r] = "idle", Goto(r, "done"),
           UNCHANGED <<decision, pending, issued, sent, answer, bVars>>
    PROVE  Agreement' /\ Records'
<1> USE DEF bVars
<1>0. /\ \A s \in Requests : InFlight(s)' <=> InFlight(s)
      /\ \A s \in Requests \ {r} : pc'[s] = pc[s]
      /\ pc'[r] = "done"
      /\ ~InFlight(r)
    BY DEF InFlight, Goto, TypeOK, Texts
<1>1. OneAtATime' /\ QuietMatches'
    BY <1>0 DEF Agreement, OneAtATime, QuietMatches, Quiet, Waiting
<1>2. ASSUME NEW s \in Requests, InFlight(s)' PROVE Waiting(Open(s))'
  <2>1. InFlight(s) /\ pc'[s] = pc[s]
      BY <1>0, <1>2
  <2>2. Waiting(Open(s))
      BY <2>1 DEF Agreement, OpenMatches
  <2> QED BY <2>1, <2>2 DEF Open, Waiting
<1>3. ASSUME NEW m \in sent' PROVE Coherent(m)'
  <2>1. Coherent(m) /\ m.by \in Requests /\ m.text \in Texts
      BY <1>3 DEF Agreement, TypeOK, Messages
  <2>2. m.by # r
      BY <2>1 DEF Coherent, Texts
  <2> QED BY <2>1, <2>2, <1>0 DEF Coherent
<1>4. RequestsCoherent'
    BY <1>0 DEF Agreement, RequestsCoherent, Fresh, Resolves, Loops
<1>5. Records'
    BY <1>0 DEF Records, Shown
<1> QED BY <1>1, <1>2, <1>3, <1>4, <1>5 DEF Agreement, OpenMatches

\* The messages B handles are those Handles speaks of
LEMMA ServeStep ==
    ASSUME TypeOK, TypeOK', Agreement, Records, NEW m \in sent, NEW t \in Tasks,
           NewTask(m, t) \/ ResolveTask(m, t) \/ MessageTask(m, t)
    PROVE  /\ Agreement' /\ Records'
           /\ ResolveTask(m, t) => /\ InFlight(m.by)
                                   /\ pc[m.by] = m.text
                                   /\ decision[m.by] # None
                                   /\ issued[decision[m.by].uuid] # None
                                   /\ issued[decision[m.by].uuid].action = tasks[t]
                                   /\ decision[m.by].approve = (m.text = "approved")
           /\ ~MessageTask(m, t)
<1> DEFINE r == m.by
<1>0. /\ r \in Requests /\ m \in Messages
      /\ m.text \in Texts
      /\ pc[r] = m.text
      /\ answer[r] = None
      /\ InFlight(r)
      /\ m.task = IF m.text = "prompt" THEN None ELSE issued[decision[r].uuid].task
      /\ Waiting(Open(r))
    BY DEF TypeOK, Messages, Agreement, Coherent, InFlight, OpenMatches
<1>1. CASE m.text = "prompt"
  <2>1. Open(r) = {} /\ m.task = None
      BY <1>0, <1>1 DEF Open
  <2>2. \A s \in Tasks : tasks[s] \notin Actions
      BY <2>1, <1>0 DEF Waiting
  <2>3. NewTask(m, t) /\ ~ResolveTask(m, t) /\ ~MessageTask(m, t)
      BY <2>1, Distinct DEF ResolveTask, MessageTask
  <2>4. Continue(m, t) /\ Taken(m) /\ ran' = ran
      BY <2>3 DEF NewTask
  <2>5. CASE \E state \in {"completed", "auth-required"} :
                ReturnTask(m, t, state) /\ tasks' = [tasks EXCEPT ![t] = "active"] /\ asked' = asked
    <3>1. PICK state \in {"completed", "auth-required"} :
              ReturnTask(m, t, state) /\ tasks' = [tasks EXCEPT ![t] = "active"] /\ asked' = asked
        BY <2>5
    <3> DEFINE ans == [state |-> state, task |-> t]
    <3>2. ans \in Answers /\ state \notin Actions
        BY Distinct DEF Answers
    <3>3. answer' = [answer EXCEPT ![m.by] = ans]
        BY <3>1, <3>2, <1>0 DEF ReturnTask
    <3>4. ans.state = state /\ ans.state # "input-required"
        OBVIOUS
    <3> HIDE DEF ans
    <3>5. Agreement' /\ Records'
        BY <3>1, <3>2, <3>3, <3>4, <2>2, <2>4, <1>1, Handles
    <3> QED BY <3>5, <2>3
  <2>6. CASE \E v \in Actions \ asked :
                ReturnTask(m, t, v) /\ tasks' = [tasks EXCEPT ![t] = v] /\ asked' = asked \cup {v}
    <3>1. PICK v \in Actions \ asked :
              ReturnTask(m, t, v) /\ tasks' = [tasks EXCEPT ![t] = v] /\ asked' = asked \cup {v}
        BY <2>6
    <3> DEFINE ans == [state |-> "input-required", task |-> t, action |-> v]
    <3>2. ans \in Answers
        BY DEF Answers
    <3>3. answer' = [answer EXCEPT ![m.by] = ans]
        BY <3>1, <1>0 DEF ReturnTask
    <3>5. Agreement' /\ Records'
        BY <3>1, <3>2, <3>3, <2>2, <2>4, <1>1, Handles
    <3> QED BY <3>5, <2>3
  <2> QED BY <2>4, <2>5, <2>6 DEF Continue
<1>2. CASE m.text # "prompt"
  <2> DEFINE p == issued[decision[r].uuid]
  <2>1. Resolves(r) /\ pc[r] \in {"approved", "rejected"}
      BY <1>0, <1>2 DEF Agreement, RequestsCoherent, Texts
  <2>2. p \in Proxies
      BY <2>1, <1>0, Distinct DEF Resolves, TypeOK, Decisions
  <2>3. p.task \in Tasks /\ p.action \in Actions /\ p = [task |-> p.task, action |-> p.action]
      BY <2>2 DEF Proxies
  <2>4. Open(r) = {p} /\ m.task = p.task
      BY <1>0, <1>2 DEF Open, Texts
  <2> HIDE DEF p
  <2>5. \A s \in Tasks, v \in Actions : tasks[s] = v <=> [task |-> s, action |-> v] = p
      BY <2>4, <1>0 DEF Waiting
  <2>6. /\ tasks[p.task] = p.action
        /\ \A s \in Tasks \ {p.task} : tasks[s] \notin Actions
    <3>1. tasks[p.task] = p.action
        BY <2>3, <2>5
    <3>2. ASSUME NEW s \in Tasks, tasks[s] \in Actions PROVE s = p.task
      <4>1. [task |-> s, action |-> tasks[s]] = p
          BY <3>2, <2>5
      <4> QED BY <4>1
    <3> QED BY <3>1, <3>2
  <2>7. ResolveTask(m, t) /\ t = p.task /\ ~NewTask(m, t) /\ ~MessageTask(m, t)
      BY <2>3, <2>4, <2>6, Distinct DEF NewTask, ResolveTask, MessageTask
  <2>8. /\ InFlight(r) /\ pc[r] = m.text /\ decision[r] # None /\ p # None
        /\ p.action = tasks[t]
        /\ decision[r].approve = (m.text = "approved")
      BY <1>0, <2>1, <2>6, <2>7 DEF Resolves, p
  <2>9. /\ Taken(m)
        /\ \A v \in Actions : tasks[t] # v => ran'[v] = ran[v]
        /\ \A s \in Tasks \ {t} : tasks[s] \notin Actions
      BY <2>6, <2>7 DEF ResolveTask, TypeOK
  <2>10. CASE \E state \in {"completed", "auth-required"} :
                /\ ReturnTask(m, t, state) /\ tasks' = [tasks EXCEPT ![t] = "active"]
                /\ asked' = asked
                /\ m.text = "rejected" => state = "completed"
    <3>1. PICK state \in {"completed", "auth-required"} :
                /\ ReturnTask(m, t, state) /\ tasks' = [tasks EXCEPT ![t] = "active"]
                /\ asked' = asked
                /\ m.text = "rejected" => state = "completed"
        BY <2>10
    <3> DEFINE ans == [state |-> state, task |-> t]
    <3>2. ans \in Answers /\ state \notin Actions
        BY Distinct DEF Answers
    <3>3. answer' = [answer EXCEPT ![m.by] = ans]
        BY <3>1, <3>2, <1>0 DEF ReturnTask
    <3>4. ans.state = state /\ ans.state # "input-required"
        OBVIOUS
    <3> HIDE DEF ans
    <3>5. Agreement' /\ Records'
        BY <3>1, <3>2, <3>3, <3>4, <2>9, Handles
    <3> QED BY <3>5, <2>7, <2>8 DEF p
  <2>11. CASE /\ m.text # "rejected"
              /\ \E v \in Actions \ asked :
                    ReturnTask(m, t, v) /\ tasks' = [tasks EXCEPT ![t] = v] /\ asked' = asked \cup {v}
    <3>1. PICK v \in Actions \ asked :
              ReturnTask(m, t, v) /\ tasks' = [tasks EXCEPT ![t] = v] /\ asked' = asked \cup {v}
        BY <2>11
    <3> DEFINE ans == [state |-> "input-required", task |-> t, action |-> v]
    <3>2. ans \in Answers
        BY DEF Answers
    <3>3. answer' = [answer EXCEPT ![m.by] = ans]
        BY <3>1, <1>0 DEF ReturnTask
    <3>5. Agreement' /\ Records'
        BY <3>1, <3>2, <3>3, <2>9, <2>11, Handles
    <3> QED BY <3>5, <2>7, <2>8 DEF p
  <2>12. CASE IsApproval(m.text)
      BY <2>7, <2>10, <2>11, <2>12 DEF ResolveTask, Continue, IsApproval
  <2>13. CASE ~IsApproval(m.text)
      BY <2>7, <2>10, <2>13 DEF ResolveTask
  <2> QED BY <2>12, <2>13
<1> QED BY <1>1, <1>2

\* Agreement and Records are kept by every step but a failed call
LEMMA AgreementStep ==
    ASSUME TypeOK, TypeOK', Agreement, Records, faults' = 0, [Next]_vars
    PROVE  Agreement' /\ Records'
<1> USE DEF aVars, bVars
<1>1. ASSUME NEW r \in Requests, PostMessage(r) PROVE Agreement' /\ Records'
  <2>1. CASE pending # None
      BY <1>1, <2>1, Refused DEF PostMessage, Reply
  <2>2. CASE pending = None
    <3>1. /\ pc[r] = "idle" /\ Quiet /\ Goto(r, "llm")
          /\ UNCHANGED <<decision, pending, sent, issued, answer, bVars>>
        BY <1>1, <2>2 DEF PostMessage
    <3> QED BY <3>1, <2>2, Begins
  <2> QED BY <2>1, <2>2
<1>2. ASSUME NEW r \in Requests, NEW u \in Requests, ApprovalNotFound(r, u)
      PROVE  Agreement' /\ Records'
    BY <1>2, Refused DEF ApprovalNotFound, Reply
<1>3. ASSUME NEW r \in Requests, NEW u \in Requests, Approve(r, u) \/ Reject(r, u)
      PROVE  Agreement' /\ Records'
  <2> DEFINE l == IF Approve(r, u) THEN "approved" ELSE "rejected"
  <2>1. /\ pc[r] = "idle" /\ Quiet /\ pending = u /\ pending # None
        /\ UNCHANGED <<issued, answer, bVars>>
      BY <1>3, Distinct DEF Approve, Reject, MayResolve
  <2>2. /\ Goto(r, l)
        /\ decision' = [decision EXCEPT ![r] = [uuid |-> u, approve |-> l = "approved"]]
        /\ pending' = (IF l = "approved" THEN pending ELSE None)
        /\ sent' = sent \cup {[by |-> r, task |-> issued[u].task, text |-> l]}
      BY <1>3 DEF Approve, Reject, Call
  <2>3. l \in {"approved", "rejected"}
      OBVIOUS
  <2> HIDE DEF l
  <2>4. /\ \A s \in Requests \ {r} : decision'[s] = decision[s]
        /\ decision'[r] = [uuid |-> u, approve |-> l = "approved"]
      BY <2>2 DEF TypeOK
  <2> QED BY <2>1, <2>2, <2>3, <2>4, Begins DEF Texts
<1>4. ASSUME NEW r \in Requests, Delegate(r) PROVE Agreement' /\ Records'
  <2>1. InFlight(r) /\ Open(r) = {}
      BY <1>4 DEF Delegate, InFlight, Open
  <2> QED BY <1>4, <2>1, GoesOn DEF Delegate, Call
<1>5. ASSUME NEW r \in Requests, ReceiveResult(r) PROVE Agreement' /\ Records'
  <2>1. InFlight(r) /\ Open(r) = {}
      BY <1>5 DEF ReceiveResult, Returned, InFlight, Open, Texts
  <2> QED BY <1>5, <2>1, GoesOn DEF ReceiveResult, Returned
<1>6. ASSUME NEW r \in Requests, Finish(r) \/ ReceiveAuthRequired(r) \/ RejectionForwarded(r)
      PROVE  Agreement' /\ Records'
  <2>1. /\ InFlight(r) /\ Open(r) = {}
        /\ answer[r] # None \/ pc[r] = "llm"
      BY <1>6 DEF Finish, ReceiveAuthRequired, RejectionForwarded, Returned, InFlight, Open,
                  Texts, Agreement, RequestsCoherent
  <2>2. /\ Goto(r, "done")
        /\ pending' = None
        /\ UNCHANGED <<decision, issued, sent, answer, bVars>>
      BY <1>6 DEF Finish, ReceiveAuthRequired, RejectionForwarded, Reply,
                  Agreement, RequestsCoherent, Resolves
  <2>3. Agreement'
      BY <2>1, <2>2, Ends
  <2>4. \A s \in Requests : InFlight(s)' => InFlight(s)
      BY <2>2 DEF InFlight, Goto, TypeOK, Texts
  <2>5. Records'
      BY <2>2, <2>4 DEF Records, Shown
  <2> QED BY <2>3, <2>5
<1>7. ASSUME NEW r \in Requests, ReceiveQuestion(r) PROVE Agreement' /\ Records'
  <2> DEFINE p == [task |-> answer[r].task, action |-> answer[r].action]
  <2>1. /\ InFlight(r) /\ answer[r] # None /\ answer[r].state = "input-required"
        /\ Open(r) = {p}
      BY <1>7 DEF ReceiveQuestion, Returned, InFlight, Open, Texts
  <2>2. /\ issued'[r] = p
        /\ \A s \in Requests \ {r} : issued'[s] = issued[s]
        /\ pending' = r
        /\ Goto(r, "done")
        /\ UNCHANGED <<decision, sent, answer, bVars>>
      BY <1>7 DEF ReceiveQuestion, Reply, TypeOK
  <2>3. p \in Proxies /\ p # None /\ r # None
    <3>1. answer[r] \in Answers
        BY <2>1 DEF TypeOK
    <3>2. answer[r].task \in Tasks /\ answer[r].action \in Actions
        BY <2>1, <3>1 DEF Answers
    <3> QED BY <3>2, Distinct DEF Proxies
  <2> HIDE DEF p
  <2>4. Agreement'
      BY <2>1, <2>2, <2>3, Ends
  <2>5. p.action \in asked /\ ~Shown(p.action)
    <3>1. Waiting({p}) /\ p.task \in Tasks /\ p.action \in Actions
          /\ p = [task |-> p.task, action |-> p.action]
        BY <2>1, <2>3 DEF Agreement, OpenMatches, Proxies
    <3>2. tasks[p.task] = p.action
        BY <3>1 DEF Waiting
    <3>3. p.action = answer[r].action
        BY DEF p
    <3> QED BY <3>1, <3>2, <3>3, <2>1 DEF Records
  <2>6. \A s \in Requests : ~InFlight(s)'
      BY <2>1, <2>2 DEF Agreement, OneAtATime, InFlight, Goto, TypeOK, Texts
  <2>7. ASSUME NEW s \in Requests, NEW w \in Requests, issued'[s] # None, issued'[w] # None,
               issued'[s].action = issued'[w].action
        PROVE  s = w
    <3>1. CASE s = r /\ w # r
        BY <3>1, <2>7, <2>2, <2>5 DEF Shown
    <3>2. CASE s # r /\ w = r
        BY <3>2, <2>7, <2>2, <2>5 DEF Shown
    <3>3. CASE s # r /\ w # r
        BY <3>3, <2>7, <2>2 DEF Records
    <3> QED BY <3>1, <3>2, <3>3
  <2>8. Records'
      BY <2>2, <2>5, <2>6, <2>7 DEF Records
  <2> QED BY <2>4, <2>8
<1>8. ASSUME NEW r \in Requests, CallFails(r) \/ CrashA(r) PROVE FALSE
    BY <1>8 DEF CallFails, CrashA, Fault, TypeOK
<1>9. ASSUME NEW m \in sent, NEW t \in Tasks,
             NewTask(m, t) \/ ResolveTask(m, t) \/ MessageTask(m, t)
      PROVE  Agreement' /\ Records'
    BY <1>9, ServeStep
<1>10. CASE UNCHANGED vars
    BY <1>10 DEF vars, Agreement, OneAtATime, OpenMatches, QuietMatches, Quiet, Waiting, Open,
                 InFlight, Coherent, RequestsCoherent, Fresh, Resolves, Loops, Records, Shown
<1> QED BY <1>1, <1>2, <1>3, <1>4, <1>5, <1>6, <1>7, <1>8, <1>9, <1>10
        DEF Next, Ask, Work, Serve

\* A failed call stays on record
LEMMA FaultsGrow == ASSUME TypeOK, [Next]_vars, faults' = 0 PROVE faults = 0
<1>1. ASSUME NEW r \in Requests, CallFails(r) \/ CrashA(r) PROVE FALSE
    BY <1>1 DEF CallFails, CrashA, Fault, TypeOK
<1>2. ASSUME NEW r \in Requests, Ask(r) \/ Work(r) PROVE faults' = faults
    BY <1>2 DEF Ask, Work, PostMessage, Approve, Reject, ApprovalNotFound, Delegate, Finish,
                ReceiveResult, ReceiveQuestion, ReceiveAuthRequired, RejectionForwarded
<1>3. CASE Serve
    BY <1>3 DEF Serve, NewTask, ResolveTask, MessageTask, Taken
<1> QED BY <1>1, <1>2, <1>3 DEF Next, vars

\* The strengthened invariant of the chain: for every number of requests, tasks and
\* actions.
LEMMA ChainInductive == Spec => []ChainInv
<1>1. Init => ChainInv
  <2> SUFFICES ASSUME Init PROVE ChainInv
      OBVIOUS
  <2>1. TypeOK
      BY Distinct DEF Init, TypeOK
  <2>2. \A r \in Requests : pc[r] = "idle" /\ ~InFlight(r)
      BY DEF Init, InFlight, Texts
  <2>3. \A t \in Tasks : tasks[t] = "none" /\ "none" \notin Actions
      BY Distinct DEF Init
  <2>4. QuietMatches
      BY <2>3 DEF QuietMatches, Waiting, Init
  <2>5. Agreement
      BY <2>2, <2>4, Distinct DEF Init, Agreement, OneAtATime, OpenMatches, RequestsCoherent, Fresh
  <2>6. Records
      BY <2>2, <2>3 DEF Init, Records
  <2> QED BY <2>1, <2>5, <2>6 DEF ChainInv
<1>2. ChainInv /\ [Next]_vars => ChainInv'
    BY ChainTypeStep, AgreementStep, FaultsGrow DEF ChainInv
<1> QED BY <1>1, <1>2, PTL DEF Spec

\* Until the first call fails B's tasks wait, between two requests, for exactly
\* the action that A's pending proxy names
THEOREM AgentsKeepAgreeing == Spec => []AgentsAgree
<1>1. ChainInv => AgentsAgree
  <2> SUFFICES ASSUME ChainInv, faults = 0, Quiet, NEW t \in Tasks, NEW v \in Actions
               PROVE  tasks[t] = v <=>
                         pending # None /\ issued[pending] = [task |-> t, action |-> v]
      BY DEF AgentsAgree
  <2>1. Waiting(IF pending = None THEN {} ELSE {issued[pending]})
      BY DEF ChainInv, Agreement, QuietMatches
  <2> QED BY <2>1 DEF Waiting
<1> QED BY <1>1, ChainInductive, PTL

-----------------------------------------------------------------------------

(***************************************************************************)
(* The two agents implement the approval gate.                             *)
(***************************************************************************)

Phase(v) ==
    IF Deciding(v) THEN "approved"
    ELSE IF pending # None /\ issued[pending].action = v THEN "pending"
    ELSE IF Shown(v) THEN "closed"
    ELSE "none"

\* A step that changes no phase
LEMMA NoPhaseChanges ==
    ASSUME \A v \in Actions : Phase(v)' = Phase(v)
    PROVE  chainPhase' = chainPhase
BY DEF chainPhase, Phase

\* A step that moves one phase
LEMMA OnePhaseMoves ==
    ASSUME NEW v \in Actions, NEW from, NEW to,
           Phase(v) = from, Phase(v)' = to,
           \A w \in Actions \ {v} : Phase(w)' = Phase(w)
    PROVE  chainPhase[v] = from /\ chainPhase' = [chainPhase EXCEPT ![v] = to]
BY DEF chainPhase, Phase

\* One approved action closes while the next one of its task begins to wait: the
\* mapped phases change as the gate's do.
LEMMA TwoPhasesMove ==
    ASSUME NEW v \in Actions, NEW w \in Actions, v # w,
           Phase(v) = "approved", Phase(v)' = "closed",
           Phase(w) = "none", Phase(w)' = "pending",
           \A x \in Actions \ {v, w} : Phase(x)' = Phase(x)
    PROVE  /\ chainPhase[v] = "approved" /\ chainPhase[w] = "none"
           /\ chainPhase' = [chainPhase EXCEPT ![v] = "closed", ![w] = "pending"]
BY DEF chainPhase, Phase

\* While A works on r, r alone decides
LEMMA OneDecides ==
    ASSUME Agreement, NEW r \in Requests, InFlight(r), NEW v
    PROVE  Deciding(v) <=> /\ decision[r] # None /\ decision[r].approve
                           /\ issued[decision[r].uuid].action = v
BY DEF Agreement, OneAtATime, Deciding

\* A step of the client's request to an agent that is not working
LEMMA AskRefines ==
    ASSUME TypeOK, TypeOK', Agreement, NEW r \in Requests, Ask(r)
    PROVE  Gate!GateNext \/ UNCHANGED Gate!gateVars
<1> USE DEF aVars, bVars
<1>1. /\ pc[r] = "idle" /\ Quiet /\ ran' = ran /\ issued' = issued
      /\ decision[r] = None
      /\ \A s \in Requests \ {r} : pc'[s] = pc[s] /\ decision'[s] = decision[s]
    <2>1. pc[r] = "idle" /\ Quiet /\ ran' = ran /\ issued' = issued
        BY DEF Ask, PostMessage, ApprovalNotFound, Approve, Reject, MayResolve
    <2>2. \A s \in Requests \ {r} : pc'[s] = pc[s] /\ decision'[s] = decision[s]
        BY DEF Ask, PostMessage, ApprovalNotFound, Approve, Reject, Call, Reply, Goto, TypeOK
    <2>3. decision[r] = None
        BY <2>1 DEF Agreement, RequestsCoherent, Fresh
    <2> QED BY <2>1, <2>2, <2>3
<1>2. \A v : ~Deciding(v)
    BY <1>1 DEF Quiet, Deciding
<1>3. \A v : Shown(v)' <=> Shown(v)
    BY <1>1 DEF Shown
<1>4. \A s \in Requests \ {r} : ~InFlight(s)'
    BY <1>1 DEF Quiet, InFlight
<1>5. CASE PostMessage(r) \/ \E u \in Requests : ApprovalNotFound(r, u)
  <2>1. decision' = decision /\ pending' = pending
      BY <1>5 DEF PostMessage, ApprovalNotFound
  <2>2. \A v : ~Deciding(v)'
      BY <2>1, <1>1, <1>4 DEF Deciding
  <2>3. \A v \in Actions : Phase(v)' = Phase(v)
      BY <2>1, <2>2, <1>1, <1>2, <1>3 DEF Phase
  <2> QED BY <2>3, <1>1, NoPhaseChanges DEF Gate!gateVars
<1>6. ASSUME NEW u \in Requests, Approve(r, u) \/ Reject(r, u)
      PROVE  Gate!GateNext
  <2>1. issued[u] # None /\ pending = u /\ pending # None
      BY <1>6, Distinct DEF Approve, Reject, MayResolve
  <2>2. PICK v \in Actions : v = issued[u].action
      BY <2>1 DEF TypeOK, Proxies
  <2>3. Phase(v) = "pending" /\ Shown(v)
      BY <1>2, <2>1, <2>2 DEF Phase, Shown
  <2>4. CASE Approve(r, u)
    <3>1. pending' = pending /\ pc'[r] = "approved"
        BY <2>4 DEF Approve, Call, Goto, TypeOK
    <3>2. decision'[r] = [uuid |-> u, approve |-> TRUE]
        BY <2>4 DEF Approve, TypeOK
    <3>3. decision'[r] # None
      <4>1. [uuid |-> u, approve |-> TRUE] \in Decisions
          BY DEF Decisions
      <4> QED BY <4>1, <3>2, Distinct
    <3>4. \A w : Deciding(w)' <=> w = v
        BY <3>1, <3>2, <3>3, <2>2, <1>1, <1>4 DEF Deciding, InFlight, Texts
    <3>5. Phase(v)' = "approved"
        BY <3>4 DEF Phase
    <3>6. \A w \in Actions \ {v} : Phase(w)' = Phase(w)
        BY <3>4, <3>1, <2>1, <2>2, <1>1, <1>2, <1>3 DEF Phase
    <3>7. chainPhase[v] = "pending" /\ chainPhase' = [chainPhase EXCEPT ![v] = "approved"]
        BY <2>2, <2>3, <3>5, <3>6, OnePhaseMoves
    <3> QED BY <2>2, <3>7, <1>1 DEF Gate!GateNext, Gate!Approve, Gate!Move
  <2>5. CASE Reject(r, u)
    <3>1. pending' = None
        BY <2>5 DEF Reject
    <3>2. decision'[r] = [uuid |-> u, approve |-> FALSE]
        BY <2>5 DEF Reject, TypeOK
    <3>3. \A w : ~Deciding(w)'
        BY <3>2, <1>1, <1>4 DEF Deciding
    <3>4. Phase(v)' = "closed"
        BY <3>1, <3>3, <2>3, <1>3 DEF Phase
    <3>5. \A w \in Actions \ {v} : Phase(w)' = Phase(w)
        BY <3>3, <3>1, <2>1, <2>2, <1>1, <1>2, <1>3 DEF Phase
    <3>6. chainPhase[v] = "pending" /\ chainPhase' = [chainPhase EXCEPT ![v] = "closed"]
        BY <2>2, <2>3, <3>4, <3>5, OnePhaseMoves
    <3> QED BY <2>2, <3>6, <1>1 DEF Gate!GateNext, Gate!Reject, Gate!Move
  <2> QED BY <1>6, <2>4, <2>5
<1> QED BY <1>5, <1>6 DEF Ask

\* A step of A's loop, or the end of a request
LEMMA WorkRefines ==
    ASSUME TypeOK, TypeOK', Agreement, Records, NEW r \in Requests, Work(r)
    PROVE  Gate!GateNext \/ UNCHANGED Gate!gateVars
<1> USE DEF aVars, bVars
<1>1. InFlight(r) /\ UNCHANGED <<ran, decision>>
    BY DEF Work, Delegate, Finish, ReceiveResult, ReceiveQuestion, ReceiveAuthRequired,
           RejectionForwarded, Returned, InFlight, Texts
<1>2. ASSUME NEW s \in Requests \ {r} PROVE ~InFlight(s) /\ pc'[s] = pc[s] /\ ~InFlight(s)'
  <2>1. pc'[s] = pc[s]
      BY DEF Work, Delegate, Finish, ReceiveResult, ReceiveQuestion, ReceiveAuthRequired,
             RejectionForwarded, Call, Reply, Goto, TypeOK
  <2> QED BY <2>1, <1>1 DEF Agreement, OneAtATime, InFlight
<1>3. \A v : Deciding(v) <=> /\ decision[r] # None /\ decision[r].approve
                             /\ issued[decision[r].uuid].action = v
    BY <1>1, OneDecides
<1>4. CASE Delegate(r) \/ ReceiveResult(r)
  <2>1. UNCHANGED <<pending, issued>> /\ InFlight(r)'
      BY <1>4 DEF Delegate, ReceiveResult, Call, Goto, InFlight, TypeOK, Texts
  <2>2. \A v : Deciding(v)' <=> Deciding(v)
      BY <2>1, <1>1, <1>2 DEF Deciding
  <2>3. \A v \in Actions : Phase(v)' = Phase(v)
      BY <2>1, <2>2 DEF Phase, Shown
  <2> QED BY <2>3, <1>1, NoPhaseChanges DEF Gate!gateVars
<1>5. ASSUME Goto(r, "done") PROVE \A v : ~Deciding(v)'
    BY <1>2, <1>5 DEF Deciding, InFlight, Goto, TypeOK, Texts
<1>6. CASE RejectionForwarded(r)
  <2>1. UNCHANGED <<pending, issued>> /\ Goto(r, "done") /\ pc[r] = "rejected"
      BY <1>6 DEF RejectionForwarded, Reply
  <2>2. \A v : ~Deciding(v)
      BY <2>1, <1>3 DEF Agreement, RequestsCoherent, Resolves
  <2>3. \A v \in Actions : Phase(v)' = Phase(v)
      BY <2>1, <2>2, <1>5 DEF Phase, Shown
  <2> QED BY <2>3, <1>1, NoPhaseChanges DEF Gate!gateVars
\* The request may have resolved the pending proxy, and no other
<1>7. ASSUME pc[r] \in {"llm", "prompt", "approved"}
      PROVE  IF decision[r] = None THEN pending = None
             ELSE /\ decision[r].approve /\ pending = decision[r].uuid /\ pending # None
                  /\ pending \in Requests /\ issued[pending] # None
  <2>1. CASE decision[r] = None
      BY <2>1, <1>7 DEF Agreement, RequestsCoherent, Loops, Resolves
  <2>2. CASE decision[r] # None
    <3>1. decision[r].approve /\ pending = decision[r].uuid
        BY <2>2, <1>7 DEF Agreement, RequestsCoherent, Loops, Resolves
    <3>2. pending \in Requests /\ pending # None
        BY <3>1, <2>2, Distinct DEF TypeOK, Decisions
    <3>3. issued[pending] # None
        BY <3>2 DEF Agreement
    <3> QED BY <2>2, <3>1, <3>2, <3>3
  <2> QED BY <2>1, <2>2
<1>8. CASE Finish(r) \/ ReceiveAuthRequired(r)
  <2>1. /\ pending' = None /\ issued' = issued /\ Goto(r, "done")
        /\ pc[r] \in {"llm", "prompt", "approved"}
      BY <1>8 DEF Finish, ReceiveAuthRequired, Reply, Returned
  <2>2. \A v : Shown(v)' <=> Shown(v)
      BY <2>1 DEF Shown
  <2>3. CASE decision[r] = None
    <3>1. \A v \in Actions : Phase(v)' = Phase(v)
        BY <2>1, <2>2, <2>3, <1>3, <1>5, <1>7 DEF Phase
    <3> QED BY <3>1, <1>1, NoPhaseChanges DEF Gate!gateVars
  <2>4. CASE decision[r] # None
    <3>0. PICK v \in Actions : v = issued[pending].action
        BY <2>1, <2>4, <1>7 DEF TypeOK, Proxies
    <3>1. Shown(v) /\ (\A w : Deciding(w) <=> w = v)
        BY <3>0, <2>1, <2>4, <1>3, <1>7 DEF Shown
    <3>2. Phase(v) = "approved" /\ Phase(v)' = "closed"
        BY <2>1, <2>2, <3>0, <3>1, <1>5 DEF Phase
    <3>3. \A w \in Actions \ {v} : Phase(w)' = Phase(w)
        BY <2>1, <2>2, <3>0, <3>1, <1>5 DEF Phase
    <3>4. chainPhase[v] = "approved" /\ chainPhase' = [chainPhase EXCEPT ![v] = "closed"]
        BY <3>1, <3>2, <3>3, OnePhaseMoves
    <3> QED BY <3>1, <3>4, <1>1 DEF Gate!GateNext, Gate!Settle, Gate!Move
  <2> QED BY <2>3, <2>4
<1>9. CASE ReceiveQuestion(r)
  <2>1. /\ pc[r] \in {"prompt", "approved"} /\ Goto(r, "done") /\ pending' = r
        /\ answer[r] \in Answers /\ answer[r].state = "input-required"
        /\ issued[r] = None
      BY <1>9, <1>1 DEF ReceiveQuestion, Returned, Reply, TypeOK, Agreement, RequestsCoherent
  <2>2. PICK b \in Actions : b = answer[r].action /\ answer[r].task \in Tasks
      BY <2>1 DEF Answers
  <2>3. ~Shown(b)
      BY <2>1, <2>2, <1>1, Distinct DEF Records
  <2>4. /\ issued'[r] # None /\ issued'[r].action = b
        /\ \A s \in Requests \ {r} : issued'[s] = issued[s]
    <3>1. [task |-> answer[r].task, action |-> b] \in Proxies
        BY <2>2 DEF Proxies
    <3>2. issued' = [issued EXCEPT ![r] = [task |-> answer[r].task, action |-> b]]
        BY <1>9, <2>2 DEF ReceiveQuestion
    <3> QED BY <3>1, <3>2, Distinct DEF TypeOK
  <2>5. \A w : Shown(w)' <=> Shown(w) \/ w = b
      BY <2>1, <2>4 DEF Shown
  <2>6. r # None
      BY Distinct
  <2>7. Phase(b)' = "pending"
      BY <2>1, <2>4, <2>6, <1>5 DEF Phase
  <2>8. CASE decision[r] = None
    <3>1. Phase(b) = "none"
        BY <2>1, <2>3, <2>8, <1>3, <1>7 DEF Phase
    <3>2. \A w \in Actions \ {b} : Phase(w)' = Phase(w)
        BY <2>1, <2>4, <2>5, <2>6, <2>8, <1>3, <1>5, <1>7 DEF Phase
    <3>3. chainPhase[b] = "none" /\ chainPhase' = [chainPhase EXCEPT ![b] = "pending"]
        BY <2>2, <2>7, <3>1, <3>2, OnePhaseMoves
    <3> QED BY <2>2, <3>3, <1>1 DEF Gate!GateNext, Gate!Publish, Gate!Move
  <2>9. CASE decision[r] # None
    <3>0. PICK v \in Actions : v = issued[pending].action
        BY <2>1, <2>9, <1>7 DEF TypeOK, Proxies
    <3>1. Shown(v) /\ (\A w : Deciding(w) <=> w = v)
        BY <3>0, <2>1, <2>9, <1>3, <1>7 DEF Shown
    <3>2. v # b
        BY <3>1, <2>3
    <3>3. Phase(v) = "approved" /\ Phase(b) = "none"
        BY <3>1, <3>2, <2>1, <2>3, <1>7, <2>9, <3>0 DEF Phase
    <3>4. /\ Phase(v)' = "closed"
          /\ \A w \in Actions \ {v, b} : Phase(w)' = Phase(w)
        BY <3>0, <3>1, <3>2, <2>1, <2>4, <2>5, <2>6, <1>5, <1>7, <2>9 DEF Phase
    <3>5. /\ chainPhase[v] = "approved" /\ chainPhase[b] = "none"
          /\ chainPhase' = [chainPhase EXCEPT ![v] = "closed", ![b] = "pending"]
        BY <2>2, <2>7, <3>1, <3>2, <3>3, <3>4, TwoPhasesMove
    <3> QED BY <2>2, <3>1, <3>5, <1>1 DEF Gate!GateNext, Gate!Chain
  <2> QED BY <2>8, <2>9
<1> QED BY <1>4, <1>6, <1>8, <1>9 DEF Work

\* A message that B handles
LEMMA ServeRefines ==
    ASSUME TypeOK, TypeOK', Agreement, Records, Serve
    PROVE  Gate!GateNext \/ UNCHANGED Gate!gateVars
<1> USE DEF aVars
<1>1. PICK m \in sent, t \in Tasks : NewTask(m, t) \/ ResolveTask(m, t) \/ MessageTask(m, t)
    BY DEF Serve
<1>2. UNCHANGED <<pc, decision, pending, issued>>
    BY <1>1 DEF NewTask, ResolveTask, MessageTask, Taken
<1>3. \A v \in Actions : Phase(v)' = Phase(v)
    BY <1>2 DEF Phase, Deciding, Shown, InFlight
<1>4. chainPhase' = chainPhase
    BY <1>3, NoPhaseChanges
<1>5. CASE ran' = ran
    BY <1>4, <1>5 DEF Gate!gateVars
<1>6. CASE ran' # ran
  <2>1. /\ ResolveTask(m, t) /\ IsApproval(m.text)
        /\ tasks[t] \in Actions
        /\ ran' = [ran EXCEPT ![tasks[t]] = @ + 1]
      BY <1>1, <1>6 DEF NewTask, ResolveTask, MessageTask
  <2> DEFINE r == m.by
  <2>2. /\ InFlight(r) /\ decision[r] # None /\ decision[r].approve
        /\ issued[decision[r].uuid].action = tasks[t]
      BY <1>1, <2>1, ServeStep DEF IsApproval
  <2>3. r \in Requests
      BY <1>1 DEF TypeOK, Messages
  <2>4. Deciding(tasks[t])
      BY <2>2, <2>3 DEF Deciding
  <2>5. chainPhase[tasks[t]] = "approved"
      BY <2>1, <2>4 DEF chainPhase
  <2>6. ran[tasks[t]] = 0
      BY <2>1 DEF Records
  <2>7. ran' = [ran EXCEPT ![tasks[t]] = 1]
      BY <2>1, <2>6
  <2> QED BY <2>1, <2>5, <2>6, <2>7, <1>4 DEF Gate!GateNext, Gate!Run
<1> QED BY <1>5, <1>6

\* Until the first call fails, a tool of B runs once, after a yes to the proxy
\* that showed it, and never after a no
THEOREM ChainImplementsGate == Spec => ChainKeepsGate
<1>1. Init => Gate!GateInit
  <2> SUFFICES ASSUME Init PROVE Gate!GateInit
      OBVIOUS
  <2>1. \A v \in Actions : Phase(v) = "none"
      BY DEF Init, Phase, Deciding, InFlight, Shown, Texts
  <2> QED BY <2>1 DEF Gate!GateInit, chainPhase, Phase, Init
<1>2. ChainInv /\ ChainInv' /\ [Next]_vars => [faults' = 0 => Gate!GateNext]_(Gate!gateVars)
  <2> SUFFICES ASSUME ChainInv, ChainInv', [Next]_vars, faults' = 0
               PROVE  Gate!GateNext \/ UNCHANGED Gate!gateVars
      OBVIOUS
  <2>1. TypeOK /\ TypeOK' /\ Agreement /\ Records
      BY FaultsGrow DEF ChainInv
  <2>2. ASSUME NEW r \in Requests, CallFails(r) \/ CrashA(r) PROVE FALSE
      BY <2>1, <2>2 DEF CallFails, CrashA, Fault, TypeOK
  <2>3. CASE UNCHANGED vars
    <3>1. \A v \in Actions : Phase(v)' = Phase(v)
        BY <2>3 DEF vars, aVars, Phase, Deciding, Shown, InFlight
    <3> QED BY <2>3, <3>1, NoPhaseChanges DEF vars, bVars, Gate!gateVars
  <2> QED BY <2>1, <2>2, <2>3, AskRefines, WorkRefines, ServeRefines DEF Next
<1> QED BY <1>1, <1>2, ChainInductive, PTL DEF Spec, ChainKeepsGate

=============================================================================

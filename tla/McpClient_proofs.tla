-------------------------- MODULE McpClient_proofs --------------------------
(***************************************************************************)
(* Theorems about McpClient, for every number of servers, every set of     *)
(* tools and callers and every number of retries and failed handshakes.    *)
(***************************************************************************)
EXTENDS McpClient, TLAPS

-----------------------------------------------------------------------------
(***************************************************************************)
(* Types.                                                                  *)
(***************************************************************************)

\* The routing table only holds servers that report the tool, or 0
LEMMA OwnerType ==
    ASSUME NEW t \in Tools, ~Duplicates
    PROVE  /\ Owner(t) \in 0 .. N
           /\ Owner(t) # 0 => t \in tools[Owner(t)]
           /\ \A s \in Servers : t \in tools[s] => Owner(t) = s
<1> DEFINE P(s) == /\ s # 0 => t \in tools[s]
                   /\ \A r \in Servers : t \in tools[r] => r <= s
<1>1. CASE \E s \in Servers : t \in tools[s]
  <2>1. PICK s \in Servers : t \in tools[s]
    BY <1>1
  <2>2. \A r \in Servers : t \in tools[r] => r = s
    BY <2>1 DEF Duplicates, Servers
  <2>3. P(s) /\ s \in 0 .. N
    BY <2>1, <2>2, ClientParameters DEF Servers
  <2>4. P(Owner(t)) /\ Owner(t) \in 0 .. N
    BY <2>3 DEF Owner
  <2>5. Owner(t) = s
    BY <2>1, <2>2, <2>4, ClientParameters DEF Servers
  <2> QED  BY <2>2, <2>4, <2>5
<1>2. CASE ~ \E s \in Servers : t \in tools[s]
  <2>1. P(0) /\ 0 \in 0 .. N
    BY <1>2, ClientParameters
  <2>2. P(Owner(t)) /\ Owner(t) \in 0 .. N
    BY <2>1 DEF Owner
  <2> QED  BY <1>2, <2>2
<1> QED  BY <1>1, <1>2

\* A handshake and a call that is past the lookup have a server, and a start that
\* goes on has attempts left
Addressed ==
    /\ main = "handshake" => at \in Servers
    /\ main = "starting" => attempts < ConnectMaxRetries
    /\ \A p \in Callers : pc[p] \notin {"idle", "done"} => to[p] \in Servers
    /\ \A p \in Callers : pc[p] \in {"load", "send", "receive"} => to[p] \in Stdio

Typed == TypeOK /\ Addressed

\* Typed holds before the clients are started
LEMMA InitTyped == Init => Typed
BY ClientParameters DEF Init, Typed, TypeOK, Addressed, Servers, Stdio

\* Every step of the main goroutine preserves Typed
LEMMA MainTyped ==
    ASSUME Typed, MainStep \/ Shutdown
    PROVE  Typed'
<1>1. N \in Nat /\ ConnectMaxRetries \in Nat \ {0} /\ MaxBadHandshakes \in Nat
  BY ClientParameters
<1>2. Addressed'
  BY <1>1 DEF Typed, TypeOK, Addressed, MainStep, Launch, Handshake, Connect, RollBack, Aggregate,
              StartLLM, StopNext, Shutdown, StartNext, RollBackFrom, RetryLeft, Stdio, callVars
<1>3. at \in Servers => at - 1 \in 0 .. N + 1 /\ at + 1 \in 0 .. N + 1
  BY <1>1 DEF Servers
<1> USE DEF Typed, TypeOK, pipeVars, callVars
<1>4. CASE Launch
  <2>1. at \in Servers
    BY <1>4 DEF Launch, Stdio
  <2>2. link' \in [Servers -> {"closed", "open", "broken"}]
    BY <1>4, <2>1 DEF Launch
  <2>3. main' \in {"handshake", "rollback"} /\ at' \in {at, at - 1}
    BY <1>4 DEF Launch, RollBackFrom
  <2> QED  BY <1>1, <1>2, <1>3, <1>4, <2>1, <2>2, <2>3 DEF Launch
<1>5. CASE Handshake
  <2>1. at \in Servers
    BY <1>5 DEF Handshake, Addressed
  <2>2. main' \in {"starting", "blocked"} /\ at' \in {at, at + 1} /\ attempts' \in {attempts, 0}
    BY <1>5 DEF Handshake, StartNext
  <2>3. tools' \in [Servers -> SUBSET Tools] /\ nextID' \in [Servers -> Nat]
    BY <1>5, <2>1 DEF Handshake
  <2>4. bad' \in 0 .. MaxBadHandshakes
    BY <1>1, <1>5 DEF Handshake
  <2>5. UNCHANGED <<link, toolMap, inbox, callVars>>
    BY <1>5 DEF Handshake
  <2>6. at' \in 0 .. N + 1 /\ attempts' \in 0 .. ConnectMaxRetries
    BY <1>1, <1>3, <2>1, <2>2
  <2>7. outbox' \in [Servers -> Seq(Packet)]
    <3>1. ToolList \in Packet
      BY DEF ToolList, Packet
    <3>2. <<ToolList>> \in Seq(Packet)
      BY <3>1
    <3>3. outbox' = outbox \/ outbox' = [outbox EXCEPT ![at] = <<ToolList>>]
      BY <1>5 DEF Handshake
    <3> QED  BY <2>1, <3>2, <3>3
  <2> QED  BY <1>2, <2>2, <2>3, <2>4, <2>5, <2>6, <2>7
<1>6. CASE Connect
  <2>1. at \in Servers
    BY <1>6, ClientParameters DEF Connect
  <2>2. main' \in {"starting", "rollback"} /\ at' \in {at, at + 1, at - 1}
    BY <1>6 DEF Connect, StartNext, RollBackFrom
  <2>3. link' \in [Servers -> {"closed", "open", "broken"}] /\ tools' \in [Servers -> SUBSET Tools]
    BY <1>6, <2>1 DEF Connect
  <2>4. attempts' \in 0 .. ConnectMaxRetries
    BY <1>1, <1>6 DEF Connect, StartNext, Addressed
  <2> QED  BY <1>1, <1>2, <1>3, <1>6, <2>1, <2>2, <2>3, <2>4 DEF Connect
<1>7. CASE RollBack
  <2>1. link' \in [Servers -> {"closed", "open", "broken"}]
    BY <1>7 DEF RollBack, Close
  <2>2. main' \in {"rollback", "failed"} /\ at' \in 0 .. N + 1
    BY <1>1, <1>7 DEF RollBack
  <2> QED  BY <1>2, <1>7, <2>1, <2>2 DEF RollBack
<1>8. CASE Aggregate
  <2>1. ~Duplicates => \A t \in Tools : Owner(t) \in 0 .. N
    BY OwnerType
  <2> QED  BY <1>1, <1>2, <1>8, <2>1 DEF Aggregate
<1>9. CASE StartLLM \/ Shutdown
  BY <1>1, <1>2, <1>9 DEF StartLLM, Shutdown
<1>10. CASE StopNext
  <2>1. link' \in [Servers -> {"closed", "open", "broken"}]
    BY <1>10 DEF StopNext, Close
  <2>2. main' \in {"stopAll", "stopping", "failed", "stopped"} /\ at' \in 0 .. N + 1
    BY <1>1, <1>10 DEF StopNext
  <2> QED  BY <1>2, <1>10, <2>1, <2>2 DEF StopNext
<1> QED  BY <1>4, <1>5, <1>6, <1>7, <1>8, <1>9, <1>10 DEF MainStep

\* The next line of a pipe is a packet
LEMMA NextLine ==
    ASSUME NEW q \in Seq(Packet), q # <<>>
    PROVE  Head(q) \in Packet /\ Tail(q) \in Seq(Packet)
OBVIOUS

\* Every step of a server or of a caller preserves Typed
LEMMA CallTyped ==
    ASSUME Typed,
           \/ \E s \in Servers : Serve(s) \/ Break(s)
           \/ \E p \in Callers : CallStep(p) \/ \E t \in Tools : Lookup(p, t) \/ LookupFails(p, t)
    PROVE  Typed'
<1> USE DEF Typed, TypeOK, Addressed, startVars, pipeVars, callVars
<1>1. ASSUME NEW s \in Servers, Serve(s)  PROVE Typed'
  <2>1. Head(inbox[s]) \in Packet /\ Tail(inbox[s]) \in Seq(Packet)
    BY <1>1, NextLine DEF Serve
  <2>2. Append(outbox[s], Head(inbox[s])) \in Seq(Packet)
    BY <2>1
  <2> QED  BY <1>1, <2>1, <2>2 DEF Serve
<1>2. ASSUME NEW s \in Servers, Break(s)  PROVE Typed'
  BY <1>2 DEF Break
<1>3. ASSUME NEW p \in Callers, NEW t \in Tools, Lookup(p, t)  PROVE Typed'
  <2>1. toolMap[t] \in Servers /\ toolMap[t] \in 0 .. N
    BY <1>3, ClientParameters DEF Lookup, Servers
  <2>2. \E k \in {"request", "load"} :
            pc' = [pc EXCEPT ![p] = k] /\ (k = "load" => toolMap[t] \in Stdio)
    BY <1>3, <2>1 DEF Lookup, MayCall, Stdio
  <2>3. to' = [to EXCEPT ![p] = toolMap[t]]
        /\ UNCHANGED <<startVars, link, pipeVars, id, got>>
    BY <1>3 DEF Lookup
  <2>4. pc' \in [Callers -> {"idle", "request", "load", "send", "receive", "done"}]
        /\ to' \in [Callers -> 0 .. N]
    BY <2>1, <2>2, <2>3
  <2>5. \A q \in Callers : pc'[q] \notin {"idle", "done"} => to'[q] \in Servers
    BY <2>1, <2>2, <2>3
  <2>6. \A q \in Callers : pc'[q] \in {"load", "send", "receive"} => to'[q] \in Stdio
    BY <2>2, <2>3
  <2>7. crossed' \subseteq Stdio
    BY <1>3 DEF Lookup, OnPipe
  <2>8. TypeOK'
    BY <2>3, <2>4, <2>7
  <2> QED  BY <2>3, <2>5, <2>6, <2>8
<1>4. ASSUME NEW p \in Callers, Exchange(p)  PROVE Typed'
  <2>1. Request(p) \in Packet
    BY DEF Packet, Request
  <2>2. pc' = [pc EXCEPT ![p] = "done"]
        /\ UNCHANGED <<startVars, link, pipeVars, to, id, crossed>>
    BY <1>4 DEF Exchange, End
  <2>3. got' \in [Callers -> Packet \cup {Nil}]
    BY <1>4, <2>1 DEF Exchange, End
  <2>4. \A q \in Callers : pc'[q] \notin {"idle", "done"} => to'[q] \in Servers
    BY <2>2
  <2>5. \A q \in Callers : pc'[q] \in {"load", "send", "receive"} => to'[q] \in Stdio
    BY <2>2
  <2> QED  BY <2>2, <2>3, <2>4, <2>5
<1>5. ASSUME NEW p \in Callers, Load(p)  PROVE Typed'
  BY <1>5 DEF Load
<1>6. ASSUME NEW p \in Callers, Send(p)  PROVE Typed'
  <2>1. pc[p] = "send"
    BY <1>6 DEF Send
  <2>2. to[p] \in Servers /\ id[p] \in Nat
    BY <2>1
  <2>3. Request(p) \in Packet
    BY DEF Packet, Request
  <2>4. Append(inbox[to[p]], Request(p)) \in Seq(Packet)
    BY <2>2, <2>3
  <2>5. id[p] + 1 \in Nat
    BY <2>2
  <2>6. /\ nextID' \in [Servers -> Nat] /\ inbox' \in [Servers -> Seq(Packet)]
        /\ got' \in [Callers -> Packet \cup {Nil}]
        /\ \E k \in {"receive", "done"} : pc' = [pc EXCEPT ![p] = k]
        /\ UNCHANGED <<startVars, link, outbox, to, id, crossed>>
    BY <1>6, <2>2, <2>4, <2>5 DEF Send, End
  <2>7. \A q \in Callers : pc'[q] \notin {"idle", "done"} => to'[q] \in Servers
    BY <2>2, <2>6
  <2>8. \A q \in Callers : pc'[q] \in {"load", "send", "receive"} => to'[q] \in Stdio
    BY <2>1, <2>6
  <2> QED  BY <2>6, <2>7, <2>8
<1>7. ASSUME NEW p \in Callers, Receive(p) \/ RacyReceive(p)  PROVE Typed'
  <2>1. pc[p] = "receive" /\ UNCHANGED <<startVars, link, nextID, inbox, to, id, crossed>>
    BY <1>7 DEF Receive, RacyReceive, Receiving
  <2>2. to[p] \in Servers
    BY <2>1
  <2>3. outbox[to[p]] # <<>> =>
            Head(outbox[to[p]]) \in Packet /\ Tail(outbox[to[p]]) \in Seq(Packet)
    BY <2>2, NextLine
  <2>4. outbox' \in [Servers -> Seq(Packet)]
    <3>1. \/ outbox' = outbox
          \/ outbox[to[p]] # <<>> /\ outbox' = [outbox EXCEPT ![to[p]] = Tail(@)]
          \/ outbox' = [outbox EXCEPT ![to[p]] = <<>>]
      BY <1>7 DEF Receive, RacyReceive
    <3>2. CASE outbox[to[p]] # <<>> /\ outbox' = [outbox EXCEPT ![to[p]] = Tail(@)]
      BY <2>2, <2>3, <3>2
    <3>3. CASE outbox' = [outbox EXCEPT ![to[p]] = <<>>]
      <4>1. <<>> \in Seq(Packet)
        OBVIOUS
      <4> QED  BY <3>3, <4>1
    <3> QED  BY <3>1, <3>2, <3>3
  <2>5. /\ pc' \in {pc, [pc EXCEPT ![p] = "done"]}
        /\ got' \in [Callers -> Packet \cup {Nil}]
    BY <1>7, <2>2, <2>3, ZenonT(40) DEF Receive, RacyReceive, End
  <2>6. \A q \in Callers : pc'[q] \notin {"idle", "done"} => to'[q] \in Servers
    BY <2>1, <2>5
  <2>7. \A q \in Callers : pc'[q] \in {"load", "send", "receive"} => to'[q] \in Stdio
    BY <2>1, <2>5
  <2> QED  BY <2>1, <2>4, <2>5, <2>6, <2>7
<1>8. ASSUME NEW p \in Callers, NEW t \in Tools, LookupFails(p, t)  PROVE Typed'
  <2>1. pc' = [pc EXCEPT ![p] = "done"] /\ got' = [got EXCEPT ![p] = Nil]
        /\ UNCHANGED <<startVars, link, pipeVars, to, id, crossed>>
    BY <1>8 DEF LookupFails, End
  <2>2. \A q \in Callers : pc'[q] \notin {"idle", "done"} => to'[q] \in Servers
    BY <2>1
  <2>3. \A q \in Callers : pc'[q] \in {"load", "send", "receive"} => to'[q] \in Stdio
    BY <2>1
  <2> QED  BY <2>1, <2>2, <2>3
<1> QED  BY <1>1, <1>2, <1>3, <1>4, <1>5, <1>6, <1>7, <1>8 DEF CallStep

\* No step breaks Typed
LEMMA TypedStep == Typed /\ [Next]_vars => Typed'
<1>1. ASSUME Typed, UNCHANGED vars  PROVE Typed'
  BY <1>1 DEF Typed, TypeOK, Addressed, vars, startVars, pipeVars, callVars
<1> QED  BY <1>1, MainTyped, CallTyped DEF Next

\* The type invariant of McpClient
THEOREM ClientTypeCorrect == Spec => []TypeOK
<1>1. Typed => TypeOK
  BY DEF Typed
<1> QED  BY <1>1, InitTyped, TypedStep, PTL DEF Spec

-----------------------------------------------------------------------------
(***************************************************************************)
(* Start, rollback and stop.                                               *)
(***************************************************************************)

\* What the main goroutine has not started yet, or has stopped, is closed
Links ==
    /\ main = "starting" => at # 0 /\ \A s \in Servers : s >= at => link[s] = "closed"
    /\ main = "handshake" => at \in Servers /\ \A s \in Servers : s > at => link[s] = "closed"
    /\ main = "rollback" => \A s \in Servers : s > at => link[s] = "closed"
    /\ main \in {"stopAll", "stopping"} =>
          at # 0 /\ \A s \in Servers : s < at => link[s] = "closed"
    /\ main \in {"failed", "stopped"} => \A s \in Servers : link[s] = "closed"

\* Links is inductive
LEMMA LinksStep == Typed /\ Links /\ [Next]_vars => Links'
<1> SUFFICES ASSUME Typed, Links, [Next]_vars  PROVE Links'
  OBVIOUS
<1>0. N \in Nat /\ \A s \in Servers : s \in 1 .. N
  BY ClientParameters DEF Servers
<1> USE DEF Typed, TypeOK, Links, startVars
<1>1. CASE Launch
  <2>1. at \in Servers
    BY <1>1 DEF Launch, Stdio
  <2>2. CASE main' = "handshake"
    BY <1>0, <1>1, <2>1, <2>2 DEF Launch, RollBackFrom
  <2>3. CASE main' = "rollback" /\ at' = at - 1 /\ UNCHANGED link
    BY <1>0, <1>1, <2>1, <2>3 DEF Launch
  <2> QED  BY <1>1, <2>2, <2>3 DEF Launch, RollBackFrom
<1>2. CASE Handshake
  BY <1>0, <1>2, SMTT(30) DEF Handshake, StartNext
<1>3. CASE Connect
  <2>1. at \in Servers
    BY <1>3, ClientParameters DEF Connect
  <2>2. CASE main' = "starting" /\ at' = at + 1 /\ link' = [link EXCEPT ![at] = "open"]
    BY <1>0, <1>3, <2>1, <2>2 DEF Connect
  <2>3. CASE UNCHANGED <<main, at, link>>
    BY <2>3
  <2>4. CASE main' = "rollback" /\ at' = at - 1 /\ UNCHANGED link
    BY <1>0, <1>3, <2>1, <2>4 DEF Connect
  <2> QED  BY <1>3, <2>2, <2>3, <2>4 DEF Connect, StartNext, RollBackFrom
<1>4. CASE RollBack
  <2>1. CASE at = 0
    BY <1>0, <1>4, <2>1 DEF RollBack
  <2>2. CASE at # 0
    <3>1. at \in Nat /\ at' = at - 1 /\ main' = "rollback" /\ link' = [link EXCEPT ![at] = "closed"]
      BY <1>0, <1>4, <2>2 DEF RollBack, Close
    <3>2. \A s \in Servers : s > at' => s = at \/ s > at
      BY <1>0, <3>1
    <3> QED  BY <1>4, <3>1, <3>2 DEF RollBack
  <2> QED  BY <2>1, <2>2
<1>5. CASE Aggregate \/ StartLLM \/ Shutdown
  BY <1>0, <1>5 DEF Aggregate, StartLLM, Shutdown
<1>6. CASE StopNext
  <2>1. CASE at = N + 1
    BY <1>0, <1>6, <2>1 DEF StopNext
  <2>2. CASE at # N + 1
    <3>1. at \in Nat /\ at' = at + 1 /\ main' = main /\ link' = [link EXCEPT ![at] = "closed"]
      BY <1>0, <1>6, <2>2 DEF StopNext, Close
    <3>2. at' # 0 /\ \A s \in Servers : s < at' => s = at \/ s < at
      BY <1>0, <3>1
    <3> QED  BY <1>6, <3>1, <3>2 DEF StopNext
  <2> QED  BY <2>1, <2>2
<1>7. ASSUME NEW s \in Servers, Serve(s) \/ Break(s)  PROVE Links'
  BY <1>7 DEF Serve, Break
<1>8. ASSUME NEW p \in Callers,
             CallStep(p) \/ \E t \in Tools : Lookup(p, t) \/ LookupFails(p, t)
      PROVE  UNCHANGED <<main, at, link>>
  BY <1>8 DEF CallStep, Exchange, Load, Send, Receive, RacyReceive, Lookup, LookupFails
<1>9. CASE UNCHANGED <<main, at, link>>
  BY <1>9
<1> QED
  BY <1>1, <1>2, <1>3, <1>4, <1>5, <1>6, <1>7, <1>8, <1>9 DEF Next, MainStep, vars

\* Typed and Links hold together
LEMMA LinksInvariant == Spec => [](Typed /\ Links)
<1>1. Init => Links
  BY ClientParameters DEF Init, Links
<1> QED  BY <1>1, InitTyped, TypedStep, LinksStep, PTL DEF Spec

\* CompositeClient.Start and Stop: after a failed start, except for the one that
\* hangs, and after a shutdown no child process and no connection is left
THEOREM NothingLeft == Spec => []NothingLeftRunning
<1>1. Links => NothingLeftRunning
  BY DEF Links, NothingLeftRunning
<1> QED  BY <1>1, LinksInvariant, PTL

\* After Stop no call reaches a server, whatever it had done before
THEOREM StoppedIsSilent == Spec => NoCallAfterStop
<1>1. ASSUME Typed, Links, [Next]_vars, main = "stopped", NEW p \in Callers, got[p] = Nil,
             pc[p] # "receive"
      PROVE  got'[p] = Nil
  <2>1. \A s \in Servers : link[s] = "closed"
    BY <1>1 DEF Links
  <2>2. ASSUME NEW q \in Callers, CallStep(q)  PROVE got'[p] = Nil
    <3>1. CASE Exchange(q)
      <4>1. link[to[q]] # "open"
        BY <1>1, <2>1, <3>1 DEF Exchange, Typed, Addressed
      <4> QED  BY <1>1, <3>1, <4>1 DEF Exchange, End, Typed, TypeOK
    <3>2. CASE Load(q) \/ Send(q)
      BY <1>1, <3>2 DEF Load, Send, End, Typed, TypeOK
    <3>3. CASE Receive(q) \/ RacyReceive(q)
      <4>1. q # p /\ (got' = got \/ \E r : got' = [got EXCEPT ![q] = r])
        BY <1>1, <3>3 DEF Receive, RacyReceive, Receiving, End
      <4> QED  BY <1>1, <4>1 DEF Typed, TypeOK
    <3> QED  BY <2>2, <3>1, <3>2, <3>3 DEF CallStep
  <2>3. ASSUME NEW q \in Callers, NEW t \in Tools, LookupFails(q, t)  PROVE got'[p] = Nil
    BY <1>1, <2>3 DEF LookupFails, End, Typed, TypeOK
  <2>4. ASSUME ~ \E q \in Callers : CallStep(q) \/ \E t \in Tools : LookupFails(q, t)
        PROVE  UNCHANGED got
    BY <1>1, <2>4
    DEF Next, MainStep, Launch, Handshake, Connect, RollBack, Aggregate, StartLLM, StopNext,
        Shutdown, Serve, Break, Lookup, vars, callVars
  <2> QED  BY <1>1, <2>2, <2>3, <2>4
<1>2. Typed /\ Links /\ [Next]_vars =>
        [main = "stopped" =>
           \A p \in Callers : got[p] = Nil /\ pc[p] # "receive" => got'[p] = Nil]_vars
  BY <1>1
<1> QED  BY <1>2, LinksInvariant, PTL DEF Spec, NoCallAfterStop

-----------------------------------------------------------------------------
(***************************************************************************)
(* The routing table.                                                      *)
(***************************************************************************)

Routes == main \in {"llm", "up"} => \A s \in Servers : \A t \in tools[s] : toolMap[t] = s

\* CompositeClient.GetTool, whose answer decides whether a call needs an approval,
\* and CompositeClient.CallTool, which makes it, mean the same server
THEOREM HintAndCallAgree == Spec => []RouteMatchesHint
<1>1. Init => Routes
  BY DEF Init, Routes
<1>2. Typed /\ Routes /\ [Next]_vars => Routes'
  <2> SUFFICES ASSUME Typed, Routes, [Next]_vars  PROVE Routes'
    OBVIOUS
  <2>1. CASE Aggregate
    <3>1. ~Duplicates => \A s \in Servers : \A t \in tools[s] : t \in Tools /\ Owner(t) = s
      BY OwnerType DEF Typed, TypeOK
    <3> QED  BY <2>1, <3>1 DEF Aggregate, Routes, Typed, TypeOK
  <2>2. CASE Launch \/ Handshake \/ Connect \/ RollBack \/ StopNext \/ Shutdown
    BY <2>2 DEF Launch, Handshake, Connect, RollBack, StopNext, Shutdown, RollBackFrom,
                StartNext, Routes
  <2>3. CASE StartLLM
    BY <2>3 DEF StartLLM, Routes
  <2>4. ASSUME ~MainStep, ~Shutdown  PROVE UNCHANGED <<main, tools, toolMap>>
    BY <2>4 DEF Next, CallStep, Exchange, Load, Send, Receive, RacyReceive, Lookup, LookupFails,
                Serve, Break, startVars, vars
  <2> QED  BY <2>1, <2>2, <2>3, <2>4 DEF MainStep, Routes
<1>3. Routes => RouteMatchesHint
  BY DEF Routes, RouteMatchesHint
<1> QED  BY <1>1, <1>2, <1>3, InitTyped, TypedStep, PTL DEF Spec

-----------------------------------------------------------------------------
(***************************************************************************)
(* Responses.                                                              *)
(***************************************************************************)

\* Nobody calls before the clients are up
Quiet ==
    main \notin {"up", "stopping", "stopped"} =>
        /\ \A p \in Callers : pc[p] = "idle"
        /\ \A s \in Servers : inbox[s] = <<>>

\* A server has reported nothing before it is started
Fresh ==
    main \in {"starting", "handshake"} =>
        \A s \in Servers : s >= at => outbox[s] = <<>> /\ tools[s] = {}

\* Only a server that has reported a tool is called, and none while they start: the
\* line that a handshake has left behind is on a pipe that nobody uses
Mapped ==
    /\ \A t \in Tools : toolMap[t] # 0 =>
          tools[toolMap[t]] # {} /\ main \notin {"starting", "handshake"}
    /\ \A p \in Callers : to[p] # 0 =>
          tools[to[p]] # {} /\ main \notin {"starting", "handshake"}

\* A call that is under way has no response yet
Waiting == \A p \in Callers : pc[p] # "done" => got[p] = Nil

\* Two calls are never under way on the pipe of s together
Lonely(s) == \A p, q \in Callers : OnPipe(p, s) /\ OnPipe(q, s) => p = q

\* What a pipe holds that can still be read is the request of the caller that
\* waits for it, or the response to that request
Pipe(s) ==
    /\ link[s] = "open" /\ inbox[s] # <<>> =>
          /\ outbox[s] = <<>>
          /\ \E p \in Callers : Receiving(p, s) /\ inbox[s] = <<Request(p)>>
    /\ outbox[s] # <<>> =>
          \E p \in Callers : Receiving(p, s) /\ outbox[s] = <<Request(p)>>

Pipes == \A s \in Servers \ crossed : Lonely(s) /\ (tools[s] # {} => Pipe(s))

\* One pipe at a time: nothing that happens on another one matters
Own == Quiet /\ Fresh /\ Mapped /\ Waiting /\ Pipes /\ OwnUnlessCrossed

\* The steps of the main goroutine change nothing of a call
LEMMA MainOwn ==
    ASSUME Typed, Own, MainStep \/ Shutdown
    PROVE  Own'
<1>1. UNCHANGED <<pc, to, id, got, crossed, inbox>>
  BY DEF MainStep, Launch, Handshake, Connect, RollBack, Aggregate, StartLLM, StopNext, Shutdown,
         callVars, pipeVars
<1>2. Quiet'
  BY <1>1 DEF Own, Quiet, MainStep, Launch, Handshake, Connect, RollBack, Aggregate, StartLLM,
              StopNext, Shutdown, StartNext, RollBackFrom
<1>3. Waiting' /\ OwnUnlessCrossed'
  BY <1>1 DEF Own, Waiting, OwnUnlessCrossed, Request
<1>4. N \in Nat /\ Servers = 1 .. N /\ at \in 0 .. N + 1
  BY ClientParameters DEF Servers, Typed, TypeOK
<1>5. CASE Handshake
  <2>1. /\ at \in Servers /\ main = "handshake" /\ main' \in {"starting", "blocked"}
        /\ UNCHANGED <<toolMap, link>>
    BY <1>5 DEF Handshake, StartNext, Typed, Addressed
  <2>2. main' = "starting" => at' = at + 1
    BY <1>5 DEF Handshake, StartNext
  <2>3. outbox[at] = <<>> /\ tools[at] = {}
    BY <1>4, <2>1 DEF Own, Fresh
  <2>4. \A s \in Servers : s # at => outbox'[s] = outbox[s] /\ tools'[s] = tools[s]
    BY <1>5, <2>1 DEF Handshake, Typed, TypeOK
  <2>5. tools'[at] # {} => outbox'[at] = <<>>
    BY <1>5, <2>3 DEF Handshake, Typed, TypeOK
  <2>6. Fresh'
    <3> SUFFICES ASSUME main' \in {"starting", "handshake"}, NEW s \in Servers, s >= at'
                 PROVE  outbox'[s] = <<>> /\ tools'[s] = {}
      BY DEF Fresh
    <3>1. s > at
      BY <1>4, <2>1, <2>2
    <3> QED  BY <1>4, <2>1, <2>4, <3>1 DEF Own, Fresh
  <2>7. (\A t \in Tools : toolMap[t] = 0) /\ (\A p \in Callers : to[p] = 0)
    BY <2>1 DEF Own, Mapped
  <2>8. Mapped'
    BY <1>1, <2>1, <2>7 DEF Mapped
  <2>9. \A s \in Servers : inbox'[s] = <<>> /\ (tools'[s] # {} => s = at \/ tools[s] # {})
    BY <1>1, <2>1, <2>4 DEF Own, Quiet
  <2>10. Pipes'
    <3> SUFFICES ASSUME NEW s \in Servers \ crossed
                 PROVE  Lonely(s)' /\ (tools'[s] # {} => Pipe(s)')
      BY <1>1 DEF Pipes
    <3>1. Lonely(s)'
      BY <1>1 DEF Own, Pipes, Lonely, OnPipe
    <3>2. CASE s = at
      BY <2>5, <2>9, <3>1, <3>2 DEF Pipe
    <3>3. CASE s # at /\ tools[s] # {}
      BY <1>1, <2>1, <2>4, <3>1, <3>3 DEF Own, Pipes, Pipe, Receiving, Request
    <3> QED  BY <2>9, <3>1, <3>2, <3>3
  <2> QED  BY <1>2, <1>3, <2>6, <2>8, <2>10 DEF Own
<1>6. CASE Connect
  <2>1. /\ at \in Servers /\ main = "starting" /\ main' \in {"starting", "rollback"}
        /\ UNCHANGED <<toolMap, outbox>>
    BY <1>6, ClientParameters DEF Connect, StartNext, RollBackFrom, pipeVars
  <2>2. \A s \in Servers : s # at => link'[s] = link[s] /\ tools'[s] = tools[s]
    BY <1>6, <2>1 DEF Connect, Typed, TypeOK
  <2>3. \/ main' = "starting" /\ at' = at + 1
        \/ UNCHANGED <<at, tools>>
        \/ main' = "rollback"
    BY <1>6 DEF Connect, StartNext, RollBackFrom
  <2>4. Fresh'
    <3> SUFFICES ASSUME main' \in {"starting", "handshake"}, NEW s \in Servers, s >= at'
                 PROVE  outbox'[s] = <<>> /\ tools'[s] = {}
      BY DEF Fresh
    <3>1. s >= at /\ (s # at \/ UNCHANGED tools)
      BY <1>4, <2>1, <2>3
    <3> QED  BY <2>1, <2>2, <3>1 DEF Own, Fresh
  <2>5. (\A t \in Tools : toolMap[t] = 0) /\ (\A p \in Callers : to[p] = 0)
    BY <2>1 DEF Own, Mapped
  <2>6. Mapped'
    BY <1>1, <2>1, <2>5 DEF Mapped
  <2>7. outbox[at] = <<>> /\ \A s \in Servers : inbox[s] = <<>>
    BY <1>4, <2>1 DEF Own, Fresh, Quiet
  <2>8. Pipes'
    <3> SUFFICES ASSUME NEW s \in Servers \ crossed
                 PROVE  Lonely(s)' /\ (tools'[s] # {} => Pipe(s)')
      BY <1>1 DEF Pipes
    <3>1. Lonely(s)'
      BY <1>1 DEF Own, Pipes, Lonely, OnPipe
    <3>2. CASE s = at
      BY <1>1, <2>1, <2>7, <3>1, <3>2 DEF Pipe
    <3>3. CASE s # at
      BY <1>1, <2>1, <2>2, <3>1, <3>3 DEF Own, Pipes, Pipe, Receiving, Request
    <3> QED  BY <3>2, <3>3
  <2> QED  BY <1>2, <1>3, <2>4, <2>6, <2>8 DEF Own
<1>7. CASE Launch \/ RollBack \/ Aggregate \/ StartLLM \/ StopNext \/ Shutdown
  <2>1. UNCHANGED <<tools, outbox>>
    BY <1>7 DEF Launch, RollBack, Aggregate, StartLLM, StopNext, Shutdown, pipeVars
  <2>2. Fresh'
    BY <1>7, <2>1 DEF Launch, RollBack, Aggregate, StartLLM, StopNext, Shutdown, RollBackFrom,
                      Own, Fresh
  <2>3. CASE Aggregate
    <3>1. /\ main = "starting" /\ main' \in {"stopAll", "llm"}
          /\ \/ UNCHANGED toolMap
             \/ (~Duplicates /\ toolMap' = [t \in Tools |-> Owner(t)])
      <4>1. CASE Duplicates
        BY <2>3, <4>1 DEF Aggregate
      <4>2. CASE ~Duplicates
        BY <2>3, <4>2 DEF Aggregate
      <4> QED  BY <4>1, <4>2
    <3>2. \A t \in Tools : toolMap'[t] # 0 => tools[toolMap'[t]] # {}
      <4>1. CASE UNCHANGED toolMap
        BY <4>1 DEF Own, Mapped
      <4>2. CASE ~Duplicates /\ toolMap' = [t \in Tools |-> Owner(t)]
        BY <4>2, OwnerType
      <4> QED  BY <3>1, <4>1, <4>2
    <3>3. Mapped'
      BY <1>1, <2>1, <3>1, <3>2 DEF Own, Mapped
    <3>4. UNCHANGED link
      BY <2>3 DEF Aggregate
    <3>5. Pipes'
      BY <1>1, <2>1, <3>4 DEF Own, Pipes, Lonely, OnPipe, Pipe, Receiving, Request
    <3> QED  BY <1>2, <1>3, <2>2, <3>3, <3>5 DEF Own
  <2>4. CASE ~Aggregate
    <3>1. UNCHANGED toolMap /\ (main' \in {"starting", "handshake"} => main \in {"starting", "handshake"})
      BY <1>7, <2>4 DEF Launch, RollBack, StartLLM, StopNext, Shutdown, RollBackFrom
    <3>2. Mapped'
      BY <1>1, <2>1, <3>1 DEF Own, Mapped
    <3>3. \A s \in Servers : link'[s] = "open" => link[s] = "open" \/ inbox[s] = <<>>
      BY <1>7, <2>4 DEF Launch, RollBack, StartLLM, StopNext, Shutdown, Close, Typed, TypeOK,
                        Own, Quiet
    <3>4. Pipes'
      BY <1>1, <2>1, <3>3 DEF Own, Pipes, Lonely, OnPipe, Pipe, Receiving, Request
    <3> QED  BY <1>2, <1>3, <2>2, <3>2, <3>4 DEF Own
  <2> QED  BY <2>3, <2>4
<1> QED  BY <1>5, <1>6, <1>7 DEF MainStep

\* Neither does a server, except that a request becomes its response
LEMMA ServerOwn ==
    ASSUME Typed, Own, NEW s \in Servers, Serve(s) \/ Break(s)
    PROVE  Own'
<1>1. UNCHANGED <<startVars, pc, to, id, got, crossed>>
  BY DEF Serve, Break, callVars
<1>2. Waiting' /\ OwnUnlessCrossed' /\ Mapped'
  BY <1>1 DEF Own, Waiting, OwnUnlessCrossed, Mapped, Request, startVars
<1>3. \A r \in Servers : Lonely(r) => Lonely(r)'
  BY <1>1 DEF Lonely, OnPipe
<1>4. CASE Serve(s)
  <2>1. inbox[s] # <<>> /\ link[s] = "open" /\ UNCHANGED link
    BY <1>4 DEF Serve
  <2>2. main \in {"up", "stopping", "stopped"}
    BY <2>1 DEF Own, Quiet
  <2>3. Quiet' /\ Fresh'
    BY <1>1, <2>2 DEF Quiet, Fresh, startVars
  <2>4. Pipes'
    <3> SUFFICES ASSUME NEW r \in Servers \ crossed, tools[r] # {}
                 PROVE  Pipe(r)'
      BY <1>1, <1>3 DEF Own, Pipes, startVars
    <3>1. Pipe(r)
      BY DEF Own, Pipes
    <3>2. CASE r = s
      <4>1. PICK p \in Callers : Receiving(p, s) /\ inbox[s] = <<Request(p)>>
        BY <2>1, <3>1, <3>2 DEF Pipe
      <4>2. outbox[s] = <<>>
        BY <2>1, <3>1, <3>2 DEF Pipe
      <4>3. inbox'[s] = <<>> /\ outbox'[s] = <<Request(p)>>
        BY <1>4, <4>1, <4>2 DEF Serve, Typed, TypeOK
      <4> QED  BY <1>1, <3>2, <4>1, <4>3 DEF Pipe, Receiving, Request
    <3>3. CASE r # s
      <4>1. inbox'[r] = inbox[r] /\ outbox'[r] = outbox[r]
        BY <1>4, <3>3 DEF Serve, Typed, TypeOK
      <4> QED  BY <1>1, <2>1, <3>1, <4>1 DEF Pipe, Receiving, Request
    <3> QED  BY <3>2, <3>3
  <2> QED  BY <1>2, <2>3, <2>4 DEF Own
<1>5. CASE Break(s)
  <2>1. /\ UNCHANGED <<inbox, outbox>>
        /\ \A r \in Servers : link'[r] = link[r] \/ (link'[r] = "broken" /\ link[r] = "open")
    BY <1>5 DEF Break, pipeVars, Typed, TypeOK
  <2>2. Quiet' /\ Fresh'
    BY <1>1, <2>1 DEF Own, Quiet, Fresh, startVars
  <2>3. Pipes'
    BY <1>1, <1>3, <2>1 DEF Own, Pipes, Pipe, Receiving, Request, startVars
  <2> QED  BY <1>2, <2>2, <2>3 DEF Own
<1> QED  BY <1>4, <1>5

\* A step that leaves every pipe as it is, and moves p from place to place without
\* its being the one that waits on a pipe
LEMMA ElsewhereOwn ==
    ASSUME Typed, Own, NEW p \in Callers, pc[p] # "receive",
           UNCHANGED <<startVars, link, inbox, outbox>>,
           \A q \in Callers : q # p =>
               pc'[q] = pc[q] /\ to'[q] = to[q] /\ id'[q] = id[q],
           pc'[p] # "receive",
           NEW s \in Servers, Pipe(s)
    PROVE  Pipe(s)'
BY DEF Pipe, Receiving, Request, startVars

\* A caller that has the pipe for itself takes its own response from it
LEMMA CallerOwn ==
    ASSUME Typed, Own, NEW p \in Callers,
           CallStep(p) \/ \E t \in Tools : Lookup(p, t) \/ LookupFails(p, t)
    PROVE  Own'
<1>1. UNCHANGED <<startVars, link>>
  BY DEF CallStep, Exchange, Load, Send, Receive, RacyReceive, Lookup, LookupFails
<1>2. main \in {"up", "stopping", "stopped"}
  BY DEF CallStep, Exchange, Load, Send, Receive, RacyReceive, Receiving, Lookup, LookupFails,
         MayCall, Own, Quiet
<1>3. Quiet' /\ Fresh'
  BY <1>1, <1>2 DEF Quiet, Fresh, startVars
<1>4. CASE \E t \in Tools : Lookup(p, t)
  <2>1. PICK t \in Tools : Lookup(p, t)
    BY <1>4
  <2> DEFINE s == toolMap[t]
  <2>2. /\ pc[p] = "idle" /\ s # 0 /\ to' = [to EXCEPT ![p] = s]
        /\ \E k \in {"request", "load"} : pc' = [pc EXCEPT ![p] = k]
        /\ crossed' = crossed \cup {r \in {s} : \E q \in Callers : OnPipe(q, r)}
        /\ UNCHANGED <<inbox, outbox, id, got>>
    BY <2>1 DEF Lookup, MayCall, pipeVars
  <2>3. \A q \in Callers : q # p => pc'[q] = pc[q] /\ to'[q] = to[q] /\ id'[q] = id[q]
    BY <2>2 DEF Typed, TypeOK
  <2>4. pc'[p] \in {"request", "load"} /\ to'[p] = s
    BY <2>2 DEF Typed, TypeOK
  <2>5. Waiting' /\ OwnUnlessCrossed'
    BY <2>2, <2>3 DEF Own, Waiting, OwnUnlessCrossed, Request
  <2>6. Mapped'
    BY <1>1, <1>2, <2>2, <2>3, <2>4 DEF Own, Mapped, startVars
  <2>7. ASSUME NEW r \in Servers \ crossed'  PROVE Lonely(r)'
    <3>1. Lonely(r)
      BY <2>2, <2>7 DEF Own, Pipes
    <3>2. r = s => \A q \in Callers : ~OnPipe(q, s)
      BY <2>2, <2>7
    <3>3. \A q \in Callers : q # p => (OnPipe(q, r)' <=> OnPipe(q, r))
      BY <2>3 DEF OnPipe
    <3>4. OnPipe(p, r)' => r = s
      BY <2>4 DEF OnPipe
    <3> QED  BY <3>1, <3>2, <3>3, <3>4 DEF Lonely
  <2>8. ASSUME NEW r \in Servers \ crossed', tools[r] # {}  PROVE Pipe(r)'
    BY <1>1, <2>2, <2>3, <2>4, <2>8, ElsewhereOwn DEF Own, Pipes
  <2>9. Pipes'
    BY <1>1, <2>7, <2>8 DEF Pipes, startVars
  <2> QED  BY <1>3, <2>5, <2>6, <2>9 DEF Own
<1>5. CASE ~ \E t \in Tools : Lookup(p, t)
  <2>1. UNCHANGED <<to, crossed>>
    BY <1>5 DEF CallStep, Exchange, Load, Send, Receive, RacyReceive, LookupFails
  <2>2. Mapped'
    BY <1>1, <2>1 DEF Own, Mapped, startVars
  <2>3. CASE Exchange(p) \/ \E t \in Tools : LookupFails(p, t)
    <3>1. /\ pc[p] \in {"idle", "request"} /\ pc' = [pc EXCEPT ![p] = "done"]
          /\ \E r \in {Request(p), Nil} : got' = [got EXCEPT ![p] = r]
          /\ UNCHANGED <<inbox, outbox, id>>
      BY <2>3 DEF Exchange, LookupFails, MayCall, End, pipeVars
    <3>2. /\ \A q \in Callers : q # p => pc'[q] = pc[q] /\ got'[q] = got[q]
          /\ pc'[p] = "done" /\ got'[p] \in {Request(p), Nil}
      BY <3>1 DEF Typed, TypeOK
    <3>3. Waiting'
      BY <3>2 DEF Own, Waiting
    <3>4. OwnUnlessCrossed'
      BY <2>1, <3>1, <3>2 DEF Own, OwnUnlessCrossed, Request
    <3>5. \A s \in Servers : Lonely(s) => Lonely(s)'
      BY <2>1, <3>2 DEF Lonely, OnPipe
    <3>6. \A s \in Servers : Pipe(s) => Pipe(s)'
      BY <1>1, <2>1, <3>1, <3>2, ElsewhereOwn
    <3>7. Pipes'
      BY <1>1, <2>1, <3>5, <3>6 DEF Own, Pipes, startVars
    <3> QED  BY <1>3, <2>2, <3>3, <3>4, <3>7 DEF Own
  <2>4. CASE Load(p)
    <3>1. /\ pc[p] = "load" /\ pc' = [pc EXCEPT ![p] = "send"]
          /\ \A q \in Callers : q # p => id'[q] = id[q]
          /\ UNCHANGED <<inbox, outbox, got>>
      BY <2>4 DEF Load, pipeVars, Typed, TypeOK
    <3>2. /\ \A q \in Callers : q # p => pc'[q] = pc[q]
          /\ pc'[p] = "send" /\ got[p] = Nil
      BY <3>1 DEF Own, Waiting, Typed, TypeOK
    <3>3. Waiting'
      BY <3>1, <3>2 DEF Own, Waiting
    <3>4. OwnUnlessCrossed'
      BY <2>1, <3>1, <3>2 DEF Own, OwnUnlessCrossed, Request
    <3>5. \A s \in Servers : Lonely(s) => Lonely(s)'
      BY <2>1, <3>1, <3>2 DEF Lonely, OnPipe
    <3>6. \A s \in Servers : Pipe(s) => Pipe(s)'
      BY <1>1, <2>1, <3>1, <3>2, ElsewhereOwn
    <3>7. Pipes'
      BY <1>1, <2>1, <3>5, <3>6 DEF Own, Pipes, startVars
    <3> QED  BY <1>3, <2>2, <3>3, <3>4, <3>7 DEF Own
  <2>5. CASE Send(p)
    <3> DEFINE s == to[p]
    <3>1. /\ pc[p] = "send" /\ s \in Servers /\ OnPipe(p, s) /\ UNCHANGED <<outbox, id>>
          /\ tools[s] # {} /\ got[p] = Nil
      BY <2>5, ClientParameters DEF Send, OnPipe, Typed, Addressed, Own, Mapped, Waiting, Servers
    <3>2. \E k \in {"receive", "done"} : pc' = [pc EXCEPT ![p] = k]
      BY <2>5 DEF Send, End
    <3>3. /\ \A q \in Callers : q # p => pc'[q] = pc[q]
          /\ pc'[p] \in {"receive", "done"}
      BY <3>2 DEF Typed, TypeOK
    <3>4. got' = got
      <4>1. got' = got \/ got' = [got EXCEPT ![p] = Nil]
        BY <2>5 DEF Send, End
      <4> QED  BY <3>1, <4>1 DEF Typed, TypeOK
    <3>5. Waiting' /\ OwnUnlessCrossed'
      BY <2>1, <3>1, <3>3, <3>4 DEF Own, Waiting, OwnUnlessCrossed, Request
    <3>6. \A r \in Servers : Lonely(r) => Lonely(r)'
      BY <2>1, <3>1, <3>3 DEF Lonely, OnPipe
    <3>7. ASSUME NEW r \in Servers \ crossed, tools[r] # {}, r # s  PROVE Pipe(r)'
      <4>1. inbox'[r] = inbox[r] /\ outbox'[r] = outbox[r] /\ link'[r] = link[r]
        BY <1>1, <2>5, <3>1, <3>7 DEF Send, Typed, TypeOK
      <4>2. \A q \in Callers : Receiving(q, r) => Receiving(q, r)' /\ Request(q)' = Request(q)
        BY <2>1, <3>1, <3>3 DEF Receiving, Request
      <4>3. Pipe(r)
        BY <3>7 DEF Own, Pipes
      <4> QED  BY <4>1, <4>2, <4>3 DEF Pipe
    <3>8. ASSUME s \notin crossed  PROVE Pipe(s)'
      <4>1. Lonely(s) /\ Pipe(s)
        BY <3>1, <3>8 DEF Own, Pipes
      <4>2. \A q \in Callers : ~Receiving(q, s)
        BY <3>1, <4>1 DEF Lonely, OnPipe, Receiving
      <4>3. outbox[s] = <<>> /\ (link[s] = "open" => inbox[s] = <<>>)
        BY <4>1, <4>2 DEF Pipe
      <4>4. CASE link[s] = "open"
        <5>1. inbox' = [inbox EXCEPT ![s] = Append(@, Request(p))] /\ pc'[p] = "receive"
          BY <2>5, <3>1, <4>4 DEF Send, Typed, TypeOK
        <5>2. inbox'[s] = <<Request(p)>>
          BY <3>1, <4>3, <4>4, <5>1 DEF Typed, TypeOK
        <5>3. Receiving(p, s)' /\ Request(p)' = Request(p)
          BY <2>1, <3>1, <5>1 DEF Receiving, Request
        <5> QED  BY <2>1, <3>1, <4>3, <5>2, <5>3 DEF Pipe
      <4>5. CASE link[s] # "open"
        BY <1>1, <2>1, <2>5, <3>1, <4>3, <4>5 DEF Pipe, Send
      <4> QED  BY <4>4, <4>5
    <3>9. Pipes'
      BY <1>1, <2>1, <3>6, <3>7, <3>8 DEF Own, Pipes, startVars
    <3> QED  BY <1>3, <2>2, <3>5, <3>9 DEF Own
  <2>6. CASE Receive(p) \/ RacyReceive(p)
    <3> DEFINE s == to[p]
    <3>1. /\ pc[p] = "receive" /\ s \in Servers /\ Receiving(p, s) /\ UNCHANGED <<inbox, id>>
          /\ tools[s] # {} /\ got[p] = Nil
      BY <2>6, ClientParameters DEF Receive, RacyReceive, Receiving, Typed, Addressed, Own, Mapped,
                                    Waiting, Servers
    <3>2. /\ \A q \in Callers : q # p => pc'[q] = pc[q] /\ got'[q] = got[q]
          /\ pc'[p] = "done" \/ (pc'[p] = pc[p] /\ got'[p] = got[p])
          /\ \A r \in Servers : r # s => outbox'[r] = outbox[r]
      <4>1. \/ UNCHANGED <<pc, got>>
            \/ \E v : pc' = [pc EXCEPT ![p] = "done"] /\ got' = [got EXCEPT ![p] = v]
        BY <2>6 DEF Receive, RacyReceive, End
      <4>2. outbox' = outbox \/ \E v : outbox' = [outbox EXCEPT ![s] = v]
        BY <2>6 DEF Receive, RacyReceive
      <4>3. \A r \in Servers : r # s => outbox'[r] = outbox[r]
        BY <4>2 DEF Typed, TypeOK
      <4>4. CASE UNCHANGED <<pc, got>>
        BY <4>3, <4>4
      <4>5. CASE \E v : pc' = [pc EXCEPT ![p] = "done"] /\ got' = [got EXCEPT ![p] = v]
        BY <4>3, <4>5 DEF Typed, TypeOK
      <4> QED  BY <4>1, <4>4, <4>5
    <3>3. Waiting'
      BY <3>1, <3>2 DEF Own, Waiting
    <3>4. \A r \in Servers : Lonely(r) => Lonely(r)'
      BY <2>1, <3>1, <3>2 DEF Lonely, OnPipe
    <3>5. ASSUME NEW r \in Servers \ crossed, tools[r] # {}, r # s  PROVE Pipe(r)'
      <4>1. \A q \in Callers : Receiving(q, r) => Receiving(q, r)' /\ Request(q)' = Request(q)
        BY <2>1, <3>1, <3>2, <3>5 DEF Receiving, Request
      <4>2. Pipe(r)
        BY <3>5 DEF Own, Pipes
      <4> QED  BY <1>1, <3>1, <3>2, <3>5, <4>1, <4>2 DEF Pipe
    <3>6. ASSUME s \notin crossed
          PROVE  Pipe(s)' /\ (got'[p] # Nil => got'[p] = Request(p))
      <4>1. Lonely(s) /\ Pipe(s)
        BY <3>1, <3>6 DEF Own, Pipes
      <4>2. \A q \in Callers : Receiving(q, s) => q = p
        BY <3>1, <4>1 DEF Lonely, OnPipe, Receiving
      <4>3. Receive(p)
        BY <2>6, <4>2 DEF RacyReceive
      <4>4. outbox[s] # <<>> => outbox[s] = <<Request(p)>>
        BY <4>1, <4>2 DEF Pipe
      <4>5. CASE End(p, Head(outbox[s])) /\ outbox[s] # <<>>
                 /\ outbox' = [outbox EXCEPT ![s] = Tail(@)]
        <5>1. outbox[s] = <<Request(p)>> /\ (link[s] = "open" => inbox[s] = <<>>)
          BY <4>1, <4>4, <4>5 DEF Pipe
        <5>2. outbox'[s] = <<>> /\ got'[p] = Request(p)
          BY <3>1, <4>5, <5>1 DEF End, Typed, TypeOK
        <5> QED  BY <1>1, <2>1, <3>1, <5>1, <5>2 DEF Pipe
      <4>6. CASE End(p, Nil) /\ link[s] # "open" /\ outbox' = [outbox EXCEPT ![s] = <<>>]
        <5>1. outbox'[s] = <<>> /\ got'[p] = Nil
          BY <3>1, <4>6 DEF End, Typed, TypeOK
        <5> QED  BY <1>1, <2>1, <3>1, <4>6, <5>1 DEF Pipe
      <4> QED  BY <4>3, <4>5, <4>6 DEF Receive
    <3>7. OwnUnlessCrossed'
      BY <2>1, <3>1, <3>2, <3>6 DEF Own, OwnUnlessCrossed, Request
    <3>8. Pipes'
      BY <1>1, <2>1, <3>4, <3>5, <3>6 DEF Own, Pipes, startVars
    <3> QED  BY <1>3, <2>2, <3>3, <3>7, <3>8 DEF Own
  <2> QED  BY <1>5, <2>3, <2>4, <2>5, <2>6 DEF CallStep
<1> QED  BY <1>4, <1>5

\* StdioClient.call compares no id, yet a call that succeeds has the response to its
\* own request unless two calls have been under way on its pipe together: neither the
\* calls on other pipes, nor a child that exits, nor a shutdown can mix them up
THEOREM UncrossedOwnResponse == Spec => []OwnUnlessCrossed
<1>1. Init => Own
  BY DEF Init, Own, Quiet, Fresh, Mapped, Waiting, Pipes, Lonely, OnPipe, Pipe, OwnUnlessCrossed
<1>2. Typed /\ Own /\ [Next]_vars => Own'
  <2>1. ASSUME Own, UNCHANGED vars  PROVE Own'
    BY <2>1 DEF Own, Quiet, Fresh, Mapped, Waiting, Pipes, Lonely, OnPipe, Pipe, OwnUnlessCrossed,
                Receiving, Request, vars, startVars, pipeVars, callVars
  <2> QED  BY <2>1, MainOwn, ServerOwn, CallerOwn DEF Next
<1>3. Own => OwnUnlessCrossed
  BY DEF Own
<1> QED  BY <1>1, <1>2, <1>3, InitTyped, TypedStep, PTL DEF Spec

=============================================================================

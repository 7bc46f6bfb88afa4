----------------------------- MODULE McpClient ------------------------------
(***************************************************************************)
(* The MCP clients of internal/mcp: a CompositeClient over servers that    *)
(* are reached over HTTP or over the pipes of a child process.             *)
(*                                                                         *)
(* The main goroutine starts the clients in order and stops them at        *)
(* shutdown; the goroutines of the HTTP requests call tools.  The mutex of *)
(* CompositeClient guards the routing table only, the one of StdioClient   *)
(* guards Start, Stop and the tool list only: StdioClient.call runs        *)
(* without a lock, and its counter and its bufio.Reader are shared.        *)
(***************************************************************************)
EXTENDS Naturals, Sequences

CONSTANTS
    N,                  \* the number of servers, started in this order
    Http,               \* those reached over HTTP
    Tools,              \* tool names
    Callers,            \* the goroutines that call a tool, one call each
    Nil,                \* no response, also the answer of a failed call
    ConnectMaxRetries,  \* connectMaxRetries, 20 in the code
    MaxBadHandshakes    \* bound: how often a child process fails to initialise

Servers == 1 .. N

ASSUME ClientParameters ==
    /\ N \in Nat
    /\ Http \subseteq Servers
    /\ ConnectMaxRetries \in Nat \ {0}
    /\ MaxBadHandshakes \in Nat

VARIABLES
    main,       \* where the main goroutine is
    at,         \* the server it is busy with
    attempts,   \* connection attempts to that server
    bad,        \* failed handshakes so far
    link,       \* the child process, or the connection, of each server
    tools,      \* the tools each server has reported
    toolMap,    \* CompositeClient.toolMap, 0 for a tool that is not in it
    nextID,     \* StdioClient.nextID
    inbox,      \* the child's stdin: requests it has not read yet
    outbox,     \* the child's stdout: responses that nobody has read yet
    pc,         \* where each caller is
    to,         \* the server that it calls
    id,         \* the request id it has taken
    got,        \* the response it has taken for its own
    crossed     \* history: the child processes on whose pipes two calls have been
                \* under way at the same time

startVars == <<main, at, attempts, bad, tools, toolMap>>
callVars == <<pc, to, id, got, crossed>>
pipeVars == <<nextID, inbox, outbox>>
vars == <<startVars, link, pipeVars, callVars>>

Stdio == Servers \ Http

\* A message on a pipe: by, the request it is or answers, is what the client
\* cannot see; id is the JSON-RPC id
Packet == [by : Callers \cup {Nil}, id : Nat]

\* The request of caller p, or its response
Request(p) == [by |-> p, id |-> id[p]]

\* The response to the client's own tools/list
ToolList == [by |-> Nil, id |-> 2]

TypeOK ==
    /\ main \in {"starting", "handshake", "blocked", "rollback", "stopAll", "llm", "up",
                 "stopping", "failed", "stopped"}
    /\ at \in 0 .. N + 1
    /\ attempts \in 0 .. ConnectMaxRetries
    /\ bad \in 0 .. MaxBadHandshakes
    /\ link \in [Servers -> {"closed", "open", "broken"}]
    /\ tools \in [Servers -> SUBSET Tools]
    /\ toolMap \in [Tools -> 0 .. N]
    /\ nextID \in [Servers -> Nat]
    /\ inbox \in [Servers -> Seq(Packet)]
    /\ outbox \in [Servers -> Seq(Packet)]
    /\ pc \in [Callers -> {"idle", "request", "load", "send", "receive", "done"}]
    /\ to \in [Callers -> 0 .. N]
    /\ id \in [Callers -> Nat]
    /\ got \in [Callers -> Packet \cup {Nil}]
    /\ crossed \subseteq Stdio

Init ==
    /\ main = "starting"
    /\ at = 1
    /\ attempts = 0
    /\ bad = 0
    /\ link = [s \in Servers |-> "closed"]
    /\ tools = [s \in Servers |-> {}]
    /\ toolMap = [t \in Tools |-> 0]
    /\ nextID = [s \in Servers |-> 1]
    /\ inbox = [s \in Servers |-> <<>>]
    /\ outbox = [s \in Servers |-> <<>>]
    /\ pc = [p \in Callers |-> "idle"]
    /\ to = [p \in Callers |-> 0]
    /\ id = [p \in Callers |-> 0]
    /\ got = [p \in Callers |-> Nil]
    /\ crossed = {}

-----------------------------------------------------------------------------
(***************************************************************************)
(* Start and Stop, by the main goroutine.                                  *)
(***************************************************************************)

StartNext ==
    /\ main' = "starting"
    /\ at' = at + 1
    /\ attempts' = 0

\* Mutant of RollBackFrom: the loop starts one server too low
RollBackFromBefore(s) == main' = "rollback" /\ at' = IF s = 0 THEN 0 ELSE s - 1

RollBackFrom(s) == main' = "rollback" /\ at' = s

\* StdioClient.Start, until the child process runs
Launch ==
    /\ main = "starting" /\ at \in Stdio
    /\ \/ /\ link' = [link EXCEPT ![at] = "open"]
          /\ main' = "handshake"
          /\ UNCHANGED at
       \/ /\ RollBackFrom(at - 1)
          /\ UNCHANGED link
    /\ UNCHANGED <<attempts, bad, tools, toolMap, pipeVars, callVars>>

\* initialize, notifications/initialized and tools/list; nobody else uses the pipe
\* yet.  The notification has the id 0, so the child may answer it: loadTools takes
\* that answer for the list, which stays on the pipe.  When a call fails, or the
\* answer is an error, Start calls Stop, which waits for the mutex that Start holds.
Handshake ==
    /\ main = "handshake"
    /\ \/ /\ link[at] = "open"
          /\ \/ /\ \E reported \in SUBSET Tools : tools' = [tools EXCEPT ![at] = reported]
                /\ UNCHANGED outbox
             \/ /\ outbox' = [outbox EXCEPT ![at] = <<ToolList>>]
                /\ UNCHANGED tools
          /\ nextID' = [nextID EXCEPT ![at] = 3]
          /\ StartNext
          /\ UNCHANGED bad
       \/ /\ bad < MaxBadHandshakes
          /\ bad' = bad + 1
          /\ main' = "blocked"
          /\ UNCHANGED <<at, attempts, tools, nextID, outbox>>
    /\ UNCHANGED <<link, toolMap, inbox, callVars>>

\* Mutant of RetryLeft: one attempt too many
RetryOnceMore == attempts < ConnectMaxRetries

RetryLeft == attempts + 1 < ConnectMaxRetries

\* HTTPClient.Start: a failed attempt closes its own connection
Connect ==
    /\ main = "starting" /\ at \in Http
    /\ \/ /\ link' = [link EXCEPT ![at] = "open"]
          /\ \E reported \in SUBSET Tools : tools' = [tools EXCEPT ![at] = reported]
          /\ StartNext
       \/ /\ attempts' = attempts + 1
          /\ IF RetryLeft
             THEN UNCHANGED <<main, at>>
             ELSE RollBackFrom(at - 1)
          /\ UNCHANGED <<link, tools>>
    /\ UNCHANGED <<bad, toolMap, pipeVars, callVars>>

\* Mutant of Close: the connections to HTTP servers stay open
CloseChildren(s) == link' = IF s \in Http THEN link ELSE [link EXCEPT ![s] = "closed"]

Close(s) == link' = [link EXCEPT ![s] = "closed"]

\* CompositeClient.Start stops the clients that it started before the failed one
RollBack ==
    /\ main = "rollback"
    /\ IF at = 0
       THEN main' = "failed" /\ UNCHANGED <<at, link>>
       ELSE Close(at) /\ at' = at - 1 /\ UNCHANGED main
    /\ UNCHANGED <<attempts, bad, tools, toolMap, pipeVars, callVars>>

\* Mutant of Duplicates: a server is compared with the one before it only
NeighbourDuplicates == \E s \in Servers : s > 1 /\ tools[s - 1] \cap tools[s] # {}

\* Two servers report a tool of the same name
Duplicates == \E r, s \in Servers : r < s /\ tools[r] \cap tools[s] # {}

\* The last of the servers that report tool t: each overrides the ones before
Owner(t) ==
    CHOOSE s \in 0 .. N : /\ s # 0 => t \in tools[s]
                          /\ \A r \in Servers : t \in tools[r] => r <= s

\* The tools of all servers are merged into one list and one routing table; the
\* table of a start that fails here is never read.  A server names a tool once.
Aggregate ==
    /\ main = "starting" /\ at = N + 1
    /\ IF Duplicates
       THEN main' = "stopAll" /\ at' = 1 /\ UNCHANGED toolMap
       ELSE main' = "llm" /\ at' = 0 /\ toolMap' = [t \in Tools |-> Owner(t)]
    /\ UNCHANGED <<attempts, bad, tools, link, pipeVars, callVars>>

\* Agent.Start goes on to the LLM client; without one it stops the MCP clients
StartLLM ==
    /\ main = "llm"
    /\ \/ main' = "up" /\ UNCHANGED at
       \/ main' = "stopAll" /\ at' = 1
    /\ UNCHANGED <<attempts, bad, tools, toolMap, link, pipeVars, callVars>>

Shutdown ==
    /\ main = "up"
    /\ main' = "stopping"
    /\ at' = 1
    /\ UNCHANGED <<attempts, bad, tools, toolMap, link, pipeVars, callVars>>

\* stopAllLocked; StdioClient.Stop closes stdin, kills the child and waits for it
StopNext ==
    /\ main \in {"stopAll", "stopping"}
    /\ IF at = N + 1
       THEN /\ main' = IF main = "stopAll" THEN "failed" ELSE "stopped"
            /\ UNCHANGED <<at, link>>
       ELSE Close(at) /\ at' = at + 1 /\ UNCHANGED main
    /\ UNCHANGED <<attempts, bad, tools, toolMap, pipeVars, callVars>>

-----------------------------------------------------------------------------
(***************************************************************************)
(* The servers, which are other programs.                                  *)
(***************************************************************************)

\* A child process answers the requests on its stdin one by one
Serve(s) ==
    /\ s \in Stdio
    /\ link[s] = "open" /\ inbox[s] # <<>>
    /\ inbox' = [inbox EXCEPT ![s] = Tail(@)]
    /\ outbox' = [outbox EXCEPT ![s] = Append(@, Head(inbox[s]))]
    /\ UNCHANGED <<startVars, link, nextID, callVars>>

\* A server exits or becomes unreachable while the agent is up
Break(s) ==
    /\ main = "up"
    /\ link[s] = "open"
    /\ link' = [link EXCEPT ![s] = "broken"]
    /\ UNCHANGED <<startVars, pipeVars, callVars>>

-----------------------------------------------------------------------------
(***************************************************************************)
(* CallTool.                                                               *)
(***************************************************************************)

End(p, response) ==
    /\ pc' = [pc EXCEPT ![p] = "done"]
    /\ got' = [got EXCEPT ![p] = response]

\* CompositeClient.CallTool finds the server under its mutex, which Stop holds
\* too, and releases it.  The HTTP server of the agent is shut down after the
\* clients are stopped, so calls still arrive then.
MayCall(p) == pc[p] = "idle" /\ main \in {"up", "stopped"}

\* A call of p is under way on the pipe of s
OnPipe(p, s) == pc[p] \in {"load", "send", "receive"} /\ to[p] = s

Lookup(p, t) ==
    LET s == toolMap[t] IN
    /\ MayCall(p)
    /\ s # 0
    /\ to' = [to EXCEPT ![p] = s]
    /\ pc' = [pc EXCEPT ![p] = IF s \in Http THEN "request" ELSE "load"]
    /\ crossed' = crossed \cup {r \in {s} : \E q \in Callers : OnPipe(q, r)}
    /\ UNCHANGED <<startVars, link, pipeVars, id, got>>

\* The LLM may name a tool that does not exist
LookupFails(p, t) ==
    /\ MayCall(p)
    /\ toolMap[t] = 0
    /\ End(p, Nil)
    /\ UNCHANGED <<startVars, link, pipeVars, to, id, crossed>>

\* HTTPClient.CallTool: an exchange of its own, which ends within 30 seconds
Exchange(p) ==
    /\ pc[p] = "request"
    /\ \/ link[to[p]] = "open" /\ End(p, Request(p))
       \/ End(p, Nil)
    /\ UNCHANGED <<startVars, link, pipeVars, to, id, crossed>>

\* StdioClient.call reads the counter ...
Load(p) ==
    /\ pc[p] = "load"
    /\ id' = [id EXCEPT ![p] = nextID[to[p]]]
    /\ pc' = [pc EXCEPT ![p] = "send"]
    /\ UNCHANGED <<startVars, link, pipeVars, to, got, crossed>>

\* ... writes it back, and sends the request in one write
Send(p) ==
    LET s == to[p] IN
    /\ pc[p] = "send"
    /\ nextID' = [nextID EXCEPT ![s] = id[p] + 1]
    /\ IF link[s] = "open"
       THEN /\ inbox' = [inbox EXCEPT ![s] = Append(@, Request(p))]
            /\ pc' = [pc EXCEPT ![p] = "receive"]
            /\ UNCHANGED got
       ELSE End(p, Nil) /\ UNCHANGED inbox
    /\ UNCHANGED <<startVars, link, outbox, to, id, crossed>>

Receiving(p, s) == pc[p] = "receive" /\ to[p] = s

\* Mutant of Receive: a call may give up and leave its response on the pipe
ReceiveOrGiveUp(p) ==
    LET s == to[p] IN
    /\ pc[p] = "receive"
    /\ \/ /\ outbox[s] # <<>>
          /\ End(p, Head(outbox[s]))
          /\ outbox' = [outbox EXCEPT ![s] = Tail(@)]
       \/ End(p, Nil) /\ UNCHANGED outbox
    /\ UNCHANGED <<startVars, link, nextID, inbox, to, id, crossed>>

\* Mutant of Receive: the end of the pipe goes unnoticed
ReceiveWithoutEOF(p) ==
    LET s == to[p] IN
    /\ pc[p] = "receive"
    /\ outbox[s] # <<>>
    /\ End(p, Head(outbox[s]))
    /\ outbox' = [outbox EXCEPT ![s] = Tail(@)]
    /\ UNCHANGED <<startVars, link, nextID, inbox, to, id, crossed>>

\* The next line is taken for the response, its id is not looked at.  It is an
\* error when the child is gone and the pipe has run dry, or when Stop has closed
\* the pipe: what the reader had not buffered by then is lost.
Receive(p) ==
    LET s == to[p] IN
    /\ pc[p] = "receive"
    /\ \/ /\ outbox[s] # <<>>
          /\ End(p, Head(outbox[s]))
          /\ outbox' = [outbox EXCEPT ![s] = Tail(@)]
       \/ /\ link[s] = "closed" \/ (link[s] = "broken" /\ outbox[s] = <<>>)
          /\ End(p, Nil)
          /\ outbox' = [outbox EXCEPT ![s] = <<>>]
    /\ UNCHANGED <<startVars, link, nextID, inbox, to, id, crossed>>

\* Two goroutines in one bufio.Reader: a line may be returned to both, mangled so
\* that it cannot be decoded, or overwritten by the next read of the pipe
RacyReceive(p) ==
    LET s == to[p] IN
    /\ \E q \in Callers \ {p} : Receiving(p, s) /\ Receiving(q, s)
    /\ outbox[s] # <<>>
    /\ \/ End(p, Head(outbox[s])) /\ UNCHANGED outbox
       \/ End(p, Nil) /\ outbox' \in {outbox, [outbox EXCEPT ![s] = Tail(@)]}
       \/ outbox' = [outbox EXCEPT ![s] = Tail(@)] /\ UNCHANGED <<pc, got>>
    /\ UNCHANGED <<startVars, link, nextID, inbox, to, id, crossed>>

-----------------------------------------------------------------------------

MainStep ==
    \/ Launch \/ Handshake \/ Connect \/ RollBack \/ Aggregate \/ StartLLM \/ StopNext

CallStep(p) == Exchange(p) \/ Load(p) \/ Send(p) \/ Receive(p) \/ RacyReceive(p)

Next ==
    \/ MainStep \/ Shutdown
    \/ \E s \in Servers : Serve(s) \/ Break(s)
    \/ \E p \in Callers : CallStep(p) \/ \E t \in Tools : Lookup(p, t) \/ LookupFails(p, t)

Spec == Init /\ [][Next]_vars

\* Goroutines are scheduled, and a child process answers what it reads as long
\* as it runs
FairSpec ==
    /\ Spec
    /\ WF_vars(MainStep)
    /\ \A s \in Servers : WF_vars(Serve(s))
    /\ \A p \in Callers : WF_vars(CallStep(p))

-----------------------------------------------------------------------------
(***************************************************************************)
(* Properties.                                                             *)
(***************************************************************************)

\* Every tool of the merged list, from which the agent takes the destructive
\* hint, is routed to the server that reported it
RouteMatchesHint ==
    main = "up" => \A s \in Servers : \A t \in tools[s] : toolMap[t] = s

\* A start that failed and a shutdown that returned leave nothing running
NothingLeftRunning ==
    main \in {"failed", "stopped"} => \A s \in Servers : link[s] # "open"

\* Once the clients are stopped no call reaches a server any more: only what was
\* already sent, and answered, may still come out of a pipe
NoCallAfterStop ==
    [][main = "stopped" =>
         \A p \in Callers : got[p] = Nil /\ pc[p] # "receive" => got'[p] = Nil]_vars

\* A call that succeeds has the response to its own request: CompositeClient
\* "serializes CallTool for thread safety" (client_composite.go, mu).
OwnResponse == \A p \in Callers : got[p] # Nil => got[p] = Request(p)

\* Confusion stays on the pipe where it arose: a call that succeeds has the response
\* to its own request, though no id is compared (StdioClient.call), unless it went to
\* a child process on whose pipe two calls have been under way at the same time.
OwnUnlessCrossed ==
    \A p \in Callers : got[p] # Nil => got[p] = Request(p) \/ to[p] \in crossed

\* Every call ends, with a response or with an error once the server is gone; one on
\* a pipe that two calls have shared may have lost its line and hangs, until a
\* shutdown ends it, too (StdioClient.receive).
EveryCallEnds ==
    \A p \in Callers :
        /\ pc[p] # "idle" ~> pc[p] = "done" \/ to[p] \in crossed
        /\ pc[p] # "idle" /\ main \in {"stopping", "stopped"} ~> pc[p] = "done"

\* A failed start stops the servers that were started before, "all-or-nothing", and
\* reports the error (CompositeClient.Start).
FailedStartEnds == main \in {"blocked", "rollback", "stopAll"} ~> main = "failed"

=============================================================================

# Agent Stop and Go in TLA+

This directory models the core of Agent Stop and Go: an HTTP agent that lets an
LLM call tools, stops before each destructive call until a client approves it,
and goes on afterwards, with the conversation kept in JSON files in between. It
also models the web frontend that talks to the agent and the filesystem server
whose tools the agent calls.

## 1. The system

| Component | State it keeps | Operations | Interacts with |
|-----------|----------------|------------|----------------|
| Conversation record (`internal/conversation`) | status, messages, pending approval, pipeline state | append a message, a tool call, a tool result; set and resolve an approval | the agent, which owns one private copy per request |
| Storage (`internal/storage`) | one JSON file per conversation behind one RW mutex | save, load, list, find by approval UUID | the only state that requests share |
| Agent, simple mode (`internal/agent/agent.go`) | none between requests | start a conversation, process a message, resolve an approval; the loop LLM -> tool -> LLM | storage, LLM, MCP client, A2A clients |
| Orchestrator (`internal/agent/orchestrator.go`) | session state of one run, pipeline state while paused | sequential, parallel, loop, llm, a2a nodes; pause and resume | agent, conversation |
| HTTP and A2A handlers (`internal/api`) | none | create, send, resolve, A2A `message/send` and `tasks/get` | agent; clients and parent agents |
| MCP clients (`internal/mcp`) | child process, pipes, `nextID`, tool table | start, stop, call a tool over stdio or HTTP, route by tool | tool servers |
| A2A client (`internal/a2a`) | none | send a message, continue a task | another agent's A2A handler |
| LLM clients (`internal/llm`) | none | one completion with tools | providers |
| Web frontend (`cmd/web`) | sessions with tokens, pending logins | login, callback, refresh, logout, proxy | OAuth server, agent |
| Filesystem MCP server (`cmd/mcp-filesystem`, `internal/filesystem`) | none (the file system) | read, write, patch, copy, move, remove, search | the agent over HTTP |
| Resources MCP server (`cmd/mcp-resources`) | an SQLite table | add, list, remove | the agent over HTTP |
| Configuration and start (`internal/config`, `cmd/agent`) | none | load, defaults, validation, start, shutdown | everything |
| Auth context (`internal/auth`) | none | token and session id in a context | handlers, clients |

### What is hard about it

- **Requests share only files.** A handler reads its conversation, works on a
  private copy for minutes (LLM calls, tool calls, remote agents) and writes the
  whole file at the end. Nothing holds the conversation meanwhile: the mutex of
  the storage covers one read or one write. The last save wins.
- **An approval is cleared late.** `ResolveApproval` clears it in the copy
  first, runs the tool, runs the loop, and saves last. Until then every other
  resolution finds the approval too.
- **Two fields say the same thing.** `status` blocks messages, `pending_approval`
  is what can be resolved.
- **Errors of saves are often dropped** (`_ = a.storage.SaveConversation(conv)`),
  and `os.WriteFile` is not atomic.
- **A chain of agents** holds one approval in several places: the agent that runs
  the tool and a proxy in every agent above it, connected by calls that time out.
- **Pause and resume of a tree** that has parallel and loop nodes.
- **Tool servers behind one pipe**, started and stopped as a group.
- **Token refresh and logout** that race in the web frontend, and a page that is left
  and loaded again in the middle of a message.
- **File tools without locks**: each tool is several system calls, and other calls of
  the same server act between two of them.
- **Arithmetic on lines**: hunk headers, running offsets, windows of lines and bytes,
  depths of directories.

`PROJECT.json` lists these as hazards, each at its line.

### What makes each component correct

- Conversation and storage: the two fields agree; an approval is in one
  conversation; a stored transcript only grows; a resolved approval stays
  resolved; a write is all or nothing.
- Agent: no destructive call without a decision about that very call; an approval
  runs at most once; a rejection holds; the transcript given to the LLM has a
  result for each call; every request ends.
- Orchestrator: a resume goes on where the pause was, with the session state of the
  pause; nothing runs twice; an approval and the pipeline it stopped belong
  together; the client knows of every pending approval; no remote task is left
  waiting; a run ends.
- Two agents: the proxy waits exactly while the remote task waits for the action that
  the client was shown; together they are one approval gate.
- MCP clients: a call gets its own response and ends; the tool whose destructive
  hint was read is the one that is called; a failed start leaves nothing running
  and returns; after a shutdown nothing is called.
- Web: a session that logged out stays logged out and one that did not is dropped only
  for cause; a message is sent again once, after the authentication it asked for; the
  Send button comes back.
- Filesystem: a diff turns the one version into the other, and a diff that does not
  fit changes nothing; an append is not lost and a file is created by one call; a
  move loses no file wherever it stops; a search finds what was there all along.

## 2. Plan

Most important first. Sections 3 to 6 describe what exists.

1. **Conversation, Storage, SimpleAgent, ApprovalGate** - done: the shared store,
   the approval workflow and its abstract promise, with proofs.
2. **McpClient** - done, with proofs: `StdioClient`, `HTTPClient` and
   `CompositeClient` with start, rollback, stop, the lock taken twice and
   interleaved `call`s on one pipe.
3. **Orchestrator, Pipeline** - done, with proofs: a constant tree, an activation per
   node, pause and resume, and the abstract promise of a sequential pipeline.
4. **ProxyChain** - done, with the proof that two agents implement `ApprovalGate`.
5. **Patch, UnifiedDiff** - done, with proofs about Patch: `ParsePatch` and
   `ApplyPatch` against the edit script that the diff was made of.
6. **FileServer, FileTree** - done, with proofs: the filesystem tools as interleaved
   system calls.
7. **WebSession** - done, with proofs: sessions, refresh, logout and the chat page.

What is left, in the order of its worth: a crash of B in ProxyChain; the resources
server.

## 3. Modules

| Module | Models |
|--------|--------|
| `Conversation` | the record and its operations; a conversation is a value |
| `Storage` | `disk`: a content, no file, or a torn file per conversation; save, failed save, crash during a save, search by UUID |
| `SimpleAgent` | the handlers and the agent in simple mode; one process per HTTP request |
| `ApprovalGate` | the abstract approval: none, pending, approved, closed, and how often its action ran; implemented by `SimpleAgent` and by `ProxyChain` |
| `MCSimpleAgent` | tools and symmetry for TLC |
| `SimpleAgent_proofs` | theorems about SimpleAgent |
| `SerialAgent_proofs` | theorems about SimpleAgent in conversations whose clients take turns, and about decisions |
| `McpClient` | the MCP clients: start and stop by the main goroutine, calls by the others |
| `McpClient_proofs` | theorems about McpClient |
| `Orchestrator` | the agent with a tree: executeNode and its five kinds of node, ProcessMessage, ResolveApproval |
| `Pipeline` | the abstract pipeline: steps in order, a pause that stops all of it, a resume at the same step |
| `MCOrchestrator` | trees for TLC |
| `Orchestrator_proofs` | theorems about Orchestrator |
| `ProxyChain` | agent A with a client, agent B with the tools, and the A2A calls between them |
| `MCProxyChain` | symmetry for TLC |
| `ProxyChain_proofs` | theorems about ProxyChain |
| `Patch` | `ParsePatch` and `ApplyPatch`, line by line and hunk by hunk |
| `UnifiedDiff` | an edit script, the two versions and the diff it stands for; Patch run on that diff |
| `Patch_proofs` | theorems about Patch |
| `FileTree` | the operating system's tree of files: what open, rename, unlink and mkdir do (external) |
| `FileServer` | the tools of `internal/filesystem`, each a sequence of system calls on a FileTree |
| `MCFileServer` | trees and parameters for TLC |
| `FileServer_proofs` | theorems about FileServer |
| `WebSession` | the chat page, the web server's handlers, the session store, and what the provider and the agent may answer |
| `WebSession_proofs` | theorems about WebSession |

`McpClient` stands beside `SimpleAgent`: SimpleAgent lets a tool call return
anything, McpClient says what the client behind it can return. `Orchestrator`
stands beside `SimpleAgent` too: SimpleAgent has requests that race, failing saves
and crashes, Orchestrator has one request at a time and what happens inside it. Its
conversation record is a projection of the one of `Conversation`: what a pause and
a resume can tell apart. `ProxyChain` composes two agents of the kind `SimpleAgent`
describes, each reduced to its accesses to its store; `FileServer` and `Patch` divide
`patch_file` between them: the first has its system calls, the second its algorithm.

### SimpleAgent and the code

A request `r` is one HTTP request. `pc[r]` is where its goroutine is:

| `pc[r]` | Code |
|---------|------|
| `find` | `ResolveApproval` before `FindConversationByApprovalUUID` |
| `exec` | before the approved tool is called |
| `proxy` | before `ContinueTask(.., "approved")` |
| `llm` | before an LLM call of `processSimpleMessage` |
| `call` | before the call of a tool that needs no approval |
| `save`, `trySave` | before a save whose error is returned, is dropped |
| `notify` | before `ContinueTask(.., "rejected")` |
| `reload` | before the second read in the message handlers |

`mem[r]` is the private copy, `cid[r]` its conversation, `iter[r]` the count of the
loop, `decision[r]` the approval the request is about and the answer, `held[r]` the
approval that was copied out of the conversation (`toolName`, `remoteTaskID`, ...),
`reply[r]` what the client is told. `issued`, `calls`, `faults` and `crashes` are
history or bounds: they guard nothing but the bounds.

One action is one access to the store or one answer from outside, with the local
code that follows. A message is its role, the tool it records, and the request
that appended it, which stands for its text. A request creates at most one
approval (every `SetWaitingApproval` is followed by a return), so the request
stands for the UUID. The LLM, the tool servers and the remote agents may answer
anything the code distinguishes. A tool call that returns an error may or may not
have had its effect (`MayRecord`).

Names that differ: `New` is `conversation.New`, `ResolveApproval(conv)` the method
of the conversation; `ResolveApproval` of the agent is the actions
`ApprovalNotFound` to `ForwardRejection`; `LLM*` and `Tool*` are the branches of
`processSimpleMessage`; `Finish` and `AskApproval` are the code that every branch
repeats at its end.

Definitions whose comment says "Mutant of X" are X with a plausible bug. Nothing
uses them; with X replaced by one of them the property named in `PROJECT.json`
fails, which shows that the property depends on X.

Left out of SimpleAgent: the wording of answers, the system prompt, session ids and
tokens in the context, the status `completed` (nothing sets it), `DeleteConversation`
(nothing calls it), the dead functions `executeToolAndRespond` and
`executeA2AAndRespond`, an agent removed from the configuration while one of its
approvals waits, and the pipeline branches of `ResolveApproval` (Orchestrator).

### McpClient and the code

Servers are numbered in the order of the configuration; `Http` are the ones with a
URL, the others are child processes. `main` is where the main goroutine is:

| `main` | Code |
|--------|------|
| `starting` | `CompositeClient.Start`, before client `at` is started; `at = N + 1`: before the tools are merged |
| `handshake` | `StdioClient.Start` after `cmd.Start` |
| `blocked` | `c.Stop()` in `StdioClient.Start`, which waits for the mutex its caller holds |
| `rollback` | the loop that stops the clients before the failed one |
| `llm` | `Agent.Start` after the MCP clients are up |
| `stopAll`, `stopping` | `stopAllLocked` during a failed start, at shutdown |
| `failed`, `stopped` | the start has returned an error, `Agent.Stop` has returned |

`link[s]` is the child process or connection; `inbox[s]` and `outbox[s]` are the
pipes of a child. `pc[p]` is where a goroutine is that calls a tool: `request`
before the exchange with an HTTP server, `load`, `send` and `receive` in
`StdioClient.call`. A packet carries the caller it belongs to (`by`), which the
program does not see: it tells whether a response is the caller's own. `crossed` is
history: the children on whose pipe two calls have been under way together. A handshake
sends three messages, of which `notifications/initialized` has the id 0
(`protocol.go:13`), so that a child may answer it; that answer is then taken for the
list of tools, and the list stays on the pipe (`ToolList`).

The mutexes are modelled by what they exclude. The one of the composite client is
held through `Start` and `Stop`, so a lookup needs `main` to be `up` or `stopped`;
it is not held during the call. The one of the stdio client is held by `Start`,
`Stop` and `Tools`, not by `call`. So `nextID` and the `bufio.Reader` are shared
without a lock. The counter is a load and a store; for the reader `RacyReceive`
lists what two concurrent `ReadBytes` can do with a line: give it to both, mangle
it, lose it.

Left out of McpClient: the contents of requests and responses, the JSON-RPC error
object and the HTTP status 401 (both are the error outcome `Nil`), a server that
lists a tool twice, `NopClient`, a fatal error of the HTTP listener.

### Orchestrator and the code

`Kind` is the tree: the type of the node at each path of child indices (the code
counts from 0, the model from 1). `frame[n]` is the activation of `executeNode` for
node `n`; a parallel node has one activation per child, which is its goroutine.

| `frame[n]` | Code |
|------------|------|
| `st = "run"`, `at = 0` | `executeNode` has been called |
| `at = i` | a composite node waits for its child `i` (a parallel one: for all) |
| `round` | `iter` of `executeLoop` |
| `via` | `resume.Path`, `Nil` without a resume |
| `st = "mark"` | between the two saves of a proxy approval |
| `st = "done"`, `res` | has returned: `err`, or the `NodeResult` with WaitingApproval, ExitLoop, AuthRequired or none |

`main` is where the request is: `run` and `resume` inside the tree, called by
`processOrchestrated` and by `ResolveApproval`; `exec` and `proxy` before the
approved action and before `ContinueTask(.., "approved")`; `loop` in
`processSimpleMessage`, where an approval without a pipeline goes on (SimpleAgent
has that loop in detail, here it is one step). `held` is what `ResolveApproval`
copied out of the conversation.

`conv` is the request's copy of the conversation and `disk` the file. The messages
since the last one of the user are represented by `turns`, how many turns of each
leaf they record, and `outs`, the leaves whose output they hold. `state` is the
session state, one output key per leaf. A saved conversation that waits for nothing
forgets its messages: no later step looks at them. A step of a leaf is one turn:
the LLM call, tool call or delegation and what the leaf does with the answer. Its
accesses to the conversation and the session state go through their mutexes, and no
other goroutine's step depends on an order within them, except that the two saves of
a proxy approval are two steps.

`RemoteAsks` are the leaves whose remote agent may answer `input-required`, `Hinted`
the ones that may want something destructive, `Fragile` the ones whose LLM client or
A2A client may be missing (`broken`, chosen once, as the configuration is read
once). A remote task may ask again and again. A call that returns an error may have had
its effect before (`ExecFails`, `ProxyFails`): a timeout looks the same. `undecided`,
`executed` and `errors` are history.

A request begins when the previous one is answered and its goroutines have
ended. The code does not enforce this. What happens when requests race is the
subject of SimpleAgent; here the question is what one request does to a tree. A
goroutine that a failed parallel node leaves behind runs on after the answer.

Left out of Orchestrator: prompt templates, texts, output keys used by two nodes,
saves that fail and crashes (SimpleAgent), and the client in `NodeResult.Approval`.

### ProxyChain and the code

`pc[r]` is where A's goroutine of request `r` is: `llm` in `processSimpleMessage`,
`prompt`, `approved` and `rejected` inside the A2A call with that text, `lost` after a
crash. `pending` is the file's pending approval, named by the request that created
it; `issued[u]` its `remote_task_id` and the action that B described in it. `sent` are
the messages B has not taken, `answer[r]` the task that came back. B is `tasks`, its
conversations by their task id, each absent, active or waiting for an action, and
`ran`, how often the tool of an action was executed.

A's actions are the accesses to its store with the code up to the next: `PostMessage`,
`Approve`, `Reject` begin, `Receive*` are what A makes of the task it gets back
(the same code for the first delegation and for a forwarded yes), `Finish` is the end
of the loop. A yes is forwarded before anything is saved, a no after. B's actions are
`a2aMessageSend` for a new task, a waiting task and an active one; a text that is not a
yes rejects whatever the task waits for. `CallFails` loses the call or only its
answer, or lets B take the message later; `CrashA` ends A's goroutine.

The client of the properties talks to A only. `chainPhase` is the phase of B's action as
that client sees it; with it `ProxyChain` implements the same `ApprovalGate` as
`SimpleAgent` does alone.

### Patch, UnifiedDiff and the code

A line of a diff is its kind as `ParsePatch` tells it by its first bytes; a hunk is its
old lines and its new lines, the two projections of `PatchLine`s that `ApplyPatch` uses.
`SkipLine`, `StartHunk`, `ReadLine`, `EndOfPatch` are the branches of the parser's loop,
`ApplyHunk` and `HunkFails` one turn of `ApplyPatch`'s. `offset` is the code's variable;
`reach` and `inOrder` are history. A slice expression whose bounds are out of range
is the outcome `panic`.

`UnifiedDiff` takes an edit script, derives both versions and the diff from it, and runs
`Patch` on that diff, which ends with a newline or with the mark of a file without one.
`DiffApplies` compares with the script, `FitsOrFails` with a
definition that replaces all hunks at once by the line numbers of the original file
(`Spliced`), without a running offset.

### FileServer and the code

A path is the sequence of its names, the first one the root's. `tree` has a file, a
directory or nothing at each path, `data` the lines of each file; a file that was
unlinked keeps its data for those who have it open. `pc[c]` is the system call that
comes next:

| `pc[c]` | Code |
|---------|------|
| `stat` | `os.Stat` of the `create_only` test |
| `parents`, `mkdir` | `os.MkdirAll` |
| `open`, `write` | `os.OpenFile`, `WriteString` |
| `openread`, `read` | `os.ReadFile`, `os.Open` after the `Stat`, and what is read from it |
| `readdir`, `walk` | `os.ReadDir`, one entry of `filepath.WalkDir` |
| `copy`, `fill` | `copyDir` and `copyFile` before an entry, `io.Copy` |
| `unlink` | `os.Remove` of `remove_file` |
| `rename`, `restat`, `removeall` | `os.Rename`, what `move` does after it failed, `os.RemoveAll` of `move` and `remove_folder` |

`handle` and `source` are open files, `buf` the lines a call has read or computed,
`todo` the entries a copy, a removal or a search has yet to visit. What a call writes
is the call itself, so each text tells its writer. A file's bytes are counted as its
lines. `before`, `owed` and `due` are history: the tree at the start of a call that has
been alone since, appends that nobody has overwritten, matches that have been there
since a search began. `Changed`, `Reported` and `Expected` say what each tool promises,
of the tree as a whole, not step by step; `Match` in `Expected` is the meaning of a
glob and not the code's string operations.

### WebSession and the code

`sessions` is the SQLite table, a row per grant of the provider; tokens are numbered as
the provider issues them. `requests` are HTTP requests on the server, whose `pc` is
the next access to the table, the provider or the agent: `get`, `refresh`, `store`,
`drop` in `GetBearerToken`, `forward` in `proxyRequest`, `exchange` and `create` in the
callback, `revoke` and `delete` in the logout. `jar` has the browser's two cookies.
`tabs` are the variables of the page and its `sessionStorage`; the page is left by a
redirect or a reload, which drops everything but `pending_auth_message`.

One action of the page is one event handler up to its `fetch`; the rest of the handler
runs when the answer comes (`Received`: `HandleResult` and then `Rested`, the `finally`
block). One action of the server is one access. The provider may rotate the refresh
token, repeat none, refuse, or answer into the void; tokens expire at any time. The agent
may answer a text, an approval, `auth_required` or an error.

## 4. Runs

| Run | Instance | Shows |
|-----|----------|-------|
| `concurrent` | 3 requests in any order, 2 conversations, the clients of one of which take turns, 1 failing save, 1 crash | typing; status and approval agree; an approval is at home; every destructive call is authorised; the LLM sees all results; a resolved approval does not come back and a decision sticks; every step brings a request nearer to its end and none is stuck; where clients take turns, only a resolution ends a wait, the transcript grows and `ApprovalGate` is implemented |
| `rejected_runs` | 3 concurrent requests | violation: a rejection is confirmed while the tool runs |
| `mcp_clients` | 3 servers (stdio, HTTP, stdio), 2 tools, 2 callers that nothing serialises, 1 failing handshake | typing; hint and call mean one server; nothing is left running; no call after stop; a response is one's own and a call ends, unless two calls have shared the pipe |
| `mcp_own_response` | the same | violation: two calls at once take each other's response |
| `mcp_failed_start` | the same | violation: a start whose handshake fails hangs |
| `orch_resume` | tree `FullKind`, remote tasks that ask again, calls that act and then fail, weak fairness | typing; no leaf has more turns than iterations; the session state is what the transcript says; the client knows of what is pending; a pipeline stays with its approval; no remote task waits without an approval; an action runs again only after an error; `Pipeline` is implemented; every request ends |
| `proxy` | 4 requests, 2 remote tasks, 3 actions, 2 faults | the agents agree between two requests; together they implement `ApprovalGate` |
| `patch` | edit scripts of up to 5 lines over 2 texts, no context lines, 3 styles, both endings, a touched file, numbers off by up to 2 | a diff changes the file exactly where it fits, and otherwise fails |
| `diff_applies` | scripts of up to 2 lines, 1 line of context, a diff that ends with a newline | violation: the diff of two versions is refused |
| `files` | 2 calls of any tool, 2 roots on two devices, 7 paths, 2 starting trees, a disk that may be full | typing; appends and creations hold; a move keeps every file; a call alone does and reports what it should; a search finds all |
| `files_specified` | 1 call, reads from behind the end | violation: such a read panics |
| `web` | 1 tab, 4 requests, 2 grants, 1 login, 2 access tokens per grant, 2 messages, 1 fault | a logout holds; a session is dropped for cause; the refused message is the one that is sent again, once; the Send button comes back |

The bounds. Tools: one destructive MCP tool and one A2A agent, the two kinds that the
code stops before or hands on to; the harmless one takes a path that the agent without
a hint takes too. Three requests are a creator and two that race with each other over
its approval, or three that follow one another. `MaxToolIterations` is 1, so the loop
is entered, repeated, and left at the cap; the code has 10. `MaxFaults` and
`MaxCrashes` bound the environment. Requests are interchangeable in the code
and in the properties, which symmetry uses. Deadlock is not checked because the server
idles when all requests are used up; that a request in flight can always go on is
`NobodyStuck`.

`SerialConvs` are the conversations whose clients wait for an answer before they send
the next request. It is an assumption about clients, not about the code: nothing in the
server enforces turns. `OnlyResolutionEndsWait`, `TranscriptGrows` and `ImplementsGate`
speak of these conversations, while the clients of the other one race in the same store;
the code keeps them only then, and `rejected_runs` shows that it matters. Everything else
is checked of racing clients. `ImplementsGate` speaks of the steps up to the first
failing save or crash.

SimpleAgent has no fairness: that every request ends is `StepsBounded` and
`NobodyStuck`, a measure that each step lowers and a step that is always possible. What
it takes is that a goroutine is scheduled and that an outside call ends, as those of HTTP
MCP servers, A2A agents and the LLM do within the timeouts of their HTTP clients (30 s,
60 s, 60 s). A call over a stdio pipe has no timeout.

The bounds of McpClient. Three servers are the fewest with a first, a middle and a
last one, so that a rollback has two clients to stop and a duplicate need not be
between neighbours; the middle one is the HTTP server. Two tools let the servers'
lists be disjoint, equal or empty. Two callers are enough to race, and a second
call in turn finds what a first one left on the pipe. `ConnectMaxRetries` is 2; the
code has 20. `MaxBadHandshakes` is the only bound of the environment. Deadlock is not
checked: the process ends, or idles, or hangs as `mcp_failed_start` shows.

Fairness of McpClient: weak fairness of the main goroutine, except for the decision to
shut down, of every call in progress, and of every child process that runs: it
answers what it has read. HTTP calls end within 30 s. A stdio call has no timeout,
so `EveryCallEnds` rests on the child. Of a call on a pipe that two calls have shared it
asks only that a shutdown ends it: the line it waits for may have gone to the other.

The bounds of Orchestrator. `FullKind` has every kind of node: two LLM leaves in
parallel, a nested sequence of a leaf that may pause, delegate or exit and a loop
over an LLM leaf that may exit and a delegation, then a remote agent, then a last
leaf that may pause. So a pause can be at a nested path, at a child in the middle,
and at the last child; an exit reaches a loop and a sequence; a node fails before
and after a pause. `MaxIterations` is 2, so a loop repeats and reaches its bound;
the code has 10 unless configured. `MaxErrors` is 2: after two resolutions of one approval
that end with an error nobody tries a third. The remote agents that ask
are not below a parallel or a loop node, because the code does not
keep its promises there (see below).
Two branches that pause at once are not in a run of their own: with one such
branch the promise is already broken.

`ImplementsPipeline` maps a tree with a sequential root to a `Pipeline` of the root's
children: `at` is the child that runs, `kept` the head of the stored path. It has
no fairness; `EveryRequestEnds` is the progress.

Fairness of Orchestrator: weak fairness of the server's steps taken together. Each
step is a goroutine that the Go scheduler runs or a call that ends within the
timeout of its HTTP client (stdio tool calls as above), and since a request has
finitely many steps no single goroutine can take the others' turns for ever.

The bounds of ProxyChain. Four requests are a message that leads to a question, a yes
that leads to a second question, a no or a yes to that one, and a request for an
approval that is over. Two tasks let a second delegation meet a first one that
waits, three actions let a task ask again and another ask too. Two faults are a lost
call and a crash, or two lost calls. The properties speak of the runs before the
first fault: what happens after one is in the table below, and the faults are in the
run so that each guard `faults = 0` is tested. A's client takes turns, as those of
`SerialConvs` do, and for the same reason.

The bounds of Patch. A script of five lines has up to three hunks without context lines,
with deletions and insertions at the beginning, in the middle and at the end, an
empty version on either side, and hunks that only insert, the ones that have no line to
compare. Two texts, one of them empty, are enough for a hunk to match at a wrong
place, and for the empty string behind a final newline to match too. With context, 3
lines in a real diff, hunks only get longer. `diff_applies` has one line of context, so
that its violation is that of the final newline and no other. `Dashed` is empty: such
a line is not read as one (table below).

The bounds of FileServer. Two calls are two actors, each with any tool and
parameters, between whose system calls the other's come. The paths are a folder with
two names, a folder below with two more, and a second root on another device, so
that a rename fails and a move copies. The first tree has a folder with one file, a
file with a null byte and free names; the second a file on the other device. A
search is over at most five entries; its parameters have a depth of none and of
zero, a maximum that is reached and one that is not, a pattern with and without
`**`. `MaxFiles` is above what two calls create. Deadlock is not checked: both calls end.

The bounds of WebSession. Four requests are enough for three that refresh one
session at once and a logout; two grants let an old session end beside a new one.
One tab: two tabs share only the cookies, which the three requests of one tab in any
order and the login's state cookie exercise too; with two tabs the state space is out of
reach of the bound on time. The theorems of `WebSession_proofs` hold for any number of
tabs and requests. One fault is a restart, a failing write or a grant taken
back. Deadlock is not checked: the requests are used up.

ProxyChain, FileServer, Patch and WebSession state safety only. `SendButtonComesBack` is
the safety half of its name: whoever disabled the button has a request that is
still to be answered.

### Where the code does something else than it says

Shown by the violation runs:

- `rejected_runs`: two simultaneous resolutions of one approval both find it
  (`agent.go:573`); a rejection is confirmed while the tool runs, though
  `docs/functionalities.md:328` says "On rejection: the operation is cancelled";
- `mcp_own_response`: calls of one child process are not serialised and ids are not
  compared (`client.go:158`, 218), so two calls take each other's response.
  `client_composite.go:126` says "It is serialized with a mutex for thread safety." (also
  22 and `orchestrator.go:376`), `docs/functionalities.md:237` "Each sub-client (HTTP or
  stdio) has its own internal mutex for thread safety.";
- `mcp_failed_start`: `Start` calls `Stop` while it holds the mutex (`client.go:101`);
  `client_composite.go:35` says "If any sub-client fails, all previously started clients
  are stopped (all-or-nothing)." The Go runtime may notice that every goroutine is blocked
  and abort; the servers started before are not stopped then either;
- `diff_applies`: the empty string behind a diff's last newline is read as an empty
  context line (`patch.go:29`, 68), and the last hunk does not match, though "The patch
  format follows standard unified diff" (FR-008,
  `specs/archived/2026-02-15_00:43:23-mcp-filesystem.md:324`);
- `files_specified`: a read from a byte behind the end without a limit panics
  (`tools.go:292`, 301), though "Reading beyond the end of file returns what's available
  without error" (FR-005, the same file, line 282). The property also says what FR-014
  says of copies (line 403: "If destination exists and is a directory, the source is
  copied into it"); with `Windows <- MCWindows` the run shows that this fails too: the
  two folders are merged, and a file cannot be copied to a folder.

| Property | Fails when | Because |
|----------|------------|---------|
| `OnlyResolutionEndsWait` | clients do not take turns | the last save wins (`handlers.go:167`) |
| `ImplementsGate` | a save fails | its error is dropped (`agent.go:305`): the announced approval is not stored |
| `EveryCallEnds` for every call | two calls share a pipe | they read it together, a response is lost (`client.go:264`) |
| `TurnsBounded` | a remote agent below a parallel or loop node asks | these nodes do not take the resume path (`orchestrator.go:116`) |
| `ClientKnows` | a remote agent below a parallel node asks | the node's result drops the approval (`orchestrator.go:217`) |
| `StateMatchesTranscript` | a remote agent below a parallel or loop node asks | the tree goes on after the pause was stored, and a resume begins with the old session state (`orchestrator.go:330`) |
| `NoRemoteTaskForgotten` | a remote agent below a parallel or loop node asks | a sibling or the next round puts its own approval over the first (`orchestrator.go:445`) |
| `PendingHasPipeline` for every approval | a remote task asks for a second approval | the pipeline was cleared at `agent.go:594` and is not set again at 635, so the rest of the tree never runs; `docs/architecture.md:355` says the entire session state and execution path are serialized when a pipeline pauses. The property excepts exactly these approvals |
| `NoRemoteTaskForgotten` for every task | an approved delegation returns `input-required` | the state is not tested (`agent.go:761`, 713); `docs/functionalities.md:362` says a proxy is created then. The property excepts the leaves that ask for themselves |
| an approved action runs once | its call acts and times out (`agent.go:757`, 777), or a later node fails (`agent.go:797`) | nothing is saved, the approval stays pending and its next approval runs the action again. `RepeatOnlyAfterError` says that the client has been told of an error each time |
| `ChainKeepsGate` | the answer to a forwarded yes is lost | the approval stays pending (`agent.go:625`), and B takes the retried yes for whatever it waits for by then: an action that A's client never saw may run |
| `AgentsAgree` | a forwarded rejection, or the answer to a prompt, is lost, or A crashes | B's task waits for a decision that nobody can give (`agent.go:608`) |
| `DiffApplies`, `FitsOrFails` | a deleted line begins with `--` or an inserted one with `++` | it is skipped as a file header (`patch.go:37`) |
| `DiffApplies` | `Context` is 0 and lines are only inserted | the header names the line before, the code inserts before that line (`patch.go:117`) |
| `SoloCallHolds` | a file is copied or moved onto itself, or a folder into itself | the destination is truncated before the source is read (`tools.go:1340`), a copy feeds on itself, a move removes its own destination (`tools.go:935`) |
| `SoloCallHolds` | `max_results` is 0 | grep returns one match (`tools.go:1107`) |
| `SoloCallHolds` | the last names of a glob match the end of the folder before `**`, as in `a/**/a` | the folder itself is a match: where the path is the prefix, nothing is cut off it (`tools.go:1316`); `specs/archived/2026-02-15_00:43:23-mcp-filesystem.md:466` says "`**` in glob patterns matches any number of directories (doublestar semantics)" |
| `SearchFindsAll` | the pattern of a glob is `**` | it matches nothing (`tools.go:1299`) |
| `RetriesOwnMessage` for approvals | an approval is answered with `auth_required` | what is sent again is the message typed last (`chat.go:236`); `docs/authentication.md:223` speaks of the original one |

Further observations, by reading and from the models' shape:

- a conversation file can be `Torn`, because `os.WriteFile` truncates before it writes
  (`storage.go:42`); `concurrent` has such crashes;
- a resume whose paused node is the last child answers with an empty text
  (`orchestrator.go:166`);
- a slice out of bounds panics for an insert-only hunk behind the end of the file
  (`patch.go:167`; theorem `PanicsHaveCause`) and for a byte offset behind the end
  (`files_specified`; `SoloCallHolds` leaves this read to it). Nothing is written then;
- two patches of one file lose one (`tools.go:492`), and the first write of a
  `create_only` can overlay an append that came between;
- nothing is written to a temporary file and renamed, as NFR-014 asks;
- a refresh whose answer is lost, or the loser of two refreshes with a rotating
  provider, drops the session (`oauth.go:232`): `DroppedForCause` counts both as
  causes. The cookie stays (FR-010);
- a callback that fails clears the state cookie of a later login too;
- the redirect of a logout repeats the POST at `/`, which answers only GET
  (`oauth.go:191`);
- the page sends a pending message again when it is loaded, whether somebody has
  logged in or not, and a failed approval leaves its buttons disabled.

## 5. Proofs

`SimpleAgent_proofs` proves, for all sets of requests, conversations and tools, all
bounds and any `SerialConvs`:

- `TypeCorrect`, `StatusMatchesPending`, `ApprovalsStayHome`: `Spec => []TypeOK`,
  `[]StatusTellsPending`, `[]ApprovalHome`;
- `DestructiveCallsAuthorised`: `Spec => []Authorised`;
- `ResolvedStaysResolved`: `Spec => NoResurrection`;
- `RequestsEnd`: `Spec => StepsBounded`. `StepsLeft` of a request is what its place and
  its turn in the loop leave it; no step changes that of another request.

The assumptions are `ParametersOK` and `DistinctContents`: `Nil`, `NoFile` and
`Torn` are different from all values, and the special sets of tools are sets of
tools.

None of these invariants is inductive. `ApprovalHome` needs to know that a request
that saves an approval created it itself, so `StateInv` adds what each control
point says about the local variables (`Stage`), that the approval a request holds is
the one its creator issued, in the creator's conversation (`HeldIsIssued`), and
that an issued approval bears its creator's name and is past its creation
(`IssuedIsOwn`). The heart of it: a copy in use never has a pending approval,
because `ProcessMessage` refuses a waiting conversation and `ResolveApproval`
clears it before anything else, so a stale copy can destroy an approval but never
bring one back. `Authorised` adds that calls are made by requests that have their
conversation (`CallsStarted`), which keep it with their decision (`StartedStays`).

The proof has three lemmas for shapes of step (`LocalStep`: the goroutine computes
or ends; `AskStep`: it creates its approval; `SaveStep`: it writes) and one for each
other kind of action; `IInv` was checked with TLC before it was proved.

`ResultsReachLLM`, `Spec => []LLMSeesResults`, has an invariant of its own, since the
call that the LLM is to see answered may be recorded by one request and answered by
another. `ResultInv` says of every transcript, in a copy or on the disk, which one
call may lack its result: the call of the pending approval, of the tool that is being
called, or of the approval whose resolution is at `exec` or `proxy`. Two
requests' calls are told apart by who recorded them (`SignedBy`), so that a
transcript a request has read cannot gain a call of its own that it has not made.

`SerialAgent_proofs` proves what `concurrent` checks of the conversations whose clients take
turns, for any set of them and whatever the clients of the others do:

- `WaitEndsByResolution`: `Spec => OnlyResolutionEndsWait`, and `TranscriptsGrow`:
  `Spec => TranscriptGrows`; both through any number of failing saves and crashes;
- `AgentImplementsGate`: `Spec => ImplementsGate`, the refinement of `ApprovalGate`, up to
  the first failing save or crash: with one an approval that has run is still on the
  disk and runs again;
- `RejectionsHold`: `Spec => []RejectionHolds` if `SerialConvs = Convs` and there are
  neither faults nor crashes. `rejected_runs` shows that turns are needed;
- `DecisionsStick`: `Spec => []DecisionSticks`, of all conversations, through any number of
  crashes and while no save has failed.

`SerialInv` says what turns give: at most one request in flight is about such a
conversation (`Alone`), so a copy extends what is stored, and the approval it
resolves is the one on the disk (`Current`). That is not inductive without `DecisionInv`:
a client decides about an approval it has seen, whose creator has ended, so the
creator and the resolver are never in flight together. For the gate, `GateInv`
adds that as long as an approval is on the disk its tool has been run by nobody but the
request that is resolving it (`RanOnce`) and that this request will save
(`LocalFacts`). The phase of an approval is a function of its creator, its
resolver and the disk; `MovePhases` and the lemmas beside it show which phases each kind
of step moves. `RejectionsHold` adds `ToldTruth`: what a client was told is cancelled is
off the disk and has not run, and by `RanOnce` nobody can find it to run it.
`DecisionsStick` needs no turns: what a request has resolved is off the disk from its save
on (`Stuck`), and by `NoResurrection` stays off, since no copy in use has an approval.

`McpClient_proofs` proves, for every number of servers, callers, tools, retries and
failed handshakes, from `ClientParameters` (the types of the constants):

- `ClientTypeCorrect`: `Spec => []TypeOK`. `TypeOK` is not inductive: a handshake
  and a call need a server, a start that goes on needs an attempt left (`Addressed`);
- `NothingLeft`, `StoppedIsSilent`: `Spec => []NothingLeftRunning`,
  `Spec => NoCallAfterStop`, from `Links`: what the main goroutine has not
  started yet, or has stopped already, is closed;
- `HintAndCallAgree`: `Spec => []RouteMatchesHint`, from the lemma `OwnerType`: the
  table built in order has the only owner of a tool if nobody reports a duplicate;
- `UncrossedOwnResponse`: `Spec => []OwnUnlessCrossed`, with no assumption about callers.
  The invariant `Own` says of each pipe on which no two calls have met (`Lonely`) that, if
  it can still be read, it holds at most the request or the response of the one call
  that waits for it (`Pipe`), and that the line a handshake leaves behind is on the pipe
  of a server that has reported no tool and is never called (`Mapped`). A child that
  breaks may leave a request unread in its pipe: nobody reads it any more.

`Orchestrator_proofs` proves, for every tree (`TreeOK`: the ancestors of a node are
composite nodes of the tree, and a composite node has children 1 to `Width`), every
choice of leaves and all bounds:

- `TreeTypeCorrect`: `Spec => []TypeOK`;
- `ApprovalKeepsPipeline`: `Spec => []PendingHasPipeline`;
- `ActionRepeatsOnlyAfterError`: `Spec => []RepeatOnlyAfterError`;
- `StateFollowsTranscript`, `PendingIsTold`: `Spec => []StateMatchesTranscript` and
  `Spec => []ClientKnows`, if no remote agent below a parallel or loop node asks
  (`RemotesUnshared`);
- `TurnsStayBounded`: `Spec => []TurnsBounded`, if `RemotesUnshared`;
- `RemoteTasksRemembered`: `Spec => []NoRemoteTaskForgotten`, if `RemotesUnshared`;
- `TreeImplementsPipeline`: `Spec => ImplementsPipeline`, the refinement of `Pipeline`,
  if the root is sequential, with `RemotesUnshared`.

TLC finds a counterexample to each of the last five without its hypotheses (see the table
above); the instances of the runs satisfy them.

`TypeOK` is not inductive: that `node.Agents[startIndex]` exists when a sequence
resumes depends on the path. The invariant `IInv` adds that what is left of the
path of an activation leads from its node to a node of the tree (`Paths`; the lemma
`PathStep` is the step down to a child), that approval and pipeline are linked in
the copy and in the file (`Linked`), that a proxy is marked while its approval is
pending (`MarksPending`), and that a resolution begins when nothing runs and
holds an approval with its pipeline, and that each run of the stored approval's
action has been, or will be, answered with an error or ends with the approval
(`Resolving`, `Repeats`). Every step of a tree changes at
most a few activations to ones that fit (`Follows`), which the lemmas
`EnterFollows` to `AtFollows` state once for all kinds of node. `Spec => []IInv` is
the theorem `TreeInvariant`. The other assumptions are the types of the constants
and that `Nil` is no approval, no pipeline, no path and no result.

The later theorems rest on the shape of the activations, `ShapeInv`. `ShapeOf`: nothing
runs below a node that has not begun or has returned without an error, and below a
sequence or a loop only one child. `SpineOf`: while a node runs that may ask, all that
runs is above it or below it. Of these, `ShapeOf` is what `executeNode` does
and `SpineOf` follows from it, but is what the proofs use: a leaf that pauses is then
alone, and every node above it takes the pause from its child and hands it up. A goroutine
that a failed parallel node has left behind is why `ShapeOf` excepts errors.

- `PauseInv`: a conversation that waits while the tree runs is held up by a node
  that may ask (`PausedTree`); a resume path leads to such a leaf (`ResumedTree`); the
  session state and the transcript differ at most by the output of the leaf that
  is being resumed (`Matching`); what is stored has both alike (`Kept`). They
  differ because `ResolveApproval` puts the result of an approved delegation in the session
  state, and the leaf records its output when the tree has come down to it again.
- `ToldInv` adds what the last answer was; `OwedInv` that at each moment of a pause,
  a resolution and a resume the remote tasks that wait are that of the approval at
  hand (`OwedTo`), or of the proxy that is about to be marked.
- `PipeInv` ties the root's activation to the head of the stored path. The refinement
  shows that a step below the root is a stutter, and that a pause at any depth is one
  step of the pipeline: the save of the pause happens when the leaf asks, the root
  learns of it steps later.
- `TurnInv` bounds the turns of a leaf. An iteration of a leaf is one choice of an
  iteration for every loop above it (`Iterations`), so that `Allowed` is their
  number. `Left` are those in which some node on the way to the leaf (`Way`) may
  still call it, by where the node stands and in which iteration of the loops above
  (`Clock`). No step adds to `Left`, and a leaf that takes its turn uses up the one it
  is in, so that turns and iterations left never exceed all (`Within`). An ended loop
  keeps its iteration in `Clock` while a goroutine that a failed parallel node left
  behind runs below it. A stored pause forgets how often the loops had turned. It needs
  no memory of it: the leaves after the one that asks have not had a turn at all
  (`Unspent`, since no loop is above it), the resumed tree calls no other, and may
  therefore give them every iteration anew. With a remote agent below a loop that asks
  this is false, and so is the bound.

`FileServer_proofs` proves, for any number of calls, any tree and any parameters of the
tools:

- `WritesAreKept`: `Spec => []WritesHold`;
- `TreeStaysTree`: `Spec => []TypeOK`;
- `MovesKeepFiles`: `Spec => MoveKeepsFiles`, an action property;
- `SearchesFindAll`: `Spec => SearchFindsAll`, an action property;
- `SoloCallsHold`: `Spec => SoloCallHolds`, an action property, for `ProperSearches`.

The assumptions say that the server starts on a tree of directories: a path comes with
the paths above it, there are finitely many, and the names in directories are ordered
(`PathsHaveParents`, `NamesInOrder`); what is there is in a directory, a file has
one path and is numbered below the next file, and a file to come is empty
(`TreesAreTrees`, so no hard links: the server makes none); and what a call writes is in
no file before (`TextsAreNew`), which is how the model tells who wrote what.
`GlobPatterns` says which patterns of a glob the model has: one for the last name, or a
`**` with a folder before it or names behind it. `**` alone is excluded:
`matchDoublestar` finds nothing for it (section 4), and `SearchesFindAll` would be false.
`ReadWindows` says that a window is of lines or of bytes, or has neither an offset nor a
limit (`tools.go:223`). `FileServerConstants` and `FilesBound` are types; a line is
neither of the values that stand for a directory and for nothing.

`WInv` gives the first. `Doing` says, with the table `ToolsAt`, which tool can be at
which system call and what it then holds: a patch never appends, an open writer has a
file. `Numbered`: files are numbered as they are created, so a file that O_EXCL
creates is one that nobody has opened, which keeps creators apart (`CreatedApart`).
`Unwritten`: nobody has read, and no file has, the text of a call that has not
ended, so an append puts its text there once. `OwedIsThere` is the append itself: no
step but a truncation or a write from the beginning, both of which end what is owed,
removes a text from a file. Steps are of three kinds: `Quiet` (no file is opened to be
written or written), `Opens` and `Fills`.

`TInv` adds that the tree is one (`InFolders`, `OnePath`), that parameters are paths,
and `TodoInv`: of two entries that a copy or a search has yet to visit none is below the
other. That a list has never more entries than there are paths is not inductive, since a
step replaces a directory by all that is in it at that moment, and other calls create and
rename meanwhile; that no entry is in the directory of another is kept by such a step
(`ExpandApart`) and says that the entries are different (`DistinctBound`). Of the tree,
`RenameTree` is the work: what is below the old path moves below the new one, what was
there was empty or a file, and every path above a moved path is a directory
(`Origin`). `AscendingIs` shows that what `os.ReadDir` returns exists for any
directory: if some set of positions up to m cannot be sorted, there is a least such m,
and without m that set can be.

`MInv` adds how far a move has come that no other call interferes with. `MoveKeepsFiles`
alone is not inductive: it says nothing of the entries that are still to be copied.
`Progress` says, for the tree as it was when the move began: until the removal the source
is intact (`Intact`); each entry of the list is to go where the move puts it; and each
file of the source has arrived (`Arrived`), is still ahead in or below an entry of the list
(`Ahead`), or is the one whose destination has just been truncated (`Taking`). Three
things are needed of the code. `os.ReadDir` leaves no entry out (`ChildrenAll`), so that
what was below a directory is below one of the entries that replace it (`OnTheWay`). Two
files go to two places (`MovedIs`), so that the file `os.Create` truncates is not one
that has arrived before. And nothing below the destination is below the source
(`NotBoth`), so that neither the copy changes what it has yet to read nor the removal
what has arrived. An error or a full disk ends the move while the source is intact.
`AloneInv` says that the history variable `before` is set only while no other call has
begun: the first step of another call may make directories, which replaces no file
(`TextsStay`), and ends the claim.

`SInv` adds `DueIsAhead`: each match that has been there since the search began is among
those found, or below an entry that the search has yet to visit (`OnWay`). It
is kept while other calls change the tree, because a match that they leave where it is
keeps the directories above it (`InFolders`) and stays a match (`MatchStays`). A visit
keeps it (`AfterFinds`): the entries that replace a directory include the one on the way
to the match (`ChildrenAll`, `OnTheWay`), and no directory above a match is too deep. What a
visit looks at it finds (`GrepFileFinds`, `FitsMatches`); the latter shows that the code's
matching, by the prefix and the last names, accepts what the pattern means: some
folders of the prefix, any folders, the last names. A search that ends with nothing left to
visit has therefore found all (`WalkSteps` says which steps end one).

`KInv` adds what each call has done to the tree as it was when the call began, for as
long as no other call has begun (`Kept`; the history variable `before` has that tree). Each
part is what one kind of tool needs. `Writing`: until it writes, a call has made folders
and created its file, and what it will then write is the text to be written (`Goal`).
`Looking`: a call that has checked the tree finds it as it was, so no later system call
fails and what is read is what was there. `Removing`: what is still below a folder that is
being removed is on the list. `Copying`: nothing but the destination changes; that
everything has arrived is `Progress` of the move, which is the same for a copy.
`Finding`: what a search has found is expected (`GrepFound`, `GlobFound`), no entry twice,
since none is left to visit on the way to a match, and is within `max_results`; the entries
left to visit are there and not too deep (`AfterThere`). A call that is done has kept the
promise of its tool (`Promise`), which is the theorem. Windows are arithmetic: `LinesWindow`
and `BytesWindow` show that the code's bounds, with an offset of zero, behind the end or
without a limit, are the lines or bytes that were asked for, or that the read is the one
of `files_specified`.
`ProperSearches` excludes the two cases of section 4 in which a search says something
else than its parameters mean: a `max_results` below 1 for grep, below 0 for glob,
and a pattern such as `a/**/a`. `MCFileServer` assumes it too, so that TLC evaluates it
for the searches of `files`.

`Patch_proofs` proves, for any file, any diff and any texts, from `PatchParameters` and
`NilIsNoHunk`:

- `PatchTypeCorrect`: `Spec => []TypeOK`;
- `OffsetIsRight`: `Spec => []OffsetFindsLines`. While hunks come in the order of the
  file, what lies behind the last one is the rest of the original file, moved by the
  running offset. It is inductive with `TypeOK`; the work is in `ReplacedProperties`,
  which says what the three slices of a replacement contain;
- `PanicsHaveCause`: `Spec => []PanicNeedsCause`, from `OffsetFindsLines`.

`patch` checks the end of that argument, that the result has each hunk at its place, on
small diffs: that a diff program's hunks are what the theorem needs is induction
over data, which the prover does not reach.

`ProxyChain_proofs` proves, for any sets of requests, tasks and actions and any bound
on faults, from `Distinct`:

- `ChainTypeCorrect`: `Spec => []TypeOK`;
- `AgentsKeepAgreeing`: `Spec => []AgentsAgree`;
- `ChainImplementsGate`: `Spec => ChainKeepsGate`, a refinement: initial states map to
  initial states of `ApprovalGate` and every step without a fault to a step or a
  stutter.

`AgentsAgree` speaks of the moments between two requests. `Agreement` says at each
moment in between what B waits for (`Open`), by how far A's request has come: nothing
while A's loop runs, the action of the proxy under decision until B has taken the
message, what B answered after that. It also says that one request is in flight
and that every message on the way belongs to it. `Records` adds what the gate needs
to know of the past: an action is asked once, shown by one proxy, and has not run
while its task waits. `ChainInv` joins them under `faults = 0`. Steps are grouped by
what they do to `Agreement` (`Begins`, `Ends`, `GoesOn`, `Handles`, `Refused`) and, for
the refinement, by how many phases they move (`NoPhaseChanges`, `OnePhaseMoves`,
`TwoPhasesMove`; two move when a decision's answer is the next question).

`WebSession_proofs` proves, for any numbers of tabs, requests, grants, tokens and messages,
from `WebParameters` and `NoneIsNothing`:

- `TypeCorrect`: `Spec => []TypeOK`;
- `LogoutIsFinal`: `Spec => []LogoutHolds`;
- `SessionsEndForCause`: `Spec => DroppedForCause`;
- `RetriesAreTheirOwn`: `Spec => []RetriesOwnMessage`;
- `ButtonIsEnabledAgain`: `Spec => []SendButtonComesBack`.

The server's invariant `IInv` says which kind of request can be at which point of its
handler (`Stages`), that sessions and cookies name grants the provider has given
(`Cookies`), and that the tokens of a row are the provider's or older (`Rows`). Two
parts carry the theorems. `Alone`: nobody but its callback has a session that
is about to be created, so no logout can have come before, and `Update` never puts
a deleted row back. `Dropped`: where a request drops a session, its refresh has failed,
and it stays failed until the row is deleted. The pages' invariant `PageInv` says
who waits for which answer (`Buttons`, `LastSent`) and that at most one page can have a
message sent again, which then was posted at most once (`HeldOnce`). That a message is
posted at most twice is not inductive without it. `ProviderStep`, `RequestStep`,
`SessionStep`, `TabStep` and `PageStep` say once what any step does to each variable;
the parts of the invariants are proved from these and not from the actions.

Only model-checked: `FitsOrFails`, for the reason given above; `NobodyStuck`, which speaks
of `ENABLED`; and liveness (`EveryCallEnds`, `EveryRequestEnds`),
which the prover does not reach. What a
recursive definition computes for every input is out of its reach too; no module has a RECURSIVE
operator.

## 6. Not modelled

- The resources server: each of its tools is one SQL statement, except a removal by
  pattern, which selects ids and deletes them one by one and counts an id that
  another call has deleted meanwhile as removed. Ids are times in nanoseconds; the
  primary key refuses a second one.
- The auth context: it carries values and has no state or order of its own.
- The wire formats of LLM providers, A2A and MCP, YAML syntax and defaults, HTML and
  OpenAPI documentation pages, logging.
- Of the filesystem server: symbolic links and `ValidatePath`'s search for them (a path
  of the model is what it returns), `list_roots`, context lines of grep, the formats
  of answers. Opening the source of a copy and creating its destination is one
  action, and so is `MkdirAll`.
- Of the web frontend: `/api/conversation`, which the page never calls, `ClearSession`,
  which nothing calls, the frontend without OAuth. The page learns of its session
  at the moment it is loaded (`checkSession`). An answer is handled by the
  page when the server gives it. A request whose page has been left is followed to the end
  of its accesses to the session store.
- Of two agents: B handles a message in one step, its crashes and failing saves, a
  destructive hint on the delegation itself, and `tasks/get`, which only reads.
- The functions nothing calls: `executeToolAndRespond`, `executeA2AAndRespond`,
  `Complete`, `DeleteConversation`.

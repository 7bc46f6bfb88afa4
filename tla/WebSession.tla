----------------------------- MODULE WebSession -----------------------------
(***************************************************************************)
(* The web frontend with OAuth2 (cmd/web): the chat page in the tabs of    *)
(* one browser, the session store, and the requests between them.  A       *)
(* request gets the row of its session, refreshes an expired token with    *)
(* the provider, stores the new one, or drops the session, and then        *)
(* forwards the message to the agent; other requests act in between.       *)
(*                                                                         *)
(* The tokens of a grant are numbered as the provider issues them; 0 is    *)
(* no token.  A session has the number of its grant; 0 is no cookie.  A    *)
(* message is the number of the moment it was typed, 0 the empty text.  A  *)
(* conversation or an approval has the name of the request it came from.   *)
(* The provider and the agent are external: they answer anything.          *)
(***************************************************************************)
EXTENDS Integers, FiniteSets

CONSTANTS
    Tabs,           \* tabs of the browser
    None,           \* no row, no tab, no conversation, nothing pending
    MaxRequests,    \* bound: HTTP requests to the web server
    MaxGrants,      \* bound: grants the provider gives
    MaxLogins,      \* bound: logins that are started
    MaxTokens,      \* bound: access tokens of a grant
    MaxMessages,    \* bound: messages typed
    MaxFaults       \* bound: restarts of the server, failing writes, grants taken back

ASSUME WebParameters ==
    /\ {MaxRequests, MaxGrants, MaxLogins, MaxTokens, MaxMessages, MaxFaults} \subseteq Nat
    /\ MaxGrants > 0
    /\ MaxTokens > 0

Requests == 1 .. MaxRequests
Grants == 1 .. MaxGrants
Messages == 1 .. MaxMessages

VARIABLES
    sessions,   \* the table of sessions
    provider,   \* external: what the provider knows of its grants
    requests,   \* the requests on the server
    jar,        \* the cookies of the browser
    tabs,       \* the page in each tab, and its sessionStorage
    logins,     \* logins started so far
    typed,      \* messages typed so far
    faults,     \* faults so far
    posted,     \* history: how often each message was posted
    loggedOut   \* history: sessions that a logout has deleted

serverVars == <<sessions, provider>>
boundVars == <<logins, typed, faults>>
vars == <<serverVars, requests, jar, tabs, boundVars, posted, loggedOut>>

Row == [access : 0 .. MaxTokens, refresh : 0 .. MaxTokens]
NoRow == [access |-> 0, refresh |-> 0]

Request == [kind : {"none", "send", "retry", "approve", "logout", "callback"},
            tab : Tabs \cup {None},                 \* None: the page is gone
            pc : {"unused", "get", "refresh", "store", "drop", "forward",
                  "exchange", "create", "revoke", "delete", "done"},
            cookie : 0 .. MaxGrants,
            msg : 0 .. MaxMessages,
            conv : Requests \cup {None},
            row : Row,
            unanswered : BOOLEAN]                   \* by the provider

Unused == [kind |-> "none", tab |-> None, pc |-> "unused", cookie |-> 0, msg |-> 0,
           conv |-> None, row |-> NoRow, unanswered |-> FALSE]
Done == [Unused EXCEPT !.pc = "done"]

Pending == [msg : 0 .. MaxMessages, conv : Requests \cup {None},
            refused : 0 .. MaxMessages, via : {"send", "approve"}]

Box == [uuid : Requests, conv : Requests \cup {None}, msg : 0 .. MaxMessages]

Tab == [view : {"chat", "consent", "callback", "elsewhere"},
        nav : {"none", "login", "logout"},
        state : 0 .. MaxLogins,             \* in the URL that the provider has
        pending : Pending \cup {None},      \* pending_auth_message
        conv : Requests \cup {None},        \* currentConversationId
        last : 0 .. MaxMessages,            \* lastSentMessage
        sending : BOOLEAN,
        boxes : SUBSET Box,                 \* approval boxes with enabled buttons
        button : BOOLEAN]                   \* the logout button is shown

ASSUME NoneIsNothing == None \notin Tabs \cup Requests \cup Row \cup Pending

FreshPage == [view |-> "chat", nav |-> "none", state |-> 0, pending |-> None,
              conv |-> None, last |-> 0, sending |-> FALSE, boxes |-> {},
              button |-> FALSE]

NoGrant == [access |-> 0, due |-> 0, refresh |-> 0, good |-> FALSE]

TypeOK ==
    /\ sessions \in [Grants -> Row \cup {None}]
    /\ provider \in [Grants -> [access : 0 .. MaxTokens, due : 0 .. MaxTokens,
                                refresh : 0 .. MaxTokens, good : BOOLEAN]]
    /\ requests \in [Requests -> Request]
    /\ jar \in [session : 0 .. MaxGrants, state : 0 .. MaxLogins]
    /\ tabs \in [Tabs -> Tab]
    /\ logins \in 0 .. MaxLogins
    /\ typed \in 0 .. MaxMessages
    /\ faults \in 0 .. MaxFaults
    /\ posted \in [Messages -> Nat]
    /\ loggedOut \subseteq Grants
    \* a request is awaited by the page that made it, a callback by its tab
    /\ \A q \in Requests : requests[q].kind # "none" /\ requests[q].tab # None =>
          tabs[requests[q].tab].view = IF requests[q].kind = "callback" THEN "callback" ELSE "chat"

\* The first tokens of a grant, with or without a refresh token
FirstTokens == {[access |-> 1, refresh |-> r] : r \in {0, 1}}
Granted(row) == [access |-> 1, due |-> 0, refresh |-> row.refresh, good |-> row.refresh = 1]

\* The browser and the store may have a session from an earlier day
Init ==
    /\ \/ /\ sessions = [g \in Grants |-> None]
          /\ provider = [g \in Grants |-> NoGrant]
          /\ jar = [session |-> 0, state |-> 0]
       \/ LET row == [access |-> 1, refresh |-> 1] IN
          /\ sessions = [g \in Grants |-> IF g = 1 THEN row ELSE None]
          /\ provider = [g \in Grants |-> IF g = 1 THEN Granted(row) ELSE NoGrant]
          /\ jar = [session |-> 1, state |-> 0]
    /\ requests = [q \in Requests |-> Unused]
    /\ tabs = [t \in Tabs |-> [FreshPage EXCEPT !.button = jar.session # 0]]
    /\ logins = 0
    /\ typed = 0
    /\ faults = 0
    /\ posted = [m \in Messages |-> 0]
    /\ loggedOut = {}

-----------------------------------------------------------------------------
(***************************************************************************)
(* The page                                                                *)
(***************************************************************************)

\* A request carries the session cookie of the moment it is sent
NewRequest(kind, t, msg, conv) ==
    [Unused EXCEPT !.kind = kind, !.tab = t, !.cookie = jar.session,
                   !.msg = msg, !.conv = conv, !.pc = "get"]

\* Requests have numbers in the order they are sent
Post(q, pool, request) ==
    /\ requests[q] = Unused
    /\ \A r \in 1 .. q - 1 : requests[r] # Unused
    /\ requests' = [pool EXCEPT ![q] = request]
    /\ posted' = [m \in Messages |->
                    IF m = request.msg /\ request.kind \in {"send", "retry"}
                    THEN posted[m] + 1 ELSE posted[m]]

\* The promises of a page end with it.  The server does not notice; what the agent
\* then answers, nobody sees.
WithoutPage(t) ==
    [q \in Requests |->
        IF requests[q].tab # t THEN requests[q]
        ELSE IF requests[q].pc = "forward" THEN Done
        ELSE [requests[q] EXCEPT !.tab = None, !.msg = 0, !.conv = None]]

MaySend(t) == ~tabs[t].sending

SendMessage(t, q) ==
    /\ tabs[t].view = "chat"
    /\ MaySend(t)
    /\ typed < MaxMessages
    /\ typed' = typed + 1
    /\ tabs' = [tabs EXCEPT ![t].sending = TRUE, ![t].last = typed + 1]
    /\ Post(q, requests, NewRequest("send", t, typed + 1, tabs[t].conv))
    /\ UNCHANGED <<serverVars, jar, logins, faults, loggedOut>>

\* Approve or reject: what follows is the same for both
ApproveAction(t, q) ==
    /\ tabs[t].view = "chat"
    /\ \E box \in tabs[t].boxes :
          /\ tabs' = [tabs EXCEPT ![t].boxes = @ \ {box}]
          /\ Post(q, requests, NewRequest("approve", t, box.msg, box.conv))
    /\ UNCHANGED <<serverVars, jar, boundVars, loggedOut>>

NewChat(t) ==
    /\ tabs[t].view = "chat"
    /\ tabs' = [tabs EXCEPT ![t].conv = None, ![t].boxes = {}]
    /\ UNCHANGED <<serverVars, requests, jar, boundVars, posted, loggedOut>>

HandleAuthRequired(tab, request) ==
    [tab EXCEPT !.pending = [msg |-> tab.last, conv |-> request.conv,
                             refused |-> request.msg,
                             via |-> IF request.kind = "approve" THEN "approve" ELSE "send"],
                !.nav = "login"]

\* An approval box keeps its conversation and message for the properties only:
\* the page knows the UUID
HandleResult(tab, q, request, answer) ==
    LET seen == [tab EXCEPT !.conv = request.conv] IN
    CASE answer = "error" -> tab
      [] answer = "text" -> seen
      [] answer = "approval" ->
            [seen EXCEPT !.boxes = @ \cup {[uuid |-> q, conv |-> request.conv, msg |-> request.msg]}]
      [] answer = "auth" ->
            \* a message is sent again once, then checkPendingAuthMessage gives up
            IF request.kind = "retry" THEN tab ELSE HandleAuthRequired(seen, request)

\* Mutant of Rested: only a good answer enables the Send button again
RestedOnSuccess(tab, request, answer) ==
    IF request.kind = "approve" \/ answer = "error" THEN tab
    ELSE [tab EXCEPT !.sending = FALSE]

\* approveAction neither sets nor clears the flag
Rested(tab, request, answer) ==
    IF request.kind = "approve" THEN tab ELSE [tab EXCEPT !.sending = FALSE]

\* The page has its answer as soon as the server gives it; an answer that takes
\* longer is one the server gives later
Received(q, request, answer) ==
    /\ requests' = [requests EXCEPT ![q] = Done]
    /\ tabs' = [tabs EXCEPT ![request.tab] =
                    Rested(HandleResult(@, q, request, answer), request, answer)]

\* checkSession
Authenticated == jar.session # 0 /\ sessions[jar.session] # None

\* Mutant of Loaded: the message that is sent again is remembered as the last one
LoadedAsLast(tab) ==
    [FreshPage EXCEPT !.sending = (tab.pending # None),
                      !.button = Authenticated,
                      !.last = IF tab.pending # None THEN tab.pending.msg ELSE 0]

\* The page forgets everything but pending_auth_message, which it removes
Loaded(tab) ==
    [FreshPage EXCEPT !.sending = (tab.pending # None), !.button = Authenticated]

\* The chat page is opened or reloaded: checkPendingAuthMessage sends the pending
\* message, whether somebody has logged in or not
LoadWithPending(t, q) ==
    LET pending == tabs[t].pending IN
    /\ tabs[t].view \in {"chat", "consent", "elsewhere"}
    /\ pending # None /\ pending.msg # 0
    /\ tabs' = [tabs EXCEPT ![t] = Loaded(@)]
    /\ Post(q, WithoutPage(t), NewRequest("retry", t, pending.msg, pending.conv))
    /\ UNCHANGED <<serverVars, jar, boundVars, loggedOut>>

\* Nothing is pending, or an empty message, which the server refuses at once
LoadPage(t) ==
    /\ tabs[t].view \in {"chat", "consent", "elsewhere"}
    /\ tabs[t].pending # None => tabs[t].pending.msg = 0
    /\ tabs' = [tabs EXCEPT ![t] = Loaded([@ EXCEPT !.pending = None])]
    /\ requests' = WithoutPage(t)
    /\ UNCHANGED <<serverVars, jar, boundVars, posted, loggedOut>>

-----------------------------------------------------------------------------
(***************************************************************************)
(* Login and logout.  A tab that has left the page is at the provider      *)
(* ("consent"), waits for /callback, or shows something "elsewhere": an    *)
(* error of the callback, or what comes after a logout, where the browser  *)
(* repeats the POST at "/", which only answers GET.                        *)
(***************************************************************************)

\* GET /login, on a redirect of the page or from the link of an error
Login(t) ==
    /\ tabs[t].nav = "login" \/ tabs[t].view = "elsewhere"
    /\ logins < MaxLogins
    /\ logins' = logins + 1
    /\ jar' = [jar EXCEPT !.state = logins + 1]
    /\ tabs' = [tabs EXCEPT ![t] = [FreshPage EXCEPT !.view = "consent",
                                        !.state = logins + 1, !.pending = tabs[t].pending]]
    /\ requests' = WithoutPage(t)
    /\ UNCHANGED <<serverVars, typed, faults, posted, loggedOut>>

\* GET /callback with another state than the cookie's, with an error, or when the
\* state cookie's five minutes are over
CallbackRefused(t) ==
    /\ tabs[t].view = "consent"
    /\ jar' = IF jar.state = tabs[t].state THEN [jar EXCEPT !.state = 0] ELSE jar
    /\ tabs' = [tabs EXCEPT ![t].view = "elsewhere"]
    /\ UNCHANGED <<serverVars, requests, boundVars, posted, loggedOut>>

Callback(t, q) ==
    /\ tabs[t].view = "consent"
    /\ jar.state = tabs[t].state
    /\ tabs' = [tabs EXCEPT ![t].view = "callback"]
    /\ Post(q, requests, [NewRequest("callback", t, 0, None) EXCEPT !.pc = "exchange"])
    /\ UNCHANGED <<serverVars, jar, boundVars, loggedOut>>

\* The tab shows something else; what it has pending stays
Gone(t) == [FreshPage EXCEPT !.view = "elsewhere", !.pending = tabs[t].pending]

\* The response clears the state cookie, be it of this login or of a later one.
\* A redirect to "/" follows, which loads the page.
CallbackAnswered(q, session) ==
    /\ requests' = [requests EXCEPT ![q] = Done]
    /\ jar' = [session |-> session, state |-> 0]
    /\ tabs' = [tabs EXCEPT ![requests[q].tab] = Gone(requests[q].tab)]

\* The server has nothing to do for a browser without a session
Logout(t, q) ==
    /\ tabs[t].view = "chat"
    /\ tabs[t].button
    /\ tabs[t].nav = "none"
    /\ IF jar.session = 0
       THEN /\ tabs' = [tabs EXCEPT ![t] = Gone(t)]
            /\ requests' = WithoutPage(t)
            /\ UNCHANGED posted
       ELSE /\ tabs' = [tabs EXCEPT ![t].nav = "logout"]
            /\ Post(q, requests, NewRequest("logout", t, 0, None))
    /\ UNCHANGED <<serverVars, jar, boundVars, loggedOut>>

\* The page may meanwhile have been left or have gone to /login
LogoutAnswered(q) ==
    LET t == requests[q].tab IN
    IF t # None /\ tabs[t].nav = "logout"
    THEN /\ tabs' = [tabs EXCEPT ![t] = Gone(t)]
         /\ jar' = [jar EXCEPT !.session = 0]
         /\ requests' = [WithoutPage(t) EXCEPT ![q] = Done]
    ELSE /\ requests' = [requests EXCEPT ![q] = Done]
         /\ UNCHANGED <<tabs, jar>>

-----------------------------------------------------------------------------
(***************************************************************************)
(* The server                                                              *)
(***************************************************************************)

Goto(q, label) == requests' = [requests EXCEPT ![q].pc = label]

\* With a token or without one: nothing that follows depends on the session
Proceed(q) ==
    requests' = [requests EXCEPT ![q] =
                    IF @.tab = None THEN Done
                    ELSE [@ EXCEPT !.pc = "forward", !.cookie = 0, !.row = NoRow,
                                   !.unanswered = FALSE]]

GotoWith(q, label, row) ==
    requests' = [requests EXCEPT ![q].pc = label, ![q].row = row]

\* callbackHandler, after the state has been checked
Exchange(q) ==
    LET g == Cardinality({h \in Grants : provider[h] # NoGrant}) + 1 IN
    /\ requests[q].pc = "exchange"
    /\ \/ /\ CallbackAnswered(q, jar.session)
          /\ UNCHANGED provider
       \/ /\ g \in Grants
          /\ \E row \in FirstTokens :
                /\ provider' = [provider EXCEPT ![g] = Granted(row)]
                /\ requests' = [requests EXCEPT ![q].pc = "create", ![q].cookie = g,
                                                ![q].row = row]
          /\ UNCHANGED <<jar, tabs>>
    /\ UNCHANGED <<sessions, boundVars, posted, loggedOut>>

\* Something goes wrong: a write of the store, most often
Fault ==
    /\ faults < MaxFaults
    /\ faults' = faults + 1

CreateSession(q) ==
    /\ requests[q].pc = "create"
    /\ \/ /\ sessions' = [sessions EXCEPT ![requests[q].cookie] = requests[q].row]
          /\ CallbackAnswered(q, requests[q].cookie)
          /\ UNCHANGED faults
       \/ /\ Fault
          /\ CallbackAnswered(q, jar.session)
          /\ UNCHANGED sessions
    /\ UNCHANGED <<provider, logins, typed, posted, loggedOut>>

\* The token expires in less than a minute
IsExpired(g, row) == row.access <= provider[g].due

TokensExpire(g) ==
    /\ provider[g].due < provider[g].access
    /\ provider' = [provider EXCEPT ![g].due = provider[g].access]
    /\ UNCHANGED <<sessions, requests, jar, tabs, boundVars, posted, loggedOut>>

\* The user takes the permission back at the provider
GrantEnds(g) ==
    /\ Fault
    /\ provider[g].good
    /\ provider' = [provider EXCEPT ![g].good = FALSE]
    /\ UNCHANGED <<sessions, requests, jar, tabs, logins, typed, posted, loggedOut>>

\* Get, in GetBearerToken and in logoutHandler
GetSession(q) ==
    LET g == requests[q].cookie
        row == IF g = 0 THEN None ELSE sessions[g] IN
    /\ requests[q].pc = "get"
    /\ IF requests[q].kind = "logout"
       THEN Goto(q, IF row = None THEN "delete" ELSE "revoke")
       ELSE IF row = None \/ ~IsExpired(g, row)
            THEN Proceed(q)
            ELSE GotoWith(q, IF row.refresh = 0 THEN "drop" ELSE "refresh", row)
    /\ UNCHANGED <<serverVars, jar, tabs, boundVars, posted, loggedOut>>

\* Mutant of Refreshed: a refresh token that is not repeated is forgotten
RefreshedAlone(row, access, refresh) == [access |-> access, refresh |-> refresh]

\* The row with the tokens of a refresh; the provider may repeat no refresh token
Refreshed(row, access, refresh) ==
    [access |-> access, refresh |-> IF refresh = 0 THEN row.refresh ELSE refresh]

\* The provider gives a new access token, and perhaps a new refresh token in the
\* place of the old one.  Its answer may be lost.
RefreshToken(q) ==
    LET g == requests[q].cookie
        row == requests[q].row
        p == provider[g]
        access == p.access + 1 IN
    /\ requests[q].pc = "refresh"
    /\ p.good /\ row.refresh = p.refresh
    /\ access <= MaxTokens
    /\ \E rotated \in {0, p.refresh + 1}, lost \in BOOLEAN :
          /\ provider' = [provider EXCEPT ![g].access = access,
                                ![g].refresh = IF rotated = 0 THEN @ ELSE rotated]
          /\ IF lost
             THEN requests' = [requests EXCEPT ![q].pc = "drop", ![q].unanswered = TRUE]
             ELSE GotoWith(q, "store", Refreshed(row, access, rotated))
    /\ UNCHANGED <<sessions, jar, tabs, boundVars, posted, loggedOut>>

RefreshFails(q) ==
    LET p == provider[requests[q].cookie] IN
    /\ requests[q].pc = "refresh"
    /\ \/ /\ ~p.good \/ requests[q].row.refresh # p.refresh
          /\ Goto(q, "drop")
       \/ requests' = [requests EXCEPT ![q].pc = "drop", ![q].unanswered = TRUE]
    /\ UNCHANGED <<serverVars, jar, tabs, boundVars, posted, loggedOut>>

\* Mutant of Updated: a row that is not there is inserted
UpdatedOrInserted(g, row) == [sessions EXCEPT ![g] = row]

\* UPDATE ... WHERE id = ? does nothing for a session that has been deleted
Updated(g, row) == IF sessions[g] = None THEN sessions ELSE [sessions EXCEPT ![g] = row]

\* The new token is used whatever becomes of the update
StoreTokens(q) ==
    /\ requests[q].pc = "store"
    /\ \/ sessions' = Updated(requests[q].cookie, requests[q].row) /\ UNCHANGED faults
       \/ Fault /\ UNCHANGED sessions
    /\ Proceed(q)
    /\ UNCHANGED <<provider, jar, tabs, logins, typed, posted, loggedOut>>

DropSession(q) ==
    /\ requests[q].pc = "drop"
    /\ \/ sessions' = [sessions EXCEPT ![requests[q].cookie] = None] /\ UNCHANGED faults
       \/ Fault /\ UNCHANGED sessions
    /\ Proceed(q)
    /\ UNCHANGED <<provider, jar, tabs, logins, typed, posted, loggedOut>>

\* The agent answers a message or a decision in its conversation; a message of no
\* conversation begins one
ForwardToAgent(q) ==
    LET request == requests[q]
        conv == IF request.conv = None THEN q ELSE request.conv IN
    /\ request.pc = "forward"
    /\ \E answer \in {"error", "text", "approval", "auth"} :
          Received(q, [request EXCEPT !.conv = conv], answer)
    /\ UNCHANGED <<serverVars, jar, boundVars, posted, loggedOut>>

\* Best effort: with the grant's token revoked, the grant may end
RevokeToken(q) ==
    LET g == requests[q].cookie IN
    /\ requests[q].pc = "revoke"
    /\ Goto(q, "delete")
    /\ provider' \in {provider, [provider EXCEPT ![g].good = FALSE]}
    /\ UNCHANGED <<sessions, jar, tabs, boundVars, posted, loggedOut>>

DeleteSession(q) ==
    /\ requests[q].pc = "delete"
    /\ \/ /\ sessions' = [sessions EXCEPT ![requests[q].cookie] = None]
          /\ loggedOut' = loggedOut \cup {requests[q].cookie}
          /\ UNCHANGED faults
       \/ Fault /\ UNCHANGED <<sessions, loggedOut>>
    /\ LogoutAnswered(q)
    /\ UNCHANGED <<provider, logins, typed, posted>>

\* The server is restarted: what it was working on ends without an answer, which the
\* page takes for an error.  The table is on the disk.
InProgress(q) == requests[q].pc \notin {"unused", "done"}

Restart ==
    /\ Fault
    /\ requests' = [q \in Requests |-> IF InProgress(q) THEN Done ELSE requests[q]]
    /\ tabs' = [t \in Tabs |->
                    IF tabs[t].view = "callback" \/ tabs[t].nav = "logout" THEN Gone(t)
                    ELSE [tabs[t] EXCEPT !.sending = FALSE]]
    /\ UNCHANGED <<serverVars, jar, logins, typed, posted, loggedOut>>

-----------------------------------------------------------------------------

Next ==
    \/ \E t \in Tabs :
          \/ NewChat(t) \/ LoadPage(t) \/ Login(t) \/ CallbackRefused(t)
          \/ \E q \in Requests :
                \/ SendMessage(t, q) \/ ApproveAction(t, q) \/ LoadWithPending(t, q)
                \/ Callback(t, q) \/ Logout(t, q)
    \/ \E q \in Requests :
          \/ Exchange(q) \/ CreateSession(q) \/ GetSession(q) \/ RefreshToken(q)
          \/ RefreshFails(q) \/ StoreTokens(q) \/ DropSession(q) \/ ForwardToAgent(q)
          \/ RevokeToken(q) \/ DeleteSession(q)
    \/ \E g \in Grants : TokensExpire(g) \/ GrantEnds(g)
    \/ Restart

Spec == Init /\ [][Next]_vars

-----------------------------------------------------------------------------

\* A session that a logout has deleted stays deleted, whatever refreshes and logins
\* were under way (logoutHandler, GetBearerToken, SessionStore.Update).
LogoutHolds == \A g \in loggedOut : sessions[g] = None

\* A session ends by a logout, or because the provider no longer takes its refresh
\* token: the grant has ended or has none, a newer token has taken its place, or
\* there was no answer (GetBearerToken; docs/authentication.md, Token refresh).
RefreshTokenFails(q) ==
    LET p == provider[requests[q].cookie] IN
    \/ ~p.good
    \/ requests[q].row.refresh \in 1 .. p.refresh - 1
    \/ requests[q].unanswered

DroppedForCause ==
    [][\A g \in Grants : sessions[g] # None /\ sessions'[g] = None =>
          \E q \in Requests :
              /\ requests[q].cookie = g
              /\ \/ requests[q].pc = "delete"
                 \/ requests[q].pc = "drop" /\ RefreshTokenFails(q)]_vars

\* The message that is sent again after an authentication is the one whose answer
\* asked for it, and it is posted at most twice in all (handleAuthRequired,
\* checkPendingAuthMessage; FR-012, "Maximum 1 OAuth2 retry per message").
RetriesOwnMessage ==
    /\ \A m \in Messages : posted[m] <= 2
    /\ \A t \in Tabs : LET pending == tabs[t].pending IN
          pending # None /\ pending.via = "send" => pending.msg = pending.refused

\* A page whose Send button is disabled waits for the answer to one message, which
\* will enable it (sendMessage, checkPendingAuthMessage).
SendButtonComesBack ==
    \A t \in Tabs : tabs[t].view = "chat" =>
        LET open == {q \in Requests :
                        requests[q].tab = t /\ requests[q].kind \in {"send", "retry"}} IN
        /\ Cardinality(open) <= 1
        /\ tabs[t].sending <=> open # {}

=============================================================================

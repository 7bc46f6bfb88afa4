-------------------------- MODULE WebSession_proofs --------------------------
(***************************************************************************)
(* Proofs about WebSession, for any number of tabs, requests, grants,      *)
(* tokens and messages.  The server's invariant IInv is about what         *)
(* requests, sessions and the provider know of each other; the pages'      *)
(* invariant PageInv is about the messages that the pages hold.  Both are  *)
(* proved from lemmas that say once what any step does to the requests     *)
(* (RequestStep), the sessions (SessionStep) and the pages (PageStep).     *)
(***************************************************************************)
EXTENDS WebSession, FiniteSetTheorems, TLAPS

\* The bounds of the model are natural numbers.
LEMMA BoundsAreNaturals ==
    /\ MaxRequests \in Nat /\ MaxGrants \in Nat /\ MaxLogins \in Nat
    /\ MaxTokens \in Nat /\ MaxMessages \in Nat /\ MaxFaults \in Nat
    /\ MaxGrants > 0 /\ MaxTokens > 0
BY WebParameters

-----------------------------------------------------------------------------
(***************************************************************************)
(* What the operations on a page and on a request return.                  *)
(***************************************************************************)

LEMMA Zeros ==
    /\ NoRow \in Row
    /\ 0 \in 0 .. MaxGrants
    /\ 0 \in 0 .. MaxMessages
    /\ 0 \in 0 .. MaxLogins
    /\ {} \in SUBSET Box
BY BoundsAreNaturals DEF NoRow, Row

\* A page that has just loaded is a page.
LEMMA FreshPageType == FreshPage \in Tab
BY Zeros DEF FreshPage, Tab

\* A request not made yet, and one that is over, are requests.
LEMMA UnusedType == Unused \in Request /\ Done \in Request
<1>1. Unused \in Request  BY Zeros DEF Unused, Request
<1>2. [Unused EXCEPT !.pc = "done"] \in Request  BY <1>1 DEF Request
<1> QED  BY <1>1, <1>2 DEF Done

\* A request that a page makes carries the browser's cookie and the page's message
\* (sendMessage, sendApproval, the logout form, the provider's redirect).
LEMMA NewRequestType ==
    ASSUME TypeOK, NEW t \in Tabs, NEW msg \in 0 .. MaxMessages,
           NEW conv \in Requests \cup {None},
           NEW kind \in {"send", "retry", "approve", "logout", "callback"}
    PROVE  LET new == NewRequest(kind, t, msg, conv) IN
           /\ new \in Request
           /\ new.kind = kind /\ new.tab = t /\ new.pc = "get" /\ new.cookie = jar.session
           /\ new.msg = msg /\ new.conv = conv /\ new.row = NoRow
<1>1. jar.session \in 0 .. MaxGrants  BY DEF TypeOK
<1>2. ASSUME NEW old \in Request,
             NEW new, new = [old EXCEPT !.kind = kind, !.tab = t, !.cookie = jar.session,
                                        !.msg = msg, !.conv = conv, !.pc = "get"]
      PROVE  /\ new \in Request
             /\ new.kind = kind /\ new.tab = t /\ new.pc = "get" /\ new.cookie = jar.session
             /\ new.msg = msg /\ new.conv = conv /\ new.row = old.row
    BY <1>1, <1>2 DEF Request
<1>3. Unused.row = NoRow  BY DEF Unused
<1> QED  BY <1>2, <1>3, UnusedType DEF NewRequest

\* The page stays one when it shows an answer (handleResult, handleAuthRequired).
LEMMA PageTypes ==
    ASSUME NEW tab \in Tab, NEW request \in Request, NEW q \in Requests,
           NEW answer \in {"error", "text", "approval", "auth"}, request.conv \in Requests
    PROVE  /\ HandleResult(tab, q, request, answer) \in Tab
           /\ Rested(tab, request, answer) \in Tab
<1> DEFINE pending == [msg |-> tab.last, conv |-> request.conv, refused |-> request.msg,
                       via |-> IF request.kind = "approve" THEN "approve" ELSE "send"]
           box == [uuid |-> q, conv |-> request.conv, msg |-> request.msg]
           seen == [tab EXCEPT !.conv = request.conv]
<1>1. pending \in Pending
  <2>1. tab.last \in 0 .. MaxMessages /\ request.msg \in 0 .. MaxMessages
        BY DEF Tab, Request
  <2> QED  BY <2>1 DEF Pending
<1>2. box \in Box
  <2>1. request.msg \in 0 .. MaxMessages  BY DEF Request
  <2> QED  BY <2>1 DEF Box
<1>3. seen \in Tab /\ seen.last = tab.last
    BY DEF Tab
<1>4. [seen EXCEPT !.boxes = @ \cup {box}] \in Tab
  <2>1. seen.boxes \cup {box} \in SUBSET Box  BY <1>2, <1>3 DEF Tab
  <2> HIDE DEF seen, box
  <2> QED  BY <1>3, <2>1 DEF Tab
<1>5. [seen EXCEPT !.pending = pending, !.nav = "login"] \in Tab
  <2> HIDE DEF seen, pending
  <2> QED  BY <1>1, <1>3 DEF Tab
<1>6. HandleAuthRequired(seen, request) \in Tab
    BY <1>3, <1>5 DEF HandleAuthRequired
<1>7. HandleResult(tab, q, request, answer) \in Tab
    BY <1>3, <1>4, <1>6 DEF HandleResult
<1>8. Rested(tab, request, answer) \in Tab
    BY DEF Rested, Tab
<1> QED  BY <1>7, <1>8

-----------------------------------------------------------------------------
(***************************************************************************)
(* The inductive invariant.                                                *)
(***************************************************************************)

Known(g) == provider[g].access > 0

\* The provider gives a refresh token with an access token or not at all, and its
\* unused grants are the last ones
Issued ==
    /\ \A g \in Grants : provider[g].refresh <= provider[g].access
    /\ \A g \in Grants : provider[g].good => provider[g].refresh > 0
    /\ \A g \in Grants : ~Known(g) => provider[g] = NoGrant
    /\ \A g, h \in Grants : g < h /\ Known(h) => Known(g)

\* Which requests are at which place of the server
Stage(r) ==
    /\ r.pc = "unused" => r = Unused
    /\ r.pc = "done" => r = Done
    /\ r.kind = "none" <=> r.pc \in {"unused", "done"}
    /\ r.pc \in {"exchange", "create"} <=> r.kind = "callback"
    /\ r.pc \in {"revoke", "delete"} => r.kind = "logout"
    /\ r.kind = "logout" => r.pc \in {"get", "revoke", "delete"}
    /\ r.pc \in {"forward", "exchange", "create"} => r.tab # None
    /\ r.kind = "logout" \/ r.pc \in {"refresh", "store", "drop", "create"} => r.cookie # 0

Stages == \A q \in Requests : Stage(requests[q])

\* Only the chat page is about to be left
Leaving == \A t \in Tabs : tabs[t].view # "chat" => tabs[t].nav = "none"

\* A tab waits for one callback at most
OneCallback == \A q, r \in Requests :
    /\ requests[q].kind = "callback"
    /\ requests[r].kind = "callback"
    /\ requests[q].tab = requests[r].tab
    => q = r

\* The provider knows the grant of every session
Cookies ==
    /\ \A q \in Requests : requests[q].cookie # 0 => Known(requests[q].cookie)
    /\ \A g \in Grants : sessions[g] # None => Known(g)
    /\ \A g \in loggedOut : Known(g)
    /\ jar.session # 0 => Known(jar.session)

\* Nobody else has the session that a callback is about to create
Alone == \A q \in Requests : requests[q].pc = "create" =>
    LET g == requests[q].cookie IN
    /\ sessions[g] = None
    /\ g \notin loggedOut
    /\ jar.session # g
    /\ \A r \in Requests \ {q} : requests[r].cookie # g

\* The tokens of a row are the provider's, or older
Fits(g, row) == row.refresh <= provider[g].refresh /\ (row.refresh = 0 => ~provider[g].good)

Rows ==
    /\ \A g \in Grants : sessions[g] # None => Fits(g, sessions[g])
    /\ \A q \in Requests : requests[q].pc \in {"refresh", "store", "drop", "create"} =>
          Fits(requests[q].cookie, requests[q].row)

\* Where a session is dropped, the refresh has failed
Dropped == \A q \in Requests : requests[q].pc = "drop" => RefreshTokenFails(q)

IInv == TypeOK /\ Issued /\ Stages /\ Leaving /\ OneCallback /\ Cookies /\ Alone /\ Rows
        /\ Dropped /\ LogoutHolds

-----------------------------------------------------------------------------
(***************************************************************************)
(* Types.  That the provider's tokens stay in their bound needs Issued.    *)
(***************************************************************************)

ProviderType == [Grants -> [access : 0 .. MaxTokens, due : 0 .. MaxTokens,
                            refresh : 0 .. MaxTokens, good : BOOLEAN]]

\* The next grant is the first that the provider has not given
LEMMA NextGrant ==
    ASSUME TypeOK, Issued, NEW g \in Grants,
           g = Cardinality({h \in Grants : provider[h] # NoGrant}) + 1
    PROVE  /\ ~Known(g)
           /\ \A h \in Grants : h < g => Known(h)
<1> DEFINE K == {h \in Grants : provider[h] # NoGrant}
<1>1. \A h \in Grants : h \in K <=> Known(h)
    BY DEF Issued, NoGrant, Known
<1>2. Grants = 1 .. MaxGrants /\ MaxGrants \in Nat /\ g \in 1 .. MaxGrants
    BY BoundsAreNaturals DEF Grants
<1>3. \A n \in 0 .. MaxGrants : IsFiniteSet(1 .. n) /\ Cardinality(1 .. n) = n
  <2>1. TAKE n \in 0 .. MaxGrants
  <2>2. n \in Int /\ 1 \in Int /\ (1 > n => n = 0)
        BY <1>2
  <2>3. IsFiniteSet(1 .. n) /\ Cardinality(1 .. n) = IF 1 > n THEN 0 ELSE n - 1 + 1
        BY <2>2, FS_Interval
  <2> QED  BY <2>2, <2>3
<1>4. IsFiniteSet(K)
  <2>1. K \in SUBSET (1 .. MaxGrants) /\ MaxGrants \in 0 .. MaxGrants
        BY <1>2
  <2> QED  BY <2>1, <1>3, FS_Subset
<1>5. Cardinality(K) \in Nat /\ Cardinality(K) = g - 1
  <2>1. Cardinality(K) \in Nat
        BY <1>4, FS_CardinalityType
  <2> HIDE DEF K
  <2>2. g = Cardinality(K) + 1
        BY DEF K
  <2> QED  BY <2>1, <2>2
<1>6. ASSUME Known(g) PROVE FALSE
  <2>1. \A h \in 1 .. g : h \in Grants /\ Known(h)
        BY <1>2, <1>6 DEF Issued
  <2>2. 1 .. g \in SUBSET K
        BY <1>1, <2>1
  <2>3. Cardinality(1 .. g) <= Cardinality(K)
        BY <2>2, <1>4, FS_Subset
  <2> HIDE DEF K
  <2> QED  BY <2>3, <1>2, <1>3, <1>5
<1>7. ASSUME NEW h \in Grants, h < g, ~Known(h) PROVE FALSE
  <2>1. \A k \in Grants : Known(k) => k < h
        BY <1>2, <1>7 DEF Issued
  <2>2. K \in SUBSET (1 .. h - 1) /\ h - 1 \in 0 .. MaxGrants
        BY <1>1, <1>2, <2>1
  <2>3. Cardinality(K) <= Cardinality(1 .. h - 1)
        BY <2>2, <1>3, FS_Subset
  <2> HIDE DEF K
  <2> QED  BY <2>2, <2>3, <1>2, <1>3, <1>5, <1>7
<1> QED  BY <1>6, <1>7

\* What the provider has given stays given, tokens get newer, and a grant that has ended
\* has ended
Grows(g) == Known(g) =>
    /\ provider'[g].access > 0
    /\ provider'[g].refresh >= provider[g].refresh
    /\ provider'[g].good => provider[g].good

ProviderGoal ==
    /\ provider' \in ProviderType
    /\ Issued'
    /\ \A g \in Grants : Grows(g)

\* One grant of the provider changes
LEMMA ProviderChanges ==
    ASSUME TypeOK, Issued, NEW g \in Grants,
           NEW p \in [access : 0 .. MaxTokens, due : 0 .. MaxTokens,
                      refresh : 0 .. MaxTokens, good : BOOLEAN],
           provider' = [provider EXCEPT ![g] = p],
           p.refresh <= p.access,
           p.good => p.refresh > 0,
           p.access > 0,
           \A h \in Grants : h < g => Known(h),
           Grows(g)
    PROVE  ProviderGoal
<1>1. provider \in ProviderType  BY DEF TypeOK, ProviderType
<1>2. provider' \in ProviderType  BY <1>1 DEF ProviderType
<1>3. provider'[g] = p /\ \A h \in Grants \ {g} : provider'[h] = provider[h]
    BY <1>1 DEF ProviderType
<1>4. \A h \in Grants : Known(h) => Known(h)'
    BY <1>3 DEF Known
<1>5. \A h \in Grants : Grows(h)
  <2>1. ASSUME NEW h \in Grants \ {g} PROVE Grows(h)
    <3>1. provider'[h] = provider[h] /\ provider[h].refresh \in Int
          BY <1>1, <1>3 DEF ProviderType
    <3> QED  BY <3>1 DEF Grows, Known
  <2> QED  BY <2>1
<1>6. Issued'
  <2>1. \A h \in Grants : provider'[h].refresh <= provider'[h].access
        BY <1>3 DEF Issued
  <2>2. \A h \in Grants : provider'[h].good => provider'[h].refresh > 0
        BY <1>3 DEF Issued
  <2>3. \A h \in Grants : ~Known(h)' => provider'[h] = NoGrant
        BY <1>3 DEF Issued, Known
  <2>4. \A h, k \in Grants : h < k /\ Known(k)' => Known(h)'
    <3>1. SUFFICES ASSUME NEW h \in Grants, NEW k \in Grants, h < k, Known(k)'
                   PROVE  Known(h)'
          OBVIOUS
    <3>2. CASE k = g  BY <3>1, <3>2, <1>4
    <3>3. CASE k # g
      <4>1. Known(k)  BY <3>1, <3>3, <1>3 DEF Known
      <4> QED  BY <3>1, <4>1, <1>4 DEF Issued
    <3> QED  BY <3>2, <3>3
  <2> QED  BY <2>1, <2>2, <2>3, <2>4 DEF Issued
<1> QED  BY <1>2, <1>5, <1>6 DEF ProviderGoal

\* A step that does not reach the provider keeps what it has issued.
LEMMA ProviderRests ==
    ASSUME TypeOK, Issued, UNCHANGED provider
    PROVE  ProviderGoal
<1>1. \A g \in Grants : provider[g].refresh \in Int  BY DEF TypeOK
<1> QED  BY <1>1 DEF ProviderGoal, TypeOK, ProviderType, Issued, Known, Grows

\* A grant is as it was, but for one field
LEMMA ProviderFields ==
    ASSUME TypeOK, NEW g \in Grants
    PROVE  LET p == provider[g] IN
           /\ p \in [access : 0 .. MaxTokens, due : 0 .. MaxTokens,
                     refresh : 0 .. MaxTokens, good : BOOLEAN]
           /\ p.access \in 0 .. MaxTokens /\ p.refresh \in 0 .. MaxTokens
           /\ p.due \in 0 .. MaxTokens /\ p.good \in BOOLEAN
BY DEF TypeOK

\* The fields of a request have their types; its cookie names a grant or is none.
LEMMA CookieTypes ==
    ASSUME TypeOK, NEW q \in Requests
    PROVE  /\ requests[q] \in Request
           /\ requests[q].row \in Row
           /\ requests[q].cookie \in 0 .. MaxGrants
           /\ requests[q].cookie # 0 => requests[q].cookie \in Grants
<1>1. requests[q] \in Request  BY DEF TypeOK
<1>2. requests[q].cookie \in 0 .. MaxGrants /\ requests[q].row \in Row  BY <1>1 DEF Request
<1> QED  BY <1>1, <1>2, BoundsAreNaturals DEF Grants

\* The grants before an issued one are issued.
LEMMA EarlierKnown ==
    ASSUME TypeOK, Issued, NEW g \in Grants, Known(g)
    PROVE  \A h \in Grants : h < g => Known(h)
BY DEF Issued

\* In every step the provider's grants keep their types and only grow: no token is
\* issued twice and no refresh token comes back (exchangeCodeForTokens, RefreshToken,
\* revokeToken).
LEMMA ProviderStep ==
    ASSUME TypeOK, Issued, Stages, Cookies, [Next]_vars
    PROVE  ProviderGoal
<1>1. ASSUME NEW q \in Requests, Exchange(q), ~UNCHANGED provider PROVE ProviderGoal
  <2>1. PICK g \in Grants, row \in FirstTokens :
            /\ g = Cardinality({h \in Grants : provider[h] # NoGrant}) + 1
            /\ provider' = [provider EXCEPT ![g] = Granted(row)]
        BY <1>1 DEF Exchange
  <2>2. PICK r \in {0, 1} : row = [access |-> 1, refresh |-> r]
        BY DEF FirstTokens
  <2>3. /\ Granted(row) \in [access : 0 .. MaxTokens, due : 0 .. MaxTokens,
                             refresh : 0 .. MaxTokens, good : BOOLEAN]
        /\ Granted(row).refresh = r /\ Granted(row).access = 1
        /\ Granted(row).good => r = 1
    <3>1. Granted(row) = [access |-> 1, due |-> 0, refresh |-> r, good |-> r = 1]
          BY <2>2 DEF Granted
    <3>2. 1 \in 0 .. MaxTokens /\ 0 \in 0 .. MaxTokens /\ r \in 0 .. MaxTokens
          BY BoundsAreNaturals
    <3>3. PICK good \in BOOLEAN : good <=> r = 1
          OBVIOUS
    <3>4. Granted(row) = [access |-> 1, due |-> 0, refresh |-> r, good |-> good]
          BY <3>1, <3>3
    <3> QED  BY <3>2, <3>3, <3>4
  <2>4. ~Known(g) /\ \A h \in Grants : h < g => Known(h)
        BY <2>1, NextGrant
  <2>5. Grows(g)
        BY <2>4 DEF Grows
  <2>6. 1 > 0 /\ r <= 1 /\ (r = 1 => r > 0)
        OBVIOUS
  <2> DEFINE p == Granted(row)
  <2>7. p.refresh <= p.access /\ (p.good => p.refresh > 0) /\ p.access > 0
        BY <2>3, <2>6
  <2> HIDE DEF p
  <2>8. provider' = [provider EXCEPT ![g] = p]
        BY <2>1 DEF p
  <2>9. p \in [access : 0 .. MaxTokens, due : 0 .. MaxTokens,
               refresh : 0 .. MaxTokens, good : BOOLEAN]
        BY <2>3 DEF p
  <2> QED  BY <2>4, <2>5, <2>7, <2>8, <2>9, ProviderChanges
<1>2. ASSUME NEW g \in Grants, TokensExpire(g) PROVE ProviderGoal
  <2> DEFINE p == [provider[g] EXCEPT !.due = provider[g].access]
  <2>1. provider' = [provider EXCEPT ![g] = p]
        BY <1>2 DEF TokensExpire
  <2>2. p \in [access : 0 .. MaxTokens, due : 0 .. MaxTokens,
               refresh : 0 .. MaxTokens, good : BOOLEAN]
        /\ p.access = provider[g].access /\ p.refresh = provider[g].refresh
        /\ p.good = provider[g].good
        BY ProviderFields
  <2>3. Known(g)
        BY <1>2, ProviderFields DEF TokensExpire, Known
  <2>4. provider'[g] = p
        BY <2>1 DEF TypeOK
  <2>5. Grows(g)
        BY <2>2, <2>3, <2>4, ProviderFields DEF Grows, Known
  <2> HIDE DEF p
  <2> QED  BY <2>1, <2>2, <2>3, <2>5, ProviderChanges, EarlierKnown DEF Issued, Known
<1>3. ASSUME NEW g \in Grants, Known(g),
             provider' = [provider EXCEPT ![g].good = FALSE]
      PROVE  ProviderGoal
  <2> DEFINE p == [provider[g] EXCEPT !.good = FALSE]
  <2>1. provider' = [provider EXCEPT ![g] = p]
        BY <1>3
  <2>2. p \in [access : 0 .. MaxTokens, due : 0 .. MaxTokens,
               refresh : 0 .. MaxTokens, good : BOOLEAN]
        /\ p.access = provider[g].access /\ p.refresh = provider[g].refresh
        /\ p.good = FALSE
        BY ProviderFields
  <2>3. provider'[g] = p
        BY <2>1 DEF TypeOK
  <2>4. Grows(g)
        BY <1>3, <2>2, <2>3, ProviderFields DEF Grows, Known
  <2> HIDE DEF p
  <2> QED  BY <1>3, <2>1, <2>2, <2>4, ProviderChanges, EarlierKnown DEF Issued, Known
<1>4. ASSUME NEW g \in Grants, GrantEnds(g) PROVE ProviderGoal
  <2>1. Known(g)
        BY <1>4, ProviderFields DEF GrantEnds, Issued, Known
  <2> QED  BY <1>3, <1>4, <2>1 DEF GrantEnds
<1>5. ASSUME NEW q \in Requests, RevokeToken(q), ~UNCHANGED provider PROVE ProviderGoal
  <2>1. requests[q].cookie \in Grants /\ Known(requests[q].cookie)
        BY <1>5, CookieTypes DEF RevokeToken, Stages, Stage, Cookies
  <2> QED  BY <1>3, <1>5, <2>1 DEF RevokeToken
<1>6. ASSUME NEW q \in Requests, RefreshToken(q) PROVE ProviderGoal
  <2> DEFINE g == requests[q].cookie
  <2>1. g \in Grants /\ Known(g)
        BY <1>6, CookieTypes DEF RefreshToken, Stages, Stage, Cookies
  <2>2. PICK rotated \in {0, provider[g].refresh + 1} :
            provider' = [provider EXCEPT ![g].access = provider[g].access + 1,
                            ![g].refresh = IF rotated = 0 THEN @ ELSE rotated]
        BY <1>6 DEF RefreshToken
  <2>3. provider[g].good /\ provider[g].access + 1 <= MaxTokens
        BY <1>6 DEF RefreshToken
  <2> HIDE DEF g
  <2> DEFINE p == [provider[g] EXCEPT !.access = provider[g].access + 1,
                        !.refresh = IF rotated = 0 THEN @ ELSE rotated]
  <2>4. provider' = [provider EXCEPT ![g] = p]
        BY <2>1, <2>2 DEF TypeOK
  <2>5. /\ p.access = provider[g].access + 1
        /\ p.refresh = IF rotated = 0 THEN provider[g].refresh ELSE rotated
        /\ p.good = provider[g].good
        /\ p.due = provider[g].due
        BY <2>1, ProviderFields
  <2>6. /\ p.access \in 0 .. MaxTokens /\ p.refresh \in 0 .. MaxTokens
        /\ p.refresh <= p.access /\ p.refresh >= provider[g].refresh
        BY <2>1, <2>3, <2>5, ProviderFields, BoundsAreNaturals DEF Issued
  <2>7. p \in [access : 0 .. MaxTokens, due : 0 .. MaxTokens,
               refresh : 0 .. MaxTokens, good : BOOLEAN]
        BY <2>1, <2>5, <2>6, ProviderFields
  <2>8. provider'[g] = p
        BY <2>1, <2>4 DEF TypeOK
  <2>9. Grows(g)
        BY <2>1, <2>5, <2>6, <2>8, ProviderFields DEF Grows
  <2>10. p.good => p.refresh > 0
        BY <2>1, <2>5, <2>6, ProviderFields DEF Issued
  <2>11. p.access > 0
        BY <2>1, <2>5, ProviderFields
  <2> HIDE DEF p
  <2> QED  BY <2>1, <2>4, <2>6, <2>7, <2>9, <2>10, <2>11, ProviderChanges, EarlierKnown
<1>7. CASE UNCHANGED provider  BY <1>7, ProviderRests
<1> QED  BY <1>1, <1>2, <1>4, <1>5, <1>6, <1>7 DEF Next, vars, serverVars, NewChat, LoadPage,
         Login, CallbackRefused, SendMessage, ApproveAction, LoadWithPending, Callback, Logout,
         CreateSession, GetSession, RefreshFails, StoreTokens, DropSession, ForwardToAgent,
         DeleteSession, Restart

-----------------------------------------------------------------------------
(***************************************************************************)
(* What a step does to the requests: at most one of them moves on, and     *)
(* the others stay as they are, end, or lose their page.                   *)
(***************************************************************************)

\* The request r without its page
Lonely(r) == [requests[r] EXCEPT !.tab = None, !.msg = 0, !.conv = None]

Fades(r) ==
    \/ requests'[r] = requests[r]
    \/ requests'[r] = Done
    \/ /\ requests'[r] = Lonely(r)
       /\ requests[r].pc \notin {"unused", "done", "forward"}
       /\ requests[r].kind \notin {"none", "callback"}

Begins(q) ==
    /\ requests[q] = Unused
    /\ requests'[q] \in Request
    /\ requests'[q].tab \in Tabs
    /\ requests'[q].cookie = jar.session
    /\ requests'[q].row = NoRow
    /\ \/ requests'[q].kind \in {"send", "retry", "approve"} /\ requests'[q].pc = "get"
       \/ requests'[q].kind = "logout" /\ requests'[q].pc = "get" /\ jar.session # 0
       \/ requests'[q].kind = "callback" /\ requests'[q].pc = "exchange"
    /\ requests'[q].kind = "callback" => tabs[requests'[q].tab].view = "consent"
    /\ tabs'[requests'[q].tab].view = IF requests'[q].kind = "callback" THEN "callback" ELSE "chat"

\* A token has been found for the request, or it goes on without one
Proceeds(q) ==
    /\ requests[q].pc \in {"get", "store", "drop"}
    /\ requests[q].kind \in {"send", "retry", "approve"}
    /\ requests[q].tab # None
    /\ requests'[q] = [requests[q] EXCEPT !.pc = "forward", !.cookie = 0, !.row = NoRow,
                                          !.unanswered = FALSE]

LogsOut(q) ==
    /\ requests[q].kind = "logout"
    /\ \E label \in {"revoke", "delete"} : requests'[q] = [requests[q] EXCEPT !.pc = label]

FindsRow(q) ==
    /\ requests[q].pc = "get"
    /\ requests[q].kind \in {"send", "retry", "approve"}
    /\ requests[q].cookie # 0
    /\ sessions[requests[q].cookie] # None
    /\ LET row == sessions[requests[q].cookie] IN
       requests'[q] = [requests[q] EXCEPT !.row = row,
                            !.pc = IF row.refresh = 0 THEN "drop" ELSE "refresh"]

Refreshes(q) ==
    /\ RefreshToken(q)
    /\ \E access \in 0 .. MaxTokens, refresh \in 0 .. MaxTokens :
          /\ refresh \in {0, provider'[requests[q].cookie].refresh}
          /\ requests'[q] = [requests[q] EXCEPT !.pc = "store",
                                !.row = Refreshed(requests[q].row, access, refresh)]

Drops(q) ==
    /\ requests[q].pc = "refresh"
    /\ \/ requests'[q] = [requests[q] EXCEPT !.pc = "drop", !.unanswered = TRUE]
       \/ requests'[q] = [requests[q] EXCEPT !.pc = "drop"] /\ RefreshFails(q)
          /\ LET p == provider[requests[q].cookie] IN
             ~p.good \/ requests[q].row.refresh # p.refresh

Exchanged(q) ==
    /\ requests[q].pc = "exchange"
    /\ Exchange(q)
    /\ \E g \in Grants : \E row \in FirstTokens :
          /\ ~Known(g)
          /\ provider' = [provider EXCEPT ![g] = Granted(row)]
          /\ requests'[q] = [requests[q] EXCEPT !.pc = "create", !.cookie = g, !.row = row]

Moves(q) == \/ Begins(q) \/ Proceeds(q) \/ LogsOut(q) \/ FindsRow(q) \/ Refreshes(q)
            \/ Drops(q) \/ Exchanged(q)

RequestGoal ==
    /\ requests' = [r \in Requests |-> requests'[r]]
    /\ \/ \A r \in Requests : Fades(r)
       \/ \E q \in Requests : Moves(q) /\ \A r \in Requests \ {q} : Fades(r)

\* Without its page a request goes on alone, is over, or is as it was.
LEMMA Faded ==
    ASSUME TypeOK, Stages, NEW t \in Tabs, tabs[t].view # "callback"
    PROVE  /\ WithoutPage(t) = [r \in Requests |-> WithoutPage(t)[r]]
           /\ \A r \in Requests :
                \/ WithoutPage(t)[r] = requests[r]
                \/ WithoutPage(t)[r] = Done
                \/ /\ WithoutPage(t)[r] = Lonely(r)
                   /\ requests[r].pc \notin {"unused", "done", "forward"}
                   /\ requests[r].kind \notin {"none", "callback"}
<1>1. WithoutPage(t) = [r \in Requests |-> WithoutPage(t)[r]]
    BY DEF WithoutPage
<1>2. ASSUME NEW r \in Requests, requests[r].tab = t, requests[r].pc # "forward"
      PROVE  /\ requests[r].pc \notin {"unused", "done", "forward"}
             /\ requests[r].kind \notin {"none", "callback"}
  <2>1. t # None
        BY NoneIsNothing
  <2>2. requests[r].pc \notin {"unused", "done"}
        BY <1>2, <2>1 DEF Stages, Stage, Unused, Done
  <2>3. requests[r].kind # "none"
        BY <2>2 DEF Stages, Stage
  <2>4. requests[r].kind # "callback"
        BY <1>2, <2>1, <2>3 DEF TypeOK
  <2> QED  BY <1>2, <2>2, <2>3, <2>4
<1>3. ASSUME NEW r \in Requests
      PROVE  WithoutPage(t)[r] = IF requests[r].tab # t THEN requests[r]
                                 ELSE IF requests[r].pc = "forward" THEN Done ELSE Lonely(r)
    BY DEF WithoutPage, Lonely
<1> QED  BY <1>1, <1>2, <1>3

\* A step that changes one request by a move of the server.
LEMMA OneMoves ==
    ASSUME TypeOK, NEW q \in Requests, NEW new, requests' = [requests EXCEPT ![q] = new],
           new = Done \/ Moves(q)
    PROVE  RequestGoal
<1>1. /\ requests' = [r \in Requests |-> requests'[r]]
      /\ requests'[q] = new
      /\ \A r \in Requests \ {q} : requests'[r] = requests[r]
    BY DEF TypeOK
<1> QED  BY <1>1 DEF RequestGoal, Fades

\* A step that only takes the requests of one tab their page.
LEMMA AllFade ==
    ASSUME TypeOK, Stages, NEW t \in Tabs, tabs[t].view # "callback", requests' = WithoutPage(t)
    PROVE  RequestGoal
BY Faded DEF RequestGoal, Fades

\* A step that changes no request.
LEMMA NoneMoves == ASSUME TypeOK, UNCHANGED requests PROVE RequestGoal
BY DEF RequestGoal, Fades, TypeOK

\* A request is posted from a page
LEMMA Posted ==
    ASSUME TypeOK, NEW q \in Requests, NEW t \in Tabs, NEW pool,
           NEW kind \in {"send", "retry", "approve", "logout"},
           NEW msg \in 0 .. MaxMessages, NEW conv \in Requests \cup {None},
           Post(q, pool, NewRequest(kind, t, msg, conv)),
           kind = "logout" => jar.session # 0, tabs'[t].view = "chat",
           pool = [r \in Requests |-> pool[r]],
           \A r \in Requests :
                \/ pool[r] = requests[r]
                \/ pool[r] = Done
                \/ /\ pool[r] = Lonely(r)
                   /\ requests[r].pc \notin {"unused", "done", "forward"}
                   /\ requests[r].kind \notin {"none", "callback"}
    PROVE  RequestGoal
<1> DEFINE new == NewRequest(kind, t, msg, conv)
<1>1. /\ requests' = [r \in Requests |-> requests'[r]]
      /\ requests'[q] = new
      /\ \A r \in Requests \ {q} : requests'[r] = pool[r]
    BY DEF Post
<1>2. Begins(q)
  <2>1. requests[q] = Unused  BY DEF Post
  <2> QED  BY <1>1, <2>1, NewRequestType DEF Begins
<1> QED  BY <1>1, <1>2 DEF RequestGoal, Moves, Fades

\* The fields of a tab have their types.
LEMMA PageFields ==
    ASSUME TypeOK, NEW t \in Tabs
    PROVE  /\ tabs[t] \in Tab
           /\ tabs[t].conv \in Requests \cup {None}
           /\ tabs[t].boxes \subseteq Box
           /\ \A box \in tabs[t].boxes : box.msg \in 0 .. MaxMessages
                                         /\ box.conv \in Requests \cup {None}
           /\ tabs[t].pending # None =>
                /\ tabs[t].pending \in Pending
                /\ tabs[t].pending.msg \in 0 .. MaxMessages
                /\ tabs[t].pending.conv \in Requests \cup {None}
<1>1. tabs[t] \in Tab  BY DEF TypeOK
<1>2. tabs[t].boxes \subseteq Box /\ tabs[t].pending \in Pending \cup {None}
      /\ tabs[t].conv \in Requests \cup {None}
    BY <1>1 DEF Tab
<1>3. \A box \in Box : box.msg \in 0 .. MaxMessages /\ box.conv \in Requests \cup {None}
    BY DEF Box
<1>4. \A p \in Pending : p.msg \in 0 .. MaxMessages /\ p.conv \in Requests \cup {None}
    BY DEF Pending
<1> QED  BY <1>1, <1>2, <1>3, <1>4

\* Only messages, retries and approvals go through the places of GetBearerToken that
\* follow the lookup of the session.
LEMMA PlaceOf ==
    ASSUME TypeOK, Stages, NEW q \in Requests
    PROVE  /\ requests[q].kind \in {"none", "send", "retry", "approve", "logout", "callback"}
           /\ requests[q].pc \in {"get", "refresh", "store", "drop", "forward"} =>
                requests[q].kind \in {"send", "retry", "approve", "logout"}
           /\ requests[q].pc \in {"refresh", "store", "drop", "forward"} =>
                requests[q].kind \in {"send", "retry", "approve"}
<1>1. requests[q] \in Request  BY DEF TypeOK
<1>2. requests[q].kind \in {"none", "send", "retry", "approve", "logout", "callback"}
    BY <1>1 DEF Request
<1> QED  BY <1>2 DEF Stages, Stage

\* A request that GetBearerToken lets through is forwarded or answered.
LEMMA ProceedMoves ==
    ASSUME TypeOK, Stages, NEW q \in Requests, requests[q].pc \in {"get", "store", "drop"},
           requests[q].kind # "logout", Proceed(q)
    PROVE  RequestGoal
<1>1. requests[q].kind \in {"send", "retry", "approve"}
    BY PlaceOf
<1>2. CASE requests[q].tab = None
  <2>1. requests' = [requests EXCEPT ![q] = Done]  BY <1>2 DEF Proceed
  <2> QED  BY <2>1, OneMoves
<1>3. CASE requests[q].tab # None
  <2> DEFINE new == [requests[q] EXCEPT !.pc = "forward", !.cookie = 0, !.row = NoRow,
                                        !.unanswered = FALSE]
  <2>1. requests' = [requests EXCEPT ![q] = new]
        BY <1>3 DEF Proceed, TypeOK
  <2>2. requests'[q] = new
        BY <2>1 DEF TypeOK
  <2>3. Proceeds(q)
        BY <1>1, <1>3, <2>2 DEF Proceeds
  <2> HIDE DEF new
  <2> QED  BY <2>1, <2>3, OneMoves DEF Moves
<1> QED  BY <1>2, <1>3

\* Every step moves one request at most; the others are as they were, or without
\* their page.
LEMMA RequestStep ==
    ASSUME TypeOK, Issued, Stages, Leaving, Cookies, [Next]_vars
    PROVE  RequestGoal
<1> USE Zeros
<1>1. ASSUME NEW t \in Tabs, LoadPage(t) \/ Login(t) PROVE RequestGoal
  <2>1. tabs[t].view # "callback"
        BY <1>1 DEF LoadPage, Login, Leaving
  <2> QED  BY <1>1, <2>1, AllFade DEF LoadPage, Login
<1>2. ASSUME NEW t \in Tabs, NEW q \in Requests, SendMessage(t, q) PROVE RequestGoal
  <2>1. typed + 1 \in 0 .. MaxMessages
        BY <1>2, BoundsAreNaturals DEF SendMessage, TypeOK
  <2>2. Post(q, requests, NewRequest("send", t, typed + 1, tabs[t].conv))
        BY <1>2 DEF SendMessage
  <2>3. requests = [r \in Requests |-> requests[r]]
        BY DEF TypeOK
  <2>4. tabs'[t].view = "chat"
        BY <1>2, PageFields DEF SendMessage, TypeOK, Tab
  <2> QED  BY <2>1, <2>2, <2>3, <2>4, PageFields, Posted
<1>3. ASSUME NEW t \in Tabs, NEW q \in Requests, ApproveAction(t, q) PROVE RequestGoal
  <2>1. PICK box \in tabs[t].boxes :
            Post(q, requests, NewRequest("approve", t, box.msg, box.conv))
        BY <1>3 DEF ApproveAction
  <2>2. requests = [r \in Requests |-> requests[r]]
        BY DEF TypeOK
  <2>3. tabs'[t].view = "chat"
        BY <1>3, PageFields DEF ApproveAction, TypeOK, Tab
  <2> QED  BY <2>1, <2>2, <2>3, PageFields, Posted
<1>4. ASSUME NEW t \in Tabs, NEW q \in Requests, LoadWithPending(t, q) PROVE RequestGoal
  <2>1. tabs[t].view # "callback" /\ tabs[t].pending # None
        BY <1>4 DEF LoadWithPending
  <2>2. Post(q, WithoutPage(t), NewRequest("retry", t, tabs[t].pending.msg, tabs[t].pending.conv))
        BY <1>4 DEF LoadWithPending
  <2>3. tabs'[t].view = "chat"
        BY <1>4 DEF LoadWithPending, TypeOK, Loaded, FreshPage
  <2> QED  BY <2>1, <2>2, <2>3, PageFields, Faded, Posted
<1>5. ASSUME NEW t \in Tabs, NEW q \in Requests, Callback(t, q) PROVE RequestGoal
  <2> DEFINE old == NewRequest("callback", t, 0, None)
             new == [old EXCEPT !.pc = "exchange"]
  <2>1. requests' = [requests EXCEPT ![q] = new]
        BY <1>5 DEF Callback, Post
  <2>2. /\ old \in Request /\ old.kind = "callback" /\ old.tab = t
        /\ old.cookie = jar.session /\ old.row = NoRow
        BY NewRequestType
  <2> HIDE DEF old
  <2>3. /\ new \in Request /\ new.kind = "callback" /\ new.tab = t /\ new.pc = "exchange"
        /\ new.cookie = jar.session /\ new.row = NoRow
        BY <2>2 DEF Request
  <2>4. requests'[q] = new
        BY <2>1 DEF TypeOK
  <2>5. tabs[t].view = "consent" /\ tabs'[t].view = "callback" /\ requests[q] = Unused
        BY <1>5, PageFields DEF Callback, TypeOK, Tab, Post
  <2> HIDE DEF new
  <2>6. Begins(q)
        BY <2>3, <2>4, <2>5 DEF Begins
  <2> QED  BY <2>1, <2>6, OneMoves DEF Moves
<1>6. ASSUME NEW t \in Tabs, NEW q \in Requests, Logout(t, q) PROVE RequestGoal
  <2>1. tabs[t].view # "callback"
        BY <1>6 DEF Logout
  <2>2. CASE jar.session = 0
        BY <1>6, <2>1, <2>2, AllFade DEF Logout
  <2>3. CASE jar.session # 0
    <3>1. Post(q, requests, NewRequest("logout", t, 0, None))
          BY <1>6, <2>3 DEF Logout
    <3>2. requests = [r \in Requests |-> requests[r]]
          BY DEF TypeOK
    <3>3. tabs'[t].view = "chat"
          BY <1>6, <2>3, PageFields DEF Logout, TypeOK, Tab
    <3> QED  BY <2>3, <3>1, <3>2, <3>3, Posted
  <2> QED  BY <2>2, <2>3
<1>7. ASSUME NEW q \in Requests, Exchange(q) PROVE RequestGoal
  <2>1. CASE CallbackAnswered(q, jar.session)
        BY <2>1, OneMoves DEF CallbackAnswered
  <2>2. CASE ~CallbackAnswered(q, jar.session)
    <3>1. PICK g \in Grants, row \in FirstTokens :
              /\ g = Cardinality({h \in Grants : provider[h] # NoGrant}) + 1
              /\ provider' = [provider EXCEPT ![g] = Granted(row)]
              /\ requests' = [requests EXCEPT ![q].pc = "create", ![q].cookie = g,
                                              ![q].row = row]
          BY <1>7, <2>2 DEF Exchange
    <3> DEFINE new == [requests[q] EXCEPT !.pc = "create", !.cookie = g, !.row = row]
    <3>2. requests' = [requests EXCEPT ![q] = new]
          BY <3>1 DEF TypeOK
    <3>3. requests'[q] = new
          BY <3>2 DEF TypeOK
    <3>4. ~Known(g)
          BY <3>1, NextGrant
    <3>5. Exchanged(q)
          BY <1>7, <3>1, <3>3, <3>4 DEF Exchanged, Exchange
    <3> HIDE DEF new
    <3> QED  BY <3>2, <3>5, OneMoves DEF Moves
  <2> QED  BY <2>1, <2>2
<1>8. ASSUME NEW q \in Requests, CreateSession(q) PROVE RequestGoal
    BY <1>8, OneMoves DEF CreateSession, CallbackAnswered
<1>9. ASSUME NEW q \in Requests, GetSession(q) PROVE RequestGoal
  <2> DEFINE g == requests[q].cookie
             row == IF g = 0 THEN None ELSE sessions[g]
  <2>1. CASE requests[q].kind = "logout"
    <3>1. PICK label \in {"delete", "revoke"} : Goto(q, label)
          BY <1>9, <2>1 DEF GetSession
    <3> DEFINE new == [requests[q] EXCEPT !.pc = label]
    <3>2. requests' = [requests EXCEPT ![q] = new]
          BY <3>1 DEF Goto, TypeOK
    <3>3. requests'[q] = new
          BY <3>2 DEF TypeOK
    <3>4. LogsOut(q)
          BY <2>1, <3>3 DEF LogsOut
    <3> HIDE DEF new
    <3> QED  BY <3>2, <3>4, OneMoves DEF Moves
  <2>2. CASE requests[q].kind # "logout" /\ (row = None \/ ~IsExpired(g, row))
    <3>1. Proceed(q) /\ requests[q].pc = "get"
          BY <1>9, <2>2 DEF GetSession
    <3> QED  BY <2>2, <3>1, ProceedMoves
  <2>3. CASE requests[q].kind # "logout" /\ ~(row = None \/ ~IsExpired(g, row))
    <3>1. /\ requests[q].pc = "get"
          /\ GotoWith(q, IF row.refresh = 0 THEN "drop" ELSE "refresh", row)
          BY <1>9, <2>3 DEF GetSession
    <3>2. g # 0 /\ row = sessions[g] /\ row # None
          BY <2>3
    <3>3. requests[q].kind \in {"send", "retry", "approve"}
          BY <2>3, <3>1, PlaceOf
    <3> DEFINE new == [requests[q] EXCEPT !.row = row,
                            !.pc = IF row.refresh = 0 THEN "drop" ELSE "refresh"]
    <3>4. requests' = [requests EXCEPT ![q] = new]
          BY <3>1 DEF GotoWith, TypeOK
    <3>5. requests'[q] = new
          BY <3>4 DEF TypeOK
    <3>6. FindsRow(q)
          BY <3>1, <3>2, <3>3, <3>5 DEF FindsRow
    <3> HIDE DEF new
    <3> QED  BY <3>4, <3>6, OneMoves DEF Moves
  <2> QED  BY <2>1, <2>2, <2>3
<1>10. ASSUME NEW q \in Requests, RefreshToken(q) PROVE RequestGoal
  <2> DEFINE g == requests[q].cookie
             access == provider[g].access + 1
  <2>1. g \in Grants
        BY <1>10, CookieTypes DEF RefreshToken, Stages, Stage
  <2>2. PICK rotated \in {0, provider[g].refresh + 1}, lost \in BOOLEAN :
          /\ provider' = [provider EXCEPT ![g].access = access,
                                ![g].refresh = IF rotated = 0 THEN @ ELSE rotated]
          /\ IF lost
             THEN requests' = [requests EXCEPT ![q].pc = "drop", ![q].unanswered = TRUE]
             ELSE GotoWith(q, "store", Refreshed(requests[q].row, access, rotated))
        BY <1>10 DEF RefreshToken
  <2>3. CASE lost
    <3> DEFINE new == [requests[q] EXCEPT !.pc = "drop", !.unanswered = TRUE]
    <3>1. requests' = [requests EXCEPT ![q] = new]
          BY <2>2, <2>3 DEF TypeOK
    <3>2. requests'[q] = new
          BY <3>1 DEF TypeOK
    <3>3. Drops(q)
          BY <1>10, <3>2 DEF Drops, RefreshToken
    <3> HIDE DEF new
    <3> QED  BY <3>1, <3>3, OneMoves DEF Moves
  <2>4. CASE ~lost
    <3>1. access \in 0 .. MaxTokens /\ provider[g].refresh \in 0 .. MaxTokens
          /\ provider[g].refresh <= provider[g].access
          BY <1>10, <2>1, ProviderFields, BoundsAreNaturals DEF RefreshToken, Issued
    <3>2. rotated \in 0 .. MaxTokens
          BY <2>1, <3>1, ProviderFields, BoundsAreNaturals
    <3>3. rotated \in {0, provider'[g].refresh}
      <4>1. provider[g] \in [access : 0 .. MaxTokens, due : 0 .. MaxTokens,
                             refresh : 0 .. MaxTokens, good : BOOLEAN]
            BY <2>1, ProviderFields
      <4>2. CASE rotated = 0  BY <4>2
      <4>3. CASE rotated # 0
        <5>1. provider' = [provider EXCEPT ![g].access = access, ![g].refresh = rotated]
              BY <2>2, <4>3
        <5> QED  BY <2>1, <4>1, <5>1 DEF TypeOK
      <4> QED  BY <4>2, <4>3
    <3> DEFINE new == [requests[q] EXCEPT !.pc = "store",
                            !.row = Refreshed(requests[q].row, access, rotated)]
    <3>4. requests' = [requests EXCEPT ![q] = new]
          BY <2>2, <2>4 DEF TypeOK, GotoWith
    <3>5. requests'[q] = new
          BY <3>4 DEF TypeOK
    <3> HIDE DEF g, access
    <3>6. Refreshes(q)
          BY <1>10, <3>1, <3>2, <3>3, <3>5 DEF Refreshes, g
    <3> HIDE DEF new
    <3> QED  BY <3>4, <3>6, OneMoves DEF Moves
  <2> QED  BY <2>3, <2>4
<1>11. ASSUME NEW q \in Requests, RefreshFails(q) PROVE RequestGoal
  <2>1. CASE Goto(q, "drop")
             /\ (~provider[requests[q].cookie].good
                 \/ requests[q].row.refresh # provider[requests[q].cookie].refresh)
    <3> DEFINE new == [requests[q] EXCEPT !.pc = "drop"]
    <3>1. requests' = [requests EXCEPT ![q] = new]
          BY <2>1 DEF Goto, TypeOK
    <3>2. requests'[q] = new
          BY <3>1 DEF TypeOK
    <3>3. Drops(q)
          BY <1>11, <2>1, <3>2 DEF Drops, RefreshFails
    <3> HIDE DEF new
    <3> QED  BY <3>1, <3>3, OneMoves DEF Moves
  <2>2. CASE requests' = [requests EXCEPT ![q].pc = "drop", ![q].unanswered = TRUE]
    <3> DEFINE new == [requests[q] EXCEPT !.pc = "drop", !.unanswered = TRUE]
    <3>1. requests' = [requests EXCEPT ![q] = new]
          BY <2>2 DEF TypeOK
    <3>2. requests'[q] = new
          BY <3>1 DEF TypeOK
    <3>3. Drops(q)
          BY <1>11, <3>2 DEF Drops, RefreshFails
    <3> HIDE DEF new
    <3> QED  BY <3>1, <3>3, OneMoves DEF Moves
  <2> QED  BY <1>11, <2>1, <2>2 DEF RefreshFails
<1>12. ASSUME NEW q \in Requests, StoreTokens(q) \/ DropSession(q) PROVE RequestGoal
  <2>1. Proceed(q) /\ requests[q].pc \in {"store", "drop"}
        BY <1>12 DEF StoreTokens, DropSession
  <2> QED  BY <2>1, ProceedMoves, PlaceOf
<1>13. ASSUME NEW q \in Requests, ForwardToAgent(q) PROVE RequestGoal
    BY <1>13, OneMoves DEF ForwardToAgent, Received
<1>14. ASSUME NEW q \in Requests, RevokeToken(q) PROVE RequestGoal
  <2> DEFINE new == [requests[q] EXCEPT !.pc = "delete"]
  <2>1. requests' = [requests EXCEPT ![q] = new]
        BY <1>14 DEF RevokeToken, Goto, TypeOK
  <2>2. requests'[q] = new
        BY <2>1 DEF TypeOK
  <2>3. LogsOut(q)
        BY <1>14, <2>2 DEF LogsOut, RevokeToken, Stages, Stage
  <2> HIDE DEF new
  <2> QED  BY <2>1, <2>3, OneMoves DEF Moves
<1>15. ASSUME NEW q \in Requests, DeleteSession(q) PROVE RequestGoal
  <2> DEFINE t == requests[q].tab
  <2>1. LogoutAnswered(q)
        BY <1>15 DEF DeleteSession
  <2>2. CASE t # None /\ tabs[t].nav = "logout"
    <3>1. t \in Tabs
      <4>1. requests[q].tab \in Tabs \cup {None}  BY CookieTypes DEF Request
      <4> QED  BY <2>2, <4>1
    <3>2. tabs[t].view # "callback"
          BY <2>2, <3>1 DEF Leaving
    <3>3. requests' = [WithoutPage(t) EXCEPT ![q] = Done]
          BY <2>1, <2>2 DEF LogoutAnswered
    <3> QED  BY <3>1, <3>2, <3>3, Faded DEF RequestGoal, Fades
  <2>3. CASE ~(t # None /\ tabs[t].nav = "logout")
        BY <2>1, <2>3, OneMoves DEF LogoutAnswered
  <2> QED  BY <2>2, <2>3
<1>16. CASE Restart
  <2>1. requests' = [q \in Requests |-> IF InProgress(q) THEN Done ELSE requests[q]]
        BY <1>16 DEF Restart
  <2> QED  BY <2>1 DEF RequestGoal, Fades
<1>17. CASE UNCHANGED requests  BY <1>17, NoneMoves
<1> QED  BY <1>1, <1>2, <1>3, <1>4, <1>5, <1>6, <1>7, <1>8, <1>9, <1>10, <1>11, <1>12, <1>13,
         <1>14, <1>15, <1>16, <1>17 DEF Next, vars, NewChat, CallbackRefused, TokensExpire,
         GrantEnds

-----------------------------------------------------------------------------
(***************************************************************************)
(* The requests keep their types and their stages.                         *)
(***************************************************************************)

LEMMA FadedFields ==
    ASSUME TypeOK, Stages, NEW r \in Requests, Fades(r)
    PROVE  /\ requests'[r] \in Request
           /\ Stage(requests'[r])
           /\ requests'[r].cookie \in {0, requests[r].cookie}
           /\ requests'[r].kind \in {"none", requests[r].kind}
           /\ requests'[r].pc \in {"done", requests[r].pc}
           /\ requests'[r].kind = "callback" => requests'[r] = requests[r]
           /\ requests'[r].pc # "done" =>
                /\ requests'[r].cookie = requests[r].cookie
                /\ requests'[r].row = requests[r].row
                /\ requests'[r].unanswered = requests[r].unanswered
<1>1. CASE requests'[r] = requests[r]
    BY <1>1, CookieTypes DEF Stages
<1>2. CASE requests'[r] = Done
  <2>1. /\ Done.kind = "none" /\ Done.pc = "done" /\ Done.cookie = 0 /\ Done \in Request
        BY UnusedType DEF Done, Unused
  <2>2. Stage(Done)
        BY <2>1 DEF Stage
  <2> QED  BY <1>2, <2>1, <2>2
<1>3. CASE requests'[r] = Lonely(r) /\ requests[r].pc \notin {"unused", "done", "forward"}
           /\ requests[r].kind \notin {"none", "callback"}
  <2>1. requests[r] \in Request  BY CookieTypes
  <2>2. /\ Lonely(r) \in Request
        /\ Lonely(r).kind = requests[r].kind /\ Lonely(r).pc = requests[r].pc
        /\ Lonely(r).cookie = requests[r].cookie /\ Lonely(r).row = requests[r].row
        /\ Lonely(r).unanswered = requests[r].unanswered
        BY <2>1, Zeros DEF Lonely, Request
  <2>3. Stage(Lonely(r))
        BY <1>3, <2>2 DEF Stages, Stage
  <2> QED  BY <1>3, <2>2, <2>3
<1> QED  BY <1>1, <1>2, <1>3 DEF Fades

\* A request that moves keeps its type, and is at a place that its kind can be at.
LEMMA MovedFields ==
    ASSUME TypeOK, Stages, Cookies, NEW q \in Requests, Moves(q)
    PROVE  /\ requests'[q] \in Request
           /\ Stage(requests'[q])
           /\ \/ requests'[q].cookie \in {0, requests[q].cookie, jar.session}
              \/ Exchanged(q)
<1>1. requests[q] \in Request  BY CookieTypes
<1>2. CASE Begins(q)
  <2> DEFINE new == requests'[q]
  <2>1. new.tab # None  BY <1>2, NoneIsNothing DEF Begins
  <2>2. Stage(new)
        BY <1>2, <2>1 DEF Begins, Stage
  <2> QED  BY <1>2, <2>2 DEF Begins
<1>3. CASE Proceeds(q)
  <2> DEFINE new == requests'[q]
  <2>1. /\ new \in Request /\ new.kind = requests[q].kind /\ new.pc = "forward"
        /\ new.tab = requests[q].tab /\ new.cookie = 0
        BY <1>1, <1>3, Zeros DEF Proceeds, Request
  <2>2. Stage(new)
        BY <1>3, <2>1 DEF Proceeds, Stage
  <2> QED  BY <2>1, <2>2
<1>4. CASE LogsOut(q)
  <2> DEFINE new == requests'[q]
  <2>1. /\ new \in Request /\ new.kind = "logout" /\ new.pc \in {"revoke", "delete"}
        /\ new.cookie = requests[q].cookie
        BY <1>1, <1>4 DEF LogsOut, Request
  <2>2. requests[q].cookie # 0
        BY <1>4 DEF LogsOut, Stages, Stage
  <2>3. Stage(new)
        BY <2>1, <2>2 DEF Stage
  <2> QED  BY <2>1, <2>3
<1>5. CASE FindsRow(q)
  <2> DEFINE new == requests'[q]
             row == sessions[requests[q].cookie]
  <2>1. row \in Row
        BY <1>5, CookieTypes DEF FindsRow, TypeOK
  <2>2. /\ new \in Request /\ new.kind = requests[q].kind /\ new.pc \in {"refresh", "drop"}
        /\ new.cookie = requests[q].cookie
        BY <1>1, <1>5, <2>1 DEF FindsRow, Request
  <2>3. Stage(new)
        BY <1>5, <2>2 DEF FindsRow, Stage
  <2> QED  BY <2>2, <2>3
<1>6. CASE Refreshes(q)
  <2> DEFINE new == requests'[q]
  <2>1. PICK access \in 0 .. MaxTokens, refresh \in 0 .. MaxTokens :
            new = [requests[q] EXCEPT !.pc = "store",
                                      !.row = Refreshed(requests[q].row, access, refresh)]
        BY <1>6 DEF Refreshes
  <2>2. Refreshed(requests[q].row, access, refresh) \in Row
        BY CookieTypes DEF Refreshed, Row
  <2>3. /\ new \in Request /\ new.kind = requests[q].kind /\ new.pc = "store"
        /\ new.cookie = requests[q].cookie
        BY <1>1, <2>1, <2>2 DEF Request
  <2>4. requests[q].kind \in {"send", "retry", "approve"} /\ requests[q].cookie # 0
        BY <1>6, PlaceOf DEF Refreshes, RefreshToken, Stages, Stage
  <2>5. Stage(new)
        BY <2>3, <2>4 DEF Stage
  <2> QED  BY <2>3, <2>5
<1>7. CASE Drops(q)
  <2> DEFINE new == requests'[q]
  <2>1. /\ new \in Request /\ new.kind = requests[q].kind /\ new.pc = "drop"
        /\ new.cookie = requests[q].cookie
        BY <1>1, <1>7 DEF Drops, Request
  <2>2. requests[q].kind \in {"send", "retry", "approve"} /\ requests[q].cookie # 0
        BY <1>7, PlaceOf DEF Drops, Stages, Stage
  <2>3. Stage(new)
        BY <2>1, <2>2 DEF Stage
  <2> QED  BY <2>1, <2>3
<1>8. CASE Exchanged(q)
  <2> DEFINE new == requests'[q]
  <2>1. PICK g \in Grants, row \in FirstTokens :
            new = [requests[q] EXCEPT !.pc = "create", !.cookie = g, !.row = row]
        BY <1>8 DEF Exchanged
  <2>2. g \in 0 .. MaxGrants /\ g # 0
        BY BoundsAreNaturals DEF Grants
  <2>3. row \in Row
    <3>1. 0 \in 0 .. MaxTokens /\ 1 \in 0 .. MaxTokens  BY BoundsAreNaturals
    <3> QED  BY <3>1 DEF FirstTokens, Row
  <2>4. /\ new \in Request /\ new.kind = requests[q].kind /\ new.pc = "create"
        /\ new.cookie = g /\ new.tab = requests[q].tab
        BY <1>1, <2>1, <2>2, <2>3 DEF Request
  <2>5. requests[q].kind = "callback" /\ requests[q].tab # None
        BY <1>8 DEF Exchanged, Stages, Stage
  <2>6. Stage(new)
        BY <2>2, <2>4, <2>5 DEF Stage
  <2> QED  BY <1>8, <2>4, <2>6
<1> QED  BY <1>2, <1>3, <1>4, <1>5, <1>6, <1>7, <1>8 DEF Moves, Begins

\* Every step keeps the requests' types and their places.
LEMMA RequestTypes ==
    ASSUME TypeOK, Issued, Stages, Leaving, Cookies, [Next]_vars
    PROVE  requests' \in [Requests -> Request] /\ Stages'
<1>1. \A r \in Requests : requests'[r] \in Request /\ Stage(requests'[r])
    BY RequestStep, FadedFields, MovedFields DEF RequestGoal
<1> QED  BY <1>1, RequestStep DEF RequestGoal, Stages

\* A tab that waits for a callback starts no second one (authCallbackHandler).
LEMMA OneCallbackStep ==
    ASSUME TypeOK, Issued, Stages, Leaving, Cookies, OneCallback, [Next]_vars
    PROVE  OneCallback'
<1>1. SUFFICES ASSUME NEW q \in Requests, NEW r \in Requests, q # r,
                      requests'[q].kind = "callback", requests'[r].kind = "callback",
                      requests'[q].tab = requests'[r].tab
               PROVE  FALSE
    BY DEF OneCallback
<1>2. ASSUME NEW p \in Requests, Fades(p), requests'[p].kind = "callback"
      PROVE  requests'[p] = requests[p]
    BY <1>2, FadedFields
<1>3. ASSUME NEW p \in Requests, Exchanged(p)
      PROVE  requests[p].kind = "callback" /\ requests[p].tab = requests'[p].tab
  <2>1. requests[p] \in Request  BY CookieTypes
  <2> QED  BY <1>3, <2>1 DEF Exchanged, Stages, Stage, Request
<1>4. ASSUME NEW p \in Requests, Moves(p), requests'[p].kind = "callback"
      PROVE  Begins(p) \/ Exchanged(p)
  <2>1. requests[p] \in Request  BY CookieTypes
  <2>2. requests[p].pc \in {"get", "refresh", "store", "drop"} =>
            requests[p].kind # "callback"
        BY PlaceOf
  <2>3. ~Begins(p) /\ ~Exchanged(p) => requests'[p].kind = requests[p].kind
        BY <1>4, <2>1 DEF Moves, Proceeds, LogsOut, FindsRow, Refreshes, Drops, Request
  <2> QED  BY <1>4, <2>2, <2>3 DEF Moves, Proceeds, LogsOut, FindsRow, Refreshes, Drops,
           RefreshToken
<1>5. ASSUME NEW a \in Requests, NEW b \in Requests, a # b,
             requests'[a].kind = "callback", requests'[b].kind = "callback",
             requests'[a].tab = requests'[b].tab,
             Fades(a), Fades(b) \/ Moves(b)
      PROVE  FALSE
  <2>1. requests'[a] = requests[a]
        BY <1>2, <1>5
  <2>2. CASE Fades(b) \/ Exchanged(b)
    <3>1. requests[b].kind = "callback" /\ requests[b].tab = requests'[b].tab
          BY <1>2, <1>3, <1>5, <2>2
    <3>2. requests[a].kind = "callback" /\ requests[a].tab = requests[b].tab
          BY <1>5, <2>1, <3>1
    <3> QED  BY <1>5, <3>1, <3>2 DEF OneCallback
  <2>3. CASE Begins(b)
    <3>1. /\ requests[a].kind = "callback" /\ requests[a].tab # None
          /\ tabs[requests[a].tab].view = "consent"
          BY <1>5, <2>1, <2>3, NoneIsNothing DEF Begins
    <3>2. tabs[requests[a].tab].view = "callback"
          BY <3>1 DEF TypeOK
    <3> QED  BY <3>1, <3>2
  <2> QED  BY <1>4, <1>5, <2>2, <2>3
<1>6. \/ Fades(q) /\ (Fades(r) \/ Moves(r))
      \/ Fades(r) /\ (Fades(q) \/ Moves(q))
    BY <1>1, RequestStep DEF RequestGoal
<1> QED  BY <1>1, <1>5, <1>6

-----------------------------------------------------------------------------
(***************************************************************************)
(* The pages keep their types, and are the ones that await the requests.   *)
(***************************************************************************)

LEMMA TabEdits ==
    ASSUME NEW tab \in Tab
    PROVE  /\ \A b \in BOOLEAN : \A m \in 0 .. MaxMessages :
                /\ [tab EXCEPT !.sending = b, !.last = m] \in Tab
                /\ [tab EXCEPT !.sending = b, !.last = m].view = tab.view
                /\ [tab EXCEPT !.sending = b, !.last = m].nav = tab.nav
           /\ \A b \in BOOLEAN :
                /\ [tab EXCEPT !.sending = b] \in Tab
                /\ [tab EXCEPT !.sending = b].view = tab.view
                /\ [tab EXCEPT !.sending = b].nav = tab.nav
           /\ \A boxes \in SUBSET Box :
                /\ [tab EXCEPT !.boxes = boxes] \in Tab
                /\ [tab EXCEPT !.boxes = boxes].view = tab.view
                /\ [tab EXCEPT !.boxes = boxes].nav = tab.nav
           /\ [tab EXCEPT !.conv = None, !.boxes = {}] \in Tab
           /\ [tab EXCEPT !.conv = None, !.boxes = {}].view = tab.view
           /\ [tab EXCEPT !.conv = None, !.boxes = {}].nav = tab.nav
           /\ \A view \in {"elsewhere", "callback"} :
                /\ [tab EXCEPT !.view = view] \in Tab
                /\ [tab EXCEPT !.view = view].view = view
                /\ [tab EXCEPT !.view = view].nav = tab.nav
           /\ [tab EXCEPT !.nav = "logout"] \in Tab
           /\ [tab EXCEPT !.nav = "logout"].view = tab.view
BY Zeros DEF Tab

\* What a tab loads - the chat, the provider's consent page, another site - is a page
\* that is not about to be left.
LEMMA FreshPages ==
    ASSUME TypeOK, NEW tab \in Tab
    PROVE  /\ Loaded(tab) \in Tab
           /\ Loaded(tab).view = "chat" /\ Loaded(tab).nav = "none"
           /\ Loaded([tab EXCEPT !.pending = None]) \in Tab
           /\ Loaded([tab EXCEPT !.pending = None]).view = "chat"
           /\ Loaded([tab EXCEPT !.pending = None]).nav = "none"
           /\ \A n \in 0 .. MaxLogins :
                LET consent == [FreshPage EXCEPT !.view = "consent", !.state = n,
                                                 !.pending = tab.pending] IN
                consent \in Tab /\ consent.view = "consent" /\ consent.nav = "none"
           /\ LET gone == [FreshPage EXCEPT !.view = "elsewhere", !.pending = tab.pending] IN
              gone \in Tab /\ gone.view = "elsewhere" /\ gone.nav = "none"
<1>1. FreshPage \in Tab /\ FreshPage.view = "chat" /\ FreshPage.nav = "none"
    BY FreshPageType DEF FreshPage
<1>2. tab.pending \in Pending \cup {None}
    BY DEF Tab
<1>3. Authenticated \in BOOLEAN
    BY DEF Authenticated
<1>4. ASSUME NEW page \in Tab, NEW a \in BOOLEAN, NEW b \in BOOLEAN
      PROVE  /\ [page EXCEPT !.sending = a, !.button = b] \in Tab
             /\ [page EXCEPT !.sending = a, !.button = b].view = page.view
             /\ [page EXCEPT !.sending = a, !.button = b].nav = page.nav
    BY DEF Tab
<1>5. ASSUME NEW other PROVE
        /\ Loaded(other) \in Tab
        /\ Loaded(other).view = "chat" /\ Loaded(other).nav = "none"
  <2>1. (other.pending # None) \in BOOLEAN
        OBVIOUS
  <2>2. PICK b \in BOOLEAN : Loaded(other) =
            [FreshPage EXCEPT !.sending = b, !.button = Authenticated]
        BY <2>1 DEF Loaded
  <2> DEFINE page == [FreshPage EXCEPT !.sending = b, !.button = Authenticated]
  <2>3. page \in Tab /\ page.view = "chat" /\ page.nav = "none"
    <3>1. page \in Tab /\ page.view = FreshPage.view /\ page.nav = FreshPage.nav
      <4> HIDE DEF page
      <4>1. \A x \in Tab : \A a, c \in BOOLEAN :
                LET y == [x EXCEPT !.sending = a, !.button = c] IN
                y \in Tab /\ y.view = x.view /\ y.nav = x.nav
            BY <1>4
      <4> QED  BY <1>1, <1>3, <4>1 DEF page
    <3> QED  BY <1>1, <3>1
  <2> HIDE DEF page
  <2>4. Loaded(other) = page
        BY <2>2 DEF page
  <2> QED  BY <2>3, <2>4
<1>6. ASSUME NEW page \in Tab, NEW n \in 0 .. MaxLogins
      PROVE  LET consent == [page EXCEPT !.view = "consent", !.state = n,
                                         !.pending = tab.pending] IN
             consent \in Tab /\ consent.view = "consent" /\ consent.nav = page.nav
    BY <1>2 DEF Tab
<1>7. ASSUME NEW page \in Tab
      PROVE  LET gone == [page EXCEPT !.view = "elsewhere", !.pending = tab.pending] IN
             gone \in Tab /\ gone.view = "elsewhere" /\ gone.nav = page.nav
    BY <1>2 DEF Tab
<1> QED  BY <1>1, <1>5, <1>6, <1>7

\* What a page becomes with an answer
LEMMA AnsweredPage ==
    ASSUME NEW tab \in Tab, NEW request \in Request, NEW q \in Requests,
           NEW answer \in {"error", "text", "approval", "auth"}, request.conv \in Requests,
           NEW new, new = Rested(HandleResult(tab, q, request, answer), request, answer)
    PROVE  /\ new \in Tab
           /\ new.view = tab.view
           /\ new.nav \in {tab.nav, "login"}
<1> DEFINE seen == [tab EXCEPT !.conv = request.conv]
           page == HandleResult(tab, q, request, answer)
<1>1. page \in Tab  BY PageTypes
<1>2. seen \in Tab /\ seen.view = tab.view /\ seen.nav = tab.nav  BY DEF Tab
<1>3. HandleAuthRequired(seen, request).view = tab.view
      /\ HandleAuthRequired(seen, request).nav = "login"
  <2> HIDE DEF seen
  <2> QED  BY <1>2 DEF HandleAuthRequired, Tab
<1>4. \A boxes : [seen EXCEPT !.boxes = boxes].view = tab.view
                 /\ [seen EXCEPT !.boxes = boxes].nav = tab.nav
  <2> HIDE DEF seen
  <2> QED  BY <1>2 DEF Tab
<1>5. page.view = tab.view /\ page.nav \in {tab.nav, "login"}
    BY <1>2, <1>3, <1>4 DEF HandleResult
<1> HIDE DEF page
<1>6. Rested(page, request, answer) \in Tab /\ Rested(page, request, answer).view = page.view
      /\ Rested(page, request, answer).nav = page.nav
    BY <1>1, TabEdits DEF Rested
<1> QED  BY <1>5, <1>6 DEF page

TabGoal == tabs' \in [Tabs -> Tab] /\ Leaving'

\* A step that changes one tab, to a page that is not about to be left unless it is
\* the chat.
LEMMA OneTab ==
    ASSUME TypeOK, Leaving, NEW t \in Tabs, NEW new \in Tab,
           tabs' = [tabs EXCEPT ![t] = new], new.view # "chat" => new.nav = "none"
    PROVE  TabGoal
BY DEF TabGoal, TypeOK, Leaving

\* A step that changes no tab.
LEMMA SameTabs == ASSUME TypeOK, Leaving, UNCHANGED tabs PROVE TabGoal
BY DEF TabGoal, TypeOK, Leaving

\* A step in which a tab goes to another site.
LEMMA GoneTab ==
    ASSUME TypeOK, Leaving, NEW t \in Tabs, tabs' = [tabs EXCEPT ![t] = Gone(t)]
    PROVE  TabGoal
<1>1. Gone(t) \in Tab /\ Gone(t).nav = "none"
    BY FreshPages DEF Gone, TypeOK
<1> QED  BY <1>1, OneTab

\* The page of a request that is being answered
LEMMA AwaitingTab ==
    ASSUME TypeOK, Stages, NEW q \in Requests,
           requests[q].pc \in {"forward", "exchange", "create"}
    PROVE  /\ requests[q].tab \in Tabs
           /\ requests[q].pc = "forward" => tabs[requests[q].tab].view = "chat"
           /\ requests[q].pc # "forward" => tabs[requests[q].tab].view = "callback"
                                            /\ requests[q].kind = "callback"
<1>1. requests[q].tab \in Tabs \cup {None}  BY CookieTypes DEF Request
<1>2. requests[q].tab # None /\ requests[q].kind # "none"
      /\ (requests[q].kind = "callback" <=> requests[q].pc # "forward")
    BY DEF Stages, Stage
<1> QED  BY <1>1, <1>2 DEF TypeOK

\* The answer of the agent reaches the page that waits for it, a chat page.
LEMMA ForwardedPage ==
    ASSUME TypeOK, Stages, NEW q \in Requests, ForwardToAgent(q)
    PROVE  /\ requests[q].tab \in Tabs
           /\ tabs[requests[q].tab].view = "chat"
           /\ \E new \in Tab : /\ tabs' = [tabs EXCEPT ![requests[q].tab] = new]
                               /\ new.view = "chat"
<1>0. ASSUME NEW tab \in Tab, NEW r \in Request, r.conv \in Requests, NEW page,
             NEW reply \in {"error", "text", "approval", "auth"},
             page = Rested(HandleResult(tab, q, r, reply), r, reply)
      PROVE  page \in Tab /\ page.view = tab.view
    BY <1>0, AnsweredPage DEF Tab
<1> DEFINE t == requests[q].tab
           conv == IF requests[q].conv = None THEN q ELSE requests[q].conv
           request == [requests[q] EXCEPT !.conv = conv]
<1>1. t \in Tabs /\ tabs[t].view = "chat"
    BY AwaitingTab DEF ForwardToAgent
<1>2. /\ request \in Request /\ request.conv \in Requests /\ request.tab = t
  <2>1. requests[q] \in Request /\ requests[q].conv \in Requests \cup {None}
        BY CookieTypes DEF Request
  <2>2. conv \in Requests
        BY <2>1
  <2> HIDE DEF conv
  <2> QED  BY <2>1, <2>2 DEF Request
<1>3. PICK answer \in {"error", "text", "approval", "auth"} : Received(q, request, answer)
    BY DEF ForwardToAgent
<1> HIDE DEF request, t
<1> DEFINE old == tabs[t]
           new == Rested(HandleResult(old, q, request, answer), request, answer)
<1>4. new \in Tab /\ new.view = "chat"
  <2>1. old \in Tab /\ old.view = "chat"  BY <1>1, PageFields
  <2> HIDE DEF old
  <2>2. new = Rested(HandleResult(old, q, request, answer), request, answer)
        OBVIOUS
  <2> HIDE DEF new
  <2> QED  BY <1>0, <1>2, <2>1, <2>2 DEF Tab
<1>5. tabs' = [tabs EXCEPT ![t] = new]
    BY <1>2, <1>3 DEF Received, TypeOK
<1> HIDE DEF new
<1> QED  BY <1>1, <1>4, <1>5 DEF t

\* Every step keeps the tabs' types, and only a chat page is about to be left.
LEMMA TabStep ==
    ASSUME TypeOK, Issued, Stages, Leaving, Cookies, [Next]_vars
    PROVE  TabGoal
<1> USE Zeros
<1>1. ASSUME NEW t \in Tabs, NewChat(t) PROVE TabGoal
  <2> DEFINE new == [tabs[t] EXCEPT !.conv = None, !.boxes = {}]
  <2>1. new \in Tab /\ new.view = tabs[t].view /\ tabs[t].view = "chat"
        BY <1>1, PageFields, TabEdits DEF NewChat
  <2>2. tabs' = [tabs EXCEPT ![t] = new]
        BY <1>1 DEF NewChat, TypeOK
  <2> HIDE DEF new
  <2> QED  BY <2>1, <2>2, OneTab
<1>2. ASSUME NEW t \in Tabs, LoadPage(t) PROVE TabGoal
  <2> DEFINE new == Loaded([tabs[t] EXCEPT !.pending = None])
  <2>1. new \in Tab /\ new.view = "chat"
        BY PageFields, FreshPages
  <2>2. tabs' = [tabs EXCEPT ![t] = new]
        BY <1>2 DEF LoadPage, TypeOK
  <2> HIDE DEF new
  <2> QED  BY <2>1, <2>2, OneTab
<1>3. ASSUME NEW t \in Tabs, Login(t) PROVE TabGoal
  <2> DEFINE new == [FreshPage EXCEPT !.view = "consent", !.state = logins + 1,
                                      !.pending = tabs[t].pending]
  <2>1. logins + 1 \in 0 .. MaxLogins
        BY <1>3, BoundsAreNaturals DEF Login, TypeOK
  <2>2. new \in Tab /\ new.nav = "none"
    <3>1. tabs[t] \in Tab  BY PageFields
    <3>2. \A tab \in Tab : \A n \in 0 .. MaxLogins :
            LET consent == [FreshPage EXCEPT !.view = "consent", !.state = n,
                                             !.pending = tab.pending] IN
            consent \in Tab /\ consent.nav = "none"
          BY FreshPages
    <3> QED  BY <2>1, <3>1, <3>2
  <2>3. tabs' = [tabs EXCEPT ![t] = new]
        BY <1>3 DEF Login
  <2> HIDE DEF new
  <2> QED  BY <2>2, <2>3, OneTab
<1>4. ASSUME NEW t \in Tabs, NEW view \in {"elsewhere", "callback"},
             tabs[t].view = "consent", tabs' = [tabs EXCEPT ![t].view = view]
      PROVE  TabGoal
  <2> DEFINE new == [tabs[t] EXCEPT !.view = view]
  <2>1. new \in Tab /\ new.nav = "none"
    <3>1. tabs[t] \in Tab  BY PageFields
    <3>2. new \in Tab /\ new.nav = tabs[t].nav
          BY <3>1, TabEdits, ZenonT(40)
    <3>3. tabs[t].nav = "none"
          BY <1>4 DEF Leaving
    <3> QED  BY <3>2, <3>3
  <2>2. tabs' = [tabs EXCEPT ![t] = new]
        BY <1>4
  <2> HIDE DEF new
  <2> QED  BY <2>1, <2>2, OneTab
<1>5. ASSUME NEW t \in Tabs, CallbackRefused(t) \/ \E q \in Requests : Callback(t, q)
      PROVE  TabGoal
    BY <1>4, <1>5 DEF CallbackRefused, Callback
<1>6. ASSUME NEW t \in Tabs, NEW q \in Requests, SendMessage(t, q) PROVE TabGoal
  <2> DEFINE new == [tabs[t] EXCEPT !.sending = TRUE, !.last = typed + 1]
  <2>1. typed + 1 \in 0 .. MaxMessages
        BY <1>6, BoundsAreNaturals DEF SendMessage, TypeOK
  <2>2. new \in Tab /\ new.view = tabs[t].view /\ tabs[t].view = "chat"
        BY <1>6, <2>1, PageFields, TabEdits, ZenonT(40) DEF SendMessage
  <2>3. tabs' = [tabs EXCEPT ![t] = new]
        BY <1>6 DEF SendMessage, TypeOK
  <2> HIDE DEF new
  <2> QED  BY <2>2, <2>3, OneTab
<1>7. ASSUME NEW t \in Tabs, NEW q \in Requests, ApproveAction(t, q) PROVE TabGoal
  <2>1. PICK box \in tabs[t].boxes : tabs' = [tabs EXCEPT ![t].boxes = @ \ {box}]
        BY <1>7 DEF ApproveAction
  <2> DEFINE new == [tabs[t] EXCEPT !.boxes = tabs[t].boxes \ {box}]
  <2>2. tabs[t].boxes \ {box} \in SUBSET Box
        BY PageFields
  <2>3. new \in Tab /\ new.view = tabs[t].view /\ tabs[t].view = "chat"
        BY <1>7, <2>2, PageFields, TabEdits, ZenonT(40) DEF ApproveAction
  <2>4. tabs' = [tabs EXCEPT ![t] = new]
        BY <2>1 DEF TypeOK
  <2> HIDE DEF new
  <2> QED  BY <2>3, <2>4, OneTab
<1>8. ASSUME NEW t \in Tabs, NEW q \in Requests, LoadWithPending(t, q) PROVE TabGoal
  <2> DEFINE new == Loaded(tabs[t])
  <2>1. new \in Tab /\ new.view = "chat"
        BY PageFields, FreshPages
  <2>2. tabs' = [tabs EXCEPT ![t] = new]
        BY <1>8 DEF LoadWithPending, TypeOK
  <2> HIDE DEF new
  <2> QED  BY <2>1, <2>2, OneTab
<1>9. ASSUME NEW t \in Tabs, NEW q \in Requests, Logout(t, q) PROVE TabGoal
  <2>1. CASE tabs' = [tabs EXCEPT ![t] = Gone(t)]
        BY <2>1, GoneTab
  <2>2. CASE tabs' = [tabs EXCEPT ![t].nav = "logout"]
    <3> DEFINE new == [tabs[t] EXCEPT !.nav = "logout"]
    <3>1. new \in Tab /\ new.view = "chat"
          BY <1>9, PageFields, TabEdits DEF Logout
    <3>2. tabs' = [tabs EXCEPT ![t] = new]
          BY <2>2
    <3> HIDE DEF new
    <3> QED  BY <3>1, <3>2, OneTab
  <2> QED  BY <1>9, <2>1, <2>2 DEF Logout
<1>10. ASSUME NEW q \in Requests, Exchange(q) \/ CreateSession(q), ~UNCHANGED tabs
       PROVE  TabGoal
  <2>1. requests[q].tab \in Tabs
        BY <1>10, AwaitingTab DEF Exchange, CreateSession
  <2>2. tabs' = [tabs EXCEPT ![requests[q].tab] = Gone(requests[q].tab)]
        BY <1>10 DEF Exchange, CreateSession, CallbackAnswered
  <2> QED  BY <2>1, <2>2, GoneTab
<1>11. ASSUME NEW q \in Requests, ForwardToAgent(q) PROVE TabGoal
    BY <1>11, ForwardedPage, OneTab
<1>12. ASSUME NEW q \in Requests, DeleteSession(q) PROVE TabGoal
  <2>1. CASE requests[q].tab # None /\ tabs' = [tabs EXCEPT ![requests[q].tab] = Gone(requests[q].tab)]
    <3>1. requests[q].tab \in Tabs
      <4>1. requests[q].tab \in Tabs \cup {None}  BY CookieTypes DEF Request
      <4> QED  BY <2>1, <4>1
    <3> QED  BY <2>1, <3>1, GoneTab
  <2>2. CASE UNCHANGED tabs  BY <2>2, SameTabs
  <2> QED  BY <1>12, <2>1, <2>2 DEF DeleteSession, LogoutAnswered
<1>13. CASE Restart
  <2>1. tabs' = [t \in Tabs |->
                    IF tabs[t].view = "callback" \/ tabs[t].nav = "logout" THEN Gone(t)
                    ELSE [tabs[t] EXCEPT !.sending = FALSE]]
        BY <1>13 DEF Restart
  <2>2. ASSUME NEW t \in Tabs
        PROVE  /\ tabs'[t] \in Tab
               /\ tabs'[t].view # "chat" => tabs'[t].nav = "none"
    <3>1. Gone(t) \in Tab /\ Gone(t).nav = "none"
          BY PageFields, FreshPages DEF Gone
    <3>2. /\ [tabs[t] EXCEPT !.sending = FALSE] \in Tab
          /\ [tabs[t] EXCEPT !.sending = FALSE].view = tabs[t].view
          /\ [tabs[t] EXCEPT !.sending = FALSE].nav = tabs[t].nav
          BY PageFields, TabEdits
    <3>3. tabs[t].view # "chat" => tabs[t].nav = "none"
          BY DEF Leaving
    <3> QED  BY <2>1, <3>1, <3>2, <3>3
  <2> QED  BY <2>1, <2>2 DEF TabGoal, Leaving
<1>14. CASE UNCHANGED tabs  BY <1>14, SameTabs
<1> QED  BY <1>1, <1>2, <1>3, <1>5, <1>6, <1>7, <1>8, <1>9, <1>10, <1>11, <1>12, <1>13, <1>14
         DEF Next, vars, GetSession, RefreshToken, RefreshFails, StoreTokens, DropSession,
         RevokeToken, TokensExpire, GrantEnds

\* A page that shows something else has left nothing behind
LEMMA ViewStays ==
    ASSUME TypeOK, Issued, Stages, Leaving, Cookies, OneCallback, [Next]_vars,
           NEW r \in Requests, requests[r].kind # "none", requests[r].tab # None,
           requests'[r] # Done, requests'[r].tab # None
    PROVE  tabs'[requests[r].tab].view = tabs[requests[r].tab].view
<1> DEFINE t == requests[r].tab
<1>1. t \in Tabs
  <2>1. requests[r].tab \in Tabs \cup {None}  BY CookieTypes DEF Request
  <2> QED  BY <2>1
<1>2. tabs[t] \in Tab /\ tabs[t].view = IF requests[r].kind = "callback" THEN "callback" ELSE "chat"
    BY <1>1, PageFields DEF TypeOK
<1>3. WithoutPage(t)[r] = Done \/ WithoutPage(t)[r].tab = None
  <2>1. Lonely(r).tab = None  BY CookieTypes DEF Lonely, Request
  <2> QED  BY <2>1 DEF WithoutPage, Lonely
<1>4. \A s \in Tabs \ {t} : \A new : [tabs EXCEPT ![s] = new][t] = tabs[t]
    BY <1>1 DEF TypeOK
\* only the tab s changes, and leaves nothing behind
<1>5. ASSUME NEW s \in Tabs, NEW new, tabs' = [tabs EXCEPT ![s] = new],
             s = t => requests' = WithoutPage(t)
      PROVE  tabs'[t].view = tabs[t].view
    BY <1>3, <1>4, <1>5
\* only the tab s changes, and not what it shows
<1>6. ASSUME NEW s \in Tabs, NEW new, tabs' = [tabs EXCEPT ![s] = new],
             new.view = tabs[s].view
      PROVE  tabs'[t].view = tabs[t].view
    BY <1>1, <1>6 DEF TypeOK
<1>7. ASSUME NEW s \in Tabs, LoadPage(s) \/ Login(s) PROVE tabs'[t].view = tabs[t].view
    BY <1>5, <1>7 DEF LoadPage, Login
<1>8. ASSUME NEW s \in Tabs, NewChat(s) PROVE tabs'[t].view = tabs[t].view
  <2> DEFINE new == [tabs[s] EXCEPT !.conv = None, !.boxes = {}]
  <2>1. new.view = tabs[s].view
        BY PageFields, TabEdits
  <2>2. tabs' = [tabs EXCEPT ![s] = new]
        BY <1>8 DEF NewChat, TypeOK
  <2> HIDE DEF new, t
  <2> QED  BY <2>1, <2>2, <1>6
<1>9. ASSUME NEW s \in Tabs, CallbackRefused(s) \/ \E q \in Requests : Callback(s, q)
      PROVE  tabs'[t].view = tabs[t].view
  <2>1. s # t
        BY <1>2, <1>9 DEF CallbackRefused, Callback
  <2> QED  BY <1>1, <1>9, <2>1 DEF CallbackRefused, Callback, TypeOK
<1>10. ASSUME NEW s \in Tabs, NEW q \in Requests, SendMessage(s, q)
       PROVE  tabs'[t].view = tabs[t].view
  <2>1. tabs'[t].view = tabs[t].view
        BY <1>1, <1>2, <1>10, PageFields DEF SendMessage, TypeOK, Tab
  <2> QED  BY <2>1
<1>11. ASSUME NEW s \in Tabs, NEW q \in Requests, ApproveAction(s, q)
       PROVE  tabs'[t].view = tabs[t].view
    BY <1>1, <1>2, <1>11, PageFields DEF ApproveAction, TypeOK, Tab
<1>12. ASSUME NEW s \in Tabs, NEW q \in Requests, LoadWithPending(s, q)
       PROVE  tabs'[t].view = tabs[t].view
  <2>1. CASE s = t
    <3>1. Post(q, WithoutPage(t), NewRequest("retry", t, tabs[t].pending.msg, tabs[t].pending.conv))
          BY <1>12, <2>1 DEF LoadWithPending
    <3>2. r # q
      <4>1. requests[q] = Unused  BY <3>1 DEF Post
      <4>2. Unused.kind = "none"  BY DEF Unused
      <4> QED  BY <4>1, <4>2
    <3>3. requests'[r] = WithoutPage(t)[r]
          BY <3>1, <3>2 DEF Post, WithoutPage
    <3> QED  BY <1>3, <3>3
  <2>2. CASE s # t
    <3>1. tabs' = [tabs EXCEPT ![s] = Loaded(@)]
          BY <1>12 DEF LoadWithPending
    <3> QED  BY <1>1, <2>2, <3>1 DEF TypeOK
  <2> QED  BY <2>1, <2>2
<1>13. ASSUME NEW s \in Tabs, NEW q \in Requests, Logout(s, q)
       PROVE  tabs'[t].view = tabs[t].view
  <2>1. CASE jar.session = 0
        BY <1>5, <1>13, <2>1 DEF Logout
  <2>2. CASE jar.session # 0
        BY <1>1, <1>2, <1>13, <2>2, PageFields DEF Logout, TypeOK, Tab
  <2> QED  BY <2>1, <2>2
<1>14. ASSUME NEW q \in Requests, Exchange(q) \/ CreateSession(q), ~UNCHANGED tabs
       PROVE  tabs'[t].view = tabs[t].view
  <2> DEFINE s == requests[q].tab
  <2>1. s \in Tabs /\ requests[q].kind = "callback" /\ tabs[s].view = "callback"
        BY <1>14, AwaitingTab DEF Exchange, CreateSession
  <2>2. tabs' = [tabs EXCEPT ![s] = Gone(s)] /\ requests' = [requests EXCEPT ![q] = Done]
        BY <1>14 DEF Exchange, CreateSession, CallbackAnswered
  <2>3. r # q
        BY <2>2 DEF TypeOK
  <2>4. s # t
        BY <1>2, <2>1, <2>3 DEF OneCallback
  <2> HIDE DEF s
  <2> QED  BY <1>4, <2>1, <2>2, <2>4
<1>15. ASSUME NEW q \in Requests, ForwardToAgent(q) PROVE tabs'[t].view = tabs[t].view
  <2>1. PICK new \in Tab : /\ requests[q].tab \in Tabs
                           /\ tabs' = [tabs EXCEPT ![requests[q].tab] = new]
                           /\ new.view = tabs[requests[q].tab].view
        BY <1>15, ForwardedPage
  <2> HIDE DEF t
  <2> QED  BY <2>1, <1>6
<1>16. ASSUME NEW q \in Requests, DeleteSession(q), ~UNCHANGED tabs
       PROVE  tabs'[t].view = tabs[t].view
  <2> DEFINE s == requests[q].tab
  <2>1. /\ s # None
        /\ tabs' = [tabs EXCEPT ![s] = Gone(s)]
        /\ requests' = [WithoutPage(s) EXCEPT ![q] = Done]
        BY <1>16 DEF DeleteSession, LogoutAnswered
  <2>2. requests'[r] = WithoutPage(s)[r]
        BY <2>1 DEF WithoutPage
  <2>3. s # t
        BY <1>3, <2>2
  <2> QED  BY <1>1, <2>1, <2>3 DEF TypeOK
<1>17. ASSUME Restart PROVE tabs'[t].view = tabs[t].view
  <2>1. requests'[r] = IF InProgress(r) THEN Done ELSE requests[r]
        BY <1>17 DEF Restart
  <2>2. InProgress(r)
        BY DEF InProgress, Stages, Stage
  <2> QED  BY <2>1, <2>2
<1>18. ASSUME UNCHANGED tabs PROVE tabs'[t].view = tabs[t].view
    BY <1>18
<1> HIDE DEF t
<1>19. tabs'[t].view = tabs[t].view
    BY <1>7, <1>8, <1>9, <1>10, <1>11, <1>12, <1>13, <1>14, <1>15, <1>16, <1>17, <1>18
    DEF Next, vars, GetSession, RefreshToken, RefreshFails, StoreTokens, DropSession,
        RevokeToken, TokensExpire, GrantEnds
<1> QED  BY <1>19 DEF t

\* Every step keeps the page of a request: a chat page, or the callback's own.
LEMMA AwaitedStep ==
    ASSUME TypeOK, Issued, Stages, Leaving, Cookies, OneCallback, [Next]_vars
    PROVE  \A q \in Requests : requests'[q].kind # "none" /\ requests'[q].tab # None =>
              tabs'[requests'[q].tab].view =
                  IF requests'[q].kind = "callback" THEN "callback" ELSE "chat"
<1> SUFFICES ASSUME NEW q \in Requests, requests'[q].kind # "none", requests'[q].tab # None
             PROVE  tabs'[requests'[q].tab].view =
                        IF requests'[q].kind = "callback" THEN "callback" ELSE "chat"
    OBVIOUS
<1>1. CASE Begins(q)  BY <1>1 DEF Begins
<1>2. CASE ~Begins(q)
  <2>1. requests[q] \in Request
        BY CookieTypes
  <2>2. Done.kind = "none"
        BY DEF Done, Unused
  <2>3. requests'[q].kind = requests[q].kind /\ requests'[q].tab = requests[q].tab
    <3>1. CASE Fades(q)
      <4>1. Lonely(q).tab = None  BY <2>1 DEF Lonely, Request
      <4> QED  BY <2>2, <3>1, <4>1 DEF Fades
    <3>2. CASE Moves(q)
          BY <1>2, <2>1, <3>2 DEF Moves, Proceeds, LogsOut, FindsRow, Refreshes, Drops,
             Exchanged, Request
    <3> QED  BY <3>1, <3>2, RequestStep DEF RequestGoal
  <2>4. tabs'[requests[q].tab].view = tabs[requests[q].tab].view
        BY <2>2, <2>3, ViewStays
  <2> QED  BY <2>3, <2>4 DEF TypeOK
<1> QED  BY <1>1, <1>2

-----------------------------------------------------------------------------
(***************************************************************************)
(* What a step does to the sessions, the cookie and the logouts.           *)
(***************************************************************************)

SessionMoves(g) ==
    \/ sessions'[g] = sessions[g]
    \/ /\ sessions'[g] = None
       /\ \E q \in Requests : requests[q].cookie = g /\ requests[q].pc \in {"drop", "delete"}
    \/ \E q \in Requests : /\ requests[q].cookie = g /\ requests[q].pc = "create"
                           /\ CreateSession(q)
                           /\ sessions'[g] = requests[q].row
    \/ \E q \in Requests : /\ requests[q].cookie = g /\ requests[q].pc = "store"
                           /\ sessions[g] # None
                           /\ sessions'[g] = requests[q].row

LogoutMoves == \A g \in loggedOut' :
    \/ g \in loggedOut
    \/ \E q \in Requests : /\ requests[q].pc = "delete" /\ requests[q].cookie = g
                           /\ sessions'[g] = None

JarMoves ==
    \/ jar'.session \in {jar.session, 0}
    \/ \E q \in Requests : CreateSession(q) /\ jar'.session = requests[q].cookie

SessionGoal ==
    /\ sessions' = [g \in Grants |-> sessions'[g]]
    /\ \A g \in Grants : SessionMoves(g)
    /\ LogoutMoves
    /\ JarMoves

\* One session changes
LEMMA OneSession ==
    ASSUME TypeOK, NEW q \in Requests, requests[q].cookie \in Grants, NEW row,
           sessions' = [sessions EXCEPT ![requests[q].cookie] = row],
           SessionMoves(requests[q].cookie)
    PROVE  /\ sessions' = [g \in Grants |-> sessions'[g]]
           /\ \A g \in Grants : SessionMoves(g)
<1>1. \A g \in Grants : g # requests[q].cookie => sessions'[g] = sessions[g]
    BY DEF TypeOK
<1>2. \A g \in Grants : g # requests[q].cookie => SessionMoves(g)
    BY <1>1 DEF SessionMoves
<1> QED  BY <1>2 DEF TypeOK

\* A step that does not reach the session store.
LEMMA SameSessions ==
    ASSUME TypeOK, UNCHANGED sessions
    PROVE  /\ sessions' = [g \in Grants |-> sessions'[g]]
           /\ \A g \in Grants : SessionMoves(g)
BY DEF TypeOK, SessionMoves

\* In every step a session is as it was, or is created, updated or deleted by the
\* request at that place (SessionStore.Create, Update, Delete).
LEMMA SessionStep ==
    ASSUME TypeOK, Issued, Stages, Leaving, Cookies, [Next]_vars
    PROVE  SessionGoal
<1>1. ASSUME NEW q \in Requests, requests[q].pc \in {"create", "store", "drop", "delete"}
      PROVE  /\ requests[q].cookie \in Grants
             /\ \A row : [sessions EXCEPT ![requests[q].cookie] = row][requests[q].cookie] = row
  <2>1. requests[q].cookie \in Grants
        BY <1>1, CookieTypes DEF Stages, Stage
  <2> QED  BY <2>1 DEF TypeOK
<1>2. ASSUME NEW q \in Requests, CreateSession(q) PROVE SessionGoal
  <2>1. JarMoves /\ LogoutMoves
        BY <1>2 DEF CreateSession, CallbackAnswered, JarMoves, LogoutMoves
  <2>2. CASE sessions' = [sessions EXCEPT ![requests[q].cookie] = requests[q].row]
    <3>1. SessionMoves(requests[q].cookie)
          BY <1>1, <1>2, <2>2 DEF SessionMoves, CreateSession
    <3> QED  BY <1>1, <1>2, <2>1, <2>2, <3>1, OneSession DEF SessionGoal, CreateSession
  <2>3. CASE UNCHANGED sessions
        BY <2>1, <2>3, SameSessions DEF SessionGoal
  <2> QED  BY <1>2, <2>2, <2>3 DEF CreateSession
<1>3. ASSUME NEW q \in Requests, StoreTokens(q) PROVE SessionGoal
  <2>1. JarMoves /\ LogoutMoves
        BY <1>3 DEF StoreTokens, JarMoves, LogoutMoves
  <2>2. CASE sessions' = [sessions EXCEPT ![requests[q].cookie] = requests[q].row]
             /\ sessions[requests[q].cookie] # None
    <3>1. SessionMoves(requests[q].cookie)
          BY <1>1, <1>3, <2>2 DEF SessionMoves, StoreTokens
    <3> QED  BY <1>1, <1>3, <2>1, <2>2, <3>1, OneSession DEF SessionGoal, StoreTokens
  <2>3. CASE UNCHANGED sessions
        BY <2>1, <2>3, SameSessions DEF SessionGoal
  <2> QED  BY <1>3, <2>2, <2>3 DEF StoreTokens, Updated
<1>4. ASSUME NEW q \in Requests, DropSession(q) PROVE SessionGoal
  <2>1. JarMoves /\ LogoutMoves
        BY <1>4 DEF DropSession, JarMoves, LogoutMoves
  <2>2. CASE sessions' = [sessions EXCEPT ![requests[q].cookie] = None]
    <3>1. SessionMoves(requests[q].cookie)
          BY <1>1, <1>4, <2>2 DEF SessionMoves, DropSession
    <3> QED  BY <1>1, <1>4, <2>1, <2>2, <3>1, OneSession DEF SessionGoal, DropSession
  <2>3. CASE UNCHANGED sessions
        BY <2>1, <2>3, SameSessions DEF SessionGoal
  <2> QED  BY <1>4, <2>2, <2>3 DEF DropSession
<1>5. ASSUME NEW q \in Requests, DeleteSession(q) PROVE SessionGoal
  <2>1. JarMoves
    <3>1. CASE jar' = [jar EXCEPT !.session = 0]
          BY <3>1 DEF JarMoves, TypeOK
    <3>2. CASE UNCHANGED jar
          BY <3>2 DEF JarMoves
    <3> QED  BY <1>5, <3>1, <3>2 DEF DeleteSession, LogoutAnswered
  <2>2. CASE /\ sessions' = [sessions EXCEPT ![requests[q].cookie] = None]
             /\ loggedOut' = loggedOut \cup {requests[q].cookie}
    <3>1. SessionMoves(requests[q].cookie)
          BY <1>1, <1>5, <2>2 DEF SessionMoves, DeleteSession
    <3>2. LogoutMoves
          BY <1>1, <1>5, <2>2 DEF LogoutMoves, DeleteSession
    <3> QED  BY <1>1, <1>5, <2>1, <2>2, <3>1, <3>2, OneSession DEF SessionGoal, DeleteSession
  <2>3. CASE UNCHANGED <<sessions, loggedOut>>
        BY <2>1, <2>3, SameSessions DEF SessionGoal, LogoutMoves
  <2> QED  BY <1>5, <2>2, <2>3 DEF DeleteSession
<1>6. ASSUME UNCHANGED <<sessions, loggedOut>>, jar'.session = jar.session
      PROVE  SessionGoal
    BY <1>6, SameSessions DEF SessionGoal, LogoutMoves, JarMoves
<1>7. ASSUME NEW q \in Requests, Exchange(q) PROVE SessionGoal
  <2>1. CASE jar' = [session |-> jar.session, state |-> 0]
        BY <1>6, <1>7, <2>1 DEF Exchange
  <2>2. CASE UNCHANGED jar
        BY <1>6, <1>7, <2>2 DEF Exchange
  <2> QED  BY <1>7, <2>1, <2>2 DEF Exchange, CallbackAnswered
<1>8. ASSUME NEW t \in Tabs, Login(t) \/ CallbackRefused(t) PROVE SessionGoal
  <2>1. jar'.session = jar.session
        BY <1>8 DEF Login, CallbackRefused, TypeOK
  <2> QED  BY <1>6, <1>8, <2>1 DEF Login, CallbackRefused, serverVars
<1>9. CASE UNCHANGED <<sessions, loggedOut, jar>>
    BY <1>6, <1>9
<1> QED  BY <1>2, <1>3, <1>4, <1>5, <1>7, <1>8, <1>9 DEF Next, vars, serverVars, NewChat,
         LoadPage, SendMessage, ApproveAction, LoadWithPending, Callback, Logout, GetSession,
         RefreshToken, RefreshFails, ForwardToAgent, RevokeToken, TokensExpire, GrantEnds,
         Restart

\* The counters and the rest
LEMMA OtherTypes ==
    ASSUME TypeOK, Issued, Stages, Leaving, Cookies, [Next]_vars
    PROVE  /\ jar' \in [session : 0 .. MaxGrants, state : 0 .. MaxLogins]
           /\ logins' \in 0 .. MaxLogins
           /\ typed' \in 0 .. MaxMessages
           /\ faults' \in 0 .. MaxFaults
           /\ posted' \in [Messages -> Nat]
           /\ loggedOut' \subseteq Grants
           /\ sessions' \in [Grants -> Row \cup {None}]
<1>1. sessions' \in [Grants -> Row \cup {None}]
  <2>1. \A g \in Grants : sessions'[g] \in Row \cup {None}
        BY SessionStep, CookieTypes DEF SessionGoal, SessionMoves, TypeOK
  <2> QED  BY <2>1, SessionStep DEF SessionGoal
<1>2. loggedOut' \subseteq Grants
  <2>1. \A q \in Requests : requests[q].pc = "delete" => requests[q].cookie \in Grants
        BY CookieTypes DEF Stages, Stage
  <2> QED  BY <2>1, SessionStep DEF SessionGoal, LogoutMoves, TypeOK
<1>3. logins' \in 0 .. MaxLogins
  <2>1. ASSUME NEW t \in Tabs, Login(t) PROVE logins' \in 0 .. MaxLogins
        BY <2>1, BoundsAreNaturals DEF Login, TypeOK
  <2>2. CASE UNCHANGED logins  BY <2>2 DEF TypeOK
  <2> QED  BY <2>1, <2>2 DEF Next, vars, boundVars, NewChat, LoadPage, CallbackRefused,
           SendMessage, ApproveAction, LoadWithPending, Callback, Logout, Exchange,
           CreateSession, GetSession, RefreshToken, RefreshFails, StoreTokens, DropSession,
           ForwardToAgent, RevokeToken, DeleteSession, TokensExpire, GrantEnds, Restart
<1>4. typed' \in 0 .. MaxMessages
  <2>1. ASSUME NEW t \in Tabs, NEW q \in Requests, SendMessage(t, q)
        PROVE  typed' \in 0 .. MaxMessages
        BY <2>1, BoundsAreNaturals DEF SendMessage, TypeOK
  <2>2. CASE UNCHANGED typed  BY <2>2 DEF TypeOK
  <2> QED  BY <2>1, <2>2 DEF Next, vars, boundVars, NewChat, LoadPage, CallbackRefused,
           Login, ApproveAction, LoadWithPending, Callback, Logout, Exchange,
           CreateSession, GetSession, RefreshToken, RefreshFails, StoreTokens, DropSession,
           ForwardToAgent, RevokeToken, DeleteSession, TokensExpire, GrantEnds, Restart
<1>5. faults' \in 0 .. MaxFaults
  <2>1. ASSUME Fault PROVE faults' \in 0 .. MaxFaults
        BY <2>1, BoundsAreNaturals DEF Fault, TypeOK
  <2>2. CASE UNCHANGED faults  BY <2>2 DEF TypeOK
  <2> QED  BY <2>1, <2>2, ZenonT(40) DEF Next, vars, boundVars, NewChat, LoadPage, CallbackRefused,
           Login, SendMessage, ApproveAction, LoadWithPending, Callback, Logout, Exchange,
           CreateSession, GetSession, RefreshToken, RefreshFails, StoreTokens, DropSession,
           ForwardToAgent, RevokeToken, DeleteSession, TokensExpire, GrantEnds, Restart
<1>6. posted' \in [Messages -> Nat]
  <2>1. ASSUME NEW request,
               posted' = [m \in Messages |->
                            IF m = request.msg /\ request.kind \in {"send", "retry"}
                            THEN posted[m] + 1 ELSE posted[m]]
        PROVE  posted' \in [Messages -> Nat]
    <3>1. \A m \in Messages : posted[m] \in Nat /\ posted[m] + 1 \in Nat  BY DEF TypeOK
    <3> QED  BY <2>1, <3>1
  <2>2. CASE UNCHANGED posted  BY <2>2 DEF TypeOK
  <2>3. ASSUME NEW q, NEW pool, NEW request, Post(q, pool, request)
        PROVE  posted' \in [Messages -> Nat]
        BY <2>1, <2>3 DEF Post
  <2> QED  BY <2>2, <2>3, ZenonT(40) DEF Next, vars, NewChat, LoadPage, CallbackRefused,
           Login, SendMessage, ApproveAction, LoadWithPending, Callback, Logout, Exchange,
           CreateSession, GetSession, RefreshToken, RefreshFails, StoreTokens, DropSession,
           ForwardToAgent, RevokeToken, DeleteSession, TokensExpire, GrantEnds, Restart
<1>7. jar' \in [session : 0 .. MaxGrants, state : 0 .. MaxLogins]
  <2>1. jar'.session \in 0 .. MaxGrants
        BY SessionStep, CookieTypes, Zeros DEF SessionGoal, JarMoves, TypeOK
  <2>2. ASSUME NEW n \in 0 .. MaxLogins, jar' = [jar EXCEPT !.state = n]
        PROVE  jar' \in [session : 0 .. MaxGrants, state : 0 .. MaxLogins]
        BY <2>2 DEF TypeOK
  <2>3. ASSUME NEW t \in Tabs, Login(t)
        PROVE  jar' \in [session : 0 .. MaxGrants, state : 0 .. MaxLogins]
    <3>1. logins + 1 \in 0 .. MaxLogins
          BY <2>3, BoundsAreNaturals DEF Login, TypeOK
    <3> QED  BY <2>2, <2>3, <3>1 DEF Login
  <2>4. ASSUME NEW t \in Tabs, CallbackRefused(t)
        PROVE  jar' \in [session : 0 .. MaxGrants, state : 0 .. MaxLogins]
        BY <2>2, <2>4, Zeros DEF CallbackRefused, TypeOK
  <2>5. ASSUME NEW q \in Requests, Exchange(q) \/ CreateSession(q), ~UNCHANGED jar
        PROVE  jar' \in [session : 0 .. MaxGrants, state : 0 .. MaxLogins]
    <3>1. \E session : jar' = [session |-> session, state |-> 0]
          BY <2>5 DEF Exchange, CreateSession, CallbackAnswered
    <3> QED  BY <2>1, <3>1, Zeros
  <2>6. ASSUME NEW q \in Requests, DeleteSession(q), ~UNCHANGED jar
        PROVE  jar' \in [session : 0 .. MaxGrants, state : 0 .. MaxLogins]
    <3>1. jar' = [jar EXCEPT !.session = 0]
          BY <2>6 DEF DeleteSession, LogoutAnswered
    <3> QED  BY <3>1, Zeros DEF TypeOK
  <2>7. CASE UNCHANGED jar  BY <2>7 DEF TypeOK
  <2> QED  BY <2>3, <2>4, <2>5, <2>6, <2>7 DEF Next, vars, NewChat, LoadPage, SendMessage,
           ApproveAction, LoadWithPending, Callback, Logout, GetSession, RefreshToken,
           RefreshFails, StoreTokens, DropSession, ForwardToAgent, RevokeToken, TokensExpire,
           GrantEnds, Restart
<1> QED  BY <1>1, <1>2, <1>3, <1>4, <1>5, <1>6, <1>7

\* Every step keeps the types.
LEMMA TypeStep ==
    ASSUME TypeOK, Issued, Stages, Leaving, Cookies, OneCallback, [Next]_vars
    PROVE  TypeOK'
BY ProviderStep, RequestTypes, TabStep, AwaitedStep, OtherTypes
   DEF TypeOK, ProviderGoal, ProviderType, TabGoal

-----------------------------------------------------------------------------
(***************************************************************************)
(* Logouts and dropped sessions.                                           *)
(***************************************************************************)

LEMMA KnownStays ==
    ASSUME TypeOK, Issued, Stages, Cookies, [Next]_vars, NEW g \in Grants, Known(g)
    PROVE  Known(g)'
BY ProviderStep DEF ProviderGoal, Grows, Known

\* The callback's code is exchanged for a grant that was not issued before.
LEMMA NewGrant ==
    ASSUME TypeOK, NEW q \in Requests, Exchanged(q)
    PROVE  \E g \in Grants : \E row \in FirstTokens :
              /\ ~Known(g)
              /\ provider'[g] = Granted(row)
              /\ requests'[q].cookie = g /\ requests'[q].row = row
<1>1. PICK g \in Grants, row \in FirstTokens :
          /\ ~Known(g)
          /\ provider' = [provider EXCEPT ![g] = Granted(row)]
          /\ requests'[q] = [requests[q] EXCEPT !.pc = "create", !.cookie = g, !.row = row]
    BY DEF Exchanged
<1>2. requests[q] \in Request  BY CookieTypes
<1>3. requests'[q].cookie = g /\ requests'[q].row = row
    BY <1>1, <1>2 DEF Request
<1>4. provider'[g] = Granted(row)
    BY <1>1 DEF TypeOK
<1> QED  BY <1>1, <1>3, <1>4

\* Every step keeps that the provider knows the grants that cookies and sessions name.
LEMMA CookiesStep ==
    ASSUME TypeOK, Issued, Stages, Leaving, Cookies, [Next]_vars
    PROVE  Cookies'
<1>1. ASSUME NEW g, g \in {requests[q].cookie : q \in Requests} \cup {jar.session}, g # 0
      PROVE  g \in Grants /\ Known(g)'
  <2>1. g \in 0 .. MaxGrants /\ Known(g)
        BY <1>1, CookieTypes DEF Cookies, TypeOK
  <2>2. g \in Grants
        BY <1>1, <2>1, BoundsAreNaturals DEF Grants
  <2> QED  BY <2>1, <2>2, KnownStays
<1>2. ASSUME NEW q \in Requests, requests'[q].cookie # 0 PROVE Known(requests[q].cookie)'
  <2>1. CASE Fades(q)
        BY <1>1, <1>2, <2>1, FadedFields
  <2>2. CASE Exchanged(q)
    <3>1. PICK g \in Grants, row \in FirstTokens :
              provider'[g] = Granted(row) /\ requests'[q].cookie = g
          BY <2>2, NewGrant
    <3>2. Granted(row).access = 1
          BY DEF Granted
    <3> QED  BY <3>1, <3>2 DEF Known
  <2>3. CASE Moves(q) /\ ~Exchanged(q)
        BY <1>1, <1>2, <2>3, MovedFields
  <2> QED  BY <2>1, <2>2, <2>3, RequestStep DEF RequestGoal
<1>3. ASSUME NEW g \in Grants, sessions'[g] # None PROVE Known(g)'
  <2>1. g # 0
        BY BoundsAreNaturals DEF Grants
  <2>2. CASE sessions[g] # None
        BY <2>2, KnownStays DEF Cookies
  <2>3. CASE \E q \in Requests : requests[q].cookie = g
        BY <1>1, <2>1, <2>3
  <2> QED  BY <1>3, <2>2, <2>3, SessionStep DEF SessionGoal, SessionMoves
<1>4. ASSUME NEW g \in loggedOut' PROVE Known(g)'
  <2>1. CASE g \in loggedOut
        BY <2>1, KnownStays DEF Cookies, TypeOK
  <2>2. CASE \E q \in Requests : requests[q].pc = "delete" /\ requests[q].cookie = g
        BY <1>1, <2>2 DEF Stages, Stage
  <2> QED  BY <2>1, <2>2, SessionStep DEF SessionGoal, LogoutMoves
<1>5. ASSUME jar'.session # 0 PROVE Known(jar.session)'
    BY <1>1, <1>5, SessionStep DEF SessionGoal, JarMoves
<1> QED  BY <1>2, <1>3, <1>4, <1>5 DEF Cookies

\* Nobody learns of a session before authCallbackHandler has created it.
LEMMA AloneStep ==
    ASSUME TypeOK, Issued, Stages, Leaving, Cookies, Alone, [Next]_vars
    PROVE  Alone'
<1> SUFFICES ASSUME NEW q \in Requests, requests'[q].pc = "create",
                    NEW g, g = requests'[q].cookie
             PROVE  /\ sessions'[g] = None
                    /\ g \notin loggedOut'
                    /\ jar'.session # g
                    /\ \A r \in Requests \ {q} : requests'[r].cookie # g
    BY DEF Alone
<1>1. \A r \in Requests : CreateSession(r) => requests'[r] = Done
    BY DEF CreateSession, CallbackAnswered, TypeOK
<1>2. Done.pc = "done"
    BY DEF Done, Unused
<1>3. Stage(requests'[q])
    BY RequestTypes DEF Stages
<1>4. g # 0 /\ requests'[q].kind = "callback"
    BY <1>3 DEF Stage
<1>5. CASE Fades(q)
  <2>1. requests'[q] = requests[q]
        BY <1>4, <1>5, FadedFields
  <2>2. /\ requests[q].pc = "create" /\ requests[q].cookie = g /\ g \in Grants
        /\ sessions[g] = None /\ g \notin loggedOut /\ jar.session # g
        /\ \A r \in Requests \ {q} : requests[r].cookie # g
        BY <1>4, <2>1, CookieTypes DEF Alone
  <2>3. \A r \in Requests : requests[r].cookie = g => r = q
        BY <2>2
  <2>4. ~CreateSession(q)
        BY <1>1, <1>2, <2>1, <2>2
  <2>5. sessions'[g] = None
        BY <2>2, <2>3, <2>4, SessionStep DEF SessionGoal, SessionMoves
  <2>6. g \notin loggedOut'
        BY <2>2, <2>3, SessionStep DEF SessionGoal, LogoutMoves
  <2>7. jar'.session # g
        BY <1>4, <2>2, <2>3, <2>4, SessionStep DEF SessionGoal, JarMoves
  <2>8. ASSUME NEW r \in Requests \ {q} PROVE requests'[r].cookie # g
    <3>1. CASE Fades(r)
          BY <1>4, <2>2, <3>1, FadedFields
    <3>2. CASE Exchanged(r)
      <4>1. Known(g)
            BY <1>4, <2>2 DEF Cookies
      <4> QED  BY <3>2, <4>1, NewGrant
    <3>3. CASE Moves(r) /\ ~Exchanged(r)
          BY <1>4, <2>2, <3>3, MovedFields
    <3> QED  BY <3>1, <3>2, <3>3, RequestStep DEF RequestGoal
  <2> QED  BY <2>5, <2>6, <2>7, <2>8
<1>6. CASE Moves(q) /\ \A r \in Requests \ {q} : Fades(r)
  <2>1. Exchanged(q)
    <3>1. requests[q] \in Request
          BY CookieTypes
    <3> QED  BY <1>6, <3>1 DEF Moves, Begins, Proceeds, LogsOut, FindsRow, Refreshes, Drops,
             Request
  <2>2. g \in Grants /\ ~Known(g)
        BY <2>1, NewGrant
  <2>3. sessions' = sessions /\ loggedOut' = loggedOut /\ jar'.session = jar.session
    <3>1. CASE jar' = [session |-> jar.session, state |-> 0]
          BY <2>1, <3>1 DEF Exchanged, Exchange
    <3>2. CASE UNCHANGED jar
          BY <2>1, <3>2 DEF Exchanged, Exchange
    <3> QED  BY <2>1, <3>1, <3>2 DEF Exchanged, Exchange, CallbackAnswered
  <2>4. sessions[g] = None /\ g \notin loggedOut /\ jar.session # g
        BY <1>4, <2>2 DEF Cookies
  <2>5. \A r \in Requests \ {q} : requests'[r].cookie # g
        BY <1>4, <1>6, <2>2, FadedFields DEF Cookies
  <2> QED  BY <2>3, <2>4, <2>5
<1> QED  BY <1>4, <1>5, <1>6, RequestStep DEF RequestGoal

\* Tokens that are the provider's, or older, are so after any step.
LEMMA FitsStays ==
    ASSUME TypeOK, Issued, Stages, Cookies, [Next]_vars, NEW g \in Grants, Known(g),
           NEW refresh \in 0 .. MaxTokens,
           refresh <= provider[g].refresh,
           refresh = 0 => ~provider[g].good
    PROVE  /\ refresh <= provider'[g].refresh
           /\ refresh = 0 => ~provider'[g].good
<1>1. /\ provider'[g].refresh >= provider[g].refresh
      /\ provider'[g].good => provider[g].good
      /\ provider'[g].refresh \in 0 .. MaxTokens
    BY ProviderStep DEF ProviderGoal, ProviderType, Grows
<1> QED  BY <1>1, ProviderFields, BoundsAreNaturals

\* The refresh tokens of rows are numbers in their bound.
LEMMA RowTypes ==
    ASSUME TypeOK
    PROVE  /\ \A q \in Requests : requests[q].row.refresh \in 0 .. MaxTokens
           /\ \A g \in Grants : sessions[g] # None => sessions[g].refresh \in 0 .. MaxTokens
<1>1. \A row \in Row : row.refresh \in 0 .. MaxTokens
    BY DEF Row
<1> QED  BY <1>1, CookieTypes DEF TypeOK

\* A request that has a row has the grant of the row
LEMMA RequestFits ==
    ASSUME TypeOK, Issued, Stages, Cookies, Rows, [Next]_vars, NEW q \in Requests,
           requests[q].pc \in {"refresh", "store", "drop", "create"}
    PROVE  LET g == requests[q].cookie
               refresh == requests[q].row.refresh IN
           /\ g \in Grants /\ Known(g)
           /\ refresh \in 0 .. MaxTokens
           /\ refresh <= provider[g].refresh /\ refresh <= provider'[g].refresh
           /\ refresh = 0 => ~provider[g].good /\ ~provider'[g].good
<1>1. requests[q].cookie \in Grants /\ Known(requests[q].cookie)
    BY CookieTypes DEF Stages, Stage, Cookies
<1>2. requests[q].row.refresh \in 0 .. MaxTokens
    BY RowTypes
<1>3. Fits(requests[q].cookie, requests[q].row)
    BY DEF Rows
<1>4. /\ requests[q].row.refresh <= provider[requests[q].cookie].refresh
      /\ requests[q].row.refresh = 0 => ~provider[requests[q].cookie].good
    BY <1>3 DEF Fits
<1> QED  BY <1>1, <1>2, <1>4, FitsStays

\* The row of a session is the provider's, or older, after any step.
LEMMA SessionFits ==
    ASSUME TypeOK, Issued, Stages, Cookies, Rows, [Next]_vars, NEW g \in Grants,
           sessions[g] # None
    PROVE  LET refresh == sessions[g].refresh IN
           /\ refresh \in 0 .. MaxTokens
           /\ refresh <= provider'[g].refresh
           /\ refresh = 0 => ~provider'[g].good
<1>1. Known(g)
    BY DEF Cookies
<1>2. sessions[g].refresh \in 0 .. MaxTokens
    BY RowTypes
<1>3. Fits(g, sessions[g])
    BY DEF Rows
<1> QED  BY <1>1, <1>2, <1>3, FitsStays DEF Fits

\* Every step keeps that: no row is newer than what the provider has issued.
LEMMA RowsStep ==
    ASSUME TypeOK, Issued, Stages, Leaving, Cookies, Rows, [Next]_vars
    PROVE  Rows'
<1>1. ASSUME NEW g \in Grants, sessions'[g] # None
      PROVE  /\ sessions'[g].refresh <= provider'[g].refresh
             /\ sessions'[g].refresh = 0 => ~provider'[g].good
    BY <1>1, SessionFits, RequestFits, SessionStep DEF SessionGoal, SessionMoves
<1>2. ASSUME NEW q \in Requests, requests'[q].pc \in {"refresh", "store", "drop", "create"}
      PROVE  LET row == requests'[q].row
                 p == provider'[requests'[q].cookie] IN
             row.refresh <= p.refresh /\ (row.refresh = 0 => ~p.good)
  <2>1. requests[q] \in Request
        BY CookieTypes
  <2>2. CASE Fades(q)
        BY <1>2, <2>2, FadedFields, RequestFits
  <2>3. CASE FindsRow(q)
    <3>1. /\ requests[q].cookie \in Grants /\ sessions[requests[q].cookie] # None
          /\ requests'[q].row = sessions[requests[q].cookie]
          /\ requests'[q].cookie = requests[q].cookie
          BY <2>1, <2>3, CookieTypes DEF FindsRow, Request
    <3> QED  BY <3>1, SessionFits
  <2>4. CASE Refreshes(q)
    <3>1. PICK access \in 0 .. MaxTokens, refresh \in {0, provider'[requests[q].cookie].refresh} :
              requests'[q] = [requests[q] EXCEPT !.pc = "store",
                                 !.row = Refreshed(requests[q].row, access, refresh)]
          BY <2>4 DEF Refreshes
    <3>2. /\ requests'[q].cookie = requests[q].cookie
          /\ requests'[q].row = Refreshed(requests[q].row, access, refresh)
          BY <2>1, <3>1 DEF Request
    <3>3. requests'[q].row.refresh = IF refresh = 0 THEN requests[q].row.refresh ELSE refresh
          BY <3>2 DEF Refreshed
    <3>4. /\ requests[q].cookie \in Grants
          /\ requests[q].row.refresh <= provider'[requests[q].cookie].refresh
          /\ requests[q].row.refresh = 0 => ~provider'[requests[q].cookie].good
          BY <2>4, RequestFits DEF Refreshes, RefreshToken
    <3>5. provider'[requests[q].cookie].refresh \in Int
          BY <3>4, ProviderStep DEF ProviderGoal, ProviderType
    <3> QED  BY <3>1, <3>2, <3>3, <3>4, <3>5
  <2>5. CASE Drops(q)
    <3>1. /\ requests'[q].cookie = requests[q].cookie
          /\ requests'[q].row = requests[q].row
          BY <2>1, <2>5 DEF Drops, Request
    <3> QED  BY <2>5, <3>1, RequestFits DEF Drops
  <2>6. CASE Exchanged(q)
    <3>1. PICK g \in Grants, row \in FirstTokens :
              /\ provider'[g] = Granted(row)
              /\ requests'[q].cookie = g /\ requests'[q].row = row
          BY <2>6, NewGrant
    <3>2. row.refresh \in {0, 1}
          BY DEF FirstTokens
    <3>3. provider'[g].refresh = row.refresh /\ (provider'[g].good <=> row.refresh = 1)
      <4>1. PICK good \in BOOLEAN : good <=> row.refresh = 1
            OBVIOUS
      <4>2. Granted(row) = [access |-> 1, due |-> 0, refresh |-> row.refresh, good |-> good]
            BY <4>1 DEF Granted
      <4> QED  BY <3>1, <4>1, <4>2
    <3>4. row.refresh <= provider'[g].refresh /\ (row.refresh = 0 => ~provider'[g].good)
          BY <3>2, <3>3
    <3> QED  BY <3>1, <3>4
  <2>7. CASE Begins(q) \/ Proceeds(q) \/ LogsOut(q)
    <3>1. requests'[q].pc \notin {"refresh", "store", "drop", "create"}
          BY <2>1, <2>7 DEF Begins, Proceeds, LogsOut, Request
    <3> QED  BY <1>2, <3>1
  <2> QED  BY <2>2, <2>3, <2>4, <2>5, <2>6, <2>7, RequestStep DEF RequestGoal, Moves
<1> QED  BY <1>1, <1>2 DEF Rows, Fits

\* A refresh that has failed would fail again, until its session is dropped
\* (GetBearerToken).
LEMMA DroppedStep ==
    ASSUME TypeOK, Issued, Stages, Leaving, Cookies, Rows, Dropped, [Next]_vars
    PROVE  Dropped'
<1> SUFFICES ASSUME NEW q \in Requests, requests'[q].pc = "drop"
             PROVE  LET p == provider'[requests'[q].cookie] IN
                    \/ ~p.good
                    \/ requests'[q].row.refresh \in 1 .. p.refresh - 1
                    \/ requests'[q].unanswered
    BY DEF Dropped, RefreshTokenFails
<1>1. requests[q] \in Request
    BY CookieTypes
<1> DEFINE g == requests[q].cookie
<1>2. ASSUME requests[q].pc \in {"refresh", "drop"},
             \/ ~provider[g].good
             \/ requests[q].row.refresh \in 1 .. provider[g].refresh - 1
      PROVE  \/ ~provider'[g].good
             \/ requests[q].row.refresh \in 1 .. provider'[g].refresh - 1
  <2>1. g \in Grants /\ Known(g)
        BY <1>2, RequestFits
  <2>2. /\ provider'[g].refresh >= provider[g].refresh
        /\ provider'[g].good => provider[g].good
        /\ provider'[g].refresh \in 0 .. MaxTokens
        /\ provider[g].refresh \in 0 .. MaxTokens
        BY <2>1, ProviderStep, ProviderFields DEF ProviderGoal, ProviderType, Grows
  <2> HIDE DEF g
  <2> QED  BY <1>2, <2>2, BoundsAreNaturals
<1>3. CASE Fades(q)
  <2>1. /\ requests[q].pc = "drop" /\ requests'[q].cookie = g
        /\ requests'[q].row = requests[q].row
        /\ requests'[q].unanswered = requests[q].unanswered
        BY <1>3, FadedFields
  <2> QED  BY <1>2, <2>1 DEF Dropped, RefreshTokenFails
<1>4. CASE FindsRow(q)
  <2>1. /\ g \in Grants /\ sessions[g] # None /\ sessions[g].refresh = 0
        /\ requests'[q].cookie = g
        BY <1>1, <1>4, CookieTypes DEF FindsRow, Request
  <2> QED  BY <2>1, SessionFits
<1>5. CASE Drops(q)
  <2>1. requests[q].pc = "refresh" /\ requests'[q].cookie = g
        /\ requests'[q].row = requests[q].row
        BY <1>1, <1>5 DEF Drops, Request
  <2>2. CASE requests'[q] = [requests[q] EXCEPT !.pc = "drop", !.unanswered = TRUE]
        BY <1>1, <2>2 DEF Request
  <2>3. CASE ~provider[g].good \/ requests[q].row.refresh # provider[g].refresh
    <3>1. /\ g \in Grants /\ requests[q].row.refresh \in 0 .. MaxTokens
          /\ requests[q].row.refresh <= provider[g].refresh
          /\ requests[q].row.refresh = 0 => ~provider[g].good
          BY <2>1, RequestFits
    <3>2. provider[g].refresh \in 0 .. MaxTokens
          BY <3>1, ProviderFields
    <3>3. \/ ~provider[g].good
          \/ requests[q].row.refresh \in 1 .. provider[g].refresh - 1
      <4> HIDE DEF g
      <4> QED  BY <2>3, <3>1, <3>2, BoundsAreNaturals
    <3> QED  BY <1>2, <2>1, <3>3
  <2> QED  BY <1>5, <2>2, <2>3 DEF Drops
<1>6. CASE Moves(q) /\ ~FindsRow(q) /\ ~Drops(q)
  <2>1. requests'[q].pc # "drop"
        BY <1>1, <1>6 DEF Moves, Begins, Proceeds, LogsOut, Refreshes, Exchanged, Request
  <2> QED  BY <2>1
<1> QED  BY <1>3, <1>4, <1>5, <1>6, RequestStep DEF RequestGoal

\* No step creates again a session that a logout has deleted: Update only writes
\* rows that are there.
LEMMA LogoutStep ==
    ASSUME TypeOK, Issued, Stages, Leaving, Cookies, Alone, LogoutHolds, [Next]_vars
    PROVE  LogoutHolds'
<1> SUFFICES ASSUME NEW g \in loggedOut' PROVE sessions'[g] = None
    BY DEF LogoutHolds
<1>1. CASE g \in loggedOut
  <2>1. g \in Grants /\ sessions[g] = None
        BY <1>1 DEF LogoutHolds, TypeOK
  <2>2. ~\E q \in Requests : requests[q].pc = "create" /\ requests[q].cookie = g
        BY <1>1 DEF Alone
  <2> QED  BY <2>1, <2>2, SessionStep DEF SessionGoal, SessionMoves
<1>2. CASE g \notin loggedOut
    BY <1>2, SessionStep DEF SessionGoal, LogoutMoves
<1> QED  BY <1>1, <1>2

-----------------------------------------------------------------------------
(***************************************************************************)
(* The pages: the Send button, the last message and the pending one.       *)
(***************************************************************************)

\* The page in t waits for the answer to the message of q
Open(q, t) == requests[q].tab = t /\ requests[q].kind \in {"send", "retry"}

OpenNext(q, t) == requests'[q].tab = t /\ requests'[q].kind \in {"send", "retry"}

Same(q, t) ==
    /\ OpenNext(q, t) <=> Open(q, t)
    /\ Open(q, t) => requests'[q].kind = requests[q].kind /\ requests'[q].msg = requests[q].msg

Rests(t) ==
    /\ \A q \in Requests : Same(q, t)
    /\ tabs'[t].view = "chat" <=> tabs[t].view = "chat"
    /\ tabs'[t].sending = tabs[t].sending
    /\ tabs'[t].last = tabs[t].last
    /\ tabs'[t].pending = tabs[t].pending

Clears(t) ==
    /\ \A q \in Requests : ~OpenNext(q, t)
    /\ tabs'[t].view = "chat" => ~tabs'[t].sending
    /\ tabs'[t].last \in {0, tabs[t].last}
    /\ tabs'[t].pending \in {None, tabs[t].pending}

Sends(t, q) ==
    /\ tabs[t].view = "chat" /\ ~tabs[t].sending
    /\ typed' = typed + 1
    /\ \A r \in Requests \ {q} : Same(r, t)
    /\ requests'[q].tab = t /\ requests'[q].kind = "send" /\ requests'[q].msg = typed + 1
    /\ tabs'[t].view = "chat" /\ tabs'[t].sending
    /\ tabs'[t].last = typed + 1
    /\ tabs'[t].pending = tabs[t].pending
    /\ posted' = [m \in Messages |-> IF m = typed + 1 THEN posted[m] + 1 ELSE posted[m]]

Retries(t, q) ==
    /\ tabs[t].pending # None
    /\ typed' = typed
    /\ \A r \in Requests \ {q} : ~OpenNext(r, t)
    /\ requests'[q].tab = t /\ requests'[q].kind = "retry"
    /\ tabs'[t].view = "chat" /\ tabs'[t].sending
    /\ tabs'[t].last = 0
    /\ tabs'[t].pending = None
    /\ posted' = [m \in Messages |->
                    IF m = tabs[t].pending.msg THEN posted[m] + 1 ELSE posted[m]]

Answers(t, q) ==
    /\ requests[q].tab = t /\ requests[q].kind \in {"send", "retry", "approve"}
    /\ ~OpenNext(q, t)
    /\ \A r \in Requests \ {q} : Same(r, t)
    /\ tabs[t].view = "chat" /\ tabs'[t].view = "chat"
    /\ IF requests[q].kind = "approve" THEN tabs'[t].sending = tabs[t].sending
       ELSE ~tabs'[t].sending
    /\ tabs'[t].last = tabs[t].last
    /\ \/ tabs'[t].pending = tabs[t].pending
       \/ /\ tabs'[t].pending # None
          /\ requests[q].kind # "retry"
          /\ tabs'[t].pending.msg = tabs[t].last
          /\ tabs'[t].pending.refused = requests[q].msg
          /\ tabs'[t].pending.via = IF requests[q].kind = "approve" THEN "approve" ELSE "send"

PageGoal ==
    \/ /\ UNCHANGED <<posted, typed>>
       /\ \A t \in Tabs : Rests(t) \/ Clears(t) \/ \E q \in Requests : Answers(t, q)
    \/ \E s \in Tabs : /\ \E q \in Requests : Sends(s, q) \/ Retries(s, q)
                       /\ \A t \in Tabs \ {s} : Rests(t)

\* A page that is not the chat page waits for no message
LEMMA ClosedPages ==
    ASSUME TypeOK, NEW t \in Tabs, tabs[t].view # "chat", NEW q \in Requests
    PROVE  ~Open(q, t)
BY NoneIsNothing DEF TypeOK, Open

\* Leaving one tab takes the requests of the other tabs nothing.
LEMMA WithoutOthers ==
    ASSUME TypeOK, NEW s \in Tabs, NEW t \in Tabs, NEW r \in Requests
    PROVE  /\ WithoutPage(s)[r].tab # s
           /\ s # t => \/ WithoutPage(s)[r] = requests[r]
                       \/ WithoutPage(s)[r].tab # t /\ requests[r].tab # t
<1>1. requests[r] \in Request /\ s # None /\ t # None
    BY CookieTypes, NoneIsNothing
<1>2. Done.tab = None
    BY DEF Done, Unused
<1>3. [requests[r] EXCEPT !.tab = None, !.msg = 0, !.conv = None].tab = None
    BY <1>1 DEF Request
<1>4. WithoutPage(s)[r] = IF requests[r].tab # s THEN requests[r]
                          ELSE IF requests[r].pc = "forward" THEN Done
                          ELSE [requests[r] EXCEPT !.tab = None, !.msg = 0, !.conv = None]
    BY DEF WithoutPage
<1> QED  BY <1>1, <1>2, <1>3, <1>4

\* The requests are as before, but for q, which is not the message of a page
LEMMA OthersSame ==
    ASSUME TypeOK, NEW q \in Requests, NEW new, requests' = [requests EXCEPT ![q] = new],
           NEW t \in Tabs, Same(q, t)
    PROVE  \A r \in Requests : Same(r, t)
BY DEF TypeOK, Same, Open, OpenNext

\* The page in s is left
LEMMA OthersRest ==
    ASSUME TypeOK, NEW s \in Tabs, NEW new, tabs' = [tabs EXCEPT ![s] = new],
           NEW t \in Tabs \ {s}, \A r \in Requests : Same(r, t)
    PROVE  Rests(t)
BY DEF TypeOK, Rests

\* After a tab is left, its page awaits no request and the other pages await theirs.
LEMMA LeftSame ==
    ASSUME TypeOK, NEW s \in Tabs, NEW t \in Tabs, NEW r \in Requests,
           requests'[r] = WithoutPage(s)[r]
    PROVE  ~OpenNext(r, s) /\ (s # t => Same(r, t))
BY WithoutOthers DEF Same, Open, OpenNext

\* What posting a request does to the pages' messages
LEMMA PostSame ==
    ASSUME TypeOK, NEW q \in Requests, NEW pool, NEW request, Post(q, pool, request),
           pool = [r \in Requests |-> pool[r]]
    PROVE  /\ requests'[q] = request
           /\ requests[q] = Unused
           /\ \A r \in Requests \ {q} : requests'[r] = pool[r]
           /\ \A t \in Tabs : ~Open(q, t)
<1>1. requests[q] = Unused /\ Unused.kind = "none"
    BY DEF Post, Unused
<1>2. requests' = [pool EXCEPT ![q] = request]
    BY DEF Post
<1> QED  BY <1>1, <1>2 DEF Open

\* Approvals and logouts post no message.
LEMMA QuietPost ==
    ASSUME TypeOK, NEW q \in Requests, NEW pool, NEW request, Post(q, pool, request),
           request.kind \notin {"send", "retry"}
    PROVE  UNCHANGED posted
BY DEF Post, TypeOK

\* Only the tab s changes, and its page is left behind
LEMMA PageLeft ==
    ASSUME TypeOK, NEW s \in Tabs, NEW new, tabs' = [tabs EXCEPT ![s] = new],
           UNCHANGED <<posted, typed>>,
           new.view = "chat" => ~new.sending,
           new.last \in {0, tabs[s].last},
           new.pending \in {None, tabs[s].pending},
           \A r \in Requests : ~OpenNext(r, s),
           \A r \in Requests : \A t \in Tabs \ {s} : Same(r, t)
    PROVE  PageGoal
<1>1. tabs'[s] = new  BY DEF TypeOK
<1>2. Clears(s)  BY <1>1 DEF Clears
<1>3. \A t \in Tabs \ {s} : Rests(t)  BY OthersRest
<1> QED  BY <1>2, <1>3 DEF PageGoal

\* No page changes its message
LEMMA PagesRest ==
    ASSUME TypeOK, UNCHANGED <<posted, typed>>,
           \A t \in Tabs : /\ tabs'[t].view = "chat" <=> tabs[t].view = "chat"
                           /\ tabs'[t].sending = tabs[t].sending
                           /\ tabs'[t].last = tabs[t].last
                           /\ tabs'[t].pending = tabs[t].pending,
           \A r \in Requests : \A t \in Tabs : Same(r, t)
    PROVE  PageGoal
BY DEF PageGoal, Rests

\* A fresh page holds no message; one loaded after an authentication sends the
\* pending one (checkPendingAuthMessage).
LEMMA FreshFields ==
    ASSUME NEW tab
    PROVE  /\ Loaded(tab).last = 0 /\ Loaded(tab).pending = None
           /\ Loaded(tab).sending <=> tab.pending # None
           /\ \A n : LET consent == [FreshPage EXCEPT !.view = "consent", !.state = n,
                                                      !.pending = tab.pending] IN
                     consent.view = "consent" /\ consent.last = 0 /\ consent.pending = tab.pending
           /\ LET gone == [FreshPage EXCEPT !.view = "elsewhere", !.pending = tab.pending] IN
              gone.view = "elsewhere" /\ gone.last = 0 /\ gone.pending = tab.pending
BY DEF Loaded, FreshPage

\* A tab that goes to another site leaves its messages behind.
LEMMA GoneLeft ==
    ASSUME TypeOK, NEW s \in Tabs, tabs' = [tabs EXCEPT ![s] = Gone(s)],
           UNCHANGED <<posted, typed>>,
           \A r \in Requests : ~OpenNext(r, s),
           \A r \in Requests : \A t \in Tabs \ {s} : Same(r, t)
    PROVE  PageGoal
<1>1. Gone(s).view = "elsewhere" /\ Gone(s).last = 0 /\ Gone(s).pending = tabs[s].pending
    BY FreshFields DEF Gone
<1> QED  BY <1>1, PageLeft

\* Where no request changes, every page awaits what it awaited.
LEMMA UnchangedSame ==
    ASSUME UNCHANGED requests
    PROVE  \A r \in Requests : \A t \in Tabs : Same(r, t)
BY DEF Same, Open, OpenNext

\* A request that keeps its kind, page and message is awaited as before.
LEMMA MovesSame ==
    ASSUME TypeOK, NEW q \in Requests, NEW new, requests' = [requests EXCEPT ![q] = new],
           \/ new.kind = requests[q].kind /\ new.tab = requests[q].tab /\ new.msg = requests[q].msg
           \/ new = Done /\ (requests[q].tab = None \/ requests[q].kind \notin {"send", "retry"})
    PROVE  \A r \in Requests : \A t \in Tabs : Same(r, t)
<1>1. requests'[q] = new  BY DEF TypeOK
<1>2. Done.tab = None /\ \A t \in Tabs : t # None  BY NoneIsNothing DEF Done, Unused
<1>3. \A t \in Tabs : Same(q, t)  BY <1>1, <1>2 DEF Same, Open, OpenNext
<1> QED  BY <1>3, OthersSame

\* Where a request goes on the server is nothing to the page
LEMMA ServerSame ==
    ASSUME TypeOK, Issued, Stages, Leaving, Cookies, NEW q \in Requests,
           \/ GetSession(q) \/ RefreshToken(q) \/ RefreshFails(q) \/ StoreTokens(q)
           \/ DropSession(q) \/ RevokeToken(q)
    PROVE  \A r \in Requests : \A t \in Tabs : Same(r, t)
<1>1. requests[q] \in Request  BY CookieTypes
<1>2. ASSUME NEW new, requests' = [requests EXCEPT ![q] = new],
             \E pc : new = [requests[q] EXCEPT !.pc = pc]
      PROVE  \A r \in Requests : \A t \in Tabs : Same(r, t)
    BY <1>1, <1>2, MovesSame DEF Request
<1>3. ASSUME NEW pc, Goto(q, pc) PROVE \A r \in Requests : \A t \in Tabs : Same(r, t)
  <2>1. requests' = [requests EXCEPT ![q] = [requests[q] EXCEPT !.pc = pc]]
        BY <1>3 DEF Goto, TypeOK
  <2> QED  BY <2>1, <1>2
<1>4. ASSUME NEW pc, NEW row, GotoWith(q, pc, row)
      PROVE  \A r \in Requests : \A t \in Tabs : Same(r, t)
  <2> DEFINE new == [requests[q] EXCEPT !.pc = pc, !.row = row]
  <2>1. requests' = [requests EXCEPT ![q] = new]
        BY <1>4 DEF GotoWith, TypeOK
  <2>2. new.kind = requests[q].kind /\ new.tab = requests[q].tab /\ new.msg = requests[q].msg
        BY <1>1 DEF Request
  <2> HIDE DEF new
  <2> QED  BY <2>1, <2>2, MovesSame
<1>5. ASSUME requests' = [requests EXCEPT ![q].pc = "drop", ![q].unanswered = TRUE]
      PROVE  \A r \in Requests : \A t \in Tabs : Same(r, t)
  <2> DEFINE new == [requests[q] EXCEPT !.pc = "drop", !.unanswered = TRUE]
  <2>1. requests' = [requests EXCEPT ![q] = new]
        BY <1>5 DEF TypeOK
  <2>2. new.kind = requests[q].kind /\ new.tab = requests[q].tab /\ new.msg = requests[q].msg
        BY <1>1 DEF Request
  <2> HIDE DEF new
  <2> QED  BY <2>1, <2>2, MovesSame
<1>6. ASSUME Proceed(q) PROVE \A r \in Requests : \A t \in Tabs : Same(r, t)
  <2>1. CASE requests[q].tab = None
    <3>1. requests' = [requests EXCEPT ![q] = Done]  BY <1>6, <2>1 DEF Proceed
    <3> QED  BY <2>1, <3>1, MovesSame
  <2>2. CASE requests[q].tab # None
    <3> DEFINE new == [requests[q] EXCEPT !.pc = "forward", !.cookie = 0, !.row = NoRow,
                                          !.unanswered = FALSE]
    <3>1. requests' = [requests EXCEPT ![q] = new]
          BY <1>6, <2>2 DEF Proceed, TypeOK
    <3>2. new.kind = requests[q].kind /\ new.tab = requests[q].tab /\ new.msg = requests[q].msg
          BY <1>1 DEF Request
    <3> HIDE DEF new
    <3> QED  BY <3>1, <3>2, MovesSame
  <2> QED  BY <2>1, <2>2
<1> QED  BY <1>3, <1>4, <1>5, <1>6 DEF GetSession, RefreshToken, RefreshFails, StoreTokens,
         DropSession, RevokeToken

\* What an answer changes of the page's messages: the button comes back, and a refused
\* message becomes the pending one (handleAuthRequired).
LEMMA AnsweredFields ==
    ASSUME NEW tab \in Tab, NEW request \in Request, NEW q \in Requests,
           NEW answer \in {"error", "text", "approval", "auth"}, request.conv \in Requests,
           NEW new, new = Rested(HandleResult(tab, q, request, answer), request, answer)
    PROVE  /\ new.last = tab.last
           /\ IF request.kind = "approve" THEN new.sending = tab.sending ELSE ~new.sending
           /\ \/ new.pending = tab.pending
              \/ /\ new.pending # None
                 /\ request.kind # "retry"
                 /\ new.pending.msg = tab.last
                 /\ new.pending.refused = request.msg
                 /\ new.pending.via = IF request.kind = "approve" THEN "approve" ELSE "send"
<1> DEFINE seen == [tab EXCEPT !.conv = request.conv]
           page == HandleResult(tab, q, request, answer)
           pending == [msg |-> tab.last, conv |-> request.conv, refused |-> request.msg,
                       via |-> IF request.kind = "approve" THEN "approve" ELSE "send"]
           asks == [seen EXCEPT !.pending = pending, !.nav = "login"]
<1>1. /\ seen \in Tab /\ seen.last = tab.last /\ seen.sending = tab.sending
      /\ seen.pending = tab.pending
    BY DEF Tab
<1>2. pending \in Pending /\ pending # None
  <2>1. tab.last \in 0 .. MaxMessages /\ request.msg \in 0 .. MaxMessages
        BY DEF Tab, Request
  <2>2. pending \in Pending
        BY <2>1 DEF Pending
  <2> QED  BY <2>2, NoneIsNothing
<1>3. HandleAuthRequired(seen, request) = asks
    BY <1>1 DEF HandleAuthRequired
<1>4. asks.last = tab.last /\ asks.sending = tab.sending /\ asks.pending = pending
  <2> HIDE DEF seen, pending
  <2> QED  BY <1>1 DEF Tab
<1>5. \A boxes : LET boxed == [seen EXCEPT !.boxes = boxes] IN
        boxed.last = tab.last /\ boxed.sending = tab.sending /\ boxed.pending = tab.pending
  <2> HIDE DEF seen
  <2> QED  BY <1>1 DEF Tab
<1>6. page \in Tab
    BY PageTypes
<1>7. /\ page.last = tab.last /\ page.sending = tab.sending
      /\ page.pending = tab.pending \/ (page.pending = pending /\ request.kind # "retry")
  <2>1. page \in {tab, seen, [seen EXCEPT !.boxes = seen.boxes \cup
                        {[uuid |-> q, conv |-> request.conv, msg |-> request.msg]}]}
        \/ (page = asks /\ request.kind # "retry")
    <3> HIDE DEF asks
    <3> QED  BY <1>3 DEF HandleResult
  <2> HIDE DEF seen, asks, page, pending
  <2> QED  BY <1>1, <1>4, <1>5, <2>1
<1> HIDE DEF page
<1>8. /\ new.last = page.last /\ new.pending = page.pending
      /\ IF request.kind = "approve" THEN new.sending = page.sending ELSE ~new.sending
  <2>1. new = IF request.kind = "approve" THEN page ELSE [page EXCEPT !.sending = FALSE]
        BY DEF Rested, page
  <2> QED  BY <1>6, <2>1 DEF Tab
<1>9. /\ pending.msg = tab.last /\ pending.refused = request.msg
      /\ pending.via = IF request.kind = "approve" THEN "approve" ELSE "send"
    OBVIOUS
<1> HIDE DEF pending
<1> QED  BY <1>2, <1>7, <1>8, <1>9

\* The agent's answer is one of the changes a page's messages may undergo.
LEMMA AnswerMoves ==
    ASSUME TypeOK, Stages, NEW q \in Requests, ForwardToAgent(q)
    PROVE  PageGoal
<1> DEFINE s == requests[q].tab
           conv == IF requests[q].conv = None THEN q ELSE requests[q].conv
           request == [requests[q] EXCEPT !.conv = conv]
<1>1. s \in Tabs /\ tabs[s] \in Tab /\ tabs[s].view = "chat"
    BY AwaitingTab, PageFields DEF ForwardToAgent
<1>2. /\ request \in Request /\ request.conv \in Requests /\ request.tab = s
      /\ request.kind = requests[q].kind /\ request.msg = requests[q].msg
  <2>1. requests[q] \in Request /\ requests[q].conv \in Requests \cup {None}
        BY CookieTypes DEF Request
  <2>2. conv \in Requests
        BY <2>1
  <2> HIDE DEF conv
  <2> QED  BY <2>1, <2>2 DEF Request
<1>3. PICK answer \in {"error", "text", "approval", "auth"} : Received(q, request, answer)
    BY DEF ForwardToAgent
<1>4. requests[q].kind \in {"send", "retry", "approve"}
    BY PlaceOf DEF ForwardToAgent
<1> HIDE DEF request, s
<1> DEFINE old == tabs[s]
           new == Rested(HandleResult(old, q, request, answer), request, answer)
<1>5. tabs' = [tabs EXCEPT ![s] = new] /\ requests' = [requests EXCEPT ![q] = Done]
    BY <1>2, <1>3 DEF Received, TypeOK
<1>6. /\ new.view = "chat" /\ new.last = old.last
      /\ IF request.kind = "approve" THEN new.sending = old.sending ELSE ~new.sending
      /\ \/ new.pending = old.pending
         \/ /\ new.pending # None
            /\ request.kind # "retry"
            /\ new.pending.msg = old.last
            /\ new.pending.refused = request.msg
            /\ new.pending.via = IF request.kind = "approve" THEN "approve" ELSE "send"
  <2>1. old \in Tab /\ old.view = "chat"  BY <1>1
  <2> HIDE DEF old
  <2>2. new = Rested(HandleResult(old, q, request, answer), request, answer)
        OBVIOUS
  <2> HIDE DEF new
  <2>3. new \in Tab /\ new.view = old.view
        BY <1>2, <2>1, <2>2, AnsweredPage DEF Tab
  <2> QED  BY <1>2, <2>1, <2>2, <2>3, AnsweredFields DEF Tab
<1> HIDE DEF new
<1>7. tabs'[s] = new /\ requests'[q] = Done
      /\ \A r \in Requests \ {q} : requests'[r] = requests[r]
    BY <1>1, <1>5 DEF TypeOK
<1>8. \A r \in Requests \ {q} : \A t \in Tabs : Same(r, t)
    BY <1>7 DEF Same, Open, OpenNext
<1>9. \A t \in Tabs : ~OpenNext(q, t)
    BY <1>7 DEF OpenNext, Done, Unused
<1>10. \A t \in Tabs \ {s} : Same(q, t)
    BY <1>9 DEF Same, Open, OpenNext, s
<1>11. \A t \in Tabs \ {s} : Rests(t)
    BY <1>1, <1>5, <1>8, <1>10, OthersRest
<1>12. Answers(s, q)
    BY <1>1, <1>2, <1>4, <1>6, <1>7, <1>8, <1>9 DEF Answers, s
<1> QED  BY <1>11, <1>12 DEF PageGoal, ForwardToAgent, boundVars

\* Every step changes a page's messages in one of the ways of PageGoal.
LEMMA PageStep ==
    ASSUME TypeOK, Issued, Stages, Leaving, Cookies, OneCallback, [Next]_vars
    PROVE  PageGoal
<1>1. ASSUME NEW s \in Tabs, NewChat(s) PROVE PageGoal
  <2>1. \A t \in Tabs : /\ tabs'[t].view = "chat" <=> tabs[t].view = "chat"
                        /\ tabs'[t].sending = tabs[t].sending
                        /\ tabs'[t].last = tabs[t].last
                        /\ tabs'[t].pending = tabs[t].pending
        BY <1>1, PageFields DEF NewChat, TypeOK, Tab
  <2> QED  BY <1>1, <2>1, UnchangedSame, PagesRest DEF NewChat, boundVars
<1>2. ASSUME NEW s \in Tabs, LoadPage(s) PROVE PageGoal
  <2> DEFINE old == [tabs[s] EXCEPT !.pending = None]
             new == Loaded(old)
  <2>1. old.pending = None
        BY PageFields DEF Tab
  <2>2. new.last = 0 /\ new.pending = None /\ ~new.sending
        BY <2>1, FreshFields
  <2>3. tabs' = [tabs EXCEPT ![s] = new]
        BY <1>2 DEF LoadPage, TypeOK
  <2> HIDE DEF new
  <2> QED  BY <1>2, <2>2, <2>3, LeftSame, PageLeft DEF LoadPage, boundVars
<1>3. ASSUME NEW s \in Tabs, Login(s) PROVE PageGoal
  <2> DEFINE new == [FreshPage EXCEPT !.view = "consent", !.state = logins + 1,
                                      !.pending = tabs[s].pending]
  <2>1. new.view = "consent" /\ new.last = 0 /\ new.pending = tabs[s].pending
        BY FreshFields
  <2>2. tabs' = [tabs EXCEPT ![s] = new]
        BY <1>3 DEF Login
  <2> HIDE DEF new
  <2>3. \A r \in Requests : ~OpenNext(r, s) /\ \A t \in Tabs \ {s} : Same(r, t)
        BY <1>3, LeftSame DEF Login
  <2>4. UNCHANGED <<posted, typed>>
        BY <1>3 DEF Login
  <2>5. new.view # "chat"
        BY <2>1
  <2> QED  BY <2>1, <2>2, <2>3, <2>4, <2>5, PageLeft
<1>4. ASSUME NEW s \in Tabs, CallbackRefused(s) PROVE PageGoal
  <2> DEFINE new == [tabs[s] EXCEPT !.view = "elsewhere"]
  <2>1. new.view = "elsewhere" /\ new.last = tabs[s].last /\ new.pending = tabs[s].pending
        BY PageFields DEF Tab
  <2>2. tabs' = [tabs EXCEPT ![s] = new]
        BY <1>4 DEF CallbackRefused, TypeOK
  <2>3. \A r \in Requests : ~OpenNext(r, s)
        BY <1>4, ClosedPages DEF CallbackRefused, Open, OpenNext
  <2> HIDE DEF new
  <2> QED  BY <1>4, <2>1, <2>2, <2>3, UnchangedSame, PageLeft DEF CallbackRefused, boundVars
<1>5. ASSUME NEW s \in Tabs, NEW q \in Requests, Callback(s, q) PROVE PageGoal
  <2> DEFINE old == NewRequest("callback", s, 0, None)
             request == [old EXCEPT !.pc = "exchange"]
             new == [tabs[s] EXCEPT !.view = "callback"]
  <2>1. Post(q, requests, request) /\ requests = [r \in Requests |-> requests[r]]
        BY <1>5 DEF Callback, TypeOK
  <2>2. request.kind = "callback"
        BY NewRequestType, Zeros DEF Request
  <2>3. new.view = "callback" /\ new.last = tabs[s].last /\ new.pending = tabs[s].pending
        BY PageFields DEF Tab
  <2>4. tabs' = [tabs EXCEPT ![s] = new]
        BY <1>5 DEF Callback, TypeOK
  <2> HIDE DEF request, new
  <2>5. \A r \in Requests : \A t \in Tabs : Same(r, t)
        BY <2>1, <2>2, PostSame DEF Same, Open, OpenNext
  <2>6. \A r \in Requests : ~OpenNext(r, s)
        BY <1>5, <2>5, ClosedPages DEF Callback, Same
  <2> QED  BY <1>5, <2>1, <2>2, <2>3, <2>4, <2>5, <2>6, QuietPost, PageLeft
           DEF Callback, boundVars
<1>6. ASSUME NEW s \in Tabs, NEW q \in Requests, SendMessage(s, q) PROVE PageGoal
  <2> DEFINE request == NewRequest("send", s, typed + 1, tabs[s].conv)
             new == [tabs[s] EXCEPT !.sending = TRUE, !.last = typed + 1]
  <2>1. typed + 1 \in 0 .. MaxMessages
        BY <1>6, BoundsAreNaturals DEF SendMessage, TypeOK
  <2>2. Post(q, requests, request) /\ requests = [r \in Requests |-> requests[r]]
        BY <1>6 DEF SendMessage, TypeOK
  <2>3. request.kind = "send" /\ request.tab = s /\ request.msg = typed + 1
        BY <2>1, PageFields, NewRequestType
  <2>4. /\ new.view = tabs[s].view /\ new.sending = TRUE /\ new.last = typed + 1
        /\ new.pending = tabs[s].pending
        BY PageFields DEF Tab
  <2>5. tabs' = [tabs EXCEPT ![s] = new]
        BY <1>6 DEF SendMessage, TypeOK
  <2> HIDE DEF request, new
  <2>6. requests'[q] = request /\ \A r \in Requests \ {q} : requests'[r] = requests[r]
        BY <2>2, PostSame
  <2>7. \A r \in Requests \ {q} : \A t \in Tabs : Same(r, t)
        BY <2>6 DEF Same, Open, OpenNext
  <2>8. \A t \in Tabs \ {s} : Same(q, t)
        BY <2>2, <2>3, <2>6, PostSame DEF Same, OpenNext
  <2>9. \A t \in Tabs \ {s} : Rests(t)
        BY <2>5, <2>7, <2>8, OthersRest
  <2>10. posted' = [m \in Messages |-> IF m = typed + 1 THEN posted[m] + 1 ELSE posted[m]]
        BY <2>2, <2>3 DEF Post
  <2>11. tabs'[s] = new
        BY <2>5 DEF TypeOK
  <2>12. Sends(s, q)
        BY <1>6, <2>3, <2>4, <2>6, <2>7, <2>10, <2>11 DEF Sends, SendMessage, MaySend
  <2> QED  BY <2>9, <2>12 DEF PageGoal
<1>7. ASSUME NEW s \in Tabs, NEW q \in Requests, ApproveAction(s, q) PROVE PageGoal
  <2>1. PICK box \in tabs[s].boxes :
            /\ tabs' = [tabs EXCEPT ![s].boxes = @ \ {box}]
            /\ Post(q, requests, NewRequest("approve", s, box.msg, box.conv))
        BY <1>7 DEF ApproveAction
  <2> DEFINE request == NewRequest("approve", s, box.msg, box.conv)
  <2>2. request.kind = "approve"
        BY PageFields, NewRequestType
  <2>3. Post(q, requests, request) /\ requests = [r \in Requests |-> requests[r]]
        BY <2>1 DEF TypeOK
  <2> HIDE DEF request
  <2>4. \A r \in Requests : \A t \in Tabs : Same(r, t)
        BY <2>2, <2>3, PostSame DEF Same, Open, OpenNext
  <2>5. \A t \in Tabs : /\ tabs'[t].view = "chat" <=> tabs[t].view = "chat"
                        /\ tabs'[t].sending = tabs[t].sending
                        /\ tabs'[t].last = tabs[t].last
                        /\ tabs'[t].pending = tabs[t].pending
        BY <2>1, PageFields DEF TypeOK, Tab
  <2> QED  BY <1>7, <2>2, <2>3, <2>4, <2>5, QuietPost, PagesRest DEF ApproveAction, boundVars
<1>8. ASSUME NEW s \in Tabs, NEW q \in Requests, LoadWithPending(s, q) PROVE PageGoal
  <2> DEFINE request == NewRequest("retry", s, tabs[s].pending.msg, tabs[s].pending.conv)
             new == Loaded(tabs[s])
  <2>1. tabs[s].pending # None /\ tabs' = [tabs EXCEPT ![s] = new]
        BY <1>8 DEF LoadWithPending, TypeOK
  <2>2. Post(q, WithoutPage(s), request) /\ WithoutPage(s) = [r \in Requests |-> WithoutPage(s)[r]]
        BY <1>8 DEF LoadWithPending, WithoutPage
  <2>3. request.kind = "retry" /\ request.tab = s /\ request.msg = tabs[s].pending.msg
        BY <2>1, PageFields, NewRequestType
  <2>4. new.view = "chat" /\ new.sending /\ new.last = 0 /\ new.pending = None
    <3>1. tabs[s] \in Tab  BY PageFields
    <3>2. new.view = "chat"  BY <3>1, FreshPages
    <3> QED  BY <2>1, <3>2, FreshFields
  <2> HIDE DEF request, new
  <2>5. requests'[q] = request /\ \A r \in Requests \ {q} : requests'[r] = WithoutPage(s)[r]
        BY <2>2, PostSame
  <2>6. \A r \in Requests \ {q} : ~OpenNext(r, s) /\ \A t \in Tabs \ {s} : Same(r, t)
        BY <2>5, LeftSame
  <2>7. \A t \in Tabs \ {s} : Same(q, t)
        BY <2>2, <2>3, <2>5, PostSame DEF Same, OpenNext
  <2>8. \A t \in Tabs \ {s} : Rests(t)
        BY <2>1, <2>6, <2>7, OthersRest
  <2>9. posted' = [m \in Messages |->
                        IF m = tabs[s].pending.msg THEN posted[m] + 1 ELSE posted[m]]
        BY <2>2, <2>3 DEF Post
  <2>10. tabs'[s] = new
        BY <2>1 DEF TypeOK
  <2>11. Retries(s, q)
        BY <1>8, <2>1, <2>3, <2>4, <2>5, <2>6, <2>9, <2>10
        DEF Retries, LoadWithPending, boundVars
  <2> QED  BY <2>8, <2>11 DEF PageGoal
<1>9. ASSUME NEW s \in Tabs, NEW q \in Requests, Logout(s, q) PROVE PageGoal
  <2>1. CASE jar.session = 0
        BY <1>9, <2>1, LeftSame, GoneLeft DEF Logout, boundVars
  <2>2. CASE jar.session # 0
    <3> DEFINE request == NewRequest("logout", s, 0, None)
    <3>1. request.kind = "logout"
          BY NewRequestType, Zeros
    <3>2. Post(q, requests, request) /\ requests = [r \in Requests |-> requests[r]]
          BY <1>9, <2>2 DEF Logout, TypeOK
    <3> HIDE DEF request
    <3>3. \A r \in Requests : \A t \in Tabs : Same(r, t)
          BY <3>1, <3>2, PostSame DEF Same, Open, OpenNext
    <3>4. \A t \in Tabs : /\ tabs'[t].view = "chat" <=> tabs[t].view = "chat"
                          /\ tabs'[t].sending = tabs[t].sending
                          /\ tabs'[t].last = tabs[t].last
                          /\ tabs'[t].pending = tabs[t].pending
          BY <1>9, <2>2, PageFields DEF Logout, TypeOK, Tab
    <3> QED  BY <1>9, <3>1, <3>2, <3>3, <3>4, QuietPost, PagesRest DEF Logout, boundVars
  <2> QED  BY <2>1, <2>2
<1>10. ASSUME NEW q \in Requests, requests[q].pc \in {"exchange", "create"}, NEW session,
              CallbackAnswered(q, session), UNCHANGED <<posted, typed>>
       PROVE  PageGoal
  <2> DEFINE s == requests[q].tab
  <2>1. s \in Tabs /\ tabs[s].view # "chat" /\ requests[q].kind = "callback"
        BY <1>10, AwaitingTab
  <2>2. tabs' = [tabs EXCEPT ![s] = Gone(s)] /\ requests' = [requests EXCEPT ![q] = Done]
        BY <1>10 DEF CallbackAnswered
  <2>3. \A r \in Requests : \A t \in Tabs : Same(r, t)
        BY <2>1, <2>2, MovesSame
  <2>4. \A r \in Requests : ~OpenNext(r, s)
        BY <2>1, <2>3, ClosedPages DEF Same
  <2> HIDE DEF s
  <2> QED  BY <1>10, <2>1, <2>2, <2>3, <2>4, GoneLeft
<1>11. ASSUME NEW q \in Requests, Exchange(q) PROVE PageGoal
  <2>1. CASE CallbackAnswered(q, jar.session)
        BY <1>10, <1>11, <2>1 DEF Exchange, boundVars
  <2>2. CASE ~CallbackAnswered(q, jar.session)
    <3>1. PICK g \in Grants, row \in FirstTokens :
              requests' = [requests EXCEPT ![q].pc = "create", ![q].cookie = g, ![q].row = row]
          BY <1>11, <2>2 DEF Exchange
    <3> DEFINE new == [requests[q] EXCEPT !.pc = "create", !.cookie = g, !.row = row]
    <3>2. requests' = [requests EXCEPT ![q] = new]
          BY <3>1 DEF TypeOK
    <3>3. new.kind = requests[q].kind /\ new.tab = requests[q].tab /\ new.msg = requests[q].msg
          BY CookieTypes DEF Request
    <3> HIDE DEF new
    <3>4. \A r \in Requests : \A t \in Tabs : Same(r, t)
          BY <3>2, <3>3, MovesSame
    <3> QED  BY <1>11, <2>2, <3>4, PagesRest DEF Exchange, boundVars
  <2> QED  BY <2>1, <2>2
<1>12. ASSUME NEW q \in Requests, CreateSession(q) PROVE PageGoal
    BY <1>10, <1>12 DEF CreateSession
<1>13. ASSUME NEW q \in Requests,
              \/ GetSession(q) \/ RefreshToken(q) \/ RefreshFails(q) \/ StoreTokens(q)
              \/ DropSession(q) \/ RevokeToken(q)
       PROVE  PageGoal
  <2>1. UNCHANGED <<tabs, posted, typed>>
        BY <1>13 DEF GetSession, RefreshToken, RefreshFails, StoreTokens, DropSession,
           RevokeToken, boundVars
  <2> QED  BY <1>13, <2>1, ServerSame, PagesRest
<1>14. ASSUME NEW q \in Requests, ForwardToAgent(q) PROVE PageGoal
    BY <1>14, AnswerMoves
<1>15. ASSUME NEW q \in Requests, DeleteSession(q) PROVE PageGoal
  <2> DEFINE s == requests[q].tab
  <2>1. UNCHANGED <<posted, typed>> /\ requests[q].kind = "logout"
        BY <1>15 DEF DeleteSession, Stages, Stage
  <2>2. CASE s # None /\ tabs[s].nav = "logout"
    <3>1. s \in Tabs
      <4>1. requests[q].tab \in Tabs \cup {None}  BY CookieTypes DEF Request
      <4> QED  BY <2>2, <4>1
    <3>2. tabs' = [tabs EXCEPT ![s] = Gone(s)]
          /\ requests' = [WithoutPage(s) EXCEPT ![q] = Done]
          BY <1>15, <2>2 DEF DeleteSession, LogoutAnswered
    <3>3. requests'[q] = Done /\ \A r \in Requests \ {q} : requests'[r] = WithoutPage(s)[r]
          BY <3>2 DEF WithoutPage
    <3>4. \A t \in Tabs : ~OpenNext(q, t) /\ ~Open(q, t)
          BY <2>1, <3>3 DEF OpenNext, Open, Done, Unused
    <3>5. \A r \in Requests : ~OpenNext(r, s) /\ \A t \in Tabs \ {s} : Same(r, t)
          BY <3>1, <3>3, <3>4, LeftSame DEF Same
    <3> HIDE DEF s
    <3> QED  BY <2>1, <3>1, <3>2, <3>5, GoneLeft
  <2>3. CASE ~(s # None /\ tabs[s].nav = "logout")
    <3>1. UNCHANGED tabs /\ requests' = [requests EXCEPT ![q] = Done]
          BY <1>15, <2>3 DEF DeleteSession, LogoutAnswered
    <3> QED  BY <2>1, <3>1, MovesSame, PagesRest
  <2> QED  BY <2>2, <2>3
<1>16. CASE Restart
  <2>1. \A r \in Requests : requests'[r] = IF InProgress(r) THEN Done ELSE requests[r]
        BY <1>16 DEF Restart
  <2>2. \A r \in Requests : requests'[r].kind = "none"
        BY <2>1 DEF InProgress, Stages, Stage, Done, Unused
  <2>3. ASSUME NEW t \in Tabs PROVE Clears(t)
    <3>1. tabs'[t] = IF tabs[t].view = "callback" \/ tabs[t].nav = "logout" THEN Gone(t)
                     ELSE [tabs[t] EXCEPT !.sending = FALSE]
          BY <1>16 DEF Restart
    <3>2. Gone(t).view = "elsewhere" /\ Gone(t).last = 0 /\ Gone(t).pending = tabs[t].pending
          BY FreshFields DEF Gone
    <3>3. /\ [tabs[t] EXCEPT !.sending = FALSE].sending = FALSE
          /\ [tabs[t] EXCEPT !.sending = FALSE].last = tabs[t].last
          /\ [tabs[t] EXCEPT !.sending = FALSE].pending = tabs[t].pending
          BY PageFields DEF Tab
    <3> QED  BY <2>2, <3>1, <3>2, <3>3 DEF Clears, OpenNext
  <2> QED  BY <1>16, <2>3 DEF PageGoal, Restart
<1>17. CASE UNCHANGED <<tabs, requests, posted, typed>>
    BY <1>17, UnchangedSame, PagesRest
<1> QED  BY <1>1, <1>2, <1>3, <1>4, <1>5, <1>6, <1>7, <1>8, <1>9, <1>11, <1>12, <1>13, <1>14,
         <1>15, <1>16, <1>17 DEF Next, vars, boundVars, TokensExpire, GrantEnds

\* The Send button is disabled while one message of the page is under way
Button(t) ==
    /\ \A q, r \in Requests : Open(q, t) /\ Open(r, t) => q = r
    /\ tabs[t].view = "chat" => (tabs[t].sending <=> \E q \in Requests : Open(q, t))

Buttons == \A t \in Tabs : Button(t)

\* The message under way is the last one
LastSent == \A q \in Requests : \A t \in Tabs :
    requests[q].tab = t /\ requests[q].kind = "send" => tabs[t].last = requests[q].msg

OwnMessage == \A t \in Tabs :
    tabs[t].pending # None /\ tabs[t].pending.via = "send" =>
        tabs[t].pending.msg = tabs[t].pending.refused

\* The page in t can still have m sent again
Holds(t, m) == tabs[t].last = m \/ (tabs[t].pending # None /\ tabs[t].pending.msg = m)

HeldOnce == \A m \in Messages :
    /\ posted[m] <= 2
    /\ \A s, t \in Tabs : Holds(s, m) /\ Holds(t, m) => s = t
    /\ \A t \in Tabs : Holds(t, m) => posted[m] <= 1 /\ m <= typed
    /\ m > typed => posted[m] = 0

PageInv == Buttons /\ LastSent /\ OwnMessage /\ HeldOnce

\* Each of those ways keeps the button in step with the message under way.
LEMMA ButtonsStep ==
    ASSUME PageGoal, Buttons
    PROVE  Buttons'
<1> SUFFICES ASSUME NEW t \in Tabs
             PROVE  /\ \A q, r \in Requests : OpenNext(q, t) /\ OpenNext(r, t) => q = r
                    /\ tabs'[t].view = "chat" =>
                        (tabs'[t].sending <=> \E q \in Requests : OpenNext(q, t))
    BY DEF Buttons, Button, Open, OpenNext
<1>1. Button(t)  BY DEF Buttons
<1>2. CASE Rests(t)  BY <1>1, <1>2 DEF Rests, Same, Button
<1>3. CASE Clears(t)  BY <1>3 DEF Clears
<1>4. ASSUME NEW q \in Requests, Sends(t, q)
      PROVE  /\ \A p, r \in Requests : OpenNext(p, t) /\ OpenNext(r, t) => p = r
             /\ tabs'[t].view = "chat" =>
                    (tabs'[t].sending <=> \E r \in Requests : OpenNext(r, t))
  <2>1. \A r \in Requests : ~Open(r, t)
        BY <1>1, <1>4 DEF Sends, Button
  <2>2. \A r \in Requests : OpenNext(r, t) <=> r = q
        BY <1>4, <2>1 DEF Sends, Same, OpenNext
  <2> QED  BY <1>4, <2>2 DEF Sends
<1>5. ASSUME NEW q \in Requests, Retries(t, q)
      PROVE  /\ \A p, r \in Requests : OpenNext(p, t) /\ OpenNext(r, t) => p = r
             /\ tabs'[t].view = "chat" =>
                    (tabs'[t].sending <=> \E r \in Requests : OpenNext(r, t))
  <2>1. \A r \in Requests : OpenNext(r, t) <=> r = q
        BY <1>5 DEF Retries, OpenNext
  <2> QED  BY <1>5, <2>1 DEF Retries
<1>6. ASSUME NEW q \in Requests, Answers(t, q)
      PROVE  /\ \A p, r \in Requests : OpenNext(p, t) /\ OpenNext(r, t) => p = r
             /\ tabs'[t].view = "chat" =>
                    (tabs'[t].sending <=> \E r \in Requests : OpenNext(r, t))
  <2>1. \A r \in Requests : OpenNext(r, t) => Open(r, t)
        BY <1>6 DEF Answers, Same
  <2>2. CASE requests[q].kind = "approve"
    <3>1. \A r \in Requests : OpenNext(r, t) <=> Open(r, t)
          BY <1>6, <2>2 DEF Answers, Same, Open
    <3> QED  BY <1>1, <1>6, <2>2, <3>1 DEF Answers, Button
  <2>3. CASE requests[q].kind # "approve"
    <3>1. Open(q, t)
          BY <1>6, <2>3 DEF Answers, Open
    <3>2. \A r \in Requests : ~OpenNext(r, t)
          BY <1>1, <1>6, <2>1, <3>1 DEF Answers, Button
    <3> QED  BY <1>6, <2>3, <3>2 DEF Answers
  <2> QED  BY <2>2, <2>3
<1> QED  BY <1>2, <1>3, <1>4, <1>5, <1>6 DEF PageGoal

\* Each of them keeps that the message under way is the last one typed.
LEMMA LastSentStep ==
    ASSUME PageGoal, Buttons, LastSent
    PROVE  LastSent'
<1> SUFFICES ASSUME NEW q \in Requests, NEW t \in Tabs,
                    requests'[q].tab = t, requests'[q].kind = "send"
             PROVE  tabs'[t].last = requests'[q].msg
    BY DEF LastSent
<1>1. OpenNext(q, t)
    BY DEF OpenNext
<1>2. ASSUME Same(q, t)
      PROVE  tabs[t].last = requests'[q].msg
    BY <1>1, <1>2 DEF Same, Open, LastSent
<1>3. CASE Rests(t)  BY <1>2, <1>3 DEF Rests
<1>4. CASE Clears(t)  BY <1>1, <1>4 DEF Clears
<1>5. ASSUME NEW p \in Requests, Sends(t, p) PROVE tabs'[t].last = requests'[q].msg
  <2>1. q = p
    <3>1. \A r \in Requests : ~Open(r, t)
          BY <1>5 DEF Sends, Buttons, Button
    <3> QED  BY <1>1, <1>5, <3>1 DEF Sends, Same
  <2> QED  BY <1>5, <2>1 DEF Sends
<1>6. ASSUME NEW p \in Requests, Retries(t, p) PROVE tabs'[t].last = requests'[q].msg
    BY <1>1, <1>6 DEF Retries
<1>7. ASSUME NEW p \in Requests, Answers(t, p) PROVE tabs'[t].last = requests'[q].msg
  <2>1. q # p
        BY <1>1, <1>7 DEF Answers
  <2> QED  BY <1>2, <1>7, <2>1 DEF Answers
<1> QED  BY <1>3, <1>4, <1>5, <1>6, <1>7 DEF PageGoal

\* Each of them keeps that the pending message is the one that was refused.
LEMMA OwnMessageStep ==
    ASSUME PageGoal, LastSent, OwnMessage
    PROVE  OwnMessage'
<1> SUFFICES ASSUME NEW t \in Tabs, tabs'[t].pending # None, tabs'[t].pending.via = "send"
             PROVE  tabs'[t].pending.msg = tabs'[t].pending.refused
    BY DEF OwnMessage
<1>1. CASE tabs'[t].pending = tabs[t].pending
    BY <1>1 DEF OwnMessage
<1>2. ASSUME NEW q \in Requests, Answers(t, q), tabs'[t].pending # tabs[t].pending
      PROVE  tabs'[t].pending.msg = tabs'[t].pending.refused
  <2>1. requests[q].kind = "send" /\ requests[q].tab = t
        BY <1>2 DEF Answers
  <2>2. tabs[t].last = requests[q].msg
        BY <2>1 DEF LastSent
  <2> QED  BY <1>2, <2>2 DEF Answers
<1> QED  BY <1>1, <1>2 DEF PageGoal, Rests, Clears, Sends, Retries

\* Each of them keeps that one page at most can send a message again, and once.
LEMMA HeldOnceStep ==
    ASSUME TypeOK, PageGoal, HeldOnce
    PROVE  HeldOnce'
<1> DEFINE HoldsNext(t, m) ==
                \/ tabs'[t].last = m
                \/ tabs'[t].pending # None /\ tabs'[t].pending.msg = m
<1> SUFFICES ASSUME NEW m \in Messages
             PROVE  /\ posted'[m] <= 2
                    /\ \A s, t \in Tabs : HoldsNext(s, m) /\ HoldsNext(t, m) => s = t
                    /\ \A t \in Tabs : HoldsNext(t, m) => posted'[m] <= 1 /\ m <= typed'
                    /\ m > typed' => posted'[m] = 0
    BY DEF HeldOnce, Holds
<1>1. m \in Nat /\ m > 0 /\ posted[m] \in Nat /\ typed \in Nat
    BY BoundsAreNaturals DEF TypeOK, Messages
<1>2. /\ posted[m] <= 2
      /\ \A s, t \in Tabs : Holds(s, m) /\ Holds(t, m) => s = t
      /\ \A t \in Tabs : Holds(t, m) => posted[m] <= 1 /\ m <= typed
      /\ m > typed => posted[m] = 0
    BY DEF HeldOnce
<1>3. ASSUME NEW t \in Tabs, Rests(t) PROVE HoldsNext(t, m) => Holds(t, m)
    BY <1>3 DEF Rests, Holds
<1>4. ASSUME NEW t \in Tabs, Clears(t) PROVE HoldsNext(t, m) => Holds(t, m)
    BY <1>1, <1>4 DEF Clears, Holds
<1>5. ASSUME NEW t \in Tabs, NEW q \in Requests, Answers(t, q)
      PROVE  HoldsNext(t, m) => Holds(t, m)
    BY <1>5 DEF Answers, Holds
<1>6. CASE /\ UNCHANGED <<posted, typed>>
           /\ \A t \in Tabs : Rests(t) \/ Clears(t) \/ \E q \in Requests : Answers(t, q)
  <2>1. \A t \in Tabs : HoldsNext(t, m) => Holds(t, m)
        BY <1>3, <1>4, <1>5, <1>6
  <2> HIDE DEF HoldsNext
  <2> QED  BY <1>2, <1>6, <2>1
<1>7. ASSUME NEW s \in Tabs, NEW q \in Requests, Sends(s, q), \A t \in Tabs \ {s} : Rests(t)
      PROVE  /\ posted'[m] <= 2
             /\ \A r, t \in Tabs : HoldsNext(r, m) /\ HoldsNext(t, m) => r = t
             /\ \A t \in Tabs : HoldsNext(t, m) => posted'[m] <= 1 /\ m <= typed'
             /\ m > typed' => posted'[m] = 0
  <2>1. \A t \in Tabs \ {s} : HoldsNext(t, m) => Holds(t, m)
        BY <1>3, <1>7
  <2>2. HoldsNext(s, m) => m = typed + 1 \/ Holds(s, m)
        BY <1>7 DEF Sends, Holds
  <2>3. typed' = typed + 1 /\ posted'[m] = IF m = typed + 1 THEN posted[m] + 1 ELSE posted[m]
        BY <1>7 DEF Sends
  <2> HIDE DEF HoldsNext
  <2>4. CASE m = typed + 1
    <3>1. posted'[m] = 1 /\ \A t \in Tabs : ~Holds(t, m)
          BY <1>1, <1>2, <2>3, <2>4
    <3> QED  BY <1>1, <2>1, <2>3, <2>4, <3>1
  <2>5. CASE m # typed + 1
    <3>1. \A t \in Tabs : HoldsNext(t, m) => Holds(t, m)
          BY <2>1, <2>2, <2>5
    <3> QED  BY <1>1, <1>2, <2>3, <2>5, <3>1
  <2> QED  BY <2>4, <2>5
<1>8. ASSUME NEW s \in Tabs, NEW q \in Requests, Retries(s, q),
             \A t \in Tabs \ {s} : Rests(t)
      PROVE  /\ posted'[m] <= 2
             /\ \A r, t \in Tabs : HoldsNext(r, m) /\ HoldsNext(t, m) => r = t
             /\ \A t \in Tabs : HoldsNext(t, m) => posted'[m] <= 1 /\ m <= typed'
             /\ m > typed' => posted'[m] = 0
  <2>1. \A t \in Tabs \ {s} : HoldsNext(t, m) => Holds(t, m)
        BY <1>3, <1>8
  <2>2. ~HoldsNext(s, m)
        BY <1>1, <1>8 DEF Retries
  <2>3. typed' = typed
        /\ posted'[m] = IF m = tabs[s].pending.msg THEN posted[m] + 1 ELSE posted[m]
        BY <1>8 DEF Retries
  <2>4. m = tabs[s].pending.msg => Holds(s, m)
        BY <1>8 DEF Retries, Holds
  <2> HIDE DEF HoldsNext
  <2>5. CASE m = tabs[s].pending.msg
    <3>1. posted[m] <= 1 /\ m <= typed /\ \A t \in Tabs \ {s} : ~Holds(t, m)
          BY <1>2, <2>4, <2>5
    <3>2. \A t \in Tabs : ~HoldsNext(t, m)
          BY <2>1, <2>2, <3>1
    <3> QED  BY <1>1, <2>3, <2>5, <3>1, <3>2
  <2>6. CASE m # tabs[s].pending.msg
    <3>1. \A t \in Tabs : HoldsNext(t, m) => Holds(t, m)
          BY <2>1, <2>2
    <3> QED  BY <1>2, <2>3, <2>6, <3>1
  <2> QED  BY <2>5, <2>6
<1> QED  BY <1>6, <1>7, <1>8 DEF PageGoal

-----------------------------------------------------------------------------
(***************************************************************************)
(* The theorems.                                                           *)
(***************************************************************************)

LEMMA InitInv == Init => IInv
<1> SUFFICES ASSUME Init PROVE IInv
    OBVIOUS
<1> DEFINE first == [access |-> 1, refresh |-> 1]
           given == [access |-> 1, due |-> 0, refresh |-> 1, good |-> TRUE]
<1>1. 1 \in Grants /\ 1 \in 0 .. MaxGrants /\ 1 \in 0 .. MaxTokens /\ 0 \in 0 .. MaxTokens
      /\ 0 \notin Grants /\ \A g \in Grants : g > 0
    BY BoundsAreNaturals DEF Grants
<1>2. first \in Row /\ first # None /\ first.refresh = 1
    BY <1>1, NoneIsNothing DEF Row
<1>3. Granted(first) = given
    BY DEF Granted
<1>4. /\ \A g \in Grants : sessions[g] \in {None, first}
      /\ \A g \in Grants : provider[g] \in {NoGrant, given}
      /\ \A g \in Grants : sessions[g] = first <=> provider[g] = given
      /\ \A g \in Grants : provider[g] = given => g = 1
      /\ jar.session = 0 \/ (jar.session = 1 /\ provider[1] = given)
      /\ jar = [session |-> jar.session, state |-> 0]
      /\ sessions = [g \in Grants |-> sessions[g]]
      /\ provider = [g \in Grants |-> provider[g]]
  <2>1. CASE /\ sessions = [g \in Grants |-> None]
             /\ provider = [g \in Grants |-> NoGrant]
             /\ jar = [session |-> 0, state |-> 0]
    <3>1. NoGrant.access # given.access
          BY DEF NoGrant
    <3>2. NoGrant # given
          BY <3>1
    <3> HIDE DEF given
    <3> QED  BY <1>2, <2>1, <3>2
  <2>2. CASE /\ sessions = [g \in Grants |-> IF g = 1 THEN first ELSE None]
             /\ provider = [g \in Grants |-> IF g = 1 THEN Granted(first) ELSE NoGrant]
             /\ jar = [session |-> 1, state |-> 0]
    <3>1. NoGrant.access # given.access
          BY DEF NoGrant
    <3>2. NoGrant # given
          BY <3>1
    <3> HIDE DEF given
    <3> QED  BY <1>1, <1>2, <1>3, <2>2, <3>2
  <2> QED  BY <2>1, <2>2 DEF Init
<1>5. /\ NoGrant.access = 0 /\ NoGrant.refresh = 0 /\ NoGrant.good = FALSE
      /\ given.access = 1 /\ given.refresh = 1 /\ given.good = TRUE
      /\ {NoGrant, given} \subseteq [access : 0 .. MaxTokens, due : 0 .. MaxTokens,
                                     refresh : 0 .. MaxTokens, good : BOOLEAN]
  <2>1. NoGrant \in [access : 0 .. MaxTokens, due : 0 .. MaxTokens,
                     refresh : 0 .. MaxTokens, good : BOOLEAN]
        BY <1>1 DEF NoGrant
  <2>2. given \in [access : 0 .. MaxTokens, due : 0 .. MaxTokens,
                   refresh : 0 .. MaxTokens, good : BOOLEAN]
        BY <1>1
  <2> QED  BY <2>1, <2>2 DEF NoGrant
<1>6. \A q \in Requests : /\ requests[q] = Unused /\ requests[q].pc = "unused"
                          /\ requests[q].kind = "none" /\ requests[q].cookie = 0
                          /\ requests[q].tab = None
    BY DEF Init, Unused
<1>7. \A t \in Tabs : tabs[t] \in Tab /\ tabs[t].view = "chat"
  <2>1. \A b \in BOOLEAN : [FreshPage EXCEPT !.button = b] \in Tab
                           /\ [FreshPage EXCEPT !.button = b].view = "chat"
        BY FreshPageType DEF Tab, FreshPage
  <2>2. (jar.session # 0) \in BOOLEAN
        OBVIOUS
  <2> QED  BY <2>1, <2>2 DEF Init
<1> HIDE DEF given, first
<1>8. \A g \in Grants : Known(g) <=> provider[g] = given
    BY <1>4, <1>5 DEF Known
<1>9. TypeOK
  <2>1. sessions \in [Grants -> Row \cup {None}]
        BY <1>2, <1>4
  <2>2. provider \in [Grants -> [access : 0 .. MaxTokens, due : 0 .. MaxTokens,
                                 refresh : 0 .. MaxTokens, good : BOOLEAN]]
        BY <1>4, <1>5
  <2>3. jar \in [session : 0 .. MaxGrants, state : 0 .. MaxLogins]
        BY <1>1, <1>4, Zeros
  <2>4. requests \in [Requests -> Request]
        BY UnusedType DEF Init
  <2>5. tabs \in [Tabs -> Tab]
        BY <1>7 DEF Init
  <2>6. logins \in 0 .. MaxLogins /\ typed \in 0 .. MaxMessages /\ faults \in 0 .. MaxFaults
        /\ posted \in [Messages -> Nat] /\ loggedOut \subseteq Grants
        BY BoundsAreNaturals DEF Init
  <2> QED  BY <1>6, <2>1, <2>2, <2>3, <2>4, <2>5, <2>6 DEF TypeOK
<1>10. Issued
  <2>1. \A g \in Grants : provider[g].refresh <= provider[g].access
                          /\ (provider[g].good => provider[g].refresh > 0)
        BY <1>4, <1>5
  <2>2. \A g \in Grants : ~Known(g) => provider[g] = NoGrant
        BY <1>4, <1>8
  <2>3. \A g, h \in Grants : g < h /\ Known(h) => Known(g)
    <3>1. \A h \in Grants : Known(h) => h = 1
          BY <1>4, <1>8
    <3> QED  BY <3>1, BoundsAreNaturals DEF Grants
  <2> QED  BY <2>1, <2>2, <2>3 DEF Issued
<1>11. Stages /\ OneCallback /\ Alone /\ Dropped
    BY <1>6 DEF Stages, Stage, OneCallback, Alone, Dropped
<1>12. Leaving
    BY <1>7 DEF Leaving
<1>13. Cookies
    BY <1>1, <1>2, <1>4, <1>6, <1>8 DEF Cookies, Init
<1>14. Rows
  <2>1. \A g \in Grants : sessions[g] # None => Fits(g, sessions[g])
    <3>1. SUFFICES ASSUME NEW g \in Grants, sessions[g] # None PROVE Fits(g, sessions[g])
          OBVIOUS
    <3>2. sessions[g] = first /\ provider[g] = given
          BY <1>4, <3>1
    <3>3. sessions[g].refresh = 1 /\ provider[g].refresh = 1
          BY <1>2, <1>5, <3>2
    <3> QED  BY <3>3 DEF Fits
  <2> QED  BY <1>6, <2>1 DEF Rows
<1>15. LogoutHolds
    BY DEF LogoutHolds, Init
<1> QED  BY <1>9, <1>10, <1>11, <1>12, <1>13, <1>14, <1>15 DEF IInv

\* A step of the frontend or of the browser preserves the invariant.
LEMMA StepInv == IInv /\ [Next]_vars => IInv'
BY TypeStep, ProviderStep, RequestTypes, TabStep, OneCallbackStep, CookiesStep, AloneStep,
   RowsStep, DroppedStep, LogoutStep DEF IInv, ProviderGoal, TabGoal

\* The invariant of the server and of the provider.
LEMMA Invariance == Spec => []IInv
BY InitInv, StepInv, PTL DEF Spec

\* The types of all the variables, and that a page awaits its requests
\* (TypeOK): for every number of tabs, requests, grants and tokens.
THEOREM TypeCorrect == Spec => []TypeOK
<1>1. IInv => TypeOK  BY DEF IInv
<1> QED  BY <1>1, Invariance, PTL

\* A session that a logout has deleted stays deleted (logoutHandler,
\* GetBearerToken, SessionStore.Update): for every number of requests and grants.
THEOREM LogoutIsFinal == Spec => []LogoutHolds
<1>1. IInv => LogoutHolds  BY DEF IInv
<1> QED  BY <1>1, Invariance, PTL

\* A session ends by a logout or by a refresh that has failed (GetBearerToken).
THEOREM SessionsEndForCause == Spec => DroppedForCause
<1>1. ASSUME IInv, [Next]_vars, NEW g \in Grants, sessions[g] # None, sessions'[g] = None
      PROVE  \E q \in Requests : /\ requests[q].cookie = g
                                 /\ \/ requests[q].pc = "delete"
                                    \/ requests[q].pc = "drop" /\ RefreshTokenFails(q)
  <2>1. \A q \in Requests : requests[q].row # None
        BY <1>1, CookieTypes, NoneIsNothing DEF IInv
  <2>2. SessionMoves(g)
        BY <1>1, SessionStep DEF IInv, SessionGoal
  <2>3. PICK q \in Requests : requests[q].cookie = g /\ requests[q].pc \in {"drop", "delete"}
        BY <1>1, <2>1, <2>2 DEF SessionMoves
  <2> QED  BY <1>1, <2>3 DEF IInv, Dropped
<1>2. IInv /\ [Next]_vars =>
        [\A g \in Grants : sessions[g] # None /\ sessions'[g] = None =>
            \E q \in Requests :
                /\ requests[q].cookie = g
                /\ \/ requests[q].pc = "delete"
                   \/ requests[q].pc = "drop" /\ RefreshTokenFails(q)]_vars
    BY <1>1
<1> QED  BY <1>2, Invariance, PTL DEF Spec, DroppedForCause

-----------------------------------------------------------------------------
(***************************************************************************)
(* The theorems about the page rest on what the pages hold.                *)
(***************************************************************************)

LEMMA PageInit == Init => PageInv
<1> SUFFICES ASSUME Init PROVE PageInv
    OBVIOUS
<1>1. \A q \in Requests : requests[q].kind = "none"
    BY DEF Init, Unused
<1>2. \A t \in Tabs : ~tabs[t].sending /\ tabs[t].last = 0 /\ tabs[t].pending = None
    BY DEF Init, FreshPage
<1>3. \A q \in Requests : \A t \in Tabs : ~Open(q, t)
    BY <1>1 DEF Open
<1>4. Buttons
    BY <1>2, <1>3 DEF Buttons, Button
<1>5. LastSent
    BY <1>1 DEF LastSent
<1>6. OwnMessage
    BY <1>2 DEF OwnMessage
<1>7. HeldOnce
  <2>1. \A m \in Messages : m > 0 /\ posted[m] = 0
        BY BoundsAreNaturals DEF Init, Messages
  <2>2. \A m \in Messages : \A t \in Tabs : ~Holds(t, m)
        BY <1>2, <2>1 DEF Holds
  <2> QED  BY <2>1, <2>2 DEF HeldOnce
<1> QED  BY <1>4, <1>5, <1>6, <1>7 DEF PageInv

\* Every step keeps the invariant of the pages.
LEMMA PageInvStep == IInv /\ PageInv /\ [Next]_vars => PageInv'
BY PageStep, ButtonsStep, LastSentStep, OwnMessageStep, HeldOnceStep DEF IInv, PageInv

\* The invariant of the pages.
LEMMA PageInvariance == Spec => []PageInv
BY PageInit, PageInvStep, Invariance, PTL DEF Spec

\* What is sent again after an authentication is the message that was refused, and
\* no message is posted more than twice (handleAuthRequired,
\* checkPendingAuthMessage): for every number of tabs, requests and messages.
THEOREM RetriesAreTheirOwn == Spec => []RetriesOwnMessage
<1>1. PageInv => RetriesOwnMessage
    BY DEF PageInv, HeldOnce, OwnMessage, RetriesOwnMessage
<1> QED  BY <1>1, PageInvariance, PTL

\* A page whose Send button is disabled waits for the answer to one message
\* (sendMessage, checkPendingAuthMessage): for every number of tabs and requests.
THEOREM ButtonIsEnabledAgain == Spec => []SendButtonComesBack
<1>1. PageInv => SendButtonComesBack
  <2> SUFFICES ASSUME PageInv, NEW t \in Tabs, tabs[t].view = "chat"
               PROVE  LET open == {q \in Requests : requests[q].tab = t
                                       /\ requests[q].kind \in {"send", "retry"}} IN
                      /\ Cardinality(open) <= 1
                      /\ tabs[t].sending <=> open # {}
      BY DEF SendButtonComesBack
  <2> DEFINE open == {q \in Requests : requests[q].tab = t
                          /\ requests[q].kind \in {"send", "retry"}}
  <2>1. /\ \A q, r \in open : q = r
        /\ tabs[t].sending <=> open # {}
        BY DEF PageInv, Buttons, Button, Open
  <2>2. CASE open = {}
        BY <2>1, <2>2, FS_EmptySet
  <2>3. CASE open # {}
    <3>1. PICK q \in open : open = {q}
          BY <2>1, <2>3
    <3> HIDE DEF open
    <3>2. Cardinality(open) = 1
          BY <3>1, FS_Singleton
    <3> QED  BY <2>1, <3>2 DEF open
  <2> QED  BY <2>2, <2>3
<1> QED  BY <1>1, PageInvariance, PTL

=============================================================================
